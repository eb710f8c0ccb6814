------------------------------ MODULE NoteValue -----------------------------
(***************************************************************************)
(* Notes and what a set of notes is worth.  A note is the opening of a     *)
(* commitment: owner key, amount and blinding factor (circuits/lib/note).  *)
(* Under a collision-free hash the commitment determines the note and the  *)
(* note, through its owner's key, determines one nullifier, so the three   *)
(* are one value here.                                                     *)
(*                                                                         *)
(* Value counts coins: a note of amount a holds the coins <<note, 1>> ..   *)
(* <<note, a>>.  A sum written as a cardinality is one the provers know    *)
(* facts about, and needs no recursion.                                    *)
(***************************************************************************)
EXTENDS Naturals, FiniteSets

CONSTANTS
    Owner,          \* spend keys
    Blinding,       \* blinding factors
    MaxAmount       \* the circuits range-check amounts to 64 bits

ASSUME NoteConstants ==
    IsFiniteSet(Owner) /\ IsFiniteSet(Blinding) /\ MaxAmount \in Nat

Note == [owner : Owner, amount : 0 .. MaxAmount, blinding : Blinding]

Coins(notes) == {c \in notes \X (1 .. MaxAmount) : c[2] <= c[1].amount}

Value(notes) == Cardinality(Coins(notes))
=============================================================================
