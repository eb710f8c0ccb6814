--------------------------- MODULE ShieldedLedger ---------------------------
(***************************************************************************)
(* What a shielded pool promises, without trees, roots, proofs or lists.   *)
(* The pool holds tokens (custody), some of which back notes that can      *)
(* still be spent (live) and the rest of which settlement contracts        *)
(* account for (held: the margin of open positions, orders, fees).  A      *)
(* nullifier is used at most once, a note is worth its amount once, and    *)
(* nothing leaves that was not brought in.                                 *)
(***************************************************************************)
EXTENDS NoteValue, Integers

VARIABLES
    custody,    \* tokens the pool contract owns
    live,       \* notes that exist and are unspent
    spent,      \* notes whose nullifier is used
    held        \* tokens of custody the settlement contracts answer for

ledgerVars == <<custody, live, spent, held>>

LedgerTypeOK ==
    /\ custody \in Nat
    /\ live \in SUBSET Note
    /\ spent \in SUBSET Note
    /\ held \in Nat

LedgerInit == custody = 0 /\ live = {} /\ spent = {} /\ held = 0

\* The notes a step retires and the live notes it creates.
Retired == spent' \ spent
Minted  == live' \ live

\* Notes come to life only unspent, and die only by their nullifier.
NotesMove ==
    /\ spent \subseteq spent' /\ spent' \subseteq Note
    /\ live' \subseteq Note
    /\ live \ Retired \subseteq live'
    /\ live' \cap spent' = {}

\* A depositor pays for a note.  The note of a used nullifier is dead on
\* arrival: the tokens come in and no note comes to life.
Shield ==
    /\ Retired = {}
    /\ Value(Minted) <= custody' - custody
    /\ custody' \in Nat
    /\ held' = held

\* Notes are exchanged inside the pool.  A retired note that was not live is
\* a dummy input and brings nothing.
Exchange ==
    /\ Value(Minted) <= Value(Retired \cap live)
    /\ UNCHANGED <<custody, held>>

\* Live notes leave the pool, each for exactly its amount.
Exit ==
    /\ Minted = {}
    /\ Retired \subseteq live
    /\ custody' = custody - Value(Retired)
    /\ held' = held

\* A settlement contract takes live notes into what it holds, and mints
\* notes and pays out from what it then holds.
Settle ==
    /\ Retired \subseteq live
    /\ held' \in Nat
    /\ custody' \in Nat /\ custody' <= custody
    /\ held' + Value(Minted) + (custody - custody') <= held + Value(Retired)

\* Tokens arrive that a settlement contract will account for.
Fund ==
    /\ Retired = {} /\ Minted = {}
    /\ custody' \in Nat /\ custody <= custody'
    /\ held' \in Nat /\ held' - held = custody' - custody

LedgerNext == NotesMove /\ (Shield \/ Exchange \/ Exit \/ Settle \/ Fund)

LedgerSpec == LedgerInit /\ [][LedgerNext]_ledgerVars

-----------------------------------------------------------------------------
\* Every unspent note and everything the settlement contracts hold can be
\* paid from what the pool owns.
Backed == Value(live) + held <= custody

\* A note whose nullifier is used is not spendable again.
SpentIsFinal == live \cap spent = {}
=============================================================================
