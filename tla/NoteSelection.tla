----------------------------- MODULE NoteSelection -----------------------------
(***************************************************************************)
(* Which notes a transfer spends (lib/note-selection.ts).  A transfer has  *)
(* two inputs and a dummy stands in for a missing one, so the wallet pays  *)
(* from one note or two.  Notes are their amounts, in the store's order;   *)
(* the result is the amounts chosen, <<>> when the code throws.            *)
(*                                                                         *)
(* Sorting and the loop are written so that they can be reasoned about:    *)
(* SortSeq and SelectSeq have no definition the provers see, so the sort   *)
(* puts each note at its rank, and the loop is a function of its turns.    *)
(***************************************************************************)
EXTENDS Naturals, Sequences, FiniteSets, SequencesExt

CONSTANTS MaxNotes, MaxAmount       \* bounds of the notes compared

ASSUME SelectionConstants == MaxNotes \in Nat /\ MaxAmount \in Nat

Least(S) == CHOOSE x \in S : \A y \in S : x <= y

\* filter, then a stable ascending sort.
Usable(amounts) ==
    LET positive == {i \in DOMAIN amounts : amounts[i] > 0}
        upTo(i) == {j \in positive : amounts[j] < amounts[i] \/ (amounts[j] = amounts[i] /\ j <= i)}
        atRank(k) == CHOOSE i \in positive : Cardinality(upTo(i)) = k
    IN  [k \in 1 .. Cardinality(positive) |-> amounts[atRank(k)]]

\* A mutant of Turn: the larger note is dropped when the two are too little.
TurnWrongEnd(u, amount, s) ==
    LET total == u[s.lo] + u[s.hi]
    IN  IF total < amount THEN [s EXCEPT !.hi = @ - 1]
        ELSE [lo   |-> s.lo + 1,
              hi   |-> s.hi,
              best |-> IF s.best = <<>> \/ total < s.best[1] + s.best[2]
                          THEN <<u[s.lo], u[s.hi]>> ELSE s.best]

\* Two pointers over the ascending amounts, and the best pair so far.
Turn(u, amount, s) ==
    LET total == u[s.lo] + u[s.hi]
    IN  IF total < amount THEN [s EXCEPT !.lo = @ + 1]
        ELSE [lo   |-> s.lo,
              hi   |-> s.hi - 1,
              best |-> IF s.best = <<>> \/ total < s.best[1] + s.best[2]
                          THEN <<u[s.lo], u[s.hi]>> ELSE s.best]

\* Every turn moves one pointer towards the other, so Len(u) turns are enough.
BestPair(u, amount) ==
    LET After[n \in 0 .. Len(u)] ==
            IF n = 0 THEN [lo |-> 1, hi |-> Len(u), best |-> <<>>]
            ELSE LET s == After[n - 1]
                 IN  IF s.lo < s.hi THEN Turn(u, amount, s) ELSE s
    IN  After[Len(u)].best

SelectNotes(amounts, amount) ==
    LET u == Usable(amounts)
        single == {i \in 1 .. Len(u) : u[i] >= amount}
    IN  IF single # {} THEN <<u[Least(single)]>> ELSE BestPair(u, amount)

\* The two largest, an absent one counting for nothing.
MaxSendable(amounts) ==
    LET u == Usable(amounts)
        last(k) == IF Len(u) >= k THEN u[Len(u) + 1 - k] ELSE 0
    IN  last(1) + last(2)

-----------------------------------------------------------------------------
(* What the module's own comments promise, over a bounded range of notes   *)
(* and amounts.                                                            *)

Wallets == UNION {[1 .. n -> 0 .. MaxAmount] : n \in 0 .. MaxNotes}

PairTotals(w) == {w[p[1]] + w[p[2]] : p \in {q \in (DOMAIN w) \X (DOMAIN w) :
                                             q[1] < q[2] /\ w[q[1]] > 0 /\ w[q[2]] > 0}}

\* The tightest single note if one covers the amount, else the tightest pair,
\* else an error; and the amount shown as the largest that can be sent is just
\* that: everything up to it can be paid and nothing beyond.
Tightest(w) ==
    LET most == MaxSendable(w) IN
    \A amount \in 1 .. 2 * MaxAmount + 1 :
        LET chosen == SelectNotes(w, amount)
            singles == {w[i] : i \in {j \in DOMAIN w : w[j] >= amount}}
            pairs == {t \in PairTotals(w) : t >= amount}
        IN  /\ singles # {} => chosen = <<Least(singles)>>
            /\ singles = {} /\ pairs # {} => Len(chosen) = 2 /\ chosen[1] + chosen[2] = Least(pairs)
            /\ (chosen = <<>>) <=> amount > most
=============================================================================
