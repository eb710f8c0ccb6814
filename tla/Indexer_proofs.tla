---------------------------- MODULE Indexer_proofs ---------------------------
(***************************************************************************)
(* The indexer's tables, for any pages, scan windows, retention, positions *)
(* and faults: below the stored cursor nothing is missing that was not     *)
(* given up, and the leaves it serves have no gap before the first that a  *)
(* settlement minted.                                                      *)
(*                                                                         *)
(* The chain's events are in the order of their ledgers, so everything     *)
(* before a ledger is a prefix of them (LedgersSplit); a tick has settled  *)
(* a prefix (Reached), and where its page ends tells apart what is settled *)
(* from what is to come (PageEnds).                                        *)
(***************************************************************************)
EXTENDS Indexer, FiniteSetTheorems, SequenceTheorems, TLAPS

Settled(i) == Recorded(i) \/ GivenUp(i)

\* The events before a ledger are a prefix of the chain.
LedgersSplit ==
    \A ledger \in Nat : \E n \in 0 .. Len(chain) :
        \A i \in 1 .. Len(chain) : i <= n <=> chain[i].ledger < ledger

\* Leaf events count the leaves before them; as long as no settlement has minted
\* one, every smaller index is that of an earlier leaf event.
LeavesCount ==
    /\ \A i \in 1 .. Len(chain) : chain[i].kind = "leaf" => chain[i].key = LeavesBefore(i)
    /\ \A n \in 0 .. Len(chain) :
           (\A s \in Settlements : s > n) =>
               \A m \in 0 .. LeavesBefore(n + 1) - 1 :
                   \E j \in 1 .. n : chain[j].kind = "leaf" /\ chain[j].key = m

\* Ledgers grow along the chain, the last is the one being built, and a position
\* is closed after it was opened.
ChainShape ==
    /\ \A i, j \in 1 .. Len(chain) : i <= j => chain[i].ledger <= chain[j].ledger
    /\ \A i \in 1 .. Len(chain) : chain[i].ledger \in StartLedger + 1 .. head + 1
    /\ StartLedger <= head
    /\ \A i \in 1 .. Len(chain) : chain[i].kind = "close" =>
           \E j \in 1 .. i - 1 : chain[j].kind = "open" /\ chain[j].key = chain[i].key
    /\ LedgersSplit /\ LeavesCount

\* A leaf is recorded only after all that came before it is settled.
LeavesInOrder ==
    \A key \in leaves : \E i \in 1 .. Len(chain) :
        /\ chain[i].kind = "leaf" /\ chain[i].key = key
        /\ \A j \in 1 .. i - 1 : Settled(j)

\* What the tick has settled, or started behind.
Reached(i) ==
    IF poll.phase = "page" THEN i <= poll.from
    ELSE IF poll.cursor = NoCursor THEN chain[i].ledger < poll.startLedger
    ELSE i <= poll.cursor.pos

\* A cursor: whatever is before its ledger is before its position, and nothing
\* before its position is after its ledger.
PageEnds(cursor) ==
    /\ cursor.ledger <= head /\ cursor.pos <= Len(chain)
    /\ \A i \in 1 .. Len(chain) :
           /\ chain[i].ledger < cursor.ledger => i <= cursor.pos
           /\ i <= cursor.pos => chain[i].ledger <= cursor.ledger

\* The ledger the tick has come to.
Frontier ==
    IF poll.phase = "page" THEN poll.next.ledger
    ELSE IF poll.cursor = NoCursor THEN poll.startLedger ELSE poll.cursor.ledger

PollSound ==
    poll # Idle =>
        /\ poll.startLedger \in 1 .. head + 1
        /\ poll.processed >= 1 /\ poll.processed <= Frontier /\ poll.scanned <= Frontier
        /\ \A i \in 1 .. Len(chain) : Reached(i) => Settled(i)
        /\ poll.cursor # NoCursor => PageEnds(poll.cursor)
        /\ poll.phase = "page" =>
               /\ PageEnds(poll.next) /\ poll.from <= poll.next.pos
               /\ poll.next.ledger <= poll.seenHead /\ poll.seenHead <= head
               /\ poll.next = poll.cursor =>
                      \A i \in 1 .. Len(chain) :
                          chain[i].ledger <= poll.seenHead => i <= poll.next.pos

StoredSettled == \A i \in 1 .. Len(chain) : chain[i].ledger < stored => Settled(i)

IndexerInv ==
    /\ IndexerTypeOK /\ ChainShape /\ StoredSettled /\ LeavesInOrder /\ PollSound
    /\ oldest <= head

\* A poll is its nine parts.
LEMMA PollParts ==
    ASSUME NEW r \in Poll
    PROVE  /\ r = [phase |-> r.phase, startLedger |-> r.startLedger, cursor |-> r.cursor,
                   next |-> r.next, from |-> r.from, processed |-> r.processed,
                   scanned |-> r.scanned, seenHead |-> r.seenHead, pages |-> r.pages]
           /\ r.phase \in {"request", "page"} /\ r.startLedger \in Nat
           /\ r.cursor \in PageCursor /\ r.next \in PageCursor /\ r.from \in Nat
           /\ r.processed \in Nat /\ r.scanned \in Nat /\ r.seenHead \in Nat
           /\ r.pages \in 0 .. MAX_PAGES_PER_TICK
BY DEF Poll

\* RequestPage's change of the loop's variables, part by part.
LEMMA PollRequested ==
    ASSUME NEW r \in Poll, NEW x \in PageCursor, NEW n \in Nat, NEW h \in Nat
    PROVE  [r EXCEPT !.phase = "page", !.next = x, !.from = n, !.seenHead = h, !.pages = @ + 1]
               = [phase |-> "page", startLedger |-> r.startLedger, cursor |-> r.cursor,
                  next |-> x, from |-> n, processed |-> r.processed,
                  scanned |-> r.scanned, seenHead |-> h, pages |-> r.pages + 1]
<1>1. PICK p : p = [r EXCEPT !.phase = "page", !.next = x]
  OBVIOUS
<1>2. p = [phase |-> "page", startLedger |-> r.startLedger, cursor |-> r.cursor,
           next |-> x, from |-> r.from, processed |-> r.processed,
           scanned |-> r.scanned, seenHead |-> r.seenHead, pages |-> r.pages]
  BY <1>1 DEF Poll
<1>3. PICK q : q = [p EXCEPT !.from = n]
  OBVIOUS
<1>4. q = [phase |-> "page", startLedger |-> r.startLedger, cursor |-> r.cursor,
           next |-> x, from |-> n, processed |-> r.processed,
           scanned |-> r.scanned, seenHead |-> r.seenHead, pages |-> r.pages]
  BY <1>2, <1>3
<1>5. PICK s : s = [q EXCEPT !.seenHead = h]
  OBVIOUS
<1>6. s = [phase |-> "page", startLedger |-> r.startLedger, cursor |-> r.cursor,
           next |-> x, from |-> n, processed |-> r.processed,
           scanned |-> r.scanned, seenHead |-> h, pages |-> r.pages]
  BY <1>4, <1>5
<1>7. [s EXCEPT !.pages = @ + 1] = [phase |-> "page", startLedger |-> r.startLedger,
           cursor |-> r.cursor, next |-> x, from |-> n, processed |-> r.processed,
           scanned |-> r.scanned, seenHead |-> h, pages |-> r.pages + 1]
  BY <1>6
<1>8. [r EXCEPT !.phase = "page", !.next = x, !.from = n, !.seenHead = h, !.pages = @ + 1]
          = [[r EXCEPT !.phase = "page", !.next = x, !.from = n]
                 EXCEPT !.seenHead = h, !.pages = @ + 1]
  BY DEF Poll
<1>9. [r EXCEPT !.phase = "page", !.next = x, !.from = n] = q
  BY <1>1, <1>3
<1>10. [q EXCEPT !.seenHead = h, !.pages = @ + 1] = [s EXCEPT !.pages = @ + 1]
  BY <1>4, <1>5
<1> QED
  BY <1>7, <1>8, <1>9, <1>10

\* PassEvent's.
LEMMA PollPassed ==
    ASSUME NEW r \in Poll, NEW ledger \in Nat
    PROVE  [r EXCEPT !.from = @ + 1, !.processed = Larger(@, ledger)]
               = [phase |-> r.phase, startLedger |-> r.startLedger, cursor |-> r.cursor,
                  next |-> r.next, from |-> r.from + 1, processed |-> Larger(r.processed, ledger),
                  scanned |-> r.scanned, seenHead |-> r.seenHead, pages |-> r.pages]
<1>1. PICK n : n = r.from + 1
  OBVIOUS
<1>2. PICK done : done = Larger(r.processed, ledger)
  OBVIOUS
<1>3. PICK p : p = [r EXCEPT !.from = n]
  OBVIOUS
<1>4. p = [phase |-> r.phase, startLedger |-> r.startLedger, cursor |-> r.cursor,
           next |-> r.next, from |-> n, processed |-> r.processed,
           scanned |-> r.scanned, seenHead |-> r.seenHead, pages |-> r.pages]
  BY <1>3 DEF Poll
<1>5. [p EXCEPT !.processed = done]
          = [phase |-> r.phase, startLedger |-> r.startLedger, cursor |-> r.cursor,
             next |-> r.next, from |-> n, processed |-> done,
             scanned |-> r.scanned, seenHead |-> r.seenHead, pages |-> r.pages]
  BY <1>4
<1>6. [r EXCEPT !.from = @ + 1, !.processed = Larger(@, ledger)]
          = [r EXCEPT !.from = r.from + 1, !.processed = Larger(r.processed, ledger)]
  BY DEF Poll
<1>7. [r EXCEPT !.from = n, !.processed = done] = [p EXCEPT !.processed = done]
  BY <1>3 DEF Poll
<1> QED
  BY <1>1, <1>2, <1>5, <1>6, <1>7

\* NextPage's.
LEMMA PollTurned ==
    ASSUME NEW r \in Poll
    PROVE  [r EXCEPT !.phase = "request", !.cursor = r.next, !.scanned = Larger(@, r.next.ledger)]
               = [phase |-> "request", startLedger |-> r.startLedger, cursor |-> r.next,
                  next |-> r.next, from |-> r.from, processed |-> r.processed,
                  scanned |-> Larger(r.scanned, r.next.ledger), seenHead |-> r.seenHead,
                  pages |-> r.pages]
<1>1. PICK done : done = Larger(r.scanned, r.next.ledger)
  OBVIOUS
<1>2. PICK p : p = [r EXCEPT !.phase = "request", !.cursor = r.next]
  OBVIOUS
<1>3. p = [phase |-> "request", startLedger |-> r.startLedger, cursor |-> r.next,
           next |-> r.next, from |-> r.from, processed |-> r.processed,
           scanned |-> r.scanned, seenHead |-> r.seenHead, pages |-> r.pages]
  BY <1>2 DEF Poll
<1>4. [p EXCEPT !.scanned = done]
          = [phase |-> "request", startLedger |-> r.startLedger, cursor |-> r.next,
             next |-> r.next, from |-> r.from, processed |-> r.processed,
             scanned |-> done, seenHead |-> r.seenHead, pages |-> r.pages]
  BY <1>3
<1>5. [r EXCEPT !.phase = "request", !.cursor = r.next, !.scanned = Larger(@, r.next.ledger)]
          = [r EXCEPT !.phase = "request", !.cursor = r.next,
                      !.scanned = Larger(r.scanned, r.next.ledger)]
  BY DEF Poll
<1>6. [r EXCEPT !.phase = "request", !.cursor = r.next, !.scanned = done]
          = [p EXCEPT !.scanned = done]
  BY <1>2 DEF Poll
<1> QED
  BY <1>1, <1>4, <1>5, <1>6

-----------------------------------------------------------------------------
(* The chain.                                                              *)

\* As long as no settlement has minted one, every smaller index is there.
LEMMA SmallerIndexes ==
    ASSUME LeavesCount, NEW n \in 0 .. Len(chain), \A s \in Settlements : s > n,
           NEW m \in 0 .. LeavesBefore(n + 1) - 1
    PROVE  \E j \in 1 .. n : chain[j].kind = "leaf" /\ chain[j].key = m
  BY Zenon DEF LeavesCount

LEMMA EventFacts ==
    ASSUME IndexerTypeOK
    PROVE  /\ Len(chain) \in Nat
           /\ \A i \in 1 .. Len(chain) :
                  /\ chain[i] \in Event
                  /\ chain[i].ledger \in Nat /\ chain[i].mints \in 0 .. 1
                  /\ chain[i].kind \in {"leaf", "open", "close"}
                  /\ chain[i].kind = "leaf" => chain[i].key \in Nat /\ chain[i].mints = 1
                  /\ chain[i].kind # "leaf" => chain[i].key \in PositionId
<1>1. chain \in Seq(Event)
  BY DEF IndexerTypeOK
<1>2. Len(chain) \in Nat /\ \A i \in 1 .. Len(chain) : chain[i] \in Event
  BY <1>1, LenProperties, ElementOfSeq
<1>3. ASSUME NEW e \in Event
      PROVE  /\ e.ledger \in Nat /\ e.mints \in 0 .. 1
             /\ e.kind \in {"leaf", "open", "close"}
             /\ e.kind = "leaf" => e.key \in Nat /\ e.mints = 1
             /\ e.kind # "leaf" => e.key \in PositionId
  BY DEF Event
<1> QED
  BY <1>2, <1>3

\* An event is before a ledger if it is among the first EventsBefore of it.
LEMMA EventsBeforeSplits ==
    ASSUME IndexerTypeOK, LedgersSplit, NEW ledger \in Nat
    PROVE  /\ EventsBefore(ledger) \in 0 .. Len(chain)
           /\ \A i \in 1 .. Len(chain) : i <= EventsBefore(ledger) <=> chain[i].ledger < ledger
<1>1. Len(chain) \in Nat
  BY EventFacts
<1>2. PICK n \in 0 .. Len(chain) : \A i \in 1 .. Len(chain) : i <= n <=> chain[i].ledger < ledger
  BY DEF LedgersSplit
<1>3. {i \in 1 .. Len(chain) : chain[i].ledger < ledger} = 1 .. n
  BY <1>1, <1>2
<1>4. Cardinality(1 .. n) = n
  BY <1>1, FS_Interval
<1>5. EventsBefore(ledger) = n
  BY <1>3, <1>4 DEF EventsBefore
<1> QED
  BY <1>2, <1>5

\* LeavesBefore counts: it starts at 0 and grows by what an event mints.
LEMMA LeavesBeforeCounts ==
    ASSUME IndexerTypeOK
    PROVE  /\ \A i \in 1 .. Len(chain) + 1 : LeavesBefore(i) \in Nat
           /\ LeavesBefore(1) = 0
           /\ \A i \in 1 .. Len(chain) : LeavesBefore(i + 1) = LeavesBefore(i) + chain[i].mints
           /\ \A i, j \in 1 .. Len(chain) + 1 : i <= j => LeavesBefore(i) <= LeavesBefore(j)
<1> DEFINE Minting(i) == {j \in 1 .. i - 1 : chain[j].mints = 1}
<1>0. /\ Len(chain) \in Nat
      /\ \A i \in 1 .. Len(chain) : chain[i].mints \in 0 .. 1
  BY EventFacts
<1>1. ASSUME NEW i \in 1 .. Len(chain) + 1
      PROVE  IsFiniteSet(Minting(i)) /\ Cardinality(Minting(i)) \in Nat
  <2>1. IsFiniteSet(1 .. i - 1)
    BY <1>0, FS_Interval
  <2>2. Minting(i) \in SUBSET (1 .. i - 1)
    OBVIOUS
  <2> HIDE DEF Minting
  <2>3. IsFiniteSet(Minting(i))
    BY <2>1, <2>2, FS_Subset
  <2> QED
    BY <2>3, FS_CardinalityType
<1>2. LeavesBefore(1) = 0
  <2>1. Minting(1) = {}
    OBVIOUS
  <2> QED
    BY <2>1, FS_EmptySet DEF LeavesBefore
<1>3. ASSUME NEW i \in 1 .. Len(chain)
      PROVE  LeavesBefore(i + 1) = LeavesBefore(i) + chain[i].mints
  <2>1. IsFiniteSet(Minting(i)) /\ Cardinality(Minting(i)) \in Nat
    BY <1>0, <1>1
  <2>2. i \notin Minting(i)
    BY <1>0
  <2>3. CASE chain[i].mints = 1
    <3>1. Minting(i + 1) = Minting(i) \cup {i}
      BY <1>0, <2>3
    <3>2. Cardinality(Minting(i) \cup {i}) = Cardinality(Minting(i)) + 1
      BY <2>1, <2>2, FS_AddElement
    <3> QED
      BY <2>3, <3>1, <3>2 DEF LeavesBefore
  <2>4. CASE chain[i].mints = 0
    <3>1. 1 .. (i + 1) - 1 = (1 .. i - 1) \cup {i}
      BY <1>0
    <3>2. \A j \in Minting(i + 1) : j \in Minting(i)
      BY <2>4, <3>1
    <3>3. \A j \in Minting(i) : j \in Minting(i + 1)
      BY <3>1
    <3>4. Minting(i + 1) = Minting(i)
      BY <3>2, <3>3
    <3>5. LeavesBefore(i + 1) = Cardinality(Minting(i + 1))
      BY <1>0 DEF LeavesBefore
    <3>6. LeavesBefore(i) = Cardinality(Minting(i))
      BY DEF LeavesBefore
    <3> HIDE DEF Minting
    <3> QED
      BY <2>1, <2>4, <3>4, <3>5, <3>6
  <2> QED
    BY <1>0, <2>3, <2>4
<1>4. ASSUME NEW i \in 1 .. Len(chain) + 1, NEW j \in 1 .. Len(chain) + 1, i <= j
      PROVE  LeavesBefore(i) <= LeavesBefore(j)
  <2>1. Minting(i) \in SUBSET Minting(j)
    BY <1>0, <1>4
  <2>2. IsFiniteSet(Minting(j))
    BY <1>1
  <2> HIDE DEF Minting
  <2>3. Cardinality(Minting(i)) <= Cardinality(Minting(j))
    BY <2>1, <2>2, FS_Subset
  <2> QED
    BY <2>3 DEF Minting, LeavesBefore
<1> QED
  BY <1>1, <1>2, <1>3, <1>4 DEF LeavesBefore

\* What a transaction appends.
LEMMA EmitAppends ==
    ASSUME IndexerTypeOK, Emit
    PROVE  \E e \in Event :
               /\ chain' = Append(chain, e) /\ e.ledger = head + 1
               /\ e.kind = "leaf" => e.key = LeavesBefore(Len(chain) + 1)
               /\ e.kind = "close" =>
                      \E j \in 1 .. Len(chain) : chain[j].kind = "open" /\ chain[j].key = e.key
<1>1. head + 1 \in Nat /\ LeavesBefore(Len(chain) + 1) \in Nat
  BY EventFacts, LeavesBeforeCounts DEF IndexerTypeOK
<1>2. PICK e : /\ chain' = Append(chain, e)
               /\ \/ e = [ledger |-> head + 1, kind |-> "leaf",
                          key |-> LeavesBefore(Len(chain) + 1), mints |-> 1]
                  \/ \E id \in PositionId :
                         e = [ledger |-> head + 1, kind |-> "open", key |-> id, mints |-> 1]
                  \/ \E id \in PositionId, n \in 0 .. 1 :
                         /\ WasEmitted("open", id)
                         /\ e = [ledger |-> head + 1, kind |-> "close", key |-> id, mints |-> n]
  BY DEF Emit
<1>3. CASE e = [ledger |-> head + 1, kind |-> "leaf",
                key |-> LeavesBefore(Len(chain) + 1), mints |-> 1]
  <2>1. e \in Event
    BY <1>1, <1>3 DEF Event
  <2> QED
    BY <1>2, <1>3, <2>1
<1>4. ASSUME NEW id \in PositionId,
             e = [ledger |-> head + 1, kind |-> "open", key |-> id, mints |-> 1]
      PROVE  e \in Event /\ e.kind = "open" /\ e.ledger = head + 1
  BY <1>1, <1>4 DEF Event
<1>5. ASSUME NEW id \in PositionId, NEW n \in 0 .. 1, WasEmitted("open", id),
             e = [ledger |-> head + 1, kind |-> "close", key |-> id, mints |-> n]
      PROVE  /\ e \in Event /\ e.kind = "close" /\ e.ledger = head + 1
             /\ \E j \in 1 .. Len(chain) : chain[j].kind = "open" /\ chain[j].key = e.key
  <2>1. e \in Event /\ e.kind = "close" /\ e.ledger = head + 1 /\ e.key = id
    BY <1>1, <1>5 DEF Event
  <2> QED
    BY <1>5, <2>1 DEF WasEmitted, Emitted
<1> QED
  BY <1>2, <1>3, <1>4, <1>5

\* What comes after the chain's end changes nothing before it.
LEMMA PrefixKept ==
    ASSUME IndexerTypeOK, NEW e \in Event, chain' = Append(chain, e)
    PROVE  /\ chain' \in Seq(Event) /\ Len(chain') = Len(chain) + 1
           /\ \A i \in 1 .. Len(chain) : chain'[i] = chain[i]
           /\ chain'[Len(chain) + 1] = e
           /\ \A i \in 1 .. Len(chain) + 1 : LeavesBefore(i)' = LeavesBefore(i)
           /\ \A n \in Nat : n = Len(chain) => LeavesBefore(n + 2)' = LeavesBefore(n + 1) + e.mints
<1>1. chain \in Seq(Event) /\ Len(chain) \in Nat
  BY EventFacts DEF IndexerTypeOK
<1>2. /\ chain' \in Seq(Event) /\ Len(chain') = Len(chain) + 1
      /\ \A i \in 1 .. Len(chain) : chain'[i] = chain[i]
      /\ chain'[Len(chain) + 1] = e
  BY <1>1, AppendProperties
<1>3. ASSUME NEW i \in 1 .. Len(chain) + 1
      PROVE  LeavesBefore(i)' = LeavesBefore(i)
  <2>1. \A j \in 1 .. i - 1 : chain'[j] = chain[j]
    BY <1>1, <1>2
  <2>2. {j \in 1 .. i - 1 : chain'[j].mints = 1} = {j \in 1 .. i - 1 : chain[j].mints = 1}
    BY <2>1
  <2> QED
    BY <2>2 DEF LeavesBefore
<1>4. ASSUME NEW n \in Nat, n = Len(chain)
      PROVE  LeavesBefore(n + 2)' = LeavesBefore(n + 1) + e.mints
  <2> DEFINE old == {j \in 1 .. n : chain[j].mints = 1}
             new == {j \in 1 .. n + 1 : chain'[j].mints = 1}
  <2>1. LeavesBefore(n + 1) = Cardinality(old)
    <3>1. (n + 1) - 1 = n
      OBVIOUS
    <3> QED
      BY <3>1 DEF LeavesBefore
  <2>2. LeavesBefore(n + 2)' = Cardinality(new)
    <3>1. (n + 2) - 1 = n + 1
      OBVIOUS
    <3> QED
      BY <3>1 DEF LeavesBefore
  <2>3. 1 .. n + 1 = (1 .. n) \cup {n + 1}
    OBVIOUS
  <2>4. \A j \in 1 .. n : j \in new <=> j \in old
    BY <1>2, <1>4
  <2>5. n + 1 \in new <=> e.mints = 1
    BY <1>2, <1>4
  <2>6. IsFiniteSet(1 .. n) /\ old \in SUBSET (1 .. n) /\ n + 1 \notin 1 .. n
    BY FS_Interval
  <2>7. new \in SUBSET (1 .. n + 1)
    OBVIOUS
  <2>8. e.mints \in {0, 1}
    BY DEF Event
  <2> HIDE DEF old, new
  <2>9. IsFiniteSet(old) /\ Cardinality(old) \in Nat
    BY <2>6, FS_Subset, FS_CardinalityType
  <2>10. CASE e.mints = 1
    <3>1. new = old \cup {n + 1}
      BY <2>3, <2>4, <2>5, <2>6, <2>7, <2>10
    <3>2. n + 1 \notin old
      BY <2>6
    <3> QED
      BY <2>1, <2>2, <2>9, <2>10, <3>1, <3>2, FS_AddElement
  <2>11. CASE e.mints = 0
    <3>1. n + 1 \notin new
      BY <2>5, <2>11
    <3>2. new \in SUBSET (1 .. n)
      BY <2>3, <2>7, <3>1
    <3>3. new = old
      BY <2>4, <2>6, <3>2
    <3> QED
      BY <2>1, <2>2, <2>9, <2>11, <3>3
  <2> QED
    BY <2>8, <2>10, <2>11
<1> QED
  BY <1>2, <1>3, <1>4

LEMMA EmitKeepsChain ==
    ASSUME IndexerTypeOK, ChainShape, Emit
    PROVE  ChainShape'
<1>0. PICK n \in Nat : n = Len(chain)
  BY EventFacts
<1>1. PICK e \in Event :
          /\ chain' = Append(chain, e) /\ e.ledger = head + 1
          /\ e.kind = "leaf" => e.key = LeavesBefore(n + 1)
          /\ e.kind = "close" =>
                 \E j \in 1 .. n : chain[j].kind = "open" /\ chain[j].key = e.key
  BY <1>0, EmitAppends
<1>2. /\ Len(chain') = n + 1 /\ chain'[n + 1] = e
      /\ \A i \in 1 .. n : chain'[i] = chain[i]
      /\ \A i \in 1 .. n + 1 : LeavesBefore(i)' = LeavesBefore(i)
      /\ LeavesBefore(n + 2)' = LeavesBefore(n + 1) + e.mints
  BY <1>0, <1>1, PrefixKept
<1>3. head' = head /\ head \in Nat /\ e.ledger \in Nat
  BY <1>1 DEF Emit, IndexerTypeOK
<1>4. /\ \A i \in 1 .. n : chain[i].ledger \in Nat /\ chain[i].ledger <= head + 1
      /\ \A i, j \in 1 .. n : i <= j => chain[i].ledger <= chain[j].ledger
  BY <1>0, <1>3, EventFacts, IndexerConstants DEF ChainShape
<1>5. \A i \in 1 .. n + 1 : i \in 1 .. n \/ i = n + 1
  OBVIOUS
<1>6. \A i \in 1 .. n + 1 : chain'[i].ledger \in StartLedger + 1 .. head' + 1
  <2> SUFFICES ASSUME NEW i \in 1 .. n + 1
               PROVE  chain'[i].ledger \in StartLedger + 1 .. head' + 1
    OBVIOUS
  <2>1. CASE i = n + 1
    BY <1>1, <1>2, <1>3, <2>1, IndexerConstants DEF ChainShape
  <2>2. CASE i \in 1 .. n
    BY <1>0, <1>2, <1>3, <2>2 DEF ChainShape
  <2> QED
    BY <1>5, <2>1, <2>2
<1>7. \A i, j \in 1 .. n + 1 : i <= j => chain'[i].ledger <= chain'[j].ledger
  <2> SUFFICES ASSUME NEW i \in 1 .. n + 1, NEW j \in 1 .. n + 1, i <= j
               PROVE  chain'[i].ledger <= chain'[j].ledger
    OBVIOUS
  <2>1. CASE j = n + 1
    BY <1>1, <1>2, <1>3, <1>6, <2>1
  <2>2. CASE j \in 1 .. n
    <3>1. i \in 1 .. n
      BY <2>2
    <3> QED
      BY <1>2, <1>4, <2>2, <3>1
  <2> QED
    BY <1>5, <2>1, <2>2
<1>8. \A i \in 1 .. n + 1 : chain'[i].kind = "close" =>
           \E j \in 1 .. i - 1 : chain'[j].kind = "open" /\ chain'[j].key = chain'[i].key
  <2> SUFFICES ASSUME NEW i \in 1 .. n + 1, chain'[i].kind = "close"
               PROVE  \E j \in 1 .. i - 1 : chain'[j].kind = "open" /\ chain'[j].key = chain'[i].key
    OBVIOUS
  <2>1. CASE i = n + 1
    <3>1. PICK j \in 1 .. n : chain[j].kind = "open" /\ chain[j].key = e.key
      BY <1>1, <1>2, <2>1
    <3>2. j \in 1 .. i - 1
      BY <2>1
    <3> QED
      BY <1>2, <2>1, <3>1, <3>2
  <2>2. CASE i \in 1 .. n
    <3>1. chain[i].kind = "close"
      BY <1>2, <2>2
    <3>2. PICK j \in 1 .. i - 1 : chain[j].kind = "open" /\ chain[j].key = chain[i].key
      BY <1>0, <2>2, <3>1 DEF ChainShape
    <3>3. j \in 1 .. n
      BY <2>2
    <3> QED
      BY <1>2, <2>2, <3>2, <3>3
  <2> QED
    BY <1>5, <2>1, <2>2
<1>9. \A ledger \in Nat : \E m \in 0 .. n + 1 :
          \A i \in 1 .. n + 1 : i <= m <=> chain'[i].ledger < ledger
  <2> SUFFICES ASSUME NEW ledger \in Nat
               PROVE  \E m \in 0 .. n + 1 :
                          \A i \in 1 .. n + 1 : i <= m <=> chain'[i].ledger < ledger
    OBVIOUS
  <2>1. CASE e.ledger < ledger
    <3>1. \A i \in 1 .. n + 1 : chain'[i].ledger < ledger
      <4> SUFFICES ASSUME NEW i \in 1 .. n + 1 PROVE chain'[i].ledger < ledger
        OBVIOUS
      <4>1. CASE i = n + 1
        BY <1>2, <2>1, <4>1
      <4>2. CASE i \in 1 .. n
        BY <1>1, <1>2, <1>3, <1>4, <2>1, <4>2
      <4> QED
        BY <1>5, <4>1, <4>2
    <3>2. \A i \in 1 .. n + 1 : i <= n + 1 <=> chain'[i].ledger < ledger
      BY <3>1
    <3>3. n + 1 \in 0 .. n + 1
      OBVIOUS
    <3> QED
      BY <3>2, <3>3
  <2>2. CASE ~(e.ledger < ledger)
    <3>1. PICK m \in 0 .. n : \A i \in 1 .. n : i <= m <=> chain[i].ledger < ledger
      BY <1>0 DEF ChainShape, LedgersSplit
    <3>2. m \in 0 .. n + 1
      OBVIOUS
    <3>3. ASSUME NEW i \in 1 .. n + 1 PROVE i <= m <=> chain'[i].ledger < ledger
      <4>1. CASE i = n + 1
        BY <1>2, <2>2, <4>1
      <4>2. CASE i \in 1 .. n
        BY <1>2, <3>1, <4>2
      <4> QED
        BY <1>5, <4>1, <4>2
    <3> QED
      BY <3>2, <3>3
  <2> QED
    BY <2>1, <2>2
<1>10. \A i \in 1 .. n + 1 : chain'[i].kind = "leaf" => chain'[i].key = LeavesBefore(i)'
  <2> SUFFICES ASSUME NEW i \in 1 .. n + 1, chain'[i].kind = "leaf"
               PROVE  chain'[i].key = LeavesBefore(i)'
    OBVIOUS
  <2>1. CASE i = n + 1
    BY <1>1, <1>2, <2>1
  <2>2. CASE i \in 1 .. n
    BY <1>0, <1>2, <2>2 DEF ChainShape, LeavesCount
  <2> QED
    BY <1>5, <2>1, <2>2
<1>11. ASSUME NEW k \in 0 .. n + 1, \A s \in Settlements' : s > k,
              NEW m \in 0 .. LeavesBefore(k + 1)' - 1
       PROVE  \E j \in 1 .. k : chain'[j].kind = "leaf" /\ chain'[j].key = m
  <2>1. LeavesBefore(n + 1) \in Nat /\ e.mints \in {0, 1}
    BY <1>0, LeavesBeforeCounts DEF Event
  <2>2. ASSUME NEW l \in 0 .. n, l <= k, m \in 0 .. LeavesBefore(l + 1) - 1
        PROVE  \E j \in 1 .. k : chain'[j].kind = "leaf" /\ chain'[j].key = m
    <3>1. \A s \in Settlements : s > l
      <4> SUFFICES ASSUME NEW s \in Settlements PROVE s > l
        OBVIOUS
      <4>1. s \in 1 .. n
        BY <1>0 DEF Settlements
      <4>2. s \in Settlements'
        BY <1>0, <1>2, <4>1 DEF Settlements
      <4>3. s > k
        BY <1>11, <4>2
      <4> QED
        BY <2>2, <4>1, <4>3
    <3>2. PICK j \in 1 .. l : chain[j].kind = "leaf" /\ chain[j].key = m
      <4>1. LeavesCount /\ l \in 0 .. Len(chain)
        BY <1>0, <2>2 DEF ChainShape
      <4> QED
        BY <2>2, <3>1, <4>1, SmallerIndexes
    <3>3. j \in 1 .. n /\ j \in 1 .. k
      BY <2>2
    <3> QED
      BY <1>2, <3>2, <3>3
  <2>3. CASE k \in 0 .. n
    <3>1. LeavesBefore(k + 1)' = LeavesBefore(k + 1)
      BY <1>2, <2>3
    <3> QED
      BY <2>2, <2>3, <3>1
  <2>4. CASE k = n + 1
    <3>1. LeavesBefore(k + 1)' = LeavesBefore(n + 1) + e.mints
      <4>1. k + 1 = n + 2
        BY <2>4
      <4> QED
        BY <1>2, <4>1
    <3>2. CASE m < LeavesBefore(n + 1)
      BY <2>1, <2>2, <2>4, <3>2
    <3>3. CASE m >= LeavesBefore(n + 1)
      <4>1. m = LeavesBefore(n + 1) /\ e.mints = 1
        BY <2>1, <3>1, <3>3
      <4>2. n + 1 \notin Settlements'
        BY <1>11, <2>4
      <4>3. e.kind = "leaf"
        BY <1>2, <4>1, <4>2 DEF Settlements
      <4>4. n + 1 \in 1 .. k
        BY <2>4
      <4> QED
        BY <1>1, <1>2, <4>1, <4>3, <4>4
    <3> QED
      BY <2>1, <3>2, <3>3
  <2> QED
    BY <2>3, <2>4
<1>12. StartLedger <= head'
  BY <1>3 DEF ChainShape
<1> QED
  BY <1>2, <1>6, <1>7, <1>8, <1>9, <1>10, <1>11, <1>12 DEF ChainShape, LedgersSplit, LeavesCount

\* A new ledger changes nothing in the ones before.
LEMMA ClosingKeepsChain ==
    ASSUME IndexerTypeOK, ChainShape, chain' = chain, head' \in {head, head + 1}
    PROVE  ChainShape'
<1>1. \A i : LeavesBefore(i)' = LeavesBefore(i)
  BY DEF LeavesBefore
<1>2. Settlements' = Settlements
  BY DEF Settlements
<1>3. LedgersSplit' /\ LeavesCount'
  <2>1. LedgersSplit'
    BY DEF ChainShape, LedgersSplit
  <2>2. LeavesCount
    BY DEF ChainShape
  <2>3. \A i \in 1 .. Len(chain') : chain'[i].kind = "leaf" => chain'[i].key = LeavesBefore(i)'
    BY <1>1, <2>2 DEF LeavesCount
  <2>4. ASSUME NEW n \in 0 .. Len(chain'), \A i \in Settlements' : i > n,
               NEW m \in 0 .. LeavesBefore(n + 1)' - 1
        PROVE  \E j \in 1 .. n : chain'[j].kind = "leaf" /\ chain'[j].key = m
    <3>1. LeavesBefore(n + 1)' = LeavesBefore(n + 1)
      BY <1>1
    <3>2. m \in 0 .. LeavesBefore(n + 1) - 1
      BY <2>4, <3>1
    <3>3. n \in 0 .. Len(chain) /\ \A i \in Settlements : i > n
      BY <1>2, <2>4
    <3>4. \E j \in 1 .. n : chain[j].kind = "leaf" /\ chain[j].key = m
      BY <2>2, <3>2, <3>3, SmallerIndexes
    <3> QED
      BY <3>4
  <2>5. LeavesCount'
    <3>1. \A n \in 0 .. Len(chain') : (\A s \in Settlements' : s > n) =>
              \A m \in 0 .. LeavesBefore(n + 1)' - 1 :
                  \E j \in 1 .. n : chain'[j].kind = "leaf" /\ chain'[j].key = m
      BY <2>4, Zenon
    <3> QED
      BY <2>3, <3>1, Zenon DEF LeavesCount
  <2> QED
    BY <2>1, <2>5
<1>4. head \in Nat /\ StartLedger \in Nat /\ StartLedger <= head
      /\ \A i \in 1 .. Len(chain) : chain[i].ledger \in StartLedger + 1 .. head + 1
  BY IndexerConstants DEF IndexerTypeOK, ChainShape
<1>5. head' \in Nat /\ head <= head' /\ StartLedger <= head'
  BY <1>4
<1>6. \A i \in 1 .. Len(chain') : chain'[i].ledger \in StartLedger + 1 .. head' + 1
  BY <1>4, <1>5
<1>7. /\ \A i, j \in 1 .. Len(chain') : i <= j => chain'[i].ledger <= chain'[j].ledger
      /\ \A i \in 1 .. Len(chain') : chain'[i].kind = "close" =>
             \E j \in 1 .. i - 1 : chain'[j].kind = "open" /\ chain'[j].key = chain'[i].key
  BY Zenon DEF ChainShape
<1> QED
  BY <1>3, <1>5, <1>6, <1>7, Zenon DEF ChainShape

-----------------------------------------------------------------------------
(* The tables.                                                             *)

\* Tables, losses and the chain only go forward.
Forward ==
    /\ leaves \subseteq leaves' /\ lost \subseteq lost'
    /\ \A id \in PositionId :
           /\ listing[id] # "none" => listing'[id] # "none"
           /\ listing[id] = "closed" => listing'[id] = "closed"
    /\ Len(chain) <= Len(chain')
    /\ \A i \in 1 .. Len(chain) : chain'[i] = chain[i]

LEMMA SettledStays ==
    ASSUME IndexerTypeOK, Forward
    PROVE  \A i \in 1 .. Len(chain) : Settled(i) => Settled(i)'
<1> SUFFICES ASSUME NEW i \in 1 .. Len(chain), Settled(i) PROVE Settled(i)'
  OBVIOUS
<1>1. /\ chain'[i] = chain[i] /\ chain[i].kind \in {"leaf", "open", "close"}
      /\ chain[i].kind # "leaf" => chain[i].key \in PositionId
  BY EventFacts DEF Forward
<1>2. CASE Recorded(i)
  BY <1>1, <1>2 DEF Settled, Recorded, Forward
<1>3. CASE GivenUp(i)
  <2>1. \A j \in lost : chain'[j] = chain[j] /\ j \in lost'
    BY DEF IndexerTypeOK, Forward
  <2> QED
    BY <1>1, <1>3, <2>1 DEF Settled, GivenUp
<1> QED
  BY <1>2, <1>3 DEF Settled

LEMMA TablesStay ==
    ASSUME IndexerTypeOK, UNCHANGED chain, UNCHANGED listing, leaves' = leaves, lost \subseteq lost'
    PROVE  Forward
BY EventFacts DEF Forward

LEMMA LeavesStayInOrder ==
    ASSUME IndexerTypeOK, LeavesInOrder, Forward, leaves' = leaves
    PROVE  LeavesInOrder'
<1>1. \A i \in 1 .. Len(chain) : Settled(i) => Settled(i)'
  BY SettledStays
<1>2. Len(chain) \in Nat /\ 1 .. Len(chain) \subseteq 1 .. Len(chain')
      /\ \A i \in 1 .. Len(chain) : chain'[i] = chain[i]
  <2>1. Len(chain) \in Nat
    BY EventFacts
  <2> QED
    BY <2>1 DEF Forward
<1> SUFFICES ASSUME NEW key \in leaves
             PROVE  \E i \in 1 .. Len(chain') :
                        /\ chain'[i].kind = "leaf" /\ chain'[i].key = key
                        /\ \A j \in 1 .. i - 1 : Settled(j)'
  BY DEF LeavesInOrder
<1>3. PICK i \in 1 .. Len(chain) : /\ chain[i].kind = "leaf" /\ chain[i].key = key
                                   /\ \A j \in 1 .. i - 1 : Settled(j)
  BY DEF LeavesInOrder
<1>4. \A j \in 1 .. i - 1 : Settled(j)'
  BY <1>1, <1>2, <1>3
<1>5. i \in 1 .. Len(chain') /\ chain'[i].kind = "leaf" /\ chain'[i].key = key
  BY <1>2, <1>3
<1> QED
  BY <1>4, <1>5

\* What the chain gains is after its head.
Grows ==
    /\ Forward /\ head' \in Nat /\ head <= head' /\ Len(chain') \in Nat
    /\ \A i \in 1 .. Len(chain') : i \notin 1 .. Len(chain) => chain'[i].ledger = head + 1

LEMMA PageEndsStays ==
    ASSUME IndexerTypeOK, Grows, NEW cursor \in PageCursor, PageEnds(cursor)
    PROVE  PageEnds(cursor)'
<1>1. /\ Len(chain) \in Nat /\ head \in Nat
      /\ cursor.ledger \in Nat /\ cursor.pos \in Nat
      /\ cursor.ledger <= head /\ cursor.pos <= Len(chain)
  BY EventFacts DEF IndexerTypeOK, PageCursor, PageEnds
<1>2. head' \in Nat /\ head <= head' /\ Len(chain') \in Nat /\ Len(chain) <= Len(chain')
  BY DEF Grows, Forward
<1>3. ASSUME NEW i \in 1 .. Len(chain')
      PROVE  /\ chain'[i].ledger < cursor.ledger => i <= cursor.pos
             /\ i <= cursor.pos => chain'[i].ledger <= cursor.ledger
  <2>1. CASE i \in 1 .. Len(chain)
    <3>1. chain'[i] = chain[i]
      BY <2>1 DEF Grows, Forward
    <3> QED
      BY <2>1, <3>1 DEF PageEnds
  <2>2. CASE i \notin 1 .. Len(chain)
    <3>1. chain'[i].ledger = head + 1 /\ i > Len(chain)
      BY <1>1, <1>2, <2>2 DEF Grows
    <3> QED
      BY <1>1, <1>2, <3>1
  <2> QED
    BY <2>1, <2>2
<1>4. cursor.ledger <= head' /\ cursor.pos <= Len(chain')
  BY <1>1, <1>2
<1> QED
  BY <1>3, <1>4 DEF PageEnds

\* A tick is not disturbed by what happens on the chain.
LEMMA PollStays ==
    ASSUME IndexerTypeOK, PollSound, Grows, poll' = poll
    PROVE  PollSound'
<1>1. PICK p : p = poll
  OBVIOUS
<1>2. CASE p = Idle
  BY <1>1, <1>2 DEF PollSound
<1>3. CASE p # Idle
  <2>1. /\ p \in Poll /\ Len(chain) \in Nat /\ head \in Nat
        /\ head' \in Nat /\ head <= head' /\ Len(chain') \in Nat /\ Len(chain) <= Len(chain')
    BY <1>1, <1>3, EventFacts DEF IndexerTypeOK, Grows, Forward
  <2>2. /\ p.startLedger \in Nat /\ p.cursor \in PageCursor /\ p.next \in PageCursor
        /\ p.from \in Nat /\ p.seenHead \in Nat
    BY <2>1, PollParts
  <2>3. p.next.pos \in Nat /\ p.cursor.pos \in Nat
    BY <2>2 DEF PageCursor
  <2>4. /\ p.startLedger \in 1 .. head + 1
        /\ p.processed >= 1 /\ p.processed <= Frontier /\ p.scanned <= Frontier
        /\ \A i \in 1 .. Len(chain) : Reached(i) => Settled(i)
        /\ p.cursor # NoCursor => PageEnds(p.cursor)
        /\ p.phase = "page" =>
               /\ PageEnds(p.next) /\ p.from <= p.next.pos
               /\ p.next.ledger <= p.seenHead /\ p.seenHead <= head
               /\ p.next = p.cursor =>
                      \A i \in 1 .. Len(chain) : chain[i].ledger <= p.seenHead => i <= p.next.pos
    BY <1>1, <1>3 DEF PollSound
  <2>5. poll' = p
    BY <1>1
  <2>6. p.startLedger \in 1 .. head' + 1
    BY <2>1, <2>4
  <2>7. p.processed <= Frontier' /\ p.scanned <= Frontier'
    BY <1>1, <2>4, <2>5 DEF Frontier
  <2>8. \A x \in PageCursor : PageEnds(x) => PageEnds(x)'
    BY PageEndsStays
  <2>9. p.cursor # NoCursor => PageEnds(p.cursor)'
    BY <2>2, <2>4, <2>8
  <2>10. p.phase = "page" => PageEnds(p.next)'
    BY <2>2, <2>4, <2>8
  <2>11. \A i \in 1 .. Len(chain') :
             \/ i \in 1 .. Len(chain) /\ chain'[i] = chain[i]
             \/ chain'[i].ledger = head + 1 /\ i > Len(chain)
    BY <2>1 DEF Grows, Forward
  <2>12. ASSUME NEW i \in 1 .. Len(chain'), Reached(i)'
         PROVE  Settled(i)'
    <3>1. CASE i \in 1 .. Len(chain) /\ chain'[i] = chain[i]
      <4>1. Reached(i)
        BY <1>1, <2>5, <2>12, <3>1 DEF Reached
      <4> QED
        BY <2>4, <3>1, <4>1, SettledStays DEF Grows
    <3>2. CASE chain'[i].ledger = head + 1 /\ i > Len(chain)
      <4>1. CASE p.phase = "page"
        <5>1. i <= p.from /\ p.from <= p.next.pos /\ p.next.pos <= Len(chain)
          BY <2>4, <2>5, <2>12, <4>1 DEF Reached, PageEnds
        <5> QED
          BY <2>1, <2>2, <2>3, <3>2, <5>1
      <4>2. CASE p.phase # "page" /\ p.cursor = NoCursor
        <5>1. chain'[i].ledger < p.startLedger
          BY <2>5, <2>12, <4>2 DEF Reached
        <5> QED
          BY <2>1, <2>4, <3>2, <5>1
      <4>3. CASE p.phase # "page" /\ p.cursor # NoCursor
        <5>1. i <= p.cursor.pos /\ p.cursor.pos <= Len(chain)
          BY <2>4, <2>5, <2>12, <4>3 DEF Reached, PageEnds
        <5> QED
          BY <2>1, <2>3, <3>2, <5>1
      <4> QED
        BY <4>1, <4>2, <4>3
    <3> QED
      BY <2>11, <3>1, <3>2
  <2>13. ASSUME p.phase = "page", p.next = p.cursor, NEW i \in 1 .. Len(chain'),
                chain'[i].ledger <= p.seenHead
         PROVE  i <= p.next.pos
    <3>1. p.seenHead <= head
      BY <2>4, <2>13
    <3>2. CASE i \in 1 .. Len(chain) /\ chain'[i] = chain[i]
      BY <2>4, <2>13, <3>2
    <3>3. CASE chain'[i].ledger = head + 1 /\ i > Len(chain)
      BY <2>1, <2>2, <2>13, <3>1, <3>3
    <3> QED
      BY <2>11, <3>2, <3>3
  <2>14. p.seenHead <= head' \/ p.phase # "page"
    BY <2>1, <2>2, <2>4
  <2> QED
    BY <2>4, <2>5, <2>6, <2>7, <2>9, <2>10, <2>12, <2>13, <2>14 DEF PollSound
<1> QED
  BY <1>2, <1>3

\* The chain goes on: nothing in the tables is affected.
LEMMA ChainMoves ==
    ASSUME IndexerInv, Emit \/ CloseLedger \/ AgeOut
    PROVE  IndexerInv'
<1>1. /\ IndexerTypeOK /\ ChainShape /\ Len(chain) \in Nat /\ head \in Nat /\ oldest \in Nat
      /\ oldest <= head
  BY EventFacts DEF IndexerInv, IndexerTypeOK
<1>2. /\ UNCHANGED <<leaves, listing, stored, poll, lost, faults>>
      /\ head' \in {head, head + 1} /\ oldest' \in Nat /\ oldest' <= head'
  BY <1>1 DEF Emit, CloseLedger, AgeOut, tables
<1>3. /\ Len(chain') \in Nat /\ Len(chain) <= Len(chain') /\ chain' \in Seq(Event)
      /\ \A i \in 1 .. Len(chain) : chain'[i] = chain[i]
      /\ \A i \in 1 .. Len(chain') : i \notin 1 .. Len(chain) => chain'[i].ledger = head + 1
      /\ ChainShape'
  <2>1. CASE Emit
    <3>1. PICK e \in Event : chain' = Append(chain, e) /\ e.ledger = head + 1
      BY <1>1, <2>1, EmitAppends
    <3>2. /\ chain' \in Seq(Event) /\ Len(chain') = Len(chain) + 1
          /\ \A i \in 1 .. Len(chain) : chain'[i] = chain[i]
          /\ chain'[Len(chain) + 1] = e
      BY <1>1, <3>1, PrefixKept
    <3>3. \A i \in 1 .. Len(chain') : i \notin 1 .. Len(chain) => i = Len(chain) + 1
      BY <1>1, <3>2
    <3>4. ChainShape'
      BY <1>1, <2>1, EmitKeepsChain
    <3> QED
      BY <1>1, <3>1, <3>2, <3>3, <3>4
  <2>2. CASE CloseLedger \/ AgeOut
    <3>1. chain' = chain
      BY <2>2 DEF CloseLedger, AgeOut
    <3>2. ChainShape'
      BY <1>1, <1>2, <3>1, ClosingKeepsChain
    <3> QED
      BY <1>1, <3>1, <3>2 DEF IndexerTypeOK
  <2> QED
    BY <2>1, <2>2
<1>4. Grows
  BY <1>1, <1>2, <1>3 DEF Grows, Forward
<1>5. IndexerTypeOK'
  <2>1. 0 .. head + 1 \subseteq 0 .. head' + 1 /\ 1 .. Len(chain) \subseteq 1 .. Len(chain')
        /\ head' \in Nat
    <3>1. head \in Nat /\ head' \in Nat /\ head <= head'
      BY <1>1, <1>2
    <3>2. Len(chain) \in Nat /\ Len(chain') \in Nat /\ Len(chain) <= Len(chain')
      BY <1>1, <1>3
    <3>3. 0 .. head + 1 \subseteq 0 .. head' + 1
      <4>1. \A h, k \in Nat : h <= k => 0 .. h + 1 \subseteq 0 .. k + 1
        OBVIOUS
      <4> QED
        BY <3>1, <4>1
    <3>4. 1 .. Len(chain) \subseteq 1 .. Len(chain')
      BY <3>2
    <3> QED
      BY <3>1, <3>3, <3>4
  <2> QED
    BY <1>1, <1>2, <1>3, <2>1 DEF IndexerTypeOK
<1>6. PollSound'
  BY <1>2, <1>4, PollStays DEF IndexerInv
<1>7. LeavesInOrder'
  BY <1>2, <1>4, LeavesStayInOrder DEF IndexerInv, Grows
<1>8. StoredSettled'
  <2> SUFFICES ASSUME NEW i \in 1 .. Len(chain'), chain'[i].ledger < stored PROVE Settled(i)'
    BY <1>2 DEF StoredSettled
  <2>1. CASE i \in 1 .. Len(chain)
    <3>1. Settled(i)
      BY <1>3, <2>1 DEF IndexerInv, StoredSettled
    <3> QED
      BY <1>1, <1>4, <2>1, <3>1, SettledStays DEF Grows
  <2>2. CASE i \notin 1 .. Len(chain)
    <3>1. chain'[i].ledger = head + 1 /\ stored \in 0 .. head + 1
      BY <1>1, <1>3, <2>2 DEF IndexerTypeOK
    <3> QED
      BY <1>1, <3>1
  <2> QED
    BY <2>1, <2>2
<1> QED
  BY <1>2, <1>3, <1>5, <1>6, <1>7, <1>8 DEF IndexerInv

-----------------------------------------------------------------------------
(* The poller.  All of its steps leave the chain alone.                    *)

LEMMA ChainUntouched ==
    ASSUME IndexerInv, UNCHANGED chainVars
    PROVE  ChainShape' /\ oldest' <= head'
<1>1. chain' = chain /\ head' = head /\ oldest' = oldest
  BY DEF chainVars
<1> QED
  BY <1>1, ClosingKeepsChain DEF IndexerInv

\* A tick that ends leaves only the cursor behind.
LEMMA TickEnds ==
    ASSUME IndexerInv, UNCHANGED chainVars, UNCHANGED tables, poll' = Idle,
           lost \subseteq lost', lost' \subseteq 1 .. Len(chain), faults' \in 0 .. MaxFaults,
           stored' \in 0 .. head + 1,
           \A i \in 1 .. Len(chain) : chain[i].ledger < stored' => Settled(i)'
    PROVE  IndexerInv'
<1>1. chain' = chain /\ head' = head /\ oldest' = oldest /\ leaves' = leaves /\ listing' = listing
  BY DEF chainVars, tables
<1>2. Forward
  BY <1>1, TablesStay DEF IndexerInv
<1>3. ChainShape' /\ oldest' <= head'
  BY ChainUntouched
<1>4. LeavesInOrder'
  BY <1>1, <1>2, LeavesStayInOrder DEF IndexerInv
<1>5. IndexerTypeOK'
  BY <1>1 DEF IndexerInv, IndexerTypeOK
<1>6. StoredSettled'
  BY <1>1 DEF StoredSettled
<1>7. PollSound'
  BY DEF PollSound
<1> QED
  BY <1>3, <1>4, <1>5, <1>6, <1>7 DEF IndexerInv

\* A tick that goes on leaves the cursor alone.
LEMMA TickGoesOn ==
    ASSUME IndexerInv, UNCHANGED chainVars, UNCHANGED tables, UNCHANGED stored,
           lost \subseteq lost', lost' \subseteq 1 .. Len(chain), faults' \in 0 .. MaxFaults,
           poll' \in Poll, PollSound'
    PROVE  IndexerInv'
<1>1. /\ chain' = chain /\ head' = head /\ oldest' = oldest /\ leaves' = leaves
      /\ listing' = listing /\ stored' = stored
  BY DEF chainVars, tables
<1>2. Forward
  BY <1>1, TablesStay DEF IndexerInv
<1>3. ChainShape' /\ oldest' <= head'
  BY ChainUntouched
<1>4. LeavesInOrder'
  BY <1>1, <1>2, LeavesStayInOrder DEF IndexerInv
<1>5. IndexerTypeOK'
  BY <1>1 DEF IndexerInv, IndexerTypeOK
<1>6. \A i \in 1 .. Len(chain) : Settled(i) => Settled(i)'
  BY <1>2, SettledStays DEF IndexerInv
<1>7. StoredSettled'
  BY <1>1, <1>6 DEF IndexerInv, StoredSettled
<1> QED
  BY <1>3, <1>4, <1>5, <1>7 DEF IndexerInv

LEMMA BeginTickKeepsInv ==
    ASSUME IndexerInv, BeginTick
    PROVE  IndexerInv'
<1>1. /\ poll' = [phase |-> "request", startLedger |-> LastLedger, cursor |-> NoCursor,
                  next |-> NoCursor, from |-> 0, processed |-> LastLedger, scanned |-> 0,
                  seenHead |-> 0, pages |-> 0]
      /\ UNCHANGED <<chainVars, tables, stored, lost, faults>>
  BY DEF BeginTick
<1>2. head \in Nat /\ stored \in 0 .. head + 1 /\ StartLedger \in Nat \ {0} /\ StartLedger <= head
      /\ MAX_PAGES_PER_TICK \in Nat /\ lost \subseteq 1 .. Len(chain) /\ faults \in 0 .. MaxFaults
  BY IndexerConstants DEF IndexerInv, IndexerTypeOK, ChainShape
<1>3. LastLedger \in 1 .. head + 1
  BY <1>2 DEF LastLedger
<1>4. NoCursor \in PageCursor
  BY DEF NoCursor, PageCursor
<1>5. poll' \in Poll
  BY <1>1, <1>2, <1>3, <1>4 DEF Poll
<1>6. chain' = chain /\ head' = head /\ lost' = lost /\ faults' = faults
      /\ leaves' = leaves /\ listing' = listing
  BY <1>1 DEF chainVars, tables
<1>7. Forward
  BY <1>6, TablesStay DEF IndexerInv
<1>8. \A i \in 1 .. Len(chain) : Settled(i) => Settled(i)'
  BY <1>7, SettledStays DEF IndexerInv
<1>9. \A i \in 1 .. Len(chain) : chain[i].ledger < LastLedger => Settled(i)
  <2> SUFFICES ASSUME NEW i \in 1 .. Len(chain), chain[i].ledger < LastLedger PROVE Settled(i)
    OBVIOUS
  <2>1. CASE stored <= 0
    <3>1. chain[i].ledger \in StartLedger + 1 .. head + 1 /\ LastLedger = StartLedger
      BY <2>1 DEF IndexerInv, ChainShape, LastLedger
    <3> QED
      BY <1>2, <3>1
  <2>2. CASE ~(stored <= 0)
    BY <2>2 DEF IndexerInv, StoredSettled, LastLedger
  <2> QED
    BY <2>1, <2>2
<1>10. PollSound'
  <2> SUFFICES /\ poll'.startLedger \in 1 .. head' + 1
               /\ poll'.processed >= 1
               /\ poll'.processed <= Frontier' /\ poll'.scanned <= Frontier'
               /\ \A i \in 1 .. Len(chain') : Reached(i)' => Settled(i)'
               /\ poll'.cursor = NoCursor
               /\ poll'.phase # "page"
    BY DEF PollSound
  <2>1. /\ poll'.phase = "request" /\ poll'.cursor = NoCursor /\ poll'.startLedger = LastLedger
        /\ poll'.processed = LastLedger /\ poll'.scanned = 0
    BY <1>1
  <2>2. Frontier' = LastLedger
    BY <2>1 DEF Frontier
  <2>3. \A i \in 1 .. Len(chain) : Reached(i)' <=> chain[i].ledger < LastLedger
    BY <1>6, <2>1 DEF Reached
  <2> QED
    BY <1>3, <1>6, <1>8, <1>9, <2>1, <2>2, <2>3
<1>11. /\ UNCHANGED chainVars /\ UNCHANGED tables /\ UNCHANGED stored
       /\ lost' \subseteq 1 .. Len(chain) /\ faults' \in 0 .. MaxFaults /\ lost \subseteq lost'
  BY <1>1, <1>2, <1>6
<1> QED
  BY <1>5, <1>10, <1>11, TickGoesOn

LEMMA ClampKeepsInv ==
    ASSUME IndexerInv, ClampToRetention
    PROVE  IndexerInv'
<1>1. PICK p \in Poll : poll = p /\ p.phase = "request" /\ p.cursor = NoCursor
                        /\ p.startLedger < oldest
  BY DEF ClampToRetention, InPhase, IndexerInv, IndexerTypeOK
<1>2. /\ poll' = [p EXCEPT !.startLedger = oldest + 1]
      /\ lost' = lost \cup {i \in 1 .. EventsBefore(oldest + 1) : chain[i].ledger >= p.startLedger}
      /\ UNCHANGED <<chainVars, tables, stored, faults>>
  BY <1>1 DEF ClampToRetention
<1>3. /\ head \in Nat /\ oldest \in Nat /\ oldest <= head /\ Len(chain) \in Nat
      /\ lost \subseteq 1 .. Len(chain) /\ faults \in 0 .. MaxFaults
      /\ \A i \in 1 .. Len(chain) : chain[i].ledger \in Nat
  BY EventFacts DEF IndexerInv, IndexerTypeOK
<1>4. p.startLedger \in Nat /\ p.processed \in Nat /\ p.scanned \in Nat
  BY PollParts
<1>5. /\ EventsBefore(oldest + 1) \in 0 .. Len(chain)
      /\ \A i \in 1 .. Len(chain) : i <= EventsBefore(oldest + 1) <=> chain[i].ledger < oldest + 1
  <2>1. oldest + 1 \in Nat /\ IndexerTypeOK /\ LedgersSplit
    BY <1>3 DEF IndexerInv, ChainShape
  <2> QED
    BY <2>1, EventsBeforeSplits
<1>6. /\ lost \subseteq lost' /\ lost' \subseteq 1 .. Len(chain)
      /\ \A i \in 1 .. Len(chain) :
             (chain[i].ledger < oldest + 1 /\ chain[i].ledger >= p.startLedger) => i \in lost'
  BY <1>2, <1>3, <1>5
<1>7. chain' = chain /\ head' = head /\ leaves' = leaves /\ listing' = listing
  BY <1>2 DEF chainVars, tables
<1>8. Forward
  BY <1>6, <1>7, TablesStay DEF IndexerInv
<1>9. \A i \in 1 .. Len(chain) : Settled(i) => Settled(i)'
  BY <1>8, SettledStays DEF IndexerInv
<1>10. poll' = [phase |-> "request", startLedger |-> oldest + 1, cursor |-> NoCursor,
                next |-> p.next, from |-> p.from, processed |-> p.processed,
                scanned |-> p.scanned, seenHead |-> p.seenHead, pages |-> p.pages]
  BY <1>1, <1>2 DEF Poll
<1>11. poll' \in Poll
  BY <1>1, <1>3, <1>10, PollParts DEF Poll
<1>12. /\ p.processed >= 1 /\ p.processed <= p.startLedger /\ p.scanned <= p.startLedger
       /\ \A i \in 1 .. Len(chain) : chain[i].ledger < p.startLedger => Settled(i)
  <2>1. p # Idle
    BY IndexerConstants
  <2> QED
    BY <1>1, <2>1 DEF IndexerInv, PollSound, Frontier, Reached
<1>13. PollSound'
  <2> SUFFICES /\ poll'.startLedger \in 1 .. head' + 1
               /\ poll'.processed >= 1
               /\ poll'.processed <= Frontier' /\ poll'.scanned <= Frontier'
               /\ \A i \in 1 .. Len(chain') : Reached(i)' => Settled(i)'
               /\ poll'.cursor = NoCursor
               /\ poll'.phase # "page"
    BY DEF PollSound
  <2>1. /\ poll'.phase = "request" /\ poll'.cursor = NoCursor /\ poll'.startLedger = oldest + 1
        /\ poll'.processed = p.processed /\ poll'.scanned = p.scanned
    BY <1>10
  <2>2. Frontier' = oldest + 1
    BY <2>1 DEF Frontier
  <2>3. ASSUME NEW i \in 1 .. Len(chain), Reached(i)'
        PROVE  Settled(i)'
    <3>1. chain[i].ledger < oldest + 1
      BY <1>7, <2>1, <2>3 DEF Reached
    <3>2. CASE chain[i].ledger < p.startLedger
      BY <1>9, <1>12, <3>2
    <3>3. CASE chain[i].ledger >= p.startLedger
      BY <1>6, <3>1, <3>3 DEF Settled, GivenUp
    <3> QED
      BY <1>3, <1>4, <3>2, <3>3
  <2>4. poll'.processed <= oldest + 1 /\ poll'.scanned <= oldest + 1 /\ oldest + 1 \in 1 .. head + 1
    BY <1>1, <1>3, <1>4, <1>12, <2>1
  <2> QED
    BY <1>7, <1>12, <2>1, <2>2, <2>3, <2>4
<1>14. UNCHANGED chainVars /\ UNCHANGED tables /\ UNCHANGED stored /\ faults' \in 0 .. MaxFaults
  BY <1>2, <1>3
<1> QED
  BY <1>6, <1>11, <1>13, <1>14, TickGoesOn

LEMMA GivingUpTickKeepsInv ==
    ASSUME IndexerInv, RequestRefused \/ Abort
    PROVE  IndexerInv'
<1>1. /\ poll' = Idle /\ UNCHANGED <<chainVars, tables, stored, lost>>
      /\ faults' \in 0 .. MaxFaults
  BY IndexerConstants DEF RequestRefused, Abort, IndexerInv, IndexerTypeOK
<1>2. chain' = chain /\ lost' = lost /\ stored' = stored /\ leaves' = leaves /\ listing' = listing
  BY <1>1 DEF chainVars, tables
<1>3. Forward
  BY <1>2, TablesStay DEF IndexerInv
<1>4. \A i \in 1 .. Len(chain) : Settled(i) => Settled(i)'
  BY <1>3, SettledStays DEF IndexerInv
<1>5. /\ \A i \in 1 .. Len(chain) : chain[i].ledger < stored' => Settled(i)'
      /\ stored' \in 0 .. head + 1 /\ lost' \subseteq 1 .. Len(chain)
  BY <1>2, <1>4 DEF IndexerInv, IndexerTypeOK, StoredSettled
<1> QED
  BY <1>1, <1>2, <1>5, TickEnds

\* A page goes on from where it starts, ends where its cursor says, and makes no
\* progress only at the head.
LEMMA PageUpToEnds ==
    ASSUME IndexerTypeOK, ChainShape, NEW ledger \in Nat, ledger <= head,
           NEW from \in 0 .. Len(chain),
           \A i \in 1 .. Len(chain) : chain[i].ledger < ledger => i <= from,
           \A i \in 1 .. Len(chain) : i <= from => chain[i].ledger <= ledger
    PROVE  /\ PageUpTo(ledger, from) \in PageCursor /\ PageEnds(PageUpTo(ledger, from))
           /\ from <= PageUpTo(ledger, from).pos
           /\ ledger <= PageUpTo(ledger, from).ledger /\ PageUpTo(ledger, from).ledger <= head
           /\ PageUpTo(ledger, from) = [ledger |-> ledger, pos |-> from] =>
                  \A i \in 1 .. Len(chain) : chain[i].ledger <= head => i <= from
<1>0. /\ Len(chain) \in Nat /\ head \in Nat /\ from \in Nat
      /\ ScanWindow \in Nat /\ ScanWindow >= 2 /\ PageLimit \in Nat /\ PageLimit >= 1
      /\ \A i \in 1 .. Len(chain) : chain[i].ledger \in Nat
  <2>1. Len(chain) \in Nat /\ \A i \in 1 .. Len(chain) : chain[i].ledger \in Nat
    BY EventFacts
  <2>2. head \in Nat
    BY DEF IndexerTypeOK
  <2>3. ScanWindow \in Nat /\ ScanWindow >= 2 /\ PageLimit \in Nat /\ PageLimit >= 1
    BY IndexerConstants
  <2> QED
    BY <2>1, <2>2, <2>3
<1>1. PICK end \in Nat : end = Smaller(ledger + ScanWindow - 1, head)
  BY <1>0 DEF Smaller
<1>2. ledger <= end /\ end <= head /\ (end = ledger => end = head)
  BY <1>0, <1>1 DEF Smaller
<1>3. PICK last \in 0 .. Len(chain) :
          /\ last = EventsBefore(end + 1)
          /\ \A i \in 1 .. Len(chain) : i <= last <=> chain[i].ledger < end + 1
  <2>1. end + 1 \in Nat /\ LedgersSplit
    BY DEF ChainShape
  <2> QED
    BY <2>1, EventsBeforeSplits
<1>4. PageUpTo(ledger, from) = IF last - from >= PageLimit
                               THEN [ledger |-> chain[from + PageLimit].ledger,
                                     pos |-> from + PageLimit]
                               ELSE [ledger |-> end, pos |-> last]
  BY <1>1, <1>3 DEF PageUpTo
<1>5. CASE last - from >= PageLimit
  <2>1. PICK k \in 1 .. Len(chain) : k = from + PageLimit
    BY <1>0, <1>3, <1>5
  <2>2. PICK at \in Nat : at = chain[k].ledger
    BY <1>0
  <2>3. k > from /\ k <= last
    BY <1>0, <1>3, <1>5, <2>1
  <2>4. ledger <= at /\ at <= end
    BY <1>0, <1>3, <2>2, <2>3
  <2>5. PageUpTo(ledger, from) = [ledger |-> at, pos |-> k]
    BY <1>4, <1>5, <2>1, <2>2
  <2>6. \A i \in 1 .. Len(chain) : /\ chain[i].ledger < at => i <= k
                                   /\ i <= k => chain[i].ledger <= at
    <3>1. \A i, j \in 1 .. Len(chain) : i <= j => chain[i].ledger <= chain[j].ledger
      BY DEF ChainShape
    <3> SUFFICES ASSUME NEW i \in 1 .. Len(chain)
                 PROVE  /\ chain[i].ledger < at => i <= k
                        /\ i <= k => chain[i].ledger <= at
      OBVIOUS
    <3>2. i <= k => chain[i].ledger <= at
      BY <2>2, <3>1
    <3>3. ASSUME ~(i <= k) PROVE ~(chain[i].ledger < at)
      <4>1. k <= i
        BY <3>3
      <4>2. at <= chain[i].ledger
        BY <2>2, <3>1, <4>1
      <4> QED
        BY <1>0, <4>2
    <3> QED
      BY <3>2, <3>3
  <2>7. at <= head /\ k <= Len(chain) /\ from <= k /\ k # from
    BY <1>0, <1>2, <2>3, <2>4
  <2>8. PageEnds([ledger |-> at, pos |-> k]) /\ [ledger |-> at, pos |-> k] \in PageCursor
    BY <2>6, <2>7 DEF PageEnds, PageCursor
  <2> QED
    BY <2>4, <2>5, <2>7, <2>8
<1>6. CASE ~(last - from >= PageLimit)
  <2>1. PageUpTo(ledger, from) = [ledger |-> end, pos |-> last]
    BY <1>4, <1>6
  <2>2. \A i \in 1 .. Len(chain) : /\ chain[i].ledger < end => i <= last
                                   /\ i <= last => chain[i].ledger <= end
    BY <1>0, <1>3
  <2>3. PageEnds([ledger |-> end, pos |-> last]) /\ [ledger |-> end, pos |-> last] \in PageCursor
    BY <1>0, <1>2, <2>2 DEF PageEnds, PageCursor
  <2>4. from <= last
    <3>1. CASE from = 0
      BY <1>0, <3>1
    <3>2. CASE from # 0
      <4>1. from \in 1 .. Len(chain)
        BY <3>2
      <4>2. chain[from].ledger <= ledger
        BY <4>1
      <4>3. chain[from].ledger < end + 1
        BY <1>0, <1>2, <4>1, <4>2
      <4> QED
        BY <1>3, <4>1, <4>3
    <3> QED
      BY <3>1, <3>2
  <2>5. ASSUME end = ledger, last = from, NEW i \in 1 .. Len(chain), chain[i].ledger <= head
        PROVE  i <= from
    <3>1. chain[i].ledger < end + 1
      BY <1>0, <1>2, <2>5
    <3> QED
      BY <1>3, <2>5, <3>1
  <2> QED
    BY <1>2, <2>1, <2>3, <2>4, <2>5
<1> QED
  BY <1>5, <1>6

LEMMA RequestKeepsInv ==
    ASSUME IndexerInv, RequestPage
    PROVE  IndexerInv'
<1>1. PICK p \in Poll : poll = p /\ p.phase = "request" /\ p.pages < MAX_PAGES_PER_TICK
  BY DEF RequestPage, InPhase, IndexerInv, IndexerTypeOK
<1>2. PICK first : first = IF p.cursor = NoCursor THEN p.startLedger ELSE p.cursor.ledger
  OBVIOUS
<1>3. PICK from : from = IF p.cursor = NoCursor THEN EventsBefore(first) ELSE p.cursor.pos
  OBVIOUS
<1>4. PICK next : next = PageUpTo(first, from)
  OBVIOUS
<1>5. /\ first \in oldest .. head
      /\ poll' = [p EXCEPT !.phase = "page", !.next = next, !.from = from,
                           !.seenHead = head, !.pages = @ + 1]
      /\ UNCHANGED <<chainVars, tables, stored, lost, faults>>
  BY <1>1, <1>2, <1>3, <1>4 DEF RequestPage
<1>6. /\ p.phase \in {"request", "page"} /\ p.startLedger \in Nat
      /\ p.cursor \in PageCursor /\ p.next \in PageCursor
      /\ p.processed \in Nat /\ p.scanned \in Nat /\ p.pages \in 0 .. MAX_PAGES_PER_TICK
  BY PollParts
<1>7. p.cursor.ledger \in Nat /\ p.cursor.pos \in Nat
  BY <1>6 DEF PageCursor
<1>8. /\ head \in Nat /\ oldest \in Nat /\ Len(chain) \in Nat
      /\ \A i \in 1 .. Len(chain) : chain[i].ledger \in Nat
      /\ lost \subseteq 1 .. Len(chain) /\ faults \in 0 .. MaxFaults
  BY EventFacts DEF IndexerInv, IndexerTypeOK
<1>9. first \in Nat /\ first <= head
  BY <1>5, <1>8
<1>10. /\ p.startLedger \in 1 .. head + 1
       /\ p.processed >= 1 /\ p.processed <= first /\ p.scanned <= first
       /\ \A i \in 1 .. Len(chain) : Reached(i) => Settled(i)
       /\ p.cursor # NoCursor => PageEnds(p.cursor)
  <2>1. p # Idle
    BY IndexerConstants
  <2>2. Frontier = first
    BY <1>1, <1>2 DEF Frontier
  <2> QED
    BY <1>1, <2>1, <2>2 DEF IndexerInv, PollSound
<1>11. /\ from \in 0 .. Len(chain)
       /\ \A i \in 1 .. Len(chain) : chain[i].ledger < first => i <= from
       /\ \A i \in 1 .. Len(chain) : i <= from => chain[i].ledger <= first
       /\ \A i \in 1 .. Len(chain) : i <= from => Settled(i)
  <2>1. CASE p.cursor = NoCursor
    <3>1. first = p.startLedger /\ from = EventsBefore(first)
      BY <1>2, <1>3, <2>1
    <3>2. IndexerTypeOK /\ LedgersSplit
      BY DEF IndexerInv, ChainShape
    <3>3. /\ from \in 0 .. Len(chain)
          /\ \A i \in 1 .. Len(chain) : i <= from <=> chain[i].ledger < first
      BY <1>9, <3>1, <3>2, EventsBeforeSplits
    <3>4. \A i \in 1 .. Len(chain) : i <= from => Settled(i)
      BY <1>1, <1>10, <2>1, <3>1, <3>3 DEF Reached
    <3> QED
      BY <1>8, <1>9, <3>3, <3>4
  <2>2. CASE p.cursor # NoCursor
    <3>1. first = p.cursor.ledger /\ from = p.cursor.pos
      BY <1>2, <1>3, <2>2
    <3>2. \A i \in 1 .. Len(chain) : i <= from => Settled(i)
      BY <1>1, <1>10, <2>2, <3>1 DEF Reached
    <3> QED
      BY <1>7, <1>8, <1>10, <2>2, <3>1, <3>2 DEF PageEnds
  <2> QED
    BY <2>1, <2>2
<1>12. /\ next \in PageCursor /\ PageEnds(next) /\ from <= next.pos
       /\ first <= next.ledger /\ next.ledger <= head
       /\ next = [ledger |-> first, pos |-> from] =>
              \A i \in 1 .. Len(chain) : chain[i].ledger <= head => i <= from
  <2>1. IndexerTypeOK /\ ChainShape
    BY DEF IndexerInv
  <2> QED
    BY <1>4, <1>9, <1>11, <2>1, PageUpToEnds
<1>13. poll' = [phase |-> "page", startLedger |-> p.startLedger, cursor |-> p.cursor,
                next |-> next, from |-> from, processed |-> p.processed,
                scanned |-> p.scanned, seenHead |-> head, pages |-> p.pages + 1]
  <2>1. from \in Nat
    BY <1>8, <1>11
  <2> QED
    BY <1>5, <1>8, <1>12, <2>1, PollRequested
<1>14. poll' \in Poll
  <2>1. p.pages + 1 \in 0 .. MAX_PAGES_PER_TICK
    BY <1>1, <1>6, IndexerConstants
  <2> QED
    BY <1>6, <1>8, <1>11, <1>12, <1>13, <2>1 DEF Poll
<1>15. /\ chain' = chain /\ head' = head /\ lost' = lost /\ faults' = faults
       /\ leaves' = leaves /\ listing' = listing
  BY <1>5 DEF chainVars, tables
<1>16. \A i \in 1 .. Len(chain) : Settled(i) => Settled(i)'
  <2>1. Forward
    BY <1>15, TablesStay DEF IndexerInv
  <2> QED
    BY <2>1, SettledStays DEF IndexerInv
<1>17. /\ poll'.phase = "page" /\ poll'.startLedger = p.startLedger /\ poll'.cursor = p.cursor
       /\ poll'.next = next /\ poll'.from = from /\ poll'.processed = p.processed
       /\ poll'.scanned = p.scanned /\ poll'.seenHead = head
  BY <1>13
<1>18. ASSUME next = p.cursor, NEW i \in 1 .. Len(chain), chain[i].ledger <= head
       PROVE  i <= next.pos
  <2>1. next.ledger \in Nat /\ next.pos \in Nat /\ next = [ledger |-> next.ledger, pos |-> next.pos]
    BY <1>12 DEF PageCursor
  <2>2. CASE p.cursor = NoCursor
    <3>1. next.ledger = 0 /\ first = p.startLedger
      BY <1>2, <1>18, <2>2 DEF NoCursor
    <3> QED
      BY <1>10, <1>12, <3>1
  <2>3. CASE p.cursor # NoCursor
    <3>1. first = next.ledger /\ from = next.pos
      BY <1>2, <1>3, <1>18, <2>3
    <3> QED
      BY <1>12, <1>18, <2>1, <3>1
  <2> QED
    BY <2>2, <2>3
<1>19. PollSound'
  <2>1. Frontier' = next.ledger
    BY <1>17 DEF Frontier
  <2>2. p.processed <= next.ledger /\ p.scanned <= next.ledger
    <3>1. next.ledger \in Nat
      BY <1>12 DEF PageCursor
    <3> QED
      BY <1>6, <1>9, <1>10, <1>12, <3>1
  <2>3. \A i \in 1 .. Len(chain) : Reached(i)' => Settled(i)'
    BY <1>11, <1>16, <1>17 DEF Reached
  <2>4. PageEnds(poll.next)'
    BY <1>12, <1>15, <1>17 DEF PageEnds
  <2>5. p.cursor # NoCursor => PageEnds(poll.cursor)'
    BY <1>10, <1>15, <1>17 DEF PageEnds
  <2>6. p.startLedger \in 1 .. head' + 1 /\ head <= head'
    BY <1>8, <1>10, <1>15
  <2>7. \A i \in 1 .. Len(chain') : Reached(i)' => Settled(i)'
    BY <1>15, <2>3
  <2>8. next = p.cursor => \A i \in 1 .. Len(chain') : chain'[i].ledger <= head => i <= next.pos
    BY <1>15, <1>18
  <2> QED
    BY <1>10, <1>12, <1>17, <2>1, <2>2, <2>4, <2>5, <2>6, <2>7, <2>8 DEF PollSound
<1>20. /\ UNCHANGED chainVars /\ UNCHANGED tables /\ UNCHANGED stored
       /\ lost \subseteq lost' /\ lost' \subseteq 1 .. Len(chain) /\ faults' \in 0 .. MaxFaults
  BY <1>5, <1>8, <1>15
<1> QED
  BY <1>14, <1>19, <1>20, TickGoesOn

\* The event a page is at, and what is known then.
LEMMA PageAt ==
    ASSUME IndexerInv, PassEvent
    PROVE  \E p \in Poll, k \in 1 .. Len(chain) :
               /\ poll = p /\ p.phase = "page" /\ k = p.from + 1 /\ k <= p.next.pos
               /\ poll' = [phase |-> p.phase, startLedger |-> p.startLedger, cursor |-> p.cursor,
                           next |-> p.next, from |-> k,
                           processed |-> Larger(p.processed, chain[k].ledger),
                           scanned |-> p.scanned, seenHead |-> p.seenHead, pages |-> p.pages]
               /\ UNCHANGED <<chainVars, stored>>
               /\ \A i \in 1 .. k - 1 : Settled(i)
<1>1. PICK p \in Poll : poll = p /\ p.phase = "page" /\ p.from < p.next.pos
  BY DEF PassEvent, InPhase, IndexerInv, IndexerTypeOK
<1>2. p.from \in Nat /\ p.next \in PageCursor /\ Len(chain) \in Nat
  BY PollParts, EventFacts DEF IndexerInv
<1>3. /\ p.next.pos \in Nat /\ p.next.pos <= Len(chain)
      /\ \A i \in 1 .. Len(chain) : Reached(i) => Settled(i)
  <2>1. p # Idle
    BY IndexerConstants
  <2>2. p.next.pos <= Len(chain) /\ \A i \in 1 .. Len(chain) : Reached(i) => Settled(i)
    BY <1>1, <2>1 DEF IndexerInv, PollSound, PageEnds
  <2> QED
    BY <1>2, <2>2 DEF PageCursor
<1>4. PICK k \in 1 .. Len(chain) : k = p.from + 1
  BY <1>1, <1>2, <1>3
<1>5. k <= p.next.pos
  BY <1>1, <1>2, <1>3, <1>4
<1>6. \A i \in 1 .. k - 1 : i \in 1 .. Len(chain) /\ i <= p.from
  BY <1>2, <1>4
<1>7. \A i \in 1 .. k - 1 : Settled(i)
  BY <1>1, <1>3, <1>6 DEF Reached
<1>8. /\ poll' = [p EXCEPT !.from = @ + 1, !.processed = Larger(@, chain[k].ledger)]
      /\ UNCHANGED <<chainVars, stored>>
  BY <1>1, <1>4 DEF PassEvent
<1>9. chain[k].ledger \in Nat
  BY EventFacts DEF IndexerInv
<1>10. poll' = [phase |-> p.phase, startLedger |-> p.startLedger, cursor |-> p.cursor,
                next |-> p.next, from |-> k, processed |-> Larger(p.processed, chain[k].ledger),
                scanned |-> p.scanned, seenHead |-> p.seenHead, pages |-> p.pages]
  BY <1>4, <1>8, <1>9, PollPassed
<1> QED
  BY <1>1, <1>4, <1>5, <1>7, <1>8, <1>10

\* Going past an event that is settled keeps the tick sound.
LEMMA PassKeepsPoll ==
    ASSUME IndexerInv, Forward, NEW p \in Poll, NEW k \in 1 .. Len(chain),
           poll = p, p.phase = "page", k = p.from + 1, k <= p.next.pos,
           poll' = [phase |-> p.phase, startLedger |-> p.startLedger, cursor |-> p.cursor,
                    next |-> p.next, from |-> k, processed |-> Larger(p.processed, chain[k].ledger),
                    scanned |-> p.scanned, seenHead |-> p.seenHead, pages |-> p.pages],
           UNCHANGED chainVars, Settled(k)'
    PROVE  poll' \in Poll /\ PollSound'
<1>1. /\ p.phase \in {"request", "page"} /\ p.startLedger \in Nat /\ p.cursor \in PageCursor
      /\ p.next \in PageCursor /\ p.from \in Nat /\ p.processed \in Nat /\ p.scanned \in Nat
      /\ p.seenHead \in Nat /\ p.pages \in 0 .. MAX_PAGES_PER_TICK
  BY PollParts
<1>2. /\ chain[k].ledger \in Nat /\ Len(chain) \in Nat
      /\ p.next.ledger \in Nat /\ p.next.pos \in Nat
  BY <1>1, EventFacts DEF IndexerInv, PageCursor
<1>3. PICK done \in Nat : done = Larger(p.processed, chain[k].ledger)
  BY <1>1, <1>2 DEF Larger
<1>4. poll' = [phase |-> p.phase, startLedger |-> p.startLedger, cursor |-> p.cursor,
               next |-> p.next, from |-> k, processed |-> done,
               scanned |-> p.scanned, seenHead |-> p.seenHead, pages |-> p.pages]
  BY <1>3
<1>5. poll' \in Poll
  BY <1>1, <1>3, <1>4 DEF Poll
<1>6. /\ poll'.phase = "page" /\ poll'.startLedger = p.startLedger /\ poll'.cursor = p.cursor
      /\ poll'.next = p.next /\ poll'.from = k /\ poll'.processed = done
      /\ poll'.scanned = p.scanned /\ poll'.seenHead = p.seenHead
  BY <1>4
<1>7. chain' = chain /\ head' = head
  BY DEF chainVars
<1>8. /\ p.startLedger \in 1 .. head + 1
      /\ p.processed >= 1 /\ p.processed <= p.next.ledger /\ p.scanned <= p.next.ledger
      /\ \A i \in 1 .. Len(chain) : i <= p.from => Settled(i)
      /\ p.cursor # NoCursor => PageEnds(p.cursor)
      /\ PageEnds(p.next) /\ p.next.ledger <= p.seenHead /\ p.seenHead <= head
      /\ p.next = p.cursor =>
             \A i \in 1 .. Len(chain) : chain[i].ledger <= p.seenHead => i <= p.next.pos
  <2>1. p # Idle
    BY IndexerConstants
  <2>2. Frontier = p.next.ledger /\ \A i \in 1 .. Len(chain) : Reached(i) <=> i <= p.from
    BY DEF Frontier, Reached
  <2> QED
    BY <2>1, <2>2 DEF IndexerInv, PollSound
<1>9. done >= 1 /\ done <= p.next.ledger
  <2>1. chain[k].ledger <= p.next.ledger
    BY <1>8 DEF PageEnds
  <2> QED
    BY <1>1, <1>2, <1>3, <1>8, <2>1 DEF Larger
<1>10. \A i \in 1 .. Len(chain) : Reached(i)' => Settled(i)'
  <2> SUFFICES ASSUME NEW i \in 1 .. Len(chain), Reached(i)' PROVE Settled(i)'
    OBVIOUS
  <2>1. i <= k
    BY <1>6 DEF Reached
  <2>2. CASE i = k
    BY <2>2
  <2>3. CASE i # k
    <3>1. i <= p.from
      BY <1>1, <2>1, <2>3
    <3>2. Settled(i)
      BY <1>8, <3>1
    <3> QED
      BY <3>2, SettledStays DEF IndexerInv
  <2> QED
    BY <2>2, <2>3
<1>11. Frontier' = p.next.ledger
  BY <1>6 DEF Frontier
<1>12. PageEnds(poll.next)'
  BY <1>6, <1>7, <1>8 DEF PageEnds
<1>13. p.cursor # NoCursor => PageEnds(poll.cursor)'
  BY <1>6, <1>7, <1>8 DEF PageEnds
<1>14. \A i \in 1 .. Len(chain') : Reached(i)' => Settled(i)'
  BY <1>7, <1>10
<1> QED
  BY <1>5, <1>6, <1>7, <1>8, <1>9, <1>11, <1>12, <1>13, <1>14 DEF PollSound

LEMMA ProcessFailsKeepsInv ==
    ASSUME IndexerInv, ProcessEventFails
    PROVE  IndexerInv'
<1>1. PassEvent /\ UNCHANGED tables /\ faults < MaxFaults /\ faults' = faults + 1
      /\ lost' = lost \cup {poll.from + 1}
  BY DEF ProcessEventFails
<1>2. PICK p \in Poll, k \in 1 .. Len(chain) :
               /\ poll = p /\ p.phase = "page" /\ k = p.from + 1 /\ k <= p.next.pos
               /\ poll' = [phase |-> p.phase, startLedger |-> p.startLedger, cursor |-> p.cursor,
                           next |-> p.next, from |-> k,
                           processed |-> Larger(p.processed, chain[k].ledger),
                           scanned |-> p.scanned, seenHead |-> p.seenHead, pages |-> p.pages]
               /\ UNCHANGED <<chainVars, stored>>
  BY <1>1, PageAt
<1>3. /\ chain' = chain /\ lost' = lost \cup {k} /\ UNCHANGED chainVars
      /\ leaves' = leaves /\ listing' = listing
  BY <1>1, <1>2 DEF chainVars, tables
<1>4. Forward
  BY <1>3, TablesStay DEF IndexerInv
<1>5. Settled(k)'
  BY <1>3 DEF Settled, GivenUp
<1>6. poll' \in Poll /\ PollSound'
  BY <1>2, <1>3, <1>4, <1>5, PassKeepsPoll
<1>7. /\ lost \subseteq lost' /\ lost' \subseteq 1 .. Len(chain) /\ faults' \in 0 .. MaxFaults
      /\ UNCHANGED stored
  <2>1. faults \in 0 .. MaxFaults /\ MaxFaults \in Nat /\ lost \subseteq 1 .. Len(chain)
    BY IndexerConstants DEF IndexerInv, IndexerTypeOK
  <2>2. faults' \in 0 .. MaxFaults
    BY <1>1, <2>1
  <2>3. lost \subseteq lost' /\ lost' \subseteq 1 .. Len(chain)
    BY <1>3, <2>1
  <2>4. UNCHANGED stored
    BY <1>2
  <2> QED
    BY <2>2, <2>3, <2>4
<1> QED
  BY <1>1, <1>3, <1>6, <1>7, TickGoesOn

\* Applying an event records it, or it closes a row that was given up.
LEMMA ApplyRecords ==
    ASSUME IndexerInv, NEW k \in 1 .. Len(chain), Apply(chain[k]), UNCHANGED <<chain, lost>>,
           \A i \in 1 .. k - 1 : Settled(i)
    PROVE  /\ Forward /\ Settled(k)' /\ LeavesInOrder'
           /\ leaves' \subseteq Nat /\ listing' \in [PositionId -> {"none", "open", "closed"}]
<1>1. /\ Len(chain) \in Nat
      /\ chain[k].kind \in {"leaf", "open", "close"}
      /\ chain[k].kind = "leaf" => chain[k].key \in Nat
      /\ chain[k].kind # "leaf" => chain[k].key \in PositionId
      /\ leaves \subseteq Nat /\ listing \in [PositionId -> {"none", "open", "closed"}]
      /\ lost \subseteq 1 .. Len(chain)
  BY EventFacts DEF IndexerInv, IndexerTypeOK
<1>2. CASE chain[k].kind = "leaf"
  <2>1. leaves' = leaves \cup {chain[k].key} /\ listing' = listing
    BY <1>2 DEF Apply, InsertCommitment
  <2>2. Forward
    BY <1>1, <2>1 DEF Forward
  <2>3. \A i \in 1 .. Len(chain) : Settled(i) => Settled(i)'
    BY <2>2, SettledStays DEF IndexerInv
  <2>4. Recorded(k)'
    BY <1>2, <2>1 DEF Recorded
  <2>5. LeavesInOrder'
    <3> SUFFICES ASSUME NEW key \in leaves'
                 PROVE  \E i \in 1 .. Len(chain) :
                            /\ chain[i].kind = "leaf" /\ chain[i].key = key
                            /\ \A j \in 1 .. i - 1 : Settled(j)'
      BY DEF LeavesInOrder
    <3>1. CASE key = chain[k].key
      <4>1. \A j \in 1 .. k - 1 : j \in 1 .. Len(chain)
        BY <1>1
      <4>2. \A j \in 1 .. k - 1 : Settled(j)'
        BY <2>3, <4>1
      <4> QED
        BY <1>2, <3>1, <4>2
    <3>2. CASE key \in leaves
      <4>1. PICK i \in 1 .. Len(chain) : /\ chain[i].kind = "leaf" /\ chain[i].key = key
                                         /\ \A j \in 1 .. i - 1 : Settled(j)
        BY <3>2 DEF IndexerInv, LeavesInOrder
      <4>2. \A j \in 1 .. i - 1 : j \in 1 .. Len(chain)
        BY <1>1
      <4>3. \A j \in 1 .. i - 1 : Settled(j)'
        BY <2>3, <4>1, <4>2
      <4> QED
        BY <4>1, <4>3
    <3> QED
      BY <2>1, <3>1, <3>2
  <2> QED
    BY <1>1, <1>2, <2>1, <2>2, <2>4, <2>5 DEF Settled
<1>3. CASE chain[k].kind = "open"
  <2>1. PICK id \in PositionId : id = chain[k].key
    BY <1>1, <1>3
  <2>2. leaves' = leaves
        /\ listing' = IF listing[id] = "none" THEN [listing EXCEPT ![id] = "open"] ELSE listing
    BY <1>3, <2>1 DEF Apply, InsertPosition
  <2>3. /\ listing' \in [PositionId -> {"none", "open", "closed"}] /\ listing'[id] # "none"
        /\ \A x \in PositionId : x # id => listing'[x] = listing[x]
        /\ listing[id] # "none" => listing'[id] = listing[id]
    BY <1>1, <2>2
  <2>4. Forward
    BY <1>1, <2>2, <2>3 DEF Forward
  <2>5. Recorded(k)'
    BY <1>3, <2>1, <2>3 DEF Recorded
  <2>6. LeavesInOrder'
    BY <2>2, <2>4, LeavesStayInOrder DEF IndexerInv
  <2> QED
    BY <1>1, <2>2, <2>3, <2>4, <2>5, <2>6 DEF Settled
<1>4. CASE chain[k].kind = "close"
  <2>1. PICK id \in PositionId : id = chain[k].key
    BY <1>1, <1>4
  <2>2. leaves' = leaves
        /\ listing' = IF listing[id] = "none" THEN listing ELSE [listing EXCEPT ![id] = "closed"]
    BY <1>4, <2>1 DEF Apply, UpdatePositionClose
  <2>3. /\ listing' \in [PositionId -> {"none", "open", "closed"}]
        /\ \A x \in PositionId : x # id => listing'[x] = listing[x]
        /\ listing[id] # "none" => listing'[id] = "closed"
        /\ listing[id] = "none" => listing'[id] = "none"
    BY <1>1, <2>2
  <2>4. Forward
    BY <1>1, <2>2, <2>3 DEF Forward
  <2>5. Settled(k)'
    <3>1. CASE listing[id] # "none"
      BY <1>4, <2>1, <2>3, <3>1 DEF Settled, Recorded
    <3>2. CASE listing[id] = "none"
      <4>1. PICK j \in 1 .. k - 1 : chain[j].kind = "open" /\ chain[j].key = id
        BY <1>4, <2>1 DEF IndexerInv, ChainShape
      <4>2. ~Recorded(j)
        BY <3>2, <4>1 DEF Recorded
      <4>3. GivenUp(j)
        BY <4>2 DEF Settled
      <4>4. j \in lost
        BY <4>1, <4>3 DEF GivenUp
      <4> QED
        BY <1>4, <2>1, <4>1, <4>4 DEF Settled, GivenUp
    <3> QED
      BY <3>1, <3>2
  <2>6. LeavesInOrder'
    BY <2>2, <2>4, LeavesStayInOrder DEF IndexerInv
  <2> QED
    BY <1>1, <2>2, <2>3, <2>4, <2>5, <2>6
<1> QED
  BY <1>1, <1>2, <1>3, <1>4

LEMMA ProcessKeepsInv ==
    ASSUME IndexerInv, ProcessEvent
    PROVE  IndexerInv'
<1>1. PassEvent /\ Apply(chain[poll.from + 1]) /\ UNCHANGED <<lost, faults>>
  BY DEF ProcessEvent
<1>2. PICK p \in Poll, k \in 1 .. Len(chain) :
               /\ poll = p /\ p.phase = "page" /\ k = p.from + 1 /\ k <= p.next.pos
               /\ poll' = [phase |-> p.phase, startLedger |-> p.startLedger, cursor |-> p.cursor,
                           next |-> p.next, from |-> k,
                           processed |-> Larger(p.processed, chain[k].ledger),
                           scanned |-> p.scanned, seenHead |-> p.seenHead, pages |-> p.pages]
               /\ UNCHANGED <<chainVars, stored>>
               /\ \A i \in 1 .. k - 1 : Settled(i)
  BY <1>1, PageAt
<1>3. /\ chain' = chain /\ head' = head /\ oldest' = oldest /\ UNCHANGED chainVars
      /\ lost' = lost /\ faults' = faults /\ stored' = stored
  BY <1>1, <1>2 DEF chainVars
<1>4. Apply(chain[k])
  BY <1>1, <1>2
<1>5. /\ Forward /\ Settled(k)' /\ LeavesInOrder'
      /\ leaves' \subseteq Nat /\ listing' \in [PositionId -> {"none", "open", "closed"}]
  BY <1>2, <1>3, <1>4, ApplyRecords
<1>6. poll' \in Poll /\ PollSound'
  BY <1>2, <1>3, <1>5, PassKeepsPoll
<1>7. IndexerTypeOK'
  BY <1>3, <1>5, <1>6 DEF IndexerInv, IndexerTypeOK
<1>8. ChainShape' /\ oldest' <= head'
  BY <1>3, ChainUntouched
<1>9. \A i \in 1 .. Len(chain) : Settled(i) => Settled(i)'
  BY <1>5, SettledStays DEF IndexerInv
<1>10. StoredSettled'
  BY <1>3, <1>9 DEF IndexerInv, StoredSettled
<1> QED
  BY <1>5, <1>6, <1>7, <1>8, <1>10 DEF IndexerInv

\* A tick that has applied its page, and what is known then.
LEMMA PageDoneAt ==
    ASSUME IndexerInv, PageDone
    PROVE  \E p \in Poll :
               /\ poll = p /\ p.phase = "page" /\ p.from = p.next.pos
               /\ p.startLedger \in 1 .. head + 1
               /\ p.processed \in 1 .. p.next.ledger /\ p.scanned <= p.next.ledger
               /\ p.next.ledger \in Nat /\ p.next.ledger <= p.seenHead
               /\ p.seenHead \in Nat /\ p.seenHead <= head
               /\ PageEnds(p.next) /\ \A i \in 1 .. Len(chain) : i <= p.next.pos => Settled(i)
               /\ p.next = p.cursor =>
                      \A i \in 1 .. Len(chain) : chain[i].ledger <= p.seenHead => i <= p.next.pos
<1>1. PICK p \in Poll : poll = p /\ p.phase = "page" /\ p.from = p.next.pos
  BY DEF PageDone, InPhase, IndexerInv, IndexerTypeOK
<1>2. p # Idle
  BY IndexerConstants
<1>3. Frontier = p.next.ledger /\ \A i \in 1 .. Len(chain) : Reached(i) <=> i <= p.from
  BY <1>1 DEF Frontier, Reached
<1>4. /\ p.startLedger \in 1 .. head + 1
      /\ p.processed >= 1 /\ p.processed <= p.next.ledger /\ p.scanned <= p.next.ledger
      /\ p.next.ledger <= p.seenHead /\ p.seenHead <= head
      /\ PageEnds(p.next) /\ \A i \in 1 .. Len(chain) : i <= p.next.pos => Settled(i)
      /\ p.next = p.cursor =>
             \A i \in 1 .. Len(chain) : chain[i].ledger <= p.seenHead => i <= p.next.pos
  BY <1>1, <1>2, <1>3 DEF IndexerInv, PollSound
<1>5. p.processed \in Nat /\ p.next.ledger \in Nat /\ p.seenHead \in Nat
  BY PollParts DEF PageCursor
<1> QED
  BY <1>1, <1>4, <1>5

LEMMA FinishTickKeepsInv ==
    ASSUME IndexerInv, FinishTick
    PROVE  IndexerInv'
<1>1. PICK p \in Poll :
          /\ poll = p
          /\ p.processed \in 1 .. p.next.ledger
          /\ p.next.ledger \in Nat /\ p.next.ledger <= p.seenHead
          /\ p.seenHead \in Nat /\ p.seenHead <= head
          /\ PageEnds(p.next) /\ \A i \in 1 .. Len(chain) : i <= p.next.pos => Settled(i)
          /\ p.next = p.cursor =>
                 \A i \in 1 .. Len(chain) : chain[i].ledger <= p.seenHead => i <= p.next.pos
  BY PageDoneAt DEF FinishTick, Exhausted
<1>2. /\ stored' = Larger(p.seenHead, p.processed + 1) /\ p.next = p.cursor /\ poll' = Idle
      /\ UNCHANGED <<chainVars, tables, lost, faults>>
  BY <1>1 DEF FinishTick, Exhausted
<1>3. /\ head \in Nat /\ lost \subseteq 1 .. Len(chain) /\ faults \in 0 .. MaxFaults
      /\ \A i \in 1 .. Len(chain) : chain[i].ledger \in Nat
  BY EventFacts DEF IndexerInv, IndexerTypeOK
<1>4. stored' \in 0 .. head + 1 /\ stored' <= p.seenHead + 1
  BY <1>1, <1>2, <1>3 DEF Larger
<1>5. chain' = chain /\ lost' = lost /\ faults' = faults /\ leaves' = leaves /\ listing' = listing
  BY <1>2 DEF chainVars, tables
<1>6. \A i \in 1 .. Len(chain) : Settled(i) => Settled(i)'
  <2>1. Forward
    BY <1>5, TablesStay DEF IndexerInv
  <2> QED
    BY <2>1, SettledStays DEF IndexerInv
<1>7. ASSUME NEW i \in 1 .. Len(chain), chain[i].ledger < stored'
      PROVE  Settled(i)'
  <2>1. chain[i].ledger <= p.seenHead
    BY <1>1, <1>3, <1>4, <1>7
  <2> QED
    BY <1>1, <1>2, <1>6, <2>1
<1>8. lost' \subseteq 1 .. Len(chain) /\ lost \subseteq lost' /\ faults' \in 0 .. MaxFaults
      /\ UNCHANGED chainVars /\ UNCHANGED tables
  BY <1>2, <1>3, <1>5
<1> QED
  BY <1>2, <1>4, <1>7, <1>8, TickEnds

LEMMA StopAtPageCapKeepsInv ==
    ASSUME IndexerInv, StopAtPageCap
    PROVE  IndexerInv'
<1>1. PICK p \in Poll :
          /\ poll = p
          /\ p.processed \in 1 .. p.next.ledger /\ p.scanned <= p.next.ledger
          /\ p.next.ledger \in Nat
          /\ PageEnds(p.next) /\ \A i \in 1 .. Len(chain) : i <= p.next.pos => Settled(i)
  BY PageDoneAt DEF StopAtPageCap
<1>2. /\ stored' = ReachedLedger + 1 /\ poll' = Idle
      /\ lost' = lost \cup {i \in 1 .. Len(chain) :
                                i > p.next.pos /\ chain[i].ledger = p.next.ledger}
      /\ UNCHANGED <<chainVars, tables, faults>>
  BY <1>1 DEF StopAtPageCap
<1>3. /\ head \in Nat /\ lost \subseteq 1 .. Len(chain) /\ faults \in 0 .. MaxFaults
      /\ \A i \in 1 .. Len(chain) : chain[i].ledger \in Nat
  BY EventFacts DEF IndexerInv, IndexerTypeOK
<1>4. p.next.ledger <= head /\ p.scanned \in Nat /\ p.next.pos \in Nat
  BY <1>1, PollParts DEF PageEnds, PageCursor
<1>5. ReachedLedger = p.next.ledger
  BY <1>1, <1>4 DEF ReachedLedger, Larger
<1>6. stored' = p.next.ledger + 1 /\ stored' \in 0 .. head + 1
  BY <1>1, <1>2, <1>3, <1>4, <1>5
<1>7. chain' = chain /\ faults' = faults /\ leaves' = leaves /\ listing' = listing
  BY <1>2 DEF chainVars, tables
<1>8. lost \subseteq lost' /\ lost' \subseteq 1 .. Len(chain)
  BY <1>2, <1>3
<1>9. \A i \in 1 .. Len(chain) : Settled(i) => Settled(i)'
  <2>1. Forward
    BY <1>7, <1>8, TablesStay DEF IndexerInv
  <2> QED
    BY <2>1, SettledStays DEF IndexerInv
<1>10. ASSUME NEW i \in 1 .. Len(chain), chain[i].ledger < stored'
       PROVE  Settled(i)'
  <2>1. CASE i <= p.next.pos
    BY <1>1, <1>9, <2>1
  <2>2. CASE ~(i <= p.next.pos)
    <3>1. ~(chain[i].ledger < p.next.ledger)
      BY <1>1, <2>2 DEF PageEnds
    <3>2. chain[i].ledger < p.next.ledger + 1 /\ chain[i].ledger \in Nat /\ p.next.ledger \in Nat
      BY <1>1, <1>3, <1>6, <1>10
    <3>3. \A a, b \in Nat : (a < b + 1 /\ ~(a < b)) => a = b
      OBVIOUS
    <3>4. chain[i].ledger = p.next.ledger
      BY <3>1, <3>2, <3>3
    <3>5. i > p.next.pos
      BY <1>4, <2>2
    <3>6. i \in lost'
      BY <1>2, <3>4, <3>5
    <3> QED
      BY <3>6 DEF Settled, GivenUp
  <2> QED
    BY <2>1, <2>2
<1>11. faults' \in 0 .. MaxFaults /\ UNCHANGED chainVars /\ UNCHANGED tables
  BY <1>2, <1>3, <1>7
<1> QED
  BY <1>2, <1>6, <1>8, <1>10, <1>11, TickEnds

LEMMA NextPageKeepsInv ==
    ASSUME IndexerInv, NextPage
    PROVE  IndexerInv'
<1>1. PICK p \in Poll :
          /\ poll = p /\ p.startLedger \in 1 .. head + 1
          /\ p.processed \in 1 .. p.next.ledger /\ p.scanned <= p.next.ledger
          /\ p.next.ledger \in Nat
          /\ PageEnds(p.next) /\ \A i \in 1 .. Len(chain) : i <= p.next.pos => Settled(i)
  BY PageDoneAt DEF NextPage
<1>2. /\ poll' = [p EXCEPT !.phase = "request", !.cursor = p.next,
                           !.scanned = Larger(@, p.next.ledger)]
      /\ UNCHANGED <<chainVars, tables, stored, lost, faults>>
  BY <1>1 DEF NextPage
<1>3. /\ p.startLedger \in Nat /\ p.next \in PageCursor /\ p.from \in Nat /\ p.processed \in Nat
      /\ p.scanned \in Nat /\ p.seenHead \in Nat /\ p.pages \in 0 .. MAX_PAGES_PER_TICK
  BY PollParts
<1>4. Larger(p.scanned, p.next.ledger) = p.next.ledger
  BY <1>1, <1>3 DEF Larger
<1>5. poll' = [phase |-> "request", startLedger |-> p.startLedger, cursor |-> p.next,
               next |-> p.next, from |-> p.from, processed |-> p.processed,
               scanned |-> p.next.ledger, seenHead |-> p.seenHead, pages |-> p.pages]
  BY <1>2, <1>4, PollTurned
<1>6. poll' \in Poll
  BY <1>1, <1>3, <1>5 DEF Poll
<1>7. p.next # NoCursor
  BY <1>1 DEF NoCursor
<1>8. /\ chain' = chain /\ head' = head /\ lost' = lost /\ faults' = faults
      /\ leaves' = leaves /\ listing' = listing
  BY <1>2 DEF chainVars, tables
<1>9. \A i \in 1 .. Len(chain) : Settled(i) => Settled(i)'
  <2>1. Forward
    BY <1>8, TablesStay DEF IndexerInv
  <2> QED
    BY <2>1, SettledStays DEF IndexerInv
<1>10. /\ poll'.phase = "request" /\ poll'.startLedger = p.startLedger /\ poll'.cursor = p.next
       /\ poll'.processed = p.processed /\ poll'.scanned = p.next.ledger
  BY <1>5
<1>11. PollSound'
  <2>1. Frontier' = p.next.ledger
    BY <1>7, <1>10 DEF Frontier
  <2>2. \A i \in 1 .. Len(chain) : Reached(i)' => Settled(i)'
    BY <1>1, <1>7, <1>9, <1>10 DEF Reached
  <2>3. PageEnds(poll.cursor)'
    BY <1>1, <1>8, <1>10 DEF PageEnds
  <2>4. \A i \in 1 .. Len(chain') : Reached(i)' => Settled(i)'
    BY <1>8, <2>2
  <2>5. p.startLedger \in 1 .. head' + 1 /\ p.processed >= 1 /\ p.processed <= p.next.ledger
    BY <1>1, <1>8
  <2> QED
    BY <1>1, <1>10, <2>1, <2>3, <2>4, <2>5 DEF PollSound
<1>12. /\ UNCHANGED chainVars /\ UNCHANGED tables /\ UNCHANGED stored /\ lost \subseteq lost'
       /\ lost' \subseteq 1 .. Len(chain) /\ faults' \in 0 .. MaxFaults
  BY <1>2, <1>8 DEF IndexerInv, IndexerTypeOK
<1> QED
  BY <1>6, <1>11, <1>12, TickGoesOn

LEMMA InitHolds == Init => IndexerInv
<1> SUFFICES ASSUME Init PROVE IndexerInv
  OBVIOUS
<1>1. /\ chain = <<>> /\ head = StartLedger /\ oldest = StartLedger
      /\ leaves = {} /\ listing = [id \in PositionId |-> "none"]
      /\ stored = 0 /\ poll = Idle /\ lost = {} /\ faults = 0
      /\ StartLedger \in Nat \ {0} /\ MaxFaults \in Nat
  BY IndexerConstants DEF Init
<1>2. chain \in Seq(Event) /\ Len(chain) = 0
  BY <1>1
<1>3. 1 .. Len(chain) = {} /\ 0 .. Len(chain) = {0}
  BY <1>2
<1>4. IndexerTypeOK
  BY <1>1, <1>2 DEF IndexerTypeOK
<1>5. LedgersSplit
  BY <1>3 DEF LedgersSplit
<1>6. LeavesBefore(1) = 0
  BY <1>4, LeavesBeforeCounts
<1>7. \A m \in 0 .. LeavesBefore(0 + 1) - 1 : FALSE
  BY <1>6
<1>8. LeavesCount
  BY <1>3, <1>7 DEF LeavesCount
<1>9. ChainShape
  BY <1>1, <1>3, <1>5, <1>8 DEF ChainShape
<1>10. StoredSettled /\ LeavesInOrder /\ PollSound /\ oldest <= head
  BY <1>1, <1>3 DEF StoredSettled, LeavesInOrder, PollSound
<1> QED
  BY <1>4, <1>9, <1>10 DEF IndexerInv

LEMMA StutterKeepsInv ==
    ASSUME IndexerInv, UNCHANGED vars
    PROVE  IndexerInv'
<1>1. /\ chain' = chain /\ head' = head /\ oldest' = oldest /\ leaves' = leaves
      /\ listing' = listing /\ stored' = stored /\ poll' = poll /\ lost' = lost
      /\ faults' = faults
  BY DEF vars, chainVars, tables
<1>2. LeavesBefore(1)' = LeavesBefore(1)
  BY <1>1 DEF LeavesBefore
<1>3. ChainShape' /\ oldest' <= head'
  BY <1>1, ChainUntouched DEF chainVars
<1>4. IndexerTypeOK'
  BY <1>1 DEF IndexerInv, IndexerTypeOK
<1>5. Forward
  BY <1>1, TablesStay DEF IndexerInv
<1>6. LeavesInOrder'
  BY <1>1, <1>5, LeavesStayInOrder DEF IndexerInv
<1>7. \A i \in 1 .. Len(chain) : Settled(i) => Settled(i)'
  BY <1>5, SettledStays DEF IndexerInv
<1>8. StoredSettled'
  BY <1>1, <1>7 DEF IndexerInv, StoredSettled
<1>9. PollSound'
  <2>1. Grows
    BY <1>1, <1>5, EventFacts DEF Grows, IndexerInv, IndexerTypeOK
  <2> QED
    BY <1>1, <2>1, PollStays DEF IndexerInv
<1> QED
  BY <1>3, <1>4, <1>6, <1>8, <1>9 DEF IndexerInv

LEMMA IndexerStep ==
    ASSUME IndexerInv, [Next]_vars
    PROVE  IndexerInv'
<1>1. CASE Emit \/ CloseLedger \/ AgeOut
  BY <1>1, ChainMoves
<1>2. CASE BeginTick
  BY <1>2, BeginTickKeepsInv
<1>3. CASE ClampToRetention
  BY <1>3, ClampKeepsInv
<1>4. CASE RequestRefused \/ Abort
  BY <1>4, GivingUpTickKeepsInv
<1>5. CASE RequestPage
  BY <1>5, RequestKeepsInv
<1>6. CASE ProcessEvent
  BY <1>6, ProcessKeepsInv
<1>7. CASE ProcessEventFails
  BY <1>7, ProcessFailsKeepsInv
<1>8. CASE FinishTick
  BY <1>8, FinishTickKeepsInv
<1>9. CASE NextPage
  BY <1>9, NextPageKeepsInv
<1>10. CASE StopAtPageCap
  BY <1>10, StopAtPageCapKeepsInv
<1>11. CASE UNCHANGED vars
  BY <1>11, StutterKeepsInv
<1> QED
  BY <1>1, <1>2, <1>3, <1>4, <1>5, <1>6, <1>7, <1>8, <1>9, <1>10, <1>11 DEF Next, PollerStep

LEMMA IndexerInvHolds == Spec => []IndexerInv
<1>1. IndexerInv /\ [Next]_vars => IndexerInv'
  BY IndexerStep
<1> QED
  BY InitHolds, <1>1, PTL DEF Spec

-----------------------------------------------------------------------------
(* What follows.                                                           *)

\* Nothing below the stored cursor is missing, but for what was given up by
\* name: whatever the pages, the faults, the restarts and the retention.
THEOREM NothingIsSkipped == Spec => []NothingSkipped
<1>1. IndexerInv => NothingSkipped
  BY DEF IndexerInv, StoredSettled, Settled, NothingSkipped
<1> QED
  BY IndexerInvHolds, <1>1, PTL

\* A recorded leaf before the first that a settlement minted has all smaller
\* indexes beside it.
LEMMA NoGapBelow ==
    ASSUME IndexerInv, lost = {}, NEW key \in leaves,
           \A s \in Settlements : key < LeavesBefore(s)
    PROVE  key \in Nat /\ \A m \in 0 .. key : m \in leaves
<1>1. Len(chain) \in Nat /\ key \in Nat
  BY EventFacts DEF IndexerInv, IndexerTypeOK
<1>2. PICK i \in 1 .. Len(chain) : /\ chain[i].kind = "leaf" /\ chain[i].key = key
                                   /\ \A j \in 1 .. i - 1 : Settled(j)
  BY DEF IndexerInv, LeavesInOrder
<1>3. key = LeavesBefore(i)
  BY <1>2 DEF IndexerInv, ChainShape, LeavesCount
<1>4. /\ \A j \in 1 .. Len(chain) + 1 : LeavesBefore(j) \in Nat
      /\ \A j, k \in 1 .. Len(chain) + 1 : j <= k => LeavesBefore(j) <= LeavesBefore(k)
  BY LeavesBeforeCounts DEF IndexerInv
<1>5. ASSUME NEW s \in Settlements PROVE s > i - 1
  <2>1. s \in 1 .. Len(chain) /\ key < LeavesBefore(s)
    BY DEF Settlements
  <2>2. CASE s <= i
    <3>1. s \in 1 .. Len(chain) + 1 /\ i \in 1 .. Len(chain) + 1
      BY <1>1, <2>1
    <3>2. LeavesBefore(s) <= LeavesBefore(i) /\ LeavesBefore(s) \in Nat
      BY <1>4, <2>2, <3>1
    <3> QED
      BY <1>1, <1>3, <2>1, <3>2
  <2> QED
    BY <1>1, <2>1, <2>2
<1>6. i - 1 \in 0 .. Len(chain) /\ (i - 1) + 1 = i
  BY <1>1
<1>7. \A m \in 0 .. key - 1 : \E j \in 1 .. i - 1 : chain[j].kind = "leaf" /\ chain[j].key = m
  BY <1>3, <1>5, <1>6 DEF IndexerInv, ChainShape, LeavesCount
<1>8. ASSUME NEW m \in 0 .. key PROVE m \in leaves
  <2>1. CASE m = key
    BY <2>1
  <2>2. CASE m # key
    <3>1. m \in 0 .. key - 1
      BY <1>1, <2>2
    <3>2. PICK j \in 1 .. i - 1 : chain[j].kind = "leaf" /\ chain[j].key = m
      BY <1>7, <3>1
    <3>3. ~GivenUp(j)
      BY <3>2 DEF GivenUp
    <3> QED
      BY <1>2, <3>2, <3>3 DEF Settled, Recorded
  <2> QED
    BY <2>1, <2>2
<1> QED
  BY <1>1, <1>8

\* As long as nothing was given up, what is served is a prefix of the tree's
\* leaves, up to the first that a settlement minted, in every state of a tick.
THEOREM TreeIsAPrefix == Spec => []ServedTreeIsPrefix
<1>1. IndexerInv => ServedTreeIsPrefix
  <2> DEFINE Served == {k \in leaves : \A s \in Settlements : k < LeavesBefore(s)}
  <2> SUFFICES ASSUME IndexerInv, lost = {}, NEW key \in Served,
                      \A other \in Served : other <= key
               PROVE  key + 1 = Cardinality(Served)
    BY DEF ServedTreeIsPrefix, AssertDense
  <2>1. key \in Nat /\ \A m \in 0 .. key : m \in leaves
    BY NoGapBelow
  <2>2. \A s \in Settlements : LeavesBefore(s) \in Nat
    <3>1. Len(chain) \in Nat
      BY EventFacts DEF IndexerInv
    <3>2. \A s \in Settlements : s \in 1 .. Len(chain) + 1
      BY <3>1 DEF Settlements
    <3> QED
      BY <3>2, LeavesBeforeCounts DEF IndexerInv
  <2>3. \A m \in 0 .. key : m \in Served
    BY <2>1, <2>2
  <2>4. \A m \in Served : m \in 0 .. key
    BY <2>1 DEF IndexerInv, IndexerTypeOK
  <2>5. Served = 0 .. key
    BY <2>3, <2>4
  <2>6. Cardinality(0 .. key) = key + 1
    BY <2>1, FS_Interval
  <2> QED
    BY <2>5, <2>6
<1> QED
  BY IndexerInvHolds, <1>1, PTL

\* A closed position stays closed in the listing, whichever of its events are
\* read again and in whatever page.
THEOREM NoPositionReopens == Spec => ClosedStaysClosed
<1>1. IndexerInv /\ [Next]_vars =>
          [\A id \in PositionId : listing[id] = "closed" => listing'[id] = "closed"]_vars
  <2> SUFFICES ASSUME IndexerInv, Next, NEW id \in PositionId, listing[id] = "closed"
               PROVE  listing'[id] = "closed"
    OBVIOUS
  <2>1. listing \in [PositionId -> {"none", "open", "closed"}]
    BY DEF IndexerInv, IndexerTypeOK
  <2>2. CASE ProcessEvent
    <3>1. Apply(chain[poll.from + 1])
      BY <2>2 DEF ProcessEvent
    <3> QED
      BY <2>1, <3>1 DEF Apply, InsertPosition, UpdatePositionClose
  <2>3. CASE ~ProcessEvent
    <3>1. listing' = listing
      BY <2>3 DEF Next, PollerStep, Emit, CloseLedger, AgeOut, BeginTick, ClampToRetention,
                  RequestRefused, RequestPage, FinishTick, NextPage, StopAtPageCap,
                  ProcessEventFails, Abort, tables
    <3> QED
      BY <3>1
  <2> QED
    BY <2>2, <2>3
<1> QED
  BY IndexerInvHolds, <1>1, PTL DEF Spec, ClosedStaysClosed
=============================================================================
