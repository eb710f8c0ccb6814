-------------------------- MODULE WalletNotes_proofs --------------------------
(***************************************************************************)
(* What the wallet stores of its notes is true and nothing that came in is *)
(* forgotten, for any notes, payments, overlaps of tasks and faults.       *)
(*                                                                         *)
(* Everything a task carries between a read and the write that follows it  *)
(* is true of the chain for good, because the log only grows; so a write   *)
(* that comes late is stale and never wrong.  The notes it goes over are   *)
(* in overwritten, those marked on the word of a hash that spent nothing   *)
(* in misled, and those in rows that could not be read in unread.          *)
(***************************************************************************)
EXTENDS WalletNotes, FiniteSetTheorems, FunctionTheorems, SequenceTheorems,
        WellFoundedInduction, TLAPS

\* The leaves of a log, the notes it spends, its last ledger.
LeavesOf(lg) == {i \in 1 .. Len(lg) : lg[i].event.leaf}
SpentOf(lg) == {lg[i].event.note : i \in (1 .. Len(lg)) \ LeavesOf(lg)}
LedgerOf(lg) == IF lg = <<>> THEN 0 ELSE lg[Len(lg)].ledger

\* A sequence, whatever it holds.
IsList(s) == s \in Seq({s[k] : k \in 1 .. Len(s)})

\* No leaf is of less than nothing: no change is, of a payment or of a margin.
AmountsOK(lg) == \A i \in LeavesOf(lg) : lg[i].event.amount \in Nat

\* A log is in the order of its ledgers, and no deposit is made to the old key
\* but those the wallet began with.
LogOK(lg) ==
    /\ IsList(lg) /\ AmountsOK(lg)
    /\ \A i \in 1 .. Len(lg) : lg[i].event.leaf \in BOOLEAN /\ lg[i].ledger \in Nat
    /\ \A i, j \in 1 .. Len(lg) : i < j => lg[i].ledger <= lg[j].ledger

\* The case in which every note is stored under its owner's key.
OwnFunder == Funders \subseteq {"me"}

\* What a set of notes says is true of a log; those of ok may be marked spent.
TrueNotes(lg, ok, S) ==
    /\ \A n \in S : /\ n \in [id : LeavesOf(lg), key : Key, spent : BOOLEAN]
                    /\ OwnFunder => lg[n.id].event.owner = n.key
                    /\ n.spent => n.id \in ok
    /\ \A m, n \in S : m.id = n.id => m = n

\* The old key's store.
TrueLegacy(lg, S) ==
    /\ \A n \in S : /\ n \in [id : LeavesOf(lg), key : Key, spent : BOOLEAN]
                    /\ lg[n.id].event.owner = "old" /\ n.key = "me" /\ n.spent = FALSE
    /\ \A m, n \in S : m.id = n.id => m = n

\* The payments to the wallet before a ledger are among some notes.
Received(lg, before, ids) ==
    \A i \in LeavesOf(lg) : /\ lg[i].event.from = "transfer" /\ lg[i].event.owner = "me"
                            /\ lg[i].ledger < before
                            => i \in ids

\* The notes of the old key that somebody still has to take over.
OldNotes(lg) ==
    {i \in LeavesOf(lg) : lg[i].event.from = "deposit" /\ lg[i].event.owner = "old"}

\* Leaves to be added; none of them is a deposit to the old key.
AreLeaves(leaves) ==
    IsList(leaves) /\ \A k \in 1 .. Len(leaves) : leaves[k].leaf = TRUE /\ leaves[k].amount \in Nat
NoneOld(leaves) ==
    \A k \in 1 .. Len(leaves) : leaves[k].from = "deposit" => leaves[k].owner = "me"

TaskFields == {"at", "kind", "marks", "adds", "key", "outs", "next", "new", "seen", "high"}

Steps == {"idle", "submit", "edit", "write", "delete", "fetch", "deposits", "cursor"}

\* What any task carries: notes to mark, notes to add that are true, and a view of
\* the log that is no newer than the log.
Carries(lg, ok, r) ==
    /\ DOMAIN r = TaskFields /\ r = [f \in TaskFields |-> r[f]]
    /\ r.next \in {"idle", "fetch", "deposits", "cursor", "delete"}
    /\ r.marks \subseteq LeavesOf(lg)
    /\ r.seen \in 0 .. Len(lg) /\ r.high \in 0 .. LedgerOf(lg)
    /\ TrueNotes(lg, ok, r.adds)

TaskTrue(lg, ok, r) ==
    /\ Carries(lg, ok, r)
    /\ r.at \in Steps
    /\ r.at # "submit" => r.marks \subseteq ok
    /\ r.at \notin {"edit", "write"} => r.adds = {}
    /\ r.at \notin {"submit", "edit", "write"} => r.marks = {}
    /\ r.at = "edit" => r.marks # {} \/ r.adds # {}

\* What it is about to write.
WriteTrue(lg, ok, r) ==
    r.at = "write" =>
        /\ TrueNotes(lg, ok, r.new)
        /\ r.marks = {} /\ r.adds # {} => Min(Ids(r.adds)) \in Ids(r.new)

\* What it has submitted: the notes it spends have their keys, and the last leaf
\* belongs to the key under which it will be stored.
Submission(lg, r) ==
    r.at = "submit" =>
        /\ r.kind = "open" => r.marks # {} /\ \A i \in r.marks : lg[i].event.owner \in Funders
        /\ AreLeaves(r.outs) /\ NoneOld(r.outs)
        /\ r.key # None => /\ r.key \in Key /\ Len(r.outs) > 0
                           /\ OwnFunder => r.outs[Len(r.outs)].owner = r.key

IsTask(lg, ok, r) == TaskTrue(lg, ok, r) /\ WriteTrue(lg, ok, r) /\ Submission(lg, r)

\* The adoption of the old key's notes: they are in what is about to be written,
\* then in the store, and only then is theirs deleted.
Adoption(old, ids, r) ==
    /\ r.next = "delete" => r.at \in {"write", "delete"} /\ r.marks = {} /\ r.adds = {}
    /\ r.at = "write" /\ r.next = "delete" => Ids(old) \subseteq Ids(r.new)
    /\ r.at = "delete" => Ids(old) \subseteq ids

\* All of this, for a task that runs while ids are in the store or were written
\* over, and old is in the old key's.
Fits(lg, ok, ids, old, r) ==
    /\ IsTask(lg, ok, r)
    /\ Received(lg, r.high, ids \cup Ids(r.adds))
    /\ Adoption(old, ids, r)

AllFit(lg, ok, ids, old, T) ==
    /\ DOMAIN T = Task /\ T = [t \in Task |-> T[t]]
    /\ \A t \in Task : Fits(lg, ok, ids, old, T[t])

\* The notes it is in order to mark spent: those that are, and those the wallet was
\* given a hash for that spent nothing.
Markable == SpentOf(log) \cup misled

\* What is stored, was written over, or was in a row that could not be read.
Kept == Ids(notes) \cup overwritten \cup unread

\* The leaves of the wallet's own key.
MyLeaves(lg) == {i \in LeavesOf(lg) : lg[i].event.owner = "me"}

ChainInv ==
    /\ LogOK(log) /\ Len(log) <= MaxLog /\ served \in 0 .. Len(log)
    /\ position \in [at : {"none", "open", "closed"}, key : Key]
    /\ position.key \in Funders \cup {"me"}

StoreInv ==
    /\ TrueNotes(log, Markable, notes) /\ TrueNotes(log, Markable, backup) /\ TrueLegacy(log, legacy)
    /\ cursor \in 0 .. LedgerOf(log) /\ remembered \in Key \cup {None}
    /\ overwritten \cup misled \subseteq LeavesOf(log) /\ unread \subseteq MyLeaves(log)

KeptInv ==
    /\ Received(log, cursor, Kept)
    /\ OldNotes(log) \subseteq Ids(legacy) \cup Kept

CountInv == ops \in 0 .. MaxOps /\ faults \in 0 .. MaxFaults

WalletInv == ChainInv /\ StoreInv /\ KeptInv /\ CountInv /\ AllFit(log, Markable, Kept, legacy, task)

-----------------------------------------------------------------------------
(* Numbers, sets and sequences.                                            *)

\* A set of naturals that is not empty has a least element.
LEMMA LeastElement ==
    ASSUME NEW T \in SUBSET Nat, T # {}
    PROVE  \E m \in T : \A n \in T : m <= n
<1> DEFINE R == OpToRel(<, Nat)
<1>1. IsWellFoundedOn(R, Nat)
  BY NatLessThanWellFounded
<1>2. \A a, b \in Nat : a < b => <<a, b>> \in R
  BY DEF OpToRel
<1> HIDE DEF R
<1>3. PICK m \in T : \A n \in T : ~(<<n, m>> \in R)
  BY <1>1, WFMin
<1>4. ASSUME NEW n \in T PROVE m <= n
  <2>1. ~(n < m)
    BY <1>2, <1>3
  <2> QED
    BY <2>1
<1> QED
  BY <1>4

LEMMA MinIsLeast ==
    ASSUME NEW T \in SUBSET Nat, T # {}
    PROVE  Min(T) \in T /\ \A n \in T : Min(T) <= n
BY LeastElement DEF Min

\* One that is bounded has a greatest.
LEMMA MaxIsGreatest ==
    ASSUME NEW b \in Nat, NEW T \in SUBSET (0 .. b), T # {}
    PROVE  Max(T) \in T /\ \A n \in T : n <= Max(T)
<1> DEFINE U == {b - n : n \in T}
<1>1. U \in SUBSET Nat /\ U # {}
  OBVIOUS
<1>2. PICK m \in U : \A n \in U : m <= n
  BY <1>1, LeastElement
<1>3. PICK g \in T : m = b - g
  BY <1>2
<1>4. ASSUME NEW n \in T PROVE g >= n
  <2>1. b - n \in U
    OBVIOUS
  <2>2. m <= b - n
    BY <1>2, <2>1
  <2> QED
    BY <1>3, <2>2
<1>5. \E x \in T : \A y \in T : x >= y
  BY <1>3, <1>4
<1>6. Max(T) \in T /\ \A y \in T : Max(T) >= y
  BY <1>5 DEF Max
<1> QED
  BY <1>6

\* SetToSeq lists a set.
LEMMA SetToSeqLists ==
    ASSUME NEW S, IsFiniteSet(S)
    PROVE  /\ Cardinality(S) \in Nat /\ Len(SetToSeq(S)) = Cardinality(S)
           /\ \A k \in 1 .. Cardinality(S) : SetToSeq(S)[k] \in S
           /\ \A x \in S : \E k \in 1 .. Cardinality(S) : SetToSeq(S)[k] = x
<1> DEFINE n == Cardinality(S)
<1>1. n \in Nat /\ ExistsBijection(1 .. n, S)
  BY FS_CardinalityType
<1>2. PICK f : f \in Bijection(1 .. n, S)
  BY <1>1 DEF ExistsBijection
<1>3. f \in [1 .. n -> S] /\ IsInjective(f)
  BY <1>2 DEF Bijection, Injection
<1>4. SetToSeq(S) \in [1 .. n -> S] /\ IsInjective(SetToSeq(S))
  BY <1>3 DEF SetToSeq
<1>5. SetToSeq(S) \in Injection(1 .. n, S)
  BY <1>4 DEF Injection
<1>6. IsFiniteSet(1 .. n) /\ Cardinality(1 .. n) = n
  BY <1>1, FS_Interval
<1>7. SetToSeq(S) \in Surjection(1 .. n, S)
  BY <1>5, <1>6, FS_Injection
<1>8. Len(SetToSeq(S)) = n
  BY <1>1, <1>4, SeqDef, LenProperties
<1> QED
  BY <1>1, <1>4, <1>7, <1>8 DEF Surjection

\* A sequence of anything is a list.
LEMMA ListOf ==
    ASSUME NEW S, NEW s \in Seq(S)
    PROVE  IsList(s)
<1>1. Len(s) \in Nat /\ s \in [1 .. Len(s) -> S]
  BY LenProperties
<1>2. s \in [1 .. Len(s) -> {s[k] : k \in 1 .. Len(s)}]
  BY <1>1
<1> QED
  BY <1>1, <1>2, SeqDef DEF IsList

\* So is a function on 1 .. n.
LEMMA FunctionIsList ==
    ASSUME NEW n \in Nat, NEW f, f = [k \in 1 .. n |-> f[k]]
    PROVE  IsList(f) /\ Len(f) = n
<1>1. f \in [1 .. n -> {f[k] : k \in 1 .. n}]
  OBVIOUS
<1>2. f \in Seq({f[k] : k \in 1 .. n})
  BY <1>1, SeqDef
<1> QED
  BY <1>1, <1>2, LenProperties, ListOf

\* Joining them.
LEMMA JoinedSeqs ==
    ASSUME NEW S, NEW T, NEW s \in Seq(S), NEW t \in Seq(T)
    PROVE  /\ s \o t \in Seq(S \cup T) /\ Len(s \o t) = Len(s) + Len(t)
           /\ Len(s) \in Nat /\ Len(t) \in Nat
           /\ \A i \in 1 .. Len(s) : (s \o t)[i] = s[i]
           /\ \A i \in 1 .. Len(t) : (s \o t)[Len(s) + i] = t[i]
<1>1. s \in Seq(S \cup T) /\ t \in Seq(S \cup T)
  BY SeqMonotonic
<1>2. Len(s) \in Nat /\ Len(t) \in Nat
  BY LenProperties
<1> QED
  BY <1>1, <1>2, ConcatProperties

LEMMA Joined ==
    ASSUME NEW s, NEW t, IsList(s), IsList(t)
    PROVE  /\ IsList(s \o t) /\ Len(s \o t) = Len(s) + Len(t)
           /\ Len(s) \in Nat /\ Len(t) \in Nat
           /\ \A i \in 1 .. Len(s) : (s \o t)[i] = s[i]
           /\ \A i \in 1 .. Len(t) : (s \o t)[Len(s) + i] = t[i]
<1>1. PICK S : s \in Seq(S)
  BY DEF IsList
<1>2. PICK T : t \in Seq(T)
  BY DEF IsList
<1>3. /\ s \o t \in Seq(S \cup T) /\ Len(s \o t) = Len(s) + Len(t)
      /\ Len(s) \in Nat /\ Len(t) \in Nat
      /\ \A i \in 1 .. Len(s) : (s \o t)[i] = s[i]
      /\ \A i \in 1 .. Len(t) : (s \o t)[Len(s) + i] = t[i]
  BY <1>1, <1>2, JoinedSeqs
<1>4. IsList(s \o t)
  BY <1>3, ListOf
<1> QED
  BY <1>3, <1>4

-----------------------------------------------------------------------------
(* The choice of notes to pay from.                                        *)

Positive(w) == {i \in DOMAIN w : w[i] > 0}
Before(w, i, j) == w[i] < w[j] \/ (w[i] = w[j] /\ i < j)
UpTo(w, i) == {j \in Positive(w) : w[j] < w[i] \/ (w[j] = w[i] /\ j <= i)}

\* u has the positive amounts of w, ascending, each where at says.
Sorts(w, u, at) ==
    /\ u \in Seq(Nat) /\ Len(u) \in Nat
    /\ \A k \in 1 .. Len(u) : u[k] \in Nat /\ u[k] > 0
    /\ \A k, l \in 1 .. Len(u) : k <= l => u[k] <= u[l]
    /\ \A k \in 1 .. Len(u) : at[k] \in Positive(w) /\ u[k] = w[at[k]]
    /\ \A k, l \in 1 .. Len(u) : at[k] = at[l] => k = l
    /\ \A i \in Positive(w) : \E k \in 1 .. Len(u) : at[k] = i

\* A number no larger than any other in its set is the least.
LEMMA LeastIs ==
    ASSUME NEW T \in SUBSET Nat, NEW x \in T, \A y \in T : x <= y
    PROVE  Least(T) = x
<1>1. \A y \in T : (\A z \in T : y <= z) => y = x
  <2>1. ASSUME NEW y \in T, \A z \in T : y <= z PROVE y = x
    <3>1. y <= x /\ x <= y /\ x \in Nat /\ y \in Nat
      BY <2>1
    <3> QED
      BY <3>1
  <2> QED
    BY <2>1
<1> QED
  BY <1>1 DEF Least

\* The rank of a position: later ones have more up to them, so every position has
\* a rank of its own, and every rank its position.
LEMMA RanksFit ==
    ASSUME NEW w \in Seq(Nat)
    PROVE  LET n == Cardinality(Positive(w))
           IN  /\ n \in Nat /\ IsFiniteSet(Positive(w))
               /\ \A i \in Positive(w) : Cardinality(UpTo(w, i)) \in 1 .. n
               /\ \A i, j \in Positive(w) :
                      Before(w, i, j) => Cardinality(UpTo(w, i)) < Cardinality(UpTo(w, j))
               /\ \A k \in 1 .. n : \E i \in Positive(w) : Cardinality(UpTo(w, i)) = k
<1> DEFINE P == Positive(w)
           n == Cardinality(P)
           rank == [i \in P |-> Cardinality(UpTo(w, i))]
<1>1. DOMAIN w = 1 .. Len(w) /\ Len(w) \in Nat /\ \A i \in 1 .. Len(w) : w[i] \in Nat
  BY ElementOfSeq, LenProperties
<1>2. P \in SUBSET (1 .. Len(w)) /\ \A i \in P : i \in Nat /\ w[i] \in Nat
  BY <1>1 DEF Positive
<1>3. IsFiniteSet(P) /\ n \in Nat
  <2>1. IsFiniteSet(1 .. Len(w))
    BY <1>1, FS_Interval
  <2>2. IsFiniteSet(P)
    BY <1>2, <2>1, FS_Subset
  <2> QED
    BY <2>2, FS_CardinalityType
<1>4. \A i \in P : UpTo(w, i) \in SUBSET P /\ i \in UpTo(w, i)
  BY <1>2 DEF UpTo
<1>5. ASSUME NEW i \in P
      PROVE  IsFiniteSet(UpTo(w, i)) /\ Cardinality(UpTo(w, i)) \in 1 .. n
  <2>1. UpTo(w, i) \in SUBSET P /\ UpTo(w, i) # {}
    BY <1>4
  <2> HIDE DEF P
  <2>2. IsFiniteSet(UpTo(w, i)) /\ Cardinality(UpTo(w, i)) <= Cardinality(P)
    BY <1>3, <2>1, FS_Subset
  <2>3. Cardinality(UpTo(w, i)) \in Nat
    BY <2>2, FS_CardinalityType
  <2>4. Cardinality(UpTo(w, i)) # 0
    BY <2>1, <2>2, FS_EmptySet
  <2> QED
    BY <1>3, <2>2, <2>3, <2>4
<1>6. ASSUME NEW i \in P, NEW j \in P, Before(w, i, j)
      PROVE  Cardinality(UpTo(w, i)) < Cardinality(UpTo(w, j))
  <2>1. UpTo(w, i) \in SUBSET UpTo(w, j)
    BY <1>2, <1>6 DEF UpTo, Before
  <2>2. j \in UpTo(w, j) /\ j \notin UpTo(w, i)
    BY <1>2, <1>6 DEF UpTo, Before
  <2>3. UpTo(w, i) # UpTo(w, j)
    BY <2>2
  <2>4. IsFiniteSet(UpTo(w, j)) /\ Cardinality(UpTo(w, j)) \in Nat /\ Cardinality(UpTo(w, i)) \in Nat
    BY <1>3, <1>5
  <2>5. /\ Cardinality(UpTo(w, i)) <= Cardinality(UpTo(w, j))
        /\ Cardinality(UpTo(w, j)) = Cardinality(UpTo(w, i)) => UpTo(w, j) = UpTo(w, i)
    BY <2>1, <2>4, FS_Subset
  <2> QED
    BY <2>3, <2>4, <2>5
<1>7. rank \in Injection(P, 1 .. n)
  <2>1. rank \in [P -> 1 .. n]
    BY <1>5
  <2>2. ASSUME NEW i \in P, NEW j \in P, i # j PROVE rank[i] # rank[j]
    <3>1. Before(w, i, j) \/ Before(w, j, i)
      BY <1>2, <2>2 DEF Before
    <3>2. /\ Cardinality(UpTo(w, i)) \in Nat /\ Cardinality(UpTo(w, j)) \in Nat
          /\ \/ Cardinality(UpTo(w, i)) < Cardinality(UpTo(w, j))
             \/ Cardinality(UpTo(w, j)) < Cardinality(UpTo(w, i))
      BY <1>3, <1>5, <1>6, <3>1
    <3> QED
      BY <3>2
  <2> QED
    BY <2>1, <2>2 DEF Injection, IsInjective
<1>8. IsFiniteSet(1 .. n) /\ Cardinality(1 .. n) = n
  BY <1>3, FS_Interval
<1> HIDE DEF rank, P
<1>9. rank \in Surjection(P, 1 .. n)
  BY <1>7, <1>8, FS_Injection
<1>10. \A k \in 1 .. n : \E i \in P : Cardinality(UpTo(w, i)) = k
  BY <1>9 DEF Surjection, rank
<1> QED
  BY <1>3, <1>5, <1>6, <1>10 DEF P

\* The wallet's sort sorts.
LEMMA UsableSorts ==
    ASSUME NEW w \in Seq(Nat)
    PROVE  \E at : Sorts(w, Usable(w), at)
<1> DEFINE P == Positive(w)
           n == Cardinality(P)
           card(i) == Cardinality(UpTo(w, i))
           at == [k \in 1 .. n |-> CHOOSE i \in P : card(i) = k]
           u == Usable(w)
<1>1. u = [k \in 1 .. n |-> w[CHOOSE i \in P : card(i) = k]]
  BY DEF Usable, Positive, UpTo
<1>2. /\ n \in Nat /\ \A i \in P : card(i) \in 1 .. n
      /\ \A i, j \in P : Before(w, i, j) => card(i) < card(j)
      /\ \A k \in 1 .. n : \E i \in P : card(i) = k
  BY RanksFit
<1>3. \A i \in P : i \in Nat /\ w[i] \in Nat /\ w[i] > 0
  BY ElementOfSeq, LenProperties DEF Positive
<1> HIDE DEF P, n, card, u
<1>4. \A k \in 1 .. n : at[k] \in P /\ card(at[k]) = k
  BY <1>2
<1>5. \A k \in 1 .. n : u[k] = w[at[k]]
  BY <1>1
<1> HIDE DEF at
<1>6. \A k \in 1 .. n : u[k] \in Nat /\ u[k] > 0
  BY <1>3, <1>4, <1>5
<1>7. u \in Seq(Nat) /\ Len(u) = n
  <2>1. u \in [1 .. n -> Nat]
    BY <1>1, <1>6
  <2> QED
    BY <1>2, <2>1, SeqDef, LenProperties
<1>8. ASSUME NEW i \in P PROVE \E k \in 1 .. n : at[k] = i
  <2>1. card(i) \in 1 .. n /\ at[card(i)] \in P /\ card(at[card(i)]) = card(i)
    BY <1>2, <1>4
  <2>2. Before(w, i, at[card(i)]) \/ Before(w, at[card(i)], i) \/ at[card(i)] = i
    BY <1>3, <2>1 DEF Before
  <2>3. ~Before(w, i, at[card(i)]) /\ ~Before(w, at[card(i)], i)
    <3>1. card(i) \in Nat
      BY <1>2
    <3> QED
      BY <1>2, <2>1, <3>1
  <2> QED
    BY <2>1, <2>2, <2>3
<1>9. ASSUME NEW k \in 1 .. n, NEW l \in 1 .. n, k <= l PROVE u[k] <= u[l]
  <2>1. /\ at[k] \in P /\ at[l] \in P /\ card(at[k]) = k /\ card(at[l]) = l
        /\ u[k] = w[at[k]] /\ u[l] = w[at[l]] /\ u[k] \in Nat /\ u[l] \in Nat
    BY <1>4, <1>5, <1>6
  <2>2. CASE u[l] < u[k]
    <3>1. Before(w, at[l], at[k])
      BY <2>1, <2>2 DEF Before
    <3>2. l < k
      BY <1>2, <2>1, <3>1
    <3> QED
      BY <1>9, <3>2
  <2> QED
    BY <2>1, <2>2
<1>10. \A k, l \in 1 .. n : at[k] = at[l] => k = l
  BY <1>4
<1>11. \A k \in 1 .. n : at[k] \in Positive(w)
  BY <1>4 DEF P
<1>12. \A i \in Positive(w) : \E k \in 1 .. n : at[k] = i
  BY <1>8 DEF P
<1>13. Sorts(w, u, at)
  BY <1>2, <1>5, <1>6, <1>7, <1>9, <1>10, <1>11, <1>12 DEF Sorts
<1> QED
  BY <1>13 DEF u

\* One turn of the loop, if there is one, and the loop after each of n turns.
OneTurn(u, amount, s) == IF s.lo < s.hi THEN Turn(u, amount, s) ELSE s
Start(u) == [lo |-> 1, hi |-> Len(u), best |-> <<>>]
Runs(u, amount, g, n) ==
    g = [m \in 0 .. n |-> IF m = 0 THEN Start(u) ELSE OneTurn(u, amount, g[m - 1])]

\* The loop's states after any number of turns are well defined.
LEMMA RunsExist ==
    ASSUME NEW u, NEW amount, NEW n \in Nat
    PROVE  \E g : Runs(u, amount, g, n)
<1> DEFINE T == {m \in Nat : ~ \E g : Runs(u, amount, g, m)}
<1>1. CASE T # {}
  <2>1. PICK m \in T : \A k \in T : m <= k
    BY <1>1, LeastElement
  <2>2. CASE m = 0
    <3> DEFINE g == [k \in 0 .. 0 |-> Start(u)]
    <3>1. g = [k \in 0 .. 0 |-> IF k = 0 THEN Start(u) ELSE OneTurn(u, amount, g[k - 1])]
      OBVIOUS
    <3>2. Runs(u, amount, g, m)
      BY <2>2, <3>1 DEF Runs
    <3> QED
      BY <2>1, <3>2
  <2>3. CASE m # 0
    <3>1. m - 1 \in Nat /\ m - 1 \notin T
      BY <2>1, <2>3
    <3>2. PICK g : Runs(u, amount, g, m - 1)
      BY <3>1
    <3> DEFINE h == [k \in 0 .. m |-> IF k = 0 THEN Start(u) ELSE OneTurn(u, amount, g[k - 1])]
    <3>3. \A k \in 0 .. m - 1 : g[k] = IF k = 0 THEN Start(u) ELSE OneTurn(u, amount, g[k - 1])
      BY <3>2 DEF Runs
    <3>4. ASSUME NEW k \in 0 .. m, k # 0 PROVE g[k - 1] = h[k - 1]
      <4>1. k - 1 \in 0 .. m - 1 /\ k - 1 \in 0 .. m
        BY <3>1, <3>4
      <4> QED
        BY <3>3, <4>1
    <3>5. h = [k \in 0 .. m |-> IF k = 0 THEN Start(u) ELSE OneTurn(u, amount, h[k - 1])]
      BY <3>4
    <3>6. Runs(u, amount, h, m)
      BY <3>5 DEF Runs
    <3> QED
      BY <2>1, <3>6
  <2> QED
    BY <2>2, <2>3
<1>2. CASE T = {}
  BY <1>2
<1> QED
  BY <1>1, <1>2

\* The pair is what the loop has found after as many turns as there are notes.
LEMMA BestPairRuns ==
    ASSUME NEW u, NEW amount, Len(u) \in Nat
    PROVE  \E g : Runs(u, amount, g, Len(u)) /\ BestPair(u, amount) = g[Len(u)].best
<1> DEFINE after == CHOOSE g : Runs(u, amount, g, Len(u))
<1>1. Runs(u, amount, after, Len(u))
  BY RunsExist
<1>2. BestPair(u, amount) = after[Len(u)].best
  BY DEF BestPair, Runs, Start, OneTurn
<1> QED
  BY <1>1, <1>2

\* An ascending list of numbers, and its pairs that are enough.
Ascending(u) ==
    /\ Len(u) \in Nat
    /\ \A k \in 1 .. Len(u) : u[k] \in Nat
    /\ \A k, l \in 1 .. Len(u) : k <= l => u[k] <= u[l]
Enough(u, amount, i, j) ==
    i \in 1 .. Len(u) /\ j \in 1 .. Len(u) /\ i < j /\ u[i] + u[j] >= amount

\* best is such a pair, and no larger than that of i and j.
IsPair(u, amount, best) == \E i, j : Enough(u, amount, i, j) /\ best = <<u[i], u[j]>>
AtMost(u, best, i, j) == best # <<>> /\ best[1] + best[2] <= u[i] + u[j]

\* After m turns: a pair that is enough is between the pointers or no better than
\* the best so far.
LoopInv(u, amount, m, s) ==
    /\ s = [lo |-> s.lo, hi |-> s.hi, best |-> s.best]
    /\ s.lo \in 1 .. Len(u) + 1 /\ s.hi \in 0 .. Len(u)
    /\ s.lo < s.hi => s.hi - s.lo + m + 1 = Len(u)
    /\ s.best = <<>> \/ IsPair(u, amount, s.best)
    /\ \A i, j : Enough(u, amount, i, j) => (s.lo <= i /\ j <= s.hi) \/ AtMost(u, s.best, i, j)

LEMMA PairIs ==
    ASSUME NEW a, NEW b
    PROVE  <<a, b>>[1] = a /\ <<a, b>>[2] = b /\ <<a, b>> # <<>>
OBVIOUS

LEMMA LoopStarts ==
    ASSUME NEW u, NEW amount \in Nat, Ascending(u)
    PROVE  LoopInv(u, amount, 0, Start(u))
<1>1. Len(u) \in Nat
  BY DEF Ascending
<1>2. /\ Start(u).lo = 1 /\ Start(u).hi = Len(u) /\ Start(u).best = <<>>
      /\ Start(u) = [lo |-> Start(u).lo, hi |-> Start(u).hi, best |-> Start(u).best]
  BY DEF Start
<1> HIDE DEF Start
<1> QED
  BY <1>1, <1>2 DEF LoopInv, Enough

\* A turn keeps it: the note that is dropped is in no better pair.
LEMMA LoopTurns ==
    ASSUME NEW u, NEW amount \in Nat, Ascending(u), NEW m \in Nat, NEW s,
           LoopInv(u, amount, m, s)
    PROVE  LoopInv(u, amount, m + 1, OneTurn(u, amount, s))
<1>1. Len(u) \in Nat /\ s.lo \in 1 .. Len(u) + 1 /\ s.hi \in 0 .. Len(u)
  BY DEF Ascending, LoopInv
<1>2. CASE ~(s.lo < s.hi)
  <2>1. OneTurn(u, amount, s) = s
    BY <1>2 DEF OneTurn
  <2> QED
    BY <1>2, <2>1 DEF LoopInv
<1>3. CASE s.lo < s.hi
  <2> DEFINE total == u[s.lo] + u[s.hi]
             t == Turn(u, amount, s)
  <2>1. OneTurn(u, amount, s) = t
    BY <1>3 DEF OneTurn
  <2>2. /\ s.lo \in 1 .. Len(u) /\ s.hi \in 1 .. Len(u)
        /\ u[s.lo] \in Nat /\ u[s.hi] \in Nat /\ total \in Nat
        /\ s.hi - s.lo + m + 1 = Len(u)
    BY <1>1, <1>3 DEF Ascending, LoopInv
  <2>3. CASE total < amount
    <3>1. t = [s EXCEPT !.lo = @ + 1]
      BY <2>3 DEF Turn
    <3>2. s = [lo |-> s.lo, hi |-> s.hi, best |-> s.best]
      BY DEF LoopInv
    <3>3. t = [lo |-> s.lo + 1, hi |-> s.hi, best |-> s.best]
      BY <3>1, <3>2
    <3>4. t.lo = s.lo + 1 /\ t.hi = s.hi /\ t.best = s.best
      BY <3>3
    <3>10. t = [lo |-> t.lo, hi |-> t.hi, best |-> t.best]
      BY <3>3
    <3> HIDE DEF t
    <3>5. ASSUME NEW i, NEW j, Enough(u, amount, i, j)
          PROVE  (t.lo <= i /\ j <= t.hi) \/ AtMost(u, t.best, i, j)
      <4>1. (s.lo <= i /\ j <= s.hi) \/ AtMost(u, t.best, i, j)
        BY <3>4, <3>5 DEF LoopInv
      <4>2. CASE i = s.lo /\ j <= s.hi
        <5>1. j \in 1 .. Len(u) /\ u[j] \in Nat /\ u[j] <= u[s.hi] /\ u[i] + u[j] >= amount
          BY <2>2, <3>5, <4>2 DEF Enough, Ascending
        <5>2. total < amount /\ u[i] + u[j] <= total
          BY <2>2, <2>3, <4>2, <5>1
        <5>3. u[i] + u[j] \in Nat
          BY <2>2, <4>2, <5>1
        <5> HIDE DEF total
        <5> QED
          BY <2>2, <5>1, <5>2, <5>3
      <4>3. i \in Nat /\ j \in Nat
        BY <1>1, <3>5 DEF Enough
      <4> QED
        BY <2>2, <3>4, <4>1, <4>2, <4>3
    <3>6. t.best = <<>> \/ IsPair(u, amount, t.best)
      BY <3>4 DEF LoopInv
    <3>7. /\ t.lo \in 1 .. Len(u) + 1 /\ t.hi \in 0 .. Len(u)
          /\ t.hi - t.lo + (m + 1) + 1 = Len(u)
      <4>1. s.lo \in Nat /\ s.hi \in Nat /\ s.lo < s.hi /\ s.hi <= Len(u) /\ s.lo >= 1
        BY <1>1, <1>3
      <4>2. s.hi - s.lo + m + 1 = Len(u)
        BY <2>2
      <4>3. t.lo = s.lo + 1 /\ t.hi = s.hi
        BY <3>4
      <4> DEFINE lo == s.lo
                 hi == s.hi
                 n == Len(u)
      <4>4. n \in Nat /\ lo \in Nat /\ hi \in Nat /\ lo < hi /\ hi <= n /\ lo >= 1 /\ hi - lo + m + 1 = n
        BY <1>1, <4>1, <4>2
      <4>5. t.lo = lo + 1 /\ t.hi = hi
        BY <4>3
      <4> HIDE DEF lo, hi, n
      <4>6. lo + 1 \in 1 .. n + 1 /\ hi \in 0 .. n /\ hi - (lo + 1) + (m + 1) + 1 = n
        BY <4>4
      <4> QED
        BY <4>5, <4>6 DEF n
    <3>8. LoopInv(u, amount, m + 1, t)
      BY <3>5, <3>6, <3>7, <3>10 DEF LoopInv
    <3> QED
      BY <2>1, <3>8
  <2>4. CASE total >= amount
    <3> DEFINE better == s.best = <<>> \/ total < s.best[1] + s.best[2]
               best == IF better THEN <<u[s.lo], u[s.hi]>> ELSE s.best
    <3>1. t = [lo |-> s.lo, hi |-> s.hi - 1, best |-> best]
      BY <2>2, <2>4 DEF Turn
    <3>2. t.lo = s.lo /\ t.hi = s.hi - 1 /\ t.best = best
      BY <3>1
    <3>3. t = [lo |-> t.lo, hi |-> t.hi, best |-> t.best]
      BY <3>1
    <3> HIDE DEF t
    <3>4. Enough(u, amount, s.lo, s.hi)
      BY <1>3, <2>2, <2>4 DEF Enough
    <3>5. IsPair(u, amount, <<u[s.lo], u[s.hi]>>)
      BY <3>4 DEF IsPair
    <3>6. /\ IsPair(u, amount, best) /\ best # <<>> /\ best[1] + best[2] <= total
          /\ s.best # <<>> => best[1] + best[2] <= s.best[1] + s.best[2]
      <4>1. CASE s.best = <<>>
        <5>1. best = <<u[s.lo], u[s.hi]>>
          BY <4>1
        <5> HIDE DEF best
        <5>2. best # <<>> /\ best[1] + best[2] = total
          BY <5>1, PairIs
        <5> QED
          BY <2>2, <3>5, <4>1, <5>1, <5>2
      <4>2. CASE s.best # <<>>
        <5>1. PICK k, l : Enough(u, amount, k, l) /\ s.best = <<u[k], u[l]>>
          BY <4>2 DEF LoopInv, IsPair
        <5>2. u[k] \in Nat /\ u[l] \in Nat
          BY <5>1 DEF Enough, Ascending
        <5> DEFINE old == u[k] + u[l]
        <5>3. s.best[1] + s.best[2] = old /\ old \in Nat
          BY <5>1, <5>2, PairIs
        <5>4. IsPair(u, amount, s.best)
          BY <5>1 DEF IsPair
        <5>5. CASE total < old
          <6>1. best = <<u[s.lo], u[s.hi]>>
            BY <5>3, <5>5
          <6> HIDE DEF best, old
          <6>2. best # <<>> /\ best[1] + best[2] = total
            BY <6>1, PairIs
          <6>3. total \in Nat /\ IsPair(u, amount, best)
            BY <2>2, <3>5, <6>1
          <6> HIDE DEF total
          <6> QED
            BY <5>3, <5>5, <6>2, <6>3
        <5>6. CASE ~(total < old)
          <6>1. best = s.best
            BY <4>2, <5>3, <5>6
          <6> HIDE DEF best, old, total
          <6> QED
            BY <2>2, <4>2, <5>3, <5>4, <5>6, <6>1
        <5> QED
          BY <5>5, <5>6
      <4> QED
        BY <4>1, <4>2
    <3> HIDE DEF best
    <3>7. ASSUME NEW i, NEW j, Enough(u, amount, i, j)
          PROVE  (t.lo <= i /\ j <= t.hi) \/ AtMost(u, t.best, i, j)
      <4>1. (s.lo <= i /\ j <= s.hi) \/ AtMost(u, s.best, i, j)
        BY <3>7 DEF LoopInv
      <4>2. i \in 1 .. Len(u) /\ j \in 1 .. Len(u) /\ u[i] \in Nat /\ u[j] \in Nat
        BY <3>7 DEF Enough, Ascending
      <4> DEFINE found == best[1] + best[2]
                 pair == u[i] + u[j]
      <4>3. found \in Nat /\ pair \in Nat
        <5>1. PICK k, l : Enough(u, amount, k, l) /\ best = <<u[k], u[l]>>
          BY <3>6 DEF IsPair
        <5> DEFINE v == u[k] + u[l]
        <5>2. best[1] + best[2] = v /\ u[k] \in Nat /\ u[l] \in Nat
          BY <5>1, PairIs DEF Enough, Ascending
        <5>3. v \in Nat
          BY <5>2
        <5>4. pair \in Nat
          BY <4>2
        <5> HIDE DEF v, pair
        <5> QED
          BY <5>2, <5>3, <5>4
      <4>4. CASE AtMost(u, s.best, i, j)
        <5>1. s.best # <<>> /\ s.best[1] + s.best[2] <= pair
          BY <4>4 DEF AtMost
        <5>2. PICK k, l : Enough(u, amount, k, l) /\ s.best = <<u[k], u[l]>>
          BY <5>1 DEF LoopInv, IsPair
        <5> DEFINE old == s.best[1] + s.best[2]
        <5>3. old \in Nat
          <6>1. s.best[1] + s.best[2] = u[k] + u[l] /\ u[k] \in Nat /\ u[l] \in Nat
            BY <5>2, PairIs DEF Enough, Ascending
          <6> QED
            BY <6>1
        <5>4. found <= old /\ old <= pair
          BY <3>6, <5>1
        <5> HIDE DEF found, old, pair
        <5>5. found <= pair
          BY <4>3, <5>3, <5>4
        <5>6. best # <<>> /\ t.best = best
          BY <3>2, <3>6
        <5> QED
          BY <5>5, <5>6 DEF AtMost, found, pair
      <4>5. CASE s.lo <= i /\ j = s.hi
        <5>1. u[s.lo] <= u[i] /\ u[s.hi] = u[j]
          BY <2>2, <4>2, <4>5 DEF Ascending
        <5>2. total <= pair
          BY <2>2, <4>2, <5>1
        <5>3. found <= total
          BY <3>6
        <5> HIDE DEF found, total, pair
        <5>4. found <= pair
          BY <2>2, <4>3, <5>2, <5>3
        <5>5. best # <<>> /\ t.best = best
          BY <3>2, <3>6
        <5> QED
          BY <5>4, <5>5 DEF AtMost, found, pair
      <4>6. CASE s.lo <= i /\ j <= s.hi /\ j # s.hi
        BY <2>2, <3>2, <4>2, <4>6
      <4> QED
        BY <4>1, <4>4, <4>5, <4>6
    <3>8. /\ t.lo \in 1 .. Len(u) + 1 /\ t.hi \in 0 .. Len(u)
          /\ t.hi - t.lo + (m + 1) + 1 = Len(u)
      <4>1. s.lo \in Nat /\ s.hi \in Nat /\ s.lo < s.hi /\ s.hi <= Len(u) /\ s.lo >= 1
        BY <1>1, <1>3
      <4>2. s.hi - s.lo + m + 1 = Len(u)
        BY <2>2
      <4>3. t.lo = s.lo /\ t.hi = s.hi - 1
        BY <3>2
      <4> DEFINE lo == s.lo
                 hi == s.hi
                 n == Len(u)
      <4>4. n \in Nat /\ lo \in Nat /\ hi \in Nat /\ lo < hi /\ hi <= n /\ lo >= 1 /\ hi - lo + m + 1 = n
        BY <1>1, <4>1, <4>2
      <4>5. t.lo = lo /\ t.hi = hi - 1
        BY <4>3
      <4> HIDE DEF lo, hi, n
      <4>6. lo \in 1 .. n + 1 /\ hi - 1 \in 0 .. n /\ (hi - 1) - lo + (m + 1) + 1 = n
        BY <4>4
      <4> QED
        BY <4>5, <4>6 DEF n
    <3>9. LoopInv(u, amount, m + 1, t)
      BY <3>2, <3>3, <3>6, <3>7, <3>8 DEF LoopInv
    <3> QED
      BY <2>1, <3>9
  <2> QED
    BY <2>2, <2>3, <2>4
<1> QED
  BY <1>2, <1>3

\* The pair found is enough and no other pair that is enough is smaller; if
\* none is found none is enough.
SmallestPair(u, amount, b) ==
    /\ b = <<>> => \A i, j : ~Enough(u, amount, i, j)
    /\ b # <<>> => IsPair(u, amount, b) /\ \A i, j : Enough(u, amount, i, j) => AtMost(u, b, i, j)

LEMMA BestPairIsSmallest ==
    ASSUME NEW u, NEW amount \in Nat, Ascending(u)
    PROVE  SmallestPair(u, amount, BestPair(u, amount))
<1>1. Len(u) \in Nat
  BY DEF Ascending
<1>2. PICK g : Runs(u, amount, g, Len(u)) /\ BestPair(u, amount) = g[Len(u)].best
  BY <1>1, BestPairRuns
<1>3. \A m \in 0 .. Len(u) : g[m] = IF m = 0 THEN Start(u) ELSE OneTurn(u, amount, g[m - 1])
  BY <1>2 DEF Runs
<1> DEFINE T == {m \in 0 .. Len(u) : ~LoopInv(u, amount, m, g[m])}
<1>4. T = {}
  <2>1. SUFFICES ASSUME T # {} PROVE FALSE
    OBVIOUS
  <2>2. PICK m \in T : \A k \in T : m <= k
    <3>1. T \in SUBSET Nat
      BY <1>1
    <3> HIDE DEF T
    <3> QED
      BY <2>1, <3>1, LeastElement
  <2>3. m # 0
    BY <1>1, <1>3, <2>2, LoopStarts
  <2>4. m - 1 \in Nat /\ m - 1 \in 0 .. Len(u) /\ m - 1 \notin T
    BY <1>1, <2>2, <2>3
  <2>5. LoopInv(u, amount, m - 1, g[m - 1])
    BY <2>4
  <2>6. LoopInv(u, amount, (m - 1) + 1, OneTurn(u, amount, g[m - 1]))
    BY <2>4, <2>5, LoopTurns
  <2>7. g[m] = OneTurn(u, amount, g[m - 1]) /\ (m - 1) + 1 = m
    BY <1>1, <1>3, <2>2, <2>3
  <2> QED
    BY <2>2, <2>6, <2>7
<1> DEFINE s == g[Len(u)]
<1>5. LoopInv(u, amount, Len(u), s)
  BY <1>1, <1>4
<1> HIDE DEF s
<1>6. s.lo \in Nat /\ s.hi \in Nat /\ ~(s.lo < s.hi)
  <2>1. /\ s.lo \in 1 .. Len(u) + 1 /\ s.hi \in 0 .. Len(u)
        /\ s.lo < s.hi => s.hi - s.lo + Len(u) + 1 = Len(u)
    BY <1>5 DEF LoopInv
  <2> QED
    BY <1>1, <2>1
<1>7. ASSUME NEW i, NEW j, Enough(u, amount, i, j) PROVE AtMost(u, s.best, i, j)
  <2>1. i \in Nat /\ j \in Nat /\ i < j
    BY <1>1, <1>7 DEF Enough
  <2>2. (s.lo <= i /\ j <= s.hi) \/ AtMost(u, s.best, i, j)
    BY <1>5, <1>7 DEF LoopInv
  <2>3. ~(s.lo <= i /\ j <= s.hi)
    BY <1>6, <2>1
  <2> QED
    BY <2>2, <2>3
<1>8. s.best = <<>> \/ IsPair(u, amount, s.best)
  BY <1>5 DEF LoopInv
<1>9. s.best = <<>> => \A i, j : ~Enough(u, amount, i, j)
  BY <1>7 DEF AtMost
<1>10. SmallestPair(u, amount, s.best)
  BY <1>7, <1>8, <1>9 DEF SmallestPair
<1> QED
  BY <1>2, <1>10 DEF s

\* What the wallet sorts is ascending and positive, and has the amounts and the
\* pairs of what it was given.
LEMMA SortedAmounts ==
    ASSUME NEW w \in Seq(Nat), NEW amount \in Nat \ {0}
    PROVE  LET u == Usable(w)
           IN  /\ Ascending(u)
               /\ {w[i] : i \in {j \in DOMAIN w : w[j] >= amount}}
                  = {u[k] : k \in {l \in 1 .. Len(u) : u[l] >= amount}}
               /\ {t \in PairTotals(w) : t >= amount}
                  = {u[p[1]] + u[p[2]] : p \in {q \in Nat \X Nat : Enough(u, amount, q[1], q[2])}}
<1> DEFINE u == Usable(w)
<1>1. PICK at : Sorts(w, u, at)
  BY UsableSorts
<1> HIDE DEF u
<1>2. Len(u) \in Nat /\ \A k \in 1 .. Len(u) : u[k] \in Nat /\ at[k] \in Positive(w) /\ u[k] = w[at[k]]
  BY <1>1 DEF Sorts
<1>3. DOMAIN w = 1 .. Len(w) /\ Len(w) \in Nat /\ \A i \in 1 .. Len(w) : w[i] \in Nat
  BY ElementOfSeq, LenProperties
<1>4. Ascending(u)
  BY <1>1, <1>2 DEF Sorts, Ascending
<1>5. ASSUME NEW i \in DOMAIN w, w[i] >= amount PROVE \E k \in 1 .. Len(u) : u[k] = w[i]
  <2>1. i \in Positive(w)
    BY <1>3, <1>5 DEF Positive
  <2>2. PICK k \in 1 .. Len(u) : at[k] = i
    BY <1>1, <2>1 DEF Sorts
  <2>3. u[k] = w[i]
    BY <1>2, <2>2
  <2> QED
    BY <2>3
<1>6. {w[i] : i \in {j \in DOMAIN w : w[j] >= amount}}
      = {u[k] : k \in {l \in 1 .. Len(u) : u[l] >= amount}}
  <2>1. \A k \in 1 .. Len(u) : at[k] \in DOMAIN w /\ w[at[k]] = u[k]
    BY <1>2 DEF Positive
  <2>2. ASSUME NEW i \in DOMAIN w, w[i] >= amount
        PROVE  w[i] \in {u[k] : k \in {l \in 1 .. Len(u) : u[l] >= amount}}
    <3>1. PICK k \in 1 .. Len(u) : u[k] = w[i]
      BY <1>5, <2>2
    <3>2. k \in {l \in 1 .. Len(u) : u[l] >= amount}
      BY <2>2, <3>1
    <3> QED
      BY <3>1, <3>2
  <2>3. ASSUME NEW k \in 1 .. Len(u), u[k] >= amount
        PROVE  u[k] \in {w[i] : i \in {j \in DOMAIN w : w[j] >= amount}}
    <3>1. at[k] \in {j \in DOMAIN w : w[j] >= amount} /\ w[at[k]] = u[k]
      BY <2>1, <2>3
    <3> QED
      BY <3>1
  <2> QED
    BY <2>2, <2>3
<1>7. ASSUME NEW t \in PairTotals(w), t >= amount
      PROVE  \E k, l : Enough(u, amount, k, l) /\ t = u[k] + u[l]
  <2>1. PICK i, j : /\ i \in DOMAIN w /\ j \in DOMAIN w /\ i < j /\ w[i] > 0 /\ w[j] > 0
                    /\ t = w[i] + w[j]
    BY <1>7 DEF PairTotals
  <2>2. i \in Positive(w) /\ j \in Positive(w) /\ i # j
    BY <1>3, <2>1 DEF Positive
  <2>3. PICK k \in 1 .. Len(u), l \in 1 .. Len(u) : at[k] = i /\ at[l] = j
    BY <1>1, <2>2 DEF Sorts
  <2>4. /\ k \in Nat /\ l \in Nat /\ k # l /\ u[k] \in Nat /\ u[l] \in Nat
        /\ u[k] = w[i] /\ u[l] = w[j]
    BY <1>2, <2>2, <2>3
  <2>5. t = u[k] + u[l] /\ t = u[l] + u[k]
    BY <2>1, <2>4
  <2>6. CASE k < l
    <3>1. Enough(u, amount, k, l)
      BY <1>7, <2>5, <2>6 DEF Enough
    <3> QED
      BY <2>5, <3>1
  <2>7. CASE l < k
    <3>1. Enough(u, amount, l, k)
      BY <1>7, <2>5, <2>7 DEF Enough
    <3> QED
      BY <2>5, <3>1
  <2> QED
    BY <2>4, <2>6, <2>7
<1>8. ASSUME NEW k, NEW l, Enough(u, amount, k, l)
      PROVE  u[k] + u[l] \in PairTotals(w) /\ u[k] + u[l] >= amount
  <2>1. k \in 1 .. Len(u) /\ l \in 1 .. Len(u) /\ k < l /\ u[k] + u[l] >= amount
    BY <1>8 DEF Enough
  <2>2. at[k] # at[l] /\ u[k] > 0 /\ u[l] > 0
    BY <1>1, <1>2, <2>1 DEF Sorts
  <2>3. at[k] \in DOMAIN w /\ at[l] \in DOMAIN w /\ u[k] = w[at[k]] /\ u[l] = w[at[l]]
    BY <1>2, <2>1 DEF Positive
  <2>4. at[k] \in Nat /\ at[l] \in Nat /\ u[k] + u[l] = u[l] + u[k]
    BY <1>2, <1>3, <2>1, <2>3
  <2>5. at[k] < at[l] \/ at[l] < at[k]
    BY <2>2, <2>4
  <2>6. ASSUME NEW i \in DOMAIN w, NEW j \in DOMAIN w, i < j, w[i] > 0, w[j] > 0
        PROVE  w[i] + w[j] \in PairTotals(w)
    <3>1. <<i, j>> \in {q \in (DOMAIN w) \X (DOMAIN w) : q[1] < q[2] /\ w[q[1]] > 0 /\ w[q[2]] > 0}
      BY <2>6
    <3> QED
      BY <3>1 DEF PairTotals
  <2>7. CASE at[k] < at[l]
    BY <2>1, <2>2, <2>3, <2>6, <2>7
  <2>8. CASE at[l] < at[k]
    BY <2>1, <2>2, <2>3, <2>4, <2>6, <2>8
  <2> QED
    BY <2>5, <2>7, <2>8
<1>9. {t \in PairTotals(w) : t >= amount}
      = {u[p[1]] + u[p[2]] : p \in {q \in Nat \X Nat : Enough(u, amount, q[1], q[2])}}
  <2> DEFINE good == {q \in Nat \X Nat : Enough(u, amount, q[1], q[2])}
             sums == {u[p[1]] + u[p[2]] : p \in good}
  <2>1. ASSUME NEW t \in PairTotals(w), t >= amount PROVE t \in sums
    <3>1. PICK k, l : Enough(u, amount, k, l) /\ t = u[k] + u[l]
      BY <1>7, <2>1
    <3>2. k \in Nat /\ l \in Nat
      BY <1>2, <3>1 DEF Enough
    <3>3. <<k, l>> \in good
      BY <3>1, <3>2
    <3> QED
      BY <3>1, <3>3
  <2>2. ASSUME NEW t \in sums PROVE t \in PairTotals(w) /\ t >= amount
    <3>1. PICK p \in good : t = u[p[1]] + u[p[2]]
      OBVIOUS
    <3> QED
      BY <1>8, <3>1
  <2> QED
    BY <2>1, <2>2
<1> QED
  BY <1>4, <1>6, <1>9 DEF u

\* The most that can be sent is what two notes or one amount to, and no more.
LEMMA MostOf ==
    ASSUME NEW w, Ascending(Usable(w))
    PROVE  LET u == Usable(w)
               n == Len(u)
           IN  MaxSendable(w) = IF n = 0 THEN 0 ELSE IF n = 1 THEN u[1] ELSE u[n] + u[n - 1]
<1> DEFINE u == Usable(w)
           n == Len(u)
           last(k) == IF Len(u) >= k THEN u[Len(u) + 1 - k] ELSE 0
<1>1. MaxSendable(w) = last(1) + last(2)
  BY DEF MaxSendable
<1> HIDE DEF u
<1>2. n \in Nat /\ \A k \in 1 .. n : u[k] \in Nat
  BY DEF Ascending, u
<1>3. CASE n = 0
  <2>1. last(1) = 0 /\ last(2) = 0
    BY <1>3
  <2> HIDE DEF last
  <2> QED
    BY <1>1, <1>3, <2>1 DEF u
<1>4. CASE n = 1
  <2>1. last(1) = u[1] /\ last(2) = 0 /\ u[1] \in Nat
    BY <1>2, <1>4
  <2> HIDE DEF last
  <2> QED
    BY <1>1, <1>4, <2>1 DEF u
<1>5. CASE n > 1
  <2>1. n + 1 - 1 = n /\ n + 1 - 2 = n - 1 /\ n >= 1 /\ n >= 2
    BY <1>2, <1>5
  <2>2. last(1) = u[n] /\ last(2) = u[n - 1]
    BY <2>1
  <2> HIDE DEF last
  <2>3. n # 0 /\ n # 1
    BY <1>2, <1>5
  <2> QED
    BY <1>1, <2>2, <2>3 DEF u
<1>6. n = 0 \/ n = 1 \/ n > 1
  <2>1. n \in Nat
    BY <1>2
  <2> HIDE DEF n
  <2> QED
    BY <2>1
<1> QED
  BY <1>3, <1>4, <1>5, <1>6 DEF u

\* The wallet's choice for any amount and any notes: the tightest note that covers
\* it, else the tightest pair, else nothing, which is when it is more than the most
\* the wallet says it can send.
LEMMA ChoiceIsTightest ==
    ASSUME NEW w \in Seq(Nat), NEW amount \in Nat \ {0}
    PROVE  LET chosen == SelectNotes(w, amount)
               singles == {w[i] : i \in {j \in DOMAIN w : w[j] >= amount}}
               pairs == {t \in PairTotals(w) : t >= amount}
           IN  /\ singles # {} => chosen = <<Least(singles)>>
               /\ singles = {} /\ pairs # {} => Len(chosen) = 2 /\ chosen[1] + chosen[2] = Least(pairs)
               /\ (chosen = <<>>) <=> amount > MaxSendable(w)
<1> DEFINE u == Usable(w)
           n == Len(u)
           chosen == SelectNotes(w, amount)
           single == {k \in 1 .. n : u[k] >= amount}
           singles == {w[i] : i \in {j \in DOMAIN w : w[j] >= amount}}
           pairs == {t \in PairTotals(w) : t >= amount}
           most == MaxSendable(w)
<1>1. /\ Ascending(u) /\ singles = {u[k] : k \in single}
      /\ pairs = {u[p[1]] + u[p[2]] : p \in {q \in Nat \X Nat : Enough(u, amount, q[1], q[2])}}
  BY SortedAmounts
<1>2. chosen = IF single # {} THEN <<u[Least(single)]>> ELSE BestPair(u, amount)
  BY DEF SelectNotes
<1>3. most = IF n = 0 THEN 0 ELSE IF n = 1 THEN u[1] ELSE u[n] + u[n - 1]
  BY <1>1, MostOf
<1> HIDE DEF u, chosen, singles, pairs, most
<1>4. /\ n \in Nat /\ \A k \in 1 .. n : u[k] \in Nat
      /\ \A k, l \in 1 .. n : k <= l => u[k] <= u[l]
  BY <1>1 DEF Ascending
<1>5. \A i, j : Enough(u, amount, i, j) => u[i] + u[j] \in pairs
  <2>1. SUFFICES ASSUME NEW i, NEW j, Enough(u, amount, i, j) PROVE u[i] + u[j] \in pairs
    OBVIOUS
  <2>2. <<i, j>> \in {q \in Nat \X Nat : Enough(u, amount, q[1], q[2])}
    BY <1>4, <2>1 DEF Enough
  <2> QED
    BY <1>1, <2>2
<1>6. \A t \in pairs : \E i, j : Enough(u, amount, i, j) /\ t = u[i] + u[j]
  BY <1>1
<1>7. \A i, j : Enough(u, amount, i, j) =>
          /\ i \in 1 .. n /\ j \in 1 .. n /\ i < j /\ u[i] \in Nat /\ u[j] \in Nat
          /\ u[i] + u[j] >= amount
  BY <1>4 DEF Enough
<1>8. ASSUME single # {}
      PROVE  chosen = <<Least(singles)>> /\ chosen # <<>> /\ ~(amount > most)
  <2>1. PICK k \in single : \A l \in single : k <= l
    <3>1. single \in SUBSET Nat
      BY <1>4
    <3> HIDE DEF single
    <3> QED
      BY <1>8, <3>1, LeastElement
  <2>2. Least(single) = k
    <3>1. single \in SUBSET Nat
      BY <1>4
    <3> HIDE DEF single
    <3> QED
      BY <2>1, <3>1, LeastIs
  <2>3. Least(singles) = u[k]
    <3>1. singles \in SUBSET Nat /\ u[k] \in singles
      BY <1>1, <1>4
    <3>2. \A x \in singles : u[k] <= x
      BY <1>1, <1>4, <2>1
    <3> QED
      BY <3>1, <3>2, LeastIs
  <2>4. chosen = <<u[k]>> /\ chosen # <<>>
    BY <1>2, <1>8, <2>2
  <2>5. most \in Nat /\ amount <= most
    <3>1. k \in 1 .. n /\ u[k] >= amount /\ u[k] \in Nat /\ n # 0
      BY <1>4
    <3>2. CASE n = 1
      BY <1>3, <3>1, <3>2
    <3>3. CASE n # 1
      <4>1. /\ n \in 1 .. n /\ n - 1 \in 1 .. n /\ k <= n
        <5>1. n \in Nat /\ n # 0 /\ n # 1 /\ k \in 1 .. n
          BY <1>4, <3>1, <3>3
        <5> HIDE DEF n
        <5> QED
          BY <5>1
      <4>2. u[n] \in Nat /\ u[n - 1] \in Nat /\ u[k] <= u[n]
        BY <1>4, <3>1, <4>1
      <4>3. most = u[n] + u[n - 1]
        BY <1>3, <3>1, <3>3
      <4> QED
        BY <3>1, <4>2, <4>3
    <3> QED
      BY <3>2, <3>3
  <2> QED
    BY <2>3, <2>4, <2>5
<1>9. ASSUME single = {}
      PROVE  SmallestPair(u, amount, chosen)
  BY <1>1, <1>2, <1>9, BestPairIsSmallest
<1>10. ASSUME single = {}, chosen # <<>>
       PROVE  /\ Len(chosen) = 2 /\ chosen[1] + chosen[2] = Least(pairs) /\ pairs # {}
              /\ ~(amount > most)
  <2>1. PICK i, j : Enough(u, amount, i, j) /\ chosen = <<u[i], u[j]>>
    BY <1>9, <1>10 DEF SmallestPair, IsPair
  <2> DEFINE x == u[i] + u[j]
  <2>2. Len(chosen) = 2 /\ chosen[1] + chosen[2] = x
    BY <2>1
  <2>3. x \in pairs /\ x \in Nat /\ amount <= x
    BY <1>5, <1>7, <2>1
  <2>4. pairs \in SUBSET Nat
    BY <1>6, <1>7
  <2>5. \A t \in pairs : x <= t
    <3>1. SUFFICES ASSUME NEW t \in pairs PROVE x <= t
      OBVIOUS
    <3>2. PICK k, l : Enough(u, amount, k, l) /\ t = u[k] + u[l]
      BY <1>6
    <3>3. AtMost(u, chosen, k, l)
      BY <1>9, <1>10, <3>2 DEF SmallestPair
    <3> HIDE DEF x
    <3> QED
      BY <2>2, <3>2, <3>3 DEF AtMost
  <2>6. Least(pairs) = x
    <3> HIDE DEF x
    <3> QED
      BY <2>3, <2>4, <2>5, LeastIs
  <2>7. most \in Nat /\ x <= most
    <3>1. /\ i \in 1 .. n /\ j \in 1 .. n /\ i < j /\ u[i] \in Nat /\ u[j] \in Nat
      BY <1>7, <2>1
    <3>2. n # 0 /\ n # 1 /\ n \in 1 .. n /\ n - 1 \in 1 .. n /\ i <= n - 1 /\ j <= n
      BY <1>4, <3>1
    <3>3. /\ u[n] \in Nat /\ u[n - 1] \in Nat
          /\ u[i] <= u[n - 1] /\ u[j] <= u[n]
      BY <1>4, <3>1, <3>2
    <3> DEFINE a == u[i]
               b == u[j]
               c == u[n - 1]
               d == u[n]
    <3>4. most = d + c
      BY <1>3, <3>2
    <3>5. a \in Nat /\ b \in Nat /\ c \in Nat /\ d \in Nat /\ a <= c /\ b <= d
      BY <3>1, <3>3
    <3> HIDE DEF a, b, c, d
    <3>6. most \in Nat /\ a + b <= most
      BY <3>4, <3>5
    <3> QED
      BY <3>6 DEF a, b
  <2> QED
    BY <2>2, <2>3, <2>6, <2>7
<1>11. ASSUME single = {}, chosen = <<>>
       PROVE  pairs = {} /\ amount > most
  <2>1. \A i, j : ~Enough(u, amount, i, j)
    BY <1>9, <1>11 DEF SmallestPair
  <2>2. pairs = {}
    BY <1>6, <2>1
  <2>3. CASE n = 0
    BY <1>3, <2>2, <2>3
  <2>4. CASE n = 1
    <3>1. 1 \in 1 .. n /\ u[1] \in Nat /\ ~(u[1] >= amount)
      BY <1>4, <1>11, <2>4
    <3> QED
      BY <1>3, <2>2, <2>4, <3>1
  <2>5. CASE n > 1
    <3>1. n \in 1 .. n /\ n - 1 \in 1 .. n /\ n - 1 < n /\ n # 0 /\ n # 1
      BY <1>4, <2>5
    <3>2. u[n] \in Nat /\ u[n - 1] \in Nat /\ ~(u[n - 1] + u[n] >= amount)
      BY <1>4, <2>1, <3>1 DEF Enough
    <3>3. most = u[n] + u[n - 1]
      BY <1>3, <3>1
    <3> QED
      BY <2>2, <3>2, <3>3
  <2>6. n = 0 \/ n = 1 \/ n > 1
    <3>1. n \in Nat
      BY <1>4
    <3> HIDE DEF n
    <3> QED
      BY <3>1
  <2> QED
    BY <2>3, <2>4, <2>5, <2>6
<1>12. single # {} <=> singles # {}
  BY <1>1
<1>13. /\ singles # {} => chosen = <<Least(singles)>>
       /\ singles = {} /\ pairs # {} => Len(chosen) = 2 /\ chosen[1] + chosen[2] = Least(pairs)
       /\ (chosen = <<>>) <=> amount > most
  <2> HIDE DEF single
  <2> QED
    BY <1>8, <1>10, <1>11, <1>12
<1> QED
  BY <1>13 DEF chosen, singles, pairs, most

\* The choice of notes is the tightest, for wallets of any notes.
THEOREM SelectionIsRight == \A w \in Seq(Nat) : Tightest(w)
<1>1. SUFFICES ASSUME NEW w \in Seq(Nat), NEW amount \in 1 .. 2 * MaxAmount + 1
               PROVE  LET chosen == SelectNotes(w, amount)
                          singles == {w[i] : i \in {j \in DOMAIN w : w[j] >= amount}}
                          pairs == {t \in PairTotals(w) : t >= amount}
                      IN  /\ singles # {} => chosen = <<Least(singles)>>
                          /\ singles = {} /\ pairs # {} => Len(chosen) = 2 /\ chosen[1] + chosen[2] = Least(pairs)
                          /\ (chosen = <<>>) <=> amount > MaxSendable(w)
  BY DEF Tightest
<1>2. amount \in Nat \ {0}
  BY SelectionConstants
<1> QED
  BY <1>2, ChoiceIsTightest

-----------------------------------------------------------------------------
(* The log.                                                                *)

\* The events of one transaction, and the log with them.
EventsOf(spends, from, leaves) ==
    [i \in 1 .. Cardinality(spends) |-> Spend(SetToSeq(spends)[i], from)] \o leaves
WithEvents(lg, events) ==
    lg \o [i \in 1 .. Len(events) |-> [event |-> events[i], ledger |-> LedgerOf(lg) + 1]]

Lists(events, spends, leaves) ==
    /\ IsList(events)
    /\ {Cardinality(spends), Len(leaves)} \subseteq Nat
    /\ Len(events) = Cardinality(spends) + Len(leaves)
    /\ \A k \in 1 .. Len(events) : /\ events[k].leaf \in BOOLEAN
                                   /\ events[k].leaf => \E j \in 1 .. Len(leaves) : events[k] = leaves[j]
    /\ \A x \in spends : \E k \in 1 .. Len(events) : events[k].leaf = FALSE /\ events[k].note = x
    /\ Len(leaves) > 0 => events[Len(events)] = leaves[Len(leaves)]

\* A log with n rows more, all of the next ledger.
Appends(lg, lg2, new, n) ==
    /\ IsList(lg2) /\ Len(lg2) = Len(lg) + n
    /\ \A i \in 1 .. Len(lg) : lg2[i] = lg[i]
    /\ \A k \in 1 .. n : /\ lg2[Len(lg) + k] = new[k]
                         /\ new[k].event.leaf \in BOOLEAN /\ new[k].ledger = LedgerOf(lg) + 1
                         /\ new[k].event.leaf => new[k].event.amount \in Nat

NewRows(lg, lg2, new, n) ==
    \A i \in 1 .. Len(lg2) : i > Len(lg) => \E k \in 1 .. n : i = Len(lg) + k /\ lg2[i] = new[k]

\* A log and what it becomes by one transaction.
Grown(lg, lg2, spends, leaves) ==
    /\ LogOK(lg2)
    /\ Len(lg2) = Len(lg) + Cardinality(spends) + Len(leaves)
    /\ {Len(lg), Cardinality(spends), Len(leaves)} \subseteq Nat
    /\ \A i \in 1 .. Len(lg) : lg2[i] = lg[i]
    /\ \A i \in 1 .. Len(lg2) : i > Len(lg) =>
           /\ lg2[i].ledger = LedgerOf(lg) + 1
           /\ lg2[i].event.leaf => \E k \in 1 .. Len(leaves) : lg2[i].event = leaves[k]
    /\ spends \subseteq SpentOf(lg2)
    /\ Len(leaves) > 0 => lg2[Len(lg2)].event = leaves[Len(leaves)]

\* The last ledger is the highest.
LEMMA LedgerIsLast ==
    ASSUME NEW lg, LogOK(lg)
    PROVE  /\ Len(lg) \in Nat /\ LedgerOf(lg) \in Nat
           /\ \A i \in 1 .. Len(lg) : lg[i].ledger \in Nat /\ lg[i].ledger <= LedgerOf(lg)
<1>1. Len(lg) \in Nat
  BY LenProperties DEF LogOK, IsList
<1>2. CASE lg = <<>>
  <2>1. Len(lg) = 0
    BY <1>2, EmptySeq
  <2> QED
    BY <1>2, <2>1 DEF LedgerOf
<1>3. CASE lg # <<>>
  <2>1. Len(lg) \in 1 .. Len(lg)
    BY <1>1, <1>3, EmptySeq DEF LogOK, IsList
  <2>2. LedgerOf(lg) = lg[Len(lg)].ledger
    BY <1>3 DEF LedgerOf
  <2>3. ASSUME NEW i \in 1 .. Len(lg) PROVE lg[i].ledger \in Nat /\ lg[i].ledger <= LedgerOf(lg)
    <3>1. CASE i = Len(lg)
      BY <2>1, <2>2, <3>1 DEF LogOK
    <3>2. CASE i < Len(lg)
      BY <2>1, <2>2, <3>2 DEF LogOK
    <3> QED
      BY <1>1, <3>1, <3>2
  <2> QED
    BY <1>1, <2>1, <2>2, <2>3 DEF LogOK
<1> QED
  BY <1>2, <1>3
\* What is added to a log in a new ledger leaves it a log.
LEMMA LogAppends ==
    ASSUME NEW lg, LogOK(lg), NEW new, NEW n \in Nat, NEW lg2, Appends(lg, lg2, new, n)
    PROVE  LogOK(lg2) /\ NewRows(lg, lg2, new, n)
<1>0. /\ IsList(lg2) /\ Len(lg2) = Len(lg) + n
      /\ \A i \in 1 .. Len(lg) : lg2[i] = lg[i]
      /\ \A k \in 1 .. n : /\ lg2[Len(lg) + k] = new[k]
                           /\ new[k].event.leaf \in BOOLEAN /\ new[k].ledger = LedgerOf(lg) + 1
  BY DEF Appends
<1>1. /\ Len(lg) \in Nat /\ LedgerOf(lg) \in Nat
      /\ \A i \in 1 .. Len(lg) : lg[i].ledger \in Nat /\ lg[i].ledger <= LedgerOf(lg)
  BY LedgerIsLast
<1>2. ASSUME NEW i \in 1 .. Len(lg2), i > Len(lg)
      PROVE  \E k \in 1 .. n : i = Len(lg) + k /\ lg2[i] = new[k]
  <2>1. i - Len(lg) \in 1 .. n /\ i = Len(lg) + (i - Len(lg))
    BY <1>0, <1>1, <1>2
  <2> QED
    BY <1>0, <2>1
<1>3. ASSUME NEW i \in 1 .. Len(lg2), i > Len(lg)
      PROVE  lg2[i].event.leaf \in BOOLEAN /\ lg2[i].ledger = LedgerOf(lg) + 1
  <2>1. PICK k \in 1 .. n : i = Len(lg) + k /\ lg2[i] = new[k]
    BY <1>2, <1>3
  <2>2. new[k].event.leaf \in BOOLEAN /\ new[k].ledger = LedgerOf(lg) + 1
    BY <1>0
  <2> QED
    BY <2>1, <2>2
<1>4. \A i \in 1 .. Len(lg2) : ~(i > Len(lg)) => i \in 1 .. Len(lg)
  BY <1>0, <1>1
<1>5. \A i \in 1 .. Len(lg) : lg[i].event.leaf \in BOOLEAN
  BY DEF LogOK
<1>6. \A i, j \in 1 .. Len(lg) : i < j => lg[i].ledger <= lg[j].ledger
  BY DEF LogOK
<1>7. ASSUME NEW i \in 1 .. Len(lg2) PROVE lg2[i].event.leaf \in BOOLEAN /\ lg2[i].ledger \in Nat
  <2>1. CASE i > Len(lg)
    BY <1>1, <1>3, <2>1
  <2>2. CASE ~(i > Len(lg))
    BY <1>0, <1>1, <1>4, <1>5, <2>2
  <2> QED
    BY <2>1, <2>2
<1>8. ASSUME NEW i \in 1 .. Len(lg2), NEW j \in 1 .. Len(lg2), i < j
      PROVE  lg2[i].ledger <= lg2[j].ledger
  <2>1. CASE j > Len(lg) /\ i > Len(lg)
    BY <1>1, <1>3, <2>1
  <2>2. CASE j > Len(lg) /\ ~(i > Len(lg))
    <3>1. lg2[j].ledger = LedgerOf(lg) + 1
      BY <1>3, <2>2
    <3>2. lg2[i].ledger \in Nat /\ lg2[i].ledger <= LedgerOf(lg)
      BY <1>0, <1>1, <1>4, <2>2
    <3> QED
      BY <1>1, <3>1, <3>2
  <2>3. CASE ~(j > Len(lg))
    <3>1. i \in 1 .. Len(lg) /\ j \in 1 .. Len(lg)
      BY <1>1, <1>4, <1>8, <2>3
    <3> QED
      BY <1>0, <1>6, <1>8, <3>1
  <2> QED
    BY <2>1, <2>2, <2>3
<1>9. AmountsOK(lg2)
  <2>1. SUFFICES ASSUME NEW i \in 1 .. Len(lg2), lg2[i].event.leaf PROVE lg2[i].event.amount \in Nat
    BY DEF AmountsOK, LeavesOf
  <2>2. CASE i > Len(lg)
    <3>1. PICK k \in 1 .. n : lg2[i] = new[k]
      BY <1>2, <2>2
    <3>2. new[k].event.leaf => new[k].event.amount \in Nat
      BY DEF Appends
    <3> QED
      BY <2>1, <3>1, <3>2
  <2>3. CASE ~(i > Len(lg))
    <3>1. i \in 1 .. Len(lg) /\ lg2[i] = lg[i] /\ i \in LeavesOf(lg)
      BY <1>0, <1>4, <2>1, <2>3 DEF LeavesOf
    <3> QED
      BY <3>1 DEF LogOK, AmountsOK
  <2> QED
    BY <2>2, <2>3
<1> QED
  BY <1>0, <1>2, <1>7, <1>8, <1>9 DEF LogOK, NewRows

\* The events of one transaction.
LEMMA EventsListed ==
    ASSUME NEW spends, IsFiniteSet(spends), NEW from, NEW leaves, AreLeaves(leaves)
    PROVE  Lists(EventsOf(spends, from, leaves), spends, leaves)
<1> DEFINE c == Cardinality(spends)
           spent == [i \in 1 .. c |-> Spend(SetToSeq(spends)[i], from)]
           events == spent \o leaves
<1>0. IsList(leaves) /\ \A k \in 1 .. Len(leaves) : leaves[k].leaf = TRUE
  BY DEF AreLeaves
<1>1. c \in Nat
  BY FS_CardinalityType
<1>2. spent = [i \in 1 .. c |-> spent[i]]
  OBVIOUS
<1>3. \A i \in 1 .. c : /\ spent[i].leaf = FALSE
                        /\ spent[i].note = SetToSeq(spends)[i]
  BY DEF Spend
<1> HIDE DEF spent, c
<1>4. IsList(spent) /\ Len(spent) = c
  BY <1>1, <1>2, FunctionIsList
<1>5. /\ IsList(events)
      /\ Len(events) = c + Len(leaves) /\ Len(leaves) \in Nat
      /\ \A i \in 1 .. c : events[i] = spent[i]
      /\ \A i \in 1 .. Len(leaves) : events[c + i] = leaves[i]
  BY <1>0, <1>4, Joined
<1> HIDE DEF events
<1>6. ASSUME NEW k \in 1 .. Len(events)
      PROVE  /\ events[k].leaf \in BOOLEAN
             /\ events[k].leaf => \E j \in 1 .. Len(leaves) : events[k] = leaves[j]
  <2>1. CASE k \in 1 .. c
    BY <1>3, <1>5, <2>1
  <2>2. CASE k \notin 1 .. c
    <3>1. k - c \in 1 .. Len(leaves) /\ k = c + (k - c)
      BY <1>1, <1>5, <2>2
    <3> QED
      BY <1>0, <1>5, <3>1
  <2> QED
    BY <2>1, <2>2
<1>7. ASSUME NEW x \in spends
      PROVE  \E k \in 1 .. Len(events) : events[k].leaf = FALSE /\ events[k].note = x
  <2>1. PICK k \in 1 .. c : SetToSeq(spends)[k] = x
    BY SetToSeqLists DEF c
  <2>2. k \in 1 .. Len(events)
    BY <1>1, <1>5
  <2> QED
    BY <1>3, <1>5, <2>1, <2>2
<1>8. ASSUME Len(leaves) > 0 PROVE events[Len(events)] = leaves[Len(leaves)]
  <2>1. Len(leaves) \in 1 .. Len(leaves)
    BY <1>5, <1>8
  <2> QED
    BY <1>5, <2>1
<1> QED
  BY <1>1, <1>5, <1>6, <1>7, <1>8 DEF Lists, EventsOf, events, spent, c

\* One transaction: its nullifiers, then its leaves.
LEMMA LogGrows ==
    ASSUME NEW lg, LogOK(lg), NEW spends, IsFiniteSet(spends), NEW from, NEW leaves,
           AreLeaves(leaves)
    PROVE  Grown(lg, WithEvents(lg, EventsOf(spends, from, leaves)), spends, leaves)
<1> DEFINE c == Cardinality(spends)
           events == EventsOf(spends, from, leaves)
           new == [i \in 1 .. Len(events) |-> [event |-> events[i], ledger |-> LedgerOf(lg) + 1]]
           lg2 == lg \o new
<1>1. /\ IsList(events)
      /\ {c, Len(leaves)} \subseteq Nat /\ Len(events) = c + Len(leaves)
      /\ \A k \in 1 .. Len(events) : /\ events[k].leaf \in BOOLEAN
                                     /\ events[k].leaf => \E j \in 1 .. Len(leaves) : events[k] = leaves[j]
      /\ \A x \in spends : \E k \in 1 .. Len(events) : events[k].leaf = FALSE /\ events[k].note = x
      /\ Len(leaves) > 0 => events[Len(events)] = leaves[Len(leaves)]
  <2>1. Lists(events, spends, leaves)
    BY EventsListed
  <2> QED
    BY <2>1 DEF Lists
<1> HIDE DEF events
<1>2. new = [i \in 1 .. Len(events) |-> new[i]]
  OBVIOUS
<1>3. \A i \in 1 .. Len(events) : new[i].event = events[i] /\ new[i].ledger = LedgerOf(lg) + 1
  OBVIOUS
<1> HIDE DEF new
<1>4. Len(events) \in Nat /\ IsList(new) /\ Len(new) = Len(events)
  <2>1. Len(events) \in Nat
    BY <1>1
  <2> QED
    BY <1>2, <2>1, FunctionIsList
<1>5. /\ IsList(lg2) /\ Len(lg2) = Len(lg) + Len(events) /\ Len(lg) \in Nat
      /\ \A i \in 1 .. Len(lg) : lg2[i] = lg[i]
      /\ \A k \in 1 .. Len(events) : lg2[Len(lg) + k] = new[k]
  <2>1. IsList(lg)
    BY DEF LogOK
  <2> QED
    BY <1>4, <2>1, Joined
<1> HIDE DEF lg2
<1>6. LogOK(lg2) /\ NewRows(lg, lg2, new, Len(events))
  <2>1. \A k \in 1 .. Len(events) : new[k].event.leaf \in BOOLEAN /\ new[k].ledger = LedgerOf(lg) + 1
    BY <1>1, <1>3
  <2>2. ASSUME NEW k \in 1 .. Len(events), new[k].event.leaf PROVE new[k].event.amount \in Nat
    <3>1. new[k].event = events[k]
      BY <1>3
    <3>2. PICK j \in 1 .. Len(leaves) : events[k] = leaves[j]
      BY <1>1, <2>2, <3>1
    <3> QED
      BY <3>1, <3>2 DEF AreLeaves
  <2>3. Appends(lg, lg2, new, Len(events))
    BY <1>5, <2>1, <2>2 DEF Appends
  <2> QED
    BY <1>4, <2>3, LogAppends
<1>7. ASSUME NEW i \in 1 .. Len(lg2), i > Len(lg)
      PROVE  /\ lg2[i].ledger = LedgerOf(lg) + 1
             /\ lg2[i].event.leaf => \E k \in 1 .. Len(leaves) : lg2[i].event = leaves[k]
  <2>1. PICK k \in 1 .. Len(events) : i = Len(lg) + k /\ lg2[i] = new[k]
    BY <1>6, <1>7 DEF NewRows
  <2>2. lg2[i].event = events[k] /\ lg2[i].ledger = LedgerOf(lg) + 1
    BY <1>3, <2>1
  <2> QED
    BY <1>1, <2>2
<1>8. ASSUME NEW x \in spends PROVE x \in SpentOf(lg2)
  <2>1. PICK k \in 1 .. Len(events) : events[k].leaf = FALSE /\ events[k].note = x
    BY <1>1
  <2>2. Len(lg) + k \in 1 .. Len(lg2)
    BY <1>4, <1>5
  <2>3. lg2[Len(lg) + k].event = events[k]
    BY <1>3, <1>5
  <2>4. Len(lg) + k \notin LeavesOf(lg2)
    BY <2>1, <2>3 DEF LeavesOf
  <2> QED
    BY <2>1, <2>2, <2>3, <2>4 DEF SpentOf
<1>9. ASSUME Len(leaves) > 0 PROVE lg2[Len(lg2)].event = leaves[Len(leaves)]
  <2>1. Len(events) \in 1 .. Len(events) /\ Len(lg2) = Len(lg) + Len(events)
    BY <1>1, <1>4, <1>5, <1>9
  <2>2. lg2[Len(lg2)] = new[Len(events)]
    BY <1>5, <2>1
  <2> QED
    BY <1>1, <1>3, <1>9, <2>1, <2>2
<1>10. Len(lg2) = Len(lg) + c + Len(leaves)
  BY <1>1, <1>5
<1> QED
  BY <1>1, <1>5, <1>6, <1>7, <1>8, <1>9, <1>10 DEF Grown, WithEvents, lg2, new, events, c

\* What is on a log stays on it.
Later(lg, lg2) ==
    /\ {Len(lg), Len(lg2), LedgerOf(lg), LedgerOf(lg2)} \subseteq Nat
    /\ Len(lg) <= Len(lg2) /\ LedgerOf(lg) <= LedgerOf(lg2)
    /\ LeavesOf(lg) \subseteq LeavesOf(lg2) /\ SpentOf(lg) \subseteq SpentOf(lg2)
    /\ \A i \in 1 .. Len(lg) : lg2[i] = lg[i]
    /\ LeavesOf(lg) \subseteq 1 .. Len(lg)

LEMMA Growth ==
    ASSUME NEW lg, LogOK(lg), NEW lg2, NEW spends, NEW leaves, Grown(lg, lg2, spends, leaves)
    PROVE  Later(lg, lg2)
<1>1. /\ LogOK(lg2) /\ {Len(lg), Cardinality(spends), Len(leaves)} \subseteq Nat
      /\ Len(lg2) = Len(lg) + Cardinality(spends) + Len(leaves)
      /\ \A i \in 1 .. Len(lg) : lg2[i] = lg[i]
      /\ \A i \in 1 .. Len(lg2) : i > Len(lg) => lg2[i].ledger = LedgerOf(lg) + 1
  BY DEF Grown
<1>2. LedgerOf(lg) \in Nat /\ LedgerOf(lg2) \in Nat /\ Len(lg2) \in Nat
  BY <1>1, LedgerIsLast
<1>3. LedgerOf(lg) <= LedgerOf(lg2)
  <2>1. CASE Len(lg2) > Len(lg)
    <3>1. Len(lg2) \in 1 .. Len(lg2) /\ lg2[Len(lg2)].ledger = LedgerOf(lg) + 1
      BY <1>1, <1>2, <2>1
    <3>2. lg2[Len(lg2)].ledger <= LedgerOf(lg2)
      BY <1>1, <3>1, LedgerIsLast
    <3> QED
      BY <1>2, <3>1, <3>2
  <2>2. CASE Len(lg2) = Len(lg)
    <3>1. CASE lg = <<>>
      <4>1. LedgerOf(lg) = 0
        BY <3>1 DEF LedgerOf
      <4> QED
        BY <1>2, <4>1
    <3>2. CASE lg # <<>>
      <4>1. IsList(lg)
        BY DEF LogOK
      <4>2. Len(lg) \in 1 .. Len(lg)
        BY <1>1, <3>2, <4>1, EmptySeq DEF IsList
      <4>3. LedgerOf(lg) = lg[Len(lg)].ledger
        BY <3>2 DEF LedgerOf
      <4>4. lg2[Len(lg2)].ledger <= LedgerOf(lg2)
        BY <1>1, <2>2, <4>2, LedgerIsLast
      <4> QED
        BY <1>1, <2>2, <4>2, <4>3, <4>4
    <3> QED
      BY <3>1, <3>2
  <2> QED
    BY <1>1, <1>2, <2>1, <2>2
<1>4. Len(lg) <= Len(lg2) /\ \A i \in 1 .. Len(lg) : i \in 1 .. Len(lg2)
  BY <1>1
<1>5. LeavesOf(lg) \subseteq LeavesOf(lg2) /\ LeavesOf(lg) \subseteq 1 .. Len(lg)
  BY <1>1, <1>4 DEF LeavesOf
<1>6. ASSUME NEW x \in SpentOf(lg) PROVE x \in SpentOf(lg2)
  <2>1. PICK i \in (1 .. Len(lg)) \ LeavesOf(lg) : lg[i].event.note = x
    BY DEF SpentOf
  <2>2. i \in (1 .. Len(lg2)) \ LeavesOf(lg2) /\ lg2[i].event.note = x
    BY <1>1, <1>4, <2>1 DEF LeavesOf
  <2> QED
    BY <2>2 DEF SpentOf
<1> QED
  BY <1>1, <1>2, <1>3, <1>4, <1>5, <1>6 DEF Later

LEMMA StillTrue ==
    ASSUME NEW lg, NEW lg2, NEW ok, NEW ok2, ok \subseteq ok2, Later(lg, lg2), NEW S, TrueNotes(lg, ok, S)
    PROVE  TrueNotes(lg2, ok2, S)
<1>1. /\ LeavesOf(lg) \subseteq LeavesOf(lg2)
      /\ \A i \in LeavesOf(lg) : lg2[i] = lg[i]
  BY DEF Later
<1>2. ASSUME NEW n \in S
      PROVE  /\ n \in [id : LeavesOf(lg2), key : Key, spent : BOOLEAN]
             /\ OwnFunder => lg2[n.id].event.owner = n.key
             /\ n.spent => n.id \in ok2
  <2>1. /\ n \in [id : LeavesOf(lg), key : Key, spent : BOOLEAN]
        /\ OwnFunder => lg[n.id].event.owner = n.key
        /\ n.spent => n.id \in ok
    BY DEF TrueNotes
  <2>2. n.id \in LeavesOf(lg)
    BY <2>1
  <2> QED
    BY <1>1, <2>1, <2>2
<1>3. \A m, n \in S : m.id = n.id => m = n
  BY DEF TrueNotes
<1> QED
  BY <1>2, <1>3 DEF TrueNotes

LEMMA StillLegacy ==
    ASSUME NEW lg, NEW lg2, Later(lg, lg2), NEW S, TrueLegacy(lg, S)
    PROVE  TrueLegacy(lg2, S)
<1>1. LeavesOf(lg) \subseteq LeavesOf(lg2) /\ \A i \in LeavesOf(lg) : lg2[i] = lg[i]
  BY DEF Later
<1>2. ASSUME NEW n \in S
      PROVE  /\ n \in [id : LeavesOf(lg2), key : Key, spent : BOOLEAN]
             /\ lg2[n.id].event.owner = "old" /\ n.key = "me" /\ n.spent = FALSE
  <2>1. /\ n \in [id : LeavesOf(lg), key : Key, spent : BOOLEAN]
        /\ lg[n.id].event.owner = "old" /\ n.key = "me" /\ n.spent = FALSE
    BY DEF TrueLegacy
  <2>2. n.id \in LeavesOf(lg)
    BY <2>1
  <2> QED
    BY <1>1, <2>1, <2>2
<1>3. \A m, n \in S : m.id = n.id => m = n
  BY DEF TrueLegacy
<1> QED
  BY <1>2, <1>3 DEF TrueLegacy

LEMMA TaskStillTrue ==
    ASSUME NEW lg, NEW lg2, NEW ok, NEW ok2, ok \subseteq ok2, Later(lg, lg2), NEW r, IsTask(lg, ok, r)
    PROVE  IsTask(lg2, ok2, r)
<1>0. TaskTrue(lg, ok, r) /\ WriteTrue(lg, ok, r) /\ Submission(lg, r)
  BY DEF IsTask
<1>1. TaskTrue(lg2, ok2, r)
  <2>1. TrueNotes(lg2, ok2, r.adds)
    BY <1>0, StillTrue DEF TaskTrue, Carries
  <2>2. r.marks \subseteq LeavesOf(lg2) /\ (r.at # "submit" => r.marks \subseteq ok2)
    BY <1>0 DEF Later, TaskTrue, Carries
  <2>3. r.seen \in 0 .. Len(lg2) /\ r.high \in 0 .. LedgerOf(lg2)
    BY <1>0 DEF Later, TaskTrue, Carries
  <2> QED
    BY <1>0, <2>1, <2>2, <2>3 DEF TaskTrue, Carries
<1>2. WriteTrue(lg2, ok2, r)
  <2>1. ASSUME r.at = "write" PROVE TrueNotes(lg2, ok2, r.new)
    BY <1>0, <2>1, StillTrue DEF WriteTrue
  <2> QED
    BY <1>0, <2>1 DEF WriteTrue
<1>3. Submission(lg2, r)
  <2>1. \A i \in r.marks : lg2[i] = lg[i]
    BY <1>0 DEF Later, TaskTrue, Carries
  <2> QED
    BY <1>0, <2>1 DEF Submission
<1> QED
  BY <1>1, <1>2, <1>3 DEF IsTask

\* New payments are later than anything the scan went past.
LEMMA ReceivedStill ==
    ASSUME NEW lg, NEW lg2, NEW spends, NEW leaves, LogOK(lg), Grown(lg, lg2, spends, leaves),
           NEW before \in 0 .. LedgerOf(lg), NEW ids, Received(lg, before, ids)
    PROVE  Received(lg2, before, ids)
<1> SUFFICES ASSUME NEW i \in LeavesOf(lg2), lg2[i].event.from = "transfer", lg2[i].event.owner = "me",
                    lg2[i].ledger < before
             PROVE  i \in ids
  BY DEF Received
<1>1. i \in 1 .. Len(lg2) /\ Len(lg) \in Nat /\ LedgerOf(lg) \in Nat
  BY LedgerIsLast DEF LeavesOf
<1>2. CASE i > Len(lg)
  <2>1. lg2[i].ledger = LedgerOf(lg) + 1
    BY <1>1, <1>2 DEF Grown
  <2> QED
    BY <1>1, <2>1
<1>3. CASE ~(i > Len(lg))
  <2>1. i \in 1 .. Len(lg) /\ Len(lg2) \in Nat
    BY <1>1, <1>3
  <2>2. lg2[i] = lg[i]
    BY <2>1 DEF Grown
  <2>3. i \in LeavesOf(lg)
    BY <2>1, <2>2 DEF LeavesOf
  <2> QED
    BY <2>2, <2>3 DEF Received
<1> QED
  BY <1>2, <1>3

LEMMA OldStill ==
    ASSUME NEW lg, NEW lg2, NEW spends, NEW leaves, LogOK(lg), Grown(lg, lg2, spends, leaves),
           NoneOld(leaves)
    PROVE  OldNotes(lg2) \subseteq OldNotes(lg)
<1> SUFFICES ASSUME NEW i \in OldNotes(lg2)
             PROVE  i \in OldNotes(lg)
  OBVIOUS
<1>1. /\ i \in 1 .. Len(lg2) /\ Len(lg) \in Nat /\ lg2[i].event.leaf
      /\ lg2[i].event.from = "deposit" /\ lg2[i].event.owner = "old"
  BY LedgerIsLast DEF OldNotes, LeavesOf
<1>2. ~(i > Len(lg))
  <2>1. ASSUME i > Len(lg) PROVE FALSE
    <3>1. PICK k \in 1 .. Len(leaves) : lg2[i].event = leaves[k]
      BY <1>1, <2>1 DEF Grown
    <3> QED
      BY <1>1, <3>1 DEF NoneOld
  <2> QED
    BY <2>1
<1>3. i \in 1 .. Len(lg)
  BY <1>1, <1>2
<1>4. lg2[i] = lg[i]
  BY <1>3 DEF Grown
<1> QED
  BY <1>1, <1>3, <1>4 DEF OldNotes, LeavesOf

-----------------------------------------------------------------------------
(* Tasks.                                                                  *)

LEMMA IdleFields ==
    /\ DOMAIN Idle = TaskFields /\ Idle = [f \in TaskFields |-> Idle[f]]
    /\ Idle.at = "idle" /\ Idle.kind = "" /\ Idle.marks = {} /\ Idle.adds = {} /\ Idle.key = None
    /\ Idle.outs = <<>> /\ Idle.next = "idle" /\ Idle.new = {} /\ Idle.seen = 0 /\ Idle.high = 0
BY DEF Idle, TaskFields

LEMMA NothingIsTrue ==
    ASSUME NEW lg, NEW ok
    PROVE  TrueNotes(lg, ok, {}) /\ Ids({}) = {}
BY DEF TrueNotes, Ids

\* A task whose answer has come carries what it carried on.
Goes(lg, ok, r) == Carries(lg, ok, r) /\ r.marks \subseteq ok

\* What Proceed keeps.
After(r, p) ==
    /\ p.adds = r.adds /\ p.marks = r.marks
    /\ p.high = r.high \/ p.high = 0
    /\ p.next = "idle" \/ p.next = r.next
    /\ p.at # "submit" /\ p.at # "write"
    /\ p.at = "delete" => r.next = "delete"
    /\ p.next = "delete" => r.next = "delete" /\ (r.marks = {} /\ r.adds = {} => p.at = "delete")

LEMMA IdleIsTask ==
    ASSUME NEW lg, NEW ok, LogOK(lg)
    PROVE  IsTask(lg, ok, Idle) /\ Goes(lg, ok, Idle)
<1>1. Len(lg) \in Nat /\ LedgerOf(lg) \in Nat
  BY LedgerIsLast
<1>2. TrueNotes(lg, ok, Idle.adds)
  BY IdleFields, NothingIsTrue
<1>3. Carries(lg, ok, Idle)
  <2>1. 0 \in 0 .. Len(lg) /\ 0 \in 0 .. LedgerOf(lg)
    BY <1>1
  <2> QED
    BY <1>2, <2>1, IdleFields, Zenon DEF Carries
<1> QED
  BY <1>3, IdleFields DEF IsTask, TaskTrue, WriteTrue, Submission, Steps, Goes

\* The fields of a task with some of them changed.
LEMMA Changed ==
    ASSUME NEW r, DOMAIN r = TaskFields, NEW f \in TaskFields, NEW v
    PROVE  LET p == [r EXCEPT ![f] = v]
           IN  /\ DOMAIN p = TaskFields /\ p = [g \in TaskFields |-> p[g]]
               /\ p[f] = v /\ \A g \in TaskFields : g # f => p[g] = r[g]
OBVIOUS

LEMMA ProceedTask ==
    ASSUME NEW lg, NEW ok, LogOK(lg), NEW r, Goes(lg, ok, r)
    PROVE  IsTask(lg, ok, Proceed(r)) /\ After(r, Proceed(r))
<1> DEFINE p == Proceed(r)
<1>1. /\ DOMAIN r = TaskFields /\ r = [f \in TaskFields |-> r[f]]
      /\ r.next \in {"idle", "fetch", "deposits", "cursor", "delete"}
      /\ r.marks \subseteq LeavesOf(lg) /\ r.marks \subseteq ok
      /\ r.seen \in 0 .. Len(lg) /\ r.high \in 0 .. LedgerOf(lg)
      /\ TrueNotes(lg, ok, r.adds)
  BY DEF Goes, Carries
<1>2. CASE r.marks # {} \/ r.adds # {}
  <2>1. p = [r EXCEPT !.at = "edit", !.new = {}]
    BY <1>2 DEF Proceed
  <2>2. /\ DOMAIN p = TaskFields /\ p = [f \in TaskFields |-> p[f]]
        /\ p.at = "edit" /\ p.next = r.next /\ p.marks = r.marks /\ p.adds = r.adds
        /\ p.seen = r.seen /\ p.high = r.high
    BY <1>1, <2>1 DEF TaskFields
  <2> HIDE DEF p
  <2>3. Carries(lg, ok, p)
    BY <1>1, <2>2 DEF Carries
  <2>4. IsTask(lg, ok, p)
    BY <1>1, <1>2, <2>2, <2>3 DEF IsTask, TaskTrue, WriteTrue, Submission, Steps
  <2>5. After(r, p)
    BY <1>2, <2>2 DEF After
  <2> QED
    BY <2>4, <2>5 DEF p
<1>3. CASE r.marks = {} /\ r.adds = {} /\ r.next \in {"idle", "fetch"}
  <2>1. p = [Idle EXCEPT !.at = r.next]
    BY <1>3 DEF Proceed
  <2>2. /\ DOMAIN p = TaskFields /\ p = [f \in TaskFields |-> p[f]]
        /\ p.at = r.next /\ p.next = "idle" /\ p.marks = {} /\ p.adds = {}
        /\ p.seen = 0 /\ p.high = 0
    BY <1>1, <2>1, IdleFields DEF TaskFields
  <2> HIDE DEF p
  <2>3. Carries(lg, ok, p)
    <3>1. 0 \in 0 .. Len(lg) /\ 0 \in 0 .. LedgerOf(lg)
      BY LedgerIsLast
    <3>2. TrueNotes(lg, ok, p.adds)
      BY <1>1, <1>3, <2>2
    <3> QED
      BY <2>2, <3>1, <3>2, Zenon DEF Carries
  <2>4. IsTask(lg, ok, p)
    BY <1>3, <2>2, <2>3 DEF IsTask, TaskTrue, WriteTrue, Submission, Steps
  <2>5. After(r, p)
    BY <1>3, <2>2 DEF After
  <2> QED
    BY <2>4, <2>5 DEF p
<1>4. CASE r.marks = {} /\ r.adds = {} /\ r.next \notin {"idle", "fetch"}
  <2>1. p = [r EXCEPT !.at = r.next, !.new = {}]
    BY <1>4 DEF Proceed
  <2>2. /\ DOMAIN p = TaskFields /\ p = [f \in TaskFields |-> p[f]]
        /\ p.at = r.next /\ p.next = r.next /\ p.marks = {} /\ p.adds = {}
        /\ p.seen = r.seen /\ p.high = r.high
    BY <1>1, <1>4, <2>1 DEF TaskFields
  <2> HIDE DEF p
  <2>3. Carries(lg, ok, p)
    BY <1>1, <1>4, <2>2 DEF Carries
  <2>4. IsTask(lg, ok, p)
    BY <1>1, <1>4, <2>2, <2>3 DEF IsTask, TaskTrue, WriteTrue, Submission, Steps
  <2>5. After(r, p)
    BY <1>1, <1>4, <2>2 DEF After
  <2> QED
    BY <2>4, <2>5 DEF p
<1> QED
  BY <1>2, <1>3, <1>4

LEMMA NothingBefore ==
    ASSUME NEW lg, LogOK(lg), NEW ids
    PROVE  Received(lg, 0, ids)
<1>1. \A i \in LeavesOf(lg) : ~(lg[i].ledger < 0)
  BY DEF LogOK, LeavesOf
<1> QED
  BY <1>1 DEF Received

LEMMA ReceivedMore ==
    ASSUME NEW lg, NEW before, NEW ids, NEW ids2, ids \subseteq ids2, Received(lg, before, ids)
    PROVE  Received(lg, before, ids2)
BY DEF Received

\* More may be marked, and all is as true.
LEMMA MoreMarks ==
    ASSUME NEW lg, NEW ok, NEW ok2, ok \subseteq ok2, NEW S, TrueNotes(lg, ok, S)
    PROVE  TrueNotes(lg, ok2, S)
BY DEF TrueNotes

LEMMA TaskMore ==
    ASSUME NEW lg, NEW ok, NEW ok2, ok \subseteq ok2, NEW r, IsTask(lg, ok, r)
    PROVE  IsTask(lg, ok2, r)
<1>1. TaskTrue(lg, ok, r) /\ WriteTrue(lg, ok, r) /\ Submission(lg, r)
  BY DEF IsTask
<1>2. TaskTrue(lg, ok2, r)
  <2>1. TrueNotes(lg, ok2, r.adds)
    BY <1>1, MoreMarks DEF TaskTrue, Carries
  <2> QED
    BY <1>1, <2>1 DEF TaskTrue, Carries
<1>3. WriteTrue(lg, ok2, r)
  <2>1. ASSUME r.at = "write" PROVE TrueNotes(lg, ok2, r.new)
    BY <1>1, <2>1, MoreMarks DEF WriteTrue
  <2> QED
    BY <1>1, <2>1 DEF WriteTrue
<1> QED
  BY <1>1, <1>2, <1>3 DEF IsTask

\* A task fits as well when more is kept or may be marked, and when the old store is
\* empty.
LEMMA FitsMore ==
    ASSUME NEW lg, NEW ok, NEW ok2, ok \subseteq ok2, NEW ids, NEW ids2, ids \subseteq ids2,
           NEW old, NEW old2, old2 \in {old, {}}, NEW r, Fits(lg, ok, ids, old, r)
    PROVE  Fits(lg, ok2, ids2, old2, r)
<1>1. Received(lg, r.high, ids2 \cup Ids(r.adds))
  BY ReceivedMore DEF Fits
<1>2. Adoption(old2, ids2, r)
  BY NothingIsTrue DEF Fits, Adoption
<1>3. IsTask(lg, ok2, r)
  BY TaskMore DEF Fits
<1> QED
  BY <1>1, <1>2, <1>3 DEF Fits

LEMMA FitsLater ==
    ASSUME NEW lg, NEW lg2, NEW spends, NEW leaves, LogOK(lg), Grown(lg, lg2, spends, leaves),
           NEW ok, NEW ok2, ok \subseteq ok2,
           NEW ids, NEW old, NEW r, Fits(lg, ok, ids, old, r)
    PROVE  Fits(lg2, ok2, ids, old, r)
<1>1. IsTask(lg2, ok2, r)
  BY Growth, TaskStillTrue DEF Fits
<1>2. r.high \in 0 .. LedgerOf(lg)
  BY DEF Fits, IsTask, TaskTrue, Carries
<1>3. Received(lg2, r.high, ids \cup Ids(r.adds))
  BY <1>2, ReceivedStill DEF Fits
<1> QED
  BY <1>1, <1>3 DEF Fits

LEMMA IdleFits ==
    ASSUME NEW lg, NEW ok, LogOK(lg), NEW ids, NEW old
    PROVE  Fits(lg, ok, ids, old, Idle)
<1>1. Received(lg, Idle.high, ids \cup Ids(Idle.adds))
  BY NothingBefore, IdleFields
<1>2. Adoption(old, ids, Idle)
  BY IdleFields DEF Adoption
<1> QED
  BY <1>1, <1>2, IdleIsTask DEF Fits

LEMMA ProceedFits ==
    ASSUME NEW lg, NEW ok, LogOK(lg), NEW ids, NEW old, NEW r, Goes(lg, ok, r),
           Received(lg, r.high, ids \cup Ids(r.adds)),
           r.next = "delete" => r.marks = {} /\ r.adds = {} /\ Ids(old) \subseteq ids
    PROVE  Fits(lg, ok, ids, old, Proceed(r))
<1> DEFINE p == Proceed(r)
<1>1. IsTask(lg, ok, p) /\ After(r, p)
  BY ProceedTask
<1> HIDE DEF p
<1>2. Received(lg, p.high, ids \cup Ids(p.adds))
  BY <1>1, NothingBefore DEF After
<1>3. Adoption(old, ids, p)
  BY <1>1 DEF After, Adoption
<1> QED
  BY <1>1, <1>2, <1>3 DEF Fits, p

\* One task takes a step.
LEMMA OneTask ==
    ASSUME NEW lg, NEW ok, NEW ids, NEW old, NEW T, AllFit(lg, ok, ids, old, T),
           NEW t \in Task, NEW p, Fits(lg, ok, ids, old, p)
    PROVE  AllFit(lg, ok, ids, old, [T EXCEPT ![t] = p])
<1> DEFINE T2 == [T EXCEPT ![t] = p]
<1>1. DOMAIN T2 = Task /\ T2 = [u \in Task |-> T2[u]]
  BY DEF AllFit
<1>2. T2[t] = p /\ \A u \in Task : u # t => T2[u] = T[u]
  BY DEF AllFit
<1> HIDE DEF T2
<1>3. \A u \in Task : Fits(lg, ok, ids, old, T2[u])
  BY <1>2 DEF AllFit
<1> QED
  BY <1>1, <1>3 DEF T2, AllFit

\* The log grows under all of them.
LEMMA TasksLater ==
    ASSUME NEW lg, NEW lg2, NEW spends, NEW leaves, LogOK(lg), Grown(lg, lg2, spends, leaves),
           NEW ok, NEW ok2, ok \subseteq ok2,
           NEW ids, NEW old, NEW T, AllFit(lg, ok, ids, old, T)
    PROVE  AllFit(lg2, ok2, ids, old, T)
BY FitsLater DEF AllFit

-----------------------------------------------------------------------------
(* Sets of notes.                                                          *)

LEMMA FewerNotes ==
    ASSUME NEW lg, NEW ok, NEW S, NEW S2, S2 \subseteq S, TrueNotes(lg, ok, S)
    PROVE  TrueNotes(lg, ok, S2)
BY DEF TrueNotes

LEMMA LeavesAreNumbers ==
    ASSUME NEW lg, LogOK(lg)
    PROVE  LeavesOf(lg) \in SUBSET Nat /\ IsFiniteSet(LeavesOf(lg))
<1>1. LeavesOf(lg) \subseteq 1 .. Len(lg) /\ Len(lg) \in Nat
  BY LedgerIsLast DEF LeavesOf
<1>2. IsFiniteSet(1 .. Len(lg))
  BY <1>1, FS_Interval
<1> QED
  BY <1>1, <1>2, FS_Subset

LEMMA IdsAreLeaves ==
    ASSUME NEW lg, NEW ok, NEW S, TrueNotes(lg, ok, S)
    PROVE  Ids(S) \subseteq LeavesOf(lg)
BY DEF TrueNotes, Ids

\* Notes that a task finds for the wallet's own key.
LEMMA FoundNotes ==
    ASSUME NEW lg, NEW ok, NEW I, I \subseteq LeavesOf(lg), \A i \in I : lg[i].event.owner = "me"
    PROVE  /\ TrueNotes(lg, ok, {Note(i, "me") : i \in I})
           /\ Ids({Note(i, "me") : i \in I}) = I
<1> DEFINE S == {Note(i, "me") : i \in I}
<1>1. \A n \in S : \E i \in I : n = Note(i, "me")
  OBVIOUS
<1>2. \A i \in I : /\ Note(i, "me") \in [id : LeavesOf(lg), key : Key, spent : BOOLEAN]
                   /\ Note(i, "me").id = i /\ Note(i, "me").key = "me" /\ ~Note(i, "me").spent
  BY DEF Note, Key
<1>3. \A i \in I : Note(i, "me") \in S
  OBVIOUS
<1> HIDE DEF S
<1>4. TrueNotes(lg, ok, S)
  BY <1>1, <1>2 DEF TrueNotes
<1>5. Ids(S) = I
  BY <1>1, <1>2, <1>3 DEF Ids
<1> QED
  BY <1>4, <1>5 DEF S

LEMMA MergedNotes ==
    ASSUME NEW lg, NEW ok, NEW S, NEW T, TrueNotes(lg, ok, S), TrueNotes(lg, ok, T)
    PROVE  TrueNotes(lg, ok, MergeNotes(S, T)) /\ Ids(S) \cup Ids(T) \subseteq Ids(MergeNotes(S, T))
<1> DEFINE U == MergeNotes(S, T)
<1>1. /\ \A n \in U : n \in S \/ (n \in T /\ n.id \notin Ids(S))
      /\ S \subseteq U /\ \A n \in T : n.id \notin Ids(S) => n \in U
  BY DEF MergeNotes
<1> HIDE DEF U
<1>2. ASSUME NEW m \in U, NEW n \in U, m.id = n.id PROVE m = n
  BY <1>1, <1>2 DEF Ids, TrueNotes
<1>3. TrueNotes(lg, ok, U)
  BY <1>1, <1>2 DEF TrueNotes
<1>4. Ids(S) \cup Ids(T) \subseteq Ids(U)
  BY <1>1 DEF Ids
<1> QED
  BY <1>3, <1>4 DEF U

LEMMA TaggedNotes ==
    ASSUME NEW lg, NEW ok, NEW S, TrueLegacy(lg, S)
    PROVE  TrueNotes(lg, ok, TagLegacyNotes(S)) /\ Ids(S) \subseteq Ids(TagLegacyNotes(S))
<1> DEFINE tag(n) == IF n.key = "me" THEN [n EXCEPT !.key = "old"] ELSE n
           U == TagLegacyNotes(S)
<1>1. /\ \A x \in U : \E n \in S : x = tag(n)
      /\ \A n \in S : tag(n) \in U
  BY DEF TagLegacyNotes
<1>2. ASSUME NEW n \in S
      PROVE  /\ tag(n) \in [id : LeavesOf(lg), key : Key, spent : BOOLEAN]
             /\ tag(n).id = n.id /\ tag(n).key = "old" /\ tag(n).spent = FALSE
             /\ lg[n.id].event.owner = "old"
  BY DEF TrueLegacy, Key
<1> HIDE DEF tag, U
<1>3. ASSUME NEW x \in U, NEW y \in U, x.id = y.id PROVE x = y
  <2>1. PICK m \in S : x = tag(m)
    BY <1>1
  <2>2. PICK n \in S : y = tag(n)
    BY <1>1
  <2>3. m.id = n.id
    BY <1>2, <1>3, <2>1, <2>2
  <2> QED
    BY <2>1, <2>2, <2>3 DEF TrueLegacy
<1>4. ASSUME NEW x \in U
      PROVE  /\ x \in [id : LeavesOf(lg), key : Key, spent : BOOLEAN]
             /\ lg[x.id].event.owner = x.key /\ x.spent = FALSE
  <2>1. PICK n \in S : x = tag(n)
    BY <1>1
  <2> QED
    BY <1>2, <2>1
<1>5. Ids(S) \subseteq Ids(U)
  BY <1>1, <1>2 DEF Ids
<1>6. TrueNotes(lg, ok, U)
  BY <1>3, <1>4 DEF TrueNotes
<1> QED
  BY <1>5, <1>6 DEF U

\* A note is marked spent in a copy of the store.
LEMMA MarkedNotes ==
    ASSUME NEW lg, NEW ok, NEW S, TrueNotes(lg, ok, S), NEW id \in ok
    PROVE  TrueNotes(lg, ok, {IF n.id = id THEN [n EXCEPT !.spent = TRUE] ELSE n : n \in S})
<1> DEFINE mark(n) == IF n.id = id THEN [n EXCEPT !.spent = TRUE] ELSE n
           U == {mark(n) : n \in S}
<1>1. \A x \in U : \E n \in S : x = mark(n)
  OBVIOUS
<1>2. ASSUME NEW n \in S
      PROVE  /\ mark(n) \in [id : LeavesOf(lg), key : Key, spent : BOOLEAN]
             /\ mark(n).id = n.id /\ mark(n).key = n.key
             /\ mark(n).spent => n.id \in ok
             /\ OwnFunder => lg[n.id].event.owner = n.key
  BY DEF TrueNotes
<1> HIDE DEF mark, U
<1>3. ASSUME NEW x \in U, NEW y \in U, x.id = y.id PROVE x = y
  BY <1>1, <1>2, <1>3 DEF TrueNotes
<1>4. TrueNotes(lg, ok, U)
  BY <1>1, <1>2, <1>3 DEF TrueNotes
<1> QED
  BY <1>4 DEF U, mark

-----------------------------------------------------------------------------
(* The steps of a task, one at a time.                                     *)

LEMMA Views ==
    ASSUME ChainInv
    PROVE  /\ Leaves(Len(log)) = LeavesOf(log) /\ SpentIn(Len(log)) \cup misled = Markable
           /\ Ledger = LedgerOf(log) /\ Len(log) \in Nat /\ LedgerOf(log) \in Nat
           /\ served \in Nat /\ served <= Len(log)
           /\ LeavesOf(log) \subseteq 1 .. Len(log)
           /\ \A upTo \in 0 .. Len(log) : /\ Leaves(upTo) = {i \in LeavesOf(log) : i <= upTo}
                                          /\ ListedSpent(upTo) \subseteq Markable
<1>1. LogOK(log) /\ Len(log) \in Nat /\ LedgerOf(log) \in Nat /\ served \in 0 .. Len(log)
  BY LedgerIsLast DEF ChainInv
<1>2. Leaves(Len(log)) = LeavesOf(log)
  BY DEF Leaves, LeavesOf
<1>3. SpentIn(Len(log)) \cup misled = Markable
  BY <1>2 DEF SpentIn, SpentOf, Markable
<1>4. Ledger = LedgerOf(log)
  BY DEF Ledger, LedgerOf, Last
<1>5. ASSUME NEW upTo \in 0 .. Len(log)
      PROVE  /\ Leaves(upTo) = {i \in LeavesOf(log) : i <= upTo}
             /\ ListedSpent(upTo) \subseteq Markable
  <2>1. \A i \in 1 .. upTo : i \in 1 .. Len(log)
    BY <1>1
  <2>2. Leaves(upTo) = {i \in LeavesOf(log) : i <= upTo}
    BY <1>1, <2>1 DEF Leaves, LeavesOf
  <2>3. \A i \in (1 .. upTo) \ Leaves(upTo) : i \in (1 .. Len(log)) \ LeavesOf(log)
    BY <2>1 DEF Leaves, LeavesOf
  <2>4. ListedSpent(upTo) \subseteq Markable
    BY <2>3 DEF ListedSpent, SpentOf, Markable
  <2> QED
    BY <2>2, <2>4
<1>6. LeavesOf(log) \subseteq 1 .. Len(log)
  BY DEF LeavesOf
<1> QED
  BY <1>1, <1>2, <1>3, <1>4, <1>5, <1>6

\* A step of a task that leaves the chain and the notes alone: at most some marks are
\* owed to a hash that meant nothing, or some rows could not be read.
LEMMA GhostsGrow ==
    ASSUME WalletInv, NEW t \in Task, NEW p, Fits(log, Markable', Kept', legacy, p),
           task' = [task EXCEPT ![t] = p],
           UNCHANGED <<chainVars, served, notes, cursor, legacy, backup, overwritten>>,
           misled \subseteq misled', misled' \subseteq LeavesOf(log),
           unread \subseteq unread', unread' \subseteq MyLeaves(log),
           remembered' \in Key \cup {None}, CountInv'
    PROVE  WalletInv'
<1>1. log' = log /\ Markable \subseteq Markable' /\ Kept \subseteq Kept'
  BY DEF Markable, Kept, chainVars
<1>2. ChainInv'
  BY DEF WalletInv, ChainInv, chainVars
<1>3. StoreInv'
  <2>1. TrueNotes(log, Markable', notes) /\ TrueNotes(log, Markable', backup)
    BY <1>1, MoreMarks DEF WalletInv, StoreInv
  <2> QED
    BY <1>1, <2>1 DEF WalletInv, StoreInv
<1>4. KeptInv'
  <2>1. Received(log, cursor, Kept')
    BY <1>1, ReceivedMore DEF WalletInv, KeptInv
  <2> QED
    BY <1>1, <2>1 DEF WalletInv, KeptInv
<1>5. AllFit(log, Markable', Kept', legacy, [task EXCEPT ![t] = p])
  <2>1. AllFit(log, Markable, Kept, legacy, task)
    BY DEF WalletInv
  <2>2. ASSUME NEW u \in Task PROVE Fits(log, Markable', Kept', legacy, task[u])
    BY <1>1, <2>1, FitsMore DEF AllFit
  <2>3. AllFit(log, Markable', Kept', legacy, task)
    BY <2>1, <2>2 DEF AllFit
  <2> QED
    BY <2>3, OneTask
<1>6. AllFit(log, Markable, Kept, legacy, task)'
  BY <1>1, <1>5
<1> QED
  BY <1>2, <1>3, <1>4, <1>6 DEF WalletInv

LEMMA TaskMoves ==
    ASSUME WalletInv, NEW t \in Task, NEW p, Fits(log, Markable, Kept, legacy, p),
           task' = [task EXCEPT ![t] = p],
           UNCHANGED <<chainVars, served, notes, cursor, legacy, backup, ghostVars>>,
           remembered' \in Key \cup {None}, CountInv'
    PROVE  WalletInv'
<1>1. UNCHANGED <<chainVars, served, notes, cursor, legacy, backup, overwritten, misled, unread>>
  BY DEF ghostVars
<1>2. Markable' = Markable /\ Kept' = Kept
  BY <1>1 DEF Markable, Kept, chainVars
<1>3. misled \subseteq LeavesOf(log) /\ unread \subseteq MyLeaves(log)
  BY DEF WalletInv, StoreInv
<1> QED
  BY <1>1, <1>2, <1>3, GhostsGrow

\* What is known of the task that takes the step.
LEMMA TheTask ==
    ASSUME WalletInv, NEW t \in Task
    PROVE  /\ Fits(log, Markable, Kept, legacy, task[t]) /\ LogOK(log)
           /\ TaskTrue(log, Markable, task[t]) /\ WriteTrue(log, Markable, task[t]) /\ Submission(log, task[t])
           /\ Carries(log, Markable, task[t]) /\ Adoption(legacy, Kept, task[t])
           /\ Received(log, task[t].high, Kept \cup Ids(task[t].adds))
BY DEF WalletInv, AllFit, Fits, IsTask, TaskTrue, ChainInv

LEMMA CountFaults ==
    ASSUME CountInv, Fault, UNCHANGED ops
    PROVE  CountInv'
BY WalletConstants DEF CountInv, Fault

LEMMA BeginKeeps ==
    ASSUME WalletInv, NEW kind, NEW uses, uses \subseteq notes, NEW outs, NEW key,
           AreLeaves(outs), NoneOld(outs),
           kind = "open" => uses # {} /\ \A n \in uses : n.key \in Funders,
           key # None => /\ key \in Key /\ Len(outs) > 0
                         /\ OwnFunder => outs[Len(outs)].owner = key,
           Begin(kind, uses, outs, key)
    PROVE  WalletInv'
<1> DEFINE p == [Idle EXCEPT !.at = "submit", !.kind = kind, !.marks = Ids(uses),
                             !.outs = outs, !.key = key]
<1>1. /\ task' = [task EXCEPT !["user"] = p]
      /\ UNCHANGED <<chainVars, served, notes, cursor, remembered, legacy, backup, ghostVars>>
      /\ CountInv'
      /\ \A n \in uses : log[n.id].event.owner = n.key
  BY WalletConstants DEF Begin, storeVars, WalletInv, CountInv, LeafAt, KeysForNote
<1>2. /\ DOMAIN p = TaskFields /\ p = [f \in TaskFields |-> p[f]]
      /\ p.at = "submit" /\ p.kind = kind /\ p.marks = Ids(uses) /\ p.adds = {} /\ p.key = key
      /\ p.outs = outs /\ p.next = "idle" /\ p.seen = 0 /\ p.high = 0
  BY IdleFields DEF TaskFields
<1> HIDE DEF p
<1>3. LogOK(log) /\ TrueNotes(log, Markable, notes)
  BY DEF WalletInv, ChainInv, StoreInv
<1>4. p.marks \subseteq LeavesOf(log)
  <2>1. TrueNotes(log, Markable, uses)
    BY <1>3, FewerNotes
  <2> QED
    BY <1>2, <2>1, IdsAreLeaves
<1>5. Carries(log, Markable, p)
  <2>1. 0 \in 0 .. Len(log) /\ 0 \in 0 .. LedgerOf(log)
    BY <1>3, LedgerIsLast
  <2>2. TrueNotes(log, Markable, p.adds)
    BY <1>2, NothingIsTrue
  <2>3. p.next \in {"idle", "fetch", "deposits", "cursor", "delete"} /\ p.seen = 0 /\ p.high = 0
    BY <1>2
  <2>4. DOMAIN p = TaskFields /\ p = [f \in TaskFields |-> p[f]]
    BY <1>2
  <2> QED
    BY <1>4, <2>1, <2>2, <2>3, <2>4, Zenon DEF Carries
<1>6. TaskTrue(log, Markable, p) /\ WriteTrue(log, Markable, p)
  BY <1>2, <1>5 DEF TaskTrue, WriteTrue, Steps
<1>7. Submission(log, p)
  <2>1. kind = "open" => p.marks # {} /\ \A i \in p.marks : log[i].event.owner \in Funders
    <3>1. p.marks = {n.id : n \in uses}
      BY <1>2 DEF Ids
    <3>2. kind = "open" => \A n \in uses : log[n.id].event.owner \in Funders
      BY <1>1
    <3> QED
      BY <3>1, <3>2
  <2>2. p.kind = kind /\ p.outs = outs /\ p.key = key
    BY <1>2
  <2> QED
    BY <2>1, <2>2 DEF Submission
<1>8. Fits(log, Markable, Kept, legacy, p)
  <2>1. Received(log, p.high, Kept \cup Ids(p.adds))
    BY <1>2, <1>3, NothingBefore
  <2>2. Adoption(legacy, Kept, p)
    BY <1>2 DEF Adoption
  <2> QED
    BY <1>6, <1>7, <2>1, <2>2 DEF Fits, IsTask
<1> QED
  <2>1. remembered' \in Key \cup {None}
    BY <1>1 DEF WalletInv, StoreInv
  <2> QED
    BY <1>1, <1>8, <2>1, TaskMoves DEF Task

LEMMA ReplaceKeeps ==
    ASSUME WalletInv, NEW new, TrueNotes(log, Markable, new), NEW next, next \in {"fetch", "delete"},
           next = "delete" => Ids(legacy) \subseteq Ids(new),
           ReadToReplace(new, next)
    PROVE  WalletInv'
<1> DEFINE p == [Idle EXCEPT !.at = "write", !.new = new, !.next = next]
<1>1. /\ task' = [task EXCEPT !["user"] = p]
      /\ UNCHANGED <<chainVars, served, notes, cursor, remembered, legacy, backup, ghostVars>>
      /\ CountInv'
  BY WalletConstants DEF ReadToReplace, storeVars, WalletInv, CountInv
<1>2. /\ DOMAIN p = TaskFields /\ p = [f \in TaskFields |-> p[f]]
      /\ p.at = "write" /\ p.marks = {} /\ p.adds = {} /\ p.new = new
      /\ p.next = next /\ p.seen = 0 /\ p.high = 0
  BY IdleFields DEF TaskFields
<1> HIDE DEF p
<1>3. LogOK(log)
  BY DEF WalletInv, ChainInv
<1>4. Carries(log, Markable, p)
  <2>1. 0 \in 0 .. Len(log) /\ 0 \in 0 .. LedgerOf(log)
    BY <1>3, LedgerIsLast
  <2>2. TrueNotes(log, Markable, p.adds)
    BY <1>2, NothingIsTrue
  <2>3. p.next \in {"idle", "fetch", "deposits", "cursor", "delete"}
    BY <1>2
  <2> QED
    BY <1>2, <2>1, <2>2, <2>3, Zenon DEF Carries
<1>5. IsTask(log, Markable, p)
  BY <1>2, <1>4 DEF IsTask, TaskTrue, WriteTrue, Submission, Steps
<1>6. Fits(log, Markable, Kept, legacy, p)
  <2>1. Received(log, p.high, Kept \cup Ids(p.adds))
    BY <1>2, <1>3, NothingBefore
  <2>2. Adoption(legacy, Kept, p)
    BY <1>2 DEF Adoption
  <2> QED
    BY <1>5, <2>1, <2>2 DEF Fits
<1> QED
  <2>1. remembered' \in Key \cup {None}
    BY <1>1 DEF WalletInv, StoreInv
  <2> QED
    BY <1>1, <1>6, <2>1, TaskMoves DEF Task

LEMMA SettingsKeep ==
    ASSUME WalletInv, Settings
    PROVE  WalletInv'
<1>0. TrueNotes(log, Markable, notes) /\ TrueNotes(log, Markable, backup) /\ TrueLegacy(log, legacy)
  BY DEF WalletInv, StoreInv
<1>1. CASE ClearV2Notes
  <2>1. TrueNotes(log, Markable, {n \in notes : LeafAt(n.id).protocol # "v2"})
    BY <1>0, FewerNotes
  <2> QED
    BY <1>1, <2>1, ReplaceKeeps DEF ClearV2Notes
<1>2. CASE ExportV2Backup
  <2>1. CountInv'
    BY <1>2, WalletConstants DEF ExportV2Backup, WalletInv, CountInv
  <2>2. ChainInv' /\ StoreInv' /\ KeptInv' /\ AllFit(log, Markable, Kept, legacy, task)'
    BY <1>0, <1>2 DEF ExportV2Backup, chainVars, ghostVars, WalletInv, ChainInv, StoreInv, KeptInv, Kept, Markable
  <2> QED
    BY <2>1, <2>2 DEF WalletInv
<1>3. CASE ImportV2Backup
  <2>1. TrueNotes(log, Markable, MergeNotes(backup, notes))
    BY <1>0, MergedNotes
  <2> QED
    BY <1>3, <2>1, ReplaceKeeps DEF ImportV2Backup
<1>4. CASE RecoverLegacyNotes
  <2>1. TrueNotes(log, Markable, TagLegacyNotes(legacy)) /\ Ids(legacy) \subseteq Ids(TagLegacyNotes(legacy))
    BY <1>0, TaggedNotes
  <2>2. /\ TrueNotes(log, Markable, MergeNotes(notes, TagLegacyNotes(legacy)))
        /\ Ids(legacy) \subseteq Ids(MergeNotes(notes, TagLegacyNotes(legacy)))
    BY <1>0, <2>1, MergedNotes
  <2> QED
    BY <1>4, <2>2, ReplaceKeeps DEF RecoverLegacyNotes
<1> QED
  BY <1>1, <1>2, <1>3, <1>4 DEF Settings

LEMMA IdleMoves ==
    ASSUME WalletInv, task' = [task EXCEPT !["user"] = Idle],
           UNCHANGED <<chainVars, served, storeVars, ghostVars>>, CountInv'
    PROVE  WalletInv'
<1>1. LogOK(log) /\ remembered' \in Key \cup {None}
  BY DEF WalletInv, ChainInv, StoreInv, storeVars
<1>2. Fits(log, Markable, Kept, legacy, Idle)
  BY <1>1, IdleFits
<1> QED
  BY <1>1, <1>2, TaskMoves DEF Task, storeVars

LEMMA RefusedKeeps ==
    ASSUME WalletInv, Refused
    PROVE  WalletInv'
<1>1. CountInv'
  BY CountFaults DEF Refused, WalletInv, CountInv
<1> QED
  BY <1>1, IdleMoves DEF Refused

\* Marking, adding, and writing the store back.
LEMMA LeastNote ==
    ASSUME NEW lg, NEW ok, LogOK(lg), NEW S, TrueNotes(lg, ok, S), S # {}
    PROVE  LET m == Min(Ids(S))
               note == CHOOSE n \in S : \A o \in S : n.id <= o.id
           IN  note \in S /\ note.id = m /\ m \in Ids(S)
<1> DEFINE m == Min(Ids(S))
<1>0. Ids(S) \subseteq LeavesOf(lg) /\ LeavesOf(lg) \in SUBSET Nat
  BY IdsAreLeaves, LeavesAreNumbers
<1>1. Ids(S) \in SUBSET Nat /\ Ids(S) # {}
  BY <1>0 DEF Ids
<1>2. m \in Ids(S) /\ \A i \in Ids(S) : m <= i
  BY <1>1, MinIsLeast
<1> HIDE DEF m
<1>3. PICK n \in S : n.id = m
  BY <1>2 DEF Ids
<1>4. \A o \in S : n.id <= o.id
  BY <1>2, <1>3 DEF Ids
<1> DEFINE note == CHOOSE o \in S : \A q \in S : o.id <= q.id
<1>5. note \in S /\ \A q \in S : note.id <= q.id
  BY <1>4
<1> HIDE DEF note
<1>6. note.id \in Ids(S)
  BY <1>5 DEF Ids
<1>7. note.id <= m /\ m <= note.id /\ note.id \in Nat /\ m \in Nat
  BY <1>1, <1>2, <1>3, <1>5, <1>6
<1> QED
  BY <1>2, <1>5, <1>7 DEF m, note

LEMMA LeastMark ==
    ASSUME NEW lg, LogOK(lg), NEW S, S \subseteq LeavesOf(lg), S # {}
    PROVE  Min(S) \in S
<1>1. S \in SUBSET Nat
  BY LeavesAreNumbers
<1> QED
  BY <1>1, MinIsLeast

\* What a task carries still goes once one of its notes is done with.
LEMMA FewerMarks ==
    ASSUME NEW lg, NEW ok, NEW r, Goes(lg, ok, r), NEW marks, marks \subseteq r.marks
    PROVE  LET q == [r EXCEPT !.marks = marks]
           IN  /\ Goes(lg, ok, q) /\ q.marks = marks /\ q.adds = r.adds
               /\ q.next = r.next /\ q.high = r.high /\ q.kind = r.kind
<1> DEFINE q == [r EXCEPT !.marks = marks]
<1>1. DOMAIN r = TaskFields
  BY DEF Goes, Carries
<1>2. /\ DOMAIN q = TaskFields /\ q = [g \in TaskFields |-> q[g]]
      /\ q.marks = marks /\ q.adds = r.adds /\ q.next = r.next /\ q.high = r.high
      /\ q.seen = r.seen /\ q.kind = r.kind
  BY <1>1 DEF TaskFields
<1> HIDE DEF q
<1>3. TrueNotes(lg, ok, q.adds)
  BY <1>2, FewerNotes DEF Goes, Carries
<1>4. Goes(lg, ok, q)
  BY <1>2, <1>3 DEF Goes, Carries
<1> QED
  BY <1>2, <1>4 DEF q

LEMMA FewerAdds ==
    ASSUME NEW lg, NEW ok, NEW r, Goes(lg, ok, r), NEW adds, adds \subseteq r.adds
    PROVE  LET q == [r EXCEPT !.adds = adds]
           IN  /\ Goes(lg, ok, q) /\ q.adds = adds /\ q.marks = r.marks
               /\ q.next = r.next /\ q.high = r.high /\ q.kind = r.kind
<1> DEFINE q == [r EXCEPT !.adds = adds]
<1>1. DOMAIN r = TaskFields
  BY DEF Goes, Carries
<1>2. /\ DOMAIN q = TaskFields /\ q = [g \in TaskFields |-> q[g]]
      /\ q.adds = adds /\ q.marks = r.marks /\ q.next = r.next /\ q.high = r.high
      /\ q.seen = r.seen /\ q.kind = r.kind
  BY <1>1 DEF TaskFields
<1> HIDE DEF q
<1>3. TrueNotes(lg, ok, q.adds)
  BY <1>2, FewerNotes DEF Goes, Carries
<1>4. Goes(lg, ok, q)
  BY <1>2, <1>3 DEF Goes, Carries
<1> QED
  BY <1>2, <1>4 DEF q

LEMMA ReadToMarkKeeps ==
    ASSUME WalletInv, NEW t \in Task, ReadToMark(t)
    PROVE  WalletInv'
<1> DEFINE r == task[t]
           id == Min(r.marks)
           rest == [r EXCEPT !.marks = @ \ {id}]
           new == {IF n.id = id THEN [n EXCEPT !.spent = TRUE] ELSE n : n \in notes}
           p == [r EXCEPT !.at = "write", !.new = new]
<1>1. /\ LogOK(log) /\ TaskTrue(log, Markable, r) /\ Carries(log, Markable, r) /\ Adoption(legacy, Kept, r)
      /\ Received(log, r.high, Kept \cup Ids(r.adds))
  BY TheTask
<1>2. /\ r.at = "edit" /\ r.marks # {}
      /\ UNCHANGED <<chainVars, served, notes, cursor, legacy, backup, ghostVars, ops, faults>>
  BY DEF ReadToMark
<1>3. remembered' \in Key \cup {None} /\ CountInv'
  BY <1>2 DEF ReadToMark, Remember, WalletInv, ChainInv, StoreInv, CountInv
<1>4. id \in r.marks /\ id \in Markable /\ r.marks \subseteq Markable /\ Goes(log, Markable, r)
  BY <1>1, <1>2, LeastMark DEF TaskTrue, Carries, Goes
<1>5. r.next # "delete"
  BY <1>1, <1>2 DEF Adoption
<1>6. CASE id \in Ids(notes)
  <2>1. task' = [task EXCEPT ![t] = p]
    BY <1>6 DEF ReadToMark
  <2>2. TrueNotes(log, Markable, new)
    BY <1>4, MarkedNotes DEF WalletInv, StoreInv
  <2> HIDE DEF new
  <2>3. /\ DOMAIN p = TaskFields /\ p = [f \in TaskFields |-> p[f]]
        /\ p.at = "write" /\ p.new = new /\ p.marks = r.marks /\ p.adds = r.adds
        /\ p.next = r.next /\ p.high = r.high /\ p.seen = r.seen
    BY <1>1 DEF Carries, TaskFields
  <2> HIDE DEF p
  <2>4. Carries(log, Markable, p)
    BY <1>1, <2>3 DEF Carries
  <2>5. IsTask(log, Markable, p)
    BY <1>2, <1>4, <2>2, <2>3, <2>4 DEF IsTask, TaskTrue, WriteTrue, Submission, Steps
  <2>6. Fits(log, Markable, Kept, legacy, p)
    BY <1>1, <1>5, <2>3, <2>5 DEF Fits, Adoption
  <2> QED
    BY <1>2, <1>3, <2>1, <2>6, TaskMoves
<1>7. CASE id \notin Ids(notes)
  <2>1. task' = [task EXCEPT ![t] = Proceed(rest)]
    BY <1>7 DEF ReadToMark
  <2>2. /\ Goes(log, Markable, rest) /\ rest.adds = r.adds /\ rest.next = r.next /\ rest.high = r.high
    BY <1>4, FewerMarks
  <2> HIDE DEF rest
  <2>3. Fits(log, Markable, Kept, legacy, Proceed(rest))
    BY <1>1, <1>5, <2>2, ProceedFits
  <2> QED
    BY <1>2, <1>3, <2>1, <2>3, TaskMoves
<1> QED
  BY <1>6, <1>7

LEMMA ReadToAddKeeps ==
    ASSUME WalletInv, NEW t \in Task, ReadToAdd(t)
    PROVE  WalletInv'
<1> DEFINE r == task[t]
           note == CHOOSE n \in r.adds : \A m \in r.adds : n.id <= m.id
           rest == [r EXCEPT !.adds = @ \ {note}]
           p == [r EXCEPT !.at = "write", !.new = notes \cup {note}]
<1>1. /\ LogOK(log) /\ TaskTrue(log, Markable, r) /\ Carries(log, Markable, r) /\ Adoption(legacy, Kept, r)
      /\ Received(log, r.high, Kept \cup Ids(r.adds))
  BY TheTask
<1>2. /\ r.at = "edit" /\ r.marks = {} /\ r.adds # {}
      /\ UNCHANGED <<chainVars, served, storeVars, ghostVars, ops, faults>>
  BY <1>1 DEF ReadToAdd, TaskTrue
<1>3. remembered' \in Key \cup {None} /\ CountInv'
  BY <1>2 DEF storeVars, WalletInv, StoreInv, CountInv
<1>4. note \in r.adds /\ note.id = Min(Ids(r.adds)) /\ TrueNotes(log, Markable, r.adds)
  <2>1. TrueNotes(log, Markable, r.adds)
    BY <1>1 DEF Carries
  <2> QED
    BY <1>1, <1>2, <2>1, LeastNote
<1>5. r.next # "delete" /\ Goes(log, Markable, r)
  BY <1>1, <1>2 DEF Adoption, Goes
<1>6. CASE note.id \in Ids(notes)
  <2>1. task' = [task EXCEPT ![t] = Proceed(rest)]
    BY <1>6 DEF ReadToAdd
  <2> HIDE DEF note
  <2>2. /\ Goes(log, Markable, rest) /\ rest.adds = r.adds \ {note} /\ rest.next = r.next /\ rest.high = r.high
    <3>1. r.adds \ {note} \subseteq r.adds
      OBVIOUS
    <3> QED
      BY <1>5, <3>1, FewerAdds
  <2> HIDE DEF rest
  <2>3. Kept \cup Ids(r.adds) \subseteq Kept \cup Ids(rest.adds)
    BY <1>6, <2>2 DEF Ids, Kept
  <2>4. Received(log, rest.high, Kept \cup Ids(rest.adds))
    BY <1>1, <2>2, <2>3, ReceivedMore
  <2>5. Fits(log, Markable, Kept, legacy, Proceed(rest))
    BY <1>1, <1>5, <2>2, <2>4, ProceedFits
  <2> QED
    BY <1>2, <1>3, <2>1, <2>5, TaskMoves DEF storeVars
<1>7. CASE note.id \notin Ids(notes)
  <2>1. task' = [task EXCEPT ![t] = p]
    BY <1>7 DEF ReadToAdd
  <2> HIDE DEF note
  <2>2. TrueNotes(log, Markable, notes \cup {note}) /\ note.id \in Ids(notes \cup {note})
    <3>1. TrueNotes(log, Markable, notes)
      BY DEF WalletInv, StoreInv
    <3>2. \A m \in notes : m.id # note.id
      BY <1>7 DEF Ids
    <3> QED
      BY <1>4, <3>1, <3>2 DEF TrueNotes, Ids
  <2>3. /\ DOMAIN p = TaskFields /\ p = [f \in TaskFields |-> p[f]]
        /\ p.at = "write" /\ p.new = notes \cup {note} /\ p.marks = r.marks /\ p.adds = r.adds
        /\ p.next = r.next /\ p.high = r.high /\ p.seen = r.seen
    BY <1>1 DEF Carries, TaskFields
  <2> HIDE DEF p
  <2>4. Carries(log, Markable, p)
    BY <1>1, <2>3 DEF Carries
  <2>5. IsTask(log, Markable, p)
    BY <1>2, <1>4, <2>2, <2>3, <2>4 DEF IsTask, TaskTrue, WriteTrue, Submission, Steps
  <2>6. Fits(log, Markable, Kept, legacy, p)
    BY <1>1, <1>5, <2>3, <2>5 DEF Fits, Adoption
  <2> QED
    BY <1>2, <1>3, <2>1, <2>6, TaskMoves DEF storeVars
<1> QED
  BY <1>6, <1>7

\* A step of a task that changes the store: what it held is still kept.
LEMMA StoreMoves ==
    ASSUME WalletInv, NEW t \in Task, NEW p, Fits(log, Markable, Kept', legacy', p),
           task' = [task EXCEPT ![t] = p],
           UNCHANGED <<chainVars, served, backup, misled, unread>>,
           TrueNotes(log, Markable, notes'), overwritten' \subseteq LeavesOf(log), Kept \subseteq Kept',
           legacy' \in {legacy, {}}, Ids(legacy) \subseteq Ids(legacy') \cup Kept',
           cursor' \in 0 .. LedgerOf(log), Received(log, cursor', Kept'),
           remembered' \in Key \cup {None}, CountInv'
    PROVE  WalletInv'
<1>0. log' = log /\ Markable' = Markable
  BY DEF Markable, chainVars
<1>1. ChainInv'
  BY DEF WalletInv, ChainInv, chainVars
<1>2. StoreInv'
  <2>1. TrueLegacy(log, legacy')
    BY DEF WalletInv, StoreInv, TrueLegacy
  <2> QED
    BY <1>0, <2>1 DEF WalletInv, StoreInv
<1>3. KeptInv'
  <2>1. OldNotes(log) \subseteq Ids(legacy') \cup Kept'
    BY DEF WalletInv, KeptInv
  <2> QED
    BY <2>1 DEF KeptInv, chainVars
<1>4. AllFit(log, Markable, Kept', legacy', [task EXCEPT ![t] = p])
  <2>1. AllFit(log, Markable, Kept, legacy, task)
    BY DEF WalletInv
  <2>2. legacy' = legacy \/ legacy' = {}
    OBVIOUS
  <2>3. Kept \subseteq Kept' /\ legacy' \in {legacy, {}}
    BY <2>2
  <2>4. \A u \in Task : Fits(log, Markable, Kept, legacy, task[u])
    BY <2>1 DEF AllFit
  <2>5. ASSUME NEW u \in Task PROVE Fits(log, Markable, Kept', legacy', task[u])
    BY <2>3, <2>4, FitsMore
  <2>6. AllFit(log, Markable, Kept', legacy', task)
    BY <2>1, <2>5 DEF AllFit
  <2> QED
    BY <2>6, OneTask
<1>5. AllFit(log, Markable, Kept, legacy, task)'
  BY <1>0, <1>4
<1> QED
  BY <1>1, <1>2, <1>3, <1>5 DEF WalletInv

LEMMA WriteKeeps ==
    ASSUME WalletInv, NEW t \in Task, Write(t)
    PROVE  WalletInv'
<1> DEFINE r == task[t]
           rest == IF r.marks # {} THEN [r EXCEPT !.marks = @ \ {Min(@)}]
                                   ELSE [r EXCEPT !.adds = {n \in @ : n.id # Min(Ids(@))}]
<1>1. /\ LogOK(log) /\ TaskTrue(log, Markable, r) /\ WriteTrue(log, Markable, r)
      /\ Carries(log, Markable, r) /\ Adoption(legacy, Kept, r)
      /\ Received(log, r.high, Kept \cup Ids(r.adds))
  BY TheTask
<1>2. /\ r.at = "write" /\ notes' = r.new
      /\ overwritten' = overwritten \cup (Ids(notes) \ Ids(r.new))
      /\ task' = [task EXCEPT ![t] = Proceed(rest)]
      /\ UNCHANGED <<chainVars, served, cursor, legacy, backup, misled, unread, ops, faults>>
  BY DEF Write
<1>3. remembered' \in Key \cup {None} /\ CountInv'
  BY <1>2 DEF Write, Remember, WalletInv, ChainInv, StoreInv, CountInv
<1>4. TrueNotes(log, Markable, r.new) /\ Goes(log, Markable, r)
  BY <1>1, <1>2 DEF WriteTrue, TaskTrue, Goes
<1>5. Kept \subseteq Kept' /\ Ids(r.new) \subseteq Kept'
  BY <1>2 DEF Kept
<1>6. overwritten' \subseteq LeavesOf(log)
  <2>1. Ids(notes) \subseteq LeavesOf(log)
    BY IdsAreLeaves DEF WalletInv, StoreInv
  <2> QED
    BY <1>2, <2>1 DEF WalletInv, StoreInv
<1>7. /\ Goes(log, Markable, rest) /\ rest.next = r.next /\ rest.high = r.high
      /\ Ids(r.adds) \subseteq Kept' \cup Ids(rest.adds)
      /\ r.marks = {} /\ r.adds = {} => rest.marks = {} /\ rest.adds = {}
  <2>1. CASE r.marks # {}
    <3>1. rest = [r EXCEPT !.marks = r.marks \ {Min(r.marks)}]
      BY <2>1
    <3> HIDE DEF rest
    <3>2. Goes(log, Markable, rest) /\ rest.next = r.next /\ rest.high = r.high /\ rest.adds = r.adds
      BY <1>4, <3>1, FewerMarks
    <3> QED
      BY <2>1, <3>2
  <2>2. CASE r.marks = {} /\ r.adds # {}
    <3> DEFINE m == Min(Ids(r.adds))
    <3>1. rest = [r EXCEPT !.adds = {n \in r.adds : n.id # m}]
      BY <2>2
    <3>2. m \in Ids(r.new)
      BY <1>1, <1>2, <2>2 DEF WriteTrue
    <3> HIDE DEF rest, m
    <3>3. {n \in r.adds : n.id # m} \subseteq r.adds
      OBVIOUS
    <3>4. /\ Goes(log, Markable, rest) /\ rest.next = r.next /\ rest.high = r.high
          /\ rest.adds = {n \in r.adds : n.id # m}
      BY <1>4, <3>1, <3>3, FewerAdds
    <3>5. Ids(r.adds) \subseteq {m} \cup Ids(rest.adds)
      BY <3>4 DEF Ids
    <3> QED
      BY <1>5, <2>2, <3>2, <3>4, <3>5
  <2>3. CASE r.marks = {} /\ r.adds = {}
    <3>1. rest = [r EXCEPT !.adds = {n \in r.adds : n.id # Min(Ids(r.adds))}]
      BY <2>3
    <3>2. {n \in r.adds : n.id # Min(Ids(r.adds))} = {}
      BY <2>3
    <3> HIDE DEF rest
    <3>3. rest = [r EXCEPT !.adds = {}]
      BY <3>1, <3>2
    <3>4. Goes(log, Markable, rest) /\ rest.next = r.next /\ rest.high = r.high /\ rest.adds = {} /\ rest.marks = r.marks
      BY <1>4, <3>3, FewerAdds
    <3> QED
      BY <2>3, <3>4, NothingIsTrue
  <2> QED
    BY <2>1, <2>2, <2>3
<1> HIDE DEF rest
<1>8. Received(log, rest.high, Kept' \cup Ids(rest.adds))
  <2>1. Kept \cup Ids(r.adds) \subseteq Kept' \cup Ids(rest.adds)
    BY <1>5, <1>7
  <2> QED
    BY <1>1, <1>7, <2>1, ReceivedMore
<1>9. rest.next = "delete" => rest.marks = {} /\ rest.adds = {} /\ Ids(legacy) \subseteq Kept'
  BY <1>1, <1>2, <1>5, <1>7 DEF Adoption
<1>10. Fits(log, Markable, Kept', legacy, Proceed(rest))
  BY <1>1, <1>7, <1>8, <1>9, ProceedFits
<1>11. /\ TrueNotes(log, Markable, notes') /\ legacy' = legacy
       /\ cursor' \in 0 .. LedgerOf(log)
       /\ Received(log, cursor', Kept')
  <2>1. cursor \in 0 .. LedgerOf(log) /\ Received(log, cursor, Kept)
    BY DEF WalletInv, StoreInv, KeptInv
  <2> QED
    BY <1>2, <1>4, <1>5, <2>1, ReceivedMore
<1> HIDE DEF r
<1>12. Fits(log, Markable, Kept', legacy', Proceed(rest)) /\ Ids(legacy) \subseteq Ids(legacy') \cup Kept'
  BY <1>10, <1>11
<1>13. legacy' \in {legacy, {}} /\ UNCHANGED <<chainVars, served, backup, misled, unread>> /\ Kept \subseteq Kept'
  BY <1>2, <1>5
<1>14. task' = [task EXCEPT ![t] = Proceed(rest)]
  BY <1>2
<1> QED
  BY <1>3, <1>6, <1>11, <1>12, <1>13, <1>14, StoreMoves

\* Reconcile marks what was served as spent.
LEMMA ReconcileFits ==
    ASSUME WalletInv, NEW r, r.seen \in 0 .. Len(log), NEW ids
    PROVE  Fits(log, Markable, ids, legacy, Reconcile(r))
<1> DEFINE marks == {n.id : n \in {m \in notes : ~m.spent /\ m.id \in ListedSpent(r.seen)}}
           q == [Idle EXCEPT !.next = "idle", !.marks = marks]
<1>1. LogOK(log) /\ TrueNotes(log, Markable, notes) /\ ChainInv
  BY DEF WalletInv, ChainInv, StoreInv
<1>2. ListedSpent(r.seen) \subseteq Markable
  BY <1>1, Views
<1>3. \A n \in notes : n.id \in LeavesOf(log)
  BY <1>1, IdsAreLeaves DEF Ids
<1>4. marks \subseteq LeavesOf(log) /\ marks \subseteq Markable
  BY <1>2, <1>3
<1> HIDE DEF marks
<1>5. /\ DOMAIN q = TaskFields /\ q = [f \in TaskFields |-> q[f]]
      /\ q.marks = marks /\ q.adds = {} /\ q.next = "idle" /\ q.seen = 0 /\ q.high = 0
  BY IdleFields DEF TaskFields
<1>6. Reconcile(r) = Proceed(q)
  BY DEF Reconcile, marks
<1> HIDE DEF q
<1>7. Carries(log, Markable, q)
  <2>1. 0 \in 0 .. Len(log) /\ 0 \in 0 .. LedgerOf(log)
    BY <1>1, LedgerIsLast
  <2>2. TrueNotes(log, Markable, q.adds) /\ q.marks \subseteq LeavesOf(log)
    BY <1>4, <1>5, NothingIsTrue
  <2> QED
    BY <1>5, <2>1, <2>2, Zenon DEF Carries
<1>8. Received(log, q.high, ids \cup Ids(q.adds)) /\ Goes(log, Markable, q)
  BY <1>1, <1>4, <1>5, <1>7, NothingBefore DEF Goes
<1>9. q.next # "delete"
  BY <1>5
<1>10. Fits(log, Markable, ids, legacy, Proceed(q))
  BY <1>1, <1>8, <1>9, ProceedFits
<1> QED
  BY <1>6, <1>10

LEMMA FinishScanKeeps ==
    ASSUME WalletInv, NEW t \in Task, FinishScan(t)
    PROVE  WalletInv'
<1> DEFINE r == task[t]
<1>1. /\ LogOK(log) /\ TaskTrue(log, Markable, r) /\ Carries(log, Markable, r)
      /\ Received(log, r.high, Kept \cup Ids(r.adds))
  BY TheTask
<1>2. /\ r.at = "cursor" /\ cursor' = r.high
      /\ task' = [task EXCEPT ![t] = Reconcile(r)]
      /\ UNCHANGED <<chainVars, served, notes, remembered, legacy, backup, overwritten, misled, unread, ops, faults>>
  BY DEF FinishScan, WalletInv, AllFit, ghostVars
<1>3. Kept' = Kept
  BY <1>2 DEF Kept
<1>4. r.adds = {} /\ r.seen \in 0 .. Len(log) /\ r.high \in 0 .. LedgerOf(log)
  BY <1>1, <1>2 DEF TaskTrue, Carries
<1>5. Received(log, cursor', Kept')
  BY <1>1, <1>2, <1>3, <1>4, NothingIsTrue
<1>6. Fits(log, Markable, Kept', legacy', Reconcile(r))
  BY <1>2, <1>4, ReconcileFits
<1>7. TrueNotes(log, Markable, notes') /\ overwritten' \subseteq LeavesOf(log) /\ remembered' \in Key \cup {None} /\ CountInv'
  BY <1>2 DEF WalletInv, StoreInv, CountInv
<1> QED
  BY <1>2, <1>3, <1>4, <1>5, <1>6, <1>7, StoreMoves

LEMMA ScanFailsKeeps ==
    ASSUME WalletInv, NEW t \in Task, ScanFails(t)
    PROVE  WalletInv'
<1> DEFINE r == [Idle EXCEPT !.seen = served]
<1>1. task' = [task EXCEPT ![t] = Reconcile(r)] /\ UNCHANGED <<chainVars, served, storeVars, ghostVars, ops>>
  BY DEF ScanFails
<1>2. r.seen = served /\ served \in 0 .. Len(log)
  BY IdleFields DEF TaskFields, WalletInv, ChainInv
<1>3. CountInv' /\ remembered' \in Key \cup {None}
  BY <1>1, CountFaults DEF ScanFails, WalletInv, StoreInv, storeVars
<1> HIDE DEF r
<1>4. Fits(log, Markable, Kept, legacy, Reconcile(r))
  BY <1>2, ReconcileFits
<1> QED
  BY <1>1, <1>3, <1>4, TaskMoves DEF storeVars

\* The scan goes past what it has read and no further.
LEMMA ScanReceives ==
    ASSUME WalletInv, NEW rows, rows = Rows, NEW high,
           high = Max({cursor} \cup {log[i].ledger : i \in rows})
    PROVE  /\ rows \subseteq LeavesOf(log) /\ high \in 0 .. LedgerOf(log)
           /\ Received(log, high, Kept \cup {i \in rows : log[i].event.owner = "me"})
<1> DEFINE H == {cursor} \cup {log[i].ledger : i \in rows}
<1>1. /\ LogOK(log) /\ cursor \in 0 .. LedgerOf(log) /\ LedgerOf(log) \in Nat /\ Len(log) \in Nat
      /\ served \in Nat /\ served <= Len(log) /\ Leaves(served) = {i \in LeavesOf(log) : i <= served}
      /\ LeavesOf(log) \subseteq 1 .. Len(log)
  <2>1. ChainInv /\ served \in 0 .. Len(log) /\ cursor \in 0 .. LedgerOf(log)
    BY DEF WalletInv, ChainInv, StoreInv
  <2> QED
    BY <2>1, Views DEF ChainInv
<1>2. /\ rows = {i \in Leaves(served) : log[i].event.from = "transfer" /\ log[i].ledger >= cursor}
      /\ rows \subseteq LeavesOf(log) /\ \A i \in rows : i <= served
  BY <1>1 DEF Rows, GetTransfers, LeafAt
<1>3. ASSUME NEW i \in LeavesOf(log) PROVE log[i].ledger \in 0 .. LedgerOf(log)
  <2>1. i \in 1 .. Len(log)
    BY <1>1
  <2>2. log[i].ledger \in Nat /\ log[i].ledger <= LedgerOf(log)
    BY <1>1, <2>1, LedgerIsLast
  <2> QED
    BY <1>1, <2>2
<1>4. H \in SUBSET (0 .. LedgerOf(log)) /\ H # {}
  BY <1>1, <1>2, <1>3
<1>5. high \in H /\ \A n \in H : n <= high
  BY <1>1, <1>4, MaxIsGreatest
<1>6. high \in 0 .. LedgerOf(log)
  BY <1>4, <1>5
<1>7. high = cursor \/ \E j \in rows : high = log[j].ledger
  BY <1>5
<1> HIDE DEF H
<1>8. ASSUME NEW i \in LeavesOf(log), log[i].event.from = "transfer", log[i].event.owner = "me",
             log[i].ledger < high
      PROVE  i \in Kept \/ i \in rows
  <2>1. CASE log[i].ledger < cursor
    BY <1>8, <2>1 DEF WalletInv, KeptInv, Received
  <2>2. CASE ~(log[i].ledger < cursor)
    <3>1. log[i].ledger >= cursor
      BY <1>1, <1>3, <2>2
    <3>2. PICK j \in rows : high = log[j].ledger
      BY <1>7, <1>8, <2>2
    <3>3. i \in 1 .. Len(log) /\ j \in 1 .. Len(log) /\ j <= served
      BY <1>1, <1>2
    <3>4. ~(j < i)
      <4>1. j < i => log[j].ledger <= log[i].ledger
        BY <1>1, <3>3 DEF LogOK
      <4> QED
        BY <1>2, <1>3, <1>8, <3>2, <4>1
    <3>5. i <= served
      BY <1>1, <3>3, <3>4
    <3> QED
      BY <1>1, <1>2, <1>8, <3>1, <3>5
  <2> QED
    BY <2>1, <2>2
<1>9. Received(log, high, Kept \cup {i \in rows : log[i].event.owner = "me"})
  BY <1>8 DEF Received
<1> QED
  BY <1>2, <1>6, <1>9

LEMMA ScanIncomingKeeps ==
    ASSUME WalletInv, NEW t \in Task, ScanIncoming(t)
    PROVE  WalletInv'
<1>1. PICK upTo \in {0, served} : /\ FetchSpentNullifiers(upTo)
                                  /\ task' = [task EXCEPT ![t] = ScanTransferFeed(upTo)]
  BY DEF ScanIncoming
<1> DEFINE found == Mine \ PassedOver
           adds == {Note(i, "me") : i \in found}
           high == Max({cursor} \cup {log[i].ledger : i \in Rows})
           q == [Idle EXCEPT !.seen = upTo, !.next = "deposits", !.adds = adds, !.high = high]
<1>2. /\ UNCHANGED <<chainVars, served, storeVars, overwritten, misled, ops>> /\ CountInv'
      /\ unread' = unread \cup PassedOver
  BY <1>1, CountFaults DEF ScanIncoming, FetchSpentNullifiers, WalletInv, CountInv
<1>3. LogOK(log) /\ Len(log) \in Nat /\ upTo \in 0 .. Len(log)
  BY <1>1, LedgerIsLast DEF WalletInv, ChainInv
<1>4. /\ Rows \subseteq LeavesOf(log) /\ high \in 0 .. LedgerOf(log)
      /\ Received(log, high, Kept \cup {i \in Rows : log[i].event.owner = "me"})
  BY ScanReceives
<1>5. /\ Mine = {i \in Rows : log[i].event.owner = "me"} /\ Mine \subseteq MyLeaves(log)
      /\ PassedOver \subseteq Mine
  BY <1>4 DEF Mine, MyLeaves, PassedOver, LeafAt
<1>6. ScanTransferFeed(upTo) = Proceed(q)
  BY DEF ScanTransferFeed
<1>7. /\ found \subseteq LeavesOf(log) /\ \A i \in found : log[i].event.owner = "me"
      /\ Mine = found \cup PassedOver
  BY <1>5 DEF MyLeaves
<1> HIDE DEF found, high
<1>8. TrueNotes(log, Markable, adds) /\ Ids(adds) = found
  BY <1>7, FoundNotes
<1> HIDE DEF adds
<1>9. /\ DOMAIN q = TaskFields /\ q = [f \in TaskFields |-> q[f]]
      /\ q.marks = {} /\ q.adds = adds /\ q.next = "deposits" /\ q.seen = upTo /\ q.high = high
  BY IdleFields DEF TaskFields
<1> HIDE DEF q
<1>10. Goes(log, Markable, q)
  <2>1. q.next \in {"idle", "fetch", "deposits", "cursor", "delete"}
    BY <1>9
  <2>2. q.marks \subseteq LeavesOf(log) /\ q.marks \subseteq Markable /\ q.high \in 0 .. LedgerOf(log)
    BY <1>4, <1>9
  <2>3. TrueNotes(log, Markable, q.adds) /\ q.seen \in 0 .. Len(log)
    BY <1>3, <1>8, <1>9
  <2> QED
    BY <1>9, <2>1, <2>2, <2>3, Zenon DEF Goes, Carries
<1>11. Kept' = Kept \cup PassedOver /\ Markable' = Markable
  BY <1>2 DEF Kept, Markable, chainVars, storeVars
<1>12. Received(log, q.high, Kept' \cup Ids(q.adds))
  <2>1. Kept \cup {i \in Rows : log[i].event.owner = "me"} = Kept' \cup Ids(q.adds)
    BY <1>5, <1>7, <1>8, <1>9, <1>11
  <2> QED
    BY <1>4, <1>9, <2>1
<1>13. Fits(log, Markable', Kept', legacy, Proceed(q))
  <2>1. q.next # "delete"
    BY <1>9
  <2> QED
    BY <1>3, <1>10, <1>11, <1>12, <2>1, ProceedFits
<1>14. /\ task' = [task EXCEPT ![t] = Proceed(q)]
       /\ remembered' \in Key \cup {None}
       /\ UNCHANGED <<chainVars, served, notes, cursor, legacy, backup, overwritten>>
  BY <1>1, <1>2, <1>6 DEF WalletInv, StoreInv, storeVars
<1>15. /\ misled \subseteq misled' /\ misled' \subseteq LeavesOf(log)
       /\ unread \subseteq unread' /\ unread' \subseteq MyLeaves(log)
  BY <1>2, <1>5 DEF WalletInv, StoreInv
<1> QED
  BY <1>2, <1>13, <1>14, <1>15, GhostsGrow

LEMMA RecoverDepositsKeeps ==
    ASSUME WalletInv, NEW t \in Task, RecoverDeposits(t)
    PROVE  WalletInv'
<1> DEFINE r == task[t]
           mine == MyDeposits \ Ids(notes)
           adds == {Note(i, "me") : i \in mine}
           q == [r EXCEPT !.next = "cursor", !.adds = adds]
<1>1. /\ LogOK(log) /\ TaskTrue(log, Markable, r) /\ Carries(log, Markable, r)
      /\ Received(log, r.high, Kept \cup Ids(r.adds))
  BY TheTask
<1>2. /\ r.at = "deposits" /\ task' = [task EXCEPT ![t] = Proceed(q)]
      /\ UNCHANGED <<chainVars, served, storeVars, ghostVars, ops, faults>>
  BY DEF RecoverDeposits, WalletInv, AllFit
<1>3. mine \subseteq LeavesOf(log) /\ \A i \in mine : log[i].event.owner = "me"
  <2>1. Leaves(served) \subseteq LeavesOf(log)
    BY Views DEF WalletInv, ChainInv
  <2> QED
    BY <2>1 DEF MyDeposits, GetDeposits, LeafAt
<1> HIDE DEF mine
<1>4. TrueNotes(log, Markable, adds)
  BY <1>3, FoundNotes
<1> HIDE DEF adds
<1>5. r.marks = {} /\ r.adds = {}
  BY <1>1, <1>2 DEF TaskTrue
<1>6. /\ DOMAIN q = TaskFields /\ q = [f \in TaskFields |-> q[f]]
      /\ q.marks = r.marks /\ q.adds = adds /\ q.next = "cursor" /\ q.seen = r.seen /\ q.high = r.high
  BY <1>1 DEF Carries, TaskFields
<1> HIDE DEF q
<1>7. Goes(log, Markable, q)
  BY <1>1, <1>4, <1>5, <1>6 DEF Goes, Carries
<1>8. Received(log, q.high, Kept \cup Ids(q.adds))
  BY <1>1, <1>5, <1>6, NothingIsTrue, ReceivedMore
<1>9. Fits(log, Markable, Kept, legacy, Proceed(q))
  <2>1. q.next # "delete"
    BY <1>6
  <2> QED
    BY <1>1, <1>7, <1>8, <2>1, ProceedFits
<1>10. CountInv' /\ remembered' \in Key \cup {None}
  BY <1>2 DEF WalletInv, StoreInv, CountInv, storeVars
<1> QED
  BY <1>2, <1>9, <1>10, TaskMoves DEF storeVars

LEMMA DepositsUnavailableKeeps ==
    ASSUME WalletInv, NEW t \in Task, DepositsUnavailable(t)
    PROVE  WalletInv'
<1> DEFINE r == task[t]
           q == [r EXCEPT !.next = "cursor"]
<1>1. /\ LogOK(log) /\ TaskTrue(log, Markable, r) /\ Carries(log, Markable, r)
      /\ Received(log, r.high, Kept \cup Ids(r.adds))
  BY TheTask
<1>2. /\ r.at = "deposits" /\ task' = [task EXCEPT ![t] = Proceed(q)]
      /\ UNCHANGED <<chainVars, served, storeVars, ghostVars, ops>>
  BY DEF DepositsUnavailable, WalletInv, AllFit
<1>3. r.marks = {} /\ r.adds = {}
  BY <1>1, <1>2 DEF TaskTrue
<1>4. /\ DOMAIN q = TaskFields /\ q = [f \in TaskFields |-> q[f]]
      /\ q.marks = r.marks /\ q.adds = r.adds /\ q.next = "cursor" /\ q.seen = r.seen /\ q.high = r.high
  BY <1>1 DEF Carries, TaskFields
<1> HIDE DEF q
<1>5. Goes(log, Markable, q)
  BY <1>1, <1>3, <1>4 DEF Goes, Carries
<1>6. Fits(log, Markable, Kept, legacy, Proceed(q))
  <2>1. q.next # "delete"
    BY <1>4
  <2>2. Received(log, q.high, Kept \cup Ids(q.adds))
    BY <1>1, <1>4
  <2> QED
    BY <1>1, <1>5, <2>1, <2>2, ProceedFits
<1>7. CountInv' /\ remembered' \in Key \cup {None}
  BY <1>2, CountFaults DEF DepositsUnavailable, WalletInv, StoreInv, storeVars
<1> QED
  BY <1>2, <1>6, <1>7, TaskMoves DEF storeVars

LEMMA DeleteLegacyStoreKeeps ==
    ASSUME WalletInv, DeleteLegacyStore
    PROVE  WalletInv'
<1> DEFINE p == [Idle EXCEPT !.at = "fetch"]
<1>1. /\ task["user"].at = "delete" /\ legacy' = {} /\ task' = [task EXCEPT !["user"] = p]
      /\ UNCHANGED <<chainVars, served, notes, cursor, remembered, backup, overwritten, misled, unread, ops, faults>>
  BY DEF DeleteLegacyStore, ghostVars
<1>2. LogOK(log) /\ Adoption(legacy, Kept, task["user"])
  BY TheTask DEF Task
<1>3. Ids(legacy) \subseteq Kept
  BY <1>1, <1>2 DEF Adoption
<1>4. /\ DOMAIN p = TaskFields /\ p = [f \in TaskFields |-> p[f]]
      /\ p.at = "fetch" /\ p.marks = {} /\ p.adds = {} /\ p.next = "idle" /\ p.seen = 0 /\ p.high = 0
  BY IdleFields DEF TaskFields
<1> HIDE DEF p
<1>5. IsTask(log, Markable, p)
  <2>1. 0 \in 0 .. Len(log) /\ 0 \in 0 .. LedgerOf(log)
    BY <1>2, LedgerIsLast
  <2>2. TrueNotes(log, Markable, p.adds) /\ p.marks \subseteq LeavesOf(log)
    BY <1>4, NothingIsTrue
  <2>3. Carries(log, Markable, p)
    BY <1>4, <2>1, <2>2, Zenon DEF Carries
  <2> QED
    BY <1>4, <2>3 DEF IsTask, TaskTrue, WriteTrue, Submission, Steps
<1>6. Kept' = Kept
  BY <1>1 DEF Kept
<1>7. Fits(log, Markable, Kept', legacy', p)
  <2>1. Received(log, p.high, Kept' \cup Ids(p.adds)) /\ Adoption(legacy', Kept', p)
    BY <1>2, <1>4, NothingBefore DEF Adoption
  <2> QED
    BY <1>5, <2>1 DEF Fits
<1>8. /\ TrueNotes(log, Markable, notes') /\ overwritten' \subseteq LeavesOf(log) /\ cursor' \in 0 .. LedgerOf(log)
      /\ Received(log, cursor', Kept')
      /\ remembered' \in Key \cup {None} /\ CountInv'
  BY <1>1, <1>6 DEF WalletInv, StoreInv, KeptInv, CountInv
<1>9. legacy' \in {legacy, {}} /\ Ids(legacy) \subseteq Ids(legacy') \cup Kept' /\ Kept \subseteq Kept'
  BY <1>1, <1>3, <1>6
<1> QED
  BY <1>1, <1>7, <1>8, <1>9, StoreMoves DEF Task

LEMMA ReloadKeeps ==
    ASSUME WalletInv, Reload
    PROVE  WalletInv'
<1>1. CountInv' /\ ChainInv' /\ StoreInv' /\ KeptInv' /\ Kept' = Kept /\ Markable' = Markable
  BY CountFaults DEF Reload, WalletInv, ChainInv, StoreInv, KeptInv, Kept, Markable, chainVars, storeVars, ghostVars
<1>2. task' = [t \in Task |-> Idle] /\ log' = log /\ legacy' = legacy
  BY DEF Reload, chainVars, storeVars
<1>3. Fits(log, Markable, Kept, legacy, Idle)
  BY IdleFits DEF WalletInv, ChainInv
<1>4. DOMAIN task' = Task /\ task' = [t \in Task |-> task'[t]] /\ \A t \in Task : task'[t] = Idle
  BY <1>2
<1>5. AllFit(log, Markable, Kept, legacy, task)'
  BY <1>1, <1>2, <1>3, <1>4 DEF AllFit
<1> QED
  BY <1>1, <1>5 DEF WalletInv

LEMMA IndexerServesKeeps ==
    ASSUME WalletInv, IndexerServes
    PROVE  WalletInv'
<1>1. ChainInv'
  BY LedgerIsLast DEF IndexerServes, WalletInv, ChainInv, chainVars
<1>2. StoreInv' /\ KeptInv' /\ CountInv' /\ Kept' = Kept /\ Markable' = Markable
  BY DEF IndexerServes, WalletInv, StoreInv, KeptInv, CountInv, Kept, Markable, chainVars, storeVars, ghostVars
<1>3. AllFit(log, Markable, Kept, legacy, task)'
  BY <1>2 DEF IndexerServes, WalletInv, chainVars, storeVars
<1> QED
  BY <1>1, <1>2, <1>3 DEF WalletInv

-----------------------------------------------------------------------------
(* Operations.                                                             *)

LEMMA NoLeaf == AreLeaves(<<>>) /\ NoneOld(<<>>) /\ Len(<<>>) = 0
<1>1. <<>> \in Seq({}) /\ Len(<<>>) = 0
  BY EmptySeq
<1>2. IsList(<<>>)
  BY <1>1, ListOf
<1> QED
  BY <1>1, <1>2 DEF AreLeaves, NoneOld

LEMMA OneLeaf ==
    ASSUME NEW owner, NEW protocol, NEW from, NEW amount \in Nat, NEW index,
           from = "deposit" => owner = "me"
    PROVE  LET s == <<Leaf(owner, protocol, from, amount, index)>>
           IN  AreLeaves(s) /\ NoneOld(s) /\ Len(s) = 1 /\ s[1].owner = owner
<1> DEFINE a == Leaf(owner, protocol, from, amount, index)
           s == <<a>>
<1>1. a.leaf = TRUE /\ a.owner = owner /\ a.from = from /\ a.amount \in Nat
  BY DEF Leaf
<1> HIDE DEF a
<1>2. s \in Seq({a}) /\ Len(s) = 1 /\ s[1] = a
  OBVIOUS
<1> HIDE DEF s
<1>3. IsList(s)
  BY <1>2, ListOf
<1>4. AreLeaves(s) /\ NoneOld(s)
  BY <1>1, <1>2, <1>3 DEF AreLeaves, NoneOld
<1> QED
  BY <1>1, <1>2, <1>4 DEF s, a

LEMMA TwoLeaves ==
    ASSUME NEW o1, NEW o2, NEW a1 \in Nat, NEW a2 \in Nat
    PROVE  LET s == <<Leaf(o1, "v3", "transfer", a1, 0), Leaf(o2, "v3", "transfer", a2, 0)>>
           IN  AreLeaves(s) /\ NoneOld(s) /\ Len(s) = 2 /\ s[2].owner = o2
<1> DEFINE a == Leaf(o1, "v3", "transfer", a1, 0)
           b == Leaf(o2, "v3", "transfer", a2, 0)
           s == <<a, b>>
<1>1. /\ a.leaf = TRUE /\ a.from = "transfer" /\ a.amount \in Nat
      /\ b.leaf = TRUE /\ b.from = "transfer" /\ b.amount \in Nat /\ b.owner = o2
  BY DEF Leaf
<1> HIDE DEF a, b
<1>2. s \in Seq({a, b}) /\ Len(s) = 2 /\ s[1] = a /\ s[2] = b
  OBVIOUS
<1> HIDE DEF s
<1>3. IsList(s)
  BY <1>2, ListOf
<1>4. AreLeaves(s) /\ NoneOld(s)
  BY <1>1, <1>2, <1>3 DEF AreLeaves, NoneOld
<1> QED
  BY <1>1, <1>2, <1>4 DEF s, a, b

-----------------------------------------------------------------------------
(* What a payment leaves is not less than nothing.                         *)

LEMMA NoteAmount ==
    ASSUME WalletInv, NEW n \in notes
    PROVE  AmountOf(n) \in Nat
<1>1. n.id \in LeavesOf(log) /\ AmountsOK(log)
  BY DEF WalletInv, ChainInv, StoreInv, TrueNotes, LogOK
<1> QED
  BY <1>1 DEF AmountsOK, AmountOf, LeafAt

\* One note for an id, and finitely many ids.
LEMMA NotesAreFinite ==
    ASSUME WalletInv
    PROVE  IsFiniteSet(notes)
<1>1. LogOK(log) /\ TrueNotes(log, Markable, notes)
  BY DEF WalletInv, ChainInv, StoreInv
<1>2. Ids(notes) \subseteq LeavesOf(log) /\ IsFiniteSet(LeavesOf(log))
  BY <1>1, IdsAreLeaves, LeavesAreNumbers
<1>3. IsFiniteSet(Ids(notes))
  BY <1>2, FS_Subset
<1> DEFINE noteOf == [i \in Ids(notes) |-> CHOOSE n \in notes : n.id = i]
<1>4. \A n \in notes : n.id \in Ids(notes)
  BY DEF Ids
<1>5. \A i \in Ids(notes) : noteOf[i] \in notes
  BY DEF Ids
<1>6. \A n \in notes : noteOf[n.id] = n
  BY <1>1, <1>4 DEF TrueNotes
<1>7. noteOf \in Surjection(Ids(notes), notes)
  <2>1. noteOf \in [Ids(notes) -> notes]
    BY <1>5
  <2> HIDE DEF noteOf
  <2> QED
    BY <1>4, <1>6, <2>1 DEF Surjection
<1> QED
  BY <1>3, <1>7, FS_Surjection

\* The amounts the choice is made from are the notes'.
LEMMA AmountsAreNotes ==
    ASSUME WalletInv, NEW S, S \subseteq notes
    PROVE  AmountsOf(S) \in Seq(Nat)
<1> DEFINE ids == SetToSeq(Ids(S))
           c == Cardinality(Ids(S))
           w == AmountsOf(S)
<1>1. LogOK(log) /\ AmountsOK(log) /\ TrueNotes(log, Markable, notes)
  BY DEF WalletInv, ChainInv, StoreInv, LogOK
<1>2. Ids(S) \subseteq LeavesOf(log)
  BY <1>1, IdsAreLeaves DEF Ids
<1>3. IsFiniteSet(Ids(S))
  <2>1. IsFiniteSet(LeavesOf(log))
    BY <1>1, LeavesAreNumbers
  <2> QED
    BY <1>2, <2>1, FS_Subset
<1>4. c \in Nat /\ \A k \in 1 .. c : ids[k] \in Ids(S)
  BY <1>3, SetToSeqLists
<1>5. Len(ids) = c
  BY <1>3, SetToSeqLists
<1> HIDE DEF ids
<1>6. w = [i \in 1 .. c |-> LeafAt(ids[i]).amount]
  BY <1>5 DEF AmountsOf, ids
<1>7. \A i \in 1 .. c : LeafAt(ids[i]).amount \in Nat
  BY <1>1, <1>2, <1>4 DEF AmountsOK, LeafAt
<1> HIDE DEF w, c
<1>8. w \in [1 .. c -> Nat]
  BY <1>6, <1>7
<1> QED
  BY <1>4, <1>8, SeqDef DEF w

\* What is chosen is enough.
LEMMA ChoiceCovers ==
    ASSUME NEW w \in Seq(Nat), NEW amount \in Nat \ {0}, SelectNotes(w, amount) # <<>>
    PROVE  LET chosen == SelectNotes(w, amount)
           IN  \/ \E x \in Nat : chosen = <<x>> /\ amount <= x
               \/ \E x, y \in Nat : chosen = <<x, y>> /\ amount <= x + y
<1> DEFINE u == Usable(w)
           single == {k \in 1 .. Len(u) : u[k] >= amount}
           chosen == SelectNotes(w, amount)
<1>1. Ascending(u)
  BY SortedAmounts
<1>2. chosen = IF single # {} THEN <<u[Least(single)]>> ELSE BestPair(u, amount)
  BY DEF SelectNotes
<1>3. chosen # <<>>
  OBVIOUS
<1> HIDE DEF u, chosen
<1>4. Len(u) \in Nat /\ \A k \in 1 .. Len(u) : u[k] \in Nat
  BY <1>1 DEF Ascending
<1>5. CASE single # {}
  <2>1. single \in SUBSET Nat
    BY <1>4
  <2>2. Least(single) \in single
    <3> HIDE DEF single
    <3>1. PICK k \in single : \A l \in single : k <= l
      BY <1>5, <2>1, LeastElement
    <3>2. Least(single) = k
      BY <2>1, <3>1, LeastIs
    <3> QED
      BY <3>2
  <2>3. chosen = <<u[Least(single)]>> /\ u[Least(single)] \in Nat /\ amount <= u[Least(single)]
    BY <1>2, <1>4, <1>5, <2>2
  <2> QED
    BY <2>3 DEF chosen
<1>6. CASE single = {}
  <2>1. chosen = BestPair(u, amount)
    BY <1>2, <1>6
  <2>2. SmallestPair(u, amount, chosen)
    BY <1>1, <2>1, BestPairIsSmallest
  <2>3. PICK i, j : Enough(u, amount, i, j) /\ chosen = <<u[i], u[j]>>
    BY <1>3, <2>2 DEF SmallestPair, IsPair
  <2>4. u[i] \in Nat /\ u[j] \in Nat /\ amount <= u[i] + u[j]
    BY <1>4, <2>3 DEF Enough
  <2> QED
    BY <2>3, <2>4 DEF chosen
<1> QED
  BY <1>5, <1>6

\* The sum over one note or two.
SumsUp(S, g) ==
    g = [s \in SUBSET S |-> IF s = {} THEN 0
                            ELSE LET x == CHOOSE x \in s : TRUE IN AmountOf(x) + g[s \ {x}]]

LEMMA SumOfTwo ==
    ASSUME NEW a, NEW b, AmountOf(a) \in Nat, AmountOf(b) \in Nat
    PROVE  MapThenSumSet(AmountOf, {a, b}) = IF a = b THEN AmountOf(a) ELSE AmountOf(a) + AmountOf(b)
<1> DEFINE S == {a, b}
           pick(s) == CHOOSE x \in s : TRUE
           total == IF a = b THEN AmountOf(a) ELSE AmountOf(a) + AmountOf(b)
           h == [s \in SUBSET S |-> IF s = {} THEN 0
                                    ELSE IF s = S THEN total ELSE AmountOf(pick(s))]
<1>1. h[{}] = 0 /\ h[S] = total /\ {} \in SUBSET S
  OBVIOUS
<1>2. ASSUME NEW s \in SUBSET S, s # {}
      PROVE  h[s] = AmountOf(pick(s)) + h[s \ {pick(s)}]
  <2>1. pick(s) \in s /\ pick(s) \in S /\ s \ {pick(s)} \in SUBSET S
    BY <1>2
  <2> DEFINE x == pick(s)
  <2> HIDE DEF x
  <2>2. AmountOf(x) \in Nat
    BY <2>1 DEF x
  <2>3. CASE s \ {x} = {}
    <3>1. h[s \ {x}] = 0
      BY <1>1, <2>3
    <3>2. h[s] = AmountOf(x)
      <4>1. CASE s = S
        <5>1. a = b /\ x = a
          BY <2>1, <2>3, <4>1 DEF x
        <5> QED
          BY <1>1, <4>1, <5>1
      <4>2. CASE s # S
        BY <1>2, <4>2 DEF x
      <4> QED
        BY <4>1, <4>2
    <3> HIDE DEF h
    <3> QED
      BY <2>2, <3>1, <3>2 DEF x
  <2>4. CASE s \ {x} # {}
    <3>1. /\ s = S /\ a # b /\ x \in {a, b}
          /\ \/ x = a /\ s \ {x} = {b}
             \/ x = b /\ s \ {x} = {a}
      BY <2>1, <2>4 DEF x
    <3>2. h[{a}] = AmountOf(a) /\ h[{b}] = AmountOf(b)
      <4>1. ASSUME NEW y \in S PROVE h[{y}] = AmountOf(y)
        <5>1. {y} \in SUBSET S /\ {y} # {} /\ {y} # S /\ pick({y}) = y
          BY <3>1
        <5> QED
          BY <5>1
      <4> QED
        BY <4>1
    <3>3. h[s] = AmountOf(a) + AmountOf(b)
      BY <1>1, <3>1
    <3> HIDE DEF h
    <3>4. h[s] = AmountOf(x) + h[s \ {x}]
      <4>1. CASE x = a /\ s \ {x} = {b}
        BY <3>2, <3>3, <4>1
      <4>2. CASE x = b /\ s \ {x} = {a}
        <5>1. AmountOf(x) + h[s \ {x}] = AmountOf(b) + AmountOf(a)
          BY <3>2, <4>2
        <5> QED
          BY <3>3, <5>1
      <4> QED
        BY <3>1, <4>1, <4>2
    <3> QED
      BY <3>4 DEF x
  <2> QED
    BY <2>3, <2>4
<1>3. h = [s \in SUBSET S |-> IF s = {} THEN 0 ELSE AmountOf(pick(s)) + h[s \ {pick(s)}]]
  <2>1. \A s \in SUBSET S : h[s] = IF s = {} THEN 0 ELSE AmountOf(pick(s)) + h[s \ {pick(s)}]
    BY <1>1, <1>2
  <2>2. h = [s \in SUBSET S |-> h[s]]
    OBVIOUS
  <2> HIDE DEF h
  <2> QED
    BY <2>1, <2>2
<1> HIDE DEF h
<1>4. SumsUp(S, h)
  BY <1>3 DEF SumsUp
<1> DEFINE g == CHOOSE g : SumsUp(S, g)
<1>5. SumsUp(S, g)
  BY <1>4
<1>6. MapThenSumSet(AmountOf, S) = g[S]
  BY DEF MapThenSumSet, MapThenFoldSet, SumsUp
<1> HIDE DEF g
<1>7. g[{}] = 0 /\ \A s \in SUBSET S : s # {} => g[s] = AmountOf(pick(s)) + g[s \ {pick(s)}]
  BY <1>5 DEF SumsUp
<1>8. \A y \in S : g[{y}] = AmountOf(y)
  <2>1. SUFFICES ASSUME NEW y \in S PROVE g[{y}] = AmountOf(y)
    OBVIOUS
  <2>2. {y} \in SUBSET S /\ {y} # {} /\ pick({y}) = y /\ {y} \ {y} = {} /\ AmountOf(y) \in Nat
    OBVIOUS
  <2>3. g[{y}] = AmountOf(y) + g[{}]
    BY <1>7, <2>2
  <2> QED
    BY <1>7, <2>2, <2>3
<1>9. CASE a = b
  BY <1>6, <1>8, <1>9
<1>10. CASE a # b
  <2> DEFINE x == pick(S)
  <2>1. x \in S /\ g[S] = AmountOf(x) + g[S \ {x}]
    BY <1>7
  <2>2. (x = a /\ S \ {x} = {b}) \/ (x = b /\ S \ {x} = {a})
    BY <1>10, <2>1
  <2> HIDE DEF x
  <2>3. g[S] = AmountOf(a) + AmountOf(b)
    <3>1. g[{a}] = AmountOf(a) /\ g[{b}] = AmountOf(b)
      BY <1>8
    <3>2. CASE x = a /\ S \ {x} = {b}
      BY <2>1, <3>1, <3>2
    <3>3. CASE x = b /\ S \ {x} = {a}
      <4>1. g[S] = AmountOf(b) + AmountOf(a)
        BY <2>1, <3>1, <3>3
      <4> QED
        BY <4>1
    <3> QED
      BY <2>2, <3>2, <3>3
  <2> QED
    BY <1>6, <1>10, <2>3
<1> QED
  BY <1>9, <1>10

\* So are the notes that are picked.
LEMMA PicksCover ==
    ASSUME WalletInv, NEW amount \in Nat \ {0}, NEW p \in Picks(Spendable("v3"), amount)
    PROVE  MapThenSumSet(AmountOf, p) - amount \in Nat
<1> DEFINE S == Spendable("v3")
           chosen == SelectNotes(AmountsOf(S), amount)
           values == {AmountOf(n) : n \in p}
<1>1. /\ p \subseteq S /\ p # {} /\ Cardinality(p) = Len(chosen)
      /\ values = ToSet(chosen)
  BY DEF Picks
<1>2. S \subseteq notes
  BY DEF Spendable
<1>3. AmountsOf(S) \in Seq(Nat)
  BY <1>2, AmountsAreNotes
<1>4. IsFiniteSet(p)
  <2>1. IsFiniteSet(notes)
    BY NotesAreFinite
  <2> QED
    BY <1>1, <1>2, <2>1, FS_Subset
<1>5. \A n \in p : AmountOf(n) \in Nat
  BY <1>1, <1>2, NoteAmount
<1> HIDE DEF S
<1>6. chosen # <<>>
  <2>1. SUFFICES ASSUME chosen = <<>> PROVE FALSE
    OBVIOUS
  <2>2. Cardinality(p) = 0
    BY <1>1, <2>1
  <2> QED
    BY <1>1, <1>4, <2>2, FS_EmptySet
<1>7. \/ \E x \in Nat : chosen = <<x>> /\ amount <= x
      \/ \E x, y \in Nat : chosen = <<x, y>> /\ amount <= x + y
  BY <1>3, <1>6, ChoiceCovers
<1> HIDE DEF chosen, values
<1>8. CASE \E x \in Nat : chosen = <<x>> /\ amount <= x
  <2>1. PICK x \in Nat : chosen = <<x>> /\ amount <= x
    BY <1>8
  <2>2. Len(chosen) = 1 /\ ToSet(chosen) = {x}
    BY <2>1 DEF ToSet
  <2>3. PICK a : p = {a}
    BY <1>1, <1>4, <2>2, FS_Singleton
  <2>4. AmountOf(a) = x
    BY <1>1, <2>2, <2>3 DEF values
  <2>5. MapThenSumSet(AmountOf, {a, a}) = x
    BY <2>4, SumOfTwo
  <2>6. p = {a, a}
    BY <2>3
  <2> QED
    BY <2>1, <2>5, <2>6
<1>9. CASE \E x, y \in Nat : chosen = <<x, y>> /\ amount <= x + y
  <2>1. PICK x \in Nat, y \in Nat : chosen = <<x, y>> /\ amount <= x + y
    BY <1>9
  <2>2. Len(chosen) = 2 /\ ToSet(chosen) = {x, y}
    <3>1. DOMAIN <<x, y>> = {1, 2} /\ <<x, y>>[1] = x /\ <<x, y>>[2] = y /\ Len(<<x, y>>) = 2
      OBVIOUS
    <3> QED
      BY <2>1, <3>1 DEF ToSet
  <2>3. PICK a, b : p = {a, b} /\ a # b
    <3>1. PICK a \in p : TRUE
      BY <1>1
    <3>2. IsFiniteSet(p \ {a}) /\ Cardinality(p \ {a}) = Cardinality(p) - 1
      BY <1>4, FS_RemoveElement
    <3>3. Cardinality(p \ {a}) = 1
      BY <1>1, <2>2, <3>2
    <3>4. PICK b : p \ {a} = {b}
      BY <3>2, <3>3, FS_Singleton
    <3>5. p = {a, b} /\ a # b
      BY <3>4
    <3> QED
      BY <3>5
  <2>4. {AmountOf(a), AmountOf(b)} = {x, y}
    BY <1>1, <2>2, <2>3 DEF values
  <2>5. AmountOf(a) \in Nat /\ AmountOf(b) \in Nat
    BY <1>5, <2>3
  <2>6. (AmountOf(a) = x /\ AmountOf(b) = y) \/ (AmountOf(a) = y /\ AmountOf(b) = x)
    BY <2>4
  <2>7. AmountOf(a) + AmountOf(b) = x + y
    BY <2>6
  <2>8. MapThenSumSet(AmountOf, p) = x + y
    BY <2>3, <2>5, <2>7, SumOfTwo
  <2> QED
    BY <2>1, <2>8
<1> QED
  BY <1>7, <1>8, <1>9

\* Notes that are spent and nothing is stored for.
LEMMA SpendKeeps ==
    ASSUME WalletInv, NEW kind, kind # "open", NEW n \in notes, NEW outs, AreLeaves(outs), NoneOld(outs),
           Begin(kind, {n}, outs, None)
    PROVE  WalletInv'
<1>1. {n} \subseteq notes
  OBVIOUS
<1> QED
  BY <1>1, BeginKeeps

LEMMA OperateKeeps ==
    ASSUME WalletInv, Operate
    PROVE  WalletInv'
<1>0. None \notin Key /\ "me" \in Key /\ "me" # None /\ {} \subseteq notes
  BY WalletConstants DEF Key
<1>8. Denomination \in Nat /\ Margin \in Nat /\ \A amount \in Amount : amount \in Nat \ {0}
  BY WalletConstants
<1>1. CASE DepositV2
  <2> DEFINE outs == <<Leaf("me", "v2", "deposit", Denomination, 0)>>
  <2>1. AreLeaves(outs) /\ NoneOld(outs) /\ Len(outs) = 1 /\ outs[1].owner = "me"
    BY <1>8, OneLeaf
  <2>2. Begin("deposit", {}, outs, "me")
    BY <1>1 DEF DepositV2
  <2> HIDE DEF outs
  <2>3. Len(outs) > 0 /\ outs[Len(outs)].owner = "me"
    BY <2>1
  <2> QED
    BY <1>0, <2>1, <2>2, <2>3, BeginKeeps
<1>2. ASSUME NEW amount \in Amount, DepositV3(amount) PROVE WalletInv'
  <2> DEFINE outs == <<Leaf("me", "v3", "deposit", amount, DepositIndex)>>
  <2>1. AreLeaves(outs) /\ NoneOld(outs) /\ Len(outs) = 1 /\ outs[1].owner = "me"
    BY <1>8, OneLeaf
  <2>2. Begin("deposit", {}, outs, "me")
    BY <1>2 DEF DepositV3
  <2> HIDE DEF outs
  <2>3. Len(outs) > 0 /\ outs[Len(outs)].owner = "me"
    BY <2>1
  <2> QED
    BY <1>0, <2>1, <2>2, <2>3, BeginKeeps
<1>3. ASSUME NEW payout \in Amount, ClosePosition(payout) PROVE WalletInv'
  <2> DEFINE outs == <<Leaf(position.key, "v3", "minted", payout, 0)>>
             key == IF payout > 0 THEN "me" ELSE None
  <2>1. AreLeaves(outs) /\ NoneOld(outs) /\ Len(outs) = 1 /\ outs[1].owner = position.key
    BY <1>8, OneLeaf
  <2>2. Begin("close", {}, outs, key)
    BY <1>3 DEF ClosePosition
  <2>3. OwnFunder => position.key = "me"
    BY DEF WalletInv, ChainInv, OwnFunder
  <2>4. key # None => key = "me"
    OBVIOUS
  <2> HIDE DEF outs, key
  <2>5. Len(outs) > 0 /\ outs[Len(outs)].owner = position.key
    BY <2>1
  <2>6. key # None => /\ key \in Key /\ Len(outs) > 0
                      /\ OwnFunder => outs[Len(outs)].owner = key
    BY <1>0, <2>3, <2>4, <2>5
  <2> QED
    BY <1>0, <2>1, <2>2, <2>6, BeginKeeps
<1>4. ASSUME NEW n \in notes, Withdraw(n) \/ RageQuit(n) \/ WithdrawV3(n) PROVE WalletInv'
  <2>1. Begin("spend", {n}, <<>>, None) \/ Begin("withdrawV3", {n}, <<>>, None)
    BY <1>4 DEF Withdraw, RageQuit, WithdrawV3
  <2> QED
    BY <2>1, NoLeaf, SpendKeeps
<1>5. ASSUME NEW n \in notes, OpenPosition(n) PROVE WalletInv'
  <2> DEFINE outs == <<Leaf(n.key, "v3", "minted", AmountOf(n) - Margin, 0)>>
             key == IF AmountOf(n) > Margin THEN n.key ELSE None
  <2>0. AmountOf(n) - Margin \in Nat
    <3>1. AmountOf(n) \in Nat /\ AmountOf(n) >= Margin
      BY <1>5, NoteAmount DEF OpenPosition, Spendable
    <3> QED
      BY <1>8, <3>1
  <2>1. AreLeaves(outs) /\ NoneOld(outs) /\ Len(outs) = 1 /\ outs[1].owner = n.key
    BY <2>0, OneLeaf
  <2>2. Begin("open", {n}, outs, key) /\ n.key \in Funders
    BY <1>5 DEF OpenPosition
  <2>3. (key # None => key = n.key) /\ n.key \in Key
    BY <2>2, WalletConstants
  <2> HIDE DEF outs, key
  <2>4. Len(outs) > 0 /\ outs[Len(outs)].owner = n.key
    BY <2>1
  <2>5. key # None => /\ key \in Key /\ Len(outs) > 0
                      /\ OwnFunder => outs[Len(outs)].owner = key
    BY <2>3, <2>4
  <2>6. {n} \subseteq notes /\ {n} # {} /\ \A m \in {n} : m.key \in Funders
    BY <2>2
  <2> QED
    BY <2>1, <2>2, <2>5, <2>6, BeginKeeps
<1>6. ASSUME NEW n \in notes, NEW to, Transfer(n, to) PROVE WalletInv'
  <2> DEFINE outs == <<Leaf(to, "v2", "transfer", Denomination, 0)>>
  <2>1. AreLeaves(outs) /\ NoneOld(outs)
    BY <1>8, OneLeaf
  <2>2. Begin("spend", {n}, outs, None)
    BY <1>6 DEF Transfer
  <2> HIDE DEF outs
  <2> QED
    BY <2>1, <2>2, SpendKeeps
<1>7. ASSUME NEW picked \in SUBSET notes, NEW to, NEW amount \in Amount, TransferV3(picked, to, amount)
      PROVE  WalletInv'
  <2> DEFINE change == MapThenSumSet(AmountOf, picked) - amount
             own == KeysForNote(CHOOSE n \in picked : TRUE)
             outs == <<Leaf(to, "v3", "transfer", amount, 0), Leaf(own, "v3", "transfer", change, 0)>>
             key == IF change > 0 THEN own ELSE None
  <2>0. change \in Nat /\ amount \in Nat
    <3>1. picked \in Picks(Spendable("v3"), amount)
      BY <1>7 DEF TransferV3
    <3> QED
      BY <1>8, <3>1, PicksCover
  <2> HIDE DEF change
  <2>1. AreLeaves(outs) /\ NoneOld(outs) /\ Len(outs) = 2 /\ outs[2].owner = own
    BY <2>0, TwoLeaves
  <2>2. Begin("spend", picked, outs, key) /\ picked # {}
    BY <1>7 DEF TransferV3, Picks, change
  <2>3. own \in Key
    <3>1. (CHOOSE n \in picked : TRUE) \in notes
      BY <2>2
    <3> QED
      BY <3>1 DEF KeysForNote, WalletInv, StoreInv, TrueNotes
  <2>4. key # None => key = own
    OBVIOUS
  <2> HIDE DEF outs, own, key
  <2>5. Len(outs) > 0 /\ outs[Len(outs)].owner = own
    BY <2>1
  <2>6. key # None => /\ key \in Key /\ Len(outs) > 0
                      /\ OwnFunder => outs[Len(outs)].owner = key
    BY <2>3, <2>4, <2>5
  <2> QED
    BY <2>1, <2>2, <2>6, BeginKeeps
<1> QED
  BY <1>1, <1>2, <1>3, <1>4, <1>5, <1>6, <1>7 DEF Operate

-----------------------------------------------------------------------------
(* Transactions.                                                           *)

LEMMA TransactionGrows ==
    ASSUME ChainInv, NEW spends, spends \subseteq LeavesOf(log), NEW from, NEW leaves, AreLeaves(leaves),
           Append2Log(spends, from, leaves)
    PROVE  Grown(log, log', spends, leaves)
<1>1. LogOK(log) /\ IsFiniteSet(spends)
  BY LeavesAreNumbers, FS_Subset DEF ChainInv
<1>2. log' = WithEvents(log, EventsOf(spends, from, leaves))
  <2>1. Ledger = LedgerOf(log)
    BY Views
  <2> QED
    BY <2>1, Zenon DEF Append2Log, WithEvents, EventsOf
<1> QED
  BY <1>1, <1>2, LogGrows

\* The chain grows, and the store and the tasks are as they were.
LEMMA GrowthKeeps ==
    ASSUME WalletInv, NEW spends, NEW leaves, Grown(log, log', spends, leaves), NoneOld(leaves),
           UNCHANGED <<served, storeVars, ghostVars>>
    PROVE  /\ LogOK(log') /\ served' \in 0 .. Len(log') /\ StoreInv' /\ KeptInv'
           /\ AllFit(log', Markable', Kept', legacy', task)
<1>1. LogOK(log) /\ Later(log, log') /\ LogOK(log')
  <2>1. LogOK(log) /\ LogOK(log')
    BY DEF WalletInv, ChainInv, Grown
  <2> QED
    BY <2>1, Growth
<1>2. served' \in 0 .. Len(log')
  BY <1>1 DEF WalletInv, ChainInv, Later
<1>3. /\ Markable \subseteq Markable' /\ Kept' = Kept /\ legacy' = legacy /\ cursor' = cursor
      /\ UNCHANGED <<overwritten, misled, unread>>
  BY <1>1 DEF Markable, Later, storeVars, ghostVars, Kept
<1>4. TrueNotes(log', Markable', notes) /\ TrueNotes(log', Markable', backup) /\ TrueLegacy(log', legacy)
  BY <1>1, <1>3, StillTrue, StillLegacy DEF WalletInv, StoreInv
<1>5. cursor \in 0 .. LedgerOf(log') /\ overwritten \cup misled \subseteq LeavesOf(log')
  BY <1>1 DEF WalletInv, StoreInv, Later
<1>6. unread \subseteq MyLeaves(log')
  BY <1>1 DEF WalletInv, StoreInv, Later, MyLeaves
<1>7. StoreInv'
  BY <1>3, <1>4, <1>5, <1>6 DEF storeVars, WalletInv, StoreInv
<1>8. Received(log', cursor, Kept)
  BY <1>1, ReceivedStill DEF WalletInv, StoreInv, KeptInv
<1>9. OldNotes(log') \subseteq OldNotes(log)
  BY <1>1, OldStill
<1>10. KeptInv'
  BY <1>3, <1>8, <1>9 DEF WalletInv, KeptInv
<1>11. AllFit(log', Markable', Kept, legacy, task)
  BY <1>1, <1>3, TasksLater DEF WalletInv
<1> QED
  BY <1>1, <1>2, <1>3, <1>7, <1>10, <1>11

LEMMA OtherPaysKeeps ==
    ASSUME WalletInv, OtherPays
    PROVE  WalletInv'
<1>1. PICK amount \in Amount :
          Append2Log({}, "", <<Leaf("other", "v3", "transfer", amount, 0),
                               Leaf("me", "v3", "transfer", amount, 0)>>)
  BY DEF OtherPays
<1> DEFINE leaves == <<Leaf("other", "v3", "transfer", amount, 0), Leaf("me", "v3", "transfer", amount, 0)>>
<1>2. AreLeaves(leaves) /\ NoneOld(leaves) /\ Len(leaves) = 2
  BY TwoLeaves, WalletConstants
<1>3. Append2Log({}, "", leaves)
  BY <1>1
<1> HIDE DEF leaves
<1>4. Grown(log, log', {}, leaves)
  BY <1>2, <1>3, TransactionGrows DEF WalletInv
<1>5. UNCHANGED <<position, served, storeVars, task, ghostVars, ops, faults>> /\ Len(log) + 2 <= MaxLog
  BY DEF OtherPays
<1>6. Len(log') <= MaxLog
  <2>1. Len(log') = Len(log) + 0 + 2 /\ Len(log) \in Nat
    BY <1>2, <1>4, FS_EmptySet DEF Grown
  <2> QED
    BY <1>5, <2>1
<1>7. /\ LogOK(log') /\ served' \in 0 .. Len(log') /\ StoreInv' /\ KeptInv'
      /\ AllFit(log', Markable', Kept', legacy', task)
  BY <1>2, <1>4, <1>5, GrowthKeeps
<1>8. ChainInv' /\ CountInv'
  BY <1>5, <1>6, <1>7 DEF WalletInv, ChainInv, CountInv
<1> QED
  BY <1>5, <1>7, <1>8 DEF WalletInv

\* What the user submitted is executed.
LEMMA ExecutionKeeps ==
    ASSUME WalletInv, task["user"].at = "submit", Executes(task["user"]),
           UNCHANGED <<served, storeVars, ghostVars>>
    PROVE  /\ ChainInv' /\ StoreInv' /\ KeptInv' /\ AllFit(log', Markable', Kept', legacy', task)
           /\ Grown(log, log', task["user"].marks, task["user"].outs)
<1> DEFINE r == task["user"]
<1>1. /\ LogOK(log) /\ TaskTrue(log, Markable, r) /\ Submission(log, r) /\ Carries(log, Markable, r)
  BY TheTask DEF Task
<1>2. /\ r.at = "submit"
      /\ Append2Log(r.marks, IF r.kind = "open" THEN "minted" ELSE r.kind, r.outs)
      /\ Len(log) + Cardinality(r.marks) + Len(r.outs) <= MaxLog
      /\ position' = CASE r.kind = "open"  -> [at |-> "open", key |-> LeafAt(CHOOSE i \in r.marks : TRUE).owner]
                       [] r.kind = "close" -> [position EXCEPT !.at = "closed"]
                       [] OTHER            -> position
  BY DEF Executes
<1> HIDE DEF r
<1>3. AreLeaves(r.outs) /\ NoneOld(r.outs) /\ r.marks \subseteq LeavesOf(log)
  BY <1>1, <1>2 DEF Submission, Carries
<1>4. Grown(log, log', r.marks, r.outs)
  BY <1>2, <1>3, TransactionGrows DEF WalletInv
<1>5. Len(log') <= MaxLog
  BY <1>2, <1>4 DEF Grown
<1>6. position' \in [at : {"none", "open", "closed"}, key : Key] /\ position'.key \in Funders \cup {"me"}
  <2>0. position \in [at : {"none", "open", "closed"}, key : Key] /\ position.key \in Funders \cup {"me"}
    BY DEF WalletInv, ChainInv
  <2>1. CASE r.kind = "open"
    <3> DEFINE i == CHOOSE j \in r.marks : TRUE
    <3>1. i \in r.marks
      BY <1>1, <1>2, <2>1 DEF Submission
    <3>2. LeafAt(i).owner \in Funders
      BY <1>1, <1>2, <2>1, <3>1 DEF Submission, LeafAt
    <3>3. position' = [at |-> "open", key |-> LeafAt(i).owner]
      BY <1>2, <2>1
    <3> QED
      BY <3>2, <3>3, WalletConstants
  <2>2. CASE r.kind = "close"
    <3>1. position' = [position EXCEPT !.at = "closed"]
      BY <1>2, <2>2
    <3> QED
      BY <2>0, <3>1
  <2>3. CASE r.kind \notin {"open", "close"}
    <3>1. position' = position
      BY <1>2, <2>3
    <3> QED
      BY <2>0, <3>1
  <2> QED
    BY <2>1, <2>2, <2>3
<1>7. /\ LogOK(log') /\ served' \in 0 .. Len(log') /\ StoreInv' /\ KeptInv'
      /\ AllFit(log', Markable', Kept', legacy', task)
  BY <1>3, <1>4, GrowthKeeps
<1>8. ChainInv'
  BY <1>5, <1>6, <1>7 DEF ChainInv
<1> QED
  BY <1>4, <1>7, <1>8 DEF r

LEMMA LandsUnheardKeeps ==
    ASSUME WalletInv, LandsUnheard
    PROVE  WalletInv'
<1>1. /\ task' = [task EXCEPT !["user"] = Idle] /\ CountInv'
      /\ ChainInv' /\ StoreInv' /\ KeptInv' /\ AllFit(log', Markable', Kept', legacy', task)
  BY ExecutionKeeps, CountFaults DEF LandsUnheard, WalletInv
<1>2. Fits(log', Markable', Kept', legacy', Idle)
  BY <1>1, IdleFits DEF ChainInv
<1>3. AllFit(log', Markable', Kept', legacy', [task EXCEPT !["user"] = Idle])
  BY <1>1, <1>2, OneTask DEF Task
<1> QED
  BY <1>1, <1>3 DEF WalletInv

\* The wallet has its hash: it marks what it submitted, and stores what it is to.
LEMMA ConfirmedFits ==
    ASSUME NEW lg, NEW ok, LogOK(lg), NEW ids, NEW old, NEW r, Fits(lg, ok, ids, old, r),
           r.at = "submit", r.marks \subseteq ok, NEW adds, TrueNotes(lg, ok, adds)
    PROVE  Fits(lg, ok, ids, old, Confirmed(r, adds))
<1> DEFINE q == [r EXCEPT !.outs = <<>>, !.key = None, !.adds = adds,
                          !.next = IF r.kind \in {"open", "close"} THEN "idle" ELSE "fetch"]
<1>1. /\ Carries(lg, ok, r) /\ TaskTrue(lg, ok, r)
      /\ Received(lg, r.high, ids \cup Ids(r.adds))
  BY DEF Fits, IsTask, TaskTrue
<1>2. r.adds = {}
  BY <1>1 DEF TaskTrue
<1>3. /\ DOMAIN q = TaskFields /\ q = [f \in TaskFields |-> q[f]]
      /\ q.marks = r.marks /\ q.adds = adds /\ q.next \in {"idle", "fetch"}
      /\ q.seen = r.seen /\ q.high = r.high
  BY <1>1 DEF Carries, TaskFields
<1>4. Confirmed(r, adds) = Proceed(q)
  BY DEF Confirmed
<1> HIDE DEF q
<1>5. Goes(lg, ok, q)
  BY <1>1, <1>3 DEF Goes, Carries
<1>6. Received(lg, q.high, ids \cup Ids(q.adds))
  BY <1>1, <1>2, <1>3, NothingIsTrue, ReceivedMore
<1>7. q.next # "delete"
  BY <1>3
<1> QED
  BY <1>4, <1>5, <1>6, <1>7, ProceedFits

LEMMA LandsKeeps ==
    ASSUME WalletInv, Lands
    PROVE  WalletInv'
<1> DEFINE r == task["user"]
           adds == IF r.key = None THEN {} ELSE {Note(Len(log'), r.key)}
<1>1. /\ r.at = "submit" /\ CountInv'
      /\ task' = [task EXCEPT !["user"] = Confirmed(r, adds)]
  BY DEF Lands, WalletInv, CountInv, AllFit, Task
<1>2. /\ ChainInv' /\ StoreInv' /\ KeptInv' /\ AllFit(log', Markable', Kept', legacy', task)
      /\ Grown(log, log', r.marks, r.outs)
  BY ExecutionKeeps DEF Lands
<1>3. /\ Fits(log', Markable', Kept', legacy', r) /\ LogOK(log') /\ Submission(log', r)
  BY <1>2 DEF AllFit, Task, Fits, IsTask, ChainInv
<1>4. r.marks \subseteq Markable'
  BY <1>2 DEF Grown, Markable
<1>5. TrueNotes(log', Markable', adds)
  <2>1. CASE r.key = None
    BY <2>1, NothingIsTrue
  <2>2. CASE r.key # None
    <3>1. /\ AreLeaves(r.outs) /\ r.key \in Key /\ Len(r.outs) > 0
          /\ OwnFunder => r.outs[Len(r.outs)].owner = r.key
      BY <1>1, <1>3, <2>2 DEF Submission
    <3>2. log'[Len(log')].event = r.outs[Len(r.outs)] /\ Len(log') \in 1 .. Len(log')
      BY <1>2, <3>1 DEF Grown
    <3>3. r.outs[Len(r.outs)].leaf = TRUE
      <4>1. Len(r.outs) \in 1 .. Len(r.outs)
        BY <1>2, <3>1 DEF Grown
      <4> QED
        BY <3>1, <4>1 DEF AreLeaves
    <3>4. Len(log') \in LeavesOf(log')
      BY <3>2, <3>3 DEF LeavesOf
    <3>5. /\ Note(Len(log'), r.key) \in [id : LeavesOf(log'), key : Key, spent : BOOLEAN]
          /\ Note(Len(log'), r.key).id = Len(log') /\ Note(Len(log'), r.key).key = r.key
          /\ Note(Len(log'), r.key).spent = FALSE
      BY <3>1, <3>4 DEF Note
    <3>6. adds = {Note(Len(log'), r.key)}
      BY <2>2
    <3> HIDE DEF adds
    <3> QED
      BY <3>1, <3>2, <3>5, <3>6 DEF TrueNotes
  <2> QED
    BY <2>1, <2>2
<1> HIDE DEF adds, r
<1>6. Fits(log', Markable', Kept', legacy', Confirmed(r, adds))
  BY <1>1, <1>3, <1>4, <1>5, ConfirmedFits
<1>7. AllFit(log', Markable', Kept', legacy', [task EXCEPT !["user"] = Confirmed(r, adds)])
  BY <1>2, <1>6, OneTask DEF Task
<1> QED
  BY <1>1, <1>2, <1>7 DEF WalletInv

\* The wallet has a hash that spent nothing: what it marks is among the misled.
LEMMA DroppedKeeps ==
    ASSUME WalletInv, Dropped
    PROVE  WalletInv'
<1> DEFINE r == task["user"]
<1>1. /\ r.at = "submit" /\ task' = [task EXCEPT !["user"] = Confirmed(r, {})]
      /\ misled' = misled \cup r.marks
      /\ UNCHANGED <<chainVars, served, storeVars, overwritten, unread, ops>>
  BY DEF Dropped, WalletInv, AllFit, Task
<1>2. Fits(log, Markable, Kept, legacy, r) /\ LogOK(log) /\ Carries(log, Markable, r)
  BY TheTask DEF Task
<1> HIDE DEF r
<1>3. CountInv' /\ remembered' \in Key \cup {None}
  BY <1>1, CountFaults DEF Dropped, WalletInv, StoreInv, CountInv, storeVars
<1>4. /\ Markable \subseteq Markable' /\ r.marks \subseteq Markable' /\ Kept' = Kept
      /\ UNCHANGED <<chainVars, served, notes, cursor, legacy, backup, overwritten>>
  BY <1>1 DEF Markable, Kept, chainVars, storeVars
<1>5. /\ misled \subseteq misled' /\ misled' \subseteq LeavesOf(log)
      /\ unread \subseteq unread' /\ unread' \subseteq MyLeaves(log)
  BY <1>1, <1>2 DEF WalletInv, StoreInv, Carries
<1>6. Fits(log, Markable', Kept', legacy, r)
  BY <1>2, <1>4, FitsMore
<1>7. Fits(log, Markable', Kept', legacy, Confirmed(r, {}))
  BY <1>1, <1>2, <1>4, <1>6, ConfirmedFits, NothingIsTrue
<1> QED
  BY <1>1, <1>3, <1>4, <1>5, <1>7, GhostsGrow DEF Task

-----------------------------------------------------------------------------
(* The invariant.                                                          *)

LEMMA StartLog ==
    ASSUME Init
    PROVE  /\ LogOK(log) /\ Len(log) = Len(StartLeaves) /\ Len(log) \in Nat /\ Len(log) <= MaxLog
           /\ LedgerOf(log) \in Nat
           /\ \A i \in 1 .. Len(log) : /\ log[i].event = StartLeaves[i] /\ log[i].event.leaf = TRUE
                                       /\ log[i].event.owner \in Key \cup {"other"}
<1> DEFINE n == Len(StartLeaves)
           L == [leaf : {TRUE}, owner : Key \cup {"other"}, protocol : {"v2", "v3"},
                 from : {"deposit", "transfer", "minted"}, amount : Nat, index : Nat]
<1>1. n \in Nat /\ n <= MaxLog /\ \A i \in 1 .. n : StartLeaves[i] \in L
  <2>1. StartLeaves \in Seq(L) /\ n <= MaxLog
    BY WalletConstants
  <2> HIDE DEF L
  <2> QED
    BY <2>1, LenProperties
<1>2. \A i \in 1 .. n : StartLeaves[i].leaf = TRUE /\ StartLeaves[i].owner \in Key \cup {"other"}
  BY <1>1
<1>7. \A i \in 1 .. n : StartLeaves[i].amount \in Nat
  BY <1>1
<1> HIDE DEF L
<1>3. log = [i \in 1 .. n |-> [event |-> StartLeaves[i], ledger |-> 0]]
  BY DEF Init
<1>4. log = [i \in 1 .. n |-> log[i]] /\ \A i \in 1 .. n : log[i].event = StartLeaves[i] /\ log[i].ledger = 0
  BY <1>3
<1>5. IsList(log) /\ Len(log) = n
  BY <1>1, <1>4, FunctionIsList
<1>6. LogOK(log)
  <2>1. \A i \in 1 .. Len(log) : log[i].event.leaf \in BOOLEAN /\ log[i].ledger \in Nat /\ log[i].ledger = 0
    <3> SUFFICES ASSUME NEW i \in 1 .. n
                 PROVE  log[i].event.leaf \in BOOLEAN /\ log[i].ledger \in Nat /\ log[i].ledger = 0
      BY <1>5
    <3>1. log[i].event.leaf = TRUE /\ log[i].ledger = 0
      BY <1>2, <1>4
    <3>2. TRUE \in BOOLEAN /\ 0 \in Nat
      OBVIOUS
    <3> QED
      BY <3>1, <3>2, Zenon
  <2>2. \A i, j \in 1 .. Len(log) : i < j => log[i].ledger <= log[j].ledger
    BY <2>1
  <2>3. AmountsOK(log)
    <3>1. \A i \in 1 .. Len(log) : log[i].event.amount \in Nat
      BY <1>4, <1>5, <1>7
    <3> QED
      BY <3>1 DEF AmountsOK, LeavesOf
  <2> QED
    BY <1>5, <2>1, <2>2, <2>3 DEF LogOK
<1> QED
  BY <1>1, <1>2, <1>4, <1>5, <1>6, LedgerIsLast

LEMMA InitStarts ==
    ASSUME Init
    PROVE  WalletInv
<1> DEFINE Own(o) == {j \in LeavesOf(log) : LeafAt(j).owner = o}
           S(o) == {Note(i, "me") : i \in Own(o)}
<1>1. /\ LogOK(log) /\ Len(log) \in Nat /\ Len(log) <= MaxLog /\ LedgerOf(log) \in Nat
      /\ Leaves(Len(log)) = LeavesOf(log)
  BY StartLog DEF Leaves, LeavesOf
<1>2. /\ notes = S("me") /\ legacy = S("old") /\ backup = {}
      /\ served = Len(log) /\ position = [at |-> "none", key |-> "me"]
      /\ cursor = 0 /\ remembered = None /\ overwritten = {} /\ misled = {} /\ unread = {} /\ ops = 0 /\ faults = 0
      /\ task = [t \in Task |-> Idle]
  BY <1>1 DEF Init
<1>3. ChainInv
  BY <1>1, <1>2 DEF ChainInv, Key
<1>4. TrueNotes(log, Markable, notes) /\ Ids(notes) = Own("me")
  <2>1. Own("me") \subseteq LeavesOf(log) /\ \A i \in Own("me") : log[i].event.owner = "me"
    BY DEF LeafAt
  <2> HIDE DEF Own
  <2> QED
    BY <1>2, <2>1, FoundNotes
<1>5. TrueLegacy(log, legacy) /\ Own("old") \subseteq Ids(legacy)
  <2>1. Own("old") \subseteq LeavesOf(log) /\ \A i \in Own("old") : log[i].event.owner = "old"
    BY DEF LeafAt
  <2> HIDE DEF Own
  <2>2. \A n \in S("old") : \E i \in Own("old") : n = Note(i, "me")
    OBVIOUS
  <2>3. \A i \in Own("old") : /\ Note(i, "me") \in [id : LeavesOf(log), key : Key, spent : BOOLEAN]
                               /\ Note(i, "me").id = i /\ Note(i, "me").key = "me" /\ Note(i, "me").spent = FALSE
    BY <2>1 DEF Note, Key
  <2>4. \A i \in Own("old") : Note(i, "me") \in S("old")
    OBVIOUS
  <2> HIDE DEF S
  <2>5. TrueLegacy(log, S("old"))
    BY <2>1, <2>2, <2>3 DEF TrueLegacy
  <2>6. Own("old") \subseteq Ids(S("old"))
    BY <2>3, <2>4 DEF Ids
  <2> QED
    BY <1>2, <2>5, <2>6
<1>6. StoreInv
  <2>1. 0 \in 0 .. LedgerOf(log) /\ TrueNotes(log, Markable, backup)
    BY <1>1, <1>2, NothingIsTrue
  <2> QED
    BY <1>2, <1>4, <1>5, <2>1 DEF StoreInv
<1>7. KeptInv
  <2>1. Received(log, cursor, Kept)
    BY <1>1, <1>2, NothingBefore
  <2>2. OldNotes(log) \subseteq Own("old")
    BY DEF OldNotes, LeafAt
  <2> HIDE DEF Own
  <2> QED
    BY <1>5, <2>1, <2>2 DEF KeptInv
<1>8. CountInv
  BY <1>2, WalletConstants DEF CountInv
<1>9. AllFit(log, Markable, Kept, legacy, task)
  <2>1. Fits(log, Markable, Kept, legacy, Idle)
    BY <1>1, IdleFits
  <2>2. DOMAIN task = Task /\ task = [t \in Task |-> task[t]] /\ \A t \in Task : task[t] = Idle
    BY <1>2
  <2> QED
    BY <2>1, <2>2 DEF AllFit
<1> QED
  BY <1>3, <1>6, <1>7, <1>8, <1>9 DEF WalletInv

LEMMA StepKeeps ==
    ASSUME WalletInv, [Next]_vars
    PROVE  WalletInv'
<1>1. CASE OtherPays
  BY <1>1, OtherPaysKeeps
<1>2. CASE IndexerServes
  BY <1>2, IndexerServesKeeps
<1>3. CASE Operate
  BY <1>3, OperateKeeps
<1>4. CASE Settings
  BY <1>4, SettingsKeep
<1>5. CASE Lands
  BY <1>5, LandsKeeps
<1>6. CASE LandsUnheard
  BY <1>6, LandsUnheardKeeps
<1>7. CASE Refused
  BY <1>7, RefusedKeeps
<1>12. CASE Dropped
  BY <1>12, DroppedKeeps
<1>8. CASE DeleteLegacyStore
  BY <1>8, DeleteLegacyStoreKeeps
<1>9. ASSUME NEW t \in Task, Continue(t) \/ ScanFails(t) \/ DepositsUnavailable(t)
      PROVE  WalletInv'
  <2>1. CASE ReadToMark(t)
    BY <2>1, ReadToMarkKeeps
  <2>2. CASE ReadToAdd(t)
    BY <2>2, ReadToAddKeeps
  <2>3. CASE Write(t)
    BY <2>3, WriteKeeps
  <2>4. CASE ScanIncoming(t)
    BY <2>4, ScanIncomingKeeps
  <2>5. CASE RecoverDeposits(t)
    BY <2>5, RecoverDepositsKeeps
  <2>6. CASE FinishScan(t)
    BY <2>6, FinishScanKeeps
  <2>7. CASE ScanFails(t)
    BY <2>7, ScanFailsKeeps
  <2>8. CASE DepositsUnavailable(t)
    BY <2>8, DepositsUnavailableKeeps
  <2> QED
    BY <1>9, <2>1, <2>2, <2>3, <2>4, <2>5, <2>6, <2>7, <2>8 DEF Continue
<1>10. CASE Reload
  BY <1>10, ReloadKeeps
<1>11. CASE UNCHANGED vars
  <2>1. UNCHANGED <<log, position, served, notes, cursor, remembered, legacy, backup, task, overwritten,
                  misled, unread, ops, faults>>
    BY <1>11 DEF vars, chainVars, storeVars, ghostVars
  <2> QED
    BY <2>1 DEF WalletInv, ChainInv, StoreInv, KeptInv, CountInv, Kept, Markable
<1> QED
  BY <1>1, <1>2, <1>3, <1>4, <1>5, <1>6, <1>7, <1>8, <1>9, <1>10, <1>11, <1>12 DEF Next

\* The log, the store and everything a task carries between a read and the write
\* that follows it agree, whatever overlaps with what and whatever fails.
THEOREM WalletAgrees == Spec => []WalletInv
BY InitStarts, StepKeeps, PTL DEF Spec

LEMMA TypesFollow ==
    ASSUME WalletInv
    PROVE  WalletTypeOK
<1>1. /\ Leaves(Len(log)) = LeavesOf(log) /\ Ledger = LedgerOf(log)
  BY Views DEF WalletInv
<1>2. \A S \in {notes, legacy, backup} : /\ S \subseteq [id : LeavesOf(log), key : Key, spent : BOOLEAN]
                                         /\ \A m, n \in S : m.id = n.id => m = n
  BY DEF WalletInv, StoreInv, TrueNotes, TrueLegacy
<1>3. \A t \in Task : task[t].at \in Steps /\ task[t].marks \subseteq LeavesOf(log)
  BY TheTask DEF TaskTrue, Carries
<1>4. overwritten \cup misled \cup unread \subseteq LeavesOf(log)
  BY DEF WalletInv, StoreInv, MyLeaves
<1> QED
  BY <1>1, <1>2, <1>3, <1>4 DEF WalletInv, ChainInv, StoreInv, CountInv, WalletTypeOK, Steps

\* What is marked spent is spent on the chain, or was in a withdrawal that the relayer
\* left out of a batch and answered with a hash (relayer/src/index.ts:278); this though
\* marks are made from lists that are old by then and copied over others.
THEOREM SpentMarksHold == Spec => []SpentOnlyIfSpent
<1>1. WalletInv => SpentOnlyIfSpent
  BY Views DEF WalletInv, StoreInv, TrueNotes, SpentOnlyIfSpent
<1> QED
  BY <1>1, WalletAgrees, PTL

\* If only the wallet's own notes fund positions, every stored note names the key
\* that opens it, through change, receipts, adoption, backups and payouts; and what
\* is marked spent is as SpentMarksHold says.
THEOREM StoreIsTrue ==
    ASSUME Funders \subseteq {"me"}
    PROVE  Spec => []NotesAreTrue
<1>1. WalletInv => NotesAreTrue
  BY Views, TypesFollow
     DEF OwnFunder, WalletInv, StoreInv, TrueNotes, NotesAreTrue, NoteOpens, SpentOnlyIfSpent, LeafAt
<1> QED
  BY <1>1, WalletAgrees, PTL

\* The cursor never passes a payment that was not stored but one whose row could not
\* be read, though two scans overlap and each sets it from what it read.
THEOREM PaymentsAreKept == Spec => []ReceivedKept
<1>1. WalletInv => ReceivedKept
  <2>1. ASSUME WalletInv PROVE Received(log, cursor, Kept) /\ Leaves(Len(log)) = LeavesOf(log)
    BY <2>1, Views DEF WalletInv, KeptInv
  <2> QED
    BY <2>1 DEF Received, ReceivedKept, Kept, LeafAt
<1> QED
  BY <1>1, WalletAgrees, PTL

\* A note of the old key is never in neither store: theirs is deleted only once the
\* wallet's has them, and a reload between the two steps loses nothing.
THEOREM OldNotesAreKept == Spec => []LegacyKept
<1>1. WalletInv => LegacyKept
  <2> SUFFICES ASSUME WalletInv PROVE LegacyKept
    OBVIOUS
  <2>1. OldNotes(log) \subseteq Ids(legacy) \cup Kept /\ Leaves(Len(log)) = LeavesOf(log)
    BY Views DEF WalletInv, KeptInv
  <2>2. OldNotes(log) \cap unread = {}
    BY DEF WalletInv, StoreInv, MyLeaves, OldNotes
  <2> QED
    BY <2>1, <2>2 DEF OldNotes, LegacyKept, Kept, LeafAt
<1> QED
  BY <1>1, WalletAgrees, PTL

\* However the feed is written, no payment and no note of the old key goes missing but
\* by another write, or with a row that the wallet could not read when it came to it.
THEOREM NothingGoesMissing == Spec => []NotesAreKept
BY PaymentsAreKept, OldNotesAreKept, PTL DEF NotesAreKept

\* Whatever notes the wallet has come to hold, and others besides, it pays from the
\* tightest one or two that do, and can pay just what it shows as the most it can:
\* the choice is right for any amounts, and no amount is ever less than nothing.
THEOREM ChoiceIsRight == Spec => []SelectionIsTightest
<1>1. WalletInv => SelectionIsTightest
  <2>1. SUFFICES ASSUME WalletInv, NEW w \in Wallets
                 PROVE  Tightest(AmountsOf(Spendable("v3")) \o w)
    BY DEF SelectionIsTightest
  <2>2. AmountsOf(Spendable("v3")) \in Seq(Nat)
    BY <2>1, AmountsAreNotes DEF Spendable
  <2>3. w \in Seq(Nat)
    <3>1. PICK n \in 0 .. MaxNotes : w \in [1 .. n -> 0 .. MaxAmount]
      BY <2>1 DEF Wallets
    <3>2. n \in Nat /\ w \in [1 .. n -> Nat]
      BY <3>1, SelectionConstants
    <3> QED
      BY <3>2, SeqDef
  <2>4. AmountsOf(Spendable("v3")) \o w \in Seq(Nat)
    BY <2>2, <2>3, ConcatProperties
  <2> QED
    BY <2>4, SelectionIsRight
<1> QED
  BY <1>1, WalletAgrees, PTL
=============================================================================
