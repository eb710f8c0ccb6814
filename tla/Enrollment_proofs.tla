--------------------------- MODULE Enrollment_proofs --------------------------
(***************************************************************************)
(* The enrollment mirror, for any leaves, cap and faults, in either store: *)
(* its rows are where the contract has the leaves, what it lacks is        *)
(* accounted for, and what it serves is a prefix of the contract's list.   *)
(*                                                                         *)
(* Rows that match the chain match it for good, because the contract only  *)
(* appends.  Rows nobody has checked yet came from a list, so they have no *)
(* hole; the start-up check compares that list with the contract's leaf by *)
(* leaf, and equal numbers of rows that match leave no hole either.        *)
(***************************************************************************)
EXTENDS Enrollment, FiniteSetTheorems, SequenceTheorems, TLAPS

\* The rows of a list's first n leaves, and of all of it.
FirstRows(list, n) == {<<k - 1, list[k]>> : k \in 1 .. n}
Rows(list) == FirstRows(list, Len(list))

\* The rows are where the contract has their leaves.
Matching(rows) == \A r \in rows : r[1] < Len(onchain) /\ onchain[r[1] + 1] = r[2]

\* Or they are a list's, before anybody looked.
RowsKnown ==
    \/ Matching(mirror \cup file)
    \/ service # "enabled" /\ \E list \in Seq(Leaf) : mirror = Rows(list)

\* Until the service is enabled nothing is served and the store is the file's.
AtRest == service # "enabled" => queue = <<>> /\ mirror = file

\* The check: the mirror is the list it goes through, the leaves up to the next are
\* where the contract has them, and the contract has got only leaves since that the
\* service was not told of.
CheckSound ==
    service = "boot" /\ check # NoCheck =>
        /\ check.next \in 1 .. Len(check.leaves) + 1
        /\ mirror = Rows(check.leaves)
        /\ Len(check.leaves) <= Len(onchain)
        /\ \A k \in 1 .. check.next - 1 : onchain[k] = check.leaves[k]
        /\ \A k \in 1 .. Len(onchain) : k > Len(check.leaves) => onchain[k] \in unrecorded

\* The leaf being enrolled, once it is in the contract: the file store has its row,
\* and if the mirror lacks it, it was not told of it, or has only earlier ones.
JobSound ==
    job \in {"index", "flush"} =>
        /\ Current \in Members
        /\ job = "flush" /\ backend = "file" => Stored(Current)
        /\ \/ Stored(Current) \/ Current \in unrecorded
           \/ \A k \in 1 .. Len(onchain) : onchain[k] = Current => \A r \in mirror : r[1] < k - 1

EnrollmentInv ==
    /\ EnrollmentTypeOK /\ HolesAreAccounted
    /\ IsFiniteSet(mirror) /\ IsFiniteSet(file)
    /\ RowsKnown /\ AtRest /\ CheckSound /\ JobSound
    /\ late \subseteq unrecorded


-----------------------------------------------------------------------------
(* The operators.                                                          *)

\* A leaf's index is where it is, as no leaf is there twice.
LEMMA IndexFacts ==
    ASSUME EnrollmentTypeOK
    PROVE  /\ Len(onchain) \in Nat
           /\ \A k \in 1 .. Len(onchain) : onchain[k] \in Leaf /\ onchain[k] \in Members
           /\ \A j, k \in 1 .. Len(onchain) : onchain[j] = onchain[k] => j = k
           /\ \A leaf \in Members : leaf \in Leaf /\ \E k \in 1 .. Len(onchain) :
                  onchain[k] = leaf /\ IndexOf(leaf) = k - 1
<1>1. onchain \in Seq(Leaf) /\ IsInjective(onchain)
  BY DEF EnrollmentTypeOK
<1>2. /\ Len(onchain) \in Nat /\ DOMAIN onchain = 1 .. Len(onchain)
      /\ \A k \in 1 .. Len(onchain) : onchain[k] \in Leaf
  BY <1>1, LenProperties, ElementOfSeq
<1>3. \A j, k \in 1 .. Len(onchain) : onchain[j] = onchain[k] => j = k
  BY <1>1, <1>2 DEF IsInjective
<1>4. Members = {onchain[k] : k \in 1 .. Len(onchain)}
  BY <1>2 DEF Members, ToSet
<1>5. ASSUME NEW leaf \in Members
      PROVE  \E k \in 1 .. Len(onchain) : onchain[k] = leaf /\ IndexOf(leaf) = k - 1
  <2>1. PICK k \in 1 .. Len(onchain) : onchain[k] = leaf
    BY <1>4
  <2>2. (CHOOSE i \in 1 .. Len(onchain) : onchain[i] = leaf) = k
    BY <1>3, <2>1
  <2> QED
    BY <2>1, <2>2 DEF IndexOf
<1> QED
  BY <1>2, <1>3, <1>4, <1>5

\* The first rows of a list are as many.
LEMMA FirstRowsCount ==
    ASSUME NEW list, NEW n \in Nat
    PROVE  IsFiniteSet(FirstRows(list, n)) /\ Cardinality(FirstRows(list, n)) = n
<1> DEFINE row == [k \in 1 .. n |-> <<k - 1, list[k]>>]
<1>1. row \in Bijection(1 .. n, FirstRows(list, n))
  <2>1. row \in [1 .. n -> FirstRows(list, n)]
    BY DEF FirstRows
  <2>2. \A j, k \in 1 .. n : row[j] = row[k] => j = k
    OBVIOUS
  <2>3. \A s \in FirstRows(list, n) : \E k \in 1 .. n : row[k] = s
    BY DEF FirstRows
  <2>4. row \in Injection(1 .. n, FirstRows(list, n))
    BY <2>1, <2>2 DEF Injection, IsInjective
  <2>5. row \in Surjection(1 .. n, FirstRows(list, n))
    BY <2>1, <2>3 DEF Surjection
  <2> QED
    BY <2>4, <2>5 DEF Bijection
<1>2. ExistsBijection(1 .. n, FirstRows(list, n))
  BY <1>1 DEF ExistsBijection
<1>3. Cardinality(FirstRows(list, n)) = n
  BY <1>2, FS_CountingElements
<1>4. IsFiniteSet(FirstRows(list, n))
  BY <1>2, FS_NatBijection
<1> QED
  BY <1>3, <1>4

\* A mirror without holes serves the list its rows are of.
LEMMA LeavesOfRows ==
    ASSUME NEW list \in Seq(Leaf), NEW n \in 0 .. Len(list), mirror = FirstRows(list, n)
    PROVE  /\ GetLeaves \in Seq(Leaf) /\ Len(GetLeaves) = n
           /\ \A k \in 1 .. n : GetLeaves[k] = list[k]
           /\ n = Len(list) => GetLeaves = list
<1> DEFINE Before(r) == {s \in mirror : s[1] < r[1]}
           At(k) == CHOOSE r \in mirror : Cardinality(Before(r)) = k - 1
<1>1. /\ Len(list) \in Nat /\ n \in Nat /\ list = [k \in 1 .. Len(list) |-> list[k]]
      /\ \A k \in 1 .. n : list[k] \in Leaf
  BY LenProperties, ElementOfSeq
<1>2. Cardinality(mirror) = n
  BY <1>1, FirstRowsCount
<1>3. ASSUME NEW k \in 1 .. n
      PROVE  <<k - 1, list[k]>> \in mirror /\ Cardinality(Before(<<k - 1, list[k]>>)) = k - 1
  <2>1. Before(<<k - 1, list[k]>>) = FirstRows(list, k - 1)
    <3>1. \A s \in Before(<<k - 1, list[k]>>) : s \in FirstRows(list, k - 1)
      <4> SUFFICES ASSUME NEW s \in mirror, s[1] < k - 1 PROVE s \in FirstRows(list, k - 1)
        OBVIOUS
      <4>1. PICK j \in 1 .. n : s = <<j - 1, list[j]>>
        BY DEF FirstRows
      <4>2. j \in 1 .. k - 1
        BY <1>1, <4>1
      <4> QED
        BY <4>1, <4>2 DEF FirstRows
    <3>2. \A s \in FirstRows(list, k - 1) : s \in Before(<<k - 1, list[k]>>)
      <4> SUFFICES ASSUME NEW j \in 1 .. k - 1
                   PROVE  <<j - 1, list[j]>> \in mirror /\ j - 1 < k - 1
        BY DEF FirstRows
      <4>1. j \in 1 .. n
        BY <1>1
      <4> QED
        BY <4>1 DEF FirstRows
    <3> QED
      BY <3>1, <3>2
  <2>2. Cardinality(FirstRows(list, k - 1)) = k - 1
    BY <1>1, FirstRowsCount
  <2> QED
    BY <2>1, <2>2 DEF FirstRows
<1>4. ASSUME NEW k \in 1 .. n PROVE At(k) = <<k - 1, list[k]>>
  <2>1. ASSUME NEW s \in mirror, Cardinality(Before(s)) = k - 1 PROVE s = <<k - 1, list[k]>>
    <3>1. PICK j \in 1 .. n : s = <<j - 1, list[j]>>
      BY DEF FirstRows
    <3>2. j - 1 = k - 1
      BY <1>3, <2>1, <3>1
    <3> QED
      BY <1>1, <3>1, <3>2
  <2>2. \E s \in mirror : Cardinality(Before(s)) = k - 1
    BY <1>3
  <2> HIDE DEF Before
  <2>3. At(k) \in mirror /\ Cardinality(Before(At(k))) = k - 1
    BY <2>2
  <2> QED
    BY <2>1, <2>3
<1>5. GetLeaves = [k \in 1 .. Cardinality(mirror) |-> At(k)[2]]
  BY DEF GetLeaves
<1> HIDE DEF At
<1>6. GetLeaves = [k \in 1 .. n |-> list[k]]
  BY <1>2, <1>4, <1>5
<1>7. \A k \in 1 .. n : GetLeaves[k] = list[k] /\ list[k] \in Leaf
  BY <1>1, <1>6
<1>8. GetLeaves \in [1 .. n -> Leaf]
  BY <1>1, <1>6
<1>9. n = Len(list) => GetLeaves = list
  BY <1>1, <1>6
<1>10. GetLeaves \in Seq(Leaf) /\ Len(GetLeaves) = n
  <2>1. Seq(Leaf) = UNION {[1 .. m -> Leaf] : m \in Nat}
    BY SeqDef, Zenon
  <2>2. GetLeaves \in Seq(Leaf) /\ DOMAIN GetLeaves = 1 .. n
    BY <1>1, <1>8, <2>1
  <2> QED
    BY <1>1, <2>2, LenProperties
<1> QED
  BY <1>7, <1>9, <1>10

\* A mirror that is the beginning of the contract's list serves a prefix of it.
LEMMA ServesPrefix ==
    ASSUME EnrollmentTypeOK, NEW n \in 0 .. Len(onchain), mirror = FirstRows(onchain, n)
    PROVE  IsPrefix(GetLeaves, onchain)
<1>1. onchain \in Seq(Leaf) /\ Len(onchain) \in Nat
  BY IndexFacts DEF EnrollmentTypeOK
<1>2. /\ GetLeaves \in Seq(Leaf) /\ Len(GetLeaves) = n
      /\ \A k \in 1 .. n : GetLeaves[k] = onchain[k]
  BY <1>1, LeavesOfRows
<1>3. SubSeq(GetLeaves, 1, n) = [k \in 1 .. n |-> GetLeaves[k]]
  BY <1>1, <1>2
<1>4. SubSeq(onchain, 1, n) = [k \in 1 .. n |-> onchain[k]]
  BY <1>1, <1>2
<1>5. n <= Len(onchain)
  BY <1>1
<1> QED
  BY <1>2, <1>3, <1>4, <1>5 DEF IsPrefix

\* Setting the row of a leaf that the contract has adds it, as rows that match have
\* no other there.
LEMMA RowIsAdded ==
    ASSUME EnrollmentTypeOK, NEW rows \in SUBSET Row, IsFiniteSet(rows), Matching(rows),
           NEW leaf \in Members
    PROVE  /\ WithRow(rows, leaf) = rows \cup {<<IndexOf(leaf), leaf>>}
           /\ IndexOf(leaf) \in Nat /\ leaf \in Leaf
           /\ WithRow(rows, leaf) \subseteq Row /\ IsFiniteSet(WithRow(rows, leaf))
           /\ Matching(WithRow(rows, leaf))
<1>1. PICK k \in 1 .. Len(onchain) : onchain[k] = leaf /\ IndexOf(leaf) = k - 1
  BY IndexFacts
<1>2. leaf \in Leaf /\ Len(onchain) \in Nat
  BY IndexFacts
<1>3. IndexOf(leaf) \in Nat
  BY <1>1, <1>2
<1>4. \A r \in rows : r[1] = IndexOf(leaf) => r = <<IndexOf(leaf), leaf>>
  BY <1>1, <1>2 DEF Matching, Row
<1>5. WithRow(rows, leaf) = rows \cup {<<IndexOf(leaf), leaf>>}
  BY <1>4 DEF WithRow
<1>6. IsFiniteSet(rows \cup {<<IndexOf(leaf), leaf>>})
  BY FS_AddElement
<1>7. Matching(rows \cup {<<IndexOf(leaf), leaf>>})
  BY <1>1, <1>2 DEF Matching
<1> QED
  BY <1>2, <1>3, <1>5, <1>6, <1>7 DEF Row

\* The contract gets a leaf: all that was there stays where it is.
LEMMA ChainGrows ==
    ASSUME EnrollmentTypeOK, NEW leaf \in Leaf, InsertLeaf(leaf)
    PROVE  /\ onchain' \in Seq(Leaf) /\ IsInjective(onchain') /\ Len(onchain') = Len(onchain) + 1
           /\ \A k \in 1 .. Len(onchain) : onchain'[k] = onchain[k]
           /\ onchain'[Len(onchain) + 1] = leaf /\ Members' = Members \cup {leaf}
           /\ \A rows \in SUBSET Row : Matching(rows) => Matching(rows)'
<1>1. onchain \in Seq(Leaf) /\ leaf \notin Members /\ onchain' = Append(onchain, leaf)
  BY DEF EnrollmentTypeOK, InsertLeaf
<1>2. /\ onchain' \in Seq(Leaf) /\ Len(onchain') = Len(onchain) + 1
      /\ \A k \in 1 .. Len(onchain) : onchain'[k] = onchain[k]
      /\ onchain'[Len(onchain) + 1] = leaf
  BY <1>1, AppendProperties
<1>3. /\ Len(onchain) \in Nat /\ DOMAIN onchain' = 1 .. Len(onchain) + 1
      /\ 1 .. Len(onchain) + 1 = 1 .. Len(onchain) \cup {Len(onchain) + 1}
  BY <1>2, IndexFacts, LenProperties
<1>4. /\ \A k \in 1 .. Len(onchain) : onchain[k] \in Members
      /\ \A j, k \in 1 .. Len(onchain) : onchain[j] = onchain[k] => j = k
      /\ \A x \in Members : \E k \in 1 .. Len(onchain) : onchain[k] = x
  BY IndexFacts
<1>5. IsInjective(onchain')
  BY <1>1, <1>2, <1>3, <1>4 DEF IsInjective
<1>6. Members' = {onchain'[k] : k \in 1 .. Len(onchain) + 1}
  BY <1>3 DEF Members, ToSet
<1>7. Members' = Members \cup {leaf}
  <2>1. \A x \in Members' : x \in Members \cup {leaf}
    BY <1>2, <1>3, <1>4, <1>6
  <2>2. \A x \in Members \cup {leaf} : x \in Members'
    BY <1>2, <1>3, <1>4, <1>6
  <2> QED
    BY <2>1, <2>2
<1>8. ASSUME NEW rows \in SUBSET Row, Matching(rows) PROVE Matching(rows)'
  <2> SUFFICES ASSUME NEW r \in rows PROVE r[1] < Len(onchain') /\ onchain'[r[1] + 1] = r[2]
    BY DEF Matching
  <2>1. r[1] \in Nat /\ r[1] < Len(onchain) /\ onchain[r[1] + 1] = r[2]
    BY <1>8 DEF Matching, Row
  <2>2. r[1] + 1 \in 1 .. Len(onchain)
    BY <1>3, <2>1
  <2> QED
    BY <1>2, <1>3, <2>1, <2>2
<1> QED
  BY <1>2, <1>5, <1>7, <1>8

\* A function on 1 .. n is that long.
LEMMA LenOfFunction ==
    ASSUME NEW n \in Nat, NEW f, f = [i \in 1 .. n |-> f[i]]
    PROVE  Len(f) = n
<1> DEFINE S == {f[i] : i \in 1 .. n}
<1>1. f \in [1 .. n -> S] /\ DOMAIN f = 1 .. n
  OBVIOUS
<1> HIDE DEF S
<1>2. Seq(S) = UNION {[1 .. m -> S] : m \in Nat}
  BY SeqDef, Zenon
<1>3. f \in Seq(S)
  BY <1>1, <1>2
<1> QED
  BY <1>1, <1>3, LenProperties

\* As many rows as leaves, where the contract has them: all of its leaves.
LEMMA AllRows ==
    ASSUME EnrollmentTypeOK, IsFiniteSet(mirror), Matching(mirror),
           Cardinality(mirror) = Len(onchain)
    PROVE  mirror = Rows(onchain)
<1>1. Len(onchain) \in Nat /\ mirror \subseteq Row
  BY IndexFacts DEF EnrollmentTypeOK
<1>2. \A r \in mirror : r \in Rows(onchain)
  <2> SUFFICES ASSUME NEW r \in mirror PROVE r \in Rows(onchain)
    OBVIOUS
  <2>1. r[1] \in Nat /\ r = <<r[1], r[2]>>
    BY <1>1 DEF Row
  <2>2. r[1] < Len(onchain) /\ onchain[r[1] + 1] = r[2]
    BY DEF Matching
  <2>3. PICK k \in 1 .. Len(onchain) : k = r[1] + 1
    BY <1>1, <2>1, <2>2
  <2>4. r = <<k - 1, onchain[k]>>
    BY <2>1, <2>2, <2>3
  <2> QED
    BY <2>4 DEF Rows, FirstRows
<1>3. IsFiniteSet(Rows(onchain)) /\ Cardinality(Rows(onchain)) = Len(onchain)
  BY <1>1, FirstRowsCount DEF Rows
<1> QED
  BY <1>2, <1>3, FS_Subset

-----------------------------------------------------------------------------
(* The chain grows.                                                        *)

\* A new leaf the service will not be told of, or is serving.
LEMMA InsertKeeps ==
    ASSUME EnrollmentInv, NEW leaf \in Leaf, InsertLeaf(leaf),
           UNCHANGED <<storeVars, queue, service, check>>, unrecorded \subseteq unrecorded',
           service # "enabled" => leaf \in unrecorded'
    PROVE  /\ IsFiniteSet(mirror') /\ IsFiniteSet(file')
           /\ RowsKnown' /\ AtRest' /\ CheckSound'
<1>1. /\ EnrollmentTypeOK /\ RowsKnown /\ AtRest /\ CheckSound
      /\ IsFiniteSet(mirror) /\ IsFiniteSet(file)
  BY DEF EnrollmentInv
<1>2. backend' = backend /\ mirror' = mirror /\ file' = file /\ check' = check /\ service' = service
  BY DEF storeVars
<1>3. mirror \cup file \in SUBSET Row /\ check.leaves \in Seq(Leaf) /\ check.next \in Nat
  BY <1>1 DEF EnrollmentTypeOK
<1>4. /\ Len(onchain') = Len(onchain) + 1 /\ onchain'[Len(onchain) + 1] = leaf
      /\ \A k \in 1 .. Len(onchain) : onchain'[k] = onchain[k]
      /\ \A rows \in SUBSET Row : Matching(rows) => Matching(rows)'
  BY <1>1, ChainGrows
<1>5. Len(onchain) \in Nat /\ Len(check.leaves) \in Nat
  BY <1>1, <1>3, IndexFacts, LenProperties
<1>6. RowsKnown'
  <2>1. CASE Matching(mirror \cup file)
    <3>1. PICK rows : rows = mirror \cup file
      OBVIOUS
    <3>2. Matching(rows)'
      BY <1>3, <1>4, <2>1, <3>1
    <3>3. Matching(mirror \cup file)'
      BY <1>2, <3>1, <3>2 DEF Matching
    <3> QED
      BY <3>3 DEF RowsKnown
  <2>2. CASE service # "enabled" /\ \E list \in Seq(Leaf) : mirror = Rows(list)
    BY <1>2, <2>2 DEF RowsKnown
  <2> QED
    BY <1>1, <2>1, <2>2 DEF RowsKnown
<1>7. AtRest'
  BY <1>1, <1>2 DEF AtRest
<1>8. CheckSound'
  <2> SUFFICES ASSUME service = "boot", check # NoCheck
               PROVE  /\ check.next \in 1 .. Len(check.leaves) + 1
                      /\ mirror = Rows(check.leaves)
                      /\ Len(check.leaves) <= Len(onchain')
                      /\ \A k \in 1 .. check.next - 1 : onchain'[k] = check.leaves[k]
                      /\ \A k \in 1 .. Len(onchain') : k > Len(check.leaves) => onchain'[k] \in unrecorded'
    BY <1>2 DEF CheckSound
  <2>1. /\ check.next \in 1 .. Len(check.leaves) + 1
        /\ mirror = Rows(check.leaves)
        /\ Len(check.leaves) <= Len(onchain)
        /\ \A k \in 1 .. check.next - 1 : onchain[k] = check.leaves[k]
        /\ \A k \in 1 .. Len(onchain) : k > Len(check.leaves) => onchain[k] \in unrecorded
    BY <1>1 DEF CheckSound
  <2>2. \A k \in 1 .. check.next - 1 : k \in 1 .. Len(onchain)
    BY <1>3, <1>5, <2>1
  <2>3. \A k \in 1 .. check.next - 1 : onchain'[k] = check.leaves[k]
    BY <1>4, <2>1, <2>2
  <2>4. ASSUME NEW k \in 1 .. Len(onchain'), k > Len(check.leaves) PROVE onchain'[k] \in unrecorded'
    <3>1. CASE k \in 1 .. Len(onchain)
      BY <1>4, <2>1, <2>4, <3>1
    <3>2. CASE k = Len(onchain) + 1
      BY <1>4, <3>2
    <3> QED
      BY <1>4, <1>5, <3>1, <3>2
  <2>5. Len(check.leaves) <= Len(onchain')
    BY <1>4, <1>5, <2>1
  <2> QED
    BY <2>1, <2>3, <2>4, <2>5
<1> QED
  BY <1>1, <1>2, <1>6, <1>7, <1>8

\* One the service is not told of, by the operator's script or a late insertion.
LEMMA UntoldInsertKeeps ==
    ASSUME EnrollmentInv, NEW leaf \in Leaf, InsertLeaf(leaf),
           UNCHANGED <<storeVars, queue, job, service, check>>,
           unrecorded \subseteq unrecorded', leaf \in unrecorded', unrecorded' \subseteq Leaf,
           late' \subseteq late, faults' \in 0 .. MaxFaults
    PROVE  EnrollmentInv'
<1>1. EnrollmentTypeOK /\ HolesAreAccounted /\ JobSound /\ late \subseteq unrecorded
  BY DEF EnrollmentInv
<1>2. /\ onchain' \in Seq(Leaf) /\ IsInjective(onchain') /\ Members' = Members \cup {leaf}
      /\ Len(onchain') = Len(onchain) + 1 /\ onchain'[Len(onchain) + 1] = leaf
      /\ \A k \in 1 .. Len(onchain) : onchain'[k] = onchain[k]
  BY <1>1, ChainGrows
<1>3. /\ IsFiniteSet(mirror') /\ IsFiniteSet(file')
      /\ RowsKnown' /\ AtRest' /\ CheckSound'
  BY InsertKeeps
<1>4. /\ backend' = backend /\ mirror' = mirror /\ file' = file /\ check' = check
      /\ service' = service /\ queue' = queue /\ job' = job
  BY DEF storeVars
<1>5. EnrollmentTypeOK'
  BY <1>1, <1>2, <1>4 DEF EnrollmentTypeOK
<1>6. HolesAreAccounted'
  BY <1>1, <1>2, <1>4 DEF HolesAreAccounted, Stored, Current
<1>7. JobSound'
  <2> SUFFICES ASSUME job \in {"index", "flush"}
               PROVE  /\ Current \in Members'
                      /\ job = "flush" /\ backend = "file" => Stored(Current)
                      /\ \/ Stored(Current) \/ Current \in unrecorded'
                         \/ \A k \in 1 .. Len(onchain') :
                                onchain'[k] = Current => \A r \in mirror : r[1] < k - 1
    BY <1>4 DEF JobSound, Current, Stored
  <2>1. /\ Current \in Members
        /\ job = "flush" /\ backend = "file" => Stored(Current)
        /\ \/ Stored(Current) \/ Current \in unrecorded
           \/ \A k \in 1 .. Len(onchain) :
                  onchain[k] = Current => \A r \in mirror : r[1] < k - 1
    BY <1>1 DEF JobSound
  <2>2. CASE \A k \in 1 .. Len(onchain) :
                 onchain[k] = Current => \A r \in mirror : r[1] < k - 1
    <3>1. Current # leaf
      BY <2>1 DEF InsertLeaf
    <3>2. Len(onchain) \in Nat
      BY <1>1, IndexFacts
    <3>3. ASSUME NEW k \in 1 .. Len(onchain'), onchain'[k] = Current
          PROVE  \A r \in mirror : r[1] < k - 1
      <4>1. k # Len(onchain) + 1
        BY <1>2, <3>1, <3>3
      <4>2. k \in 1 .. Len(onchain)
        BY <1>2, <3>2, <4>1
      <4> QED
        BY <1>2, <2>2, <3>3, <4>2
    <3> QED
      BY <1>2, <2>1, <3>3
  <2> QED
    BY <1>2, <2>1, <2>2
<1>8. late' \subseteq unrecorded'
  BY <1>1
<1> QED
  BY <1>3, <1>5, <1>6, <1>7, <1>8 DEF EnrollmentInv

LEMMA ChainMoves ==
    ASSUME EnrollmentInv, OperatorInserts \/ LateOutcome
    PROVE  EnrollmentInv'
<1>1. /\ late \subseteq Leaf /\ unrecorded \subseteq Leaf /\ faults \in 0 .. MaxFaults
      /\ late \subseteq unrecorded
  BY DEF EnrollmentInv, EnrollmentTypeOK
<1>2. CASE OperatorInserts
  <2>1. PICK leaf \in Leaf : InsertLeaf(leaf) /\ unrecorded' = unrecorded \cup {leaf}
    BY <1>2 DEF OperatorInserts
  <2>2. UNCHANGED <<storeVars, queue, job, service, check>> /\ late' = late
    BY <1>2 DEF OperatorInserts
  <2>3. faults' \in 0 .. MaxFaults
    BY <1>1, <1>2, EnrollmentConstants DEF OperatorInserts, Fault
  <2>4. unrecorded \subseteq unrecorded' /\ leaf \in unrecorded' /\ unrecorded' \subseteq Leaf
    BY <1>1, <2>1
  <2> QED
    BY <2>1, <2>2, <2>3, <2>4, UntoldInsertKeeps
<1>3. CASE LateOutcome
  <2>1. PICK leaf \in late : late' = late \ {leaf} /\ (InsertLeaf(leaf) \/ UNCHANGED onchain)
    BY <1>3 DEF LateOutcome
  <2>2. UNCHANGED <<storeVars, queue, job, service, check, unrecorded, faults>>
    BY <1>3 DEF LateOutcome
  <2>3. CASE InsertLeaf(leaf)
    <3>1. leaf \in Leaf /\ leaf \in unrecorded' /\ unrecorded' = unrecorded /\ faults' = faults
      BY <1>1, <2>1, <2>2
    <3>2. late' \subseteq late
      BY <2>1
    <3>3. UNCHANGED <<storeVars, queue, job, service, check>>
      BY <2>2
    <3> QED
      BY <1>1, <2>3, <3>1, <3>2, <3>3, UntoldInsertKeeps
  <2>4. CASE UNCHANGED onchain
    <3>1. late' \subseteq late
      BY <2>1
    <3> QED
      BY <2>2, <2>4, <3>1 DEF EnrollmentInv, EnrollmentTypeOK, HolesAreAccounted, RowsKnown, AtRest,
         CheckSound, JobSound, storeVars, Matching, Members, Stored, Current
  <2> QED
    BY <2>1, <2>3, <2>4
<1> QED
  BY <1>2, <1>3

-----------------------------------------------------------------------------
(* Startup.                                                                *)

\* Before the service is enabled only its state and the check's change.
LEMMA BootKeeps ==
    ASSUME EnrollmentInv, service = "boot",
           service' \in {"boot", "enabled", "disabled"},
           check' \in [leaves : Seq(Leaf), next : Nat], faults' \in 0 .. MaxFaults,
           UNCHANGED <<onchain, storeVars, queue, job, late, unrecorded>>,
           HolesAreAccounted', RowsKnown', CheckSound'
    PROVE  EnrollmentInv'
<1>1. EnrollmentTypeOK /\ AtRest /\ IsFiniteSet(mirror) /\ IsFiniteSet(file)
      /\ late \subseteq unrecorded
  BY DEF EnrollmentInv
<1>2. queue = <<>> /\ mirror = file /\ job = "start"
  BY <1>1 DEF AtRest, EnrollmentTypeOK
<1>3. EnrollmentTypeOK'
  BY <1>1 DEF EnrollmentTypeOK, storeVars
<1>4. AtRest' /\ JobSound'
  BY <1>2 DEF AtRest, JobSound, storeVars
<1> QED
  BY <1>1, <1>3, <1>4 DEF EnrollmentInv, storeVars

\* The check is given up, or was never begun.
LEMMA GivingUpKeeps ==
    ASSUME EnrollmentInv, service = "boot", service' = "disabled",
           check' \in [leaves : Seq(Leaf), next : Nat], faults' \in 0 .. MaxFaults,
           UNCHANGED <<onchain, storeVars, queue, job, late, unrecorded>>
    PROVE  EnrollmentInv'
<1>1. RowsKnown
  BY DEF EnrollmentInv
<1>2. RowsKnown'
  BY <1>1 DEF RowsKnown, Matching, storeVars
<1>3. HolesAreAccounted' /\ CheckSound'
  BY DEF HolesAreAccounted, CheckSound
<1> QED
  BY <1>2, <1>3, BootKeeps

\* What the service reads of the mirror is the list its rows are of.
LEMMA ListIsRead ==
    ASSUME EnrollmentInv, service = "boot", Len(GetLeaves) = Len(onchain)
    PROVE  GetLeaves \in Seq(Leaf) /\ mirror = Rows(GetLeaves)
<1>1. EnrollmentTypeOK /\ RowsKnown /\ IsFiniteSet(mirror)
  BY DEF EnrollmentInv
<1>2. onchain \in Seq(Leaf) /\ Len(onchain) \in Nat
  BY <1>1, IndexFacts DEF EnrollmentTypeOK
<1>3. CASE Matching(mirror \cup file)
  <2>1. Cardinality(mirror) \in Nat
    BY <1>1, FS_CardinalityType
  <2>2. GetLeaves = [n \in 1 .. Cardinality(mirror) |-> GetLeaves[n]]
    BY DEF GetLeaves
  <2>3. Cardinality(mirror) = Len(onchain)
    BY <2>1, <2>2, LenOfFunction
  <2>4. Matching(mirror)
    BY <1>3 DEF Matching
  <2>5. mirror = Rows(onchain)
    BY <1>1, <2>3, <2>4, AllRows
  <2>6. GetLeaves = onchain
    BY <1>2, <2>5, LeavesOfRows DEF Rows
  <2> QED
    BY <1>2, <2>5, <2>6
<1>4. CASE \E list \in Seq(Leaf) : mirror = Rows(list)
  <2>1. PICK list \in Seq(Leaf) : mirror = Rows(list)
    BY <1>4
  <2>2. Len(list) \in 0 .. Len(list) /\ mirror = FirstRows(list, Len(list))
    BY <2>1, LenProperties DEF Rows
  <2>3. GetLeaves = list
    BY <2>2, LeavesOfRows
  <2> QED
    BY <2>1, <2>3
<1> QED
  BY <1>1, <1>3, <1>4 DEF RowsKnown

LEMMA ReadLeafCountKeeps == EnrollmentInv /\ ReadLeafCount => EnrollmentInv'
<1> SUFFICES ASSUME EnrollmentInv, ReadLeafCount PROVE EnrollmentInv'
  OBVIOUS
<1>1. /\ service = "boot" /\ check = NoCheck
      /\ UNCHANGED <<onchain, storeVars, queue, job, late, unrecorded>>
  BY DEF ReadLeafCount
<1>2. EnrollmentTypeOK /\ RowsKnown /\ check \in [leaves : Seq(Leaf), next : Nat] /\ faults \in 0 .. MaxFaults
  BY DEF EnrollmentInv, EnrollmentTypeOK
<1>3. CASE Len(GetLeaves) = Len(onchain) /\ check' = [leaves |-> GetLeaves, next |-> 1]
           /\ UNCHANGED <<service, faults>>
  <2>1. GetLeaves \in Seq(Leaf) /\ mirror = Rows(GetLeaves)
    BY <1>1, <1>3, ListIsRead
  <2>2. PICK list \in Seq(Leaf) : list = GetLeaves
    BY <2>1
  <2>3. check' = [leaves |-> list, next |-> 1]
    BY <1>3, <2>2
  <2>4. Len(list) \in Nat /\ Len(list) = Len(onchain) /\ mirror = Rows(list)
    BY <1>3, <2>1, <2>2, LenProperties
  <2>5. check'.leaves = list /\ check'.next = 1 /\ check' \in [leaves : Seq(Leaf), next : Nat]
    BY <2>3
  <2>6. onchain' = onchain /\ mirror' = mirror
    BY <1>1 DEF storeVars
  <2>7. CheckSound'
    BY <2>4, <2>5, <2>6 DEF CheckSound
  <2>8. RowsKnown'
    BY <1>1, <1>2, <1>3 DEF RowsKnown, Matching, storeVars
  <2>9. HolesAreAccounted'
    BY <1>1, <1>3 DEF HolesAreAccounted
  <2> QED
    BY <1>1, <1>2, <1>3, <2>5, <2>7, <2>8, <2>9, BootKeeps
<1>4. CASE service' = "disabled" /\ UNCHANGED check /\ (Fault \/ UNCHANGED faults)
  <2>1. faults' \in 0 .. MaxFaults
    BY <1>2, <1>4, EnrollmentConstants DEF Fault
  <2>2. check' \in [leaves : Seq(Leaf), next : Nat]
    BY <1>2, <1>4
  <2> QED
    BY <1>1, <1>4, <2>1, <2>2, GivingUpKeeps
<1> QED
  BY <1>3, <1>4 DEF ReadLeafCount

\* The check is going on when there is a leaf to check, or none is left.
LEMMA CheckGoesOn ==
    ASSUME EnrollmentInv, service = "boot", check.next \in 1 .. Len(check.leaves) + 1
    PROVE  /\ check # NoCheck /\ check.leaves \in Seq(Leaf) /\ Len(check.leaves) \in Nat
           /\ mirror = Rows(check.leaves) /\ Len(check.leaves) <= Len(onchain)
           /\ \A k \in 1 .. check.next - 1 : onchain[k] = check.leaves[k]
           /\ \A k \in 1 .. Len(onchain) : k > Len(check.leaves) => onchain[k] \in unrecorded
<1>1. check \in [leaves : Seq(Leaf), next : Nat] /\ CheckSound
  BY DEF EnrollmentInv, EnrollmentTypeOK
<1>2. check.leaves \in Seq(Leaf) /\ Len(check.leaves) \in Nat
  BY <1>1, LenProperties
<1>3. check # NoCheck
  <2>1. check.next # 0
    BY <1>2
  <2> QED
    BY <2>1 DEF NoCheck
<1> QED
  BY <1>1, <1>2, <1>3 DEF CheckSound

LEMMA CheckLeafKeeps == EnrollmentInv /\ CheckLeaf => EnrollmentInv'
<1> SUFFICES ASSUME EnrollmentInv, CheckLeaf PROVE EnrollmentInv'
  OBVIOUS
<1>1. /\ service = "boot" /\ check.next \in 1 .. Len(check.leaves)
      /\ UNCHANGED <<onchain, storeVars, queue, job, late, unrecorded, faults>>
  BY DEF CheckLeaf
<1>2. /\ EnrollmentTypeOK /\ RowsKnown /\ faults \in 0 .. MaxFaults
      /\ check \in [leaves : Seq(Leaf), next : Nat]
  BY DEF EnrollmentInv, EnrollmentTypeOK
<1>3. PICK list \in Seq(Leaf), n \in Nat : list = check.leaves /\ n = check.next
  BY <1>2
<1>4. /\ check # NoCheck /\ Len(list) \in Nat /\ n \in 1 .. Len(list)
      /\ mirror = Rows(list) /\ Len(list) <= Len(onchain)
      /\ \A k \in 1 .. n - 1 : onchain[k] = list[k]
      /\ \A k \in 1 .. Len(onchain) : k > Len(list) => onchain[k] \in unrecorded
  <2>1. Len(list) \in Nat /\ n \in 1 .. Len(list) /\ n \in 1 .. Len(list) + 1
    BY <1>1, <1>3, LenProperties
  <2> QED
    BY <1>1, <1>3, <2>1, CheckGoesOn
<1>5. CASE /\ list[n] \in Members /\ IndexOf(list[n]) = n - 1
           /\ check' = [check EXCEPT !.next = @ + 1] /\ UNCHANGED service
  <2>1. check' = [leaves |-> list, next |-> n + 1]
    BY <1>2, <1>3, <1>5
  <2>2. check'.leaves = list /\ check'.next = n + 1 /\ check' \in [leaves : Seq(Leaf), next : Nat]
    BY <2>1
  <2>3. onchain[n] = list[n]
    <3>1. PICK k \in 1 .. Len(onchain) : onchain[k] = list[n] /\ IndexOf(list[n]) = k - 1
      BY <1>2, <1>5, IndexFacts
    <3>2. k = n
      BY <1>5, <3>1
    <3> QED
      BY <3>1, <3>2
  <2>4. \A k \in 1 .. n : onchain[k] = list[k]
    BY <1>4, <2>3
  <2>5. onchain' = onchain /\ mirror' = mirror /\ unrecorded' = unrecorded
    BY <1>1 DEF storeVars
  <2>6. CheckSound'
    <3>1. n + 1 \in 1 .. Len(list) + 1 /\ (n + 1) - 1 = n
      BY <1>4
    <3> QED
      BY <1>4, <2>2, <2>4, <2>5, <3>1 DEF CheckSound
  <2>7. RowsKnown'
    BY <1>1, <1>2, <1>5 DEF RowsKnown, Matching, storeVars
  <2>8. HolesAreAccounted'
    BY <1>1, <1>5 DEF HolesAreAccounted
  <2> QED
    BY <1>1, <1>2, <1>5, <2>2, <2>6, <2>7, <2>8, BootKeeps
<1>6. CASE service' = "disabled" /\ check' = NoCheck
  <2>1. check' \in [leaves : Seq(Leaf), next : Nat]
    BY <1>6, EmptySeq DEF NoCheck
  <2> QED
    BY <1>1, <1>2, <1>6, <2>1, GivingUpKeeps
<1> QED
  BY <1>3, <1>5, <1>6 DEF CheckLeaf

\* When the service is enabled the mirror is the beginning of the contract's list.
LEMMA EnabledOnPrefix ==
    ASSUME EnrollmentInv, Enable
    PROVE  /\ check.leaves \in Seq(Leaf) /\ Len(check.leaves) \in 0 .. Len(onchain)
           /\ mirror = FirstRows(onchain, Len(check.leaves))
           /\ \A k \in 1 .. Len(onchain) : k > Len(check.leaves) => onchain[k] \in unrecorded
<1>1. service = "boot" /\ check.next = Len(check.leaves) + 1
  BY DEF Enable
<1>2. check.leaves \in Seq(Leaf) /\ Len(check.leaves) \in Nat /\ Len(onchain) \in Nat
  BY IndexFacts, LenProperties DEF EnrollmentInv, EnrollmentTypeOK
<1>3. check.next \in 1 .. Len(check.leaves) + 1 /\ check.next - 1 = Len(check.leaves)
  BY <1>1, <1>2
<1>4. /\ mirror = Rows(check.leaves) /\ Len(check.leaves) <= Len(onchain)
      /\ \A k \in 1 .. Len(check.leaves) : onchain[k] = check.leaves[k]
      /\ \A k \in 1 .. Len(onchain) : k > Len(check.leaves) => onchain[k] \in unrecorded
  BY <1>1, <1>3, CheckGoesOn
<1>5. mirror = FirstRows(onchain, Len(check.leaves))
  BY <1>4 DEF Rows, FirstRows
<1> QED
  BY <1>2, <1>4, <1>5

\* The first rows of the contract's list match it.
LEMMA FirstRowsMatch ==
    ASSUME EnrollmentTypeOK, NEW n \in 0 .. Len(onchain)
    PROVE  Matching(FirstRows(onchain, n))
<1>1. Len(onchain) \in Nat
  BY IndexFacts
<1> SUFFICES ASSUME NEW k \in 1 .. n
             PROVE  k - 1 < Len(onchain) /\ onchain[(k - 1) + 1] = onchain[k]
  BY DEF Matching, FirstRows
<1>2. k \in Nat /\ k <= n /\ n <= Len(onchain) /\ (k - 1) + 1 = k
  BY <1>1
<1> QED
  BY <1>1, <1>2

LEMMA EnableKeeps == EnrollmentInv /\ Enable => EnrollmentInv'
<1> SUFFICES ASSUME EnrollmentInv, Enable PROVE EnrollmentInv'
  OBVIOUS
<1>1. /\ service = "boot" /\ service' = "enabled" /\ check' = NoCheck
      /\ UNCHANGED <<onchain, storeVars, queue, job, late, unrecorded, faults>>
  BY DEF Enable
<1>2. EnrollmentTypeOK /\ AtRest /\ faults \in 0 .. MaxFaults
  BY DEF EnrollmentInv, EnrollmentTypeOK
<1>3. PICK n \in 0 .. Len(onchain) :
          /\ mirror = FirstRows(onchain, n)
          /\ \A k \in 1 .. Len(onchain) : k > n => onchain[k] \in unrecorded
  BY EnabledOnPrefix
<1>4. check' \in [leaves : Seq(Leaf), next : Nat]
  BY <1>1, EmptySeq DEF NoCheck
<1>5. RowsKnown'
  <2>1. mirror \cup file = FirstRows(onchain, n)
    BY <1>1, <1>2, <1>3 DEF AtRest
  <2>2. Matching(mirror \cup file)
    BY <1>2, <2>1, FirstRowsMatch
  <2> QED
    BY <1>1, <2>2 DEF RowsKnown, Matching, storeVars
<1>6. HolesAreAccounted'
  <2>1. ASSUME NEW leaf \in Members PROVE Stored(leaf) \/ leaf \in unrecorded
    <3>1. PICK k \in 1 .. Len(onchain) : onchain[k] = leaf
      BY <1>2, IndexFacts
    <3>2. CASE k \in 1 .. n
      <4>1. <<k - 1, leaf>> \in mirror
        BY <1>3, <3>1, <3>2 DEF FirstRows
      <4> QED
        BY <4>1 DEF Stored
    <3>3. CASE k > n
      BY <1>3, <3>1, <3>3
    <3>4. k \in 1 .. n \/ k > n
      OBVIOUS
    <3> QED
      BY <3>2, <3>3, <3>4
  <2> QED
    BY <1>1, <2>1 DEF HolesAreAccounted, Members, Stored, storeVars
<1>7. CheckSound'
  BY <1>1 DEF CheckSound
<1> QED
  BY <1>1, <1>2, <1>4, <1>5, <1>6, <1>7, BootKeeps

\* A restart falls back on the file's rows, and forgets who asked for what.
LEMMA RestartKeeps == EnrollmentInv /\ Restart => EnrollmentInv'
<1> SUFFICES ASSUME EnrollmentInv, Restart PROVE EnrollmentInv'
  OBVIOUS
<1>1. /\ service' = "boot" /\ check' = NoCheck /\ mirror' = file /\ queue' = <<>> /\ job' = "start"
      /\ late' = (IF job = "poll" THEN late \cup {queue[1]} ELSE late)
      /\ unrecorded' = unrecorded \cup {r[2] : r \in mirror \ file}
             \cup {queue[n] : n \in {k \in {1} : job \in {"poll", "never", "index", "flush"}}}
      /\ onchain' = onchain /\ backend' = backend /\ file' = file
  BY DEF Restart
<1>2. /\ EnrollmentTypeOK /\ RowsKnown /\ AtRest /\ IsFiniteSet(file) /\ late \subseteq unrecorded
  BY DEF EnrollmentInv
<1>3. faults' \in 0 .. MaxFaults
  BY <1>2, EnrollmentConstants DEF Restart, Fault, EnrollmentTypeOK
<1>4. job # "start" => queue[1] \in Leaf
  <2>1. queue \in Seq(Leaf) /\ (queue = <<>> => job = "start")
    BY <1>2 DEF EnrollmentTypeOK
  <2>2. queue # <<>> => 1 \in 1 .. Len(queue)
    BY <2>1, EmptySeq, LenProperties
  <2> QED
    BY <2>1, <2>2, ElementOfSeq
<1>5. late' \subseteq Leaf /\ late' \subseteq unrecorded' /\ unrecorded' \subseteq Leaf
  <2>1. late \subseteq Leaf /\ unrecorded \subseteq Leaf /\ mirror \subseteq Row
    BY <1>2 DEF EnrollmentTypeOK
  <2>2. {r[2] : r \in mirror \ file} \subseteq Leaf
    BY <2>1 DEF Row
  <2>3. late' \subseteq Leaf
    BY <1>1, <1>4, <2>1
  <2>4. unrecorded' \subseteq Leaf
    BY <1>1, <1>4, <2>1, <2>2
  <2>5. late' \subseteq unrecorded'
    BY <1>1, <1>2
  <2> QED
    BY <2>3, <2>4, <2>5
<1>6. EnrollmentTypeOK'
  <2>1. <<>> \in Seq(Leaf) /\ NoCheck \in [leaves : Seq(Leaf), next : Nat]
    BY EmptySeq DEF NoCheck
  <2> QED
    BY <1>1, <1>2, <1>3, <1>5, <2>1 DEF EnrollmentTypeOK
<1>7. RowsKnown'
  <2>1. CASE Matching(mirror \cup file)
    BY <1>1, <2>1 DEF RowsKnown, Matching
  <2>2. CASE service # "enabled" /\ \E list \in Seq(Leaf) : mirror = Rows(list)
    <3>1. mirror = file
      BY <1>2, <2>2 DEF AtRest
    <3> QED
      BY <1>1, <2>2, <3>1 DEF RowsKnown
  <2> QED
    BY <1>2, <2>1, <2>2 DEF RowsKnown
<1>8. HolesAreAccounted' /\ AtRest' /\ CheckSound' /\ JobSound'
  BY <1>1 DEF HolesAreAccounted, AtRest, CheckSound, JobSound
<1>9. IsFiniteSet(mirror') /\ IsFiniteSet(file')
  BY <1>1, <1>2
<1> QED
  BY <1>5, <1>6, <1>7, <1>8, <1>9 DEF EnrollmentInv

-----------------------------------------------------------------------------
(* Enrolling.                                                              *)

\* While it serves, the service has nothing to verify and its rows match.
LEMMA ServingFacts ==
    ASSUME EnrollmentInv, service = "enabled"
    PROVE  /\ EnrollmentTypeOK /\ HolesAreAccounted /\ JobSound
           /\ IsFiniteSet(mirror) /\ IsFiniteSet(file)
           /\ mirror \in SUBSET Row /\ file \in SUBSET Row
           /\ Matching(mirror) /\ Matching(file) /\ late \subseteq unrecorded
           /\ queue # <<>> => Current \in Leaf /\ Tail(queue) \in Seq(Leaf)
<1>1. /\ EnrollmentTypeOK /\ HolesAreAccounted /\ JobSound /\ RowsKnown
      /\ IsFiniteSet(mirror) /\ IsFiniteSet(file) /\ late \subseteq unrecorded
  BY DEF EnrollmentInv
<1>2. Matching(mirror) /\ Matching(file)
  BY <1>1 DEF RowsKnown, Matching
<1>3. mirror \in SUBSET Row /\ file \in SUBSET Row
  BY <1>1 DEF EnrollmentTypeOK
<1>4. queue # <<>> => Current \in Leaf /\ Tail(queue) \in Seq(Leaf)
  <2>1. queue \in Seq(Leaf)
    BY <1>1 DEF EnrollmentTypeOK
  <2>2. queue # <<>> => 1 \in 1 .. Len(queue)
    BY <2>1, EmptySeq, LenProperties
  <2> QED
    BY <2>1, <2>2, ElementOfSeq, HeadTailProperties DEF Current
<1> QED
  BY <1>1, <1>2, <1>3, <1>4

\* What a step of the service must see to.
LEMMA ServingKeeps ==
    ASSUME EnrollmentInv, service = "enabled", UNCHANGED <<onchain, service, check>>,
           backend' = backend, queue' \in Seq(Leaf),
           job' \in {"start", "insert", "poll", "never", "index", "flush"},
           queue' = <<>> => job' = "start",
           mirror' \in SUBSET Row, file' \in SUBSET Row, backend = "postgres" => mirror' = file',
           late' \subseteq unrecorded', unrecorded' \subseteq Leaf, faults' \in 0 .. MaxFaults,
           IsFiniteSet(mirror'), IsFiniteSet(file'),
           Matching(mirror)', Matching(file)', HolesAreAccounted', JobSound'
    PROVE  EnrollmentInv'
<1>1. EnrollmentTypeOK
  BY DEF EnrollmentInv
<1>2. EnrollmentTypeOK'
  <2>1. /\ onchain' \in Seq(Leaf) /\ IsInjective(onchain') /\ backend' \in {"file", "postgres"}
        /\ service' \in {"boot", "enabled", "disabled"}
        /\ check' \in [leaves : Seq(Leaf), next : Nat]
    BY <1>1 DEF EnrollmentTypeOK
  <2>2. late' \subseteq Leaf
    OBVIOUS
  <2> QED
    BY <2>1, <2>2 DEF EnrollmentTypeOK
<1>3. RowsKnown'
  BY DEF RowsKnown, Matching
<1>4. AtRest' /\ CheckSound'
  BY DEF AtRest, CheckSound
<1> QED
  BY <1>2, <1>3, <1>4 DEF EnrollmentInv

\* The request is answered and the store left alone: what is in the contract by now
\* is in the mirror or was not told of.
LEMMA AnswerKeeps ==
    ASSUME EnrollmentInv, service = "enabled", queue # <<>>, Answer,
           UNCHANGED <<onchain, storeVars, service, check>>,
           job \in {"index", "flush"} => Stored(Current) \/ Current \in unrecorded',
           late' \subseteq unrecorded', unrecorded \subseteq unrecorded', unrecorded' \subseteq Leaf,
           faults' \in 0 .. MaxFaults
    PROVE  EnrollmentInv'
<1>1. queue' = Tail(queue) /\ job' = "start" /\ backend' = backend /\ mirror' = mirror /\ file' = file
      /\ onchain' = onchain /\ service' = service /\ check' = check
  BY DEF Answer, storeVars
<1>2. /\ EnrollmentTypeOK /\ HolesAreAccounted
      /\ IsFiniteSet(mirror) /\ IsFiniteSet(file)
      /\ mirror \in SUBSET Row /\ file \in SUBSET Row /\ Matching(mirror) /\ Matching(file)
      /\ Tail(queue) \in Seq(Leaf)
  BY ServingFacts
<1>3. HolesAreAccounted'
  BY <1>1, <1>2 DEF HolesAreAccounted, Members, Stored
<1>4. JobSound' /\ Matching(mirror)' /\ Matching(file)'
  BY <1>1, <1>2 DEF JobSound, Matching
<1>5. backend = "postgres" => mirror' = file'
  BY <1>1, <1>2 DEF EnrollmentTypeOK
<1> QED
  BY <1>1, <1>2, <1>3, <1>4, <1>5, ServingKeeps

\* It goes on, towards an insertion.
LEMMA GoingOnKeeps ==
    ASSUME EnrollmentInv, service = "enabled", queue # <<>>, job \notin {"index", "flush"},
           queue' = queue, job' \in {"insert", "poll", "never"},
           UNCHANGED <<onchain, storeVars, late, service, check, unrecorded>>,
           faults' \in 0 .. MaxFaults
    PROVE  EnrollmentInv'
<1>1. /\ backend' = backend /\ mirror' = mirror /\ file' = file /\ late' = late
      /\ unrecorded' = unrecorded /\ onchain' = onchain /\ service' = service /\ check' = check
  BY DEF storeVars
<1>2. /\ EnrollmentTypeOK /\ HolesAreAccounted
      /\ IsFiniteSet(mirror) /\ IsFiniteSet(file) /\ late \subseteq unrecorded
      /\ mirror \in SUBSET Row /\ file \in SUBSET Row /\ Matching(mirror) /\ Matching(file)
  BY ServingFacts
<1>3. HolesAreAccounted'
  BY <1>1, <1>2 DEF HolesAreAccounted, Members, Stored
<1>4. JobSound' /\ Matching(mirror)' /\ Matching(file)'
  BY <1>1, <1>2 DEF JobSound, Matching
<1>5. /\ backend = "postgres" => mirror' = file'
      /\ queue' \in Seq(Leaf) /\ late' \subseteq unrecorded' /\ unrecorded' \subseteq Leaf
  BY <1>1, <1>2 DEF EnrollmentTypeOK
<1> QED
  BY <1>1, <1>2, <1>3, <1>4, <1>5, ServingKeeps

\* The row of the leaf that is served is set, in the file store at once.
LEMMA UpsertKeeps ==
    ASSUME EnrollmentInv, service = "enabled", queue # <<>>, job # "flush",
           Current \in Members, Upsert(Current), Goto("flush"),
           \/ Stored(Current) \/ Current \in unrecorded
           \/ \A k \in 1 .. Len(onchain) : onchain[k] = Current => \A r \in mirror : r[1] < k - 1,
           UNCHANGED <<onchain, backend, file, late, service, check, unrecorded, faults>>
    PROVE  EnrollmentInv'
<1>1. /\ EnrollmentTypeOK /\ HolesAreAccounted
      /\ IsFiniteSet(mirror) /\ IsFiniteSet(file) /\ late \subseteq unrecorded
      /\ mirror \in SUBSET Row /\ file \in SUBSET Row /\ Matching(mirror) /\ Matching(file)
  BY ServingFacts
<1>2. job' = "flush" /\ queue' = queue /\ Current' = Current
  BY DEF Goto, Current
<1>3. /\ WithRow(mirror, Current) = mirror \cup {<<IndexOf(Current), Current>>}
      /\ WithRow(mirror, Current) \subseteq Row /\ IsFiniteSet(WithRow(mirror, Current))
      /\ Matching(WithRow(mirror, Current))
  BY <1>1, RowIsAdded
<1>4. PICK rows : rows = mirror'
  OBVIOUS
<1>5. /\ mirror \subseteq rows /\ rows \in SUBSET Row /\ IsFiniteSet(rows) /\ Matching(rows)
      /\ backend = "file" => <<IndexOf(Current), Current>> \in rows
      /\ backend = "postgres" => rows = mirror
  BY <1>1, <1>3, <1>4 DEF Upsert, EnrollmentTypeOK
<1>6. Matching(mirror)' /\ Matching(file)'
  BY <1>1, <1>4, <1>5 DEF Matching
<1>7. (\A leaf : Stored(leaf) => Stored(leaf)') /\ (backend = "file" => Stored(Current)')
  <2>1. \A leaf : Stored(leaf) => Stored(leaf)'
    BY <1>4, <1>5 DEF Stored
  <2>2. ASSUME backend = "file" PROVE \E r \in mirror' : r[2] = Current
    <3>1. <<IndexOf(Current), Current>> \in mirror'
      BY <1>4, <1>5, <2>2
    <3> QED
      BY <3>1
  <2> QED
    BY <1>2, <2>1, <2>2 DEF Stored
<1>8. HolesAreAccounted'
  BY <1>1, <1>2, <1>7 DEF HolesAreAccounted, Members
<1>9. JobSound'
  <2>1. Current' \in Members' /\ (backend' = "file" => Stored(Current)')
    BY <1>2, <1>7 DEF Members
  <2>2. CASE backend = "file"
    BY <1>2, <1>7, <2>1, <2>2 DEF JobSound, Stored
  <2>3. CASE backend = "postgres"
    BY <1>2, <1>4, <1>5, <2>1, <2>3 DEF JobSound, Stored
  <2> QED
    BY <1>1, <2>2, <2>3 DEF EnrollmentTypeOK
<1>10. /\ queue' \in Seq(Leaf) /\ queue' # <<>> /\ late' \subseteq unrecorded' /\ unrecorded' \subseteq Leaf
       /\ faults' \in 0 .. MaxFaults /\ (backend = "postgres" => mirror' = file')
       /\ file' \in SUBSET Row /\ IsFiniteSet(file')
  BY <1>1, <1>2, <1>4, <1>5 DEF EnrollmentTypeOK
<1> QED
  BY <1>2, <1>4, <1>5, <1>6, <1>8, <1>9, <1>10, ServingKeeps

LEMMA EnrollKeeps ==
    ASSUME EnrollmentInv, NEW leaf \in Leaf, Enroll(leaf)
    PROVE  EnrollmentInv'
<1>1. /\ service = "enabled" /\ queue' = Append(queue, leaf) /\ job' = job /\ backend' = backend
      /\ mirror' = mirror /\ file' = file /\ onchain' = onchain /\ late' = late
      /\ service' = service /\ check' = check /\ unrecorded' = unrecorded /\ faults' = faults
  BY DEF Enroll, storeVars
<1>2. /\ EnrollmentTypeOK /\ HolesAreAccounted /\ JobSound
      /\ IsFiniteSet(mirror) /\ IsFiniteSet(file) /\ late \subseteq unrecorded
      /\ mirror \in SUBSET Row /\ file \in SUBSET Row /\ Matching(mirror) /\ Matching(file)
  BY <1>1, ServingFacts
<1>3. queue \in Seq(Leaf) /\ (queue = <<>> => job = "start")
  BY <1>2 DEF EnrollmentTypeOK
<1>4. queue' \in Seq(Leaf) /\ queue' # <<>>
  BY <1>1, <1>3, AppendProperties
<1>5. job # "start" => Current' = Current
  <2>1. queue # <<>> => 1 \in 1 .. Len(queue)
    BY <1>3, EmptySeq, LenProperties
  <2> QED
    BY <1>1, <1>3, <2>1, AppendProperties DEF Current
<1>6. HolesAreAccounted'
  BY <1>1, <1>2, <1>5 DEF HolesAreAccounted, Members, Stored
<1>7. JobSound'
  BY <1>1, <1>2, <1>5 DEF JobSound, Members, Stored
<1>8. Matching(mirror)' /\ Matching(file)'
  BY <1>1, <1>2 DEF Matching
<1>9. /\ job' \in {"start", "insert", "poll", "never", "index", "flush"}
      /\ late' \subseteq unrecorded' /\ unrecorded' \subseteq Leaf
      /\ faults' \in 0 .. MaxFaults /\ (backend = "postgres" => mirror' = file')
  BY <1>1, <1>2 DEF EnrollmentTypeOK
<1> QED
  BY <1>1, <1>2, <1>4, <1>6, <1>7, <1>8, <1>9, ServingKeeps

\* A fault is spent, or not.
LEMMA FaultType ==
    ASSUME EnrollmentInv, Fault \/ UNCHANGED faults
    PROVE  faults' \in 0 .. MaxFaults
  BY EnrollmentConstants DEF EnrollmentInv, EnrollmentTypeOK, Fault

\* Steps that only answer, or go on.
LEMMA PlainStepsKeep ==
    ASSUME EnrollmentInv,
           SubmitInsertion \/ InsertionRefused \/ InsertionFails \/ InsertionTimesOut \/ IndexUnavailable
    PROVE  EnrollmentInv'
<1>1. late \subseteq unrecorded /\ unrecorded \subseteq Leaf
  BY DEF EnrollmentInv, EnrollmentTypeOK
<1>2. CASE SubmitInsertion
  <2>1. /\ service = "enabled" /\ queue # <<>> /\ job = "insert" /\ queue' = queue
        /\ job' \in {"poll", "never"} /\ faults' = faults
        /\ UNCHANGED <<onchain, storeVars, late, service, check, unrecorded>>
    BY <1>2 DEF SubmitInsertion, Serving, Goto
  <2> QED
    BY <2>1, FaultType, GoingOnKeeps
<1>3. CASE InsertionRefused
  <2>1. /\ service = "enabled" /\ queue # <<>> /\ job = "insert" /\ Answer
        /\ UNCHANGED <<onchain, storeVars, late, service, check, unrecorded>>
        /\ Fault \/ UNCHANGED faults
    BY <1>3 DEF InsertionRefused, Serving
  <2> QED
    BY <1>1, <2>1, FaultType, AnswerKeeps
<1>4. CASE InsertionFails
  <2>1. /\ service = "enabled" /\ queue # <<>> /\ job = "poll" /\ Answer
        /\ UNCHANGED <<onchain, storeVars, late, service, check, unrecorded>>
        /\ Fault \/ UNCHANGED faults
    BY <1>4 DEF InsertionFails, Serving
  <2> QED
    BY <1>1, <2>1, FaultType, AnswerKeeps
<1>5. CASE InsertionTimesOut
  <2>1. /\ service = "enabled" /\ queue # <<>> /\ job \in {"poll", "never"} /\ Answer
        /\ UNCHANGED <<onchain, storeVars, service, check>>
        /\ unrecorded' = unrecorded \cup {Current} /\ (Fault \/ UNCHANGED faults)
        /\ late' \in {late, late \cup {Current}}
    BY <1>5 DEF InsertionTimesOut, Serving
  <2>2. Current \in Leaf
    BY <2>1, ServingFacts
  <2>3. late' \subseteq unrecorded' /\ unrecorded \subseteq unrecorded' /\ unrecorded' \subseteq Leaf
    BY <1>1, <2>1, <2>2
  <2> QED
    BY <2>1, <2>3, FaultType, AnswerKeeps
<1>6. CASE IndexUnavailable
  <2>1. /\ service = "enabled" /\ queue # <<>> /\ job = "index" /\ Answer
        /\ UNCHANGED <<onchain, storeVars, late, service, check>>
        /\ unrecorded' = unrecorded \cup {Current} /\ (Fault \/ UNCHANGED faults)
    BY <1>6 DEF IndexUnavailable, Serving
  <2>2. Current \in Leaf
    BY <2>1, ServingFacts
  <2>3. /\ late' \subseteq unrecorded' /\ unrecorded \subseteq unrecorded' /\ unrecorded' \subseteq Leaf
        /\ Current \in unrecorded'
    BY <1>1, <2>1, <2>2
  <2> QED
    BY <2>1, <2>3, FaultType, AnswerKeeps
<1> QED
  BY <1>2, <1>3, <1>4, <1>5, <1>6

LEMMA BeginKeeps == EnrollmentInv /\ Begin => EnrollmentInv'
<1> SUFFICES ASSUME EnrollmentInv, Begin PROVE EnrollmentInv'
  OBVIOUS
<1>1. /\ service = "enabled" /\ queue # <<>> /\ job = "start"
      /\ UNCHANGED <<onchain, backend, file, late, service, check, unrecorded>>
  BY DEF Begin, Serving
<1>2. late \subseteq unrecorded /\ unrecorded \subseteq Leaf /\ HolesAreAccounted
  BY DEF EnrollmentInv, EnrollmentTypeOK
<1>3. ASSUME UNCHANGED mirror, Answer, Fault \/ UNCHANGED faults PROVE EnrollmentInv'
  <2>1. UNCHANGED storeVars
    BY <1>1, <1>3 DEF storeVars
  <2> QED
    BY <1>1, <1>2, <1>3, <2>1, FaultType, AnswerKeeps
<1>4. CASE Stored(Current) /\ Answer /\ UNCHANGED <<mirror, faults>>
  BY <1>3, <1>4
<1>5. CASE /\ ~Stored(Current) /\ Current \in Members
           /\ Upsert(Current) /\ Goto("flush") /\ UNCHANGED faults
  <2>1. Current \in unrecorded
    BY <1>1, <1>2, <1>5 DEF HolesAreAccounted
  <2> QED
    BY <1>1, <1>5, <2>1, UpsertKeeps
<1>6. CASE /\ ~Stored(Current) /\ UNCHANGED mirror
           /\ IF Current \in Members THEN Fault ELSE UNCHANGED faults
           /\ IF Cardinality(mirror) >= maxEnrollments THEN Answer ELSE Goto("insert")
  <2>1. UNCHANGED mirror /\ (Fault \/ UNCHANGED faults) /\ (Answer \/ Goto("insert"))
    BY <1>6
  <2>2. CASE Answer
    BY <1>3, <2>1, <2>2
  <2>3. CASE Goto("insert")
    <3>1. UNCHANGED storeVars /\ queue' = queue /\ job' = "insert"
      BY <1>1, <2>1, <2>3 DEF storeVars, Goto
    <3> QED
      BY <1>1, <2>1, <3>1, FaultType, GoingOnKeeps
  <2> QED
    BY <2>1, <2>2, <2>3
<1> QED
  BY <1>4, <1>5, <1>6 DEF Begin

LEMMA RecordIndexKeeps == EnrollmentInv /\ RecordIndex => EnrollmentInv'
<1> SUFFICES ASSUME EnrollmentInv, RecordIndex PROVE EnrollmentInv'
  OBVIOUS
<1>1. /\ service = "enabled" /\ queue # <<>> /\ job = "index" /\ Upsert(Current) /\ Goto("flush")
      /\ UNCHANGED <<onchain, backend, file, late, service, check, unrecorded, faults>>
  BY DEF RecordIndex, Serving
<1>2. /\ Current \in Members
      /\ \/ Stored(Current) \/ Current \in unrecorded
         \/ \A k \in 1 .. Len(onchain) : onchain[k] = Current => \A r \in mirror : r[1] < k - 1
  BY <1>1 DEF EnrollmentInv, JobSound
<1> QED
  BY <1>1, <1>2, UpsertKeeps

\* The insertion lands: the new leaf is the last, and every row of the mirror is
\* that of an earlier one.
LEMMA InsertionLandsKeeps == EnrollmentInv /\ InsertionLands => EnrollmentInv'
<1> SUFFICES ASSUME EnrollmentInv, InsertionLands PROVE EnrollmentInv'
  OBVIOUS
<1>1. /\ service = "enabled" /\ queue # <<>> /\ job = "poll" /\ InsertLeaf(Current)
      /\ job' = "index" /\ queue' = queue /\ backend' = backend /\ mirror' = mirror /\ file' = file
      /\ late' = late /\ service' = service /\ check' = check /\ unrecorded' = unrecorded
      /\ faults' = faults
  BY DEF InsertionLands, Serving, Goto, storeVars
<1>2. /\ EnrollmentTypeOK /\ HolesAreAccounted /\ late \subseteq unrecorded
      /\ mirror \in SUBSET Row /\ Matching(mirror) /\ Current \in Leaf
  BY <1>1, ServingFacts
<1>3. /\ onchain' \in Seq(Leaf) /\ IsInjective(onchain') /\ Members' = Members \cup {Current}
      /\ Len(onchain') = Len(onchain) + 1
      /\ \A k \in 1 .. Len(onchain) : onchain'[k] = onchain[k]
  BY <1>1, <1>2, ChainGrows
<1>4. /\ IsFiniteSet(mirror') /\ IsFiniteSet(file')
      /\ RowsKnown' /\ AtRest' /\ CheckSound'
  BY <1>1, <1>2, InsertKeeps DEF storeVars
<1>5. EnrollmentTypeOK'
  BY <1>1, <1>2, <1>3 DEF EnrollmentTypeOK
<1>6. Current' = Current
  BY <1>1 DEF Current
<1>7. HolesAreAccounted'
  BY <1>1, <1>2, <1>3, <1>6 DEF HolesAreAccounted, Stored
<1>8. ASSUME NEW k \in 1 .. Len(onchain'), onchain'[k] = Current
      PROVE  \A r \in mirror : r[1] < k - 1
  <2>1. Len(onchain) \in Nat /\ \A j \in 1 .. Len(onchain) : onchain[j] \in Members
    BY <1>2, IndexFacts
  <2>2. k \notin 1 .. Len(onchain)
    BY <1>1, <1>3, <1>8, <2>1 DEF InsertLeaf
  <2>3. k - 1 = Len(onchain)
    BY <1>3, <2>1, <2>2
  <2> QED
    BY <1>2, <2>3 DEF Matching
<1>9. JobSound'
  BY <1>1, <1>3, <1>6, <1>8 DEF JobSound
<1> QED
  BY <1>1, <1>2, <1>4, <1>5, <1>7, <1>9 DEF EnrollmentInv

\* What is written has the leaf's row, or the caller hears of an error and the leaf
\* counts as one the service was not told of.
LEMMA FlushKeeps == EnrollmentInv /\ Flush => EnrollmentInv'
<1> SUFFICES ASSUME EnrollmentInv, Flush PROVE EnrollmentInv'
  OBVIOUS
<1>1. /\ service = "enabled" /\ queue # <<>> /\ job = "flush"
      /\ mirror' = (IF backend = "postgres" THEN file' ELSE mirror)
      /\ queue' = Tail(queue) /\ job' = "start"
      /\ onchain' = onchain /\ backend' = backend /\ late' = late /\ service' = service
      /\ check' = check
  BY DEF Flush, Serving, Answer
<1>2. /\ EnrollmentTypeOK /\ HolesAreAccounted /\ JobSound
      /\ IsFiniteSet(mirror) /\ IsFiniteSet(file) /\ late \subseteq unrecorded
      /\ mirror \in SUBSET Row /\ file \in SUBSET Row /\ Matching(mirror) /\ Matching(file)
      /\ Current \in Leaf /\ Tail(queue) \in Seq(Leaf)
  BY <1>1, ServingFacts
<1>3. Current \in Members /\ (backend = "file" => Stored(Current))
  BY <1>1, <1>2 DEF JobSound
<1>4. /\ backend \in {"file", "postgres"} /\ unrecorded \subseteq Leaf
      /\ backend = "postgres" => mirror = file
  BY <1>2 DEF EnrollmentTypeOK
<1>5. /\ WithRow(file, Current) = file \cup {<<IndexOf(Current), Current>>}
      /\ WithRow(file, Current) \subseteq Row /\ IsFiniteSet(WithRow(file, Current))
      /\ Matching(WithRow(file, Current))
  BY <1>2, <1>3, RowIsAdded
<1>6. PICK rows : rows = file'
  OBVIOUS
<1>7. /\ rows \in {file, Written(Current)} /\ unrecorded' \in {unrecorded, unrecorded \cup {Current}}
      /\ backend = "postgres" => rows = Written(Current) \/ Current \in unrecorded'
      /\ Fault \/ UNCHANGED faults
  BY <1>6 DEF Flush
<1>8. unrecorded \subseteq unrecorded' /\ unrecorded' \subseteq Leaf
  BY <1>2, <1>4, <1>7
<1>9. rows \in SUBSET Row /\ IsFiniteSet(rows) /\ Matching(rows)
  BY <1>2, <1>4, <1>5, <1>7 DEF Written
<1>10. mirror' \in {mirror, rows} /\ mirror \subseteq mirror'
  <2>1. CASE backend = "file"
    BY <1>1, <2>1
  <2>2. CASE backend = "postgres"
    <3>1. rows = file \/ rows = WithRow(file, Current)
      BY <1>7, <2>2 DEF Written
    <3>2. mirror' = rows /\ mirror = file
      BY <1>1, <1>4, <1>6, <2>2
    <3> QED
      BY <1>5, <3>1, <3>2
  <2> QED
    BY <1>4, <2>1, <2>2
<1>11. PICK now : now = mirror'
  OBVIOUS
<1>12. /\ now \in SUBSET Row /\ IsFiniteSet(now) /\ Matching(now)
       /\ backend = "postgres" => now = rows
  <2>1. now = mirror \/ now = rows
    BY <1>10, <1>11
  <2>2. backend = "postgres" => now = rows
    BY <1>1, <1>6, <1>11
  <2> QED
    BY <1>2, <1>9, <2>1, <2>2
<1>13. Matching(mirror)' /\ Matching(file)'
  BY <1>1, <1>6, <1>9, <1>11, <1>12 DEF Matching
<1>14. (\E r \in mirror' : r[2] = Current) \/ Current \in unrecorded'
  <2>1. CASE backend = "file"
    BY <1>3, <1>10, <2>1 DEF Stored
  <2>2. CASE backend = "postgres" /\ rows = Written(Current)
    <3>1. <<IndexOf(Current), Current>> \in mirror'
      BY <1>5, <1>11, <1>12, <2>2 DEF Written
    <3> QED
      BY <3>1
  <2> QED
    BY <1>4, <1>7, <2>1, <2>2
<1>15. HolesAreAccounted'
  <2> SUFFICES ASSUME NEW leaf \in Members
               PROVE  (\E r \in mirror' : r[2] = leaf) \/ leaf \in unrecorded'
    BY <1>1 DEF HolesAreAccounted, Members, Stored
  <2>1. Stored(leaf) \/ leaf \in unrecorded \/ leaf = Current
    BY <1>1, <1>2 DEF HolesAreAccounted
  <2> QED
    BY <1>8, <1>10, <1>14, <2>1 DEF Stored
<1>16. JobSound'
  BY <1>1 DEF JobSound
<1>17. faults' \in 0 .. MaxFaults /\ late' \subseteq unrecorded' /\ (backend = "postgres" => mirror' = file')
  BY <1>1, <1>2, <1>7, <1>8, FaultType
<1> QED
  BY <1>1, <1>2, <1>6, <1>8, <1>9, <1>11, <1>12, <1>13, <1>15, <1>16, <1>17, ServingKeeps

-----------------------------------------------------------------------------
(* The invariant.                                                          *)

LEMMA InitInv == Init => EnrollmentInv
<1> SUFFICES ASSUME Init PROVE EnrollmentInv
  OBVIOUS
<1>1. ASSUME NEW list \in Lists PROVE list \in Seq(Leaf) /\ IsInjective(list) /\ Len(list) \in Nat
  <2>1. Seq(Leaf) = UNION {[1 .. m -> Leaf] : m \in Nat}
    BY SeqDef, Zenon
  <2>2. IsInjective(list) /\ \E m \in 0 .. maxEnrollments : list \in [1 .. m -> Leaf]
    BY DEF Lists, SeqOf
  <2>3. list \in Seq(Leaf)
    BY <2>1, <2>2, EnrollmentConstants
  <2> QED
    BY <2>2, <2>3, LenProperties
<1>2. PICK list \in Lists : file = {<<n - 1, list[n]>> : n \in 1 .. Len(list)}
  BY DEF Init
<1>3. file = Rows(list)
  BY <1>2 DEF Rows, FirstRows
<1>4. list \in Seq(Leaf) /\ Len(list) \in Nat
  BY <1>1
<1>5. IsFiniteSet(file)
  BY <1>3, <1>4, FirstRowsCount DEF Rows
<1>6. file \subseteq Row
  <2>1. \A n \in 1 .. Len(list) : n - 1 \in Nat /\ list[n] \in Leaf
    BY <1>4, ElementOfSeq
  <2> QED
    BY <1>2, <2>1 DEF Row
<1>7. /\ onchain \in Seq(Leaf) /\ IsInjective(onchain) /\ backend \in {"file", "postgres"}
      /\ mirror = file /\ queue = <<>> /\ job = "start" /\ late = {} /\ service = "boot"
      /\ check = NoCheck /\ unrecorded = {} /\ faults = 0
  BY <1>1 DEF Init
<1>8. EnrollmentTypeOK
  <2>1. <<>> \in Seq(Leaf) /\ NoCheck \in [leaves : Seq(Leaf), next : Nat] /\ 0 \in 0 .. MaxFaults
    BY EmptySeq, EnrollmentConstants DEF NoCheck
  <2> QED
    BY <1>6, <1>7, <2>1 DEF EnrollmentTypeOK
<1>9. RowsKnown
  BY <1>3, <1>4, <1>7 DEF RowsKnown
<1>10. HolesAreAccounted /\ AtRest /\ CheckSound /\ JobSound
  BY <1>7 DEF HolesAreAccounted, AtRest, CheckSound, JobSound
<1> QED
  BY <1>5, <1>7, <1>8, <1>9, <1>10 DEF EnrollmentInv

LEMMA NextInv == EnrollmentInv /\ [Next]_vars => EnrollmentInv'
<1> SUFFICES ASSUME EnrollmentInv, [Next]_vars PROVE EnrollmentInv'
  OBVIOUS
<1>1. ASSUME NEW leaf \in Leaf, Enroll(leaf) PROVE EnrollmentInv'
  BY <1>1, EnrollKeeps
<1>2. CASE Boot
  BY <1>2, ReadLeafCountKeeps, CheckLeafKeeps, EnableKeeps DEF Boot
<1>3. CASE EnrollSerial
  BY <1>3, BeginKeeps, PlainStepsKeep, InsertionLandsKeeps, RecordIndexKeeps, FlushKeeps
  DEF EnrollSerial
<1>4. CASE OperatorInserts \/ LateOutcome
  BY <1>4, ChainMoves
<1>5. CASE Restart
  BY <1>5, RestartKeeps
<1>6. CASE UNCHANGED vars
  BY <1>6 DEF EnrollmentInv, EnrollmentTypeOK, HolesAreAccounted, RowsKnown, AtRest, CheckSound,
     JobSound, vars, storeVars, Matching, Members, Stored, Current
<1> QED
  BY <1>1, <1>2, <1>3, <1>4, <1>5, <1>6 DEF Next

LEMMA AlwaysInv == Spec => []EnrollmentInv
  BY InitInv, NextInv, PTL DEF Spec

\* Every row is where the contract has its leaf, and what the mirror lacks is the
\* leaf being enrolled or one the service was not told of.
THEOREM MirrorIsRight == Spec => []MirrorAgrees
<1>1. EnrollmentInv => MirrorAgrees
  <2> SUFFICES ASSUME EnrollmentInv PROVE MirrorAgrees
    OBVIOUS
  <2>1. EnrollmentTypeOK /\ HolesAreAccounted /\ RowsKnown
    BY DEF EnrollmentInv
  <2>2. RowsMatchChain
    BY <2>1 DEF RowsMatchChain, RowsKnown, Matching
  <2> QED
    BY <2>1, <2>2 DEF MirrorAgrees
<1> QED
  BY <1>1, AlwaysInv, PTL

-----------------------------------------------------------------------------
(* What is served.                                                         *)

\* When the first n leaves are stored, and no row is past them, the mirror is their
\* rows.
LEMMA StoredUpTo ==
    ASSUME EnrollmentTypeOK, Matching(mirror), NEW n \in 0 .. Len(onchain),
           \A j \in 1 .. n : Stored(onchain[j]), \A r \in mirror : r[1] < n
    PROVE  mirror = FirstRows(onchain, n)
<1>1. /\ Len(onchain) \in Nat /\ n \in Nat /\ n <= Len(onchain) /\ mirror \subseteq Row
      /\ \A j, k \in 1 .. Len(onchain) : onchain[j] = onchain[k] => j = k
  BY IndexFacts DEF EnrollmentTypeOK
<1>2. ASSUME NEW r \in mirror
      PROVE  /\ r[1] \in Nat /\ r[1] + 1 \in 1 .. n /\ r[1] + 1 \in 1 .. Len(onchain)
             /\ r = <<r[1], onchain[r[1] + 1]>>
  BY <1>1 DEF Matching, Row
<1>3. \A r \in mirror : r \in FirstRows(onchain, n)
  <2> SUFFICES ASSUME NEW r \in mirror PROVE r \in FirstRows(onchain, n)
    OBVIOUS
  <2>1. PICK k \in 1 .. n : k = r[1] + 1
    BY <1>2
  <2>2. r = <<k - 1, onchain[k]>>
    BY <1>2, <2>1
  <2> QED
    BY <2>2 DEF FirstRows
<1>4. \A r \in FirstRows(onchain, n) : r \in mirror
  <2> SUFFICES ASSUME NEW j \in 1 .. n PROVE <<j - 1, onchain[j]>> \in mirror
    BY DEF FirstRows
  <2>1. PICK r \in mirror : r[2] = onchain[j]
    BY DEF Stored
  <2>2. j \in 1 .. Len(onchain) /\ onchain[r[1] + 1] = onchain[j]
    BY <1>1, <1>2, <2>1
  <2>3. r[1] + 1 = j
    BY <1>1, <1>2, <2>2
  <2>4. r[1] = j - 1
    BY <1>2, <2>3
  <2> QED
    BY <1>2, <2>3, <2>4
<1> QED
  BY <1>3, <1>4

LEMMA ServedIsPrefix == EnrollmentInv => ServedListIsPrefix
<1> SUFFICES ASSUME EnrollmentInv, service = "enabled",
                    \A leaf \in unrecorded \cap Members : Stored(leaf)
             PROVE  IsPrefix(GetLeaves, onchain)
  BY DEF ServedListIsPrefix
<1>1. EnrollmentTypeOK /\ HolesAreAccounted /\ JobSound /\ Matching(mirror) /\ mirror \in SUBSET Row
  BY ServingFacts
<1>2. /\ Len(onchain) \in Nat
      /\ \A k \in 1 .. Len(onchain) : onchain[k] \in Members
      /\ \A j, k \in 1 .. Len(onchain) : onchain[j] = onchain[k] => j = k
      /\ \A leaf \in Members : \E k \in 1 .. Len(onchain) : onchain[k] = leaf
  BY <1>1, IndexFacts
<1>3. CASE \A leaf \in Members : Stored(leaf)
  <2>1. \A r \in mirror : r[1] < Len(onchain)
    BY <1>1 DEF Matching
  <2>2. Len(onchain) \in 0 .. Len(onchain) /\ \A j \in 1 .. Len(onchain) : Stored(onchain[j])
    BY <1>2, <1>3
  <2>3. mirror = FirstRows(onchain, Len(onchain))
    BY <1>1, <2>1, <2>2, StoredUpTo
  <2> QED
    BY <1>1, <2>2, <2>3, ServesPrefix
<1>4. ASSUME NEW missing \in Members, ~Stored(missing) PROVE IsPrefix(GetLeaves, onchain)
  <2>1. \A leaf \in Members : Stored(leaf) \/ (job \in {"index", "flush"} /\ leaf = Current)
    BY <1>1 DEF HolesAreAccounted
  <2>2. job \in {"index", "flush"} /\ missing = Current
    BY <1>4, <2>1
  <2>3. Current \notin unrecorded
    BY <1>4, <2>2
  <2>4. \A k \in 1 .. Len(onchain) : onchain[k] = missing => \A r \in mirror : r[1] < k - 1
    BY <1>1, <1>4, <2>2, <2>3 DEF JobSound
  <2>5. PICK k \in 1 .. Len(onchain) : onchain[k] = missing
    BY <1>2
  <2>6. PICK n \in 0 .. Len(onchain) : n = k - 1
    BY <1>2
  <2>7. ASSUME NEW j \in 1 .. n PROVE Stored(onchain[j])
    <3>1. j \in 1 .. Len(onchain) /\ j # k
      BY <1>2, <2>6
    <3>2. onchain[j] # missing /\ onchain[j] \in Members
      BY <1>2, <2>5, <3>1
    <3> QED
      BY <2>1, <2>2, <3>2
  <2>8. \A r \in mirror : r[1] < n
    BY <2>4, <2>5, <2>6
  <2>9. mirror = FirstRows(onchain, n)
    BY <1>1, <2>7, <2>8, StoredUpTo
  <2> QED
    BY <1>1, <2>9, ServesPrefix
<1> QED
  BY <1>3, <1>4

\* Enrollment is enabled on a prefix of the contract's list, and what is served stays
\* one as long as no leaf is missing that the service was not told of.
THEOREM PrefixIsServed == Spec => ServedOnPrefix
<1>1. EnrollmentInv /\ [Next]_vars => EnabledOnlyOnPrefix
  <2> SUFFICES ASSUME EnrollmentInv, [Next]_vars, service = "boot", service' = "enabled"
               PROVE  IsPrefix(GetLeaves, onchain)
    BY DEF EnabledOnlyOnPrefix
  <2>1. Enable
    <3>1. ~EnrollSerial /\ \A leaf \in Leaf : ~Enroll(leaf)
      BY DEF EnrollSerial, Enroll, Begin, SubmitInsertion, InsertionRefused, InsertionLands,
         InsertionFails, InsertionTimesOut, RecordIndex, IndexUnavailable, Flush, Serving
    <3>2. ~ReadLeafCount /\ ~CheckLeaf
      BY DEF ReadLeafCount, CheckLeaf
    <3>3. ~OperatorInserts /\ ~LateOutcome /\ ~Restart /\ ~UNCHANGED vars
      BY DEF OperatorInserts, LateOutcome, Restart, vars
    <3> QED
      BY <3>1, <3>2, <3>3 DEF Next, Boot
  <2>2. PICK n \in 0 .. Len(onchain) : mirror = FirstRows(onchain, n)
    BY <2>1, EnabledOnPrefix
  <2> QED
    BY <2>2, ServesPrefix DEF EnrollmentInv
<1> QED
  BY <1>1, AlwaysInv, ServedIsPrefix, PTL DEF Spec, ServedOnPrefix
====
