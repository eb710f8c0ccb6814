-------------------------- MODULE VayylPool_proofs --------------------------
(***************************************************************************)
(* The pool implements the abstract ledger, for any number of owners,      *)
(* notes, amounts, settlement contracts and roots.                         *)
(*                                                                         *)
(* The inductive invariant adds to the type: the ring buffer holds the     *)
(* last roots in order, so a known root is never a forged one and a spend  *)
(* proof shows the note is in the tree; and every recorded commitment is   *)
(* a leaf, so the rage-quit's look-up shows the same.                      *)
(*                                                                         *)
(* The last part adds the escrow contracts: every call of theirs is a step *)
(* of the pool, and the tokens of a V1 pool are the sum of what they owe.  *)
(***************************************************************************)
EXTENDS Escrows, FiniteSetTheorems, FunctionTheorems, SequenceTheorems, TLAPS

-----------------------------------------------------------------------------
(* What a set of notes is worth.                                           *)

\* There are finitely many notes: keys, amounts and blindings are field elements.
LEMMA NoteIsFinite == IsFiniteSet(Note)
<1> DEFINE Tuple == (Owner \X (0 .. MaxAmount)) \X Blinding
           AsNote == [t \in Tuple |-> [owner |-> t[1][1], amount |-> t[1][2], blinding |-> t[2]]]
<1>1. IsFiniteSet(Tuple)
  <2>1. IsFiniteSet(0 .. MaxAmount)
    BY FS_Interval, NoteConstants
  <2> QED
    BY <2>1, FS_Product, NoteConstants
<1>2. AsNote \in Surjection(Tuple, Note)
  <2>1. AsNote \in [Tuple -> Note]
    BY DEF Note
  <2>2. ASSUME NEW n \in Note PROVE \E t \in Tuple : AsNote[t] = n
    <3>1. <<<<n.owner, n.amount>>, n.blinding>> \in Tuple
      BY DEF Note
    <3>2. AsNote[<<<<n.owner, n.amount>>, n.blinding>>] = n
      BY <3>1 DEF Note
    <3> QED
      BY <3>1, <3>2
  <2> QED
    BY <2>1, <2>2 DEF Surjection
<1> QED
  BY <1>1, <1>2, FS_Surjection

\* Any set of notes has finitely many coins, so Value is a number.
LEMMA ValueType ==
    ASSUME NEW notes \in SUBSET Note
    PROVE  IsFiniteSet(Coins(notes)) /\ Value(notes) \in Nat
<1>1. IsFiniteSet(notes)
  BY NoteIsFinite, FS_Subset
<1>2. IsFiniteSet(1 .. MaxAmount)
  BY FS_Interval, NoteConstants
<1>3. IsFiniteSet(notes \X (1 .. MaxAmount))
  BY <1>1, <1>2, FS_Product
<1>4. Coins(notes) \in SUBSET (notes \X (1 .. MaxAmount))
  BY DEF Coins
<1>5. IsFiniteSet(Coins(notes))
  BY <1>3, <1>4, FS_Subset
<1> QED
  BY <1>5, FS_CardinalityType DEF Value

\* Value is additive over disjoint sets.
LEMMA ValueUnion ==
    ASSUME NEW a \in SUBSET Note, NEW b \in SUBSET Note, a \cap b = {}
    PROVE  Value(a \cup b) = Value(a) + Value(b)
<1>1. IsFiniteSet(Coins(a)) /\ IsFiniteSet(Coins(b))
  BY ValueType
<1>2. Coins(a \cup b) = Coins(a) \cup Coins(b)
  BY DEF Coins
<1>3. Coins(a) \cap Coins(b) = {}
  BY DEF Coins
<1>4. Cardinality(Coins(a) \cap Coins(b)) = 0
  BY <1>3, FS_EmptySet
<1>5. Cardinality(Coins(a)) \in Nat /\ Cardinality(Coins(b)) \in Nat
  BY <1>1, FS_CardinalityType
<1>6. Cardinality(Coins(a) \cup Coins(b))
          = Cardinality(Coins(a)) + Cardinality(Coins(b)) - Cardinality(Coins(a) \cap Coins(b))
  BY <1>1, FS_Union
<1>7. Cardinality(Coins(a) \cup Coins(b)) = Cardinality(Coins(a)) + Cardinality(Coins(b))
  BY <1>4, <1>5, <1>6
<1> QED
  BY <1>2, <1>7 DEF Value

\* A larger set is worth at least as much.
LEMMA ValueMonotone ==
    ASSUME NEW a \in SUBSET Note, NEW b \in SUBSET Note, a \subseteq b
    PROVE  Value(a) <= Value(b)
<1>1. IsFiniteSet(Coins(b))
  BY ValueType
<1>2. Coins(a) \in SUBSET Coins(b)
  BY DEF Coins
<1> QED
  BY <1>1, <1>2, FS_Subset DEF Value

\* Taking notes out of a set takes out their value.
LEMMA ValueRemove ==
    ASSUME NEW a \in SUBSET Note, NEW b \in SUBSET Note, b \subseteq a
    PROVE  Value(a \ b) = Value(a) - Value(b)
<1>1. (a \ b) \cup b = a /\ (a \ b) \cap b = {}
  OBVIOUS
<1>2. Value(a) = Value(a \ b) + Value(b)
  BY <1>1, ValueUnion
<1>3. Value(a) \in Nat /\ Value(b) \in Nat /\ Value(a \ b) \in Nat
  BY ValueType
<1> QED
  BY <1>2, <1>3

\* No notes are worth nothing.
LEMMA ValueEmpty == Value({}) = 0
<1>1. Coins({}) = {}
  BY DEF Coins
<1> QED
  BY <1>1, FS_EmptySet DEF Value

\* One note is worth its amount.
LEMMA ValueSingle ==
    ASSUME NEW note \in Note
    PROVE  Value({note}) = note.amount
<1> DEFINE coin == [i \in 1 .. note.amount |-> <<note, i>>]
<1>0. note.amount \in 0 .. MaxAmount /\ note.amount \in Nat /\ MaxAmount \in Nat
  BY NoteConstants DEF Note
<1>1. coin \in Bijection(1 .. note.amount, Coins({note}))
  <2>1. coin \in [1 .. note.amount -> Coins({note})]
    BY <1>0 DEF Coins
  <2>2. \A i, j \in 1 .. note.amount : coin[i] = coin[j] => i = j
    OBVIOUS
  <2>3. ASSUME NEW c \in Coins({note}) PROVE \E i \in 1 .. note.amount : coin[i] = c
    <3>1. c = <<note, c[2]>> /\ c[2] \in 1 .. note.amount
      BY <1>0 DEF Coins
    <3> QED
      BY <3>1
  <2>4. coin \in Injection(1 .. note.amount, Coins({note}))
    BY <2>1, <2>2 DEF Injection, IsInjective
  <2>5. coin \in Surjection(1 .. note.amount, Coins({note}))
    BY <2>1, <2>3 DEF Surjection
  <2> QED
    BY <2>4, <2>5 DEF Bijection
<1>2. ExistsBijection(1 .. note.amount, Coins({note}))
  BY <1>1 DEF ExistsBijection
<1> QED
  BY <1>0, <1>2, FS_CountingElements DEF Value

\* Two notes are worth the sum of their amounts.
LEMMA ValuePair ==
    ASSUME NEW n1 \in Note, NEW n2 \in Note, n1 # n2
    PROVE  Value({n1, n2}) = n1.amount + n2.amount
<1>1. {n1} \in SUBSET Note /\ {n2} \in SUBSET Note /\ {n1} \cap {n2} = {}
  OBVIOUS
<1>2. Value({n1} \cup {n2}) = Value({n1}) + Value({n2})
  BY <1>1, ValueUnion
<1>3. {n1, n2} = {n1} \cup {n2}
  OBVIOUS
<1> QED
  BY <1>2, <1>3, ValueSingle

\* rootHistory, oldest first, is the roots of the last insertions.
HistoryShape ==
    /\ Len(rootHistory) = IF Len(leaves) <= ROOT_HISTORY_SIZE
                             THEN Len(leaves) ELSE ROOT_HISTORY_SIZE
    /\ \A i \in 1 .. Len(rootHistory) :
           rootHistory[i] = (Len(leaves) - Len(rootHistory)) + i

PoolInv == TypeOK /\ HistoryShape /\ commitments \subseteq LeafSet

-----------------------------------------------------------------------------
(* Sequences.                                                              *)

\* The ring buffer keeps the type of its roots.
LEMMA PushRootsType ==
    ASSUME NEW S, NEW history \in Seq(S), NEW roots \in Seq(S), NEW size \in Nat
    PROVE  PushRoots(history, roots, size) \in Seq(S)
<1> DEFINE all == history \o roots
<1>1. all \in Seq(S) /\ Len(all) \in Nat
  BY ConcatProperties, LenProperties
<1>2. CASE Len(all) <= size
  BY <1>1, <1>2 DEF PushRoots
<1>3. CASE ~(Len(all) <= size)
  <2> DEFINE m == Len(all) - size + 1
  <2>1. m \in 1 .. Len(all) + 1
    BY <1>1, <1>3
  <2>2. \A i \in m .. Len(all) : all[i] \in S
    BY <1>1, <2>1, ElementOfSeq
  <2>3. PushRoots(history, roots, size) = SubSeq(all, m, Len(all))
    BY <1>3 DEF PushRoots
  <2> HIDE DEF m
  <2>4. m \in Int /\ Len(all) \in Int
    BY <1>1, <2>1
  <2>5. SubSeq(all, m, Len(all)) \in Seq(S)
    BY <2>2, <2>4, SubSeqProperties
  <2> QED
    BY <2>3, <2>5
<1> QED
  BY <1>2, <1>3

\* The ring buffer after a call: the last size entries of all that was pushed.
LEMMA PushRootsShape ==
    ASSUME NEW S, NEW history \in Seq(S), NEW roots \in Seq(S), NEW size \in Nat
    PROVE  /\ Len(history \o roots) = Len(history) + Len(roots)
           /\ Len(history \o roots) <= size
                  => Len(PushRoots(history, roots, size)) = Len(history \o roots)
           /\ ~(Len(history \o roots) <= size) => Len(PushRoots(history, roots, size)) = size
           /\ \A i \in 1 .. Len(PushRoots(history, roots, size)) :
                  PushRoots(history, roots, size)[i]
                      = (history \o roots)[(Len(history \o roots)
                                               - Len(PushRoots(history, roots, size))) + i]
<1> DEFINE all == history \o roots
           new == PushRoots(history, roots, size)
<1>1. all \in Seq(S) /\ Len(all) = Len(history) + Len(roots) /\ Len(all) \in Nat
  BY ConcatProperties, LenProperties
<1>2. CASE Len(all) <= size
  <2>1. new = all
    BY <1>2 DEF PushRoots
  <2> HIDE DEF new, all
  <2>2. \A i \in 1 .. Len(new) : new[i] = all[(Len(all) - Len(new)) + i]
    BY <1>1, <2>1
  <2> QED
    BY <1>1, <1>2, <2>1, <2>2 DEF new, all
<1>3. CASE ~(Len(all) <= size)
  <2> DEFINE m == Len(all) - size + 1
  <2>1. m \in 1 .. Len(all) + 1
    BY <1>1, <1>3
  <2>2. \A i \in m .. Len(all) : all[i] \in S
    BY <1>1, <2>1, ElementOfSeq
  <2>3. new = SubSeq(all, m, Len(all))
    BY <1>3 DEF PushRoots
  <2> HIDE DEF m, new, all
  <2>4. m \in Int /\ Len(all) \in Int
    BY <1>1, <2>1
  <2>5. /\ Len(new) = IF m <= Len(all) THEN Len(all) - m + 1 ELSE 0
        /\ \A i \in 1 .. Len(all) - m + 1 : new[i] = all[m + i - 1]
    BY <2>2, <2>3, <2>4, SubSeqProperties
  <2>6. Len(all) - m + 1 = size
    BY <1>1 DEF m
  <2>7. Len(new) = size
    BY <1>1, <1>3, <2>1, <2>5, <2>6
  <2>8. ASSUME NEW i \in 1 .. Len(new) PROVE new[i] = all[(Len(all) - Len(new)) + i]
    <3>1. new[i] = all[m + i - 1]
      BY <2>5, <2>6, <2>7
    <3>2. m + i - 1 = (Len(all) - Len(new)) + i
      BY <1>1, <2>7 DEF m
    <3> QED
      BY <3>1, <3>2
  <2> QED
    BY <1>1, <1>3, <2>7, <2>8 DEF new, all
<1> QED
  BY <1>2, <1>3

\* A function on 1 .. n is a sequence.
LEMMA FunctionIsSeq ==
    ASSUME NEW S, NEW n \in Nat, NEW f \in [1 .. n -> S]
    PROVE  f \in Seq(S)
<1>1. Seq(S) = UNION {[1 .. m -> S] : m \in Nat}
  BY SeqDef, Zenon
<1> QED
  BY <1>1

\* What insert_leaf does for each of a call's outputs.
LEMMA InsertLeavesEffect ==
    ASSUME PoolInv, NEW notes \in Seq(Note), InsertLeaves(notes)
    PROVE  /\ leaves' \in Seq(Note) /\ Len(leaves') <= TREE_CAPACITY
           /\ rootHistory' \in Seq(1 .. TREE_CAPACITY)
           /\ HistoryShape'
           /\ LeafSet' = LeafSet \cup ToSet(notes)
<1> DEFINE roots == [i \in 1 .. Len(notes) |-> Len(leaves) + i]
<1>1. /\ leaves \in Seq(Note) /\ rootHistory \in Seq(1 .. TREE_CAPACITY)
      /\ Len(leaves) \in Nat /\ Len(notes) \in Nat /\ Len(rootHistory) \in Nat
      /\ TREE_CAPACITY \in Nat /\ ROOT_HISTORY_SIZE \in Nat \ {0}
  BY LenProperties, PoolConstants DEF PoolInv, TypeOK
<1>2. /\ Len(leaves) + Len(notes) <= TREE_CAPACITY /\ leaves' = leaves \o notes
      /\ rootHistory' = PushRoots(rootHistory, roots, ROOT_HISTORY_SIZE)
  BY DEF InsertLeaves
<1>3. /\ leaves' \in Seq(Note) /\ Len(leaves') = Len(leaves) + Len(notes)
      /\ \A i \in 1 .. Len(leaves) + Len(notes) :
             leaves'[i] = IF i <= Len(leaves) THEN leaves[i] ELSE notes[i - Len(leaves)]
  BY <1>1, <1>2, ConcatProperties
<1>4. roots \in Seq(1 .. TREE_CAPACITY) /\ Len(roots) = Len(notes)
  <2>1. roots \in [1 .. Len(notes) -> 1 .. TREE_CAPACITY]
    BY <1>1, <1>2
  <2>2. Len(notes) \in Nat
    BY <1>1
  <2>3. DOMAIN roots = 1 .. Len(notes)
    OBVIOUS
  <2> HIDE DEF roots
  <2>4. roots \in Seq(1 .. TREE_CAPACITY)
    BY <2>1, <2>2, FunctionIsSeq
  <2> QED
    BY <2>2, <2>3, <2>4, LenProperties
<1>5. rootHistory' \in Seq(1 .. TREE_CAPACITY)
  BY <1>1, <1>2, <1>4, PushRootsType
<1>6. HistoryShape'
  <2> DEFINE all == rootHistory \o roots
             H == Len(rootHistory)
  <2> DEFINE new == PushRoots(rootHistory, roots, ROOT_HISTORY_SIZE)
  <2>0. /\ Len(all) = H + Len(roots)
        /\ Len(all) <= ROOT_HISTORY_SIZE => Len(new) = Len(all)
        /\ ~(Len(all) <= ROOT_HISTORY_SIZE) => Len(new) = ROOT_HISTORY_SIZE
        /\ \A i \in 1 .. Len(new) : new[i] = all[(Len(all) - Len(new)) + i]
    <3>1. ROOT_HISTORY_SIZE \in Nat
      BY <1>1
    <3>2. rootHistory \in Seq(1 .. TREE_CAPACITY) /\ roots \in Seq(1 .. TREE_CAPACITY)
      BY <1>1, <1>4
    <3> HIDE DEF roots
    <3> QED
      BY <3>1, <3>2, PushRootsShape
  <2>1. /\ Len(all) = H + Len(notes)
        /\ Len(rootHistory') = IF Len(all) <= ROOT_HISTORY_SIZE
                                  THEN Len(all) ELSE ROOT_HISTORY_SIZE
        /\ \A i \in 1 .. Len(rootHistory') :
               rootHistory'[i] = all[(Len(all) - Len(rootHistory')) + i]
    BY <1>2, <1>4, <2>0
  <2>2. /\ H = IF Len(leaves) <= ROOT_HISTORY_SIZE THEN Len(leaves) ELSE ROOT_HISTORY_SIZE
        /\ \A i \in 1 .. H : rootHistory[i] = (Len(leaves) - H) + i
    BY DEF PoolInv, HistoryShape
  <2>3. \A i \in 1 .. H + Len(notes) :
            all[i] = IF i <= H THEN rootHistory[i] ELSE roots[i - H]
    BY <1>1, <1>4, ConcatProperties
  <2>4. \A i \in 1 .. H + Len(notes) : all[i] = (Len(leaves) - H) + i
    <3> SUFFICES ASSUME NEW i \in 1 .. H + Len(notes)
                 PROVE  all[i] = (Len(leaves) - H) + i
      OBVIOUS
    <3>1. CASE i <= H
      <4>1. i \in 1 .. H
        BY <1>1, <3>1
      <4>2. all[i] = rootHistory[i]
        BY <2>3, <3>1
      <4> QED
        BY <2>2, <4>1, <4>2
    <3>2. CASE ~(i <= H)
      <4>1. i - H \in 1 .. Len(notes)
        BY <1>1, <3>2
      <4>2. roots[i - H] = Len(leaves) + (i - H)
        BY <4>1
      <4> QED
        BY <1>1, <2>3, <3>2, <4>2
    <3> QED
      BY <3>1, <3>2
  <2>5. Len(rootHistory') = IF Len(leaves') <= ROOT_HISTORY_SIZE
                               THEN Len(leaves') ELSE ROOT_HISTORY_SIZE
    BY <1>1, <1>3, <2>1, <2>2
  <2>6. ASSUME NEW i \in 1 .. Len(rootHistory')
        PROVE  rootHistory'[i] = (Len(leaves') - Len(rootHistory')) + i
    <3>1. Len(rootHistory') \in Nat /\ Len(rootHistory') <= Len(all)
      BY <1>1, <2>1
    <3>2. (Len(all) - Len(rootHistory')) + i \in 1 .. H + Len(notes)
      BY <1>1, <2>1, <3>1
    <3>3. rootHistory'[i] = (Len(leaves) - H) + ((Len(all) - Len(rootHistory')) + i)
      BY <2>1, <2>4, <3>2
    <3> QED
      BY <1>1, <1>3, <2>1, <3>1, <3>3
  <2> QED
    BY <2>5, <2>6 DEF HistoryShape
<1>7. LeafSet' = LeafSet \cup ToSet(notes)
  <2>1. ToSet(notes) = {notes[i] : i \in 1 .. Len(notes)}
    BY LenProperties DEF ToSet
  <2>2. ASSUME NEW i \in 1 .. Len(leaves') PROVE leaves'[i] \in LeafSet \cup ToSet(notes)
    <3>1. CASE i <= Len(leaves)
      BY <1>1, <1>3, <3>1 DEF LeafSet
    <3>2. CASE ~(i <= Len(leaves))
      <4>1. i - Len(leaves) \in 1 .. Len(notes)
        BY <1>1, <1>3, <3>2
      <4> QED
        BY <1>1, <1>3, <2>1, <3>2, <4>1
    <3> QED
      BY <3>1, <3>2
  <2>3. ASSUME NEW i \in 1 .. Len(leaves) PROVE leaves[i] \in LeafSet'
    <3>1. i \in 1 .. Len(leaves') /\ leaves'[i] = leaves[i]
      BY <1>1, <1>3
    <3> QED
      BY <3>1 DEF LeafSet
  <2>4. ASSUME NEW i \in 1 .. Len(notes) PROVE notes[i] \in LeafSet'
    <3>1. /\ Len(leaves) + i \in 1 .. Len(leaves') /\ ~(Len(leaves) + i <= Len(leaves))
          /\ (Len(leaves) + i) - Len(leaves) = i
      BY <1>1, <1>3
    <3>2. leaves'[Len(leaves) + i] = notes[i]
      BY <1>1, <1>3, <3>1
    <3> QED
      BY <3>1, <3>2 DEF LeafSet
  <2> QED
    BY <2>1, <2>2, <2>3, <2>4 DEF LeafSet
<1> QED
  BY <1>1, <1>2, <1>3, <1>5, <1>6, <1>7

-----------------------------------------------------------------------------
(* The invariant.                                                          *)

\* A fresh pool.
LEMMA PoolInvInit == Init => PoolInv
<1> SUFFICES ASSUME v2Mode \in BOOLEAN, InitializeState PROVE PoolInv
  BY DEF Init, InitializeV1, InitializeV2
<1> USE DEF InitializeState
<1>1. LeafSet = {}
  BY EmptySeq DEF LeafSet
<1>2. TypeOK
  BY EmptySeq, PoolConstants DEF TypeOK, Asp!AspInit, Asp!AspTypeOK, Nm!NmInit, Nm!NmTypeOK
<1>3. HistoryShape
  BY EmptySeq, PoolConstants DEF HistoryShape
<1> QED
  BY <1>1, <1>2, <1>3 DEF PoolInv

\* A root the pool knows is one of its own, so a spend proof against it shows
\* that the note is in the tree.
LEMMA KnownRootProves ==
    ASSUME PoolInv, NEW note \in Note, NEW root, IsKnown(root), SpendProof(note, root)
    PROVE  note \in LeafSet
<1>1. /\ leaves \in Seq(Note) /\ rootHistory \in Seq(1 .. TREE_CAPACITY)
      /\ Len(leaves) \in Nat /\ TREE_CAPACITY \in Nat
  BY LenProperties, PoolConstants DEF PoolInv, TypeOK
<1>2. root \in Nat
  BY <1>1, ElementOfSeq DEF IsKnown, IsKnownRoot
<1>3. root # ForgedRoot
  BY <1>2 DEF ForgedRoot
<1> QED
  BY <1>3 DEF SpendProof, OpensIn, LeafSet

\* The association-set contracts keep their types and touch nothing else.
LEMMA AspStepKeepsType == TypeOK /\ AspStep => Asp!AspTypeOK' /\ Nm!NmTypeOK'
<1> SUFFICES ASSUME TypeOK, AspStep PROVE Asp!AspTypeOK' /\ Nm!NmTypeOK'
  OBVIOUS
<1>0. Asp!AspTypeOK /\ Nm!NmTypeOK
  BY DEF TypeOK
<1>1. CASE Asp!AspNext /\ UNCHANGED <<poolVars, blocked, blocklistState>>
  <2>1. Nm!NmTypeOK'
    BY <1>0, <1>1 DEF Nm!NmTypeOK
  <2>2. PICK key \in Owner : Asp!InsertAspLeaf(key)
    BY <1>1 DEF Asp!AspNext
  <2>3. /\ aspLeaves \in Seq(Owner) /\ Len(aspLeaves) \in Nat
        /\ aspHistory \in Seq(1 .. ASP_CAPACITY)
        /\ ASP_CAPACITY \in Nat /\ ASP_ROOT_HISTORY \in Nat
    BY <1>0, LenProperties, PoolConstants DEF Asp!AspTypeOK
  <2>4. /\ Len(aspLeaves) < ASP_CAPACITY /\ aspLeaves' = Append(aspLeaves, key)
        /\ aspHistory' = PushRoots(aspHistory, <<Len(aspLeaves) + 1>>, ASP_ROOT_HISTORY)
    BY <2>2 DEF Asp!InsertAspLeaf, Asp!PushRoots, PushRoots
  <2>5. aspLeaves' \in Seq(Owner) /\ Len(aspLeaves') <= ASP_CAPACITY
    BY <2>3, <2>4, AppendProperties
  <2>6. <<Len(aspLeaves) + 1>> \in Seq(1 .. ASP_CAPACITY)
    BY <2>3, <2>4
  <2>7. aspHistory' \in Seq(1 .. ASP_CAPACITY)
    BY <2>3, <2>4, <2>6, PushRootsType
  <2> QED
    BY <2>1, <2>5, <2>7 DEF Asp!AspTypeOK
<1>2. CASE Nm!NmNext /\ UNCHANGED <<poolVars, aspLeaves, aspHistory>>
  BY <1>0, <1>2 DEF Asp!AspTypeOK, Nm!NmTypeOK, Nm!NmNext, Nm!InitializeBlocklist, Nm!BlockLeaf
<1> QED
  BY <1>1, <1>2 DEF AspStep

-----------------------------------------------------------------------------
(* The abstract ledger's steps, in the pool's terms.                       *)

\* The ledger's notion of a note and of value are the pool's.
LEMMA SameValue == Ledger!Note = Note /\ \A notes : Ledger!Value(notes) = Value(notes)
<1>1. Ledger!Note = Note
  BY DEF Ledger!Note, Note
<1>2. ASSUME NEW notes PROVE Ledger!Value(notes) = Value(notes)
  <2>1. Ledger!Coins(notes) = Coins(notes)
    BY DEF Ledger!Coins, Coins
  <2> QED
    BY <2>1 DEF Ledger!Value, Value, Ledger!Cardinality, Cardinality
<1> QED
  BY <1>1, <1>2

\* Appending notes to the tree and using up nullifiers moves notes the way the
\* ledger allows, and mints at most what was appended.
LEMMA AppendMoves ==
    ASSUME PoolInv, NEW outs \in SUBSET Note, LeafSet' = LeafSet \cup outs,
           NEW ins \in SUBSET Note, nullifiers' = nullifiers \cup ins,
           ins \cap nullifiers = {}
    PROVE  /\ Ledger!NotesMove
           /\ Ledger!Retired = ins
           /\ Ledger!Minted \in SUBSET outs
           /\ Value(Ledger!Minted) \in Nat /\ Value(outs) \in Nat
           /\ Value(Ledger!Minted) <= Value(outs)
<1>1. LeafSet \in SUBSET Note /\ nullifiers \in SUBSET Note
  BY ElementOfSeq DEF PoolInv, TypeOK, LeafSet
<1>2. Ledger!Retired = ins
  BY DEF Ledger!Retired
<1>3. Ledger!Minted \in SUBSET outs
  BY DEF Ledger!Minted, LiveNotes
<1>4. Ledger!NotesMove
  BY <1>1, SameValue DEF Ledger!NotesMove, Ledger!Retired, LiveNotes
<1>5. Ledger!Minted \in SUBSET Note
  BY <1>3
<1> QED
  BY <1>2, <1>3, <1>4, <1>5, ValueType, ValueMonotone

\* mark_nullifier keeps the types of what it writes.
LEMMA MarkNullifiersEffect ==
    ASSUME PoolInv, NEW ins \in SUBSET Note, MarkNullifiers(ins)
    PROVE  /\ nullifiers' = nullifiers \cup ins /\ ins \cap nullifiers = {}
           /\ nullifiers' \in SUBSET Note /\ spentCount' \in Nat
<1>1. IsFiniteSet(ins)
  BY NoteIsFinite, FS_Subset
<1>2. Cardinality(ins) \in Nat
  BY <1>1, FS_CardinalityType
<1> QED
  BY <1>2 DEF MarkNullifiers, PoolInv, TypeOK

\* A deposit is a Shield step.
LEMMA DepositRefines ==
    ASSUME PoolInv, NEW note \in Note, NEW aspRoot, NEW amount \in Nat,
           Deposit(note, amount, aspRoot)
    PROVE  PoolInv' /\ Ledger!LedgerNext
<1>1. /\ note.amount = amount /\ InsertLeaves(<<note>>)
      /\ commitments' = commitments \cup {note} /\ custody' = custody + amount
      /\ nullifiers' = nullifiers /\ held' = held
      /\ UNCHANGED <<spentCount, floor, blocklistEnabled, authorities, v2Mode, aspState>>
  BY DEF Deposit, DepositProof
<1>2. <<note>> \in Seq(Note) /\ ToSet(<<note>>) = {note}
  BY DEF ToSet
<1>3. /\ leaves' \in Seq(Note) /\ Len(leaves') <= TREE_CAPACITY
      /\ rootHistory' \in Seq(1 .. TREE_CAPACITY) /\ HistoryShape'
      /\ LeafSet' = LeafSet \cup {note}
  BY <1>1, <1>2, InsertLeavesEffect
<1>4. custody \in Nat /\ custody' \in Nat /\ custody' - custody = amount
  BY <1>1 DEF PoolInv, TypeOK
<1>5. TypeOK'
  BY <1>1, <1>3, <1>4 DEF PoolInv, TypeOK, aspState, Asp!AspTypeOK, Nm!NmTypeOK
<1>6. PoolInv'
  BY <1>1, <1>3, <1>5 DEF PoolInv
<1>7. /\ Ledger!NotesMove /\ Ledger!Retired = {}
      /\ Value(Ledger!Minted) <= Value({note})
  <2>1. /\ {note} \in SUBSET Note /\ {} \in SUBSET Note
        /\ nullifiers' = nullifiers \cup {} /\ {} \cap nullifiers = {}
    BY <1>1
  <2> QED
    BY <1>3, <2>1, AppendMoves
<1>8. Value({note}) = amount
  BY <1>1, ValueSingle
<1>9. Ledger!Shield
  BY <1>1, <1>4, <1>7, <1>8, SameValue DEF Ledger!Shield
<1> QED
  BY <1>6, <1>7, <1>9 DEF Ledger!LedgerNext

\* The invariant after a call that spends ins and inserts outs: a helper that
\* the transfers and the settlement share.
LEMMA SpendInsertKeeps ==
    ASSUME PoolInv, NEW ins \in SUBSET Note, MarkNullifiers(ins),
           NEW outs \in Seq(Note), InsertLeaves(outs),
           commitments' \in SUBSET (commitments \cup ToSet(outs)),
           custody' \in Nat, held' \in Nat,
           UNCHANGED <<floor, blocklistEnabled, authorities, v2Mode, aspState>>
    PROVE  /\ PoolInv'
           /\ Ledger!NotesMove /\ Ledger!Retired = ins
           /\ Value(Ledger!Minted) \in Nat /\ Value(ToSet(outs)) \in Nat
           /\ Value(Ledger!Minted) <= Value(ToSet(outs))
<1>1. /\ leaves' \in Seq(Note) /\ Len(leaves') <= TREE_CAPACITY
      /\ rootHistory' \in Seq(1 .. TREE_CAPACITY) /\ HistoryShape'
      /\ LeafSet' = LeafSet \cup ToSet(outs)
  BY InsertLeavesEffect
<1>2. /\ nullifiers' = nullifiers \cup ins /\ ins \cap nullifiers = {}
      /\ nullifiers' \in SUBSET Note /\ spentCount' \in Nat
  BY MarkNullifiersEffect
<1>3. ToSet(outs) \in SUBSET Note
  BY ElementOfSeq, LenProperties DEF ToSet
<1>4. commitments' \in SUBSET Note /\ commitments' \subseteq LeafSet'
  BY <1>1, <1>3 DEF PoolInv, TypeOK
<1>5. TypeOK'
  BY <1>1, <1>2, <1>4 DEF PoolInv, TypeOK, aspState, Asp!AspTypeOK, Nm!NmTypeOK
<1>6. PoolInv'
  BY <1>1, <1>4, <1>5 DEF PoolInv
<1>7. /\ Ledger!NotesMove /\ Ledger!Retired = ins
      /\ Value(Ledger!Minted) \in Nat /\ Value(ToSet(outs)) \in Nat
      /\ Value(Ledger!Minted) <= Value(ToSet(outs))
  BY <1>1, <1>2, <1>3, AppendMoves
<1> QED
  BY <1>6, <1>7

\* A transfer of one note is an Exchange step.
LEMMA TransferV2Refines ==
    ASSUME PoolInv, NEW note \in Note, NEW out \in Note, NEW root,
           TransferV2(note, out, root)
    PROVE  PoolInv' /\ Ledger!LedgerNext
<1>1. /\ IsKnown(root) /\ SpendProof(note, root) /\ MarkNullifiers({note})
      /\ note.amount = Denomination /\ out.amount = Denomination
      /\ InsertLeaves(<<out>>) /\ commitments' = commitments \cup {out}
      /\ UNCHANGED <<floor, blocklistEnabled, authorities, custody, held, v2Mode, aspState>>
  BY DEF TransferV2
<1>2. <<out>> \in Seq(Note) /\ ToSet(<<out>>) = {out} /\ {note} \in SUBSET Note
  BY DEF ToSet
<1>3. custody' \in Nat /\ held' \in Nat
  BY <1>1 DEF PoolInv, TypeOK
<1>4. /\ PoolInv' /\ Ledger!NotesMove /\ Ledger!Retired = {note}
      /\ Value(Ledger!Minted) <= Value({out})
  BY <1>1, <1>2, <1>3, SpendInsertKeeps
<1>5. note \in LiveNotes
  BY <1>1, KnownRootProves DEF LiveNotes, MarkNullifiers
<1>6. Ledger!Retired \cap LiveNotes = {note}
  BY <1>4, <1>5
<1>7. Value({note}) = Denomination /\ Value({out}) = Denomination
  BY <1>1, ValueSingle
<1>8. Ledger!Exchange
  BY <1>1, <1>4, <1>6, <1>7, SameValue DEF Ledger!Exchange
<1> QED
  BY <1>4, <1>8 DEF Ledger!LedgerNext

\* A transfer of two notes, the second possibly a dummy, is an Exchange step.
LEMMA TransferV3Refines ==
    ASSUME PoolInv, NEW in1 \in Note, NEW in2 \in Note, NEW isDummy2, NEW root,
           TransferV3(in1, in2, isDummy2, root)
    PROVE  PoolInv' /\ Ledger!LedgerNext
<1>0. /\ IsKnown(root) /\ in1 # in2 /\ MarkNullifiers({in1, in2})
      /\ UNCHANGED <<floor, blocklistEnabled, authorities, custody, held, v2Mode, aspState>>
  BY DEF TransferV3
<1>2. PICK out1 \in Note \ commitments, out2 \in Note \ commitments :
          /\ out1 # out2
          /\ TransferProof(in1, in2, isDummy2, out1, out2, root)
          /\ InsertLeaves(<<out1, out2>>)
          /\ commitments' = commitments \cup {out1, out2}
  BY DEF TransferV3
<1>1. /\ SpendProof(in1, root) /\ (in2.amount = 0 \/ SpendProof(in2, root))
      /\ in1.amount + in2.amount = out1.amount + out2.amount
  BY <1>2 DEF TransferProof
<1>3. /\ <<out1, out2>> \in Seq(Note) /\ ToSet(<<out1, out2>>) = {out1, out2}
      /\ {in1, in2} \in SUBSET Note
  BY DEF ToSet
<1>4. custody' \in Nat /\ held' \in Nat
  BY <1>0 DEF PoolInv, TypeOK
<1>5. /\ PoolInv' /\ Ledger!NotesMove /\ Ledger!Retired = {in1, in2}
      /\ Value(Ledger!Minted) <= Value({out1, out2})
  BY <1>0, <1>2, <1>3, <1>4, SpendInsertKeeps
<1>6. in1 \in LiveNotes /\ (in2.amount = 0 \/ in2 \in LiveNotes)
  BY <1>0, <1>1, KnownRootProves DEF LiveNotes, MarkNullifiers
<1>7. in1.amount \in Nat /\ in2.amount \in Nat
  BY NoteConstants DEF Note
<1>8. Value(Ledger!Retired \cap LiveNotes) = in1.amount + in2.amount
  <2>1. CASE in2 \in LiveNotes
    <3>1. Ledger!Retired \cap LiveNotes = {in1, in2}
      BY <1>5, <1>6, <2>1
    <3> QED
      BY <1>0, <3>1, ValuePair
  <2>2. CASE in2 \notin LiveNotes
    <3>1. Ledger!Retired \cap LiveNotes = {in1} /\ in2.amount = 0
      BY <1>5, <1>6, <2>2
    <3>2. Value({in1}) = in1.amount
      BY ValueSingle
    <3> QED
      BY <1>7, <3>1, <3>2
  <2> QED
    BY <2>1, <2>2
<1>9. Value({out1, out2}) = in1.amount + in2.amount
  BY <1>1, <1>2, ValuePair
<1>10. Ledger!Exchange
  BY <1>0, <1>5, <1>8, <1>9, SameValue DEF Ledger!Exchange
<1> QED
  BY <1>5, <1>10 DEF Ledger!LedgerNext

\* What leaves the tree, the maps but the nullifiers, and the settings alone
\* keeps the invariant: withdrawals and rage-quits.
LEMMA ExitRefines ==
    ASSUME PoolInv, NEW ins \in SUBSET LeafSet, MarkNullifiers(ins),
           custody >= Value(ins), custody' = custody - Value(ins),
           UNCHANGED <<leaves, rootHistory, commitments, floor, blocklistEnabled,
                       authorities, held, v2Mode, aspState>>
    PROVE  PoolInv' /\ Ledger!LedgerNext
<1>0. LeafSet \in SUBSET Note
  BY ElementOfSeq DEF PoolInv, TypeOK, LeafSet
<1>1. ins \in SUBSET Note
  BY <1>0
<1>2. /\ nullifiers' = nullifiers \cup ins /\ ins \cap nullifiers = {}
      /\ nullifiers' \in SUBSET Note /\ spentCount' \in Nat
  BY <1>1, MarkNullifiersEffect
<1>3. LeafSet' = LeafSet /\ HistoryShape' /\ held' = held /\ commitments' = commitments
  BY DEF PoolInv, HistoryShape, LeafSet
<1>4. custody' \in Nat
  <2>1. Value(ins) \in Nat /\ custody \in Nat
    BY <1>1, ValueType DEF PoolInv, TypeOK
  <2> QED
    BY <2>1
<1>5. TypeOK'
  BY <1>2, <1>4 DEF PoolInv, TypeOK, aspState, Asp!AspTypeOK, Nm!NmTypeOK
<1>6. PoolInv'
  BY <1>3, <1>5 DEF PoolInv
<1>7. /\ Ledger!NotesMove /\ Ledger!Retired = ins /\ Ledger!Minted = {}
  <2>1. LeafSet' = LeafSet \cup {} /\ {} \in SUBSET Note
    BY <1>3
  <2> QED
    BY <1>1, <1>2, <2>1, AppendMoves
<1>8. ins \subseteq LiveNotes
  BY <1>2 DEF LiveNotes
<1>9. Ledger!Exit
  BY <1>3, <1>7, <1>8, SameValue DEF Ledger!Exit
<1> QED
  BY <1>6, <1>7, <1>9 DEF Ledger!LedgerNext

\* The withdrawals of one transaction, together, are an Exit step.
LEMMA WithdrawRefines ==
    ASSUME PoolInv, NEW notes \in SUBSET Note, WithdrawAll(notes)
    PROVE  PoolInv' /\ Ledger!LedgerNext
<1>1. \A note \in notes : ProvedInPool(note)
  BY DEF WithdrawAll
<1>2. notes \in SUBSET LeafSet
  <2> SUFFICES ASSUME NEW note \in notes PROVE note \in LeafSet
    OBVIOUS
  <2>1. PICK root \in Root : IsKnown(root) /\ SpendProof(note, root)
    BY <1>1 DEF ProvedInPool
  <2> QED
    BY <2>1, KnownRootProves
<1> QED
  BY <1>2, ExitRefines DEF WithdrawAll

\* A rage-quit is an Exit step.
LEMMA RageQuitRefines ==
    ASSUME PoolInv, NEW note \in Note, RageQuitV2(note)
    PROVE  PoolInv' /\ Ledger!LedgerNext
<1>1. {note} \in SUBSET LeafSet
  BY DEF RageQuitV2, PoolInv
<1>2. Value({note}) = Denomination
  BY ValueSingle DEF RageQuitV2
<1> QED
  BY <1>1, <1>2, ExitRefines DEF RageQuitV2

\* execute_settlement is a Settle step.
LEMMA SettlementRefines ==
    ASSUME PoolInv, NEW a \in Contract, NEW ins \in SUBSET Note, NEW out \in Seq(Note),
           NEW payout \in Nat, ExecuteSettlement(a, ins, out, payout)
    PROVE  PoolInv' /\ Ledger!LedgerNext
<1> DEFINE minted == Value(ToSet(out))
<1>1. /\ ins \subseteq LeafSet /\ minted + payout <= held + Value(ins)
      /\ MarkNullifiers(ins) /\ InsertLeaves(out)
      /\ custody >= payout /\ custody' = custody - payout
      /\ held' = (held + Value(ins)) - (minted + payout)
      /\ UNCHANGED <<commitments, floor, blocklistEnabled, authorities, v2Mode, aspState>>
  BY DEF ExecuteSettlement, TrustedSettlement, Settle
<1>2. ToSet(out) \in SUBSET Note
  BY ElementOfSeq, LenProperties DEF ToSet
<1>3. Value(ins) \in Nat /\ minted \in Nat /\ custody \in Nat /\ held \in Nat
  BY <1>2, ValueType DEF PoolInv, TypeOK
<1> HIDE DEF minted
<1>4. custody' \in Nat /\ custody' <= custody /\ custody - custody' = payout /\ held' \in Nat
  BY <1>1, <1>3
<1>5. commitments' \in SUBSET (commitments \cup ToSet(out))
  BY <1>1
<1>6. /\ PoolInv' /\ Ledger!NotesMove /\ Ledger!Retired = ins
      /\ Value(Ledger!Minted) \in Nat /\ Value(Ledger!Minted) <= minted
  BY <1>1, <1>4, <1>5, SpendInsertKeeps DEF minted
<1>7. Ledger!Retired \subseteq LiveNotes
  BY <1>1, <1>6 DEF MarkNullifiers, LiveNotes
<1>8. held' + Value(Ledger!Minted) + (custody - custody') <= held + Value(ins)
  <2>1. held' = (held + Value(ins)) - (minted + payout) /\ custody - custody' = payout
    BY <1>1, <1>4
  <2>2. Value(Ledger!Minted) \in Nat /\ Value(Ledger!Minted) <= minted
    BY <1>6
  <2> QED
    BY <1>3, <2>1, <2>2
<1>9. Ledger!Settle
  BY <1>4, <1>6, <1>7, <1>8, SameValue DEF Ledger!Settle
<1> QED
  BY <1>6, <1>9 DEF Ledger!LedgerNext

\* Tokens sent to the pool are a Fund step.
LEMMA ReceiveRefines ==
    ASSUME PoolInv, NEW amount \in Nat, ReceiveTokens(amount)
    PROVE  PoolInv' /\ Ledger!LedgerNext
<1>1. /\ custody' = custody + amount /\ held' = held + amount
      /\ UNCHANGED <<leaves, rootHistory, commitments, nullifiers, spentCount,
                     floor, blocklistEnabled, authorities, v2Mode, aspState>>
  BY DEF ReceiveTokens
<1>2. /\ custody' \in Nat /\ held' \in Nat /\ custody <= custody'
      /\ held' - held = custody' - custody
  BY <1>1 DEF PoolInv, TypeOK
<1>3. LeafSet' = LeafSet /\ HistoryShape'
  BY <1>1 DEF PoolInv, HistoryShape, LeafSet
<1>4. TypeOK'
  BY <1>1, <1>2 DEF PoolInv, TypeOK, aspState, Asp!AspTypeOK, Nm!NmTypeOK
<1>5. PoolInv'
  BY <1>1, <1>3, <1>4 DEF PoolInv
<1>6. /\ Ledger!NotesMove /\ Ledger!Retired = {} /\ Ledger!Minted = {}
  <2>1. /\ LeafSet' = LeafSet \cup {} /\ {} \in SUBSET Note
        /\ nullifiers' = nullifiers \cup {} /\ {} \cap nullifiers = {}
    BY <1>1, <1>3
  <2> QED
    BY <2>1, AppendMoves
<1>7. Ledger!Fund
  BY <1>2, <1>6 DEF Ledger!Fund
<1> QED
  BY <1>5, <1>6, <1>7 DEF Ledger!LedgerNext

-----------------------------------------------------------------------------
(* The pool.                                                               *)

\* Settings and the association-set contracts are no concern of the ledger.
LEMMA AdminRefines ==
    ASSUME PoolInv, AdminStep \/ AspStep \/ UNCHANGED vars
    PROVE  PoolInv' /\ UNCHANGED Ledger!ledgerVars
<1>1. UNCHANGED <<v2Mode, leaves, rootHistory, commitments, nullifiers, custody, held>>
  BY DEF AdminStep, AspStep, vars, poolVars, SetAnonymityFloor, SyncSpentCount,
         SetBlocklistEnabled, AddSettlementAuthority, RemoveSettlementAuthority
<1>2. /\ spentCount' \in Nat /\ floor' \in Nat /\ blocklistEnabled' \in BOOLEAN
      /\ authorities' \subseteq Contract
  <2>1. CASE AdminStep
    <3>1. IsFiniteSet(nullifiers)
      BY NoteIsFinite, FS_Subset DEF PoolInv, TypeOK
    <3>2. Cardinality(nullifiers) + SyncSlack \in Nat
      BY <3>1, FS_CardinalityType, PoolConstants
    <3>3. CASE \E f \in Floors : SetAnonymityFloor(f)
      BY <3>3, PoolConstants DEF SetAnonymityFloor, PoolInv, TypeOK
    <3>4. CASE \E n \in 0 .. Cardinality(nullifiers) + SyncSlack : SyncSpentCount(n)
      BY <3>2, <3>4 DEF SyncSpentCount, PoolInv, TypeOK
    <3>5. CASE \E enabled \in BOOLEAN : SetBlocklistEnabled(enabled)
      BY <3>5 DEF SetBlocklistEnabled, PoolInv, TypeOK
    <3>6. CASE \E a \in Contract : AddSettlementAuthority(a) \/ RemoveSettlementAuthority(a)
      BY <3>6 DEF AddSettlementAuthority, RemoveSettlementAuthority, PoolInv, TypeOK
    <3> QED
      BY <2>1, <3>3, <3>4, <3>5, <3>6 DEF AdminStep
  <2>2. CASE AspStep \/ UNCHANGED vars
    BY <2>2 DEF AspStep, vars, poolVars, PoolInv, TypeOK
  <2> QED
    BY <2>1, <2>2
<1>3. Asp!AspTypeOK' /\ Nm!NmTypeOK'
  <2>1. CASE AspStep
    BY <2>1, AspStepKeepsType DEF PoolInv
  <2>2. CASE AdminStep \/ UNCHANGED vars
    <3>1. UNCHANGED aspState
      BY <2>2 DEF AdminStep, vars, SetAnonymityFloor, SyncSpentCount,
         SetBlocklistEnabled, AddSettlementAuthority, RemoveSettlementAuthority
    <3> QED
      BY <3>1 DEF PoolInv, TypeOK, aspState, Asp!AspTypeOK, Nm!NmTypeOK
  <2> QED
    BY <2>1, <2>2
<1>4. LeafSet' = LeafSet /\ HistoryShape'
  BY <1>1 DEF PoolInv, HistoryShape, LeafSet
<1>5. TypeOK'
  BY <1>1, <1>2, <1>3 DEF PoolInv, TypeOK
<1>6. PoolInv'
  BY <1>1, <1>4, <1>5 DEF PoolInv
<1> QED
  BY <1>1, <1>4, <1>6 DEF Ledger!ledgerVars, LiveNotes

\* Every step of the pool keeps the invariant and is a step of the ledger.
LEMMA PoolInvNext ==
    PoolInv /\ [Next]_vars => PoolInv' /\ [Ledger!LedgerNext]_(Ledger!ledgerVars)
<1> SUFFICES ASSUME PoolInv, [Next]_vars
             PROVE  PoolInv' /\ (Ledger!LedgerNext \/ UNCHANGED Ledger!ledgerVars)
  OBVIOUS
<1>1. CASE DepositStep
  <2>1. PICK note \in Note, aspRoot \in AspRoot :
            \/ DepositV2(note, aspRoot)
            \/ \E amount \in 1 .. MaxAmount : DepositV3(note, amount, aspRoot)
    BY <1>1 DEF DepositStep
  <2>2. \E amount \in Nat : Deposit(note, amount, aspRoot)
    BY <2>1, PoolConstants DEF DepositV2, DepositV3
  <2> QED
    BY <2>2, DepositRefines
<1>2. CASE TransferStep
  BY <1>2, TransferV2Refines, TransferV3Refines DEF TransferStep
<1>3. CASE WithdrawStep
  <2>1. \E notes \in SUBSET Note : WithdrawAll(notes)
    BY <1>3 DEF WithdrawStep, WithdrawV2, WithdrawV3, WithdrawV3Batch
  <2> QED
    BY <2>1, WithdrawRefines
<1>4. CASE RageQuitStep
  BY <1>4, RageQuitRefines DEF RageQuitStep
<1>5. CASE SettlementStep
  <2>1. CASE \E a \in Contract, ins \in AtMostOneNote, out \in SeqOf(Note, 1),
                payout \in 0 .. MaxFund : ExecuteSettlement(a, ins, out, payout)
    <3>1. PICK a \in Contract, ins \in AtMostOneNote, out \in SeqOf(Note, 1),
               payout \in 0 .. MaxFund : ExecuteSettlement(a, ins, out, payout)
      BY <2>1
    <3>2. ins \in SUBSET Note /\ payout \in Nat
      BY PoolConstants DEF AtMostOneNote
    <3>3. out \in Seq(Note)
      <4>1. PICK n \in 0 .. 1 : out \in [1 .. n -> Note]
        BY <3>1 DEF SeqOf
      <4> QED
        BY <4>1, SeqDef
    <3> QED
      BY <3>1, <3>2, <3>3, SettlementRefines
  <2>2. CASE \E amount \in 1 .. MaxFund :
                 \/ ReceiveTokens(amount)
                 \/ \E a \in Contract : PullPublicDeposit(a, amount)
    <3>1. \E amount \in Nat : ReceiveTokens(amount)
      BY <2>2, PoolConstants DEF PullPublicDeposit
    <3> QED
      BY <3>1, ReceiveRefines
  <2> QED
    BY <1>5, <2>1, <2>2 DEF SettlementStep
<1>6. CASE AdminStep \/ AspStep \/ UNCHANGED vars
  BY <1>6, AdminRefines
<1> QED
  BY <1>1, <1>2, <1>3, <1>4, <1>5, <1>6 DEF Next

\* The pool's state keeps its types, its ring buffer the order of the roots,
\* and every recorded commitment is a leaf.
THEOREM PoolInvariant == Spec => []PoolInv
BY PoolInvInit, PoolInvNext, PTL DEF Spec

\* The pool, with its tree, roots, proofs and maps, implements the abstract
\* ledger: deposits, transfers, withdrawals, rage-quits and settlements.
THEOREM PoolRefinesLedger == Spec => RefinesLedger
<1>1. Init => Ledger!LedgerInit
  BY EmptySeq DEF Init, InitializeV1, InitializeV2, InitializeState, Ledger!LedgerInit, LiveNotes, LeafSet
<1> QED
  BY <1>1, PoolInvInit, PoolInvNext, PTL DEF Spec, RefinesLedger, Ledger!LedgerSpec

-----------------------------------------------------------------------------
(* What the abstract ledger promises, with the pool's live notes and       *)
(* nullifiers for its state.  Nothing below looks inside the pool: only    *)
(* the ledger's own steps are used.  The type, SpentIsFinal and Backed are *)
(* inductive together: a step that retires a live note frees exactly its   *)
(* value only because the note is worth it once.                           *)

LedgerInv == Ledger!LedgerTypeOK /\ Ledger!SpentIsFinal /\ Ledger!Backed

\* The empty ledger is backed.
LEMMA LedgerInvInit == Ledger!LedgerInit => LedgerInv
BY SameValue, ValueEmpty
   DEF Ledger!LedgerInit, LedgerInv, Ledger!LedgerTypeOK, Ledger!SpentIsFinal, Ledger!Backed

\* What NotesMove does to the value of the live notes: it grows by the minted
\* notes and shrinks by the retired ones that were alive.
LEMMA LiveValueMoves ==
    ASSUME Ledger!LedgerTypeOK, Ledger!SpentIsFinal, Ledger!NotesMove
    PROVE  /\ Value(LiveNotes') = (Value(LiveNotes) - Value(Ledger!Retired \cap LiveNotes))
                                      + Value(Ledger!Minted)
           /\ Value(LiveNotes) \in Nat /\ Value(LiveNotes') \in Nat
           /\ Value(Ledger!Retired) \in Nat /\ Value(Ledger!Retired \cap LiveNotes) \in Nat
           /\ Value(Ledger!Minted) \in Nat
<1> DEFINE minted == Ledger!Minted
           gone   == Ledger!Retired \cap LiveNotes
<1>1. /\ LiveNotes \in SUBSET Note /\ LiveNotes' \in SUBSET Note
      /\ Ledger!Retired \in SUBSET Note /\ minted \in SUBSET Note
      /\ gone \in SUBSET LiveNotes /\ gone \in SUBSET Note
  BY SameValue DEF Ledger!LedgerTypeOK, Ledger!NotesMove, Ledger!Retired, Ledger!Minted
<1>2. LiveNotes' = (LiveNotes \ gone) \cup minted
  BY <1>1 DEF Ledger!SpentIsFinal, Ledger!NotesMove, Ledger!Retired, Ledger!Minted
<1>3. (LiveNotes \ gone) \cap minted = {}
  BY DEF Ledger!Minted
<1> HIDE DEF minted, gone
<1>4. Value(LiveNotes \ gone) = Value(LiveNotes) - Value(gone)
  BY <1>1, ValueRemove
<1>5. LiveNotes \ gone \in SUBSET Note
  BY <1>1
<1>6. Value((LiveNotes \ gone) \cup minted) = Value(LiveNotes \ gone) + Value(minted)
  BY <1>1, <1>3, <1>5, ValueUnion
<1>7. /\ Value(LiveNotes) \in Nat /\ Value(LiveNotes') \in Nat
      /\ Value(Ledger!Retired) \in Nat /\ Value(gone) \in Nat /\ Value(minted) \in Nat
  BY <1>1, ValueType
<1>8. Value(LiveNotes') = (Value(LiveNotes) - Value(gone)) + Value(minted)
  BY <1>2, <1>4, <1>6
<1> QED
  BY <1>7, <1>8 DEF minted, gone

\* Every step of the ledger keeps its invariant.
LEMMA LedgerInvNext == LedgerInv /\ [Ledger!LedgerNext]_(Ledger!ledgerVars) => LedgerInv'
<1> SUFFICES ASSUME LedgerInv, [Ledger!LedgerNext]_(Ledger!ledgerVars) PROVE LedgerInv'
  OBVIOUS
<1>1. CASE UNCHANGED Ledger!ledgerVars
  BY <1>1, SameValue
     DEF LedgerInv, Ledger!ledgerVars, Ledger!LedgerTypeOK, Ledger!SpentIsFinal, Ledger!Backed
<1>2. CASE Ledger!LedgerNext
  <2> DEFINE retired == Ledger!Retired
             minted  == Ledger!Minted
             gone    == retired \cap LiveNotes
  <2>1. Ledger!NotesMove
    BY <1>2 DEF Ledger!LedgerNext
  <2>2. /\ Ledger!SpentIsFinal'
        /\ LiveNotes' \in SUBSET Ledger!Note /\ nullifiers' \in SUBSET Ledger!Note
    BY <2>1 DEF Ledger!NotesMove, Ledger!SpentIsFinal
  <2>3. /\ Value(LiveNotes') = (Value(LiveNotes) - Value(gone)) + Value(minted)
        /\ Value(LiveNotes) \in Nat /\ Value(LiveNotes') \in Nat
        /\ Value(retired) \in Nat /\ Value(gone) \in Nat /\ Value(minted) \in Nat
    BY <2>1, LiveValueMoves DEF LedgerInv
  <2>4. custody \in Nat /\ held \in Nat /\ Value(LiveNotes) + held <= custody
    BY SameValue DEF LedgerInv, Ledger!LedgerTypeOK, Ledger!Backed
  <2> SUFFICES custody' \in Nat /\ held' \in Nat /\ Value(LiveNotes') + held' <= custody'
    BY <2>2, SameValue DEF LedgerInv, Ledger!LedgerTypeOK, Ledger!Backed
  <2>5. CASE Ledger!Shield
    <3>1. /\ gone = {} /\ custody' \in Nat /\ held' = held
          /\ Value(minted) <= custody' - custody
      BY <2>5, SameValue DEF Ledger!Shield
    <3>2. Value(gone) = 0
      BY <3>1, ValueEmpty
    <3> HIDE DEF gone, minted, retired
    <3> QED
      BY <2>3, <2>4, <3>1, <3>2
  <2>6. CASE Ledger!Exchange
    <3>1. Value(minted) <= Value(gone) /\ custody' = custody /\ held' = held
      BY <2>6, SameValue DEF Ledger!Exchange
    <3> HIDE DEF gone, minted, retired
    <3> QED
      BY <2>3, <2>4, <3>1
  <2>7. CASE Ledger!Exit
    <3>1. /\ gone = retired /\ minted = {}
          /\ custody' = custody - Value(retired) /\ held' = held
      BY <2>7, SameValue DEF Ledger!Exit
    <3>2. Value(minted) = 0 /\ Value(gone) = Value(retired)
      BY <3>1, ValueEmpty
    <3> HIDE DEF gone, minted, retired
    <3> QED
      BY <2>3, <2>4, <3>1, <3>2
  <2>8. CASE Ledger!Settle
    <3>1. /\ gone = retired
          /\ held' \in Nat /\ custody' \in Nat /\ custody' <= custody
          /\ held' + Value(minted) + (custody - custody') <= held + Value(retired)
      BY <2>8, SameValue DEF Ledger!Settle
    <3>2. Value(gone) = Value(retired)
      BY <3>1
    <3> HIDE DEF gone, minted, retired
    <3> QED
      BY <2>3, <2>4, <3>1, <3>2
  <2>9. CASE Ledger!Fund
    <3>1. /\ gone = {} /\ minted = {}
          /\ custody' \in Nat /\ held' \in Nat /\ held' - held = custody' - custody
      BY <2>9 DEF Ledger!Fund
    <3>2. Value(gone) = 0 /\ Value(minted) = 0
      BY <3>1, ValueEmpty
    <3> HIDE DEF gone, minted, retired
    <3> QED
      BY <2>3, <2>4, <3>1, <3>2
  <2> QED
    BY <1>2, <2>5, <2>6, <2>7, <2>8, <2>9 DEF Ledger!LedgerNext
<1> QED
  BY <1>1, <1>2

\* Whatever moves by the ledger's rules is always well formed, pays a note at
\* most once, and can always pay every unspent note and everything the
\* settlement contracts hold.
THEOREM LedgerCorrect ==
    Ledger!LedgerSpec => [](Ledger!LedgerTypeOK /\ Ledger!SpentIsFinal /\ Ledger!Backed)
<1>1. LedgerInv => Ledger!LedgerTypeOK /\ Ledger!SpentIsFinal /\ Ledger!Backed
  BY DEF LedgerInv
<1> QED
  BY <1>1, LedgerInvInit, LedgerInvNext, PTL DEF Ledger!LedgerSpec

\* The pool's tokens always cover every spendable note and everything the
\* settlement contracts answer for.
THEOREM PoolBacked == Spec => []Backed
BY PoolRefinesLedger, LedgerCorrect, PTL DEF RefinesLedger, Backed

\* The types of the pool's state.
THEOREM PoolTypeOK == Spec => []TypeOK
<1>1. PoolInv => TypeOK
  BY DEF PoolInv
<1> QED
  BY <1>1, PoolInvariant, PTL

\* The pool accepts exactly the roots of its last ROOT_HISTORY_SIZE insertions.
THEOREM PoolHistoryIsWindow == Spec => []HistoryIsWindow
<1>1. PoolInv => HistoryIsWindow
  <2> SUFFICES ASSUME PoolInv, NEW root \in Root
               PROVE  IsKnown(root) <=> \/ root = Len(leaves)
                                        \/ /\ root \in 1 .. Len(leaves)
                                           /\ Len(leaves) - root < ROOT_HISTORY_SIZE
    BY DEF HistoryIsWindow
  <2> DEFINE L == Len(leaves)
             H == Len(rootHistory)
  <2>1. L \in Nat /\ H \in Nat /\ ROOT_HISTORY_SIZE \in Nat \ {0} /\ root \in Int
    BY LenProperties, PoolConstants DEF PoolInv, TypeOK, Root, RootUpTo, ForgedRoot
  <2>2. /\ H = IF L <= ROOT_HISTORY_SIZE THEN L ELSE ROOT_HISTORY_SIZE
        /\ \A i \in 1 .. H : rootHistory[i] = (L - H) + i
    BY DEF PoolInv, HistoryShape
  <2>3. IsKnown(root) <=> (root = L \/ \E i \in 1 .. H : rootHistory[i] = root)
    BY DEF IsKnown, IsKnownRoot
  <2> HIDE DEF L, H
  <2>4. (\E i \in 1 .. H : rootHistory[i] = root) <=> root \in (L - H) + 1 .. L
    <3>1. ASSUME NEW i \in 1 .. H, rootHistory[i] = root PROVE root \in (L - H) + 1 .. L
      BY <2>1, <2>2, <3>1
    <3>2. ASSUME root \in (L - H) + 1 .. L PROVE \E i \in 1 .. H : rootHistory[i] = root
      <4>1. root - (L - H) \in 1 .. H
        BY <2>1, <2>2, <3>2
      <4>2. rootHistory[root - (L - H)] = (L - H) + (root - (L - H))
        BY <2>2, <4>1
      <4> QED
        BY <2>1, <4>1, <4>2
    <3> QED
      BY <3>1, <3>2
  <2>5. root \in (L - H) + 1 .. L <=> root \in 1 .. L /\ L - root < ROOT_HISTORY_SIZE
    BY <2>1, <2>2
  <2> QED
    BY <2>3, <2>4, <2>5 DEF L
<1> QED
  BY <1>1, PoolInvariant, PTL

-----------------------------------------------------------------------------
(* The pool without settlement contracts.  Its books agree to the token:   *)
(* every leaf is recorded and there once, what was spent without being a   *)
(* leaf was a dummy, worth nothing, and the counter of spent notes is not  *)
(* below their number.                                                     *)

\* With settlement contracts or without, the counter is on the safe side.
CountsInv == PoolInv /\ spentCount >= Cardinality(nullifiers)

UsersInv ==
    /\ CountsInv
    /\ commitments = LeafSet
    /\ Len(leaves) = Cardinality(LeafSet)
    /\ \A note \in nullifiers \ LeafSet : note.amount = 0
    /\ custody = Value(LiveNotes)

\* Notes of amount 0 make no difference to what a set is worth.
LEMMA ValueOfWorthy ==
    ASSUME NEW a \in SUBSET Note, NEW b \in SUBSET Note,
           \A note \in (a \ b) \cup (b \ a) : note.amount = 0
    PROVE  Value(a) = Value(b)
<1>1. \A note \in Note : note.amount \in Nat /\ MaxAmount \in Nat
  BY NoteConstants DEF Note
<1>2. \A c \in Coins(a) : c[1] \in a /\ c[2] \in 1 .. MaxAmount /\ c[2] <= c[1].amount /\ c = <<c[1], c[2]>>
  BY DEF Coins
<1>3. \A c \in Coins(b) : c[1] \in b /\ c[2] \in 1 .. MaxAmount /\ c[2] <= c[1].amount /\ c = <<c[1], c[2]>>
  BY DEF Coins
<1>4. \A c \in Coins(a) : c[1] \in b
  BY <1>1, <1>2
<1>5. \A c \in Coins(b) : c[1] \in a
  BY <1>1, <1>3
<1>6. Coins(a) \subseteq Coins(b)
  BY <1>2, <1>4 DEF Coins
<1>7. Coins(b) \subseteq Coins(a)
  BY <1>3, <1>5 DEF Coins
<1>8. Coins(a) = Coins(b)
  BY <1>6, <1>7
<1> QED
  BY <1>8 DEF Value

\* The sizes of the sets the counters are about.
LEMMA Sizes ==
    ASSUME PoolInv
    PROVE  /\ LeafSet \in SUBSET Note /\ LiveNotes \in SUBSET Note /\ nullifiers \in SUBSET Note
           /\ IsFiniteSet(LeafSet) /\ IsFiniteSet(LiveNotes) /\ IsFiniteSet(nullifiers)
           /\ Cardinality(LeafSet) \in Nat /\ Cardinality(LiveNotes) \in Nat
           /\ Cardinality(nullifiers) \in Nat
<1>1. LeafSet \in SUBSET Note /\ nullifiers \in SUBSET Note
  BY ElementOfSeq DEF PoolInv, TypeOK, LeafSet
<1>2. LiveNotes \in SUBSET Note
  BY <1>1 DEF LiveNotes
<1> QED
  BY <1>1, <1>2, NoteIsFinite, FS_Subset, FS_CardinalityType

\* New leaves are counted one by one.
LEMMA LeavesCounted ==
    ASSUME UsersInv, NEW notes \in Seq(Note), InsertLeaves(notes),
           IsFiniteSet(ToSet(notes)), Cardinality(ToSet(notes)) = Len(notes),
           ToSet(notes) \cap LeafSet = {}
    PROVE  /\ LeafSet' = LeafSet \cup ToSet(notes)
           /\ Len(leaves') = Cardinality(LeafSet')
<1>1. PoolInv
  BY DEF UsersInv, CountsInv
<1>2. LeafSet' = LeafSet \cup ToSet(notes)
  BY <1>1, InsertLeavesEffect
<1>3. Len(leaves') = Len(leaves) + Len(notes)
  <2>1. leaves \in Seq(Note) /\ leaves' = leaves \o notes
    BY <1>1 DEF PoolInv, TypeOK, InsertLeaves
  <2> QED
    BY <2>1, ConcatProperties
<1>4. /\ IsFiniteSet(LeafSet) /\ Cardinality(LeafSet) \in Nat /\ Len(notes) \in Nat
      /\ Len(leaves) = Cardinality(LeafSet)
  BY <1>1, Sizes, LenProperties DEF UsersInv, CountsInv
<1>5. Cardinality(LeafSet \cup ToSet(notes))
          = Cardinality(LeafSet) + Cardinality(ToSet(notes)) - Cardinality(LeafSet \cap ToSet(notes))
  BY <1>4, FS_Union
<1>6. Cardinality(LeafSet \cap ToSet(notes)) = 0
  <2>1. LeafSet \cap ToSet(notes) = {}
    OBVIOUS
  <2> QED
    BY <2>1, FS_EmptySet
<1>7. Cardinality(LeafSet \cup ToSet(notes)) = Len(leaves) + Len(notes)
  BY <1>4, <1>5, <1>6
<1> QED
  BY <1>2, <1>3, <1>7

\* A spent note is counted.
LEMMA SpentCounted ==
    ASSUME CountsInv, NEW ins \in SUBSET Note, MarkNullifiers(ins)
    PROVE  spentCount' >= Cardinality(nullifiers')
<1>1. /\ nullifiers' = nullifiers \cup ins /\ ins \cap nullifiers = {}
      /\ spentCount' = spentCount + Cardinality(ins)
  BY DEF MarkNullifiers
<1>2. IsFiniteSet(nullifiers) /\ Cardinality(nullifiers) \in Nat
  BY Sizes DEF CountsInv
<1>3. IsFiniteSet(ins) /\ Cardinality(ins) \in Nat
  BY NoteIsFinite, FS_Subset, FS_CardinalityType
<1>4. Cardinality(nullifiers \cup ins)
          = Cardinality(nullifiers) + Cardinality(ins) - Cardinality(nullifiers \cap ins)
  BY <1>2, <1>3, FS_Union
<1>5. Cardinality(nullifiers \cap ins) = 0
  <2>1. nullifiers \cap ins = {}
    BY <1>1
  <2> QED
    BY <2>1, FS_EmptySet
<1>6. spentCount \in Nat /\ spentCount >= Cardinality(nullifiers)
  BY DEF CountsInv, PoolInv, TypeOK
<1> QED
  BY <1>1, <1>2, <1>3, <1>4, <1>5, <1>6

\* What a call that spends ins and adds outs makes of the notes' worth.
LEMMA WorthMoves ==
    ASSUME UsersInv, NEW ins \in SUBSET Note, NEW outs \in SUBSET Note,
           LeafSet' = LeafSet \cup outs, nullifiers' = nullifiers \cup ins,
           ins \cap nullifiers = {}, outs \cap LeafSet = {},
           \A note \in ins \ LeafSet : note.amount = 0
    PROVE  /\ \A note \in nullifiers' \ LeafSet' : note.amount = 0
           /\ Value(ins) \in Nat /\ Value(outs) \in Nat /\ Value(LiveNotes) \in Nat
           /\ Value(LiveNotes') = (Value(LiveNotes) - Value(ins)) + Value(outs)
<1>1. /\ LeafSet \in SUBSET Note /\ LiveNotes \in SUBSET Note
      /\ \A note \in nullifiers \ LeafSet : note.amount = 0
  BY Sizes DEF UsersInv, CountsInv
<1>2. \A note \in nullifiers' \ LeafSet' : note.amount = 0
  BY <1>1
<1> DEFINE spentNow == ins \cap LeafSet
           addedNow == outs \ (nullifiers \cup ins)
<1>3. /\ LiveNotes' = (LiveNotes \ spentNow) \cup addedNow
      /\ (LiveNotes \ spentNow) \cap addedNow = {}
      /\ spentNow \subseteq LiveNotes
      /\ spentNow \in SUBSET Note /\ addedNow \in SUBSET Note
      /\ LiveNotes \ spentNow \in SUBSET Note
  BY <1>1 DEF LiveNotes
<1>4. Value(spentNow) = Value(ins)
  <2>1. \A note \in (spentNow \ ins) \cup (ins \ spentNow) : note.amount = 0
    OBVIOUS
  <2> QED
    BY <1>3, <2>1, ValueOfWorthy
<1>5. Value(addedNow) = Value(outs)
  <2>1. \A note \in (addedNow \ outs) \cup (outs \ addedNow) : note.amount = 0
    <3> SUFFICES ASSUME NEW note \in outs, note \in nullifiers \cup ins PROVE note.amount = 0
      OBVIOUS
    <3> QED
      BY <1>1
  <2> QED
    BY <1>3, <2>1, ValueOfWorthy
<1> HIDE DEF spentNow, addedNow
<1>6. Value(LiveNotes') = Value(LiveNotes \ spentNow) + Value(addedNow)
  BY <1>3, ValueUnion
<1>7. Value(LiveNotes \ spentNow) = Value(LiveNotes) - Value(spentNow)
  BY <1>1, <1>3, ValueRemove
<1>8. Value(ins) \in Nat /\ Value(outs) \in Nat /\ Value(LiveNotes) \in Nat
  BY <1>1, ValueType
<1> QED
  BY <1>2, <1>4, <1>5, <1>6, <1>7, <1>8

\* A fresh pool.
LEMMA UsersInvInit == Init => UsersInv
<1> SUFFICES ASSUME Init PROVE UsersInv
  OBVIOUS
<1>1. leaves = <<>> /\ commitments = {} /\ nullifiers = {} /\ spentCount = 0 /\ custody = 0
  BY DEF Init, InitializeV1, InitializeV2, InitializeState
<1>2. LeafSet = {} /\ LiveNotes = {} /\ Len(leaves) = 0
  BY <1>1, EmptySeq DEF LeafSet, LiveNotes
<1>3. Cardinality(LeafSet) = 0 /\ Cardinality(nullifiers) = 0
  BY <1>1, <1>2, FS_EmptySet
<1> QED
  BY <1>1, <1>2, <1>3, PoolInvInit, ValueEmpty DEF UsersInv, CountsInv

LEMMA DepositBalances ==
    ASSUME UsersInv, NEW note \in Note, NEW aspRoot, NEW amount \in Nat \ {0},
           Deposit(note, amount, aspRoot)
    PROVE  UsersInv'
<1>1. /\ note.amount = amount /\ InsertLeaves(<<note>>) /\ note \notin commitments
      /\ commitments' = commitments \cup {note} /\ custody' = custody + amount
      /\ nullifiers' = nullifiers /\ spentCount' = spentCount
  BY DEF Deposit, DepositProof
<1>2. <<note>> \in Seq(Note) /\ ToSet(<<note>>) = {note} /\ Len(<<note>>) = 1
  BY DEF ToSet
<1>3. IsFiniteSet({note}) /\ Cardinality({note}) = 1
  BY FS_Singleton
<1>4. {note} \cap LeafSet = {} /\ commitments = LeafSet /\ custody = Value(LiveNotes)
  BY <1>1 DEF UsersInv, CountsInv
<1>5. LeafSet' = LeafSet \cup {note} /\ Len(leaves') = Cardinality(LeafSet')
  BY <1>1, <1>2, <1>3, <1>4, LeavesCounted
<1>6. /\ \A n \in nullifiers' \ LeafSet' : n.amount = 0
      /\ Value(LiveNotes') = (Value(LiveNotes) - Value({})) + Value({note})
      /\ Value(LiveNotes) \in Nat
  <2>1. {note} \in SUBSET Note /\ {} \in SUBSET Note /\ nullifiers' = nullifiers \cup {}
    BY <1>1
  <2> QED
    BY <1>4, <1>5, <2>1, WorthMoves
<1>7. Value({}) = 0 /\ Value({note}) = amount
  BY <1>1, ValueEmpty, ValueSingle
<1>8. custody' = Value(LiveNotes')
  BY <1>1, <1>4, <1>6, <1>7
<1>9. PoolInv'
  BY DepositRefines DEF UsersInv, CountsInv
<1>10. spentCount' >= Cardinality(nullifiers')
  BY <1>1 DEF UsersInv, CountsInv
<1> QED
  BY <1>1, <1>4, <1>5, <1>6, <1>8, <1>9, <1>10 DEF UsersInv, CountsInv

\* What the two transfers share.
LEMMA ExchangeBalances ==
    ASSUME UsersInv, PoolInv', NEW ins \in SUBSET Note, MarkNullifiers(ins),
           NEW outs \in Seq(Note), InsertLeaves(outs),
           IsFiniteSet(ToSet(outs)), Cardinality(ToSet(outs)) = Len(outs),
           ToSet(outs) \cap commitments = {}, commitments' = commitments \cup ToSet(outs),
           \A note \in ins \ LeafSet : note.amount = 0,
           Value(ToSet(outs)) = Value(ins), custody' = custody
    PROVE  UsersInv'
<1>1. commitments = LeafSet /\ custody = Value(LiveNotes)
  BY DEF UsersInv, CountsInv
<1>2. LeafSet' = LeafSet \cup ToSet(outs) /\ Len(leaves') = Cardinality(LeafSet')
  BY <1>1, LeavesCounted
<1>3. nullifiers' = nullifiers \cup ins /\ ins \cap nullifiers = {}
  BY DEF MarkNullifiers
<1>4. ToSet(outs) \in SUBSET Note
  BY ElementOfSeq, LenProperties DEF ToSet
<1>5. /\ \A note \in nullifiers' \ LeafSet' : note.amount = 0
      /\ Value(ins) \in Nat /\ Value(LiveNotes) \in Nat
      /\ Value(LiveNotes') = (Value(LiveNotes) - Value(ins)) + Value(ToSet(outs))
  BY <1>1, <1>2, <1>3, <1>4, WorthMoves
<1>6. custody' = Value(LiveNotes')
  BY <1>1, <1>5
<1>7. spentCount' >= Cardinality(nullifiers')
  BY SpentCounted DEF UsersInv
<1> QED
  BY <1>1, <1>2, <1>5, <1>6, <1>7 DEF UsersInv, CountsInv

LEMMA TransferV2Balances ==
    ASSUME UsersInv, NEW note \in Note, NEW out \in Note, NEW root, TransferV2(note, out, root)
    PROVE  UsersInv'
<1>1. /\ IsKnown(root) /\ SpendProof(note, root) /\ MarkNullifiers({note})
      /\ note.amount = Denomination /\ out.amount = Denomination /\ out \notin commitments
      /\ InsertLeaves(<<out>>) /\ commitments' = commitments \cup {out} /\ custody' = custody
  BY DEF TransferV2
<1>2. <<out>> \in Seq(Note) /\ ToSet(<<out>>) = {out} /\ Len(<<out>>) = 1 /\ {note} \in SUBSET Note
  BY DEF ToSet
<1>3. IsFiniteSet({out}) /\ Cardinality({out}) = 1
  BY FS_Singleton
<1>4. note \in LeafSet
  BY <1>1, KnownRootProves DEF UsersInv, CountsInv
<1>5. Value({note}) = Denomination /\ Value({out}) = Denomination
  BY <1>1, ValueSingle
<1>6. PoolInv'
  BY TransferV2Refines DEF UsersInv, CountsInv
<1>7. {out} \cap commitments = {} /\ \A n \in {note} \ LeafSet : n.amount = 0
  BY <1>1, <1>4
<1> QED
  BY <1>1, <1>2, <1>3, <1>5, <1>6, <1>7, ExchangeBalances

LEMMA TransferV3Balances ==
    ASSUME UsersInv, NEW in1 \in Note, NEW in2 \in Note, NEW isDummy2, NEW root,
           TransferV3(in1, in2, isDummy2, root)
    PROVE  UsersInv'
<1>1. IsKnown(root) /\ in1 # in2 /\ MarkNullifiers({in1, in2}) /\ custody' = custody
  BY DEF TransferV3
<1>2. PICK out1 \in Note \ commitments, out2 \in Note \ commitments :
          /\ out1 # out2
          /\ TransferProof(in1, in2, isDummy2, out1, out2, root)
          /\ InsertLeaves(<<out1, out2>>)
          /\ commitments' = commitments \cup {out1, out2}
  BY DEF TransferV3
<1>3. /\ SpendProof(in1, root) /\ (in2.amount = 0 \/ SpendProof(in2, root))
      /\ in1.amount + in2.amount = out1.amount + out2.amount
  BY <1>2 DEF TransferProof
<1>4. /\ <<out1, out2>> \in Seq(Note) /\ ToSet(<<out1, out2>>) = {out1, out2}
      /\ Len(<<out1, out2>>) = 2 /\ {in1, in2} \in SUBSET Note
  BY DEF ToSet
<1>5. IsFiniteSet({out1, out2}) /\ Cardinality({out1, out2}) = 2
  <2>1. IsFiniteSet({out1}) /\ Cardinality({out1}) = 1
    BY FS_Singleton
  <2>2. IsFiniteSet({out1} \cup {out2}) /\ Cardinality({out1} \cup {out2}) = Cardinality({out1}) + 1
    BY <1>2, <2>1, FS_AddElement
  <2>3. {out1, out2} = {out1} \cup {out2}
    OBVIOUS
  <2> QED
    BY <2>1, <2>2, <2>3
<1>6. \A n \in {in1, in2} \ LeafSet : n.amount = 0
  BY <1>1, <1>3, KnownRootProves DEF UsersInv, CountsInv
<1>7. Value({out1, out2}) = Value({in1, in2})
  BY <1>1, <1>2, <1>3, ValuePair
<1>8. PoolInv'
  BY TransferV3Refines DEF UsersInv, CountsInv
<1>9. {out1, out2} \cap commitments = {}
  BY <1>2
<1> QED
  BY <1>1, <1>2, <1>4, <1>5, <1>6, <1>7, <1>8, <1>9, ExchangeBalances

\* A withdrawal, a batch of them, or a rage-quit.
LEMMA ExitBalances ==
    ASSUME UsersInv, PoolInv', NEW ins \in SUBSET LeafSet, MarkNullifiers(ins),
           custody' = custody - Value(ins), UNCHANGED <<leaves, commitments>>
    PROVE  UsersInv'
<1>1. ins \in SUBSET Note
  BY Sizes DEF UsersInv, CountsInv
<1>2. commitments = LeafSet /\ custody = Value(LiveNotes) /\ Len(leaves) = Cardinality(LeafSet)
  BY DEF UsersInv, CountsInv
<1>3. LeafSet' = LeafSet \cup {} /\ LeafSet' = LeafSet
  BY DEF LeafSet
<1>4. nullifiers' = nullifiers \cup ins /\ ins \cap nullifiers = {}
  BY DEF MarkNullifiers
<1>5. /\ \A note \in nullifiers' \ LeafSet' : note.amount = 0
      /\ Value(ins) \in Nat /\ Value({}) \in Nat /\ Value(LiveNotes) \in Nat
      /\ Value(LiveNotes') = (Value(LiveNotes) - Value(ins)) + Value({})
  <2>1. {} \in SUBSET Note /\ {} \cap LeafSet = {} /\ \A note \in ins \ LeafSet : note.amount = 0
    OBVIOUS
  <2> QED
    BY <1>1, <1>3, <1>4, <2>1, WorthMoves
<1>6. custody' = Value(LiveNotes')
  BY <1>2, <1>5, ValueEmpty
<1>7. spentCount' >= Cardinality(nullifiers')
  BY <1>1, SpentCounted DEF UsersInv
<1> QED
  BY <1>2, <1>3, <1>5, <1>6, <1>7 DEF UsersInv, CountsInv

\* A batch's notes are in the tree, and it is paid what they are worth.
LEMMA WithdrawBalances ==
    ASSUME UsersInv, NEW notes \in SUBSET Note, WithdrawAll(notes)
    PROVE  notes \in SUBSET LeafSet /\ UsersInv'
<1>1. /\ \A note \in notes : ProvedInPool(note)
      /\ MarkNullifiers(notes) /\ custody' = custody - Value(notes)
      /\ UNCHANGED <<leaves, commitments>>
  BY DEF WithdrawAll
<1>2. notes \in SUBSET LeafSet
  <2> SUFFICES ASSUME NEW note \in notes PROVE note \in LeafSet
    OBVIOUS
  <2>1. PICK root \in Root : IsKnown(root) /\ SpendProof(note, root)
    BY <1>1 DEF ProvedInPool
  <2> QED
    BY <2>1, KnownRootProves DEF UsersInv, CountsInv
<1>3. PoolInv'
  BY WithdrawRefines DEF UsersInv, CountsInv
<1> QED
  BY <1>1, <1>2, <1>3, ExitBalances

LEMMA RageQuitBalances ==
    ASSUME UsersInv, NEW note \in Note, RageQuitV2(note)
    PROVE  UsersInv'
<1>1. /\ note \in commitments /\ MarkNullifiers({note}) /\ note.amount = Denomination
      /\ custody' = custody - Denomination /\ UNCHANGED <<leaves, commitments>>
  BY DEF RageQuitV2
<1>2. {note} \in SUBSET LeafSet
  BY <1>1 DEF UsersInv, CountsInv
<1>3. custody' = custody - Value({note})
  BY <1>1, ValueSingle
<1>4. PoolInv'
  BY RageQuitRefines DEF UsersInv, CountsInv
<1> QED
  BY <1>1, <1>2, <1>3, <1>4, ExitBalances

LEMMA AdminBalances ==
    ASSUME UsersInv, AdminStep \/ AspStep \/ UNCHANGED vars
    PROVE  UsersInv'
<1>1. PoolInv' /\ UNCHANGED <<leaves, commitments, nullifiers, custody>>
  BY AdminRefines DEF UsersInv, CountsInv, AdminStep, AspStep, vars, poolVars, SetAnonymityFloor,
         SyncSpentCount, SetBlocklistEnabled, AddSettlementAuthority, RemoveSettlementAuthority
<1>2. spentCount' >= Cardinality(nullifiers)
  <2>1. CASE AdminStep
    <3>1. CASE \E n \in 0 .. Cardinality(nullifiers) + SyncSlack : SyncSpentCount(n)
      BY <3>1 DEF SyncSpentCount
    <3>2. CASE spentCount' = spentCount
      BY <3>2 DEF UsersInv, CountsInv
    <3> QED
      BY <2>1, <3>1, <3>2 DEF AdminStep, SetAnonymityFloor, SetBlocklistEnabled,
         AddSettlementAuthority, RemoveSettlementAuthority
  <2>2. CASE AspStep \/ UNCHANGED vars
    BY <2>2 DEF AspStep, vars, poolVars, UsersInv, CountsInv
  <2> QED
    BY <2>1, <2>2
<1>3. LeafSet' = LeafSet /\ LiveNotes' = LiveNotes
  BY <1>1 DEF LeafSet, LiveNotes
<1> QED
  BY <1>1, <1>2, <1>3 DEF UsersInv, CountsInv

LEMMA UsersStep == UsersInv /\ [UsersNext]_vars => UsersInv'
<1> SUFFICES ASSUME UsersInv, [UsersNext]_vars PROVE UsersInv'
  OBVIOUS
<1>1. CASE DepositStep
  <2>1. PICK note \in Note, aspRoot \in AspRoot :
            \/ DepositV2(note, aspRoot)
            \/ \E amount \in 1 .. MaxAmount : DepositV3(note, amount, aspRoot)
    BY <1>1 DEF DepositStep
  <2>2. \E amount \in Nat \ {0} : Deposit(note, amount, aspRoot)
    BY <2>1, PoolConstants DEF DepositV2, DepositV3
  <2> QED
    BY <2>2, DepositBalances
<1>2. CASE TransferStep
  BY <1>2, TransferV2Balances, TransferV3Balances DEF TransferStep
<1>3. CASE WithdrawStep
  <2>1. \E notes \in SUBSET Note : WithdrawAll(notes)
    BY <1>3 DEF WithdrawStep, WithdrawV2, WithdrawV3, WithdrawV3Batch
  <2> QED
    BY <2>1, WithdrawBalances
<1>4. CASE RageQuitStep
  BY <1>4, RageQuitBalances DEF RageQuitStep
<1>5. CASE AdminStep \/ AspStep \/ UNCHANGED vars
  BY <1>5, AdminBalances
<1> QED
  BY <1>1, <1>2, <1>3, <1>4, <1>5 DEF UsersNext

LEMMA UsersAlways == UsersSpec => []UsersInv
BY UsersInvInit, UsersStep, PTL DEF UsersSpec

\* Where no leaf is in the tree twice, the crowd that is reported is never larger
\* than the one there is.
LEMMA CrowdReported ==
    ASSUME CountsInv, Len(leaves) = Cardinality(LeafSet)
    PROVE  /\ UnspentNotes \in Nat /\ UnspentNotes <= Cardinality(LiveNotes)
           /\ Cardinality(LiveNotes) \in Nat
<1>1. /\ IsFiniteSet(LeafSet) /\ IsFiniteSet(LiveNotes) /\ IsFiniteSet(nullifiers)
      /\ Cardinality(LeafSet) \in Nat /\ Cardinality(LiveNotes) \in Nat
      /\ Cardinality(nullifiers) \in Nat
  BY Sizes DEF CountsInv
<1>2. spentCount \in Nat /\ spentCount >= Cardinality(nullifiers)
  BY DEF CountsInv, PoolInv, TypeOK
<1>3. Cardinality(LiveNotes) = Cardinality(LeafSet) - Cardinality(LeafSet \cap nullifiers)
  BY <1>1, FS_Difference DEF LiveNotes
<1>4. Cardinality(LeafSet \cap nullifiers) <= Cardinality(nullifiers)
      /\ Cardinality(LeafSet \cap nullifiers) \in Nat
  <2>1. LeafSet \cap nullifiers \in SUBSET nullifiers
    OBVIOUS
  <2>2. IsFiniteSet(LeafSet \cap nullifiers)
        /\ Cardinality(LeafSet \cap nullifiers) <= Cardinality(nullifiers)
    BY <1>1, <2>1, FS_Subset
  <2> QED
    BY <2>2, FS_CardinalityType
<1> QED
  BY <1>1, <1>2, <1>3, <1>4 DEF UnspentNotes

\* Without settlement contracts the tokens are exactly what the spendable notes are
\* worth: no sequence of deposits, transfers, withdrawals and rage-quits, with dummy
\* inputs and notes of amount 0, strands a token, or reports too large a crowd.
THEOREM PoolFullyBacked == UsersSpec => []FullyBacked
<1>1. UsersInv => FullyBacked
  BY CrowdReported DEF UsersInv, FullyBacked
<1> QED
  BY <1>1, UsersAlways, PTL

-----------------------------------------------------------------------------
(* The pool's three controls, settlement contracts taking part.            *)

\* A settlement spends one note at most, and mints a sequence of one at most.
LEMMA SettlementCases ==
    ASSUME SettlementStep
    PROVE  \/ \E a \in Contract, ins \in AtMostOneNote, out \in SeqOf(Note, 1), payout \in 0 .. MaxFund :
                  /\ ExecuteSettlement(a, ins, out, payout)
                  /\ ins \in SUBSET Note /\ payout \in Nat
           \/ \E amount \in Nat \ {0} : ReceiveTokens(amount)
<1>1. CASE \E a \in Contract, ins \in AtMostOneNote, out \in SeqOf(Note, 1), payout \in 0 .. MaxFund :
               ExecuteSettlement(a, ins, out, payout)
  BY <1>1, PoolConstants DEF AtMostOneNote
<1>2. CASE \E amount \in 1 .. MaxFund :
               \/ ReceiveTokens(amount)
               \/ \E a \in Contract : PullPublicDeposit(a, amount)
  BY <1>2, PoolConstants DEF PullPublicDeposit
<1> QED
  BY <1>1, <1>2 DEF SettlementStep

\* The counter of spent notes stays on the safe side of their number, whatever
\* is spent and whatever the administrator sets.
LEMMA CountsNext == CountsInv /\ [Next]_vars => CountsInv'
<1> SUFFICES ASSUME CountsInv, [Next]_vars PROVE spentCount' >= Cardinality(nullifiers')
  BY PoolInvNext DEF CountsInv
<1>0. spentCount >= Cardinality(nullifiers)
  BY DEF CountsInv
<1>1. CASE \E ins \in SUBSET Note : MarkNullifiers(ins)
  BY <1>1, SpentCounted
<1>2. CASE UNCHANGED <<spentCount, nullifiers>>
  BY <1>0, <1>2
<1>3. CASE DepositStep
  BY <1>2, <1>3 DEF DepositStep, DepositV2, DepositV3, Deposit
<1>4. CASE TransferStep
  <2>1. ASSUME NEW n \in Note, NEW out \in Note, NEW root \in Root, TransferV2(n, out, root)
        PROVE  \E ins \in SUBSET Note : MarkNullifiers(ins)
    BY <2>1 DEF TransferV2
  <2>2. ASSUME NEW n \in Note, NEW in2 \in Note, NEW isDummy2 \in BOOLEAN, NEW root \in Root,
               TransferV3(n, in2, isDummy2, root)
        PROVE  \E ins \in SUBSET Note : MarkNullifiers(ins)
    BY <2>2 DEF TransferV3
  <2> QED
    BY <1>1, <1>4, <2>1, <2>2 DEF TransferStep
<1>5. CASE WithdrawStep
  BY <1>1, <1>5 DEF WithdrawStep, WithdrawV2, WithdrawV3, WithdrawV3Batch, WithdrawAll
<1>6. CASE RageQuitStep
  BY <1>1, <1>6 DEF RageQuitStep, RageQuitV2
<1>7. CASE SettlementStep
  <2>1. CASE \E a \in Contract, ins \in AtMostOneNote, out \in SeqOf(Note, 1), payout \in 0 .. MaxFund :
                 /\ ExecuteSettlement(a, ins, out, payout)
                 /\ ins \in SUBSET Note /\ payout \in Nat
    BY <1>1, <2>1 DEF ExecuteSettlement, Settle
  <2>2. CASE \E amount \in Nat \ {0} : ReceiveTokens(amount)
    BY <1>2, <2>2 DEF ReceiveTokens
  <2> QED
    BY <1>7, <2>1, <2>2, SettlementCases
<1>8. CASE AdminStep
  <2>1. ASSUME NEW s \in 0 .. Cardinality(nullifiers) + SyncSlack, SyncSpentCount(s)
        PROVE  spentCount' >= Cardinality(nullifiers')
    BY <2>1 DEF SyncSpentCount
  <2>2. CASE \/ \E f \in Floors : SetAnonymityFloor(f)
             \/ \E enabled \in BOOLEAN : SetBlocklistEnabled(enabled)
             \/ \E a \in Contract : AddSettlementAuthority(a) \/ RemoveSettlementAuthority(a)
    BY <1>2, <2>2 DEF SetAnonymityFloor, SetBlocklistEnabled, AddSettlementAuthority,
       RemoveSettlementAuthority
  <2> QED
    BY <1>8, <2>1, <2>2 DEF AdminStep
<1>9. CASE AspStep \/ UNCHANGED vars
  BY <1>2, <1>9 DEF AspStep, vars, poolVars
<1> QED
  BY <1>3, <1>4, <1>5, <1>6, <1>7, <1>8, <1>9 DEF Next

\* Nothing is spent in a fresh pool.
LEMMA CountsInit == Init => CountsInv
BY UsersInvInit DEF UsersInv

\* What came in as a note came in under an approved key: of all steps only a
\* deposit brings tokens in that no settlement contract answers for.
LEMMA DoorHolds == CountsInv /\ [Next]_vars => DepositorsApproved
<1> SUFFICES ASSUME CountsInv, [Next]_vars, custody' > custody, held' = held,
                    NEW new \in LeafSet' \ LeafSet
             PROVE  Asp!IsMember(new.owner)
  BY DEF DepositorsApproved
<1>0. PoolInv /\ custody \in Nat /\ held \in Nat /\ Asp!AspTypeOK
  BY DEF CountsInv, PoolInv, TypeOK
<1>1. CASE DepositStep
  <2>1. PICK note \in Note, aspRoot \in AspRoot :
            \/ DepositV2(note, aspRoot)
            \/ \E amount \in 1 .. MaxAmount : DepositV3(note, amount, aspRoot)
    BY <1>1 DEF DepositStep
  <2>2. \E amount \in Nat : Deposit(note, amount, aspRoot)
    BY <2>1, PoolConstants DEF DepositV2, DepositV3
  <2>3. /\ Asp!IsKnownAspRoot(aspRoot) /\ OpensIn(note.owner, aspLeaves, aspRoot)
        /\ InsertLeaves(<<note>>)
    BY <2>2 DEF Deposit, DepositProof
  <2>4. new = note
    <3>1. <<note>> \in Seq(Note) /\ ToSet(<<note>>) = {note}
      BY DEF ToSet
    <3>2. LeafSet' = LeafSet \cup {note}
      BY <1>0, <2>3, <3>1, InsertLeavesEffect
    <3> QED
      BY <3>2
  <2>5. aspRoot # ForgedRoot
    <3>1. /\ aspLeaves \in Seq(Owner) /\ Len(aspLeaves) \in Nat /\ ASP_CAPACITY \in Nat
          /\ aspHistory \in Seq(1 .. ASP_CAPACITY)
      BY <1>0, LenProperties, PoolConstants DEF Asp!AspTypeOK
    <3>2. aspRoot \in Nat
      BY <2>3, <3>1, ElementOfSeq DEF Asp!IsKnownAspRoot, Asp!IsKnownRoot
    <3> QED
      BY <3>2 DEF ForgedRoot
  <2> QED
    BY <2>3, <2>4, <2>5 DEF OpensIn, Asp!IsMember
<1>2. CASE TransferStep
  <2>1. custody' = custody
    BY <1>2 DEF TransferStep, TransferV2, TransferV3
  <2> QED
    BY <1>0, <2>1
<1>3. CASE WithdrawStep
  <2>1. leaves' = leaves
    BY <1>3 DEF WithdrawStep, WithdrawV2, WithdrawV3, WithdrawV3Batch, WithdrawAll
  <2> QED
    BY <2>1 DEF LeafSet
<1>4. CASE RageQuitStep
  <2>1. leaves' = leaves
    BY <1>4 DEF RageQuitStep, RageQuitV2
  <2> QED
    BY <2>1 DEF LeafSet
<1>5. CASE SettlementStep
  <2>1. CASE \E a \in Contract, ins \in AtMostOneNote, out \in SeqOf(Note, 1), payout \in 0 .. MaxFund :
                 /\ ExecuteSettlement(a, ins, out, payout)
                 /\ ins \in SUBSET Note /\ payout \in Nat
    <3>1. \E payout \in Nat : custody' = custody - payout
      BY <2>1 DEF ExecuteSettlement, Settle
    <3> QED
      BY <1>0, <3>1
  <2>2. CASE \E amount \in Nat \ {0} : ReceiveTokens(amount)
    <3>1. \E amount \in Nat \ {0} : held' = held + amount
      BY <2>2 DEF ReceiveTokens
    <3> QED
      BY <1>0, <3>1
  <2> QED
    BY <1>5, <2>1, <2>2, SettlementCases
<1>6. CASE AdminStep \/ AspStep \/ UNCHANGED vars
  <2>1. leaves' = leaves
    BY <1>6 DEF AdminStep, AspStep, vars, poolVars, SetAnonymityFloor, SyncSpentCount,
         SetBlocklistEnabled, AddSettlementAuthority, RemoveSettlementAuthority
  <2> QED
    BY <2>1 DEF LeafSet
<1> QED
  BY <1>1, <1>2, <1>3, <1>4, <1>5, <1>6 DEF Next

\* A blocked note, or one whose status cannot be read, is rage-quit or spent by
\* a settlement.
LEMMA BlocklistHolds == [Next]_vars => EnforcedBlocklist
<1> SUFFICES ASSUME [Next]_vars, blocklistEnabled,
                    NEW note \in nullifiers' \ nullifiers,
                    note \in blocked \/ blocklistState = "absent"
             PROVE  RageQuitV2(note) \/ SettlementSpends(note)
  BY DEF EnforcedBlocklist
<1>1. ~NotBlocked(note)
  BY DEF NotBlocked, Nm!IsNotBlocked
<1>2. CASE DepositStep
  BY <1>2 DEF DepositStep, DepositV2, DepositV3, Deposit
<1>3. CASE TransferStep
  <2>1. ASSUME NEW n \in Note, NEW out \in Note, NEW root \in Root, TransferV2(n, out, root)
        PROVE  FALSE
    <3>1. nullifiers' = nullifiers \cup {n} /\ NotBlocked(n)
      BY <2>1 DEF TransferV2, MarkNullifiers
    <3>2. note = n
      BY <3>1
    <3> QED
      BY <1>1, <3>1, <3>2
  <2>2. ASSUME NEW n \in Note, NEW in2 \in Note, NEW isDummy2 \in BOOLEAN, NEW root \in Root,
               TransferV3(n, in2, isDummy2, root)
        PROVE  FALSE
    <3>1. nullifiers' = nullifiers \cup {n, in2} /\ NotBlocked(n) /\ NotBlocked(in2)
      BY <2>2 DEF TransferV3, MarkNullifiers
    <3>2. note = n \/ note = in2
      BY <3>1
    <3> QED
      BY <1>1, <3>1, <3>2
  <2> QED
    BY <1>3, <2>1, <2>2 DEF TransferStep
<1>4. CASE WithdrawStep
  <2>1. PICK notes \in SUBSET Note : WithdrawAll(notes)
    BY <1>4 DEF WithdrawStep, WithdrawV2, WithdrawV3, WithdrawV3Batch
  <2>2. nullifiers' = nullifiers \cup notes /\ \A n \in notes : NotBlocked(n)
    BY <2>1 DEF WithdrawAll, MarkNullifiers
  <2> QED
    BY <1>1, <2>2
<1>5. CASE RageQuitStep
  <2>1. PICK n \in Note : RageQuitV2(n)
    BY <1>5 DEF RageQuitStep
  <2>2. nullifiers' = nullifiers \cup {n}
    BY <2>1 DEF RageQuitV2, MarkNullifiers
  <2>3. note = n
    BY <2>2
  <2> QED
    BY <2>1, <2>3
<1>6. CASE SettlementStep
  <2>1. ASSUME NEW amount, ReceiveTokens(amount) PROVE FALSE
    BY <2>1 DEF ReceiveTokens
  <2>2. PICK a \in Contract, ins \in AtMostOneNote, out \in SeqOf(Note, 1), payout \in 0 .. MaxFund :
            ExecuteSettlement(a, ins, out, payout)
    BY <1>6, <2>1 DEF SettlementStep, PullPublicDeposit
  <2>3. a \in authorities /\ nullifiers' = nullifiers \cup ins
    BY <2>2 DEF ExecuteSettlement, Settle, MarkNullifiers
  <2>4. ins = {note}
    BY <2>3 DEF AtMostOneNote
  <2> QED
    BY <2>2, <2>3, <2>4 DEF SettlementSpends
<1>7. CASE AdminStep \/ AspStep \/ UNCHANGED vars
  BY <1>7 DEF AdminStep, AspStep, vars, poolVars, SetAnonymityFloor, SyncSpentCount,
     SetBlocklistEnabled, AddSettlementAuthority, RemoveSettlementAuthority
<1> QED
  BY <1>2, <1>3, <1>4, <1>5, <1>6, <1>7 DEF Next

\* A tree that holds no note twice has as many notes as leaves.
LEMMA InjectiveCounted ==
    ASSUME PoolInv, IsInjective(leaves)
    PROVE  Len(leaves) = Cardinality(LeafSet)
<1>1. /\ leaves \in Seq(Note) /\ Len(leaves) \in Nat /\ DOMAIN leaves = 1 .. Len(leaves)
      /\ leaves \in [1 .. Len(leaves) -> Note]
  BY LenProperties DEF PoolInv, TypeOK
<1>2. leaves \in [1 .. Len(leaves) -> LeafSet]
  BY <1>1 DEF LeafSet
<1>3. leaves \in Injection(1 .. Len(leaves), LeafSet)
  BY <1>2 DEF Injection
<1>4. leaves \in Surjection(1 .. Len(leaves), LeafSet)
  BY <1>2 DEF Surjection, LeafSet
<1>5. ExistsBijection(1 .. Len(leaves), LeafSet)
  BY <1>3, <1>4 DEF ExistsBijection, Bijection
<1> QED
  BY <1>1, <1>5, FS_CountingElements

\* Each withdrawal of a batch leaves in a crowd of at least the floor.
LEMMA FloorHolds == CountsInv => FloorRespected
<1> SUFFICES ASSUME CountsInv, Cardinality(LiveNotes') + 1 < floor, WithdrawStep,
                    IsInjective(leaves)
             PROVE  FALSE
  BY DEF FloorRespected
<1>0. PoolInv /\ Len(leaves) = Cardinality(LeafSet)
  BY InjectiveCounted DEF CountsInv
<1>1. PICK notes \in SUBSET Note : WithdrawAll(notes)
  BY DEF WithdrawStep, WithdrawV2, WithdrawV3, WithdrawV3Batch
<1>2. notes \in SUBSET LeafSet
  BY <1>0, <1>1, KnownRootProves DEF WithdrawAll, ProvedInPool
<1>3. /\ nullifiers' = nullifiers \cup notes /\ notes \cap nullifiers = {} /\ leaves' = leaves
      /\ FloorMet(Cardinality(notes))
  BY <1>1 DEF WithdrawAll, MarkNullifiers
<1>4. LiveNotes' = LiveNotes \ notes /\ notes \in SUBSET LiveNotes
  BY <1>2, <1>3 DEF LiveNotes, LeafSet
<1>5. IsFiniteSet(LiveNotes) /\ IsFiniteSet(notes)
      /\ Cardinality(notes) \in Nat /\ floor \in Nat
  BY <1>0, Sizes, NoteIsFinite, FS_Subset, FS_CardinalityType DEF PoolInv, TypeOK
<1>6. Cardinality(LiveNotes \ notes) = Cardinality(LiveNotes) - Cardinality(LiveNotes \cap notes)
  BY <1>5, FS_Difference
<1>7. LiveNotes \cap notes = notes
  BY <1>4
<1>8. UnspentNotes \in Nat /\ UnspentNotes <= Cardinality(LiveNotes) /\ Cardinality(LiveNotes) \in Nat
  BY <1>0, CrowdReported
<1>9. floor = 0 \/ UnspentNotes >= floor + (Cardinality(notes) - 1)
  BY <1>3 DEF FloorMet
<1>10. Cardinality(LiveNotes') = Cardinality(LiveNotes) - Cardinality(notes)
  BY <1>4, <1>6, <1>7
<1>11. Cardinality(notes) <= Cardinality(LiveNotes)
  BY <1>4, <1>5, FS_Subset
<1> QED
  BY <1>5, <1>8, <1>9, <1>10, <1>11

\* Whatever settlement contracts ask for in between, what comes in as a note comes
\* in under an approved key, a blocked note leaves by the rage-quit or through a
\* settlement and by no other way, and each withdrawal leaves in a crowd of the floor
\* as long as no leaf was minted twice.
THEOREM PoolControlsHold == Spec => ControlsHold
<1>1. CountsInv /\ [Next]_vars => [DepositorsApproved /\ EnforcedBlocklist /\ FloorRespected]_vars
  BY DoorHolds, BlocklistHolds, FloorHolds
<1> QED
  BY <1>1, CountsInit, CountsNext, PTL DEF Spec, ControlsHold

-----------------------------------------------------------------------------
(* Total, the sum of a function's values: it is a number, is zero for the  *)
(* zero function, changes by the difference when one value changes, and is *)
(* at least each value.                                                    *)

\* n units of one key are n.
LEMMA UnitsOfOne ==
    ASSUME NEW x, NEW n \in Nat
    PROVE  IsFiniteSet({x} \X (1 .. n)) /\ Cardinality({x} \X (1 .. n)) = n
<1> DEFINE unit == [i \in 1 .. n |-> <<x, i>>]
<1>1. unit \in Bijection(1 .. n, {x} \X (1 .. n))
  <2>1. unit \in [1 .. n -> {x} \X (1 .. n)]
    OBVIOUS
  <2>2. \A i, j \in 1 .. n : unit[i] = unit[j] => i = j
    OBVIOUS
  <2>3. \A u \in {x} \X (1 .. n) : \E i \in 1 .. n : unit[i] = u
    OBVIOUS
  <2>4. unit \in Injection(1 .. n, {x} \X (1 .. n))
    BY <2>1, <2>2 DEF Injection, IsInjective
  <2>5. unit \in Surjection(1 .. n, {x} \X (1 .. n))
    BY <2>1, <2>3 DEF Surjection
  <2> QED
    BY <2>4, <2>5 DEF Bijection
<1>2. ExistsBijection(1 .. n, {x} \X (1 .. n))
  BY <1>1 DEF ExistsBijection
<1>3. Cardinality({x} \X (1 .. n)) = n
  BY <1>2, FS_CountingElements
<1>4. IsFiniteSet({x} \X (1 .. n))
  <2>1. IsFiniteSet(1 .. n)
    BY FS_Interval
  <2>2. IsFiniteSet({x})
    BY FS_Singleton
  <2> QED
    BY <2>1, <2>2, FS_Product
<1> QED
  BY <1>3, <1>4

\* A function of numbers on a finite set has finitely many units.
LEMMA TotalType ==
    ASSUME NEW S, IsFiniteSet(S), NEW f \in [S -> Nat]
    PROVE  IsFiniteSet(Units(f)) /\ Total(f) \in Nat
<1> DEFINE parts == {{x} \X (1 .. f[x]) : x \in S}
           part == [x \in S |-> {x} \X (1 .. f[x])]
<1>1. part \in Surjection(S, parts)
  BY DEF Surjection
<1>2. IsFiniteSet(parts)
  BY <1>1, FS_Surjection
<1>3. \A p \in parts : IsFiniteSet(p)
  <2>1. ASSUME NEW x \in S PROVE IsFiniteSet({x} \X (1 .. f[x]))
    <3>1. f[x] \in Nat
      OBVIOUS
    <3> HIDE DEF parts, part
    <3> QED
      BY <3>1, UnitsOfOne
  <2> QED
    BY <2>1
<1>4. IsFiniteSet(UNION parts)
  BY <1>2, <1>3, FS_UNION
<1>5. Units(f) = UNION parts
  BY DEF Units
<1> QED
  BY <1>4, <1>5, FS_CardinalityType DEF Total

\* The zero function totals zero.
LEMMA TotalZero ==
    ASSUME NEW S
    PROVE  Total([x \in S |-> 0]) = 0
<1>1. Units([x \in S |-> 0]) = {}
  BY DEF Units
<1> QED
  BY <1>1, FS_EmptySet DEF Total

\* One value is part of the total.
LEMMA TotalSplit ==
    ASSUME NEW S, IsFiniteSet(S), NEW f \in [S -> Nat], NEW x \in S
    PROVE  Total(f) = Cardinality(Units(f) \ ({x} \X (1 .. f[x]))) + f[x]
<1> DEFINE own == {x} \X (1 .. f[x])
           rest == Units(f) \ own
<1>1. IsFiniteSet(Units(f))
  BY TotalType
<1>2. own \subseteq Units(f)
  BY DEF Units
<1>3. IsFiniteSet(rest) /\ IsFiniteSet(own)
  BY <1>1, <1>2, FS_Subset
<1>4. rest \cap own = {} /\ rest \cup own = Units(f)
  BY <1>2
<1> HIDE DEF own, rest
<1>5. Cardinality(rest \cup own) = Cardinality(rest) + Cardinality(own) - Cardinality(rest \cap own)
  BY <1>3, FS_Union
<1>6. Cardinality(rest \cap own) = 0
  BY <1>4, FS_EmptySet
<1>7. Cardinality(own) = f[x] /\ f[x] \in Nat
  BY UnitsOfOne DEF own
<1>8. Cardinality(rest) \in Nat
  BY <1>3, FS_CardinalityType
<1>9. Total(f) = Cardinality(rest \cup own)
  BY <1>4 DEF Total
<1>10. Total(f) = Cardinality(rest) + f[x]
  BY <1>5, <1>6, <1>7, <1>8, <1>9
<1> QED
  BY <1>10 DEF rest, own

\* Changing one value changes the total by as much.
LEMMA TotalUpdate ==
    ASSUME NEW S, IsFiniteSet(S), NEW f \in [S -> Nat], NEW x \in S, NEW n \in Nat
    PROVE  Total([f EXCEPT ![x] = n]) = Total(f) - f[x] + n
<1> DEFINE g == [f EXCEPT ![x] = n]
           restF == Units(f) \ ({x} \X (1 .. f[x]))
           restG == Units(g) \ ({x} \X (1 .. g[x]))
<1>1. g \in [S -> Nat] /\ g[x] = n /\ \A y \in S : y # x => g[y] = f[y]
  OBVIOUS
<1> HIDE DEF g
<1>2. restF = UNION {{y} \X (1 .. f[y]) : y \in S \ {x}}
  BY DEF Units
<1>3. restG = UNION {{y} \X (1 .. g[y]) : y \in S \ {x}}
  BY <1>1 DEF Units
<1>4. {{y} \X (1 .. f[y]) : y \in S \ {x}} = {{y} \X (1 .. g[y]) : y \in S \ {x}}
  BY <1>1
<1>5. restF = restG
  BY <1>2, <1>3, <1>4
<1>6. Total(f) = Cardinality(restF) + f[x]
  BY TotalSplit
<1>7. Total(g) = Cardinality(restG) + g[x]
  BY <1>1, TotalSplit
<1>8. IsFiniteSet(restF)
  BY TotalType, FS_Subset
<1>9. Cardinality(restF) \in Nat /\ f[x] \in Nat
  BY <1>8, FS_CardinalityType
<1> HIDE DEF restF, restG
<1>10. Total(g) = Cardinality(restF) + n
  BY <1>1, <1>5, <1>7
<1>11. Total(g) = Total(f) - f[x] + n
  BY <1>6, <1>9, <1>10
<1> QED
  BY <1>11 DEF g

\* No value exceeds the total.
LEMMA TotalBounds ==
    ASSUME NEW S, IsFiniteSet(S), NEW f \in [S -> Nat], NEW x \in S
    PROVE  f[x] <= Total(f)
<1> DEFINE rest == Units(f) \ ({x} \X (1 .. f[x]))
<1>1. IsFiniteSet(rest)
  BY TotalType, FS_Subset
<1>2. Cardinality(rest) \in Nat
  BY <1>1, FS_CardinalityType
<1> QED
  BY <1>2, TotalSplit

-----------------------------------------------------------------------------
(* The pool with its escrow contracts.                                     *)

\* The types of what the two escrow contracts remember.
EscrowTypeOK ==
    /\ orders \in [OrderId -> Order \cup {None}]
    /\ quests \in [QuestId -> Quest \cup {None}]
    /\ agentNullifiers \subseteq AgentNullifier
    /\ stranded \in Nat

\* Nobody but the escrow contracts holds tokens of a V1 pool: it has no notes
\* anyone paid for.  The pool does not know this; that a payout to an escrow
\* contract is covered by what the contracts hold rests on it.
AllHeld == ~v2Mode => held = custody

EscrowInv == PoolInv /\ EscrowTypeOK /\ EscrowsHeld /\ AllHeld

\* What an order locks and a quest owes are amounts a pool can be asked for.
LEMMA EscrowAmounts ==
    ASSUME EscrowTypeOK
    PROVE  /\ [id \in OrderId |-> Locked(orders[id])] \in [OrderId -> Nat]
           /\ [id \in QuestId |-> Owed(quests[id])] \in [QuestId -> Nat]
           /\ OrdersEscrow \in Nat /\ QuestsReward \in Nat
<1>1. \A id \in OrderId : Locked(orders[id]) \in Nat
  BY PoolConstants DEF EscrowTypeOK, Locked, Order
<1>2. \A id \in QuestId : Owed(quests[id]) \in Nat
  BY PoolConstants DEF EscrowTypeOK, Owed, Quest
<1>3. /\ [id \in OrderId |-> Locked(orders[id])] \in [OrderId -> Nat]
      /\ [id \in QuestId |-> Owed(quests[id])] \in [QuestId -> Nat]
  BY <1>1, <1>2
<1> QED
  BY <1>3, TotalType, EscrowConstants DEF OrdersEscrow, QuestsReward

\* Changing one order changes what the orders lock by as much, and no order
\* locks more than all of them.
LEMMA OrderChanges ==
    ASSUME EscrowTypeOK, NEW id \in OrderId, NEW order \in Order,
           orders' = [orders EXCEPT ![id] = order]
    PROVE  /\ OrdersEscrow' = OrdersEscrow - Locked(orders[id]) + Locked(order)
           /\ Locked(orders[id]) <= OrdersEscrow
           /\ Locked(orders[id]) \in Nat /\ Locked(order) \in Nat
           /\ orders' \in [OrderId -> Order \cup {None}]
<1> DEFINE f == [o \in OrderId |-> Locked(orders[o])]
           n == Locked(order)
<1>1. f \in [OrderId -> Nat]
  BY EscrowAmounts
<1>2. n \in Nat
  BY PoolConstants, EscrowConstants DEF Locked, Order
<1>3. orders' \in [OrderId -> Order \cup {None}]
  BY DEF EscrowTypeOK
<1>4. [o \in OrderId |-> Locked(orders'[o])] = [f EXCEPT ![id] = n]
  BY <1>3 DEF EscrowTypeOK
<1>5. OrdersEscrow' = Total([f EXCEPT ![id] = n])
  <2>1. OrdersEscrow' = Total([o \in OrderId |-> Locked(orders'[o])])
    BY DEF OrdersEscrow, Locked
  <2> QED
    BY <1>4, <2>1
<1>6. OrdersEscrow = Total(f) /\ f[id] = Locked(orders[id])
  BY DEF OrdersEscrow
<1>7. IsFiniteSet(OrderId)
  BY EscrowConstants
<1> HIDE DEF f, n
<1>8. Total([f EXCEPT ![id] = n]) = Total(f) - f[id] + n
  BY <1>1, <1>2, <1>7, TotalUpdate
<1>9. f[id] <= Total(f) /\ f[id] \in Nat
  BY <1>1, <1>7, TotalBounds
<1> QED
  BY <1>2, <1>3, <1>5, <1>6, <1>8, <1>9 DEF n

\* The same of one quest.
LEMMA QuestChanges ==
    ASSUME EscrowTypeOK, NEW id \in QuestId, NEW quest \in Quest,
           quests' = [quests EXCEPT ![id] = quest]
    PROVE  /\ QuestsReward' = QuestsReward - Owed(quests[id]) + Owed(quest)
           /\ Owed(quests[id]) <= QuestsReward
           /\ Owed(quests[id]) \in Nat /\ Owed(quest) \in Nat
           /\ quests' \in [QuestId -> Quest \cup {None}]
<1> DEFINE f == [q \in QuestId |-> Owed(quests[q])]
           n == Owed(quest)
<1>1. f \in [QuestId -> Nat]
  BY EscrowAmounts
<1>2. n \in Nat
  BY PoolConstants, EscrowConstants DEF Owed, Quest
<1>3. quests' \in [QuestId -> Quest \cup {None}]
  BY DEF EscrowTypeOK
<1>4. [q \in QuestId |-> Owed(quests'[q])] = [f EXCEPT ![id] = n]
  BY <1>3 DEF EscrowTypeOK
<1>5. QuestsReward' = Total([f EXCEPT ![id] = n])
  <2>1. QuestsReward' = Total([q \in QuestId |-> Owed(quests'[q])])
    BY DEF QuestsReward, Owed
  <2> QED
    BY <1>4, <2>1
<1>6. QuestsReward = Total(f) /\ f[id] = Owed(quests[id])
  BY DEF QuestsReward
<1>7. IsFiniteSet(QuestId)
  BY EscrowConstants
<1> HIDE DEF f, n
<1>8. Total([f EXCEPT ![id] = n]) = Total(f) - f[id] + n
  BY <1>1, <1>2, <1>7, TotalUpdate
<1>9. f[id] <= Total(f) /\ f[id] \in Nat
  BY <1>1, <1>7, TotalBounds
<1> QED
  BY <1>2, <1>3, <1>5, <1>6, <1>8, <1>9 DEF n

\* The maps a step leaves alone lock and owe what they did.
LEMMA OrdersStay == ASSUME UNCHANGED orders PROVE OrdersEscrow' = OrdersEscrow
BY DEF OrdersEscrow, Locked

LEMMA QuestsStay == ASSUME UNCHANGED quests PROVE QuestsReward' = QuestsReward
BY DEF QuestsReward, Owed

\* A pull is a step of the pool that brings in the amount.
LEMMA PullMoves ==
    ASSUME PoolInv, NEW c \in Contract, NEW amount \in 0 .. MaxFund, Pull(c, amount)
    PROVE  /\ [Next]_vars /\ v2Mode' = v2Mode
           /\ custody' = custody + amount /\ held' = held + amount
<1>0. custody \in Nat /\ held \in Nat /\ amount \in Nat /\ MaxFund \in Nat
  BY PoolConstants DEF PoolInv, TypeOK
<1>1. CASE amount > 0
  <2>1. PullPublicDeposit(c, amount) /\ amount \in 1 .. MaxFund
    BY <1>0, <1>1 DEF Pull
  <2>2. SettlementStep
    BY <2>1 DEF SettlementStep
  <2> QED
    BY <2>1, <2>2 DEF Next, PullPublicDeposit, ReceiveTokens
<1>2. CASE ~(amount > 0)
  <2>1. UNCHANGED vars /\ amount = 0
    BY <1>0, <1>2 DEF Pull
  <2> QED
    BY <1>0, <2>1 DEF vars, poolVars
<1> QED
  BY <1>1, <1>2

\* A payout of no more than the contracts hold is a step of the pool that the
\* allowlist's trust covers, and takes out the amount.
LEMMA PayOutMoves ==
    ASSUME PoolInv, NEW c \in Contract, NEW amount \in 0 .. MaxFund, amount <= held,
           PayOut(c, amount)
    PROVE  /\ [Next]_vars /\ v2Mode' = v2Mode
           /\ custody' = custody - amount /\ held' = held - amount
<1>0. custody \in Nat /\ held \in Nat /\ amount \in Nat /\ MaxFund \in Nat
  BY PoolConstants DEF PoolInv, TypeOK
<1>1. CASE amount > 0
  <2>1. Settle(c, {}, <<>>, amount)
    BY <1>1 DEF PayOut
  <2>2. ToSet(<<>>) = {} /\ Value({}) = 0
    BY ValueEmpty, EmptySeq DEF ToSet
  <2>3. ExecuteSettlement(c, {}, <<>>, amount)
    BY <1>0, <2>1, <2>2 DEF ExecuteSettlement, TrustedSettlement
  <2>4. <<>> \in SeqOf(Note, 1)
    BY DEF SeqOf
  <2>5. SettlementStep
    BY <2>3, <2>4 DEF SettlementStep, AtMostOneNote
  <2>6. held' = (held + 0) - (0 + amount)
    BY <2>1, <2>2 DEF Settle
  <2> QED
    BY <1>0, <2>1, <2>5, <2>6 DEF Next, Settle
<1>2. CASE ~(amount > 0)
  <2>1. UNCHANGED vars /\ amount = 0
    BY <1>0, <1>2 DEF PayOut
  <2> QED
    BY <1>0, <2>1 DEF vars, poolVars
<1> QED
  BY <1>1, <1>2

\* A V1 pool stays one, and a V2 pool too.
LEMMA ModeIsFixed == Next => v2Mode' = v2Mode
<1> SUFFICES ASSUME Next PROVE v2Mode' = v2Mode
  OBVIOUS
<1>1. CASE DepositStep
  BY <1>1 DEF DepositStep, DepositV2, DepositV3, Deposit
<1>2. CASE TransferStep
  BY <1>2 DEF TransferStep, TransferV2, TransferV3
<1>3. CASE WithdrawStep
  BY <1>3 DEF WithdrawStep, WithdrawV2, WithdrawV3, WithdrawV3Batch, WithdrawAll
<1>4. CASE RageQuitStep
  BY <1>4 DEF RageQuitStep, RageQuitV2
<1>5. CASE SettlementStep
  BY <1>5 DEF SettlementStep, ExecuteSettlement, Settle, ReceiveTokens, PullPublicDeposit
<1>6. CASE AdminStep
  BY <1>6 DEF AdminStep, SetAnonymityFloor, SyncSpentCount, SetBlocklistEnabled,
         AddSettlementAuthority, RemoveSettlementAuthority
<1>7. CASE AspStep
  BY <1>7 DEF AspStep, poolVars
<1> QED
  BY <1>1, <1>2, <1>3, <1>4, <1>5, <1>6, <1>7 DEF Next

\* A step of the pool keeps the invariant if the sums move as the tokens do.
LEMMA EscrowKeeps ==
    ASSUME EscrowInv, [Next]_vars, ~v2Mode, v2Mode' = v2Mode, EscrowTypeOK',
           NEW amount \in Int, custody' = custody + amount, held' = held + amount,
           OrdersEscrow' + QuestsReward' + stranded' = OrdersEscrow + QuestsReward + stranded + amount
    PROVE  EscrowInv'
<1>1. PoolInv'
  BY PoolInvNext DEF EscrowInv
<1>2. custody = OrdersEscrow + QuestsReward + stranded /\ held = custody
  BY DEF EscrowInv, EscrowsHeld, AllHeld
<1>3. custody' = OrdersEscrow' + QuestsReward' + stranded' /\ held' = custody'
  BY <1>2
<1> QED
  BY <1>1, <1>3 DEF EscrowInv, EscrowsHeld, AllHeld

\* The order registry's calls are steps of the pool and keep the sum.
LEMMA OrderStepKeeps ==
    ASSUME EscrowInv, ~v2Mode, OrderStep
    PROVE  EscrowInv' /\ [Next]_vars
<1>0. /\ PoolInv /\ EscrowTypeOK /\ held = custody
      /\ custody = OrdersEscrow + QuestsReward + stranded
      /\ OrdersEscrow \in Nat /\ QuestsReward \in Nat /\ stranded \in Nat
      /\ Registry \in Contract
  BY EscrowAmounts, EscrowConstants DEF EscrowInv, EscrowsHeld, AllHeld, EscrowTypeOK
<1>1. PICK id \in OrderId :
          \/ \E c \in Commitment, escrow \in 0 .. MaxFund, d \in Depositor :
                 CommitOrder(id, c, escrow, d)
          \/ \E d \in Depositor : CancelOrder(id, d)
          \/ \E price \in Price : RevealAndExecute(id, price)
  BY DEF OrderStep
<1>2. /\ UNCHANGED <<quests, agentNullifiers, stranded>>
  BY <1>1 DEF CommitOrder, CancelOrder, RevealAndExecute
<1>3. QuestsReward' = QuestsReward
  BY <1>2, QuestsStay
<1>4. CASE \E c \in Commitment, escrow \in 0 .. MaxFund, d \in Depositor :
               CommitOrder(id, c, escrow, d)
  <2>1. PICK c \in Commitment, escrow \in 0 .. MaxFund, d \in Depositor :
            CommitOrder(id, c, escrow, d)
    BY <1>4
  <2> DEFINE order == [commitment |-> c, escrow |-> escrow, depositor |-> d, active |-> TRUE]
  <2>2. /\ orders[id] = None /\ Pull(Registry, escrow)
        /\ orders' = [orders EXCEPT ![id] = order]
    BY <2>1 DEF CommitOrder
  <2>3. order \in Order /\ order # None
    <3>1. order \in Order
      BY DEF Order
    <3> QED
      BY <3>1, EscrowConstants
  <2>4. Locked(orders[id]) = 0 /\ Locked(order) = escrow
    BY <2>2, <2>3 DEF Locked
  <2> HIDE DEF order
  <2>5. /\ OrdersEscrow' = OrdersEscrow - Locked(orders[id]) + Locked(order)
        /\ orders' \in [OrderId -> Order \cup {None}]
    BY <1>0, <2>2, <2>3, OrderChanges
  <2>6. /\ [Next]_vars /\ v2Mode' = v2Mode
        /\ custody' = custody + escrow /\ held' = held + escrow
    BY <1>0, <2>2, PullMoves
  <2>7. EscrowTypeOK'
    BY <1>0, <1>2, <2>5 DEF EscrowTypeOK
  <2>8. escrow \in Int /\ MaxFund \in Nat
    BY PoolConstants
  <2>9. OrdersEscrow' + QuestsReward' + stranded' = OrdersEscrow + QuestsReward + stranded + escrow
    BY <1>0, <1>2, <1>3, <2>4, <2>5, <2>8
  <2> QED
    BY <2>6, <2>7, <2>8, <2>9, EscrowKeeps
<1>5. CASE \/ \E d \in Depositor : CancelOrder(id, d)
           \/ \E price \in Price : RevealAndExecute(id, price)
  <2> DEFINE order == [orders[id] EXCEPT !.active = FALSE]
             paid  == orders[id].escrow
  <2>1. /\ orders[id] # None /\ orders[id].active
        /\ orders' = [orders EXCEPT ![id] = order] /\ PayOut(Registry, paid)
    BY <1>5 DEF CancelOrder, RevealAndExecute
  <2>2. orders[id] \in Order
    BY <1>0, <2>1 DEF EscrowTypeOK
  <2>3. order \in Order /\ ~order.active /\ paid \in 0 .. MaxFund
    BY <2>2 DEF Order
  <2>4. Locked(orders[id]) = paid /\ Locked(order) = 0
    BY <2>1, <2>3 DEF Locked
  <2> HIDE DEF order, paid
  <2>5. /\ OrdersEscrow' = OrdersEscrow - Locked(orders[id]) + Locked(order)
        /\ Locked(orders[id]) <= OrdersEscrow
        /\ orders' \in [OrderId -> Order \cup {None}]
    BY <1>0, <2>1, <2>3, OrderChanges
  <2>6. paid \in Int /\ paid <= held
    BY <1>0, <2>3, <2>4, <2>5, PoolConstants
  <2>7. /\ [Next]_vars /\ v2Mode' = v2Mode
        /\ custody' = custody - paid /\ held' = held - paid
    BY <1>0, <2>1, <2>3, <2>6, PayOutMoves
  <2>8. EscrowTypeOK'
    BY <1>0, <1>2, <2>5 DEF EscrowTypeOK
  <2>9. OrdersEscrow' + QuestsReward' + stranded' = OrdersEscrow + QuestsReward + stranded + (- paid)
    BY <1>0, <1>2, <1>3, <2>4, <2>5, <2>6
  <2>10. - paid \in Int /\ custody' = custody + (- paid) /\ held' = held + (- paid)
    BY <1>0, <2>6, <2>7
  <2> QED
    BY <2>7, <2>8, <2>9, <2>10, EscrowKeeps
<1> QED
  BY <1>1, <1>4, <1>5

\* The settlement hub's calls are steps of the pool and keep the sum: a quest
\* that is replaced owes nothing any more, and what it owed is stranded.
LEMMA QuestStepKeeps ==
    ASSUME EscrowInv, ~v2Mode, QuestStep
    PROVE  EscrowInv' /\ [Next]_vars
<1>0. /\ PoolInv /\ EscrowTypeOK /\ held = custody
      /\ custody = OrdersEscrow + QuestsReward + stranded
      /\ OrdersEscrow \in Nat /\ QuestsReward \in Nat /\ stranded \in Nat
      /\ Hub \in Contract
  BY EscrowAmounts, EscrowConstants DEF EscrowInv, EscrowsHeld, AllHeld, EscrowTypeOK
<1>1. PICK id \in QuestId :
          \/ \E reward \in 0 .. MaxFund : CreateQuest(id, reward)
          \/ \E agent \in AgentNullifier : ClaimQuest(id, agent)
  BY DEF QuestStep
<1>2. UNCHANGED orders /\ agentNullifiers' \subseteq AgentNullifier
  BY <1>0, <1>1 DEF CreateQuest, ClaimQuest, EscrowTypeOK
<1>3. OrdersEscrow' = OrdersEscrow
  BY <1>2, OrdersStay
<1>4. CASE \E reward \in 0 .. MaxFund : CreateQuest(id, reward)
  <2>1. PICK reward \in 0 .. MaxFund : CreateQuest(id, reward)
    BY <1>4
  <2> DEFINE quest == [reward |-> reward, claimed |-> FALSE]
  <2>2. /\ Pull(Hub, reward) /\ quests' = [quests EXCEPT ![id] = quest]
        /\ stranded' = stranded + Owed(quests[id])
    BY <2>1 DEF CreateQuest
  <2>3. quest \in Quest /\ quest # None
    <3>1. quest \in Quest
      BY DEF Quest
    <3> QED
      BY <3>1, EscrowConstants
  <2>4. Owed(quest) = reward
    BY <2>3 DEF Owed
  <2> HIDE DEF quest
  <2>5. /\ QuestsReward' = QuestsReward - Owed(quests[id]) + Owed(quest)
        /\ Owed(quests[id]) \in Nat
        /\ quests' \in [QuestId -> Quest \cup {None}]
    BY <1>0, <2>2, <2>3, QuestChanges
  <2>6. /\ [Next]_vars /\ v2Mode' = v2Mode
        /\ custody' = custody + reward /\ held' = held + reward
    BY <1>0, <2>2, PullMoves
  <2>7. EscrowTypeOK'
    BY <1>0, <1>2, <2>2, <2>5 DEF EscrowTypeOK
  <2>8. reward \in Int /\ MaxFund \in Nat
    BY PoolConstants
  <2>9. OrdersEscrow' + QuestsReward' + stranded' = OrdersEscrow + QuestsReward + stranded + reward
    BY <1>0, <1>3, <2>2, <2>4, <2>5, <2>8
  <2> QED
    BY <2>6, <2>7, <2>8, <2>9, EscrowKeeps
<1>5. CASE \E agent \in AgentNullifier : ClaimQuest(id, agent)
  <2> DEFINE quest == [quests[id] EXCEPT !.claimed = TRUE]
             paid  == quests[id].reward
  <2>1. /\ quests[id] # None /\ ~quests[id].claimed /\ UNCHANGED stranded
        /\ quests' = [quests EXCEPT ![id] = quest] /\ PayOut(Hub, paid)
    BY <1>5 DEF ClaimQuest
  <2>2. quests[id] \in Quest
    BY <1>0, <2>1 DEF EscrowTypeOK
  <2>3. quest \in Quest /\ quest.claimed /\ paid \in 0 .. MaxFund
    BY <2>2 DEF Quest
  <2>4. Owed(quests[id]) = paid /\ Owed(quest) = 0
    BY <2>1, <2>3 DEF Owed
  <2> HIDE DEF quest, paid
  <2>5. /\ QuestsReward' = QuestsReward - Owed(quests[id]) + Owed(quest)
        /\ Owed(quests[id]) <= QuestsReward
        /\ quests' \in [QuestId -> Quest \cup {None}]
    BY <1>0, <2>1, <2>3, QuestChanges
  <2>6. paid \in Int /\ paid <= held
    BY <1>0, <2>3, <2>4, <2>5, PoolConstants
  <2>7. /\ [Next]_vars /\ v2Mode' = v2Mode
        /\ custody' = custody - paid /\ held' = held - paid
    BY <1>0, <2>1, <2>3, <2>6, PayOutMoves
  <2>8. EscrowTypeOK'
    BY <1>0, <1>2, <2>1, <2>5 DEF EscrowTypeOK
  <2>9. OrdersEscrow' + QuestsReward' + stranded' = OrdersEscrow + QuestsReward + stranded + (- paid)
    BY <1>0, <1>3, <2>1, <2>4, <2>5, <2>6
  <2>10. - paid \in Int /\ custody' = custody + (- paid) /\ held' = held + (- paid)
    BY <1>0, <2>6, <2>7
  <2> QED
    BY <2>7, <2>8, <2>9, <2>10, EscrowKeeps
<1> QED
  BY <1>1, <1>4, <1>5

\* Every step of the composed system keeps the invariant and is a step of the
\* pool, or none of it.
LEMMA EscrowInvNext == EscrowInv /\ [EscrowNext]_allVars => EscrowInv' /\ [Next]_vars
<1> SUFFICES ASSUME EscrowInv, [EscrowNext]_allVars PROVE EscrowInv' /\ [Next]_vars
  OBVIOUS
<1>1. CASE PoolStep
  <2>1. Next /\ v2Mode /\ v2Mode' /\ UNCHANGED escrowVars
    BY <1>1, ModeIsFixed DEF PoolStep
  <2>2. PoolInv'
    BY <2>1, PoolInvNext DEF EscrowInv
  <2>3. EscrowTypeOK'
    BY <2>1 DEF EscrowInv, EscrowTypeOK, escrowVars
  <2> QED
    BY <2>1, <2>2, <2>3 DEF EscrowInv, EscrowsHeld, AllHeld
<1>2. CASE ~v2Mode /\ OrderStep
  BY <1>2, OrderStepKeeps
<1>3. CASE ~v2Mode /\ QuestStep
  BY <1>3, QuestStepKeeps
<1>4. CASE ~v2Mode /\ (AuthorityStep \/ UNCHANGED allVars)
  <2>1. UNCHANGED escrowVars /\ UNCHANGED <<v2Mode, custody, held>>
    BY <1>4 DEF AuthorityStep, AddSettlementAuthority, RemoveSettlementAuthority,
           allVars, vars, poolVars
  <2>2. [Next]_vars
    <3>1. CASE AuthorityStep
      <4>1. AdminStep
        BY <3>1, EscrowConstants DEF AuthorityStep, AdminStep
      <4> QED
        BY <4>1 DEF Next
    <3>2. CASE UNCHANGED allVars
      BY <3>2 DEF allVars
    <3> QED
      BY <1>4, <3>1, <3>2
  <2>3. EscrowTypeOK' /\ UNCHANGED <<orders, quests, stranded>>
    BY <2>1 DEF EscrowInv, EscrowTypeOK, escrowVars
  <2>4. OrdersEscrow' = OrdersEscrow /\ QuestsReward' = QuestsReward
    BY <2>3, OrdersStay, QuestsStay
  <2>5. PoolInv'
    BY <2>2, PoolInvNext DEF EscrowInv
  <2> QED
    BY <2>1, <2>2, <2>3, <2>4, <2>5 DEF EscrowInv, EscrowsHeld, AllHeld
<1>5. CASE v2Mode /\ UNCHANGED allVars
  <2>1. UNCHANGED vars /\ UNCHANGED escrowVars /\ v2Mode'
    BY <1>5 DEF allVars, vars, poolVars
  <2>2. PoolInv'
    BY <2>1, PoolInvNext DEF EscrowInv
  <2>3. EscrowTypeOK'
    BY <2>1 DEF EscrowInv, EscrowTypeOK, escrowVars
  <2> QED
    BY <2>1, <2>2, <2>3 DEF EscrowInv, EscrowsHeld, AllHeld
<1> QED
  BY <1>1, <1>2, <1>3, <1>4, <1>5 DEF EscrowNext

\* Nothing is locked, owed or held at first.
LEMMA EscrowInvInit == Init /\ EscrowInit => EscrowInv
<1> SUFFICES ASSUME Init, EscrowInit PROVE EscrowInv
  OBVIOUS
<1>1. EscrowTypeOK
  BY DEF EscrowInit, EscrowTypeOK
<1>2. /\ [id \in OrderId |-> Locked(orders[id])] = [id \in OrderId |-> 0]
      /\ [id \in QuestId |-> Owed(quests[id])] = [id \in QuestId |-> 0]
  BY DEF EscrowInit, Locked, Owed
<1>3. OrdersEscrow = 0 /\ QuestsReward = 0
  BY <1>2, TotalZero DEF OrdersEscrow, QuestsReward
<1>4. custody = 0 /\ held = 0 /\ stranded = 0
  BY DEF Init, InitializeV1, InitializeV2, InitializeState, EscrowInit
<1> QED
  BY <1>1, <1>3, <1>4, PoolInvInit DEF EscrowInv, EscrowsHeld, AllHeld

\* The tokens of a V1 pool are exactly what active orders lock, open quests owe
\* and replaced quests left behind, for any orders, quests, amounts and order
\* of the calls.
THEOREM EscrowsAreHeld == EscrowSpec => []EscrowsHeld
<1>1. EscrowInv => EscrowsHeld
  BY DEF EscrowInv
<1> QED
  BY <1>1, EscrowInvInit, EscrowInvNext, PTL DEF EscrowSpec

\* Seen from the pool, the registry and the hub are settlement contracts that
\* deserve the allowlist's trust: every call they make is one the pool's own
\* specification has, so what is proved of the pool holds with them.
THEOREM EscrowsRespectPool == EscrowSpec => Spec
BY EscrowInvInit, EscrowInvNext, PTL DEF EscrowSpec, Spec

\* With them on the allowlist the pool still keeps the ledger's promises, and
\* its tokens cover every spendable note and everything they hold.
THEOREM EscrowsAreBacked == EscrowSpec => RefinesLedger /\ []Backed
BY EscrowsRespectPool, PoolRefinesLedger, PoolBacked, PTL
=============================================================================
