----------------------------- MODULE MerkleTree -----------------------------
(***************************************************************************)
(* The append-only Poseidon tree, which three programs compute in three    *)
(* ways: the contracts keep one node per level and hash upwards on every   *)
(* insertion, the client rebuilds every level from the leaves, and the     *)
(* circuit climbs from one leaf along a path.  Levels count from 0 at the  *)
(* leaves; leaf indexes count from 0, as in the code.                      *)
(***************************************************************************)
EXTENDS ShieldedTerms

CONSTANT TREE_DEPTH

ASSUME DepthAssumption == TREE_DEPTH \in Nat \ {0}

\* zeroHashes: the root of an empty subtree of each height.
ZeroHashes ==
    LET z[level \in 0 .. TREE_DEPTH] ==
            IF level = 0 THEN Num(0) ELSE H2(z[level - 1], z[level - 1])
    IN  z

-----------------------------------------------------------------------------
(* The contracts: insert_leaf.                                             *)

EmptyTree == [next |-> 0, root |-> ZeroHashes[TREE_DEPTH],
              frontier |-> [level \in 0 .. TREE_DEPTH - 1 |-> Num(0)]]

\* A mutant of InsertLeaf: a left node is not kept for its sibling.
InsertLeafForgetful(tree, leaf) ==
    LET Bit(level) == (tree.next \div 2 ^ level) % 2
        node[level \in 0 .. TREE_DEPTH] ==
            IF level = 0 THEN leaf
            ELSE IF Bit(level - 1) = 0
                 THEN H2(node[level - 1], ZeroHashes[level - 1])
                 ELSE H2(tree.frontier[level - 1], node[level - 1])
    IN  [next |-> tree.next + 1, root |-> node[TREE_DEPTH],
         frontier |-> [level \in 0 .. TREE_DEPTH - 1 |->
                          IF Bit(level) = 0 /\ level = 0 THEN node[level]
                          ELSE tree.frontier[level]]]

\* The node on the path at each level: a left child is kept and hashed with
\* an empty sibling, a right child is hashed with the left one kept before.
InsertLeaf(tree, leaf) ==
    LET Bit(level) == (tree.next \div 2 ^ level) % 2
        node[level \in 0 .. TREE_DEPTH] ==
            IF level = 0 THEN leaf
            ELSE IF Bit(level - 1) = 0
                 THEN H2(node[level - 1], ZeroHashes[level - 1])
                 ELSE H2(tree.frontier[level - 1], node[level - 1])
    IN  [next |-> tree.next + 1, root |-> node[TREE_DEPTH],
         frontier |-> [level \in 0 .. TREE_DEPTH - 1 |->
                          IF Bit(level) = 0 THEN node[level]
                          ELSE tree.frontier[level]]]

-----------------------------------------------------------------------------
(* The client: buildMerklePath and computeRoot.                            *)

\* The k-th node of a level: a level is as long as its leaves make it, and
\* past its end the nodes are those of an empty subtree.
Nodes(leaves) ==
    LET node[level \in 0 .. TREE_DEPTH, k \in 0 .. 2 ^ TREE_DEPTH] ==
            IF k * 2 ^ level >= Len(leaves) THEN ZeroHashes[level]
            ELSE IF level = 0 THEN leaves[k + 1]
            ELSE H2(node[level - 1, 2 * k], node[level - 1, 2 * k + 1])
    IN  node

ComputeRoot(leaves) == Nodes(leaves)[TREE_DEPTH, 0]

BuildMerklePath(leaves, leafIndex) ==
    LET node == Nodes(leaves)
        At(level) == leafIndex \div 2 ^ level
        Sibling(k) == IF k % 2 = 0 THEN k + 1 ELSE k - 1
    IN  [root     |-> node[TREE_DEPTH, 0],
         indices  |-> [level \in 0 .. TREE_DEPTH - 1 |-> At(level) % 2],
         elements |-> [level \in 0 .. TREE_DEPTH - 1 |-> node[level, Sibling(At(level))]]]

-----------------------------------------------------------------------------
(* The circuit: MerkleProof.                                               *)

MerkleProof(leaf, path) ==
    LET h[level \in 0 .. TREE_DEPTH] ==
            IF level = 0 THEN leaf
            ELSE IF path.indices[level - 1] = 0
                 THEN H2(h[level - 1], path.elements[level - 1])
                 ELSE H2(path.elements[level - 1], h[level - 1])
    IN  h[TREE_DEPTH]
=============================================================================
