----------------------------- MODULE RootWindow -----------------------------
(***************************************************************************)
(* The ring buffer of recent Merkle roots that the pool and the ASP        *)
(* membership contract both keep beside their tree.  A tree that is only   *)
(* ever appended to, under a collision-free hash, has one root per number  *)
(* of leaves, so a root is named by the number of leaves below it.  A root *)
(* that no contract ever produced (a tree somebody built on their own      *)
(* machine) is ForgedRoot: a Merkle proof against it opens on any leaf.    *)
(***************************************************************************)
EXTENDS Integers, Sequences

ForgedRoot == -1

\* The roots a tree of at most capacity leaves can have, and the forged one.
RootUpTo(capacity) == (0 .. capacity) \cup {ForgedRoot}

\* A mutant of PushRoots: the window is one root short.
PushRootsShort(history, roots, size) ==
    LET all == history \o roots
    IN  IF Len(all) < size THEN all
        ELSE SubSeq(all, Len(all) - size + 2, Len(all))

\* history.push_back(root); while history.len() > size { history.pop_front() }
\* for each of roots in turn.
PushRoots(history, roots, size) ==
    LET all == history \o roots
    IN  IF Len(all) <= size THEN all
        ELSE SubSeq(all, Len(all) - size + 1, Len(all))

\* A mutant of IsKnownRoot: any root is taken on trust.
AnyRoot(current, history, root) == TRUE

\* The current root, or one still in the ring buffer.
IsKnownRoot(current, history, root) ==
    \/ root = current
    \/ \E i \in 1 .. Len(history) : history[i] = root

\* What a Merkle path against root opens on: a leaf among the first root
\* leaves, or anything at all when the root is forged.
OpensIn(leaf, leaves, root) ==
    \/ root = ForgedRoot
    \/ \E i \in 1 .. Len(leaves) : i <= root /\ leaves[i] = leaf
=============================================================================
