--------------------------- MODULE AspMembership ----------------------------
(***************************************************************************)
(* The association-set provider's approval tree                            *)
(* (contracts/asp-membership).  The administrator appends approved keys to *)
(* an append-only Merkle tree; the pool asks is_known_root before it       *)
(* accepts the root a deposit proof was built against.                     *)
(***************************************************************************)
EXTENDS RootWindow, FiniteSets

CONSTANTS
    Key,                 \* spend keys that can be approved
    ASP_CAPACITY,        \* 1 << ASP_TREE_DEPTH
    ASP_ROOT_HISTORY     \* ROOT_HISTORY_SIZE

VARIABLES
    aspLeaves,           \* Leaf(key) -> index, as the sequence of keys
    aspHistory           \* RootHistory, oldest first

aspVars == <<aspLeaves, aspHistory>>

AspTypeOK ==
    /\ aspLeaves \in Seq(Key)
    /\ Len(aspLeaves) <= ASP_CAPACITY
    /\ aspHistory \in Seq(1 .. ASP_CAPACITY)

AspInit == aspLeaves = <<>> /\ aspHistory = <<>>

IsMember(key) == \E i \in 1 .. Len(aspLeaves) : aspLeaves[i] = key

\* insert_leaf, admin only: refused for a key already there and when full.
InsertAspLeaf(key) ==
    /\ ~IsMember(key)
    /\ Len(aspLeaves) < ASP_CAPACITY
    /\ aspLeaves' = Append(aspLeaves, key)
    /\ aspHistory' = PushRoots(aspHistory, <<Len(aspLeaves) + 1>>, ASP_ROOT_HISTORY)

IsKnownAspRoot(root) == IsKnownRoot(Len(aspLeaves), aspHistory, root)

AspNext == \E key \in Key : InsertAspLeaf(key)
=============================================================================
