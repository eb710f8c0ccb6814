-------------------------- MODULE AspNonMembership --------------------------
(***************************************************************************)
(* The association-set provider's blocklist                                *)
(* (contracts/asp-non-membership), keyed by note nullifier.  Entries are   *)
(* only ever added.  is_not_blocked reads the entry and nothing else, so a *)
(* contract that is deployed but not initialised still answers "clean".    *)
(***************************************************************************)
EXTENDS FiniteSets, Naturals

CONSTANTS
    Nullifier,           \* what can be blocked
    MaxBlocked           \* bound of the model: blocklist entries

VARIABLES
    blocked,             \* DataKey::BlockedLeaf
    blocklistState       \* "absent", "deployed" or "initialized"

nmVars == <<blocked, blocklistState>>

NmTypeOK ==
    /\ blocked \subseteq Nullifier
    /\ blocklistState \in {"absent", "deployed", "initialized"}

NmInit == blocked = {} /\ blocklistState \in {"absent", "deployed", "initialized"}

InitializeBlocklist ==
    /\ blocklistState = "deployed"
    /\ blocklistState' = "initialized"
    /\ UNCHANGED blocked

\* block_leaf, admin only: there is an admin only once initialised.
BlockLeaf(n) ==
    /\ blocklistState = "initialized"
    /\ n \notin blocked
    /\ Cardinality(blocked) < MaxBlocked
    /\ blocked' = blocked \cup {n}
    /\ UNCHANGED blocklistState

\* try_is_not_blocked as the caller sees it: the call itself fails only when
\* nothing is deployed at the address.
IsNotBlocked(n) == blocklistState # "absent" /\ n \notin blocked

NmNext == InitializeBlocklist \/ \E n \in Nullifier : BlockLeaf(n)
=============================================================================
