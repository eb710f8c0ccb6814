------------------------------- MODULE Escrows ------------------------------
(***************************************************************************)
(* The pool with its settlement contracts.  On a V1 pool these are the     *)
(* hidden order registry (contracts/hidden-order-registry) and the agentic *)
(* settlement hub (contracts/agentic-settlement-hub), which pull tokens    *)
(* into the pool, remember in their own maps what for, and pay them out    *)
(* again; on a V2 pool a contract that spends and mints notes, of which    *)
(* VayylPool says no more than what the allowlist trusts it for            *)
(* (PositionManager models the one there is).  An escrow contract and the  *)
(* pool change in one transaction.                                         *)
(***************************************************************************)
EXTENDS VayylPool, Totals

CONSTANTS
    Registry, Hub, Manager,   \* the three contracts
    OrderId, QuestId,
    Depositor,
    Price,                    \* bound: prices, 64-bit in the circuits
    AgentNullifier,
    None                      \* no record under an id

VARIABLES
    orders,                   \* the registry's DataKey::SealedOrder
    quests,                   \* the hub's DataKey::Quest
    agentNullifiers,          \* the hub's DataKey::AgentNullifier
    stranded                  \* ghost: rewards whose quest was replaced

escrowVars == <<orders, quests, agentNullifiers, stranded>>
allVars == <<vars, escrowVars>>

\* An order's commitment is to its trigger, its direction and a salt; under a
\* collision-free hash it is its opening.
Commitment == [trigger : Price, above : BOOLEAN]

Order == [commitment : Commitment, escrow : 0 .. MaxFund,
          depositor : Depositor, active : BOOLEAN]

Quest == [reward : 0 .. MaxFund, claimed : BOOLEAN]

ASSUME EscrowConstants ==
    /\ {Registry, Hub, Manager} \subseteq Contract
    /\ IsFiniteSet(OrderId) /\ IsFiniteSet(QuestId)
    /\ Price \in SUBSET Nat /\ None \notin Order \cup Quest

EscrowInit ==
    /\ orders = [id \in OrderId |-> None]
    /\ quests = [id \in QuestId |-> None]
    /\ agentNullifiers = {}
    /\ stranded = 0

-----------------------------------------------------------------------------
(* Calls to the pool; a pool that refuses reverts the caller.              *)

\* if amount > 0 { pull_public_deposit(..) }
Pull(contract, amount) ==
    IF amount > 0 THEN PullPublicDeposit(contract, amount) ELSE UNCHANGED vars

\* if amount > 0 { execute_settlement(.., no notes, amount) }
PayOut(contract, amount) ==
    IF amount > 0 THEN Settle(contract, {}, <<>>, amount) ELSE UNCHANGED vars

-----------------------------------------------------------------------------
(* The hidden order registry.                                              *)

CommitOrder(id, commitment, escrow, depositor) ==
    /\ orders[id] = None
    /\ Pull(Registry, escrow)
    /\ orders' = [orders EXCEPT ![id] =
                     [commitment |-> commitment, escrow |-> escrow,
                      depositor |-> depositor, active |-> TRUE]]
    /\ UNCHANGED <<quests, agentNullifiers, stranded>>

\* A mutant of CancelOrder: the order stays active.
CancelOrderActive(id, depositor) ==
    /\ orders[id] # None
    /\ orders[id].depositor = depositor
    /\ orders[id].active
    /\ orders' = [orders EXCEPT ![id].active = TRUE]
    /\ PayOut(Registry, orders[id].escrow)
    /\ UNCHANGED <<quests, agentNullifiers, stranded>>

CancelOrder(id, depositor) ==
    /\ orders[id] # None
    /\ orders[id].depositor = depositor
    /\ orders[id].active
    /\ orders' = [orders EXCEPT ![id].active = FALSE]
    /\ PayOut(Registry, orders[id].escrow)
    /\ UNCHANGED <<quests, agentNullifiers, stranded>>

\* The HiddenOrderTrigger circuit: the price is on the committed side of the
\* committed trigger.
Fired(commitment, price) ==
    IF commitment.above THEN price >= commitment.trigger
                        ELSE price <= commitment.trigger

\* Anyone who knows the opening, at a price of the caller's choosing.  The
\* proof binds the recipient and the amount, so it is good for one payment.
RevealAndExecute(id, price) ==
    /\ orders[id] # None
    /\ orders[id].active
    /\ Fired(orders[id].commitment, price)
    /\ orders' = [orders EXCEPT ![id].active = FALSE]
    /\ PayOut(Registry, orders[id].escrow)
    /\ UNCHANGED <<quests, agentNullifiers, stranded>>

-----------------------------------------------------------------------------
(* The agentic settlement hub.                                             *)

\* What a quest still owes.
Owed(quest) == IF quest = None \/ quest.claimed THEN 0 ELSE quest.reward

\* create_quest looks nothing up: a quest under an id in use is replaced, and
\* what it owed stays in the pool with nobody to pay it.
CreateQuest(id, reward) ==
    /\ Pull(Hub, reward)
    /\ quests' = [quests EXCEPT ![id] = [reward |-> reward, claimed |-> FALSE]]
    /\ stranded' = stranded + Owed(quests[id])
    /\ UNCHANGED <<orders, agentNullifiers>>

\* A mutant of ClaimQuest: the nullifier guards the claim and the flag does not.
ClaimQuestByNullifier(id, agent) ==
    /\ agent \notin agentNullifiers
    /\ quests[id] # None
    /\ quests' = [quests EXCEPT ![id].claimed = TRUE]
    /\ agentNullifiers' = agentNullifiers \cup {agent}
    /\ PayOut(Hub, quests[id].reward)
    /\ UNCHANGED <<orders, stranded>>

\* By an agent that knows the opening of the quest's commitment.
ClaimQuest(id, agent) ==
    /\ agent \notin agentNullifiers
    /\ quests[id] # None
    /\ ~quests[id].claimed
    /\ quests' = [quests EXCEPT ![id].claimed = TRUE]
    /\ agentNullifiers' = agentNullifiers \cup {agent}
    /\ PayOut(Hub, quests[id].reward)
    /\ UNCHANGED <<orders, stranded>>

-----------------------------------------------------------------------------
OrderStep ==
    \E id \in OrderId :
        \/ \E c \in Commitment, escrow \in 0 .. MaxFund, d \in Depositor :
               CommitOrder(id, c, escrow, d)
        \/ \E d \in Depositor : CancelOrder(id, d)
        \/ \E price \in Price : RevealAndExecute(id, price)

QuestStep ==
    \E id \in QuestId :
        \/ \E reward \in 0 .. MaxFund : CreateQuest(id, reward)
        \/ \E agent \in AgentNullifier : ClaimQuest(id, agent)

\* The administrator moves the two contracts on and off the allowlist.
AuthorityStep ==
    /\ \E a \in {Registry, Hub} : AddSettlementAuthority(a) \/ RemoveSettlementAuthority(a)
    /\ UNCHANGED escrowVars

\* On a V2 pool pull_public_deposit is refused, so the escrow contracts move
\* no token of it and are left alone there (bound).
PoolStep == v2Mode /\ Next /\ authorities' \subseteq {Manager} /\ UNCHANGED escrowVars

EscrowNext ==
    \/ PoolStep
    \/ ~v2Mode /\ OrderStep
    \/ ~v2Mode /\ QuestStep
    \/ ~v2Mode /\ AuthorityStep

EscrowSpec == Init /\ EscrowInit /\ [][EscrowNext]_allVars

-----------------------------------------------------------------------------
(* Correctness.                                                            *)

\* What the active orders lock, and what the open quests owe.
Locked(order) == IF order = None \/ ~order.active THEN 0 ELSE order.escrow

OrdersEscrow == Total([id \in OrderId |-> Locked(orders[id])])
QuestsReward == Total([id \in QuestId |-> Owed(quests[id])])

\* The tokens of a V1 pool are exactly the escrow of active orders, the
\* rewards of open quests and the rewards that were stranded, whoever cancels,
\* executes, claims, replaces or loses its place on the allowlist first; so no
\* contract is ever paid from the tokens of the other.
EscrowsHeld ==
    ~v2Mode => custody = OrdersEscrow + QuestsReward + stranded

\* While the registry is allowlisted, the depositor of an active order can have
\* its escrow back, whatever the other orders and quests did to the pool.
EscrowReturnable ==
    ~v2Mode /\ Registry \in authorities =>
        \A id \in OrderId :
            orders[id] # None /\ orders[id].active =>
                ENABLED CancelOrder(id, orders[id].depositor)
=============================================================================
