------------------------------ MODULE VayylPool -----------------------------
(***************************************************************************)
(* The custody contract (contracts/vayyl-pool) with the two association-   *)
(* set contracts it consults.  Notes sit in an append-only Merkle tree, a  *)
(* spend names a recent root and a nullifier, and a Groth16 proof shows    *)
(* the circuit's relation between them; verification is modelled by that   *)
(* relation.  A call that returns an error changes nothing, so a call is   *)
(* an action and its early returns are the action's guards.                *)
(***************************************************************************)
EXTENDS NoteValue, RootWindow, SequencesExt

CONSTANTS
    Denomination,         \* V2_DENOMINATION
    TREE_CAPACITY,        \* 1 << TREE_DEPTH
    ROOT_HISTORY_SIZE,
    MAX_WITHDRAW_BATCH,
    Contract,             \* deployed Wasm contracts an admin may allowlist
    ASP_CAPACITY,
    ASP_ROOT_HISTORY,
    MaxBlocked,           \* bound: entries on the blocklist
    Floors,               \* bound: floors the admin sets
    SyncSlack,            \* bound: how far above the truth sync_spent_count goes
    MaxFund               \* bound: tokens a settlement brings in, and holds

VARIABLES
    v2Mode,               \* set up by initialize_v2 (DataKey::Denomination present)?
    leaves,               \* the tree, as the sequence of notes in it
    rootHistory,          \* DataKey::RootHistory
    commitments,          \* DataKey::Commitment
    nullifiers,           \* DataKey::Nullifier
    spentCount,           \* DataKey::SpentCount
    floor,                \* DataKey::AnonymityFloor
    blocklistEnabled,     \* DataKey::BlocklistEnabled
    authorities,          \* DataKey::SettlementAuthority
    custody,              \* the contract's balance of the asset
    held,                 \* ghost: custody the settlement contracts answer for
    aspLeaves, aspHistory,         \* asp-membership
    blocked, blocklistState        \* asp-non-membership

poolVars == <<v2Mode, leaves, rootHistory, commitments, nullifiers, spentCount,
              floor, blocklistEnabled, authorities, custody, held>>
aspState == <<aspLeaves, aspHistory, blocked, blocklistState>>
vars == <<poolVars, aspState>>

Asp == INSTANCE AspMembership WITH Key <- Owner
Nm  == INSTANCE AspNonMembership WITH Nullifier <- Note

ASSUME PoolConstants ==
    /\ Denomination \in 1 .. MaxAmount /\ MaxAmount \in Nat
    /\ TREE_CAPACITY \in Nat \ {0} /\ ROOT_HISTORY_SIZE \in Nat \ {0}
    /\ MAX_WITHDRAW_BATCH \in Nat \ {0}
    /\ ASP_CAPACITY \in Nat \ {0} /\ ASP_ROOT_HISTORY \in Nat \ {0}
    /\ Floors \in SUBSET Nat /\ SyncSlack \in Nat /\ MaxFund \in Nat

Root == RootUpTo(TREE_CAPACITY)
AspRoot == RootUpTo(ASP_CAPACITY)

\* Notes in the tree, and the ones whose nullifier is unused.
LeafSet   == {leaves[i] : i \in 1 .. Len(leaves)}
LiveNotes == LeafSet \ nullifiers

TypeOK ==
    /\ v2Mode \in BOOLEAN
    /\ leaves \in Seq(Note) /\ Len(leaves) <= TREE_CAPACITY
    /\ rootHistory \in Seq(1 .. TREE_CAPACITY)
    /\ commitments \subseteq Note /\ nullifiers \subseteq Note
    /\ spentCount \in Nat /\ floor \in Nat /\ blocklistEnabled \in BOOLEAN
    /\ authorities \subseteq Contract
    /\ custody \in Nat /\ held \in Nat
    /\ Asp!AspTypeOK /\ Nm!NmTypeOK

\* initialize_state, which both initialisers call once.
InitializeState ==
    /\ leaves = <<>> /\ rootHistory = <<>>
    /\ commitments = {} /\ nullifiers = {} /\ spentCount = 0
    /\ floor = 0 /\ blocklistEnabled = TRUE /\ authorities = {}
    /\ custody = 0 /\ held = 0
    /\ Asp!AspInit /\ Nm!NmInit

\* A V1 pool serves settlement contracts only; a V2 pool, the only kind the
\* factory deploys, records a denomination and takes payments.
InitializeV1 == v2Mode = FALSE /\ InitializeState

InitializeV2 == v2Mode = TRUE /\ InitializeState

Init == InitializeV1 \/ InitializeV2

-----------------------------------------------------------------------------
(* Helpers of the contract.                                                *)

IsKnown(root) == IsKnownRoot(Len(leaves), rootHistory, root)

\* A mutant of InsertLeaves: TreeFull is off by one.
InsertLeavesPastEnd(notes) ==
    /\ Len(leaves) + Len(notes) <= TREE_CAPACITY + 1
    /\ leaves' = leaves \o notes
    /\ rootHistory' = PushRoots(rootHistory,
                                [i \in 1 .. Len(notes) |-> Len(leaves) + i],
                                ROOT_HISTORY_SIZE)

\* insert_leaf for each note in turn: TreeFull, the leaf, the new root and
\* the ring buffer of roots.
InsertLeaves(notes) ==
    /\ Len(leaves) + Len(notes) <= TREE_CAPACITY
    /\ leaves' = leaves \o notes
    /\ rootHistory' = PushRoots(rootHistory,
                                [i \in 1 .. Len(notes) |-> Len(leaves) + i],
                                ROOT_HISTORY_SIZE)

\* A mutant of MarkNullifiers: the counter counts calls, not nullifiers.
MarkNullifiersCountOnce(notes) ==
    /\ notes \cap nullifiers = {}
    /\ nullifiers' = nullifiers \cup notes
    /\ spentCount' = spentCount + 1

\* mark_nullifier for each of notes, which are different.
MarkNullifiers(notes) ==
    /\ notes \cap nullifiers = {}
    /\ nullifiers' = nullifiers \cup notes
    /\ spentCount' = spentCount + Cardinality(notes)

\* unspent_notes: leaves.saturating_sub(spent).
UnspentNotes ==
    IF Len(leaves) >= spentCount THEN Len(leaves) - spentCount ELSE 0

\* A mutant of FloorMet: a batch of k is counted as one withdrawal.
FloorMetOnce(k) == floor = 0 \/ UnspentNotes >= floor

\* assert_anonymity_floor before each of k withdrawals of one transaction,
\* each of which has marked its nullifier before the next is checked.
FloorMet(k) == floor = 0 \/ UnspentNotes >= floor + (k - 1)

\* A mutant of NotBlocked: an answer that cannot be read counts as clean.
NotBlockedOpen(note) ==
    ~blocklistEnabled \/ blocklistState = "absent" \/ Nm!IsNotBlocked(note)

\* assert_nullifier_not_blocked.
NotBlocked(note) == ~blocklistEnabled \/ Nm!IsNotBlocked(note)

\* The withdraw and transfer circuits' relation for one input note.
SpendProof(note, root) == OpensIn(note, leaves, root)

-----------------------------------------------------------------------------
(* Deposits.                                                               *)

\* The deposit circuits' relation: the commitment is to this amount, under a
\* key that is in the approval tree with this root.
DepositProof(note, amount, aspRoot) ==
    note.amount = amount /\ OpensIn(note.owner, aspLeaves, aspRoot)

\* A mutant of Deposit: the ASP root is not checked to be one of the ASP's.
DepositAnyAspRoot(note, amount, aspRoot) ==
    /\ v2Mode
    /\ note \notin commitments
    /\ DepositProof(note, amount, aspRoot)
    /\ InsertLeaves(<<note>>)
    /\ commitments' = commitments \cup {note}
    /\ custody' = custody + amount
    /\ UNCHANGED <<nullifiers, spentCount, floor, blocklistEnabled, authorities,
                   held, v2Mode, aspState>>

\* What deposit_v2 and deposit_v3 share: a new commitment, an ASP root the
\* ASP contract knows, the deposit circuit's relation, payment, insertion.
Deposit(note, amount, aspRoot) ==
    /\ v2Mode
    /\ note \notin commitments
    /\ Asp!IsKnownAspRoot(aspRoot)
    /\ DepositProof(note, amount, aspRoot)
    /\ InsertLeaves(<<note>>)
    /\ commitments' = commitments \cup {note}
    /\ custody' = custody + amount
    /\ UNCHANGED <<nullifiers, spentCount, floor, blocklistEnabled, authorities,
                   held, v2Mode, aspState>>

DepositV2(note, aspRoot) == Deposit(note, Denomination, aspRoot)

DepositV3(note, amount, aspRoot) == amount > 0 /\ Deposit(note, amount, aspRoot)

-----------------------------------------------------------------------------
(* Transfers: notes are exchanged inside the pool and no token moves.      *)

TransferV2(note, out, root) ==
    /\ v2Mode
    /\ IsKnown(root)
    /\ out \notin commitments
    /\ NotBlocked(note)
    /\ MarkNullifiers({note})
    /\ SpendProof(note, root)
    /\ note.amount = Denomination /\ out.amount = Denomination
    /\ InsertLeaves(<<out>>)
    /\ commitments' = commitments \cup {out}
    /\ UNCHANGED <<floor, blocklistEnabled, authorities, custody, held, v2Mode, aspState>>

\* A mutant of TransferProof: the dummy input may carry an amount.
TransferProofWorthyDummy(in1, in2, isDummy2, out1, out2, root) ==
    /\ SpendProof(in1, root)
    /\ isDummy2 \/ SpendProof(in2, root)
    /\ in1.owner = in2.owner
    /\ in1.amount + in2.amount = out1.amount + out2.amount

\* The V3 transfer circuit's relation: two inputs of one owner, the second a
\* note of the tree or a dummy of amount 0, and outputs of the same total.
TransferProof(in1, in2, isDummy2, out1, out2, root) ==
    /\ SpendProof(in1, root)
    /\ IF isDummy2 THEN in2.amount = 0 ELSE SpendProof(in2, root)
    /\ in1.owner = in2.owner
    /\ in1.amount + in2.amount = out1.amount + out2.amount

\* Two input nullifiers and two new output commitments, each pair different.
TransferV3(in1, in2, isDummy2, root) ==
    /\ v2Mode
    /\ IsKnown(root)
    /\ NotBlocked(in1) /\ NotBlocked(in2)
    /\ in1 # in2 /\ MarkNullifiers({in1, in2})
    /\ \E out1, out2 \in Note \ commitments :
           /\ out1 # out2
           /\ TransferProof(in1, in2, isDummy2, out1, out2, root)
           /\ InsertLeaves(<<out1, out2>>)
           /\ commitments' = commitments \cup {out1, out2}
    /\ UNCHANGED <<floor, blocklistEnabled, authorities, custody, held, v2Mode, aspState>>

-----------------------------------------------------------------------------
(* Exits.                                                                  *)

\* The circuits' relation for a note against some root the pool knows.
ProvedInPool(note) == \E root \in Root : IsKnown(root) /\ SpendProof(note, root)

\* The withdrawals of one transaction: each note named once (the second use
\* of a nullifier reverts everything), each proved, each paid in full.
WithdrawAll(notes) ==
    /\ v2Mode
    /\ \A note \in notes : ProvedInPool(note) /\ NotBlocked(note)
    /\ FloorMet(Cardinality(notes))
    /\ MarkNullifiers(notes)
    /\ custody >= Value(notes)
    /\ custody' = custody - Value(notes)
    /\ UNCHANGED <<leaves, rootHistory, commitments, floor, blocklistEnabled,
                   authorities, held, v2Mode, aspState>>

WithdrawV2(note) == note.amount = Denomination /\ WithdrawAll({note})

WithdrawV3(note) == note.amount > 0 /\ WithdrawAll({note})

WithdrawV3Batch(notes) ==
    /\ notes # {} /\ Cardinality(notes) <= MAX_WITHDRAW_BATCH
    /\ \A note \in notes : note.amount > 0
    /\ WithdrawAll(notes)

\* A mutant of RageQuitV2: the exit consults the blocklist.
RageQuitV2Blocked(note) ==
    /\ v2Mode
    /\ note \in commitments
    /\ NotBlocked(note)
    /\ MarkNullifiers({note})
    /\ note.amount = Denomination
    /\ custody >= Denomination
    /\ custody' = custody - Denomination
    /\ UNCHANGED <<leaves, rootHistory, commitments, floor, blocklistEnabled,
                   authorities, held, v2Mode, aspState>>

\* A mutant of RageQuitV2: the commitment need not be one of this pool's.
RageQuitV2Unknown(note) ==
    /\ v2Mode
    /\ MarkNullifiers({note})
    /\ note.amount = Denomination
    /\ custody >= Denomination
    /\ custody' = custody - Denomination
    /\ UNCHANGED <<leaves, rootHistory, commitments, floor, blocklistEnabled,
                   authorities, held, v2Mode, aspState>>

\* The public exit: neither the blocklist nor the floor is consulted, the
\* commitment is looked up instead of proved, and the denomination is paid.
RageQuitV2(note) ==
    /\ v2Mode
    /\ note \in commitments
    /\ MarkNullifiers({note})
    /\ note.amount = Denomination
    /\ custody >= Denomination
    /\ custody' = custody - Denomination
    /\ UNCHANGED <<leaves, rootHistory, commitments, floor, blocklistEnabled,
                   authorities, held, v2Mode, aspState>>

-----------------------------------------------------------------------------
(* Settlement contracts.                                                   *)

\* execute_settlement.  No proof, no blocklist, no floor, and the outputs are
\* neither looked up in nor added to the commitment map.
Settle(authority, ins, out, payout) ==
    /\ authority \in authorities
    /\ MarkNullifiers(ins)
    /\ InsertLeaves(out)
    /\ custody >= payout
    /\ custody' = custody - payout
    /\ held' = (held + Value(ins)) - (Value(ToSet(out)) + payout)
    /\ UNCHANGED <<commitments, floor, blocklistEnabled, authorities, v2Mode, aspState>>

\* What the allowlist trusts an authority for: the notes it spends were
\* proved to be in the tree, and it mints and pays no more than they and the
\* tokens it already holds are worth.
TrustedSettlement(ins, outs, payout) ==
    /\ ins \subseteq LeafSet
    /\ Value(outs) + payout <= held + Value(ins)

\* Any settlement by an authority that deserves the trust.
ExecuteSettlement(authority, ins, out, payout) ==
    /\ Settle(authority, ins, out, payout)
    /\ TrustedSettlement(ins, ToSet(out), payout)

\* Tokens another contract sends to the pool before it settles (the vault's
\* release of a winning position's profit).
ReceiveTokens(amount) ==
    /\ authorities # {}
    /\ held + amount <= MaxFund
    /\ custody' = custody + amount
    /\ held' = held + amount
    /\ UNCHANGED <<leaves, rootHistory, commitments, nullifiers, spentCount,
                   floor, blocklistEnabled, authorities, v2Mode, aspState>>

\* A mutant of PullPublicDeposit: the depositor's transfer is left out.
PullPublicDepositUnpaid(authority, amount) ==
    /\ ~v2Mode
    /\ authority \in authorities
    /\ held + amount <= MaxFund
    /\ held' = held + amount
    /\ UNCHANGED <<leaves, rootHistory, commitments, nullifiers, spentCount,
                   floor, blocklistEnabled, authorities, custody, v2Mode, aspState>>

\* pull_public_deposit: escrow for a hidden order or a quest, V1 pools only.
PullPublicDeposit(authority, amount) ==
    /\ ~v2Mode
    /\ authority \in authorities
    /\ amount > 0
    /\ ReceiveTokens(amount)

-----------------------------------------------------------------------------
(* Administration.                                                         *)

SetAnonymityFloor(f) ==
    /\ floor' = f
    /\ UNCHANGED <<leaves, rootHistory, commitments, nullifiers, spentCount,
                   blocklistEnabled, authorities, custody, held, v2Mode, aspState>>

\* sync_spent_count takes any count; its comment makes the administrator
\* answer for not setting it below the truth.
SyncSpentCount(s) ==
    /\ s >= Cardinality(nullifiers)
    /\ spentCount' = s
    /\ UNCHANGED <<leaves, rootHistory, commitments, nullifiers, floor,
                   blocklistEnabled, authorities, custody, held, v2Mode, aspState>>

SetBlocklistEnabled(enabled) ==
    /\ blocklistEnabled' = enabled
    /\ UNCHANGED <<leaves, rootHistory, commitments, nullifiers, spentCount,
                   floor, authorities, custody, held, v2Mode, aspState>>

AddSettlementAuthority(a) ==
    /\ authorities' = authorities \cup {a}
    /\ UNCHANGED <<leaves, rootHistory, commitments, nullifiers, spentCount,
                   floor, blocklistEnabled, custody, held, v2Mode, aspState>>

RemoveSettlementAuthority(a) ==
    /\ authorities' = authorities \ {a}
    /\ UNCHANGED <<leaves, rootHistory, commitments, nullifiers, spentCount,
                   floor, blocklistEnabled, custody, held, v2Mode, aspState>>

AspStep == \/ Asp!AspNext /\ UNCHANGED <<poolVars, blocked, blocklistState>>
           \/ Nm!NmNext /\ UNCHANGED <<poolVars, aspLeaves, aspHistory>>

-----------------------------------------------------------------------------
DepositStep ==
    \E note \in Note, aspRoot \in AspRoot :
        \/ DepositV2(note, aspRoot)
        \/ \E amount \in 1 .. MaxAmount : DepositV3(note, amount, aspRoot)

TransferStep ==
    \E root \in Root, note \in Note :
        \/ \E out \in Note : TransferV2(note, out, root)
        \/ \E in2 \in Note, isDummy2 \in BOOLEAN : TransferV3(note, in2, isDummy2, root)

WithdrawStep ==
    \/ \E note \in Note : WithdrawV2(note) \/ WithdrawV3(note)
    \/ \E notes \in SUBSET Note : WithdrawV3Batch(notes)

RageQuitStep == \E note \in Note : RageQuitV2(note)

\* The contracts in the repository spend one note at most and mint one at most.
AtMostOneNote == {{}} \cup {{note} : note \in Note}

SettlementStep ==
    \/ \E a \in Contract, ins \in AtMostOneNote, out \in SeqOf(Note, 1), payout \in 0 .. MaxFund :
           ExecuteSettlement(a, ins, out, payout)
    \/ \E amount \in 1 .. MaxFund :
           \/ ReceiveTokens(amount)
           \/ \E a \in Contract : PullPublicDeposit(a, amount)

AdminStep ==
    \/ \E f \in Floors : SetAnonymityFloor(f)
    \/ \E s \in 0 .. Cardinality(nullifiers) + SyncSlack : SyncSpentCount(s)
    \/ \E enabled \in BOOLEAN : SetBlocklistEnabled(enabled)
    \/ \E a \in Contract : AddSettlementAuthority(a) \/ RemoveSettlementAuthority(a)

Next == DepositStep \/ TransferStep \/ WithdrawStep \/ RageQuitStep
            \/ SettlementStep \/ AdminStep \/ AspStep

Spec == Init /\ [][Next]_vars

\* The same pool while no settlement contract takes part.
UsersNext == DepositStep \/ TransferStep \/ WithdrawStep \/ RageQuitStep
                 \/ AdminStep \/ AspStep

UsersSpec == Init /\ [][UsersNext]_vars

-----------------------------------------------------------------------------
(* Correctness.                                                            *)

Ledger == INSTANCE ShieldedLedger WITH live <- LiveNotes, spent <- nullifiers

\* The pool, with its tree, roots and maps, keeps the promises of the abstract
\* ledger: every step of lib.rs is a step of ShieldedLedger or changes nothing
\* a note's owner can see.
RefinesLedger == Ledger!LedgerSpec

\* Everything that can still be spent, and everything the settlement contracts
\* answer for, is covered by the tokens the pool owns.
Backed == Ledger!Backed

\* The ring buffer holds exactly the roots of the last ROOT_HISTORY_SIZE
\* insertions, whatever number of leaves a call inserts: a proof survives that
\* many concurrent insertions less one, and no root from elsewhere is taken.
HistoryIsWindow ==
    \A root \in Root :
        IsKnown(root) <=> \/ root = Len(leaves)
                          \/ /\ root \in 1 .. Len(leaves)
                             /\ Len(leaves) - root < ROOT_HISTORY_SIZE

\* Without settlement contracts, every token the pool owns belongs to a note
\* somebody can still spend, and unspent_note_count never reports a larger
\* crowd than there is (lib.rs:683-691): deposits, transfers, withdrawals and
\* rage-quits neither create nor strand value, and their counters stay on the
\* safe side, dummy inputs and synchronised counters included.
FullyBacked ==
    /\ custody = Value(LiveNotes)
    /\ UnspentNotes <= Cardinality(LiveNotes)

\* Tokens come in as a note only for a key the association-set provider had
\* approved when the deposit was made.
DepositorsApproved ==
    custody' > custody /\ held' = held =>
        \A note \in LeafSet' \ LeafSet : Asp!IsMember(note.owner)

\* What a settlement that an allowlisted contract asks for does to a note.
SettlementSpends(note) ==
    \E a \in authorities, out \in SeqOf(Note, 1), payout \in 0 .. MaxFund :
        ExecuteSettlement(a, {note}, out, payout)

\* A nullifier that is blocked, or whose status cannot be read, is retired, while
\* the blocklist is on, by a rage-quit of its own note or by what a settlement
\* does to it, and while no contract is on the allowlist by the rage-quit alone.
\* execute_settlement (lib.rs:1459) consults no blocklist: a blocked note can
\* leave through a position.
EnforcedBlocklist ==
    blocklistEnabled =>
        \A note \in nullifiers' \ nullifiers :
            note \in blocked \/ blocklistState = "absent" =>
                RageQuitV2(note) \/ SettlementSpends(note)

\* Every recorded note of the fixed denomination can always be rage-quit,
\* whatever the blocklist, the floor, the roots and other users have done.
RageQuitOpen ==
    v2Mode => \A note \in commitments \ nullifiers :
                  note.amount = Denomination => ENABLED RageQuitV2(note)

\* A withdrawal, the last of a batch included, that leaves a crowd below the
\* floor is one from a tree where a settlement has minted a note that was there
\* already, which the contract does not look up and counts twice.
FloorRespected ==
    Cardinality(LiveNotes') + 1 < floor /\ WithdrawStep => ~IsInjective(leaves)

\* The three controls a pool is run with, on every path in and out of it: the
\* approvals at the door, the blocklist and the floor at the exit, whatever the
\* settlement contracts ask for in between.
ControlsHold == [][DepositorsApproved /\ EnforcedBlocklist /\ FloorRespected]_vars
=============================================================================
