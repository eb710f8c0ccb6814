-------------------------------- MODULE Calls -------------------------------
(***************************************************************************)
(* From a wallet's notes to an accepted call and back: a wallet reads what *)
(* is served, proves, waits, and calls the pool or the position manager,   *)
(* which rebuild the public inputs from the arguments and from their own   *)
(* state; the events of an accepted call become rows, from which a key     *)
(* finds its notes again.  Between proving and calling, other calls land   *)
(* and the price moves.                                                    *)
(*                                                                         *)
(* Custody, the blocklist and the floor are in VayylPool, the books and    *)
(* the clocks of positions in PositionManager, faults of the services in   *)
(* Indexer and WalletNotes; here only what proofs bind and rows carry.     *)
(***************************************************************************)
EXTENDS ProofWorker, RootWindow, Wire

CONSTANTS
    Wallet,
    ROOT_HISTORY_SIZE,
    Preloaded,            \* notes in the tree at the start: <<wallet, kind, amount>>
    DepositAmounts, PayAmounts, Prices, StartPrice,    \* bounds on inputs
    MaxCalls, MaxPrices   \* bounds: calls made, prices published

VARIABLES
    tree, history,        \* the pool's frontier tree and its recent roots
    commitments,          \* DataKey::Commitment
    nullifiers,           \* DataKey::Nullifier, of the pool and the manager
    positions,            \* DataKey::Position
    feed,                 \* what read_price returns
    rows,                 \* the indexer's table commitments
    closings,             \* its table positions, with the collateral remembered
    notes,                \* the wallets' stores, spent notes left out
    depositIndex,         \* the next index of a derived deposit
    drawn,                \* random draws made
    calls,                \* the call each wallet has proved and not yet made
    owed,                 \* ghost: outputs of accepted calls and their owners
    made, published       \* counted against the bounds

chain == <<tree, history, commitments, nullifiers, positions>>
served == <<rows, closings>>
local == <<notes, depositIndex>>
vars == <<chain, feed, served, local, drawn, calls, owed, made, published>>

NoCall == [kind |-> "none"]

AspLeaves == LET order == SetToSeq(Wallet)
             IN  [i \in 1 .. Len(order) |-> AspLeaf(DerivePublicKey(SpendKey(order[i])))]

AspIndex(w) == CHOOSE i \in 0 .. Len(AspLeaves) - 1 :
                   AspLeaves[i + 1] = AspLeaf(DerivePublicKey(SpendKey(w)))

\* The root asp-membership holds once every wallet is enrolled.
AspRootOnChain == FoldLeft(InsertLeaf, EmptyTree, AspLeaves).root

\* insert_leaf for each of outs, and the tree's capacity.
HasRoom(outs)    == tree.next + Len(outs) <= 2 ^ TREE_DEPTH
InsertAll(t, outs) == FoldLeft(InsertLeaf, t, outs)
RootsAfter(t, outs) == [i \in 1 .. Len(outs) |-> InsertAll(t, SubSeq(outs, 1, i)).root]

IsKnown(root) == IsKnownRoot(tree.root, history, root)

\* The rows an event becomes (decodePoolEvent): a deposit, the output of a V2
\* transfer, the two of a V3 transfer, and a position.
DepositRow(commitment, amount, index) ==
    [source |-> "deposit", commitment |-> commitment, index |-> index, amount |-> amount]

TransferRow(commitment, index, ephX, ephY, cipher) ==
    [source |-> "transfer", commitment |-> commitment, index |-> index,
     ephX |-> ephX, ephY |-> ephY, cipher |-> cipher]

NoCipher == <<>>
TransferV2Row(a, index) == TransferRow(a.commitment, index, a.ephX, a.ephY, NoCipher)

\* A mutant of TransferV3Rows: the ciphertexts of the outputs are swapped.
TransferV3RowsSwapped(a, index) ==
    {TransferRow(a.commitment1, index, a.eph1X, a.eph1Y, a.ct2),
     TransferRow(a.commitment2, index + 1, a.eph2X, a.eph2Y, a.ct1)}

TransferV3Rows(a, index) ==
    {TransferRow(a.commitment1, index, a.eph1X, a.eph1Y, a.ct1),
     TransferRow(a.commitment2, index + 1, a.eph2X, a.eph2Y, a.ct2)}

\* The collateral is the wallet's own record, rememberPosition.
PositionRow(a, owner, collateral) ==
    [id |-> a.id, owner |-> owner, tierId |-> a.tierId, closed |-> FALSE,
     payout |-> 0, fee |-> 0, collateral |-> collateral]

ClosedRow(row, payout, fee) ==
    [row EXCEPT !.closed = TRUE, !.payout = payout, !.fee = fee]

-----------------------------------------------------------------------------
(* The notes of the start: deposits, of the V3 kind from index 0 on.       *)

StartNote(i) ==
    LET w == Preloaded[i][1]
        k == Cardinality({j \in 1 .. i - 1 : Preloaded[j][1] = w /\ Preloaded[j][2] = "v3"})
        blindness == IF Preloaded[i][2] = "v2" THEN Random(i)
                     ELSE DeriveDepositBlindness(SpendKey(w), k)
    IN  [amount |-> Preloaded[i][3], kind |-> Preloaded[i][2], blindness |-> blindness,
         commitment |-> Note(SpendKey(w), Preloaded[i][3], blindness).commitment]

StartLeaves == [i \in 1 .. Len(Preloaded) |-> StartNote(i).commitment]

Init ==
    /\ tree = InsertAll(EmptyTree, StartLeaves)
    /\ history = PushRoots(<<>>, RootsAfter(EmptyTree, StartLeaves), ROOT_HISTORY_SIZE)
    /\ commitments = ToSet(StartLeaves)
    /\ nullifiers = {} /\ positions = {}
    /\ feed = [price |-> StartPrice, timestamp |-> 0]
    /\ rows = {DepositRow(StartNote(i).commitment, StartNote(i).amount, i - 1) :
                   i \in 1 .. Len(Preloaded)}
    /\ closings = {}
    /\ notes = [w \in Wallet |-> {StartNote(i) : i \in {j \in 1 .. Len(Preloaded) :
                                                          Preloaded[j][1] = w}}]
    /\ depositIndex = [w \in Wallet |->
                          Cardinality({n \in notes[w] : n.kind = "v3"})]
    /\ drawn = Len(Preloaded) + 1
    /\ calls = [w \in Wallet |-> NoCall]
    /\ owed = {} /\ made = 0 /\ published = 0

-----------------------------------------------------------------------------
(* What a wallet reads and asks of the worker.                             *)

\* The tables' feeds: every leaf in order, transfers, deposits with an amount.
GetCommitments ==
    LET Nth(k) == CHOOSE r \in rows : Cardinality({q \in rows : q.index < r.index}) = k
    IN  [i \in 1 .. Cardinality(rows) |-> Nth(i - 1).commitment]

GetTransfers == {r \in rows : r.source = "transfer"}
GetDeposits  == {r \in rows : r.source = "deposit"}

\* The bundled snapshot is a floor under what the indexer answers.
LoadTreeSnapshot == StartLeaves
FetchCommitmentsFrom(live) ==
    IF Len(live) >= Len(LoadTreeSnapshot) THEN live ELSE LoadTreeSnapshot

\* An indexer that is behind, or does not answer, serves a prefix.
FetchedLeaves ==
    {FetchCommitmentsFrom(SubSeq(GetCommitments, 1, k)) : k \in 0 .. Len(GetCommitments)}

\* A mutant of VerifiedLeaves: the list is used as it comes.
UnverifiedLeaves == FetchedLeaves

\* fetchVerifiedCommitments: whatever was served, with the pool's root.
VerifiedLeaves == {leaves \in FetchedLeaves : ComputeRoot(leaves) = tree.root}

LeafIndexOf(note, leaves) == SelectInSeq(leaves, LAMBDA c : c = note.commitment) - 1

\* A note the wallet can name the leaf of.
Locatable(note, leaves) == LeafIndexOf(note, leaves) >= 0

OfKind(w, kind) == {n \in notes[w] : n.kind = kind}

\* computeWithdrawBinding, and compute_withdraw_binding in the pool.
ComputeWithdrawBinding(recipient, amount)  == <<"sha", recipient, Num(amount)>>
ContractWithdrawBinding(recipient, amount) == <<"sha", recipient, Num(amount)>>

Idle(w) == calls[w] = NoCall /\ made < MaxCalls

\* A wallet proves, and the call is under way as the contract will read it;
\* spends leave the store and gains enter it when the call is accepted, and
\* outputs are what others or a later device must find.
Propose(w, call, draws) ==
    /\ calls' = [calls EXCEPT ![w] =
                    [call EXCEPT !.args = Received(call.kind, Sent(call.kind, @))]
                        @@ [at |-> tree.next, on |-> feed]]
    /\ drawn' = drawn + draws /\ made' = made + 1
    /\ UNCHANGED <<chain, feed, served, local, owed, published>>

Owed(w, kind, amount, commitment) ==
    [to |-> w, kind |-> kind, amount |-> amount, commitment |-> commitment]

-----------------------------------------------------------------------------
(* The operations of the wallet, up to the call.                           *)

ProposeDepositV2(w) ==
    LET key == SpendKey(w)
        r   == ProveDepositV2(key, Random(drawn), AspLeaves, AspIndex(w))
    IN  /\ Idle(w) /\ OnAspList(key, AspLeaves, AspIndex(w))
        /\ Propose(w, [kind |-> "deposit_v2", proof |-> r.proof,
                       args |-> [commitment |-> r.commitment, aspRoot |-> r.aspRoot],
                       spends |-> {},
                       gains |-> {[amount |-> V2_AMOUNT, kind |-> "v2",
                                   blindness |-> Random(drawn), commitment |-> r.commitment]},
                       outputs |-> {Owed(w, "v2 deposit", V2_AMOUNT, r.commitment)}], 1)

ProposeDepositV3(w, amount) ==
    LET key == SpendKey(w)
        blindness == DeriveDepositBlindness(key, depositIndex[w])
        r == ProveDepositV3(key, amount, blindness, AspLeaves, AspIndex(w))
    IN  /\ Idle(w) /\ OnAspList(key, AspLeaves, AspIndex(w))
        /\ Propose(w, [kind |-> "deposit_v3", proof |-> r.proof,
                       args |-> [commitment |-> r.commitment, aspRoot |-> r.aspRoot,
                                 amount |-> amount],
                       spends |-> {},
                       gains |-> {[amount |-> amount, kind |-> "v3",
                                   blindness |-> blindness, commitment |-> r.commitment]},
                       outputs |-> {Owed(w, "deposit", amount, r.commitment)}], 0)

ProposeWithdrawV2(w, recipient) ==
    /\ Idle(w)
    /\ \E note \in OfKind(w, "v2"), leaves \in VerifiedLeaves :
           LET r == ProveWithdrawV2(SpendKey(w), note, leaves, LeafIndexOf(note, leaves),
                                    ComputeWithdrawBinding(recipient, V2_AMOUNT))
           IN  /\ Locatable(note, leaves) /\ OwnsNote(SpendKey(w), note)
               /\ Propose(w, [kind |-> "withdraw_v2", proof |-> r.proof,
                              args |-> [nullifier |-> r.nullifier, recipient |-> recipient,
                                        root |-> r.root],
                              spends |-> {note}, gains |-> {}, outputs |-> {}], 0)

ProposeWithdrawV3(w, recipient) ==
    /\ Idle(w)
    /\ \E note \in OfKind(w, "v3"), leaves \in VerifiedLeaves :
           LET r == ProveWithdrawV3(SpendKey(w), note, leaves, LeafIndexOf(note, leaves),
                                    ComputeWithdrawBinding(recipient, note.amount))
           IN  /\ Locatable(note, leaves) /\ OwnsNote(SpendKey(w), note)
               /\ Propose(w, [kind |-> "withdraw_v3", proof |-> r.proof,
                              args |-> [nullifier |-> r.nullifier, recipient |-> recipient,
                                        root |-> r.root, amount |-> note.amount],
                              spends |-> {note}, gains |-> {}, outputs |-> {}], 0)

\* No tree and no services are asked: the commitment is public.
ProposeRageQuitV2(w, recipient) ==
    /\ Idle(w)
    /\ \E note \in OfKind(w, "v2") :
           LET r == ProveRageQuitV2(SpendKey(w), note,
                                    ComputeWithdrawBinding(recipient, V2_AMOUNT))
           IN  /\ OwnsNote(SpendKey(w), note)
               /\ Propose(w, [kind |-> "ragequit_v2", proof |-> r.proof,
                              args |-> [commitment |-> r.commitment, nullifier |-> r.nullifier,
                                        recipient |-> recipient],
                              spends |-> {note}, gains |-> {}, outputs |-> {}], 0)

\* What a wallet is given for the address of one of them, or mistyped.
Addresses ==
    LET Address(v) == EncodeShieldedAddress(DerivePublicKey(SpendKey(v)))
        X(v)       == CoordX(DerivePublicKey(SpendKey(v)))
    IN  {Address(v) : v \in Wallet}
            \cup {Mistyped(Address(p[1]), X(p[2])) : p \in {q \in Wallet \X Wallet : q[1] # q[2]}}

HolderOf(pub) == CHOOSE v \in Wallet : DerivePublicKey(SpendKey(v)) = pub

ProposeTransferV2(w, address) ==
    /\ Idle(w) /\ Decodes(address)
    /\ \E note \in OfKind(w, "v2"), leaves \in VerifiedLeaves :
           LET payee == DecodeShieldedAddress(address)
               r == ProveTransferV2(SpendKey(w), note, leaves, LeafIndexOf(note, leaves),
                                    payee, drawn)
           IN  /\ Locatable(note, leaves) /\ OwnsNote(SpendKey(w), note)
               /\ Propose(w, [kind |-> "transfer_v2", proof |-> r.proof,
                              args |-> [nullifier |-> r.nullifier, root |-> r.root,
                                        commitment |-> r.out.commitment,
                                        ephX |-> r.out.ephX, ephY |-> r.out.ephY],
                              spends |-> {note}, gains |-> {},
                              outputs |-> {Owed(HolderOf(payee), "note", V2_AMOUNT,
                                                r.out.commitment)}], 1)

\* selectNotes offers one or two notes that cover the amount (NoteSelection
\* has which); the change is kept when there is any.
ProposeTransferV3(w, address, amount) ==
    /\ Idle(w) /\ Decodes(address)
    /\ \E picked \in {<<n>> : n \in OfKind(w, "v3")}
               \cup {p \in OfKind(w, "v3") \X OfKind(w, "v3") : p[1].amount > p[2].amount},
          leaves \in VerifiedLeaves :
           LET payee == DecodeShieldedAddress(address)
               r == ProveTransferV3(SpendKey(w), picked, leaves,
                                    [i \in 1 .. Len(picked) |-> LeafIndexOf(picked[i], leaves)],
                                    payee, amount, drawn)
           IN  /\ amount <= picked[1].amount + (IF Len(picked) = 2 THEN picked[2].amount ELSE 0)
               /\ \A i \in 1 .. Len(picked) : Locatable(picked[i], leaves)
               /\ Propose(w, [kind |-> "transfer_v3", proof |-> r.proof,
                      args |-> [root |-> r.root,
                                nullifier1 |-> r.nullifier1, nullifier2 |-> r.nullifier2,
                                commitment1 |-> r.out1.commitment,
                                commitment2 |-> r.out2.commitment,
                                eph1X |-> r.out1.ephX, eph1Y |-> r.out1.ephY,
                                eph2X |-> r.out2.ephX, eph2Y |-> r.out2.ephY,
                                ct1 |-> r.out1.cipher, ct2 |-> r.out2.cipher],
                      spends |-> ToSet(picked),
                      gains |-> IF r.out2.amount = 0 THEN {}
                                ELSE {[amount |-> r.out2.amount, kind |-> "v3",
                                       blindness |-> r.out2.blindness,
                                       commitment |-> r.out2.commitment]},
                      outputs |-> {Owed(HolderOf(payee), "note", amount, r.out1.commitment),
                                   Owed(w, "note", r.out2.amount, r.out2.commitment)}], 3)

\* openPosition: the smallest note that covers the margin, an id drawn at
\* random, and the price the contract would read now.
ProposeOpen(w, tierId, direction) ==
    /\ Idle(w)
    /\ \E note \in OfKind(w, "v3"), leaves \in VerifiedLeaves :
           LET id == Random(drawn)
               r  == ProvePositionOpen(SpendKey(w), note, leaves, LeafIndexOf(note, leaves),
                                       tierId, direction, feed.price, id)
               change == DerivedNote(SpendKey(w), note.amount - GetTier(tierId).margin,
                                     ChangeBlindness(SpendKey(w), id))
           IN  /\ TierTableMatches
               /\ note.amount >= GetTier(tierId).margin
               /\ \A n \in OfKind(w, "v3") :
                      n.amount >= GetTier(tierId).margin => n.amount >= note.amount
               /\ Locatable(note, leaves)
               /\ Propose(w, [kind |-> "open_position", proof |-> r.proof,
                      args |-> [id |-> id, tierId |-> tierId, direction |-> direction,
                                root |-> r.root, nullifier |-> r.nullifier,
                                commitment |-> r.positionCommitment,
                                change |-> r.changeCommitment],
                      spends |-> {note}, collateral |-> note.amount,
                      gains |-> {n \in {change} : n.amount > 0},
                      outputs |-> {Owed(w, "note", change.amount, r.changeCommitment)}], 1)

\* The record of each of the wallet's positions, as the contract has it.
FetchPositionState(w) == {p \in positions : p.owner = w}

\* attestHealth: about the price read now, with the threshold of the build.
ProposeAttest(w) ==
    /\ Idle(w)
    /\ \E p \in FetchPositionState(w) :
           Propose(w,
                      [kind |-> "attest_health", args |-> [id |-> p.id],
                       proof |-> ProvePositionHealth(SpendKey(w), p, feed.price,
                                                     feed.timestamp, HEALTH_THRESHOLD),
                       spends |-> {}, gains |-> {}, outputs |-> {}], 0)

\* closePosition: the payout is quoted here, and the fee is 0.
ProposeClose(w) ==
    /\ Idle(w)
    /\ \E p \in FetchPositionState(w) :
           LET payout == SettlementPayout(GetTier(p.tierId), p.direction, p.entryPrice,
                                          feed.price)
               r    == ProvePositionClose(SpendKey(w), p, payout, 0)
               note == DerivedNote(SpendKey(w), payout, PayoutBlindness(SpendKey(w), p.id))
           IN  Propose(w,
                          [kind |-> "close_position", proof |-> r.proof,
                           args |-> [id |-> p.id, nullifier |-> r.positionNullifier,
                                     output |-> r.outputCommitment, fee |-> 0],
                           spends |-> {}, gains |-> {n \in {note} : n.amount > 0},
                           outputs |-> {Owed(w, "note", payout, r.outputCommitment)}], 0)

-----------------------------------------------------------------------------
(* What the contracts ask of a call.                                       *)

MayInsert(outs) ==
    HasRoom(outs) /\ IsInjective(outs) /\ ToSet(outs) \cap commitments = {}

DepositV2Accepts(a, proof) ==
    /\ MayInsert(<<a.commitment>>) /\ a.aspRoot = AspRootOnChain
    /\ Verify("Deposit", proof, <<a.commitment, a.aspRoot>>)

DepositV3Accepts(a, proof) ==
    /\ a.amount > 0
    /\ MayInsert(<<a.commitment>>) /\ a.aspRoot = AspRootOnChain
    /\ Verify("DepositV3", proof, <<a.commitment, a.aspRoot, Num(a.amount)>>)

WithdrawV2Accepts(a, proof) ==
    /\ IsKnown(a.root) /\ a.nullifier \notin nullifiers
    /\ Verify("Withdraw", proof,
              <<a.root, a.nullifier, ContractWithdrawBinding(a.recipient, V2_AMOUNT)>>)

\* A mutant of WithdrawV3Accepts: the binding covers the recipient only.
WithdrawV3AcceptsAnyRecipient(a, proof) ==
    /\ a.amount > 0
    /\ IsKnown(a.root) /\ a.nullifier \notin nullifiers
    /\ proof.circuit = "WithdrawV3"
    /\ SubSeq(proof.signals, 1, 3) = <<a.root, a.nullifier, Num(a.amount)>>

WithdrawV3Accepts(a, proof) ==
    /\ a.amount > 0
    /\ IsKnown(a.root) /\ a.nullifier \notin nullifiers
    /\ Verify("WithdrawV3", proof,
              <<a.root, a.nullifier, Num(a.amount),
                ContractWithdrawBinding(a.recipient, a.amount)>>)

RageQuitV2Accepts(a, proof) ==
    /\ a.commitment \in commitments /\ a.nullifier \notin nullifiers
    /\ Verify("RageQuit", proof,
              <<a.commitment, a.nullifier,
                ContractWithdrawBinding(a.recipient, V2_AMOUNT)>>)

TransferV2Accepts(a, proof) ==
    /\ IsKnown(a.root) /\ a.nullifier \notin nullifiers
    /\ MayInsert(<<a.commitment>>)
    /\ Verify("Transfer", proof,
              <<a.root, a.nullifier, a.commitment, a.ephX, a.ephY>>)

TransferV3Accepts(a, proof) ==
    /\ IsKnown(a.root)
    /\ {a.nullifier1, a.nullifier2} \cap nullifiers = {} /\ a.nullifier1 # a.nullifier2
    /\ MayInsert(<<a.commitment1, a.commitment2>>)
    /\ Verify("TransferV3", proof,
              <<a.root, a.nullifier1, a.nullifier2, a.commitment1, a.commitment2,
                a.eph1X, a.eph1Y, a.eph2X, a.eph2Y, a.ct1, a.ct2>>)

\* execute_settlement neither reads nor writes DataKey::Commitment.
OpenAccepts(a, proof) ==
    /\ a.tierId < TIER_COUNT /\ a.direction \in {Short, Long}
    /\ \A p \in positions : p.id # a.id
    /\ IsKnown(a.root) /\ a.nullifier \notin nullifiers /\ HasRoom(<<a.change>>)
    /\ Verify("PositionOpen", proof,
              <<a.root, a.nullifier, a.commitment, a.change, Num(a.tierId),
                Num(feed.price), Num(a.direction), a.id>>)

AttestAccepts(a, proof) ==
    \E p \in positions :
        /\ p.id = a.id
        /\ Verify("PositionHealth", proof,
                  <<p.commitment, Num(feed.price), Num(feed.timestamp),
                    Num(HEALTH_THRESHOLD)>>)

CloseAccepts(a, proof) ==
    \E p \in positions :
        LET payout == ContractPayout(p.tierId, p.direction, p.entryPrice, feed.price)
        IN  /\ p.id = a.id /\ a.fee \in 0 .. payout
            /\ a.nullifier \notin nullifiers /\ HasRoom(<<a.output>>)
            /\ Verify("PositionClose", proof,
                      <<a.nullifier, a.output, p.commitment, Num(p.tierId),
                        Num(p.entryPrice), Num(p.direction), Num(payout), Num(a.fee), p.id>>)

Accepts(kind, a, proof) ==
    /\ ReadAsMade(ProofBytes(kind))
    /\ CASE kind = "deposit_v2"     -> DepositV2Accepts(a, proof)
         [] kind = "deposit_v3"     -> DepositV3Accepts(a, proof)
         [] kind = "withdraw_v2"    -> WithdrawV2Accepts(a, proof)
         [] kind = "withdraw_v3"    -> WithdrawV3Accepts(a, proof)
         [] kind = "ragequit_v2"    -> RageQuitV2Accepts(a, proof)
         [] kind = "transfer_v2"    -> TransferV2Accepts(a, proof)
         [] kind = "transfer_v3"    -> TransferV3Accepts(a, proof)
         [] kind = "open_position"  -> OpenAccepts(a, proof)
         [] kind = "attest_health"  -> AttestAccepts(a, proof)
         [] kind = "close_position" -> CloseAccepts(a, proof)

Accepted(c) == Accepts(c.kind, c.args, c.proof)

-----------------------------------------------------------------------------
(* An accepted call: the contract's state, its events' rows, the wallet.   *)

\* The call of w of this kind, accepted, with the nullifiers it marks and the
\* leaves it inserts; the wallet strikes what it spent and adds what it made.
Land(w, kind, spent, outs) ==
    LET c == calls[w]
    IN  /\ c.kind = kind /\ Accepted(c)
        /\ tree' = InsertAll(tree, outs)
        /\ history' = PushRoots(history, RootsAfter(tree, outs), ROOT_HISTORY_SIZE)
        /\ nullifiers' = nullifiers \cup spent
        /\ notes' = [notes EXCEPT ![w] = (@ \ c.spends) \cup c.gains]
        /\ owed' = owed \cup c.outputs
        /\ calls' = [calls EXCEPT ![w] = NoCall]
        /\ UNCHANGED <<feed, drawn, made, published>>

LandDepositV2(w) ==
    LET a == calls[w].args
    IN  /\ Land(w, "deposit_v2", {}, <<a.commitment>>)
        /\ commitments' = commitments \cup {a.commitment}
        /\ rows' = rows \cup {DepositRow(a.commitment, V2_AMOUNT, tree.next)}
        /\ UNCHANGED <<positions, closings, depositIndex>>

LandDepositV3(w) ==
    LET a == calls[w].args
    IN  /\ Land(w, "deposit_v3", {}, <<a.commitment>>)
        /\ commitments' = commitments \cup {a.commitment}
        /\ rows' = rows \cup {DepositRow(a.commitment, a.amount, tree.next)}
        /\ depositIndex' = [depositIndex EXCEPT ![w] = @ + 1]
        /\ UNCHANGED <<positions, closings>>

\* A withdrawal and a rage-quit insert nothing and serve no leaf.
LandExit(w) ==
    /\ \E kind \in {"withdraw_v2", "withdraw_v3", "ragequit_v2"} :
           Land(w, kind, {calls[w].args.nullifier}, <<>>)
    /\ UNCHANGED <<commitments, positions, served, depositIndex>>

LandTransferV2(w) ==
    LET a == calls[w].args
    IN  /\ Land(w, "transfer_v2", {a.nullifier}, <<a.commitment>>)
        /\ commitments' = commitments \cup {a.commitment}
        /\ rows' = rows \cup {TransferV2Row(a, tree.next)}
        /\ UNCHANGED <<positions, closings, depositIndex>>

LandTransferV3(w) ==
    LET a == calls[w].args
    IN  /\ Land(w, "transfer_v3", {a.nullifier1, a.nullifier2},
                <<a.commitment1, a.commitment2>>)
        /\ commitments' = commitments \cup {a.commitment1, a.commitment2}
        /\ rows' = rows \cup TransferV3Rows(a, tree.next)
        /\ UNCHANGED <<positions, closings, depositIndex>>

LandOpen(w) ==
    LET a == calls[w].args
    IN  /\ Land(w, "open_position", {a.nullifier}, <<a.change>>)
        /\ positions' = positions \cup
               {[id |-> a.id, owner |-> w, commitment |-> a.commitment, tierId |-> a.tierId,
                 direction |-> a.direction, entryPrice |-> feed.price]}
        /\ closings' = closings \cup {PositionRow(a, w, calls[w].collateral)}
        /\ UNCHANGED <<commitments, rows, depositIndex>>

\* The heartbeat an attestation registers is in PositionManager.
LandAttest(w) ==
    /\ Land(w, "attest_health", {}, <<>>)
    /\ UNCHANGED <<commitments, positions, served, depositIndex>>

LandClose(w) ==
    LET a == calls[w].args
    IN  /\ Land(w, "close_position", {a.nullifier}, <<a.output>>)
        /\ \E p \in {q \in positions : q.id = a.id} :
               LET payout == ContractPayout(p.tierId, p.direction, p.entryPrice, feed.price)
               IN  /\ positions' = positions \ {p}
                   /\ closings' = {IF q.id = a.id THEN ClosedRow(q, payout, a.fee) ELSE q :
                                      q \in closings}
        /\ UNCHANGED <<commitments, rows, depositIndex>>

\* A proof that failed is not sent; a call that is refused changes nothing.
Abandon(w) ==
    /\ calls[w] # NoCall /\ ~Accepted(calls[w])
    /\ calls' = [calls EXCEPT ![w] = NoCall]
    /\ UNCHANGED <<chain, feed, served, local, drawn, owed, made, published>>

-----------------------------------------------------------------------------
(* Scans and the oracle.                                                   *)

\* scanTransferFeed: every row is tried as V2, those with a ciphertext as V3;
\* a row already taken as V2 is not added again, nor is a note that is spent.
Scanned(w) ==
    LET key == SpendKey(w)
        v2  == ScanForIncomingNotes(key, GetTransfers)
        v3  == {n \in ScanForIncomingNotesV3(key, {r \in GetTransfers : r.cipher # NoCipher}) :
                   \A m \in v2 : m.commitment # n.commitment}
    IN  v2 \cup v3

Unspent(w, found) ==
    {n \in found : ComputeNullifier(n.commitment, SpendKey(w)) \notin nullifiers}

Scan(w) ==
    LET new == {n \in Unspent(w, Scanned(w)) :
                   n.amount > 0 /\ \A m \in notes[w] : m.commitment # n.commitment}
    IN  /\ new # {}
        /\ notes' = [notes EXCEPT ![w] = @ \cup new]
        /\ UNCHANGED <<chain, feed, served, depositIndex, drawn, calls, owed, made, published>>

PublishPrice(price) ==
    /\ published < MaxPrices
    /\ feed' = [price |-> price, timestamp |-> feed.timestamp + 1]
    /\ published' = published + 1
    /\ UNCHANGED <<chain, served, local, drawn, calls, owed, made>>

Next ==
    \/ \E w \in Wallet :
          \/ ProposeDepositV2(w)
          \/ \E amount \in DepositAmounts : ProposeDepositV3(w, amount)
          \/ \E recipient \in Wallet : ProposeWithdrawV2(w, recipient)
          \/ \E recipient \in Wallet : ProposeWithdrawV3(w, recipient)
          \/ \E recipient \in Wallet : ProposeRageQuitV2(w, recipient)
          \/ \E address \in Addresses : ProposeTransferV2(w, address)
          \/ \E address \in Addresses, amount \in PayAmounts :
                ProposeTransferV3(w, address, amount)
          \/ \E tierId \in {0, 1}, direction \in {Short, Long} :
                ProposeOpen(w, tierId, direction)
          \/ ProposeAttest(w) \/ ProposeClose(w)
          \/ LandDepositV2(w) \/ LandDepositV3(w) \/ LandExit(w)
          \/ LandTransferV2(w) \/ LandTransferV3(w)
          \/ LandOpen(w) \/ LandAttest(w) \/ LandClose(w)
          \/ Abandon(w) \/ Scan(w)
    \/ \E price \in Prices : PublishPrice(price)

Spec == Init /\ [][Next]_vars

-----------------------------------------------------------------------------
(* Properties.                                                             *)

SpendsByRoot == {"withdraw_v2", "withdraw_v3", "transfer_v2", "transfer_v3",
                 "open_position"}

LeavesOf(kind) ==
    CASE kind \in {"withdraw_v2", "withdraw_v3", "ragequit_v2", "attest_health"} -> 0
      [] kind = "transfer_v3" -> 2
      [] OTHER -> 1

\* What can happen between proving and calling that makes a call worthless.
Overtaken(c) ==
    \/ c.kind \in SpendsByRoot /\ tree.next - c.at >= ROOT_HISTORY_SIZE
    \/ LeavesOf(c.kind) > 0 /\ tree.next + LeavesOf(c.kind) > 2 ^ TREE_DEPTH
    \/ c.kind = "open_position" /\ feed.price # c.on.price
    \/ c.kind = "attest_health" /\ feed # c.on
    \/ /\ c.kind = "close_position"
       /\ \E p \in positions :
             /\ p.id = c.args.id
             /\ ContractPayout(p.tierId, p.direction, p.entryPrice, feed.price)
                    # ContractPayout(p.tierId, p.direction, p.entryPrice, c.on.price)

\* A call proved from a wallet's own note or position is accepted whenever it
\* is made, unless it was overtaken: its root has left the window, the tree
\* is full, or the price it was proved for has changed.  The only proof that
\* cannot be made at all is that of a position which the wallet's own quote
\* calls unhealthy; and until a position is opened, whose leaf is not served,
\* the served leaves rebuild the pool's root, so every note can be spent.
\* Three trees, three tier tables and ten orders of public
\* inputs must agree for this (lib/merkle.ts, circuits/, lib.rs of the pool
\* and of the position manager).
HonestCallsAccepted ==
    /\ closings = {} => ComputeRoot(GetCommitments) = tree.root
    /\ \A w \in Wallet :
          LET c == calls[w]
          IN  \/ c = NoCall
              \/ /\ c.proof = Failed
                 /\ c.kind = "attest_health"
                 /\ \E p \in positions :
                       /\ p.id = c.args.id
                       /\ ~Healthy(GetTier(p.tierId), p.direction, p.entryPrice, c.on.price)
              \/ c.proof # Failed /\ (Accepted(c) \/ Overtaken(c))

\* Values an argument could be confused with: those of the same type in the
\* calls underway, and the roots and positions the contracts know.
Confusable(field) ==
    CASE field = "recipient" -> Wallet
      [] field = "amount" -> DepositAmounts \cup PayAmounts
      [] field \in {"tierId", "direction", "fee"} -> {0, 1}
      [] OTHER ->
            LET Terms(c) == {c.args[f] : f \in DOMAIN c.args
                                \ {"recipient", "amount", "tierId", "direction", "fee"}}
            IN  UNION {Terms(calls[w]) : w \in {v \in Wallet : calls[v] # NoCall}}
                    \cup ToSet(history) \cup {p.id : p \in positions}

\* A proof is good for the one call it was made for: with any one argument
\* changed, the recipient of a withdrawal, an output, a ciphertext, the fee of
\* a close, the contracts refuse it (the public inputs each rebuilds, and
\* compute_withdraw_binding for what is in no circuit).
ArgumentsAreBound ==
    \A w \in {v \in Wallet : calls[v] # NoCall} :
        LET c == calls[w]
        IN  \A field \in DOMAIN c.args :
               \A value \in Confusable(field) \ {c.args[field]} :
                   ~Accepts(c.kind, [c.args EXCEPT ![field] = value], c.proof)

\* All that a key can derive from the rows, what the wallet remembers of its
\* positions (PositionRow) among them.
Found(w) ==
    Scanned(w) \cup RecoverOwnDeposits(SpendKey(w), GetDeposits)
               \cup RecoverPositionNotes(SpendKey(w), {p \in closings : p.owner = w})

\* Every output of an accepted call that is worth something can be derived again
\* with its owner's key, its amount and the blinding that opens it: payments and
\* deposits from the rows, read in the base they are written in, changes and
\* payouts of positions from the events and the collateral that the wallet has
\* noted itself.  Deposits of the V2 kind, whose blinding is drawn and kept only by
\* the wallet, are the exception (SCAN_V3, RECOVER_OWN_DEPOSITS,
\* recoverPositionNotes).  That the key suffices, not that the wallet finds them:
\* it reads the rows in another base (FormatsMissNothing in WalletNotes), and no
\* screen calls recoverPositionNotes.  And no call makes a note that was made
\* before: the two would share their nullifier, and one of them would be lost.
OutputsAreDerivable ==
    /\ \A o \in owed :
          o.amount > 0 /\ o.kind # "v2 deposit" =>
              \E n \in Found(o.to) :
                  /\ n.commitment = o.commitment /\ n.amount = o.amount
                  /\ ComputeCommitment(n.amount, DerivePublicKey(SpendKey(o.to)),
                                       n.blindness) = n.commitment
    /\ \A w \in {v \in Wallet : calls[v] # NoCall} :
          \A o \in calls[w].outputs, q \in owed : o.commitment # q.commitment

\* fetchState: the open positions of a wallet, listed by the indexer, read
\* from the chain and valued at the price read there.
PositionList(w) ==
    {[id |-> p.id, tierId |-> p.tierId, direction |-> p.direction, entryPrice |-> p.entryPrice,
      currentValue |-> SettlementPayout(GetTier(p.tierId), p.direction, p.entryPrice, feed.price)] :
        p \in {q \in positions : \E r \in closings : r.id = q.id /\ r.owner = w /\ ~r.closed}}

\* What the wallet shows for a position is what the contract and the circuits
\* will do at any price: the payout, which the tier's reserve covers, whether
\* health can be proved, the last price at which it can be, and where the payout
\* stops to grow or to fall (lib/tiers.ts and lib/liquidation.ts,
\* settlement_payout, position_health); and each of its positions is in its
\* list, at what a close would pay now.
QuotesAgree ==
    \A p \in positions :
        /\ \E entry \in PositionList(p.owner) :
              /\ entry.id = p.id
              /\ entry.currentValue = ContractPayout(p.tierId, p.direction, p.entryPrice,
                                                    feed.price)
        /\ \A price \in 1 .. 3 * p.entryPrice :
              /\ PayoutIsQuoted(p.tierId, p.direction, p.entryPrice, price)
              /\ HealthIsQuoted(p.tierId, p.direction, p.entryPrice, price)
              /\ BoundsAreQuoted(p.tierId, p.direction, p.entryPrice, price)
=============================================================================
