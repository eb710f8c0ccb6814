----------------------------- MODULE ProofWorker ----------------------------
(***************************************************************************)
(* The wallet's proof worker: from note secrets and the served leaves to a *)
(* witness, a proof and the values the contract is called with; and, the   *)
(* other way, from served rows to the notes a key can open.  A builder     *)
(* that throws before it proves has its condition in an operator of its    *)
(* own, which the caller tests.  n is the number of random draws made.     *)
(***************************************************************************)
EXTENDS Circuits, SequencesExt

CONSTANTS
    MaxIndex,             \* recoverOwnDeposits: indexes tried
    FeedInHex             \* are ephemeral points served in bare hex?

(* Payments. *)

\* PREPARE_V2_NOTE and the check of both deposits: the leaf the service
\* serves at the wallet's index is the wallet's.
OnAspList(privKey, aspLeaves, aspLeafIndex) ==
    /\ aspLeafIndex < Len(aspLeaves)
    /\ aspLeaves[aspLeafIndex + 1] = AspLeaf(DerivePublicKey(privKey))

\* The builders that spend one note refuse a note of another key.
OwnsNote(privKey, note) ==
    Note(privKey, note.amount, note.blindness).commitment = note.commitment

ProveDepositV2(privKey, blindness, aspLeaves, aspLeafIndex) ==
    LET note == Note(privKey, V2_AMOUNT, blindness)
        path == BuildMerklePath(aspLeaves, aspLeafIndex)
    IN  [commitment |-> note.commitment, aspRoot |-> path.root,
         proof |-> DepositV2([commitment |-> note.commitment, aspRoot |-> path.root,
                              privKey |-> privKey, blindness |-> blindness,
                              aspPath |-> path])]

ProveDepositV3(privKey, amount, blindness, aspLeaves, aspLeafIndex) ==
    LET note == Note(privKey, amount, blindness)
        path == BuildMerklePath(aspLeaves, aspLeafIndex)
    IN  [commitment |-> note.commitment, aspRoot |-> path.root,
         proof |-> DepositV3([commitment |-> note.commitment, aspRoot |-> path.root,
                              amount |-> amount, privKey |-> privKey,
                              blindness |-> blindness, aspPath |-> path])]

ProveWithdrawV2(privKey, note, leaves, leafIndex, binding) ==
    LET own  == Note(privKey, V2_AMOUNT, note.blindness)
        path == BuildMerklePath(leaves, leafIndex)
    IN  [nullifier |-> own.nullifier, root |-> path.root,
         proof |-> WithdrawV2([root |-> path.root, nullifier |-> own.nullifier,
                               withdrawBinding |-> binding, privKey |-> privKey,
                               blindness |-> note.blindness, path |-> path])]

ProveWithdrawV3(privKey, note, leaves, leafIndex, binding) ==
    LET own  == Note(privKey, note.amount, note.blindness)
        path == BuildMerklePath(leaves, leafIndex)
    IN  [nullifier |-> own.nullifier, root |-> path.root,
         proof |-> WithdrawV3([root |-> path.root, nullifier |-> own.nullifier,
                               amount |-> note.amount, withdrawBinding |-> binding,
                               privKey |-> privKey, blindness |-> note.blindness,
                               path |-> path])]

ProveRageQuitV2(privKey, note, binding) ==
    LET own == Note(privKey, V2_AMOUNT, note.blindness)
    IN  [commitment |-> own.commitment, nullifier |-> own.nullifier,
         proof |-> RageQuitV2([commitment |-> own.commitment, nullifier |-> own.nullifier,
                               exitBinding |-> binding, privKey |-> privKey,
                               blindness |-> note.blindness])]

\* An output as both transfer circuits take it.
Output(payee, amount, out) ==
    [amount |-> amount, pubX |-> CoordX(payee), pubY |-> CoordY(payee),
     blindness |-> out.blindness, commitment |-> out.commitment, cipher |-> out.cipher,
     ephX |-> CoordX(out.ephemeral), ephY |-> CoordY(out.ephemeral)]

\* deriveOutgoingNote: a note of the fixed amount, with nothing to encrypt.
ProveTransferV2(privKey, note, leaves, leafIndex, payee, n) ==
    LET own  == Note(privKey, V2_AMOUNT, note.blindness)
        path == BuildMerklePath(leaves, leafIndex)
        out  == Output(payee, V2_AMOUNT, DeriveOutgoingNoteV3(payee, V2_AMOUNT, Random(n)))
    IN  [nullifier |-> own.nullifier, root |-> path.root, out |-> out,
         proof |-> TransferV2([root |-> path.root, nullifier |-> own.nullifier,
                               privKey |-> privKey, blindness |-> note.blindness,
                               path |-> path, out |-> out])]

\* A mutant of DummyBlindness: a constant, so a wallet has one dummy.
DummyBlindnessConstant(n) == Num(0)

DummyBlindness(n) == Random(n)

\* One note and a dummy, or two notes; the change returns to the sender.
ProveTransferV3(privKey, notes, leaves, indexes, payee, amount, n) ==
    LET own    == DerivePublicKey(privKey)
        dummy  == [amount |-> 0, blindness |-> DummyBlindness(n)]
        in2    == IF Len(notes) = 2 THEN notes[2] ELSE dummy
        path1  == BuildMerklePath(leaves, indexes[1])
        path2  == IF Len(notes) = 2 THEN BuildMerklePath(leaves, indexes[2]) ELSE path1
        change == notes[1].amount + in2.amount - amount
        pay    == Output(payee, amount, DeriveOutgoingNoteV3(payee, amount, Random(n + 1)))
        back   == Output(own, change, DeriveOutgoingNoteV3(own, change, Random(n + 2)))
        nf1    == Note(privKey, notes[1].amount, notes[1].blindness).nullifier
        nf2    == Note(privKey, in2.amount, in2.blindness).nullifier
    IN  [root |-> path1.root, nullifier1 |-> nf1, nullifier2 |-> nf2,
         out1 |-> pay, out2 |-> back,
         proof |-> TransferV3(
             [root |-> path1.root, nullifier1 |-> nf1, nullifier2 |-> nf2,
              privKey |-> privKey, out1 |-> pay, out2 |-> back,
              in1 |-> [amount |-> notes[1].amount, blindness |-> notes[1].blindness,
                       path |-> path1],
              in2 |-> [amount |-> in2.amount, blindness |-> in2.blindness, path |-> path2],
              isDummy2 |-> IF Len(notes) = 2 THEN 0 ELSE 1])]

-----------------------------------------------------------------------------
(* Positions.  What the contract decides is passed through.                *)

ProvePositionOpen(privKey, note, leaves, leafIndex, tierId, direction, entryPrice, id) ==
    LET tier   == GetTier(tierId)
        pub    == DerivePublicKey(privKey)
        path   == BuildMerklePath(leaves, leafIndex)
        own    == Note(privKey, note.amount, note.blindness)
        change == note.amount - tier.margin
        changeCommitment == ComputeCommitment(change, pub, ChangeBlindness(privKey, id))
        commitment == PositionCommitment(tier.margin, tier.size, direction, entryPrice,
                                         pub, PositionBlindness(privKey, id))
    IN  [root |-> path.root, nullifier |-> own.nullifier,
         positionCommitment |-> commitment, changeCommitment |-> changeCommitment,
         proof |-> PositionOpen(
             [root |-> path.root, nullifier |-> own.nullifier, path |-> path,
              positionCommitment |-> commitment, changeCommitment |-> changeCommitment,
              tierId |-> tierId, entryPrice |-> entryPrice, direction |-> direction,
              positionId |-> id, privKey |-> privKey, amount |-> note.amount,
              blindness |-> note.blindness, changeAmount |-> change,
              changeBlindness |-> ChangeBlindness(privKey, id),
              positionBlindness |-> PositionBlindness(privKey, id)])]

ProvePositionHealth(privKey, p, price, timestamp, threshold) ==
    LET tier == GetTier(p.tierId)
        commitment == PositionCommitment(tier.margin, tier.size, p.direction, p.entryPrice,
                          DerivePublicKey(privKey), PositionBlindness(privKey, p.id))
    IN  PositionHealth(
            [positionCommitment |-> commitment, price |-> price, timestamp |-> timestamp,
             threshold |-> threshold, margin |-> tier.margin, size |-> tier.size,
             direction |-> p.direction, entryPrice |-> p.entryPrice, privKey |-> privKey,
             positionBlindness |-> PositionBlindness(privKey, p.id)])

ProvePositionClose(privKey, p, payout, fee) ==
    LET tier == GetTier(p.tierId)
        pub  == DerivePublicKey(privKey)
        old  == PositionCommitment(tier.margin, tier.size, p.direction, p.entryPrice,
                                   pub, PositionBlindness(privKey, p.id))
        nf   == PositionNullifier(old, privKey)
        out  == ComputeCommitment(payout - fee, pub, PayoutBlindness(privKey, p.id))
    IN  [positionNullifier |-> nf, outputCommitment |-> out,
         proof |-> PositionClose(
             [positionNullifier |-> nf, outputCommitment |-> out, oldCommitment |-> old,
              tierId |-> p.tierId, entryPrice |-> p.entryPrice, direction |-> p.direction,
              payout |-> payout, fee |-> fee, positionId |-> p.id, privKey |-> privKey,
              positionBlindness |-> PositionBlindness(privKey, p.id),
              noteBlindness |-> PayoutBlindness(privKey, p.id)])]

-----------------------------------------------------------------------------
(* Finding notes again, from rows and a key.                               *)

\* BigInt(event.ephemeralX): a coordinate, or nothing a point is made of.
AsDecimal(coordinate) == IF FeedInHex THEN Num(0) ELSE coordinate

\* assertUsablePoint, by which a scan passes over what is no point.
UsablePoint(row) == OnCurve(AsDecimal(row.ephX), AsDecimal(row.ephY))

SharedWith(privKey, row) == MulPointEscalar(PointOf(row.ephX, row.ephY), privKey)

ScanForIncomingNotes(privKey, transfers) ==
    {[amount |-> V2_AMOUNT, kind |-> "v2", commitment |-> row.commitment,
      blindness |-> SharedBlindness(SharedWith(privKey, row))] :
        row \in {r \in transfers :
                   /\ UsablePoint(r)
                   /\ r.commitment = ComputeCommitment(V2_AMOUNT, DerivePublicKey(privKey),
                                         SharedBlindness(SharedWith(privKey, r)))}}

ScanForIncomingNotesV3(privKey, transfers) ==
    LET AmountOf(r) == Unpadded(r.cipher, AmountPad(SharedWith(privKey, r)))
    IN  {[amount |-> AmountOf(row), kind |-> "v3", commitment |-> row.commitment,
          blindness |-> SharedBlindness(SharedWith(privKey, row))] :
            row \in {r \in transfers :
                       /\ UsablePoint(r) /\ RangeCheck64(AmountOf(r))
                       /\ r.commitment = ComputeCommitment(AmountOf(r),
                              DerivePublicKey(privKey),
                              SharedBlindness(SharedWith(privKey, r)))}}

RecoverOwnDeposits(privKey, deposits) ==
    {[amount |-> d[1].amount, kind |-> "v3", commitment |-> d[1].commitment,
      blindness |-> DeriveDepositBlindness(privKey, d[2])] :
        d \in {x \in deposits \X (0 .. MaxIndex) :
                 x[1].commitment = ComputeCommitment(x[1].amount, DerivePublicKey(privKey),
                                       DeriveDepositBlindness(privKey, x[2]))}}

\* deriveChangeNote, derivePayoutNote
DerivedNote(privKey, amount, blindness) ==
    [amount |-> amount, kind |-> "v3", blindness |-> blindness,
     commitment |-> ComputeCommitment(amount, DerivePublicKey(privKey), blindness)]

\* recoverPositionNotes: the change of every opening whose collateral the
\* wallet remembers and the payout of every close, where not zero.
RecoverPositionNotes(privKey, positions) ==
    LET Change(p) == p.collateral - GetTier(p.tierId).margin
        Payout(p) == p.payout - p.fee
    IN  {DerivedNote(privKey, Change(p), ChangeBlindness(privKey, p.id)) :
            p \in {q \in positions : Change(q) > 0}}
        \cup {DerivedNote(privKey, Payout(p), PayoutBlindness(privKey, p.id)) :
            p \in {q \in positions : q.closed /\ Payout(q) > 0}}
=============================================================================
