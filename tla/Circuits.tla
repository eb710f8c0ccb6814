------------------------------ MODULE Circuits ------------------------------
(***************************************************************************)
(* The ten deployed circuits: the constraints each puts on its inputs and  *)
(* the order of its public signals.  A proof is the circuit and the        *)
(* signals it was made for, or Failed when the witness does not satisfy    *)
(* the constraints and fullProve throws.                                   *)
(***************************************************************************)
EXTENDS MerkleTree, Trading

V2_AMOUNT == Stroops(10000000)

Failed == [circuit |-> "none", signals |-> <<>>]

FullProve(circuit, satisfied, signals) ==
    IF satisfied THEN [circuit |-> circuit, signals |-> signals] ELSE Failed

\* verify: the pairing check against the key stored for the circuit.
Verify(circuit, proof, publicInputs) ==
    proof.circuit = circuit /\ proof.signals = publicInputs

-----------------------------------------------------------------------------
(* Notes that enter, move and leave.                                       *)

AspLeaf(pub) == H2(CoordX(pub), CoordY(pub))

DepositV3(i) ==
    LET n == Note(i.privKey, i.amount, i.blindness)
    IN  FullProve("DepositV3",
                  /\ RangeCheck64(i.amount)
                  /\ n.commitment = i.commitment
                  /\ MerkleProof(AspLeaf(n.pub), i.aspPath) = i.aspRoot,
                  <<i.commitment, i.aspRoot, Num(i.amount)>>)

DepositV2(i) ==
    LET n == Note(i.privKey, V2_AMOUNT, i.blindness)
    IN  FullProve("Deposit",
                  /\ n.commitment = i.commitment
                  /\ MerkleProof(AspLeaf(n.pub), i.aspPath) = i.aspRoot,
                  <<i.commitment, i.aspRoot>>)

\* A note in the tree and the nullifier it has.
OpensNote(i, amount) ==
    LET n == Note(i.privKey, amount, i.blindness)
    IN  /\ RangeCheck64(amount)
        /\ n.nullifier = i.nullifier
        /\ MerkleProof(n.commitment, i.path) = i.root

WithdrawV2(i) ==
    FullProve("Withdraw", OpensNote(i, V2_AMOUNT),
              <<i.root, i.nullifier, i.withdrawBinding>>)

WithdrawV3(i) ==
    FullProve("WithdrawV3", OpensNote(i, i.amount),
              <<i.root, i.nullifier, Num(i.amount), i.withdrawBinding>>)

RageQuitV2(i) ==
    LET n == Note(i.privKey, V2_AMOUNT, i.blindness)
    IN  FullProve("RageQuit",
                  n.commitment = i.commitment /\ n.nullifier = i.nullifier,
                  <<i.commitment, i.nullifier, i.exitBinding>>)

\* A note handed over: a payee's key and an ephemeral point on the curve.
PaysOut(out) ==
    /\ RangeCheck64(out.amount)
    /\ OnCurve(out.pubX, out.pubY) /\ OnCurve(out.ephX, out.ephY)
    /\ H4(Num(out.amount), out.pubX, out.pubY, out.blindness) = out.commitment

TransferV2(i) ==
    FullProve("Transfer",
              OpensNote(i, V2_AMOUNT) /\ PaysOut(i.out) /\ i.out.amount = V2_AMOUNT,
              <<i.root, i.nullifier, i.out.commitment, i.out.ephX, i.out.ephY>>)

\* The second input may be a dummy: worth nothing, and in no tree.
TransferV3(i) ==
    LET n2 == Note(i.privKey, i.in2.amount, i.in2.blindness)
    IN  FullProve("TransferV3",
            /\ OpensNote([privKey |-> i.privKey, blindness |-> i.in1.blindness,
                          nullifier |-> i.nullifier1, path |-> i.in1.path,
                          root |-> i.root], i.in1.amount)
            /\ i.isDummy2 \in {0, 1} /\ i.isDummy2 * i.in2.amount = 0
            /\ RangeCheck64(i.in2.amount) /\ n2.nullifier = i.nullifier2
            /\ i.isDummy2 = 0 => MerkleProof(n2.commitment, i.in2.path) = i.root
            /\ i.nullifier1 # i.nullifier2
            /\ PaysOut(i.out1) /\ PaysOut(i.out2)
            /\ i.in1.amount + i.in2.amount = i.out1.amount + i.out2.amount,
            <<i.root, i.nullifier1, i.nullifier2,
              i.out1.commitment, i.out2.commitment,
              i.out1.ephX, i.out1.ephY, i.out2.ephX, i.out2.ephY,
              i.out1.cipher, i.out2.cipher>>)

-----------------------------------------------------------------------------
(* Positions.                                                              *)

PositionOpen(i) ==
    LET tier == TierConstants(i.tierId)
        pub  == DerivePublicKey(i.privKey)
    IN  FullProve("PositionOpen",
            /\ i.tierId \in {0, 1} /\ i.direction \in {0, 1}
            /\ OpensNote(i, i.amount)
            /\ RangeCheck64(i.changeAmount) /\ RangeCheck64(i.entryPrice)
            /\ i.amount = tier.margin + i.changeAmount
            /\ ComputeCommitment(i.changeAmount, pub, i.changeBlindness)
                   = i.changeCommitment
            /\ PositionCommitment(tier.margin, tier.size, i.direction, i.entryPrice,
                                  pub, i.positionBlindness) = i.positionCommitment,
            <<i.root, i.nullifier, i.positionCommitment, i.changeCommitment,
              Num(i.tierId), Num(i.entryPrice), Num(i.direction), i.positionId>>)

PositionHealth(i) ==
    FullProve("PositionHealth",
        /\ \A n \in {i.margin, i.size, i.entryPrice, i.price, i.threshold} : RangeCheck64(n)
        /\ i.direction \in {0, 1}
        /\ PositionCommitment(i.margin, i.size, i.direction, i.entryPrice,
                              DerivePublicKey(i.privKey), i.positionBlindness)
               = i.positionCommitment
        /\ AboveMaintenance(i.margin, i.size, i.direction, i.entryPrice,
                            i.price, i.threshold),
        <<i.positionCommitment, Num(i.price), Num(i.timestamp), Num(i.threshold)>>)

PositionClose(i) ==
    LET tier == TierConstants(i.tierId)
        pub  == DerivePublicKey(i.privKey)
    IN  FullProve("PositionClose",
            /\ i.tierId \in {0, 1} /\ i.direction \in {0, 1}
            /\ PositionCommitment(tier.margin, tier.size, i.direction, i.entryPrice,
                                  pub, i.positionBlindness) = i.oldCommitment
            /\ PositionNullifier(i.oldCommitment, i.privKey) = i.positionNullifier
            /\ \A n \in {i.payout, i.fee, i.payout - i.fee} : RangeCheck64(n)
            /\ i.payout <= tier.maxPayout
            /\ ComputeCommitment(i.payout - i.fee, pub, i.noteBlindness)
                   = i.outputCommitment,
            <<i.positionNullifier, i.outputCommitment, i.oldCommitment,
              Num(i.tierId), Num(i.entryPrice), Num(i.direction),
              Num(i.payout), Num(i.fee), i.positionId>>)
=============================================================================
