-------------------------------- MODULE Wire -------------------------------
(***************************************************************************)
(* How a call travels.  The wallet invokes a contract itself, or posts a   *)
(* record to the relayer which does; whoever invokes lists the arguments   *)
(* by position and writes the proof's points as bytes, and the entrypoint  *)
(* names the arguments again.  A payee is named by a shielded address.     *)
(***************************************************************************)
EXTENDS ShieldedTerms, SequencesExt

(* Arguments by position.  The signer of a deposit or of an opening, whom   *)
(* require_auth checks, is left out.                                       *)

SubmitDepositV2(a) == <<a.commitment, a.aspRoot>>
SubmitDepositV3(a) == <<a.commitment, a.aspRoot, a.amount>>

RelayV2Withdraw(r) == <<r.nullifier, r.recipient, r.root>>
RelayV3Withdraw(r) == <<r.nullifier, r.recipient, r.root, r.amount>>
RelayV2RageQuit(r) == <<r.commitment, r.nullifier, r.recipient>>
RelayV2Transfer(r) == <<r.nullifier, r.commitment, r.ephX, r.ephY, r.root>>

RelayV3Transfer(r) ==
    <<r.root, r.nullifier1, r.nullifier2, r.commitment1, r.commitment2,
      r.eph1X, r.eph1Y, r.eph2X, r.eph2Y, r.ct1, r.ct2>>

SubmitPositionOpen(a) ==
    <<a.id, a.tierId, a.direction, a.root, a.nullifier, a.commitment, a.change>>
SubmitAttestHealth(a)  == <<a.id>>
SubmitPositionClose(a) == <<a.id, a.nullifier, a.output, a.fee>>

Sent(kind, a) ==
    CASE kind = "deposit_v2"     -> SubmitDepositV2(a)
      [] kind = "deposit_v3"     -> SubmitDepositV3(a)
      [] kind = "withdraw_v2"    -> RelayV2Withdraw(a)
      [] kind = "withdraw_v3"    -> RelayV3Withdraw(a)
      [] kind = "ragequit_v2"    -> RelayV2RageQuit(a)
      [] kind = "transfer_v2"    -> RelayV2Transfer(a)
      [] kind = "transfer_v3"    -> RelayV3Transfer(a)
      [] kind = "open_position"  -> SubmitPositionOpen(a)
      [] kind = "attest_health"  -> SubmitAttestHealth(a)
      [] kind = "close_position" -> SubmitPositionClose(a)

\* The parameters of the entrypoints of the pool and the position manager.
Parameters(kind) ==
    CASE kind = "deposit_v2"     -> <<"commitment", "aspRoot">>
      [] kind = "deposit_v3"     -> <<"commitment", "aspRoot", "amount">>
      [] kind = "withdraw_v2"    -> <<"nullifier", "recipient", "root">>
      [] kind = "withdraw_v3"    -> <<"nullifier", "recipient", "root", "amount">>
      [] kind = "ragequit_v2"    -> <<"commitment", "nullifier", "recipient">>
      [] kind = "transfer_v2"    -> <<"nullifier", "commitment", "ephX", "ephY", "root">>
      [] kind = "transfer_v3"    ->
            <<"root", "nullifier1", "nullifier2", "commitment1", "commitment2",
              "eph1X", "eph1Y", "eph2X", "eph2Y", "ct1", "ct2">>
      [] kind = "open_position"  ->
            <<"id", "tierId", "direction", "root", "nullifier", "commitment", "change">>
      [] kind = "attest_health"  -> <<"id">>
      [] kind = "close_position" -> <<"id", "nullifier", "output", "fee">>

Received(kind, sent) ==
    LET names == Parameters(kind)
    IN  [name \in ToSet(names) |-> sent[SelectInSeq(names, LAMBDA n : n = name)]]

-----------------------------------------------------------------------------
(* The points of a proof.  snarkjs gives a G2 point as two pairs, low part *)
(* first; the host function reads the high part first.                     *)

SnarkjsPoints == [pi_a |-> <<"ax", "ay">>, pi_b |-> << <<"bx0", "bx1">>, <<"by0", "by1">> >>,
                  pi_c |-> <<"cx", "cy">>]

\* A Groth16Proof from which the host reads the points the prover made.
ReadAsMade(bytes) ==
    bytes = [a |-> <<"ax", "ay">>, b |-> <<"bx1", "bx0", "by1", "by0">>, c |-> <<"cx", "cy">>]

\* proofScVal and g2Bytes of the wallet.
WalletProofBytes(p) ==
    [a |-> p.pi_a, b |-> Reverse(p.pi_b[1]) \o Reverse(p.pi_b[2]), c |-> p.pi_c]

\* proofScVal of the relayer, where only the sizes are checked before.
RelayerProofBytes(p) ==
    [a |-> <<p.pi_a[1], p.pi_a[2]>>,
     b |-> <<p.pi_b[1][2], p.pi_b[1][1], p.pi_b[2][2], p.pi_b[2][1]>>,
     c |-> <<p.pi_c[1], p.pi_c[2]>>]

WalletSigned == {"deposit_v2", "deposit_v3", "open_position", "attest_health", "close_position"}

ProofBytes(kind) ==
    IF kind \in WalletSigned THEN WalletProofBytes(SnarkjsPoints)
                             ELSE RelayerProofBytes(SnarkjsPoints)

-----------------------------------------------------------------------------
(* Shielded addresses.                                                     *)

VERSION == 1
Crc16(payload) == <<"crc", payload>>

EncodeShieldedAddress(pub) ==
    LET payload == <<VERSION, CoordX(pub), CoordY(pub)>>
    IN  [payload |-> payload, sum |-> Crc16(payload)]

\* decodeShieldedAddress throws on any other address.  Every point the terms
\* make is a multiple of the generator, as inPrimeOrderSubgroup asks.
Decodes(address) ==
    /\ address.sum = Crc16(address.payload)
    /\ address.payload[1] = VERSION
    /\ OnCurve(address.payload[2], address.payload[3])

DecodeShieldedAddress(address) == PointOf(address.payload[2], address.payload[3])

\* address with one coordinate that was mistyped.
Mistyped(address, x) == [address EXCEPT !.payload[2] = x]
=============================================================================
