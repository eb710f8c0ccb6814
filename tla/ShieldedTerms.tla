---------------------------- MODULE ShieldedTerms ---------------------------
(***************************************************************************)
(* The values that travel from a wallet through a proof to the chain and   *)
(* back: hashes, points and the notes made of them.  The hash is taken to  *)
(* be collision-free and the curve to have no relation but                 *)
(* a * (b * G) = b * (a * G), so a value is the term that built it and two *)
(* values are equal when they were built alike.  Every term is a tuple     *)
(* whose first element is its tag.                                         *)
(***************************************************************************)
EXTENDS Integers, Sequences

CONSTANT MAX64                \* 2^64 - 1: what RangeCheck64 lets through

Num(n) == <<"num", n>>        \* an integer as a field element

H2(a, b)       == <<"h2", a, b>>              \* poseidon2Hash2
H4(a, b, c, d) == <<"h4", a, b, c, d>>        \* poseidon2Hash4

\* A point is the set of scalars that multiply the generator.
Base8 == {}
MulPointEscalar(point, scalar) == point \cup {scalar}

CoordX(point) == <<"x", point>>
CoordY(point) == <<"y", point>>

\* The point two coordinates are of; BabyCheck and inCurve ask for one.
OnCurve(x, y) == x[1] = "x" /\ y[1] = "y" /\ x[2] = y[2]
PointOf(x, y) == x[2]

\* deriveShieldedKeys: the spend key is a hash of the viewing key.
TAG_SPEND == 1
SpendKey(viewingKey)    == H2(viewingKey, Num(TAG_SPEND))
DerivePublicKey(priv)   == MulPointEscalar(Base8, priv)

\* randomScalar, randomFieldElement, randomPositionId: the n-th draw.
Random(n) == <<"draw", n>>

RangeCheck64(n) == n \in 0 .. MAX64

ComputeCommitment(amount, pub, blindness) ==
    H4(Num(amount), CoordX(pub), CoordY(pub), blindness)

ComputeNullifier(commitment, priv) == H2(commitment, priv)

\* The Note() template, through which the worker derives notes too.
Note(priv, amount, blindness) ==
    LET pub == DerivePublicKey(priv)
        commitment == ComputeCommitment(amount, pub, blindness)
    IN  [pub |-> pub, commitment |-> commitment,
         nullifier |-> ComputeNullifier(commitment, priv)]

PositionCommitment(margin, size, direction, entry, pub, blindness) ==
    H4(Num(margin), CoordX(pub), CoordY(pub),
       H4(Num(size), Num(direction), Num(entry), blindness))

PositionNullifier(commitment, priv) == H2(commitment, priv)

-----------------------------------------------------------------------------
(* Blinding factors a wallet can derive again.                             *)

TAG_DEPOSIT == 1000000
DeriveDepositBlindness(spendKey, index) == H2(spendKey, Num(TAG_DEPOSIT + index))

TAG_POSITION == 1
TAG_CHANGE   == 2
TAG_PAYOUT   == 3
DeriveBlindness(spendKey, id, tag) == H4(spendKey, id, Num(tag), Num(0))
PositionBlindness(spendKey, id) == DeriveBlindness(spendKey, id, TAG_POSITION)
ChangeBlindness(spendKey, id)   == DeriveBlindness(spendKey, id, TAG_CHANGE)

\* A mutant of PayoutBlindness: the tag of the change note.
PayoutBlindnessAsChange(spendKey, id) == DeriveBlindness(spendKey, id, TAG_CHANGE)

PayoutBlindness(spendKey, id) == DeriveBlindness(spendKey, id, TAG_PAYOUT)

-----------------------------------------------------------------------------
(* A note for somebody else: its blinding factor and the pad over its      *)
(* amount come from a Diffie-Hellman secret, so the payee finds both again.*)

TAG_ECDH_BLINDNESS == 0
TAG_ECDH_AMOUNT    == 1

SharedBlindness(shared) == H2(CoordX(shared), Num(TAG_ECDH_BLINDNESS))
AmountPad(shared)       == H2(CoordX(shared), Num(TAG_ECDH_AMOUNT))

DeriveOutgoingNoteV3(recipient, amount, r) ==
    LET shared == MulPointEscalar(recipient, r)
    IN  [ephemeral  |-> MulPointEscalar(Base8, r),
         blindness  |-> SharedBlindness(shared),
         commitment |-> ComputeCommitment(amount, recipient, SharedBlindness(shared)),
         cipher     |-> <<"sum", amount, AmountPad(shared)>>]

\* cipher - pad: the amount under the right pad; under any other a residue
\* that is above 2^64 but with negligible probability, and is passed over.
Unpadded(cipher, pad) == IF cipher[3] = pad THEN cipher[2] ELSE -1
=============================================================================
