------------------------ MODULE PositionManager_proofs ----------------------
(***************************************************************************)
(* The vault alone, for any LPs, positions, tiers and bounds: its          *)
(* invariant, and that no step but a paid release lowers what a share is   *)
(* worth.  Then the system, for any tiers, prices, positions, keepers and  *)
(* LPs: the vault can pay and the pool holds what every open position may  *)
(* be settled for, and the whole is, seen from the vault, a behaviour of   *)
(* the vault.                                                              *)
(***************************************************************************)
EXTENDS PositionManager, Totals, FiniteSetTheorems, FunctionTheorems, TLAPS

(***************************************************************************)
(* Total: it is a number, is zero for the zero function, and changes by    *)
(* the difference when one value changes.                                  *)
(***************************************************************************)
\* n units of one key are n.
LEMMA UnitsOfOne ==
    ASSUME NEW x, NEW n \in Nat
    PROVE  IsFiniteSet({x} \X (1 .. n)) /\ Cardinality({x} \X (1 .. n)) = n
<1> DEFINE unit == [i \in 1 .. n |-> <<x, i>>]
<1>1. unit \in Bijection(1 .. n, {x} \X (1 .. n))
  <2>1. unit \in [1 .. n -> {x} \X (1 .. n)]
    OBVIOUS
  <2>2. \A i, j \in 1 .. n : unit[i] = unit[j] => i = j
    OBVIOUS
  <2>3. \A u \in {x} \X (1 .. n) : \E i \in 1 .. n : unit[i] = u
    OBVIOUS
  <2>4. unit \in Injection(1 .. n, {x} \X (1 .. n))
    BY <2>1, <2>2 DEF Injection, IsInjective
  <2>5. unit \in Surjection(1 .. n, {x} \X (1 .. n))
    BY <2>1, <2>3 DEF Surjection
  <2> QED
    BY <2>4, <2>5 DEF Bijection
<1>2. ExistsBijection(1 .. n, {x} \X (1 .. n))
  BY <1>1 DEF ExistsBijection
<1>3. Cardinality({x} \X (1 .. n)) = n
  BY <1>2, FS_CountingElements
<1>4. IsFiniteSet({x} \X (1 .. n))
  <2>1. IsFiniteSet(1 .. n)
    BY FS_Interval
  <2>2. IsFiniteSet({x})
    BY FS_Singleton
  <2> QED
    BY <2>1, <2>2, FS_Product
<1> QED
  BY <1>3, <1>4

\* A function of numbers on a finite set has finitely many units.
LEMMA TotalType ==
    ASSUME NEW S, IsFiniteSet(S), NEW f \in [S -> Nat]
    PROVE  IsFiniteSet(Units(f)) /\ Total(f) \in Nat
<1> DEFINE parts == {{x} \X (1 .. f[x]) : x \in S}
           part == [x \in S |-> {x} \X (1 .. f[x])]
<1>1. part \in Surjection(S, parts)
  BY DEF Surjection
<1>2. IsFiniteSet(parts)
  BY <1>1, FS_Surjection
<1>3. \A p \in parts : IsFiniteSet(p)
  <2>1. ASSUME NEW x \in S PROVE IsFiniteSet({x} \X (1 .. f[x]))
    <3>1. f[x] \in Nat
      OBVIOUS
    <3> HIDE DEF parts, part
    <3> QED
      BY <3>1, UnitsOfOne
  <2> QED
    BY <2>1
<1>4. IsFiniteSet(UNION parts)
  BY <1>2, <1>3, FS_UNION
<1>5. Units(f) = UNION parts
  BY DEF Units
<1> QED
  BY <1>4, <1>5, FS_CardinalityType DEF Total

\* The zero function totals zero.
LEMMA TotalZero ==
    ASSUME NEW S
    PROVE  Total([x \in S |-> 0]) = 0
<1>1. Units([x \in S |-> 0]) = {}
  BY DEF Units
<1> QED
  BY <1>1, FS_EmptySet DEF Total

\* One value is part of the total.
LEMMA TotalSplit ==
    ASSUME NEW S, IsFiniteSet(S), NEW f \in [S -> Nat], NEW x \in S
    PROVE  Total(f) = Cardinality(Units(f) \ ({x} \X (1 .. f[x]))) + f[x]
<1> DEFINE own == {x} \X (1 .. f[x])
           rest == Units(f) \ own
<1>1. IsFiniteSet(Units(f))
  BY TotalType
<1>2. own \subseteq Units(f)
  BY DEF Units
<1>3. IsFiniteSet(rest) /\ IsFiniteSet(own)
  BY <1>1, <1>2, FS_Subset
<1>4. rest \cap own = {} /\ rest \cup own = Units(f)
  BY <1>2
<1> HIDE DEF own, rest
<1>5. Cardinality(rest \cup own) = Cardinality(rest) + Cardinality(own) - Cardinality(rest \cap own)
  BY <1>3, FS_Union
<1>6. Cardinality(rest \cap own) = 0
  BY <1>4, FS_EmptySet
<1>7. Cardinality(own) = f[x] /\ f[x] \in Nat
  BY UnitsOfOne DEF own
<1>8. Cardinality(rest) \in Nat
  BY <1>3, FS_CardinalityType
<1>9. Total(f) = Cardinality(rest \cup own)
  BY <1>4 DEF Total
<1>10. Total(f) = Cardinality(rest) + f[x]
  BY <1>5, <1>6, <1>7, <1>8, <1>9
<1> QED
  BY <1>10 DEF rest, own

\* Changing one value changes the total by as much.
LEMMA TotalUpdate ==
    ASSUME NEW S, IsFiniteSet(S), NEW f \in [S -> Nat], NEW x \in S, NEW n \in Nat
    PROVE  Total([f EXCEPT ![x] = n]) = Total(f) - f[x] + n
<1> DEFINE g == [f EXCEPT ![x] = n]
           restF == Units(f) \ ({x} \X (1 .. f[x]))
           restG == Units(g) \ ({x} \X (1 .. g[x]))
<1>1. g \in [S -> Nat] /\ g[x] = n /\ \A y \in S : y # x => g[y] = f[y]
  OBVIOUS
<1> HIDE DEF g
<1>2. restF = UNION {{y} \X (1 .. f[y]) : y \in S \ {x}}
  BY DEF Units
<1>3. restG = UNION {{y} \X (1 .. g[y]) : y \in S \ {x}}
  BY <1>1 DEF Units
<1>4. {{y} \X (1 .. f[y]) : y \in S \ {x}} = {{y} \X (1 .. g[y]) : y \in S \ {x}}
  BY <1>1
<1>5. restF = restG
  BY <1>2, <1>3, <1>4
<1>6. Total(f) = Cardinality(restF) + f[x]
  BY TotalSplit
<1>7. Total(g) = Cardinality(restG) + g[x]
  BY <1>1, TotalSplit
<1>8. IsFiniteSet(restF)
  BY TotalType, FS_Subset
<1>9. Cardinality(restF) \in Nat /\ f[x] \in Nat
  BY <1>8, FS_CardinalityType
<1> HIDE DEF restF, restG
<1>10. Total(g) = Cardinality(restF) + n
  BY <1>1, <1>5, <1>7
<1>11. Total(g) = Total(f) - f[x] + n
  BY <1>6, <1>9, <1>10
<1> QED
  BY <1>11 DEF g

\* No value exceeds the total.
LEMMA TotalBounds ==
    ASSUME NEW S, IsFiniteSet(S), NEW f \in [S -> Nat], NEW x \in S
    PROVE  f[x] <= Total(f)
<1> DEFINE rest == Units(f) \ ({x} \X (1 .. f[x]))
<1>1. IsFiniteSet(rest)
  BY TotalType, FS_Subset
<1>2. Cardinality(rest) \in Nat
  BY <1>1, FS_CardinalityType
<1> QED
  BY <1>2, TotalSplit

-----------------------------------------------------------------------------
(* The vault.                                                              *)

VaultInv == VaultTypeOK /\ Solvent /\ TotalsAgree

\* Floor division, the two facts the share arithmetic needs.
LEMMA FloorDiv ==
    ASSUME NEW a \in Nat, NEW b \in Nat, b > 0
    PROVE  a \div b \in Nat /\ (a \div b) * b <= a
<1>1. a \div b \in Int /\ a \div b >= 0
  OBVIOUS
<1>2. b * (a \div b) <= a
  OBVIOUS
<1> QED
  BY <1>1, <1>2

\* A deposit mints a number of shares, and no more than its share of the pot.
LEMMA MintedType ==
    ASSUME VaultTypeOK, NEW amount \in Nat
    PROVE  /\ MintedFor(amount) \in Nat
           /\ totalShares > 0 => MintedFor(amount) * balance <= amount * totalShares
<1>1. balance \in Nat /\ totalShares \in Nat
  BY DEF VaultTypeOK
<1>2. amount * totalShares \in Nat
  BY <1>1
<1>3. CASE totalShares = 0 \/ balance = 0
  <2>1. MintedFor(amount) = amount
    BY <1>3 DEF MintedFor
  <2>2. totalShares > 0 => amount * balance = 0
    BY <1>1, <1>3
  <2> QED
    BY <1>2, <2>1, <2>2
<1>4. CASE ~(totalShares = 0 \/ balance = 0)
  <2>1. MintedFor(amount) = (amount * totalShares) \div balance
    BY <1>4 DEF MintedFor
  <2>2. balance > 0
    BY <1>1, <1>4
  <2> QED
    BY <1>1, <1>2, <2>1, <2>2, FloorDiv
<1> QED
  BY <1>3, <1>4

\* TotalUpdate for the two maps of the vault.
LEMMA SharesUpdate ==
    ASSUME VaultInv, NEW lp \in Lp, NEW n \in Nat
    PROVE  Total([shares EXCEPT ![lp] = n]) = Total(shares) - shares[lp] + n
<1>1. shares \in [Lp -> Nat] /\ IsFiniteSet(Lp)
  BY VaultConstants DEF VaultInv, VaultTypeOK
<1> QED
  BY <1>1, TotalUpdate

LEMMA ReservationUpdate ==
    ASSUME VaultInv, NEW id \in PositionId, NEW n \in Nat
    PROVE  Total([reservation EXCEPT ![id] = n]) = Total(reservation) - reservation[id] + n
<1>1. reservation \in [PositionId -> Nat] /\ IsFiniteSet(PositionId)
  BY VaultConstants DEF VaultInv, VaultTypeOK
<1> QED
  BY <1>1, TotalUpdate

LEMMA DepositKeepsInv ==
    ASSUME VaultInv, NEW lp \in Lp, NEW amount \in Amounts,
           DepositLiquidity(lp, amount)
    PROVE  VaultInv'
<1> DEFINE minted == MintedFor(amount)
<1>1. amount \in Nat /\ minted \in Nat
  BY VaultConstants, MintedType DEF VaultInv
<1>2. /\ balance' = balance + amount
      /\ shares' = [shares EXCEPT ![lp] = shares[lp] + minted]
      /\ totalShares' = totalShares + minted
      /\ reservation' = reservation /\ totalReserved' = totalReserved
  BY DEF DepositLiquidity
<1> HIDE DEF minted
<1>3. shares[lp] \in Nat /\ shares[lp] + minted \in Nat
  BY <1>1 DEF VaultInv, VaultTypeOK
<1>4. VaultTypeOK'
  BY <1>1, <1>2, <1>3 DEF VaultInv, VaultTypeOK
<1>5. Total([shares EXCEPT ![lp] = shares[lp] + minted])
          = Total(shares) - shares[lp] + (shares[lp] + minted)
  BY <1>3, SharesUpdate
<1>6. Total(shares) \in Nat
  BY TotalType, VaultConstants DEF VaultInv, VaultTypeOK
<1>7. totalShares' = Total(shares')
  <2>1. Total(shares') = Total(shares) - shares[lp] + (shares[lp] + minted)
    BY <1>2, <1>5
  <2> QED
    BY <1>1, <1>2, <1>3, <1>6, <2>1 DEF VaultInv, TotalsAgree
<1>8. Solvent'
  BY <1>1, <1>2 DEF VaultInv, VaultTypeOK, Solvent
<1> QED
  BY <1>2, <1>4, <1>7, <1>8 DEF VaultInv, TotalsAgree

\* An LP with shares is part of the total.
LEMMA LpHasTotal ==
    ASSUME VaultInv, NEW lp \in Lp, NEW n \in 1 .. shares[lp]
    PROVE  totalShares > 0 /\ totalShares - n \in Nat /\ shares[lp] - n \in Nat
<1>1. shares \in [Lp -> Nat] /\ IsFiniteSet(Lp) /\ totalShares \in Nat
  BY VaultConstants DEF VaultInv, VaultTypeOK
<1>2. shares[lp] <= Total(shares) /\ totalShares = Total(shares)
  BY <1>1, TotalBounds DEF VaultInv, TotalsAgree
<1> QED
  BY <1>1, <1>2

LEMMA WithdrawKeepsInv ==
    ASSUME VaultInv, NEW lp \in Lp, NEW n \in 1 .. shares[lp],
           WithdrawLiquidity(lp, n)
    PROVE  VaultInv'
<1> DEFINE amount == (balance * n) \div totalShares
<1>1. /\ n > 0 /\ n <= shares[lp] /\ amount <= FreeBalance
      /\ balance' = balance - amount
      /\ shares' = [shares EXCEPT ![lp] = shares[lp] - n]
      /\ totalShares' = totalShares - n
      /\ reservation' = reservation /\ totalReserved' = totalReserved
  BY DEF WithdrawLiquidity
<1>2. n \in Nat /\ shares[lp] \in Nat /\ balance \in Nat /\ totalShares \in Nat /\ totalReserved \in Nat
  BY DEF VaultInv, VaultTypeOK
<1>4. totalShares = Total(shares)
  BY DEF VaultInv, TotalsAgree
<1>5. totalShares > 0 /\ totalShares - n \in Nat /\ shares[lp] - n \in Nat
  BY LpHasTotal
<1>6. balance * n \in Nat
  BY <1>2
<1>7. amount \in Nat
  BY <1>2, <1>5, <1>6, FloorDiv
<1> HIDE DEF amount
<1>8. balance - amount >= totalReserved
  BY <1>1, <1>2, <1>7 DEF FreeBalance, VaultInv, Solvent
<1>9. balance - amount \in Nat
  BY <1>2, <1>7, <1>8
<1>10. VaultTypeOK'
  BY <1>1, <1>5, <1>9 DEF VaultInv, VaultTypeOK
<1>11. Total([shares EXCEPT ![lp] = shares[lp] - n]) = Total(shares) - shares[lp] + (shares[lp] - n)
  BY <1>5, SharesUpdate
<1>12. totalShares' = Total(shares')
  <2>1. Total(shares') = Total(shares) - shares[lp] + (shares[lp] - n)
    BY <1>1, <1>11
  <2> QED
    BY <1>1, <1>2, <1>4, <2>1
<1>13. Solvent'
  BY <1>1, <1>8 DEF Solvent
<1> QED
  BY <1>1, <1>10, <1>12, <1>13 DEF VaultInv, TotalsAgree

LEMMA ReceiveKeepsInv ==
    ASSUME VaultInv, NEW amount \in Nat, Receive(amount)
    PROVE  VaultInv'
BY DEF Receive, VaultInv, VaultTypeOK, Solvent, TotalsAgree

LEMMA ReserveKeepsInv ==
    ASSUME VaultInv, NEW id \in PositionId, NEW tier \in Tier, Reserve(id, tier)
    PROVE  VaultInv'
<1>1. TierReserve[tier] \in Nat
  BY VaultConstants
<1>2. /\ reservation[id] = 0 /\ TierReserve[tier] <= FreeBalance
      /\ reservation' = [reservation EXCEPT ![id] = TierReserve[tier]]
      /\ totalReserved' = totalReserved + TierReserve[tier]
      /\ balance' = balance /\ shares' = shares /\ totalShares' = totalShares
  BY DEF Reserve
<1>3. VaultTypeOK'
  BY <1>1, <1>2 DEF VaultInv, VaultTypeOK
<1>4. Total(reservation') = Total(reservation) - reservation[id] + TierReserve[tier]
  <2>1. Total([reservation EXCEPT ![id] = TierReserve[tier]])
            = Total(reservation) - reservation[id] + TierReserve[tier]
    BY <1>1, ReservationUpdate
  <2> QED
    BY <1>2, <2>1
<1>5. Total(reservation) \in Nat
  BY TotalType, VaultConstants DEF VaultInv, VaultTypeOK
<1>6. totalReserved' = Total(reservation')
  BY <1>1, <1>2, <1>4, <1>5 DEF VaultInv, TotalsAgree
<1>7. Solvent'
  BY <1>1, <1>2 DEF VaultInv, VaultTypeOK, Solvent, FreeBalance
<1> QED
  BY <1>2, <1>3, <1>6, <1>7 DEF VaultInv, TotalsAgree

\* Freeing a reservation takes exactly it out of the running total.
LEMMA FreeKeepsTotals ==
    ASSUME VaultInv, NEW id \in PositionId, FreeReservation(id)
    PROVE  /\ reservation' \in [PositionId -> Nat]
           /\ totalReserved' \in Nat
           /\ totalReserved' = totalReserved - reservation[id]
           /\ totalReserved' = Total(reservation')
<1>1. /\ reservation' = [reservation EXCEPT ![id] = 0]
      /\ totalReserved' = totalReserved - reservation[id]
  BY DEF FreeReservation
<1>2. reservation[id] \in Nat /\ totalReserved \in Nat
  BY DEF VaultInv, VaultTypeOK
<1>3. reservation[id] <= Total(reservation) /\ Total(reservation) = totalReserved
  BY TotalBounds, VaultConstants DEF VaultInv, VaultTypeOK, TotalsAgree
<1>4. Total(reservation') = Total(reservation) - reservation[id] + 0
  <2>1. Total([reservation EXCEPT ![id] = 0]) = Total(reservation) - reservation[id] + 0
    BY ReservationUpdate
  <2> QED
    BY <1>1, <2>1
<1>5. reservation' \in [PositionId -> Nat]
  BY <1>1 DEF VaultInv, VaultTypeOK
<1> QED
  BY <1>1, <1>2, <1>3, <1>4, <1>5

LEMMA ReleaseKeepsInv ==
    ASSUME VaultInv, NEW id \in PositionId, NEW payout \in Nat, Release(id, payout)
    PROVE  VaultInv'
<1>1. /\ payout <= reservation[id] /\ FreeReservation(id)
      /\ balance' = balance - payout /\ shares' = shares /\ totalShares' = totalShares
  BY DEF Release
<1>2. /\ reservation' \in [PositionId -> Nat]
      /\ totalReserved' \in Nat
      /\ totalReserved' = totalReserved - reservation[id]
      /\ totalReserved' = Total(reservation')
  BY <1>1, FreeKeepsTotals
<1>3. reservation[id] \in Nat /\ balance \in Nat /\ totalReserved \in Nat /\ balance >= totalReserved
  BY DEF VaultInv, VaultTypeOK, Solvent
<1>4. balance - payout >= totalReserved'
  BY <1>1, <1>2, <1>3
<1>5. balance' \in Nat
  BY <1>1, <1>2, <1>3, <1>4
<1>6. VaultTypeOK'
  BY <1>1, <1>2, <1>5 DEF VaultInv, VaultTypeOK
<1>7. Solvent'
  BY <1>1, <1>4 DEF Solvent
<1> QED
  BY <1>1, <1>2, <1>6, <1>7 DEF VaultInv, TotalsAgree

LEMMA ReleaseAndReceiveKeepsInv ==
    ASSUME VaultInv, NEW id \in PositionId, NEW income \in Nat, ReleaseAndReceive(id, income)
    PROVE  VaultInv'
<1>1. /\ FreeReservation(id)
      /\ balance' = balance + income /\ shares' = shares /\ totalShares' = totalShares
  BY DEF ReleaseAndReceive
<1>2. /\ reservation' \in [PositionId -> Nat]
      /\ totalReserved' \in Nat
      /\ totalReserved' = totalReserved - reservation[id]
      /\ totalReserved' = Total(reservation')
  BY <1>1, FreeKeepsTotals
<1>3. reservation[id] \in Nat /\ balance \in Nat /\ totalReserved \in Nat /\ balance >= totalReserved
  BY DEF VaultInv, VaultTypeOK, Solvent
<1>4. balance' \in Nat /\ balance' >= totalReserved'
  BY <1>1, <1>2, <1>3
<1>5. VaultTypeOK'
  BY <1>1, <1>2, <1>4 DEF VaultInv, VaultTypeOK
<1> QED
  BY <1>1, <1>2, <1>4, <1>5 DEF VaultInv, Solvent, TotalsAgree

LEMMA VaultStep ==
    ASSUME VaultInv, [VaultNext]_vaultVars
    PROVE  VaultInv'
<1>1. ASSUME NEW lp \in Lp, NEW amount \in Amounts, DepositLiquidity(lp, amount)
      PROVE  VaultInv'
  BY <1>1, DepositKeepsInv
<1>2. ASSUME NEW lp \in Lp, NEW n \in 1 .. shares[lp], WithdrawLiquidity(lp, n)
      PROVE  VaultInv'
  BY <1>2, WithdrawKeepsInv
<1>3. ASSUME NEW amount \in Amounts, Receive(amount)
      PROVE  VaultInv'
  <2>1. amount \in Nat
    BY VaultConstants
  <2> QED
    BY <1>3, <2>1, ReceiveKeepsInv
<1>4. ASSUME NEW id \in PositionId, NEW tier \in Tier, Reserve(id, tier)
      PROVE  VaultInv'
  BY <1>4, ReserveKeepsInv
<1>5. ASSUME NEW id \in PositionId, NEW payout \in 0 .. MaxBalance, Release(id, payout)
      PROVE  VaultInv'
  <2>1. payout \in Nat
    BY VaultConstants
  <2> QED
    BY <1>5, <2>1, ReleaseKeepsInv
<1>6. ASSUME NEW id \in PositionId, NEW income \in 0 .. MaxBalance, ReleaseAndReceive(id, income)
      PROVE  VaultInv'
  <2>1. income \in Nat
    BY VaultConstants
  <2> QED
    BY <1>6, <2>1, ReleaseAndReceiveKeepsInv
<1>7. CASE UNCHANGED vaultVars
  BY <1>7 DEF vaultVars, VaultInv, VaultTypeOK, Solvent, TotalsAgree
<1> QED
  BY <1>1, <1>2, <1>3, <1>4, <1>5, <1>6, <1>7 DEF VaultNext

LEMMA VaultStarts == VaultInit => VaultInv
<1>1. VaultInit => VaultTypeOK /\ Solvent
  BY DEF VaultInit, VaultTypeOK, Solvent
<1>2. VaultInit => TotalsAgree
  BY TotalZero DEF VaultInit, TotalsAgree
<1> QED
  BY <1>1, <1>2 DEF VaultInv

\* The vault always holds what it has set aside, whatever deposit_liquidity,
\* withdraw_liquidity, reserve, release and direct transfers come in what order.
THEOREM VaultSolvency == VaultSpec => []Solvent
<1>1. VaultInv /\ [VaultNext]_vaultVars => VaultInv'
  BY VaultStep
<1>2. VaultInv => Solvent
  BY DEF VaultInv
<1> QED
  BY VaultStarts, <1>1, <1>2, PTL DEF VaultSpec

\* The running totals never drift from the entries they stand for.
THEOREM VaultTotals == VaultSpec => []TotalsAgree
<1>1. VaultInv /\ [VaultNext]_vaultVars => VaultInv'
  BY VaultStep
<1>2. VaultInv => TotalsAgree
  BY DEF VaultInv
<1> QED
  BY VaultStarts, <1>1, <1>2, PTL DEF VaultSpec

-----------------------------------------------------------------------------

\* A withdrawal burns at least the shares its amount is worth.
LEMMA WithdrawPrice ==
    ASSUME VaultInv, NEW lp \in Lp, NEW n \in 1 .. shares[lp],
           WithdrawLiquidity(lp, n), totalShares > 0
    PROVE  balance' * totalShares >= balance * totalShares'
<1> DEFINE amount == (balance * n) \div totalShares
<1>1. balance' = balance - amount /\ totalShares' = totalShares - n
  BY DEF WithdrawLiquidity
<1>2. n \in Nat /\ balance \in Nat /\ totalShares \in Nat
  BY DEF VaultInv, VaultTypeOK
<1>3. balance * n \in Nat
  BY <1>2
<1>4. amount \in Nat /\ amount * totalShares <= balance * n
  BY <1>2, <1>3, FloorDiv
<1> HIDE DEF amount
<1>5. (balance - amount) * totalShares = balance * totalShares - amount * totalShares
  BY <1>2, <1>4
<1>6. balance * (totalShares - n) = balance * totalShares - balance * n
  BY <1>2
<1>7. balance * totalShares \in Nat /\ amount * totalShares \in Nat
  BY <1>2, <1>4
<1> QED
  BY <1>1, <1>3, <1>4, <1>5, <1>6, <1>7

\* A deposit adds at least what its shares are worth.
LEMMA DepositPrice ==
    ASSUME VaultInv, NEW lp \in Lp, NEW amount \in Amounts,
           DepositLiquidity(lp, amount), totalShares > 0
    PROVE  balance' * totalShares >= balance * totalShares'
<1> DEFINE minted == MintedFor(amount)
<1>1. balance' = balance + amount /\ totalShares' = totalShares + minted
  BY DEF DepositLiquidity
<1>2. amount \in Nat /\ balance \in Nat /\ totalShares \in Nat
  BY VaultConstants DEF VaultInv, VaultTypeOK
<1>3. minted \in Nat /\ minted * balance <= amount * totalShares
  BY <1>2, MintedType DEF VaultInv
<1> HIDE DEF minted
<1>4. (balance + amount) * totalShares = balance * totalShares + amount * totalShares
  BY <1>2
<1>5. balance * (totalShares + minted) = balance * totalShares + minted * balance
  BY <1>2, <1>3
<1>6. balance * totalShares \in Nat /\ amount * totalShares \in Nat /\ minted * balance \in Nat
  BY <1>2, <1>3
<1> QED
  BY <1>1, <1>3, <1>4, <1>5, <1>6

\* No deposit, withdrawal, rounding, reservation or transfer ever takes value
\* from the LPs who are already in the vault.
THEOREM VaultSharePrice == VaultSpec => SharePriceHolds
<1> DEFINE Fair == \/ totalShares = 0
                   \/ balance' * totalShares >= balance * totalShares'
                   \/ /\ balance' < balance
                      /\ \E id \in PositionId : reservation[id] > 0 /\ reservation'[id] = 0
<1>1. ASSUME VaultInv, [VaultNext]_vaultVars PROVE [Fair]_vaultVars
  <2>0. totalShares \in Nat /\ balance \in Nat
    BY <1>1 DEF VaultInv, VaultTypeOK
  <2>1. ASSUME NEW lp \in Lp, NEW amount \in Amounts, DepositLiquidity(lp, amount)
        PROVE  Fair
    BY <1>1, <2>0, <2>1, DepositPrice
  <2>2. ASSUME NEW lp \in Lp, NEW n \in 1 .. shares[lp], WithdrawLiquidity(lp, n)
        PROVE  Fair
    BY <1>1, <2>0, <2>2, WithdrawPrice
  <2>3. ASSUME NEW amount \in Nat, balance' = balance + amount, totalShares' = totalShares
        PROVE  Fair
    <3>1. (balance + amount) * totalShares = balance * totalShares + amount * totalShares
      BY <2>0
    <3>2. balance * totalShares \in Nat /\ amount * totalShares \in Nat
      BY <2>0
    <3> QED
      BY <2>3, <3>1, <3>2
  <2>4. ASSUME NEW amount \in Amounts, Receive(amount) PROVE Fair
    BY <2>3, <2>4, VaultConstants DEF Receive
  <2>5. ASSUME NEW id \in PositionId, NEW tier \in Tier, Reserve(id, tier) PROVE Fair
    BY <2>0, <2>5 DEF Reserve
  <2>6. ASSUME NEW id \in PositionId, NEW payout \in 0 .. MaxBalance, Release(id, payout)
        PROVE  Fair
    <3>1. /\ reservation[id] > 0 /\ reservation' = [reservation EXCEPT ![id] = 0]
          /\ balance' = balance - payout /\ totalShares' = totalShares
      BY <2>6 DEF Release, FreeReservation
    <3>2. reservation'[id] = 0 /\ payout \in Nat
      BY <1>1, <3>1, VaultConstants DEF VaultInv, VaultTypeOK
    <3>3. CASE payout = 0
      BY <2>0, <3>1, <3>3
    <3>4. CASE payout > 0
      BY <2>0, <3>1, <3>2, <3>4
    <3> QED
      BY <3>2, <3>3, <3>4
  <2>7. ASSUME NEW id \in PositionId, NEW income \in 0 .. MaxBalance, ReleaseAndReceive(id, income)
        PROVE  Fair
    <3>1. income \in Nat
      BY VaultConstants
    <3>2. balance' = balance + income /\ totalShares' = totalShares
      BY <2>7 DEF ReleaseAndReceive
    <3> QED
      BY <2>3, <3>1, <3>2, Zenon
  <2>8. CASE UNCHANGED vaultVars
    BY <2>8
  <2> QED
    BY <1>1, <2>1, <2>2, <2>4, <2>5, <2>6, <2>7, <2>8 DEF VaultNext
<1>2. VaultInv /\ [VaultNext]_vaultVars => VaultInv'
  BY VaultStep
<1> QED
  BY VaultStarts, <1>1, <1>2, PTL DEF VaultSpec, SharePriceHolds

-----------------------------------------------------------------------------
(* The position manager and the vault together.                            *)

Supply == custody + balance <= MaxBalance

PMInv ==
    /\ TypeOK /\ VaultInv
    /\ ReservationsMatch /\ MarginHeld /\ HeartbeatAgrees /\ Supply

-----------------------------------------------------------------------------
(* What is assumed of the constants, in parts.                             *)

LEMMA PositionNumbers ==
    /\ GracePeriod \in Nat /\ ESCROW_TTL \in Nat \ {0} /\ MAX_ORACLE_AGE \in Nat
    /\ (\A p \in Price : p \in Nat) /\ (\A fee \in Fee : fee \in Nat)
    /\ KEEPER_BOUNTY_BPS \in Nat /\ KEEPER_BOUNTY_BPS <= HEALTH_SCALE
<1>1. GracePeriod \in Nat /\ ESCROW_TTL \in Nat \ {0} /\ MAX_ORACLE_AGE \in Nat
  BY PositionConstants
<1>2. Price \in SUBSET (Nat \ {0}) /\ Fee \in SUBSET Nat
  BY PositionConstants
<1>3. KEEPER_BOUNTY_BPS \in 0 .. HEALTH_SCALE
  BY PositionConstants
<1>4. (\A p \in Price : p \in Nat) /\ (\A fee \in Fee : fee \in Nat)
  BY <1>2
<1>5. KEEPER_BOUNTY_BPS \in Nat /\ KEEPER_BOUNTY_BPS <= HEALTH_SCALE
  <2>1. HEALTH_SCALE \in Nat
    BY DEF HEALTH_SCALE
  <2> QED
    BY <1>3, <2>1
<1> QED
  BY <1>1, <1>4, <1>5

LEMMA TierNumbers ==
    /\ TIER_MARGIN \in [Tier -> Nat] /\ TIER_SIZE \in [Tier -> Nat]
    /\ \A t \in Tier : /\ TIER_MARGIN[t] \in Nat /\ TIER_SIZE[t] \in Nat
                       /\ TIER_MAX_PAYOUT[t] \in Nat
                       /\ TIER_MAX_PAYOUT[t] = TIER_MARGIN[t] + TierReserve[t]
<1>1. /\ TIER_MARGIN \in [Tier -> Nat \ {0}] /\ TIER_SIZE \in [Tier -> Nat \ {0}]
      /\ TIER_MAX_PAYOUT \in [Tier -> Nat]
      /\ \A t \in Tier : TIER_MAX_PAYOUT[t] = TIER_MARGIN[t] + TierReserve[t]
  BY PositionConstants
<1> QED
  BY <1>1

LEMMA NoPositionIsNone == NoPosition \notin PositionState
  BY PositionConstants

-----------------------------------------------------------------------------
(* What the arithmetic of a settlement is bounded by.                      *)

\* A payout is floored at 0 and capped at what the tier reserves.
LEMMA PayoutBounds ==
    ASSUME NEW tier \in Tier, NEW direction \in {0, 1}, NEW entry \in Price, NEW close \in Price
    PROVE  /\ SettlementPayout(tier, direction, entry, close) \in Nat
           /\ SettlementPayout(tier, direction, entry, close)
                  <= TIER_MARGIN[tier] + TierReserve[tier]
<1> DEFINE delta == IF direction = 1 THEN close - entry ELSE entry - close
           raw == TIER_MARGIN[tier] + TIER_SIZE[tier] * delta
<1>1. entry \in Nat /\ close \in Nat /\ TIER_MARGIN[tier] \in Nat /\ TIER_SIZE[tier] \in Nat
  BY PositionNumbers, TierNumbers
<1>2. delta \in Int
  BY <1>1
<1> HIDE DEF delta
<1>3. raw \in Int
  BY <1>1, <1>2
<1> HIDE DEF raw
<1>4. TIER_MAX_PAYOUT[tier] \in Nat /\ TIER_MAX_PAYOUT[tier] = TIER_MARGIN[tier] + TierReserve[tier]
  BY TierNumbers
<1>5. SettlementPayout(tier, direction, entry, close)
          = IF raw < 0 THEN 0 ELSE IF raw > TIER_MAX_PAYOUT[tier] THEN TIER_MAX_PAYOUT[tier] ELSE raw
  BY DEF SettlementPayout, raw, delta
<1>6. CASE raw < 0
  BY <1>4, <1>5, <1>6
<1>7. CASE raw >= 0 /\ raw > TIER_MAX_PAYOUT[tier]
  BY <1>3, <1>4, <1>5, <1>7
<1>8. CASE raw >= 0 /\ raw <= TIER_MAX_PAYOUT[tier]
  BY <1>3, <1>4, <1>5, <1>8
<1> QED
  BY <1>3, <1>4, <1>6, <1>7, <1>8

\* The keeper's bounty is a part of the collateral.
LEMMA BountyBounds ==
    ASSUME NEW collateral \in Nat
    PROVE  /\ (collateral * KEEPER_BOUNTY_BPS) \div HEALTH_SCALE \in Nat
           /\ (collateral * KEEPER_BOUNTY_BPS) \div HEALTH_SCALE <= collateral
<1>1. KEEPER_BOUNTY_BPS \in Nat /\ KEEPER_BOUNTY_BPS <= HEALTH_SCALE
  BY PositionNumbers
<1> USE DEF HEALTH_SCALE
<1>2. collateral * KEEPER_BOUNTY_BPS \in Nat /\ collateral * KEEPER_BOUNTY_BPS <= collateral * HEALTH_SCALE
  BY <1>1
<1> DEFINE product == collateral * KEEPER_BOUNTY_BPS
<1> HIDE DEF product
<1>3. product \in Nat /\ product <= collateral * HEALTH_SCALE
  BY <1>2 DEF product
<1>4. product \div HEALTH_SCALE \in Nat /\ (product \div HEALTH_SCALE) * HEALTH_SCALE <= product
  BY <1>3, FloorDiv
<1>5. product \div HEALTH_SCALE <= collateral
  BY <1>3, <1>4
<1> QED
  BY <1>4, <1>5 DEF product

LEMMA MarginsType ==
    ASSUME TypeOK
    PROVE  Margins \in [PositionId -> Nat] /\ Total(Margins) \in Nat
<1>1. \A id \in PositionId : positions[id] # NoPosition => positions[id].tier \in Tier
  BY DEF TypeOK, PositionState
<1>2. TIER_MARGIN \in [Tier -> Nat]
  BY TierNumbers
<1>3. \A id \in PositionId :
          (IF positions[id] = NoPosition THEN 0 ELSE TIER_MARGIN[positions[id].tier]) \in Nat
  BY <1>1, <1>2
<1>4. Margins \in [PositionId -> Nat]
  BY <1>3 DEF Margins
<1> QED
  BY <1>4, TotalType, VaultConstants

\* The total changes by the one margin that changed.
LEMMA MarginsUpdate ==
    ASSUME TypeOK, NEW id \in PositionId, NEW state \in PositionState \cup {NoPosition},
           positions' = [positions EXCEPT ![id] = state]
    PROVE  /\ state = NoPosition => Total(Margins') = Total(Margins) - Margins[id]
           /\ state # NoPosition => Total(Margins') = Total(Margins) - Margins[id] + TIER_MARGIN[state.tier]
<1>1. Margins \in [PositionId -> Nat] /\ IsFiniteSet(PositionId) /\ Margins[id] \in Nat /\ Total(Margins) \in Nat
  BY MarginsType, VaultConstants
<1>2. positions'[id] = state /\ \A y \in PositionId : y # id => positions'[y] = positions[y]
  BY DEF TypeOK
<1>3. CASE state = NoPosition
  <2>1. Margins' = [Margins EXCEPT ![id] = 0]
    <3>1. \A y \in PositionId : Margins'[y] = IF y = id THEN 0 ELSE Margins[y]
      BY <1>2, <1>3 DEF Margins
    <3>2. Margins' = [y \in PositionId |-> Margins'[y]]
      BY DEF Margins
    <3> QED
      BY <1>1, <3>1, <3>2
  <2>2. Total([Margins EXCEPT ![id] = 0]) = Total(Margins) - Margins[id] + 0
    <3> DEFINE m == Margins
    <3>1. m \in [PositionId -> Nat] /\ 0 \in Nat
      BY <1>1
    <3> HIDE DEF m
    <3>2. Total([m EXCEPT ![id] = 0]) = Total(m) - m[id] + 0
      BY <1>1, <3>1, TotalUpdate
    <3> QED
      BY <3>2 DEF m
  <2> QED
    BY <1>1, <1>3, <2>1, <2>2
<1>4. CASE state # NoPosition
  <2>1. Margins' = [Margins EXCEPT ![id] = TIER_MARGIN[state.tier]]
    <3>1. \A y \in PositionId :
              Margins'[y] = IF y = id THEN TIER_MARGIN[state.tier] ELSE Margins[y]
      BY <1>2, <1>4 DEF Margins
    <3>2. Margins' = [y \in PositionId |-> Margins'[y]]
      BY DEF Margins
    <3> QED
      BY <1>1, <3>1, <3>2
  <2>2. TIER_MARGIN[state.tier] \in Nat
    BY <1>4, TierNumbers DEF PositionState
  <2>3. Total([Margins EXCEPT ![id] = TIER_MARGIN[state.tier]])
            = Total(Margins) - Margins[id] + TIER_MARGIN[state.tier]
    BY <1>1, <2>2, TotalUpdate
  <2> QED
    BY <1>4, <2>1, <2>3
<1> QED
  BY <1>3, <1>4

\* An attestation and the passing of time leave the margins alone.
LEMMA MarginsSame ==
    ASSUME \A id \in PositionId :
               IF positions[id] = NoPosition THEN positions'[id] = NoPosition
               ELSE positions'[id] # NoPosition /\ positions'[id].tier = positions[id].tier
    PROVE  Margins' = Margins
BY DEF Margins

-----------------------------------------------------------------------------
(* One lemma per action.                                                   *)

LEMMA OpenKeepsInv ==
    ASSUME PMInv, NEW id \in PositionId, NEW tier \in Tier, NEW direction \in {0, 1},
           OpenPosition(id, tier, direction)
    PROVE  PMInv'
<1> DEFINE state == [tier |-> tier, direction |-> direction, entry |-> price, healthAge |-> 0]
<1>1. /\ positions[id] = NoPosition /\ Reserve(id, tier)
      /\ owed >= TIER_MARGIN[tier] /\ owed' = owed - TIER_MARGIN[tier]
      /\ positions' = [positions EXCEPT ![id] = state]
      /\ silence' = [silence EXCEPT ![id] = 0]
      /\ UNCHANGED <<positionNullifiers, price, priceAge, custody, feesKept, escrow, liquidated>>
  BY DEF OpenPosition, Engine!RegisterHeartbeat, oracleVars
<1>2. state \in PositionState /\ state # NoPosition /\ state.tier = tier
  <2>1. price \in Price /\ GracePeriod \in Nat
    BY PositionNumbers DEF PMInv, TypeOK
  <2>2. state \in PositionState
    BY <2>1 DEF PositionState
  <2> QED
    BY <2>2, NoPositionIsNone
<1> HIDE DEF state
<1>3. VaultInv'
  BY <1>1, ReserveKeepsInv DEF PMInv
<1>4. /\ reservation' = [reservation EXCEPT ![id] = TierReserve[tier]]
      /\ balance' = balance
  BY <1>1 DEF Reserve
<1>5. TIER_MARGIN[tier] \in Nat /\ owed \in Nat /\ owed' \in Nat /\ custody \in Nat /\ feesKept \in Nat
  BY <1>1, TierNumbers DEF PMInv, TypeOK
<1>6. TypeOK'
  <2>1. Engine!EngineTypeOK'
    BY <1>1, PositionNumbers DEF PMInv, TypeOK, Engine!EngineTypeOK, Engine!Claim
  <2>2. positions' \in [PositionId -> PositionState \cup {NoPosition}]
    BY <1>1, <1>2 DEF PMInv, TypeOK
  <2> QED
    BY <1>1, <1>3, <1>5, <2>1, <2>2 DEF PMInv, TypeOK, VaultInv
<1>7. ReservationsMatch'
  BY <1>1, <1>2, <1>4 DEF PMInv, TypeOK, VaultTypeOK, ReservationsMatch
<1>8. Total(Margins') = Total(Margins) - Margins[id] + TIER_MARGIN[tier]
  BY <1>1, <1>2, MarginsUpdate DEF PMInv
<1>9. Margins[id] = 0
  BY <1>1 DEF Margins
<1>10. Total(Margins) \in Nat /\ custody = owed + Total(Margins) + feesKept
  BY MarginsType DEF PMInv, MarginHeld
<1>11. custody' = owed' + Total(Margins') + feesKept'
  BY <1>1, <1>5, <1>8, <1>9, <1>10
<1>12. HeartbeatAgrees'
  <2>1. silence \in [PositionId -> 0 .. GracePeriod + 1]
    BY DEF PMInv, TypeOK, Engine!EngineTypeOK
  <2>2. state.healthAge = 0
    BY DEF state
  <2>3. positions \in [PositionId -> PositionState \cup {NoPosition}]
    BY DEF PMInv, TypeOK
  <2>4. ASSUME NEW i \in Open' PROVE silence'[i] = positions'[i].healthAge
    <3>1. CASE i = id
      BY <1>1, <2>1, <2>2, <2>3, <3>1
    <3>2. CASE i # id
      BY <1>1, <2>1, <2>3, <2>4, <3>2 DEF PMInv, HeartbeatAgrees, Open
    <3> QED
      BY <3>1, <3>2
  <2> QED
    BY <2>4 DEF HeartbeatAgrees
<1>13. Supply'
  BY <1>1, <1>4 DEF PMInv, Supply
<1> QED
  BY <1>3, <1>6, <1>7, <1>11, <1>12, <1>13 DEF PMInv, MarginHeld

\* A position leaves the books: its reservation is freed and its margin is no
\* longer held, however it is paid out.
LEMMA RemoveKeepsInv ==
    ASSUME PMInv, NEW id \in PositionId, positions[id] # NoPosition,
           positions' = [positions EXCEPT ![id] = NoPosition],
           reservation' = [reservation EXCEPT ![id] = 0],
           VaultInv', Engine!EngineTypeOK', silence' = silence,
           positionNullifiers' \subseteq Commitment,
           price' = price, priceAge' = priceAge,
           custody' \in Nat, owed' \in Nat, feesKept' \in Nat,
           custody' - owed' - feesKept'
               = custody - owed - feesKept - TIER_MARGIN[positions[id].tier],
           custody' + balance' <= custody + balance
    PROVE  PMInv'
<1>1. positions \in [PositionId -> PositionState \cup {NoPosition}]
  BY DEF PMInv, TypeOK
<1>2. positions' \in [PositionId -> PositionState \cup {NoPosition}]
  BY <1>1
<1>3. TypeOK'
  BY <1>2 DEF PMInv, TypeOK, VaultInv
<1>4. ReservationsMatch'
  BY <1>1 DEF PMInv, TypeOK, VaultTypeOK, ReservationsMatch
<1>5. Total(Margins') = Total(Margins) - Margins[id]
  <2>1. NoPosition \in PositionState \cup {NoPosition}
    OBVIOUS
  <2> QED
    BY <2>1, MarginsUpdate DEF PMInv
<1>6. Margins[id] = TIER_MARGIN[positions[id].tier]
  BY DEF Margins
<1>7. Margins[id] \in Nat /\ Total(Margins) \in Nat
  BY MarginsType DEF PMInv
<1>8. custody = owed + Total(Margins) + feesKept
  BY DEF PMInv, MarginHeld
<1>9. custody \in Nat /\ owed \in Nat /\ feesKept \in Nat
  BY DEF PMInv, TypeOK
<1>10. custody' = owed' + Total(Margins') + feesKept'
  BY <1>5, <1>6, <1>7, <1>8, <1>9
<1>11. HeartbeatAgrees'
  BY <1>1 DEF PMInv, HeartbeatAgrees, Open
<1>12. Supply'
  <2>1. balance \in Nat /\ balance' \in Nat /\ MaxBalance \in Nat
    BY VaultConstants DEF PMInv, VaultInv, VaultTypeOK
  <2>2. custody + balance <= MaxBalance
    BY DEF PMInv, Supply
  <2>3. custody' + balance' <= MaxBalance
    <3>1. \A a, b, c, d, m \in Nat : a + b <= c + d /\ c + d <= m => a + b <= m
      OBVIOUS
    <3> QED
      BY <1>9, <2>1, <2>2, <3>1
  <2> QED
    BY <2>3 DEF Supply
<1> QED
  BY <1>3, <1>4, <1>10, <1>11, <1>12 DEF PMInv, MarginHeld

\* What is known of an open position, for the steps that settle it.
LEMMA OpenFacts ==
    ASSUME PMInv, NEW id \in PositionId, positions[id] # NoPosition
    PROVE  /\ positions[id] \in PositionState
           /\ TIER_MARGIN[positions[id].tier] \in Nat
           /\ TierReserve[positions[id].tier] \in Nat
           /\ reservation[id] = TierReserve[positions[id].tier]
           /\ custody - owed >= TIER_MARGIN[positions[id].tier]
<1>1. positions[id] \in PositionState
  BY DEF PMInv, TypeOK
<1>2. positions[id].tier \in Tier
  BY <1>1 DEF PositionState
<1>3. TIER_MARGIN[positions[id].tier] \in Nat /\ TierReserve[positions[id].tier] \in Nat
  BY <1>2, TierNumbers, VaultConstants
<1>4. reservation[id] = TierReserve[positions[id].tier]
  BY DEF PMInv, ReservationsMatch
<1>5. Margins[id] = TIER_MARGIN[positions[id].tier]
  BY DEF Margins
<1>6. Margins \in [PositionId -> Nat] /\ IsFiniteSet(PositionId) /\ Total(Margins) \in Nat
  BY MarginsType, VaultConstants DEF PMInv
<1>7. Margins[id] <= Total(Margins)
  <2> DEFINE m == Margins
  <2>1. m \in [PositionId -> Nat]
    BY <1>6
  <2> HIDE DEF m
  <2>2. m[id] <= Total(m)
    BY <1>6, <2>1, TotalBounds
  <2> QED
    BY <2>2 DEF m
<1>8. custody = owed + Total(Margins) + feesKept /\ custody \in Nat /\ owed \in Nat /\ feesKept \in Nat
  BY DEF PMInv, TypeOK, MarginHeld
<1> QED
  BY <1>1, <1>3, <1>4, <1>5, <1>6, <1>7, <1>8

\* A single reservation is in the balance.
LEMMA ReservedIsHeld ==
    ASSUME PMInv, NEW id \in PositionId
    PROVE  reservation[id] <= balance
<1>1. reservation \in [PositionId -> Nat] /\ IsFiniteSet(PositionId)
  BY VaultConstants DEF PMInv, VaultInv, VaultTypeOK
<1>2. reservation[id] <= Total(reservation)
  BY <1>1, TotalBounds
<1>3. Total(reservation) <= balance /\ Total(reservation) \in Nat /\ balance \in Nat
  BY DEF PMInv, VaultInv, VaultTypeOK, TotalsAgree, Solvent
<1> QED
  BY <1>1, <1>2, <1>3

LEMMA PayoutFacts ==
    ASSUME PMInv, NEW id \in PositionId, positions[id] # NoPosition, NEW p \in Price
    PROVE  /\ PayoutAt(id, p) \in Nat
           /\ PayoutAt(id, p) <= TIER_MARGIN[positions[id].tier] + TierReserve[positions[id].tier]
<1>1. positions[id].tier \in Tier /\ positions[id].direction \in {0, 1} /\ positions[id].entry \in Price
  BY OpenFacts DEF PositionState
<1> QED
  BY <1>1, PayoutBounds DEF PayoutAt

LEMMA CloseKeepsInv ==
    ASSUME PMInv, NEW id \in PositionId, NEW fee \in Fee, ClosePosition(id, fee)
    PROVE  PMInv'
<1> DEFINE payout == PayoutAt(id, price)
           margin == TIER_MARGIN[positions[id].tier]
<1>1. /\ positions[id] # NoPosition /\ fee <= payout
      /\ PayWinner(id, payout, margin) \/ CollectFromLoser(id, payout, margin)
      /\ owed' = owed + (payout - fee) /\ feesKept' = feesKept + fee
      /\ positionNullifiers' = positionNullifiers \cup {CommitmentOf(id, positions[id])}
      /\ positions' = [positions EXCEPT ![id] = NoPosition]
      /\ price' = price /\ priceAge' = priceAge
      /\ silence' = silence /\ escrow' = escrow /\ liquidated' = liquidated
  BY DEF ClosePosition, oracleVars
<1>2. payout \in Nat /\ margin \in Nat /\ fee \in Nat
  <2>1. price \in Price
    BY DEF PMInv, TypeOK
  <2>2. payout \in Nat /\ margin \in Nat
    BY <1>1, <2>1, PayoutFacts, OpenFacts
  <2>3. fee \in Nat
    BY PositionNumbers
  <2> QED
    BY <2>2, <2>3
<1>3. CommitmentOf(id, positions[id]) \in Commitment
  BY <1>1, OpenFacts DEF CommitmentOf, Commitment, PositionState
<1> HIDE DEF payout, margin
<1>4. custody \in Nat /\ owed \in Nat /\ feesKept \in Nat /\ balance \in Nat
  BY DEF PMInv, TypeOK, VaultTypeOK
<1>5. owed' \in Nat /\ feesKept' \in Nat
  BY <1>1, <1>2, <1>4
<1>6. positionNullifiers' \subseteq Commitment
  BY <1>1, <1>3 DEF PMInv, TypeOK
<1>7. Engine!EngineTypeOK'
  BY <1>1 DEF PMInv, TypeOK, Engine!EngineTypeOK
<1>8. ASSUME PayWinner(id, payout, margin)
      PROVE  /\ VaultInv' /\ reservation' = [reservation EXCEPT ![id] = 0]
             /\ custody' = custody + (payout - margin) /\ balance' = balance - (payout - margin)
             /\ custody' \in Nat
  <2>1. payout - margin \in Nat
    BY <1>2, <1>8 DEF PayWinner
  <2>2. Release(id, payout - margin) /\ custody' = custody + (payout - margin)
    BY <1>8 DEF PayWinner
  <2>3. VaultInv'
    BY <2>1, <2>2, ReleaseKeepsInv DEF PMInv
  <2> QED
    BY <1>4, <2>1, <2>2, <2>3 DEF Release, FreeReservation
<1>9. ASSUME CollectFromLoser(id, payout, margin)
      PROVE  /\ VaultInv' /\ reservation' = [reservation EXCEPT ![id] = 0]
             /\ custody' = custody + (payout - margin) /\ balance' = balance - (payout - margin)
             /\ custody' \in Nat
  <2>1. margin - payout \in Nat /\ custody >= margin - payout
    BY <1>2, <1>9 DEF CollectFromLoser
  <2>2. ReleaseAndReceive(id, margin - payout) /\ custody' = custody - (margin - payout)
    BY <1>9 DEF CollectFromLoser
  <2>3. VaultInv'
    BY <2>1, <2>2, ReleaseAndReceiveKeepsInv DEF PMInv
  <2>4. balance' = balance + (margin - payout) /\ reservation' = [reservation EXCEPT ![id] = 0]
    BY <2>2 DEF ReleaseAndReceive, FreeReservation
  <2> QED
    BY <1>2, <1>4, <2>1, <2>2, <2>3, <2>4
<1>10. /\ VaultInv' /\ reservation' = [reservation EXCEPT ![id] = 0]
       /\ custody' = custody + (payout - margin) /\ balance' = balance - (payout - margin)
       /\ custody' \in Nat
  BY <1>1, <1>8, <1>9
<1>11. custody' - owed' - feesKept' = custody - owed - feesKept - margin
  BY <1>1, <1>2, <1>4, <1>10
<1>12. custody' + balance' <= custody + balance
  BY <1>2, <1>4, <1>10
<1>13. custody' - owed' - feesKept'
          = custody - owed - feesKept - TIER_MARGIN[positions[id].tier]
  BY <1>11 DEF margin
<1> QED
  BY <1>1, <1>5, <1>6, <1>7, <1>10, <1>12, <1>13, RemoveKeepsInv

LEMMA SeizeKeepsInv ==
    ASSUME PMInv, NEW keeper \in Keeper, NEW id \in PositionId, NEW s \in Secret,
           RevealAndSeize(keeper, id, s)
    PROVE  PMInv'
<1> DEFINE collateral == TIER_MARGIN[positions[id].tier]
           bounty == (collateral * KEEPER_BOUNTY_BPS) \div HEALTH_SCALE
<1>1. /\ positions[id] # NoPosition /\ custody >= collateral /\ custody' = custody - collateral
      /\ ReleaseAndReceive(id, collateral - bounty)
      /\ positions' = [positions EXCEPT ![id] = NoPosition]
      /\ liquidated' = liquidated \cup {id} /\ escrow' = [escrow EXCEPT ![id] = {}]
      /\ silence' = silence
      /\ UNCHANGED <<positionNullifiers, price, priceAge, owed, feesKept>>
  BY DEF RevealAndSeize, MarkPositionSeized, Engine!RedeemClaim, oracleVars
<1>2. collateral \in Nat
  BY <1>1, OpenFacts
<1>3. bounty \in Nat /\ bounty <= collateral
  BY <1>2, BountyBounds
<1> HIDE DEF bounty
<1>4. collateral - bounty \in Nat
  BY <1>2, <1>3
<1>5. VaultInv'
  BY <1>1, <1>4, ReleaseAndReceiveKeepsInv DEF PMInv
<1>6. balance' = balance + (collateral - bounty) /\ reservation' = [reservation EXCEPT ![id] = 0]
  BY <1>1 DEF ReleaseAndReceive, FreeReservation
<1>7. Engine!EngineTypeOK'
  BY <1>1 DEF PMInv, TypeOK, Engine!EngineTypeOK
<1>8. custody \in Nat /\ owed \in Nat /\ feesKept \in Nat /\ balance \in Nat
  BY DEF PMInv, TypeOK, VaultTypeOK
<1>9. custody' \in Nat /\ owed' \in Nat /\ feesKept' \in Nat
  BY <1>1, <1>2, <1>8
<1>10. custody' - owed' - feesKept'
          = custody - owed - feesKept - TIER_MARGIN[positions[id].tier]
  BY <1>1, <1>2, <1>8
<1>11. custody' + balance' <= custody + balance
  BY <1>1, <1>2, <1>3, <1>6, <1>8
<1>12. positionNullifiers' \subseteq Commitment
  BY <1>1 DEF PMInv, TypeOK
<1> QED
  BY <1>1, <1>5, <1>6, <1>7, <1>9, <1>10, <1>11, <1>12, RemoveKeepsInv

LEMMA AttestKeepsInv ==
    ASSUME PMInv, NEW id \in PositionId, AttestHealth(id)
    PROVE  PMInv'
<1>1. /\ positions[id] # NoPosition
      /\ positions' = [positions EXCEPT ![id].healthAge = 0]
      /\ silence' = [silence EXCEPT ![id] = 0]
      /\ UNCHANGED <<vaultVars, positionNullifiers, price, priceAge, custody, owed, feesKept,
                     escrow, liquidated>>
  BY DEF AttestHealth, Engine!RegisterHeartbeat, oracleVars, poolVars
<1>2. positions \in [PositionId -> PositionState \cup {NoPosition}] /\ GracePeriod \in Nat
  BY PositionNumbers DEF PMInv, TypeOK
<1>3. positions[id] \in PositionState
  BY <1>1, OpenFacts
<1>4. /\ positions'[id] = [positions[id] EXCEPT !.healthAge = 0]
      /\ \A y \in PositionId : y # id => positions'[y] = positions[y]
  BY <1>1, <1>2
<1>5. positions'[id] \in PositionState /\ positions'[id].tier = positions[id].tier
      /\ positions'[id].healthAge = 0
  BY <1>2, <1>3, <1>4 DEF PositionState
<1>6. positions'[id] # NoPosition
  BY <1>5, NoPositionIsNone
<1>7. positions' \in [PositionId -> PositionState \cup {NoPosition}]
  BY <1>1, <1>2, <1>3, <1>4, <1>5
<1>8. VaultInv'
  BY <1>1 DEF PMInv, VaultInv, VaultTypeOK, Solvent, TotalsAgree, vaultVars
<1>9. Engine!EngineTypeOK'
  BY <1>1, <1>2 DEF PMInv, TypeOK, Engine!EngineTypeOK
<1>10. TypeOK'
  BY <1>1, <1>7, <1>8, <1>9 DEF PMInv, TypeOK, VaultInv
<1>11. \A y \in PositionId :
           IF positions[y] = NoPosition THEN positions'[y] = NoPosition
           ELSE positions'[y] # NoPosition /\ positions'[y].tier = positions[y].tier
  BY <1>1, <1>4, <1>5, <1>6
<1>12. Margins' = Margins
  BY <1>11, MarginsSame
<1>13. MarginHeld'
  BY <1>1, <1>12 DEF PMInv, MarginHeld
<1>14. ReservationsMatch'
  BY <1>1, <1>11 DEF PMInv, ReservationsMatch, vaultVars
<1>15. HeartbeatAgrees'
  <2>1. silence \in [PositionId -> 0 .. GracePeriod + 1]
    BY DEF PMInv, TypeOK, Engine!EngineTypeOK
  <2>2. ASSUME NEW i \in Open' PROVE silence'[i] = positions'[i].healthAge
    BY <1>1, <1>4, <1>5, <2>1, <2>2 DEF PMInv, HeartbeatAgrees, Open
  <2> QED
    BY <2>2 DEF HeartbeatAgrees
<1>16. Supply'
  BY <1>1 DEF PMInv, Supply, vaultVars
<1> QED
  BY <1>8, <1>10, <1>13, <1>14, <1>15, <1>16 DEF PMInv

LEMMA TickKeepsInv ==
    ASSUME PMInv, Tick
    PROVE  PMInv'
<1>1. /\ priceAge' = Engine!Sooner(priceAge + 1, MAX_ORACLE_AGE + 1)
      /\ positions' = [id \in PositionId |->
             IF positions[id] = NoPosition THEN NoPosition
             ELSE [positions[id] EXCEPT
                     !.healthAge = Engine!Sooner(positions[id].healthAge + 1, GracePeriod + 1)]]
      /\ silence' = [id \in PositionId |-> Engine!Sooner(silence[id] + 1, GracePeriod + 1)]
      /\ escrow' = [id \in PositionId |->
             {[c EXCEPT !.age = Engine!Sooner(c.age + 1, ESCROW_TTL)] : c \in escrow[id]}]
      /\ UNCHANGED <<vaultVars, positionNullifiers, price, custody, owed, feesKept, liquidated>>
  BY DEF Tick, Engine!EngineTick, poolVars
<1>2. GracePeriod \in Nat /\ ESCROW_TTL \in Nat /\ MAX_ORACLE_AGE \in Nat
  BY PositionNumbers
<1>3. \A n, top \in Nat : Engine!Sooner(n + 1, top) \in 0 .. top
  BY DEF Engine!Sooner
<1>4. positions \in [PositionId -> PositionState \cup {NoPosition}]
  BY DEF PMInv, TypeOK
<1>5. ASSUME NEW id \in PositionId, positions[id] # NoPosition
      PROVE  /\ positions'[id] \in PositionState /\ positions'[id] # NoPosition
             /\ positions'[id].tier = positions[id].tier
             /\ positions'[id].healthAge = Engine!Sooner(positions[id].healthAge + 1, GracePeriod + 1)
  <2>1. positions[id] \in PositionState
    BY <1>4, <1>5
  <2>2. positions[id].healthAge \in Nat
    BY <1>2, <2>1 DEF PositionState
  <2>3. Engine!Sooner(positions[id].healthAge + 1, GracePeriod + 1) \in 0 .. GracePeriod + 1
    BY <1>2, <1>3, <2>2
  <2>4. positions'[id] = [positions[id] EXCEPT
            !.healthAge = Engine!Sooner(positions[id].healthAge + 1, GracePeriod + 1)]
    BY <1>1, <1>5
  <2>5. positions'[id] \in PositionState
    BY <2>1, <2>3, <2>4 DEF PositionState
  <2> QED
    BY <2>1, <2>4, <2>5, NoPositionIsNone DEF PositionState
<1>6. \A id \in PositionId : positions[id] = NoPosition => positions'[id] = NoPosition
  BY <1>1
<1>7. positions' \in [PositionId -> PositionState \cup {NoPosition}]
  <2>1. \A id \in PositionId : positions'[id] \in PositionState \cup {NoPosition}
    BY <1>5, <1>6
  <2>2. positions' = [id \in PositionId |-> positions'[id]]
    BY <1>1
  <2> QED
    BY <2>1, <2>2
<1>8. Engine!EngineTypeOK'
  <2>1. /\ silence \in [PositionId -> 0 .. GracePeriod + 1]
        /\ escrow \in [PositionId -> {{}} \cup {{c} : c \in Engine!Claim}]
        /\ liquidated \subseteq PositionId
    BY DEF PMInv, TypeOK, Engine!EngineTypeOK
  <2>2. silence' \in [PositionId -> 0 .. GracePeriod + 1]
    <3>1. \A id \in PositionId : silence[id] \in Nat
      BY <1>2, <2>1
    <3>2. \A id \in PositionId : Engine!Sooner(silence[id] + 1, GracePeriod + 1) \in 0 .. GracePeriod + 1
      BY <1>2, <1>3, <3>1
    <3> QED
      BY <1>1, <3>2
  <2>3. ASSUME NEW id \in PositionId
        PROVE  {[c EXCEPT !.age = Engine!Sooner(c.age + 1, ESCROW_TTL)] : c \in escrow[id]}
                   \in {{}} \cup {{c} : c \in Engine!Claim}
    <3>1. CASE escrow[id] = {}
      BY <3>1
    <3>2. ASSUME NEW c \in Engine!Claim, escrow[id] = {c}
          PROVE  {[d EXCEPT !.age = Engine!Sooner(d.age + 1, ESCROW_TTL)] : d \in escrow[id]}
                     \in {{}} \cup {{d} : d \in Engine!Claim}
      <4>1. c.age \in Nat
        BY <1>2 DEF Engine!Claim
      <4>2. Engine!Sooner(c.age + 1, ESCROW_TTL) \in 0 .. ESCROW_TTL
        BY <1>2, <1>3, <4>1
      <4>3. [c EXCEPT !.age = Engine!Sooner(c.age + 1, ESCROW_TTL)] \in Engine!Claim
        BY <4>2 DEF Engine!Claim
      <4>4. {[d EXCEPT !.age = Engine!Sooner(d.age + 1, ESCROW_TTL)] : d \in escrow[id]}
                = {[c EXCEPT !.age = Engine!Sooner(c.age + 1, ESCROW_TTL)]}
        BY <3>2
      <4> QED
        BY <4>3, <4>4
    <3> QED
      BY <2>1, <3>1, <3>2
  <2>4. escrow' \in [PositionId -> {{}} \cup {{c} : c \in Engine!Claim}]
    BY <1>1, <2>3
  <2> QED
    BY <1>1, <2>1, <2>2, <2>4 DEF Engine!EngineTypeOK
<1>9. VaultInv'
  BY <1>1 DEF PMInv, VaultInv, VaultTypeOK, Solvent, TotalsAgree, vaultVars
<1>10. priceAge' \in 0 .. MAX_ORACLE_AGE + 1
  <2>1. priceAge \in Nat
    BY <1>2 DEF PMInv, TypeOK
  <2> QED
    BY <1>1, <1>2, <1>3, <2>1
<1>11. TypeOK'
  BY <1>1, <1>7, <1>8, <1>9, <1>10 DEF PMInv, TypeOK, VaultInv
<1>12. \A id \in PositionId :
           IF positions[id] = NoPosition THEN positions'[id] = NoPosition
           ELSE positions'[id] # NoPosition /\ positions'[id].tier = positions[id].tier
  BY <1>5, <1>6
<1>13. MarginHeld'
  <2>1. Margins' = Margins
    BY <1>12, MarginsSame
  <2> QED
    BY <1>1, <2>1 DEF PMInv, MarginHeld
<1>14. ReservationsMatch'
  BY <1>1, <1>12 DEF PMInv, ReservationsMatch, vaultVars
<1>15. HeartbeatAgrees'
  BY <1>1, <1>5, <1>6 DEF PMInv, HeartbeatAgrees, Open
<1>16. Supply'
  BY <1>1 DEF PMInv, Supply, vaultVars
<1> QED
  BY <1>9, <1>11, <1>13, <1>14, <1>15, <1>16 DEF PMInv

\* Steps that touch neither a position nor a reservation.
LEMMA OtherKeepsInv ==
    ASSUME PMInv, VaultInv', Engine!EngineTypeOK',
           reservation' = reservation, positions' = positions, silence' = silence,
           positionNullifiers' = positionNullifiers, feesKept' = feesKept,
           price' \in Price, priceAge' \in 0 .. MAX_ORACLE_AGE + 1,
           custody' \in Nat, owed' \in Nat,
           custody' - owed' = custody - owed,
           custody' + balance' <= MaxBalance
    PROVE  PMInv'
<1>1. TypeOK'
  BY DEF PMInv, TypeOK, VaultInv
<1>2. ReservationsMatch' /\ HeartbeatAgrees' /\ Supply'
  BY DEF PMInv, ReservationsMatch, HeartbeatAgrees, Open, Supply
<1>3. Margins' = Margins
  BY DEF Margins
<1>4. Total(Margins) \in Nat /\ custody = owed + Total(Margins) + feesKept
  BY MarginsType DEF PMInv, MarginHeld
<1>5. custody \in Nat /\ owed \in Nat /\ feesKept \in Nat
  BY DEF PMInv, TypeOK
<1>6. custody' = owed' + Total(Margins') + feesKept'
  BY <1>3, <1>4, <1>5
<1> QED
  BY <1>1, <1>2, <1>6 DEF PMInv, MarginHeld

LEMMA PMStep ==
    ASSUME PMInv, [Next]_vars
    PROVE  PMInv'
<1>0. /\ custody \in Nat /\ owed \in Nat /\ balance \in Nat /\ MaxBalance \in Nat
      /\ custody + balance <= MaxBalance
      /\ price \in Price /\ priceAge \in 0 .. MAX_ORACLE_AGE + 1
      /\ VaultInv /\ Engine!EngineTypeOK
  BY VaultConstants DEF PMInv, TypeOK, VaultTypeOK, Supply
<1>1. ASSUME UNCHANGED vaultVars PROVE VaultInv'
  BY <1>0, <1>1 DEF VaultInv, VaultTypeOK, Solvent, TotalsAgree, vaultVars
<1>2. ASSUME UNCHANGED <<silence, escrow, liquidated>> PROVE Engine!EngineTypeOK'
  BY <1>0, <1>2 DEF Engine!EngineTypeOK
<1>3. ASSUME NEW id \in PositionId, NEW tier \in Tier, NEW direction \in {0, 1},
             OpenPosition(id, tier, direction)
      PROVE  PMInv'
  BY <1>3, OpenKeepsInv
<1>4. ASSUME NEW id \in PositionId, AttestHealth(id) PROVE PMInv'
  BY <1>4, AttestKeepsInv
<1>5. ASSUME NEW id \in PositionId, NEW fee \in Fee, ClosePosition(id, fee) PROVE PMInv'
  BY <1>5, CloseKeepsInv
<1>6. ASSUME NEW keeper \in Keeper, NEW id \in PositionId, NEW s \in Secret,
             InitiateLiquidation(keeper, id, s)
      PROVE  PMInv'
  <2>1. /\ UNCHANGED <<vaultVars, pmVars, oracleVars, poolVars>>
        /\ silence' = silence /\ liquidated' = liquidated
        /\ escrow' = [escrow EXCEPT ![id] =
                         {[keeper |-> keeper, commitment |-> s, age |-> 0]}]
    BY <1>6 DEF InitiateLiquidation, Engine!InitiateLiquidation
  <2>2. [keeper |-> keeper, commitment |-> s, age |-> 0] \in Engine!Claim
    BY PositionNumbers DEF Engine!Claim
  <2>3. Engine!EngineTypeOK'
    BY <1>0, <2>1, <2>2 DEF Engine!EngineTypeOK
  <2>4. VaultInv'
    BY <1>1, <2>1
  <2> QED
    BY <1>0, <2>1, <2>3, <2>4, OtherKeepsInv DEF vaultVars, pmVars, oracleVars, poolVars
<1>7. ASSUME NEW keeper \in Keeper, NEW id \in PositionId, NEW s \in Secret,
             RevealAndSeize(keeper, id, s)
      PROVE  PMInv'
  BY <1>7, SeizeKeepsInv
<1>8. ASSUME NEW amount \in Amounts, Shield(amount) PROVE PMInv'
  <2>1. amount \in Nat
    BY VaultConstants
  <2>2. /\ VaultInv' /\ Engine!EngineTypeOK'
        /\ custody' = custody + amount /\ owed' = owed + amount
        /\ custody + balance + amount <= MaxBalance /\ balance' = balance
        /\ reservation' = reservation /\ positions' = positions /\ silence' = silence
        /\ positionNullifiers' = positionNullifiers /\ feesKept' = feesKept
        /\ price' = price /\ priceAge' = priceAge
    BY <1>1, <1>2, <1>8 DEF Shield, vaultVars, pmVars, oracleVars
  <2>3. custody' \in Nat /\ owed' \in Nat /\ custody' - owed' = custody - owed
        /\ custody' + balance' <= MaxBalance
    BY <1>0, <2>1, <2>2
  <2> QED
    BY <1>0, <2>2, <2>3, OtherKeepsInv
<1>9. ASSUME NEW amount \in Amounts, Unshield(amount) PROVE PMInv'
  <2>1. amount \in Nat
    BY VaultConstants
  <2>2. /\ VaultInv' /\ Engine!EngineTypeOK'
        /\ custody' = custody - amount /\ owed' = owed - amount
        /\ owed >= amount /\ custody >= amount /\ balance' = balance
        /\ reservation' = reservation /\ positions' = positions /\ silence' = silence
        /\ positionNullifiers' = positionNullifiers /\ feesKept' = feesKept
        /\ price' = price /\ priceAge' = priceAge
    BY <1>1, <1>2, <1>9 DEF Unshield, vaultVars, pmVars, oracleVars
  <2>3. custody' \in Nat /\ owed' \in Nat /\ custody' - owed' = custody - owed
        /\ custody' + balance' <= MaxBalance
    BY <1>0, <2>1, <2>2
  <2> QED
    BY <1>0, <2>2, <2>3, OtherKeepsInv
<1>10. ASSUME Liquidity PROVE PMInv'
  <2>1. /\ VaultInv' /\ reservation' = reservation /\ custody + balance' <= MaxBalance
    <3>1. ASSUME NEW lp \in Lp, NEW amount \in Amounts,
                 custody + balance + amount <= MaxBalance, DepositLiquidity(lp, amount)
          PROVE  VaultInv' /\ reservation' = reservation /\ custody + balance' <= MaxBalance
      <4>1. balance' = balance + amount /\ reservation' = reservation /\ amount \in Nat
        BY <3>1, VaultConstants DEF DepositLiquidity
      <4>2. VaultInv'
        BY <1>0, <3>1, DepositKeepsInv
      <4> QED
        BY <1>0, <3>1, <4>1, <4>2
    <3>2. ASSUME NEW lp \in Lp, NEW n \in 1 .. shares[lp], WithdrawLiquidity(lp, n)
          PROVE  VaultInv' /\ reservation' = reservation /\ custody + balance' <= MaxBalance
      <4> DEFINE amount == (balance * n) \div totalShares
      <4>1. balance' = balance - amount /\ reservation' = reservation /\ amount > 0
        BY <3>2 DEF WithdrawLiquidity
      <4>2. VaultInv'
        BY <1>0, <3>2, WithdrawKeepsInv
      <4>3. balance' \in Nat
        BY <4>2 DEF VaultInv, VaultTypeOK
      <4>4. balance' <= balance
        <5>1. amount \in Int
          <6>1. balance * n \in Int /\ totalShares \in Int
            BY <1>0 DEF VaultInv, VaultTypeOK
          <6>2. totalShares > 0
            BY <1>0, <3>2, LpHasTotal
          <6> QED
            BY <6>1, <6>2
        <5> HIDE DEF amount
        <5> QED
          BY <1>0, <4>1, <5>1
      <4> QED
        BY <1>0, <4>1, <4>2, <4>3, <4>4
    <3> QED
      BY <1>10, <3>1, <3>2 DEF Liquidity
  <2>2. /\ UNCHANGED <<positions, positionNullifiers, price, priceAge, custody, owed, feesKept>>
        /\ UNCHANGED <<silence, escrow, liquidated>>
    BY <1>10 DEF Liquidity, pmVars, oracleVars, poolVars
  <2>3. Engine!EngineTypeOK'
    BY <1>2, <2>2
  <2> QED
    BY <1>0, <2>1, <2>2, <2>3, OtherKeepsInv
<1>11. ASSUME NEW p \in Price, NEW age \in 0 .. MAX_ORACLE_AGE, Publish(p, age) PROVE PMInv'
  <2>1. /\ price' = p /\ priceAge' = age /\ VaultInv' /\ Engine!EngineTypeOK'
        /\ balance' = balance /\ reservation' = reservation
        /\ UNCHANGED <<positions, positionNullifiers, custody, owed, feesKept, silence>>
    BY <1>1, <1>2, <1>11 DEF Publish, vaultVars, pmVars, poolVars
  <2>2. age \in 0 .. MAX_ORACLE_AGE + 1
    BY PositionNumbers
  <2> QED
    BY <1>0, <2>1, <2>2, OtherKeepsInv
<1>12. ASSUME Tick PROVE PMInv'
  BY <1>12, TickKeepsInv
<1>13. CASE UNCHANGED vars
  <2>1. VaultInv' /\ Engine!EngineTypeOK'
    BY <1>1, <1>2, <1>13 DEF vars
  <2> QED
    BY <1>0, <1>13, <2>1, OtherKeepsInv DEF vars, vaultVars, pmVars, oracleVars, poolVars
<1> QED
  BY <1>3, <1>4, <1>5, <1>6, <1>7, <1>8, <1>9, <1>10, <1>11, <1>12, <1>13 DEF Next

LEMMA PMStarts == Init => PMInv
<1> SUFFICES ASSUME Init PROVE PMInv
  OBVIOUS
<1>1. VaultInv
  BY VaultStarts DEF Init
<1>2. TypeOK
  <2>1. Engine!EngineTypeOK
    BY PositionNumbers DEF Init, Engine!EngineInit, Engine!EngineTypeOK
  <2>2. priceAge \in 0 .. MAX_ORACLE_AGE + 1
    BY PositionNumbers DEF Init
  <2> QED
    BY <1>1, <2>1, <2>2 DEF Init, TypeOK, VaultInv
<1>3. Total(Margins) = 0
  <2>1. Margins = [id \in PositionId |-> 0]
    BY DEF Init, Margins
  <2> QED
    BY <2>1, TotalZero
<1>4. MarginHeld
  BY <1>3 DEF Init, MarginHeld
<1>5. ReservationsMatch /\ HeartbeatAgrees
  BY DEF Init, VaultInit, ReservationsMatch, HeartbeatAgrees, Open
<1>6. Supply
  BY VaultConstants DEF Init, VaultInit, Supply
<1> QED
  BY <1>1, <1>2, <1>4, <1>5, <1>6 DEF PMInv

LEMMA PMAlways == Spec => []PMInv
<1>1. PMInv /\ [Next]_vars => PMInv'
  BY PMStep
<1> QED
  BY PMStarts, <1>1, PTL DEF Spec

-----------------------------------------------------------------------------
(* The results.                                                            *)

\* Every open position is reserved for, and manager, vault and engine agree on
\* it, after any sequence of opens, closes, seizures, deposits, withdrawals and
\* price moves.
THEOREM BooksBalance == Spec => []BooksAgree
<1>1. PMInv => BooksAgree
  BY DEF PMInv, VaultInv, BooksAgree
<1> QED
  BY PMAlways, <1>1, PTL

\* The vault of the whole system has what it set aside.
THEOREM SystemSolvent == Spec => []Solvent
<1>1. PMInv => Solvent
  BY DEF PMInv, VaultInv
<1> QED
  BY PMAlways, <1>1, PTL

\* The pool holds every open position's margin, to the token.
THEOREM MarginsAreHeld == Spec => []MarginHeld
<1>1. PMInv => MarginHeld
  BY DEF PMInv
<1> QED
  BY PMAlways, <1>1, PTL

\* Whatever the next price, every open position can be settled in full.
THEOREM AlwaysSettleable == Spec => []Settleable
<1>1. ASSUME PMInv, NEW id \in Open, NEW p \in Price
      PROVE  LET payout == PayoutAt(id, p)
                 margin == TIER_MARGIN[positions[id].tier]
             IN  /\ payout - margin <= reservation[id] /\ payout - margin <= balance
                 /\ margin - payout <= custody - owed
  <2>0. id \in PositionId /\ positions[id] # NoPosition
    BY DEF Open
  <2>1. /\ PayoutAt(id, p) \in Nat
        /\ PayoutAt(id, p) <= TIER_MARGIN[positions[id].tier] + TierReserve[positions[id].tier]
    BY <1>1, <2>0, PayoutFacts
  <2>2. /\ TIER_MARGIN[positions[id].tier] \in Nat
        /\ TierReserve[positions[id].tier] \in Nat
        /\ reservation[id] = TierReserve[positions[id].tier]
        /\ custody - owed >= TIER_MARGIN[positions[id].tier]
    BY <1>1, <2>0, OpenFacts
  <2>3. reservation[id] <= balance
    BY <1>1, <2>0, ReservedIsHeld
  <2>4. custody \in Nat /\ owed \in Nat /\ balance \in Nat
    BY <1>1 DEF PMInv, TypeOK, VaultTypeOK
  <2> DEFINE payout == PayoutAt(id, p)
             margin == TIER_MARGIN[positions[id].tier]
             reserve == TierReserve[positions[id].tier]
  <2>5. /\ payout \in Nat /\ margin \in Nat /\ reserve \in Nat /\ payout <= margin + reserve
        /\ reservation[id] = reserve /\ custody - owed >= margin
    BY <2>1, <2>2
  <2> HIDE DEF payout, margin, reserve
  <2>6. /\ payout - margin <= reservation[id] /\ payout - margin <= balance
        /\ margin - payout <= custody - owed
    BY <2>3, <2>4, <2>5
  <2> QED
    BY <2>6 DEF payout, margin
<1>2. PMInv => Settleable
  BY <1>1 DEF Settleable
<1> QED
  BY PMAlways, <1>2, PTL

\* Seen from the vault, one step of the system is one step of the vault.
LEMMA StepIsVaultStep ==
    ASSUME PMInv, [Next]_vars
    PROVE  [VaultNext]_vaultVars
<1>0. /\ custody \in Nat /\ owed \in Nat /\ balance \in Nat /\ MaxBalance \in Nat
      /\ custody + balance <= MaxBalance /\ price \in Price
  BY VaultConstants DEF PMInv, TypeOK, VaultTypeOK, Supply
<1>1. ASSUME NEW id \in PositionId, NEW tier \in Tier, NEW direction \in {0, 1},
             OpenPosition(id, tier, direction)
      PROVE  VaultNext
  BY <1>1 DEF OpenPosition, VaultNext
<1>2. ASSUME NEW id \in PositionId, NEW income \in Nat, income <= custody,
             ReleaseAndReceive(id, income)
      PROVE  VaultNext
  <2>1. income \in 0 .. MaxBalance /\ balance + income <= MaxBalance
    BY <1>0, <1>2
  <2> QED
    BY <1>2, <2>1 DEF VaultNext
<1>3. ASSUME NEW id \in PositionId, NEW fee \in Fee, ClosePosition(id, fee)
      PROVE  VaultNext
  <2> DEFINE payout == PayoutAt(id, price)
             margin == TIER_MARGIN[positions[id].tier]
  <2>1. /\ positions[id] # NoPosition
        /\ PayWinner(id, payout, margin) \/ CollectFromLoser(id, payout, margin)
    BY <1>3 DEF ClosePosition
  <2>2. /\ payout \in Nat /\ margin \in Nat
        /\ payout <= margin + reservation[id] /\ reservation[id] \in Nat
    BY <1>0, <2>1, PayoutFacts, OpenFacts
  <2>3. reservation[id] <= balance
    BY <2>1, ReservedIsHeld
  <2> HIDE DEF payout, margin
  <2>4. CASE PayWinner(id, payout, margin)
    <3>1. Release(id, payout - margin) /\ payout > margin
      BY <2>4 DEF PayWinner
    <3>2. payout - margin \in 0 .. MaxBalance
      BY <1>0, <2>2, <2>3, <3>1
    <3> QED
      BY <3>1, <3>2 DEF VaultNext
  <2>5. CASE CollectFromLoser(id, payout, margin)
    <3>1. ReleaseAndReceive(id, margin - payout) /\ payout <= margin /\ custody >= margin - payout
      BY <2>5 DEF CollectFromLoser
    <3>2. margin - payout \in Nat /\ margin - payout <= custody
      BY <1>0, <2>2, <3>1
    <3> QED
      BY <1>2, <3>1, <3>2
  <2> QED
    BY <2>1, <2>4, <2>5
<1>4. ASSUME NEW keeper \in Keeper, NEW id \in PositionId, NEW s \in Secret,
             RevealAndSeize(keeper, id, s)
      PROVE  VaultNext
  <2> DEFINE collateral == TIER_MARGIN[positions[id].tier]
             bounty == (collateral * KEEPER_BOUNTY_BPS) \div HEALTH_SCALE
  <2>1. /\ positions[id] # NoPosition /\ custody >= collateral
        /\ ReleaseAndReceive(id, collateral - bounty)
    BY <1>4 DEF RevealAndSeize, MarkPositionSeized
  <2>2. collateral \in Nat
    BY <2>1, OpenFacts
  <2>3. bounty \in Nat /\ bounty <= collateral
    BY <2>2, BountyBounds
  <2> HIDE DEF collateral, bounty
  <2>4. collateral - bounty \in Nat /\ collateral - bounty <= custody
    BY <1>0, <2>1, <2>2, <2>3
  <2> QED
    BY <1>2, <2>1, <2>4
<1>5. ASSUME Liquidity PROVE VaultNext
  BY <1>5 DEF Liquidity, VaultNext
<1>6. ASSUME UNCHANGED vaultVars PROVE [VaultNext]_vaultVars
  BY <1>6
<1>7. ASSUME \/ \E id \in PositionId : AttestHealth(id)
             \/ \E keeper \in Keeper, id \in PositionId, s \in Secret :
                   InitiateLiquidation(keeper, id, s)
             \/ \E amount \in Amounts : Shield(amount) \/ Unshield(amount)
             \/ \E p \in Price, age \in 0 .. MAX_ORACLE_AGE : Publish(p, age)
             \/ Tick
             \/ UNCHANGED vars
      PROVE  UNCHANGED vaultVars
  BY <1>7 DEF AttestHealth, InitiateLiquidation, Shield, Unshield, Publish, Tick, vars
<1> QED
  BY <1>1, <1>3, <1>4, <1>5, <1>6, <1>7 DEF Next

\* The whole system implements the vault's own specification.
THEOREM SystemImplementsVault == Spec => ImplementsVault
<1>1. Init => VaultInit
  BY DEF Init
<1>2. PMInv /\ [Next]_vars => [VaultNext]_vaultVars
  BY StepIsVaultStep
<1> QED
  BY PMAlways, <1>1, <1>2, PTL DEF Spec, ImplementsVault, VaultSpec

\* A position is seized only when its owner has been silent past the grace
\* period and the claim on it was made before.
THEOREM SeizureIsDue == Spec => SeizedOnlyInSilence
<1> DEFINE Due == \A id \in liquidated' \ liquidated :
                      positions[id].healthAge > GracePeriod /\ escrow[id] # {}
<1>1. ASSUME PMInv, [Next]_vars PROVE Due
  <2>1. ASSUME NEW keeper \in Keeper, NEW id \in PositionId, NEW s \in Secret,
               RevealAndSeize(keeper, id, s)
        PROVE  Due
    <3>1. /\ liquidated' = liquidated \cup {id} /\ escrow[id] # {}
          /\ silence[id] > GracePeriod /\ positions[id] # NoPosition
      BY <2>1 DEF RevealAndSeize, MarkPositionSeized, Engine!RedeemClaim, Engine!IsStale
    <3>2. silence[id] = positions[id].healthAge
      BY <1>1, <3>1 DEF PMInv, HeartbeatAgrees, Open
    <3> QED
      BY <3>1, <3>2
  <2>2. ASSUME liquidated' = liquidated PROVE Due
    BY <2>2
  <2>3. ASSUME \/ \E id \in PositionId, tier \in Tier, direction \in {0, 1} :
                     OpenPosition(id, tier, direction)
               \/ \E id \in PositionId : AttestHealth(id)
               \/ \E id \in PositionId, fee \in Fee : ClosePosition(id, fee)
               \/ \E keeper \in Keeper, id \in PositionId, s \in Secret :
                     InitiateLiquidation(keeper, id, s)
               \/ \E amount \in Amounts : Shield(amount) \/ Unshield(amount)
               \/ Liquidity
               \/ \E p \in Price, age \in 0 .. MAX_ORACLE_AGE : Publish(p, age)
               \/ Tick
               \/ UNCHANGED vars
        PROVE  liquidated' = liquidated
    BY <2>3 DEF OpenPosition, AttestHealth, ClosePosition, InitiateLiquidation,
                Engine!InitiateLiquidation, Shield, Unshield, Liquidity, Publish, Tick,
                Engine!EngineTick, vars
  <2> QED
    BY <1>1, <2>1, <2>2, <2>3 DEF Next
<1> QED
  BY PMAlways, <1>1, PTL DEF Spec, SeizedOnlyInSilence
=============================================================================
