------------------------- MODULE CounterpartyVault --------------------------
(***************************************************************************)
(* The counterparty vault (contracts/vayyl-counterparty-vault).  LPs fund  *)
(* it for shares; for every open position it sets aside the most the       *)
(* position can win beyond its margin.  The balance is the token           *)
(* contract's, so it also moves without a call to the vault.  A missing    *)
(* storage entry reads as 0, so reservations and shares are total          *)
(* functions.                                                              *)
(***************************************************************************)
EXTENDS Totals

CONSTANTS
    Lp,                 \* liquidity providers
    PositionId,
    Tier,               \* 0 .. TIER_COUNT - 1
    TierReserve,        \* tier_reserve: TIER_MAX_PAYOUT - TIER_MARGIN
    Amounts,            \* bound: what one deposit or direct transfer moves
    MaxBalance,         \* bound: the asset's supply
    MaxShares           \* bound: deposits stop at this many shares

VARIABLES
    balance,            \* the vault's balance in the token contract
    reservation,        \* DataKey::Reservation
    totalReserved,      \* DataKey::TotalReserved
    shares,             \* DataKey::Shares
    totalShares         \* DataKey::TotalShares

vaultVars == <<balance, reservation, totalReserved, shares, totalShares>>

ASSUME VaultConstants ==
    /\ IsFiniteSet(Lp) /\ IsFiniteSet(PositionId)
    /\ TierReserve \in [Tier -> Nat \ {0}]
    /\ Amounts \in SUBSET (Nat \ {0}) /\ MaxBalance \in Nat /\ MaxShares \in Nat

VaultTypeOK ==
    /\ balance \in Nat /\ totalReserved \in Nat /\ totalShares \in Nat
    /\ reservation \in [PositionId -> Nat]
    /\ shares \in [Lp -> Nat]

VaultInit ==
    /\ balance = 0 /\ totalReserved = 0 /\ totalShares = 0
    /\ reservation = [id \in PositionId |-> 0]
    /\ shares = [lp \in Lp |-> 0]

-----------------------------------------------------------------------------
(* Liquidity.                                                              *)

\* A mutant of FreeBalance: everything the vault holds.
FreeBalanceGross == balance

\* free_balance, saturating at zero.
FreeBalance == IF balance > totalReserved THEN balance - totalReserved ELSE 0

\* A mutant of MintedFor: the division rounds up.
MintedForRoundedUp(amount) ==
    IF totalShares = 0 \/ balance = 0
    THEN amount
    ELSE (amount * totalShares + balance - 1) \div balance

\* The shares a deposit is given, priced before the transfer.
MintedFor(amount) ==
    IF totalShares = 0 \/ balance = 0
    THEN amount
    ELSE (amount * totalShares) \div balance

DepositLiquidity(lp, amount) ==
    LET minted == MintedFor(amount) IN
    /\ amount > 0 /\ minted > 0
    /\ balance + amount <= MaxBalance /\ totalShares + minted <= MaxShares
    /\ balance' = balance + amount
    /\ shares' = [shares EXCEPT ![lp] = @ + minted]
    /\ totalShares' = totalShares + minted
    /\ UNCHANGED <<reservation, totalReserved>>

WithdrawLiquidity(lp, n) ==
    LET amount == (balance * n) \div totalShares IN
    /\ n > 0 /\ n <= shares[lp]
    /\ amount > 0 /\ amount <= FreeBalance
    /\ balance' = balance - amount
    /\ shares' = [shares EXCEPT ![lp] = @ - n]
    /\ totalShares' = totalShares - n
    /\ UNCHANGED <<reservation, totalReserved>>

\* Tokens sent to the vault's address, as a settlement's payout is.
Receive(amount) ==
    /\ balance + amount <= MaxBalance
    /\ balance' = balance + amount
    /\ UNCHANGED <<reservation, totalReserved, shares, totalShares>>

-----------------------------------------------------------------------------
(* Reservations, for the position manager only.                            *)

Reserve(id, tier) ==
    /\ reservation[id] = 0
    /\ TierReserve[tier] <= FreeBalance
    /\ reservation' = [reservation EXCEPT ![id] = TierReserve[tier]]
    /\ totalReserved' = totalReserved + TierReserve[tier]
    /\ UNCHANGED <<balance, shares, totalShares>>

\* A mutant of FreeReservation: the running total is not what was set aside.
FreeReservationTotal(id) ==
    /\ reservation[id] > 0
    /\ reservation' = [reservation EXCEPT ![id] = 0]
    /\ totalReserved' = totalReserved - 1

\* The accounting half of release.
FreeReservation(id) ==
    /\ reservation[id] > 0
    /\ reservation' = [reservation EXCEPT ![id] = 0]
    /\ totalReserved' = totalReserved - reservation[id]

Release(id, payout) ==
    /\ payout <= reservation[id]
    /\ FreeReservation(id)
    /\ balance' = balance - payout
    /\ UNCHANGED <<shares, totalShares>>

-----------------------------------------------------------------------------
(* The vault by itself: the manager may ask for anything.  One transaction  *)
(* of the manager's may free a reservation and pay the vault from the pool. *)

ReleaseAndReceive(id, income) ==
    /\ FreeReservation(id)
    /\ balance' = balance + income
    /\ UNCHANGED <<shares, totalShares>>

VaultNext ==
    \/ \E lp \in Lp, amount \in Amounts : DepositLiquidity(lp, amount)
    \/ \E lp \in Lp : \E n \in 1 .. shares[lp] : WithdrawLiquidity(lp, n)
    \/ \E amount \in Amounts : Receive(amount)
    \/ \E id \in PositionId, tier \in Tier : Reserve(id, tier)
    \/ \E id \in PositionId, payout \in 0 .. MaxBalance : Release(id, payout)
    \/ \E id \in PositionId, income \in 0 .. MaxBalance :
          balance + income <= MaxBalance /\ ReleaseAndReceive(id, income)

VaultSpec == VaultInit /\ [][VaultNext]_vaultVars

-----------------------------------------------------------------------------
(* Properties.                                                             *)

\* The contract's headline invariant (is_solvent): what is set aside is there,
\* whatever LPs take out and winners are paid.
Solvent == balance >= totalReserved

\* The running totals, kept because storage cannot be enumerated, never drift
\* from the entries they stand for.
TotalsAgree ==
    /\ totalReserved = Total(reservation)
    /\ totalShares = Total(shares)

\* A share is never worth less after a step than before it, unless a winner
\* was paid: no deposit, withdrawal or rounding takes from the other LPs.
SharePriceHolds ==
    [][\/ totalShares = 0
       \/ balance' * totalShares >= balance * totalShares'
       \/ /\ balance' < balance
          /\ \E id \in PositionId : reservation[id] > 0 /\ reservation'[id] = 0]_vaultVars
=============================================================================
