--------------------------- MODULE PriceFeed_proofs ---------------------------
(***************************************************************************)
(* The mark keeps to its anchor, for every market, scale, step and timing; *)
(* and what the wallet shows at a price is what the contract and the       *)
(* health circuit do with it, in every unit of money.                      *)
(***************************************************************************)
EXTENDS PriceFeed, Trading, TLAPS

(* What the wallet shows for a position.                                   *)

\* Rounding up: a whole number reaches CeilDiv(a, b) when b times it reaches a.
LEMMA CeilDivReaches ==
    ASSUME NEW a \in Int, NEW b \in Nat \ {0}
    PROVE  /\ CeilDiv(a, b) \in Int
           /\ \A q \in Int : q >= CeilDiv(a, b) <=> b * q >= a
BY DEF CeilDiv

\* Rounding down: a whole number is within a \div b when b times it is within a.
LEMMA DivWithin ==
    ASSUME NEW a \in Int, NEW b \in Nat \ {0}
    PROVE  /\ a \div b \in Int
           /\ \A q \in Int : q <= a \div b <=> b * q <= a
OBVIOUS

\* An amount of stroops in units: whole, and more when there are ten million
\* stroops more.
LEMMA StroopsGrow ==
    ASSUME NEW a \in Nat, NEW b \in Nat, b >= a + 10000000
    PROVE  Stroops(a) \in Nat /\ Stroops(b) > Stroops(a)
<1>1. StroopsPerUnit \in Nat \ {0} /\ StroopsPerUnit <= 10000000
  BY SMT, UnitAssumption
<1> DEFINE U == StroopsPerUnit
           q == a \div U
<1>2. q \in Int /\ U * q <= a
  BY SMT, <1>1, DivWithin
<1>3. 0 <= q
  BY SMT, <1>1, DivWithin
<1>4. U * (q + 1) = U * q + U
  BY SMT, <1>1, <1>2
<1>5. U * (q + 1) <= b
  BY SMT, <1>1, <1>2, <1>4
<1>6. b \div U \in Int /\ q + 1 <= b \div U
  BY SMT, <1>1, <1>2, <1>5, DivWithin
<1> QED
  BY SMT, <1>2, <1>3, <1>6 DEF Stroops

\* The tables of both tiers: whole amounts, and something to win in each.
LEMMA TierAmounts ==
    ASSUME NEW id \in {0, 1}
    PROVE  /\ TierMargin(id) \in Nat \ {0} /\ TierMaxPayout(id) \in Nat
           /\ TierMaxPayout(id) > TierMargin(id)
           /\ TierSize(id) \in {30, 150}
           /\ GetTier(id) = [margin |-> TierMargin(id), size |-> TierSize(id),
                             maxPayout |-> TierMaxPayout(id)]
<1>1. /\ Stroops(0) \in Nat /\ Stroops(100000000) > Stroops(0)
      /\ Stroops(100000000) \in Nat /\ Stroops(500000000) > Stroops(100000000)
  BY SMT, StroopsGrow
<1>2. /\ Stroops(300000000) \in Nat /\ Stroops(300000000) > Stroops(100000000)
      /\ Stroops(1500000000) > Stroops(500000000)
  BY SMT, StroopsGrow
<1>3. Stroops(500000000) \in Nat /\ Stroops(1500000000) \in Nat
  BY SMT, StroopsGrow
<1> QED
  BY SMT, <1>1, <1>2, <1>3 DEF TierMargin, TierMaxPayout, TierSize, GetTier

\* What a close pays is what was quoted, and the tier's reserve covers it
\* (settlement_payout of the contract, settlementPayout of the wallet).
THEOREM PayoutsAreQuoted ==
    ASSUME NEW id \in {0, 1}, NEW direction \in {Short, Long},
           NEW entryPrice \in Nat, NEW price \in Nat
    PROVE  PayoutIsQuoted(id, direction, entryPrice, price)
<1>1. SettlementPayout(GetTier(id), direction, entryPrice, price)
          = ContractPayout(id, direction, entryPrice, price)
  BY SMT, TierAmounts DEF ContractPayout, SettlementPayout
<1>2. TierSize(id) * (price - entryPrice) \in Int
      /\ TierSize(id) * (entryPrice - price) \in Int
  BY SMT, TierAmounts
<1>3. ContractPayout(id, direction, entryPrice, price) \in 0 .. TierMaxPayout(id)
  BY SMT, TierAmounts, <1>2 DEF ContractPayout
<1> QED
  BY SMT, TierAmounts, <1>1, <1>3 DEF PayoutIsQuoted, TierReserve

\* The liquidation price the wallet shows is exact although it is rounded: at
\* it the owner can still prove health to the circuit, one step further not,
\* and where none is shown health can be proved at every price
\* (liquidationPrice, position_health).
THEOREM HealthIsQuotedExactly ==
    ASSUME NEW id \in {0, 1}, NEW direction \in {Short, Long},
           NEW entryPrice \in Nat, NEW price \in Nat
    PROVE  HealthIsQuoted(id, direction, entryPrice, price)
<1> DEFINE m    == TierMargin(id)
           size == TierSize(id)
           tier == GetTier(id)
           last == LiquidationPrice(tier, direction, entryPrice)
<1>1. /\ m \in Nat \ {0} /\ size \in {30, 150}
      /\ tier.margin = m /\ tier.size = size
  BY SMT, TierAmounts
<1> HIDE DEF m, size, tier
<1>2. size * entryPrice \in Nat /\ size * price \in Nat
  BY SMT, <1>1
<1>3. Healthy(tier, direction, entryPrice, price)
          <=> AboveMaintenance(tier.margin, tier.size, direction, entryPrice, price,
                               HEALTH_THRESHOLD)
  <2>1. CASE size = 30
    BY SMT, <1>1, <2>1 DEF Healthy, EquityAt, AboveMaintenance, HEALTH_SCALE,
        HEALTH_THRESHOLD, Long, Short
  <2>2. CASE size = 150
    BY SMT, <1>1, <2>2 DEF Healthy, EquityAt, AboveMaintenance, HEALTH_SCALE,
        HEALTH_THRESHOLD, Long, Short
  <2> QED
    BY SMT, <1>1, <2>1, <2>2
<1>4. Healthy(tier, direction, entryPrice, price)
          <=> last = NoPrice \/ ~Beyond(direction, price, last)
  <2>1. CASE direction = Long
    <3> DEFINE numerator == 10000 * size * entryPrice - 10000 * m
    <3>1. numerator \in Int
      BY SMT, <1>1
    <3>2. Healthy(tier, direction, entryPrice, price)
              <=> (9500 * size) * price >= numerator
      BY SMT, <1>1, <2>1 DEF Healthy, EquityAt, HEALTH_SCALE, HEALTH_THRESHOLD, Long
    <3>3. last = IF numerator <= 0 THEN NoPrice ELSE CeilDiv(numerator, 9500 * size)
      BY SMT, <1>1, <2>1 DEF LiquidationPrice, HEALTH_SCALE, HEALTH_THRESHOLD, Long
    <3> HIDE DEF numerator, last
    <3>4. CASE numerator <= 0
      BY SMT, <1>1, <3>1, <3>2, <3>3, <3>4
    <3>5. CASE numerator > 0
      <4> DEFINE b == 9500 * size
      <4>1. b \in Nat \ {0}
        BY SMT, <1>1
      <4> HIDE DEF b
      <4>2. /\ CeilDiv(numerator, b) \in Int
            /\ \A q \in Int : q >= CeilDiv(numerator, b) <=> b * q >= numerator
        BY <3>1, <4>1, CeilDivReaches
      <4>3. last = CeilDiv(numerator, b)
        BY SMT, <3>1, <3>3, <3>5 DEF b
      <4>4. last \in Int /\ (price >= last <=> b * price >= numerator)
        BY SMT, <4>2, <4>3
      <4>5. last # NoPrice
        <5>1. ~(b * (-1) >= numerator)
          BY SMT, <3>1, <3>5, <4>1
        <5> QED
          BY SMT, <4>2, <4>3, <5>1 DEF NoPrice
      <4> QED
        BY SMT, <2>1, <3>2, <4>4, <4>5 DEF Beyond, b
    <3> QED
      BY SMT, <3>1, <3>4, <3>5
  <2>2. CASE direction = Short
    <3> DEFINE numerator == 10000 * size * entryPrice + 10000 * m
    <3>1. numerator \in Nat
      BY SMT, <1>1
    <3>2. Healthy(tier, direction, entryPrice, price)
              <=> (10500 * size) * price <= numerator
      BY SMT, <1>1, <2>2 DEF Healthy, EquityAt, HEALTH_SCALE, HEALTH_THRESHOLD, Long, Short
    <3>3. last = numerator \div (10500 * size)
      BY SMT, <1>1, <2>2 DEF LiquidationPrice, HEALTH_SCALE, HEALTH_THRESHOLD, Long, Short
    <3> HIDE DEF numerator, last
    <3>4. last \in Int /\ (price <= last <=> (10500 * size) * price <= numerator)
      BY SMT, <1>1, <3>1, <3>3, DivWithin
    <3>5. last # NoPrice
      BY SMT, <1>1, <3>1, <3>3, DivWithin DEF NoPrice
    <3> QED
      BY SMT, <2>2, <3>2, <3>4, <3>5 DEF Beyond, Long, Short
  <2> QED
    BY SMT, <2>1, <2>2
<1> QED
  BY SMT, <1>1, <1>3, <1>4 DEF HealthIsQuoted, m, size, tier

\* The knock-out and the wipe-out price the wallet shows are where the payout
\* reaches the tier's cap and where it reaches nothing (priceBounds,
\* settlement_payout).
THEOREM BoundsAreExact ==
    ASSUME NEW id \in {0, 1}, NEW direction \in {Short, Long},
           NEW entryPrice \in Nat, NEW price \in Nat
    PROVE  BoundsAreQuoted(id, direction, entryPrice, price)
<1> DEFINE m    == TierMargin(id)
           max  == TierMaxPayout(id)
           size == TierSize(id)
           gain == IF direction = Long THEN price - entryPrice ELSE entryPrice - price
           up   == CeilDiv(max - m, size)
           down == CeilDiv(m, size)
<1>1. m \in Nat \ {0} /\ max \in Nat /\ max > m /\ size \in {30, 150}
  BY SMT, TierAmounts
<1>2. GetTier(id) = [margin |-> m, size |-> size, maxPayout |-> max]
  BY SMT, TierAmounts
<1>3. gain \in Int
  OBVIOUS
<1>4. ContractPayout(id, direction, entryPrice, price)
          = IF m + size * gain < 0 THEN 0 ELSE IF m + size * gain > max THEN max
                                               ELSE m + size * gain
  BY SMT DEF ContractPayout
<1>5. PriceBounds(GetTier(id), direction, entryPrice)
          = IF direction = Long
            THEN [knockOut |-> entryPrice + up, wipeOut |-> entryPrice - down]
            ELSE [knockOut |-> entryPrice - up, wipeOut |-> entryPrice + down]
  BY SMT, <1>2 DEF PriceBounds
<1> HIDE DEF m, max, size, gain
<1>6. up \in Int /\ (gain >= up <=> size * gain >= max - m)
  <2>1. max - m \in Int /\ size \in Nat \ {0}
    BY SMT, <1>1
  <2>2. /\ up \in Int
        /\ \A q \in Int : q >= up <=> size * q >= max - m
    BY <2>1, CeilDivReaches
  <2> QED
    BY <1>3, <2>2
<1>7. down \in Int /\ (-gain >= down <=> size * (-gain) >= m)
  <2>1. m \in Int /\ size \in Nat \ {0}
    BY SMT, <1>1
  <2>2. /\ down \in Int
        /\ \A q \in Int : q >= down <=> size * q >= m
    BY <2>1, CeilDivReaches
  <2>3. -gain \in Int
    BY SMT, <1>3
  <2> QED
    BY <2>2, <2>3
<1> HIDE DEF up, down
<1>8. ContractPayout(id, direction, entryPrice, price) = max <=> gain >= up
  BY SMT, <1>1, <1>3, <1>4, <1>6
<1>9. ContractPayout(id, direction, entryPrice, price) = 0 <=> -gain >= down
  BY SMT, <1>1, <1>3, <1>4, <1>7
<1>10. CASE direction = Long
  BY SMT, <1>5, <1>6, <1>7, <1>8, <1>9, <1>10 DEF BoundsAreQuoted, Beyond, Long, Short, max, gain
<1>11. CASE direction = Short
  BY SMT, <1>5, <1>6, <1>7, <1>8, <1>9, <1>11 DEF BoundsAreQuoted, Beyond, Long, Short, max, gain
<1> QED
  BY SMT, <1>10, <1>11

-----------------------------------------------------------------------------
(* The price feed.                                                         *)

Modes == {"market", "synthetic", "fixed"}

FeedTypes ==
    /\ market \in MarketPrice
    /\ {file, anchored} \subseteq Reading
    /\ proc \in [mode : Modes \cup {"down"}, anchor : Reading, price : Nat, reading : Reading]
    /\ tick \in [Tick -> [at : {"idle", "asked", "told"}, reading : Reading]]
    /\ oracle \in [price : Nat, age : Nat, reading : Reading, mode : Modes]

\* One anchor: the file's, the publisher's and the first are the same.
OneAnchor ==
    /\ file = anchored
    /\ proc.mode = "market" => proc.anchor # None /\ proc.anchor = anchored
    /\ \A t \in Tick : tick[t].at # "idle" => proc.mode = "market"
    /\ \A t \in Tick : tick[t].at = "told" => tick[t].reading # None

\* What a price with that reading, published in that mode, may be.
Marked(price, reading, mode) ==
    IF reading # None THEN anchored # None /\ price = Rebase(reading, anchored)
    ELSE CASE mode = "market"    -> price = START_PRICE
           [] mode = "synthetic" -> price \in MIN_PRICE .. MAX_PRICE
           [] OTHER              -> price \in {START_PRICE, Fixed}

\* The last price is one, and so is the oracle's; only the market is read.
Marks ==
    /\ proc.mode # "down" => Marked(proc.price, proc.reading, proc.mode)
    /\ proc.mode # "market" => proc.reading = None
    /\ Marked(oracle.price, oracle.reading, oracle.mode)

FeedInv == FeedTypes /\ OneAnchor /\ Marks

USE PriceConstants

\* The rails of the walk lie around the starting price.
LEMMA RailsOrdered ==
    MIN_PRICE \in Nat /\ MAX_PRICE \in Nat /\ START_PRICE \in MIN_PRICE .. MAX_PRICE
BY SMT DEF MIN_PRICE, MAX_PRICE

\* nextPrice stays between the rails from wherever it starts.
LEMMA WalkIsRailed ==
    ASSUME NEW current \in Nat
    PROVE  NextPrice(current) \subseteq MIN_PRICE .. MAX_PRICE
<1> DEFINE delta == (current * STEP_BPS) \div BPS
<1>1. delta \in Int
  <2>1. current * STEP_BPS \in Int  OBVIOUS
  <2> QED  BY <2>1
<1> HIDE DEF delta
<1> DEFINE Railed(p) == IF p < MIN_PRICE THEN MIN_PRICE ELSE IF p > MAX_PRICE THEN MAX_PRICE ELSE p
<1>2. \A p \in Int : Railed(p) \in MIN_PRICE .. MAX_PRICE
  BY RailsOrdered, SMT
<1>3. NextPrice(current) = {Railed(current - delta), Railed(current + delta)}
  BY Zenon DEF NextPrice, delta
<1>4. current - delta \in Int /\ current + delta \in Int
  BY <1>1
<1> HIDE DEF Railed
<1> QED  BY <1>2, <1>3, <1>4, Zenon

\* rebase throws or returns a price in its range.
LEMMA RebaseRange ==
    ASSUME NEW now, NEW anchor, Rebase(now, anchor) # None
    PROVE  Rebase(now, anchor) \in 1 .. SANE_MAX
BY SMT DEF Rebase

\* The first state has one anchor and a mark that obeys it.
LEMMA InitFeed == Init => FeedInv
<1> SUFFICES ASSUME Init PROVE FeedInv  OBVIOUS
<1>1. FeedTypes
  BY RailsOrdered, SMT DEF Init, FeedTypes, Reading, Modes, Down, Idle, AllIdle
<1>2. OneAnchor
  BY SMT DEF Init, OneAnchor, Down, Idle, AllIdle
<1>3. Marks
  BY SMT DEF Init, Marks, Marked, Down
<1> QED  BY <1>1, <1>2, <1>3 DEF FeedInv

\* A publication sets a mark or leaves the old one; the anchor does not move.
LEMMA PublishKeeps ==
    ASSUME FeedInv, proc.mode \in Modes,
           NEW price \in Nat, NEW reading \in Reading,
           Marked(price, reading, proc.mode), Publish(price, reading)
    PROVE  /\ oracle' \in [price : Nat, age : Nat, reading : Reading, mode : Modes]
           /\ Marked(oracle'.price, oracle'.reading, oracle'.mode)
<1>1. CASE oracle' = [price |-> price, age |-> 0, reading |-> reading, mode |-> proc.mode]
  BY <1>1
<1>2. CASE UNCHANGED oracle
  BY <1>2 DEF FeedInv, FeedTypes, Marks
<1> QED  BY <1>1, <1>2 DEF Publish

\* What the oracle says stays a mark while nothing is published.
LEMMA MarkStands ==
    ASSUME FeedInv, anchored # None => anchored' = anchored,
           oracle' = oracle \/ oracle' = [oracle EXCEPT !.age = @ + 1]
    PROVE  /\ oracle' \in [price : Nat, age : Nat, reading : Reading, mode : Modes]
           /\ Marked(oracle.price, oracle.reading, oracle.mode)'
<1>1. /\ oracle' \in [price : Nat, age : Nat, reading : Reading, mode : Modes]
      /\ oracle'.price = oracle.price /\ oracle'.reading = oracle.reading
      /\ oracle'.mode = oracle.mode
  BY SMT DEF FeedInv, FeedTypes
<1>2. Marked(oracle.price, oracle.reading, oracle.mode)
  BY DEF FeedInv, Marks
<1> QED  BY <1>1, <1>2, Zenon DEF Marked

\* Every step keeps them, overlapping ticks and restarts included.
LEMMA NextFeed == FeedInv /\ [Next]_vars => FeedInv'
<1> SUFFICES ASSUME FeedInv, [Next]_vars PROVE FeedInv'  OBVIOUS
<1> USE DEF FeedInv
<1>1. CASE TimePasses
  <2>1. oracle' = [oracle EXCEPT !.age = @ + 1] /\ UNCHANGED <<market, file, proc, tick, anchored>>
    BY <1>1 DEF TimePasses
  <2>2. FeedTypes'  BY <2>1, MarkStands DEF FeedTypes
  <2>3. OneAnchor'  BY <2>1 DEF OneAnchor
  <2>4. Marks'  BY <2>1, MarkStands, Zenon DEF Marks, Marked
  <2> QED  BY <2>2, <2>3, <2>4
<1>2. CASE MarketMoves
  <2>1. market' \in MarketPrice /\ UNCHANGED <<file, proc, tick, anchored, oracle>>
    BY <1>2 DEF MarketMoves, procVars
  <2>2. FeedTypes'  BY <2>1 DEF FeedTypes
  <2>3. OneAnchor'  BY <2>1 DEF OneAnchor
  <2>4. Marks'  BY <2>1, Zenon DEF Marks, Marked
  <2> QED  BY <2>2, <2>3, <2>4
<1>3. CASE StartMarket
  <2>1. /\ proc.mode = "down" /\ UNCHANGED <<market, tick, oracle>>
        /\ anchored' = IF anchored = None THEN market ELSE anchored
        /\ file' = anchored' /\ anchored' \in MarketPrice
        /\ proc' \in [mode : Modes \cup {"down"}, anchor : Reading, price : Nat, reading : Reading]
        /\ proc'.mode = "market" /\ proc'.anchor = anchored'
        /\ proc'.price = START_PRICE /\ proc'.reading = None
    <3>1. /\ proc.mode = "down" /\ UNCHANGED <<market, tick, oracle>>
          /\ anchored' = IF anchored = None THEN market ELSE anchored
          /\ file' = IF file = None THEN market ELSE file
          /\ proc' = [Down EXCEPT !.mode = "market", !.anchor = file']
      BY <1>3, Zenon DEF StartMarket
    <3>2. file' = anchored' /\ anchored' \in MarketPrice
      BY <3>1 DEF OneAnchor, FeedTypes, Reading
    <3>3. /\ Down \in [mode : Modes \cup {"down"}, anchor : Reading, price : Nat, reading : Reading]
          /\ Down.price = START_PRICE /\ Down.reading = None
      BY RailsOrdered DEF Down, Modes, Reading
    <3> QED  BY <3>1, <3>2, <3>3 DEF Modes, Reading
  <2>2. anchored' # None  BY <2>1
  <2>3. FeedTypes'  BY <2>1, RailsOrdered DEF FeedTypes, Reading, Modes
  <2>4. OneAnchor'  BY <2>1, <2>2 DEF OneAnchor
  <2>5. Marked(oracle.price, oracle.reading, oracle.mode)'
    BY <2>1, MarkStands
  <2>6. Marked(proc.price, proc.reading, proc.mode)'
    BY <2>1 DEF Marked
  <2> QED  BY <2>1, <2>3, <2>4, <2>5, <2>6 DEF Marks
<1>4. CASE StartOther
  <2>1. /\ proc.mode = "down" /\ UNCHANGED <<market, file, tick, oracle, anchored>>
        /\ proc' \in {[mode |-> "synthetic", anchor |-> None, price |-> START_PRICE, reading |-> None],
                      [mode |-> "fixed", anchor |-> None, price |-> Fixed, reading |-> None]}
    BY <1>4 DEF StartOther, Down
  <2>2. FeedTypes'  BY <2>1, RailsOrdered DEF FeedTypes, Reading, Modes
  <2>3. OneAnchor'  BY <2>1 DEF OneAnchor
  <2>4. Marked(oracle.price, oracle.reading, oracle.mode)'
    BY <2>1, MarkStands
  <2>5. Marked(proc.price, proc.reading, proc.mode)'
    BY <2>1, RailsOrdered DEF Marked
  <2> QED  BY <2>1, <2>2, <2>3, <2>4, <2>5 DEF Marks
<1>5. CASE Stop
  <2>1. /\ UNCHANGED <<market, file, oracle, anchored>> /\ proc' = Down
        /\ tick' = [t \in Tick |-> [at |-> "idle", reading |-> None]]
    BY <1>5 DEF Stop, AllIdle, Idle
  <2>2. FeedTypes'  BY <2>1, RailsOrdered DEF FeedTypes, Reading, Down
  <2>3. OneAnchor'  BY <2>1 DEF OneAnchor, Down
  <2>4. Marked(oracle.price, oracle.reading, oracle.mode)'
    BY <2>1, MarkStands
  <2> QED  BY <2>1, <2>2, <2>3, <2>4 DEF Marks, Down
<1>6. CASE TickAtOnce
  <2> PICK price \in IF proc.mode = "synthetic" THEN NextPrice(proc.price) ELSE {proc.price} :
              proc' = [proc EXCEPT !.price = price]
    BY <1>6 DEF TickAtOnce
  <2>1. /\ proc.mode \in {"synthetic", "fixed"} /\ Publish(proc.price, None)
        /\ UNCHANGED <<market, file, tick, anchored>>
    BY <1>6 DEF TickAtOnce, Due, FeedTypes, Modes
  <2>2. proc.price \in Nat /\ None \in Reading /\ proc.reading = None
        /\ Marked(proc.price, None, proc.mode)
    BY <2>1 DEF FeedTypes, Marks, Reading
  <2>3. /\ oracle' \in [price : Nat, age : Nat, reading : Reading, mode : Modes]
        /\ Marked(oracle'.price, oracle'.reading, oracle'.mode)
    BY <2>1, <2>2, PublishKeeps DEF Modes
  <2>4. price \in Nat /\ Marked(price, None, proc.mode)
    <3>1. CASE proc.mode = "synthetic"
      <4>1. price \in MIN_PRICE .. MAX_PRICE  BY <3>1, <2>2, WalkIsRailed
      <4> QED  BY <4>1, <3>1, RailsOrdered DEF Marked
    <3>2. CASE proc.mode # "synthetic"
      BY <3>2, <2>2
    <3> QED  BY <3>1, <3>2
  <2>5. /\ proc' \in [mode : Modes \cup {"down"}, anchor : Reading, price : Nat, reading : Reading]
        /\ proc'.mode = proc.mode /\ proc'.price = price /\ proc'.reading = None
        /\ proc'.anchor = proc.anchor
    BY <2>2, <2>4 DEF FeedTypes
  <2>6. FeedTypes'  BY <2>1, <2>3, <2>5 DEF FeedTypes
  <2>7. OneAnchor'  BY <2>1, <2>5 DEF OneAnchor
  <2>8. Marks'  BY <2>1, <2>3, <2>4, <2>5, Zenon DEF Marks, Marked
  <2> QED  BY <2>6, <2>7, <2>8
<1>7. ASSUME NEW t \in Tick, BeginTick(t) PROVE FeedInv'
  <2>1. /\ proc.mode = "market" /\ tick' = [tick EXCEPT ![t].at = "asked"]
        /\ UNCHANGED <<market, file, proc, oracle, anchored>>
    BY <1>7 DEF BeginTick
  <2>2. FeedTypes'  BY <2>1 DEF FeedTypes
  <2>3. OneAnchor'  BY <2>1 DEF OneAnchor, FeedTypes
  <2>4. Marks'  BY <2>1, Zenon DEF Marks, Marked
  <2> QED  BY <2>2, <2>3, <2>4
<1>8. ASSUME NEW t \in Tick, MarketAnswers(t) PROVE FeedInv'
  <2>1. /\ tick[t].at = "asked" /\ tick' = [tick EXCEPT ![t] = [at |-> "told", reading |-> market]]
        /\ UNCHANGED <<market, file, proc, oracle, anchored>>
    BY <1>8 DEF MarketAnswers
  <2>2. FeedTypes'  BY <2>1 DEF FeedTypes, Reading
  <2>3. OneAnchor'
    <3>1. proc.mode = "market"  BY <2>1 DEF OneAnchor
    <3>2. market # None  BY DEF FeedTypes
    <3> QED  BY <2>1, <3>1, <3>2 DEF OneAnchor, FeedTypes
  <2>4. Marks'  BY <2>1, Zenon DEF Marks, Marked
  <2> QED  BY <2>2, <2>3, <2>4
<1>9. ASSUME NEW t \in Tick, TickTracks(t) PROVE FeedInv'
  <2> DEFINE price == Rebase(tick[t].reading, proc.anchor)
             next == IF price = None THEN proc
                     ELSE [proc EXCEPT !.price = price, !.reading = tick[t].reading]
  <2>1. /\ tick[t].at = "told" /\ proc' = next /\ Publish(next.price, next.reading)
        /\ tick' = [tick EXCEPT ![t] = Idle] /\ UNCHANGED <<market, file, anchored>>
    BY <1>9 DEF TickTracks
  <2>2. proc.mode = "market" /\ tick[t].reading # None /\ tick[t].reading \in Reading
        /\ anchored # None /\ proc.anchor = anchored
    BY <2>1 DEF OneAnchor, FeedTypes
  <2>3. price # None => price \in Nat  BY RebaseRange, SMT
  <2>4. /\ next \in [mode : Modes \cup {"down"}, anchor : Reading, price : Nat, reading : Reading]
        /\ next.mode = "market" /\ next.anchor = proc.anchor
        /\ price # None => next.price = price /\ next.reading = tick[t].reading
        /\ price = None => next = proc
    <3> HIDE DEF price
    <3> QED  BY <2>2, <2>3 DEF FeedTypes
  <2>5. Marked(next.price, next.reading, "market")
    <3>1. CASE price = None  BY <3>1, <2>2, <2>4 DEF Marks
    <3>2. CASE price # None
      <4>1. next.reading # None /\ next.price = Rebase(next.reading, anchored)
        BY <3>2, <2>2, <2>4
      <4> HIDE DEF next
      <4> QED  BY <4>1, <2>2 DEF Marked
    <3> QED  BY <3>1, <3>2
  <2> HIDE DEF next
  <2>6. /\ oracle' \in [price : Nat, age : Nat, reading : Reading, mode : Modes]
        /\ Marked(oracle'.price, oracle'.reading, oracle'.mode)
    BY <2>1, <2>2, <2>4, <2>5, PublishKeeps DEF Modes
  <2>7. FeedTypes'  BY <2>1, <2>4, <2>6 DEF FeedTypes, Idle, Reading
  <2>8. OneAnchor'  BY <2>1, <2>2, <2>4 DEF OneAnchor, FeedTypes, Idle
  <2>9. Marks'
    BY <2>1, <2>4, <2>5, <2>6, Zenon DEF Marks, Marked
  <2> QED  BY <2>7, <2>8, <2>9
<1>10. ASSUME NEW t \in Tick, TickRepublishes(t) PROVE FeedInv'
  <2>1. /\ tick[t].at = "asked" /\ Publish(proc.price, proc.reading)
        /\ tick' = [tick EXCEPT ![t] = Idle] /\ UNCHANGED <<market, file, proc, anchored>>
    BY <1>10 DEF TickRepublishes
  <2>2. proc.mode = "market" /\ Marked(proc.price, proc.reading, proc.mode)
        /\ proc.price \in Nat /\ proc.reading \in Reading
    BY <2>1 DEF OneAnchor, Marks, FeedTypes
  <2>3. /\ oracle' \in [price : Nat, age : Nat, reading : Reading, mode : Modes]
        /\ Marked(oracle'.price, oracle'.reading, oracle'.mode)
    BY <2>1, <2>2, PublishKeeps DEF Modes
  <2>4. FeedTypes'  BY <2>1, <2>3 DEF FeedTypes, Idle, Reading
  <2>5. OneAnchor'  BY <2>1 DEF OneAnchor, FeedTypes, Idle
  <2>6. Marks'  BY <2>1, <2>2, <2>3, Zenon DEF Marks, Marked
  <2> QED  BY <2>4, <2>5, <2>6
<1>11. CASE UNCHANGED vars
  <2>1. UNCHANGED <<market, file, proc, tick, oracle, anchored>>
    BY <1>11 DEF vars, procVars
  <2>2. FeedTypes'  BY <2>1 DEF FeedTypes
  <2>3. OneAnchor'  BY <2>1 DEF OneAnchor
  <2>4. Marks'  BY <2>1, Zenon DEF Marks, Marked
  <2> QED  BY <2>2, <2>3, <2>4
<1> QED
  BY <1>1, <1>2, <1>3, <1>4, <1>5, <1>6, <1>7, <1>8, <1>9, <1>10, <1>11, Zenon DEF Next

\* A market price is the movement since the first anchor, any other is in the
\* walk's rails or the operator's, in every behaviour of the publisher.
THEOREM MarkIsAnchored == Spec => []MarkKeepsAnchor
<1>1. FeedInv => MarkKeepsAnchor
  BY Zenon DEF FeedInv, Marks, Marked, MarkKeepsAnchor
<1> QED  BY InitFeed, NextFeed, <1>1, PTL DEF Spec

-----------------------------------------------------------------------------
(* How old the mark may be.                                                *)

\* The age that so many failed publications in a row explain.
Allowed(n) == PRICE_INTERVAL * (1 + n)

\* Every tick has ended and the next is yet to come: the time until then.
Quiet == proc.mode # "down" /\ \A t \in Tick : tick[t] = Idle
Ahead == IF Quiet /\ timer # None THEN timer ELSE 0

SilenceInv ==
    /\ timer \in (0 .. PRICE_INTERVAL) \cup {None}
    /\ failed \in 0 .. faults /\ waited \in 0 .. faults /\ faults \in 0 .. MaxFaults
    /\ oracle.age + Ahead <= Allowed(failed) + waited

\* A publisher that is down has no timer.
DownIsOff == proc.mode = "down" => timer = None

\* One more failure buys one more interval.
LEMMA AllowedFacts ==
    /\ \A n \in Nat : Allowed(n) \in Nat /\ Allowed(n + 1) = Allowed(n) + PRICE_INTERVAL
    /\ Allowed(0) = PRICE_INTERVAL
BY SMT DEF Allowed

\* The next tick is never more than an interval away.
LEMMA AheadRange ==
    timer \in (0 .. PRICE_INTERVAL) \cup {None} => Ahead \in 0 .. PRICE_INTERVAL
BY SMT DEF Ahead

\* A publisher that is down at first owes nothing.
LEMMA InitSilence == Init => SilenceInv
<1> SUFFICES ASSUME Init PROVE SilenceInv  OBVIOUS
<1>1. /\ timer = None /\ failed = 0 /\ waited = 0 /\ faults = 0
      /\ oracle.age = 0 /\ Ahead = 0
  BY DEF Init, Ahead
<1> QED  BY <1>1, AllowedFacts, SMT DEF SilenceInv

\* Whatever publishes leaves the bound in force, with a whole interval ahead.
LEMMA PublishAges ==
    ASSUME FeedInv, SilenceInv, NEW price, NEW reading, Publish(price, reading),
           timer' \in (0 .. PRICE_INTERVAL) \cup {None}
    PROVE  SilenceInv'
<1>1. Ahead' \in 0 .. PRICE_INTERVAL
  <2>1. CASE Quiet' /\ timer' # None  BY <2>1, SMT DEF Ahead
  <2>2. CASE ~(Quiet' /\ timer' # None)  BY <2>2, SMT DEF Ahead
  <2> QED  BY <2>1, <2>2
<1>2. oracle.age \in Nat /\ Ahead \in 0 .. PRICE_INTERVAL
  BY AheadRange DEF FeedInv, FeedTypes, SilenceInv
<1>3. CASE oracle'.age = 0 /\ failed' = 0 /\ waited' = 0 /\ UNCHANGED faults
  BY <1>1, <1>3, AllowedFacts, SMT DEF SilenceInv
<1>4. CASE Fault /\ failed' = failed + 1 /\ UNCHANGED <<oracle, waited>>
  <2>1. Allowed(failed + 1) = Allowed(failed) + PRICE_INTERVAL /\ Allowed(failed) \in Nat
    BY AllowedFacts DEF SilenceInv
  <2>2. faults < MaxFaults /\ faults' = faults + 1  BY <1>4 DEF Fault
  <2> QED  BY <1>1, <1>2, <1>4, <2>1, <2>2, SMT DEF SilenceInv
<1> QED  BY <1>3, <1>4 DEF Publish

\* A step that publishes nothing and takes no time adds nothing ahead.
LEMMA SilenceStands ==
    ASSUME FeedInv, SilenceInv, UNCHANGED <<oracle, failed, waited>>,
           faults' = faults \/ Fault,
           timer' \in (0 .. PRICE_INTERVAL) \cup {None}, Ahead' \in 0 .. Ahead
    PROVE  SilenceInv'
<1>1. oracle.age \in Nat /\ Ahead \in 0 .. PRICE_INTERVAL /\ Allowed(failed) \in Nat
  BY AheadRange, AllowedFacts DEF FeedInv, FeedTypes, SilenceInv
<1>2. faults' \in 0 .. MaxFaults /\ faults' >= faults
  BY SMT DEF SilenceInv, Fault
<1> QED  BY <1>1, <1>2, SMT DEF SilenceInv

\* No step sets the timer of a publisher that is down.
LEMMA NextOff == FeedInv /\ DownIsOff /\ [Next]_vars => DownIsOff'
<1> SUFFICES ASSUME FeedInv, DownIsOff, [Next]_vars, proc'.mode = "down" PROVE timer' = None
  BY DEF DownIsOff
<1>1. CASE TimePasses  BY <1>1 DEF TimePasses, DownIsOff
<1>2. CASE MarketMoves \/ UNCHANGED vars  BY <1>2 DEF MarketMoves, procVars, vars, DownIsOff
<1>3. CASE StartMarket \/ StartOther
  BY <1>3 DEF StartMarket, StartOther, DownIsOff
<1>4. CASE Stop  BY <1>4 DEF Stop
<1>5. CASE TickAtOnce
  <2>1. proc.mode # "down"
    BY <1>5 DEF TickAtOnce, Due
  <2>2. proc'.mode = proc.mode
    BY <1>5 DEF TickAtOnce, FeedInv, FeedTypes
  <2> QED  BY <2>1, <2>2
<1>6. ASSUME NEW t \in Tick, BeginTick(t) \/ MarketAnswers(t) \/ TickTracks(t) \/ TickRepublishes(t)
      PROVE  timer' = None
  <2>1. proc.mode = "market"
    BY <1>6 DEF BeginTick, MarketAnswers, TickTracks, TickRepublishes, FeedInv, OneAnchor
  <2>2. CASE BeginTick(t) \/ MarketAnswers(t)
    BY <2>1, <2>2 DEF BeginTick, MarketAnswers, FeedInv, FeedTypes
  <2>3. CASE TickTracks(t) \/ TickRepublishes(t)
    <3>1. CASE TickTracks(t)
      BY <2>1, <3>1 DEF TickTracks, FeedInv, FeedTypes
    <3>2. CASE TickRepublishes(t)
      BY <2>1, <3>2 DEF TickRepublishes
    <3> QED  BY <2>3, <3>1, <3>2
  <2> QED  BY <1>6, <2>2, <2>3
<1> QED  BY <1>1, <1>2, <1>3, <1>4, <1>5, <1>6, Zenon DEF Next

\* Time passes only while a tick is ahead or a fault is spent on waiting.
LEMMA NextSilence == FeedInv /\ DownIsOff /\ SilenceInv /\ [Next]_vars => SilenceInv'
<1> SUFFICES ASSUME FeedInv, DownIsOff, SilenceInv, [Next]_vars PROVE SilenceInv'  OBVIOUS
<1>0. /\ oracle.age \in Nat /\ Ahead \in 0 .. PRICE_INTERVAL /\ Allowed(failed) \in Nat
      /\ timer \in (0 .. PRICE_INTERVAL) \cup {None} /\ None \notin Nat
      /\ PRICE_INTERVAL \in Nat
  BY AheadRange, AllowedFacts DEF FeedInv, FeedTypes, SilenceInv
<1>1. CASE TimePasses
  <2>1. /\ oracle' = [oracle EXCEPT !.age = @ + 1] /\ UNCHANGED <<proc, tick, failed>>
        /\ timer # 0 /\ timer' = IF timer = None THEN None ELSE timer - 1
    BY <1>1 DEF TimePasses
  <2>2. oracle'.age = oracle.age + 1
    BY <2>1 DEF FeedInv, FeedTypes
  <2>3. timer' \in (0 .. PRICE_INTERVAL) \cup {None}
    BY <1>0, <2>1, SMT
  <2>4. CASE Waiting
    <3>1. Fault /\ waited' = waited + 1  BY <1>1, <2>4 DEF TimePasses
    <3>2. ~Quiet /\ ~Quiet'  BY <2>1, <2>4 DEF Waiting, Quiet
    <3>3. Ahead = 0 /\ Ahead' = 0  BY <3>2 DEF Ahead
    <3>4. faults < MaxFaults /\ faults' = faults + 1  BY <3>1 DEF Fault
    <3> QED  BY <1>0, <2>1, <2>2, <2>3, <3>1, <3>3, <3>4, SMT DEF SilenceInv
  <2>5. CASE ~Waiting
    <3>1. UNCHANGED <<faults, waited>>  BY <1>1, <2>5 DEF TimePasses
    <3>2. Quiet /\ Quiet'  BY <2>1, <2>5 DEF Waiting, Quiet
    <3>3. timer # None
      <4>1. tick = AllIdle
        BY <3>2 DEF Quiet, AllIdle, FeedInv, FeedTypes
      <4> QED  BY <1>1, <4>1, <3>2 DEF TimePasses, Quiet
    <3>4. timer \in 1 .. PRICE_INTERVAL /\ timer' = timer - 1 /\ timer' # None
      BY <1>0, <2>1, <3>3, SMT
    <3>5. Ahead = timer /\ Ahead' = timer'  BY <3>2, <3>3, <3>4 DEF Ahead
    <3> QED  BY <1>0, <2>1, <2>2, <3>1, <3>4, <3>5, SMT DEF SilenceInv
  <2> QED  BY <2>4, <2>5
<1>2. CASE MarketMoves \/ UNCHANGED vars
  <2>1. UNCHANGED <<oracle, failed, waited, faults, timer, proc, tick>>
    BY <1>2 DEF MarketMoves, procVars, vars
  <2>2. Ahead' = Ahead  BY <2>1 DEF Ahead, Quiet
  <2> QED  BY <1>0, <2>1, <2>2, SilenceStands
<1>3. CASE StartMarket \/ StartOther
  <2>1. /\ UNCHANGED <<oracle, failed, waited, faults, timer, tick>> /\ proc.mode = "down"
    BY <1>3 DEF StartMarket, StartOther
  <2>2. timer = None  BY <2>1 DEF DownIsOff
  <2>3. Ahead' \in 0 .. Ahead  BY <1>0, <2>1, <2>2 DEF Ahead
  <2> QED  BY <1>0, <2>1, <2>3, SilenceStands
<1>4. CASE Stop
  <2>1. UNCHANGED <<oracle, failed, waited>> /\ Fault /\ timer' = None /\ proc' = Down
    BY <1>4 DEF Stop
  <2>2. Ahead' = 0  BY <2>1 DEF Ahead
  <2> QED  BY <1>0, <2>1, <2>2, SilenceStands
<1>5. CASE TickAtOnce
  <2>1. Publish(proc.price, None) /\ timer' = PRICE_INTERVAL  BY <1>5 DEF TickAtOnce
  <2> QED  BY <1>0, <2>1, PublishAges
<1>6. ASSUME NEW t \in Tick, BeginTick(t) PROVE SilenceInv'
  <2>1. /\ UNCHANGED <<oracle, failed, waited, faults, proc>>
        /\ tick' = [tick EXCEPT ![t].at = "asked"]
        /\ timer' = IF timer = 0 THEN PRICE_INTERVAL ELSE timer
    BY <1>6 DEF BeginTick
  <2>2. tick'[t] # Idle  BY <2>1 DEF Idle, FeedInv, FeedTypes
  <2>3. Ahead' = 0  BY <2>2 DEF Ahead, Quiet
  <2> QED  BY <1>0, <2>1, <2>3, SilenceStands
<1>7. ASSUME NEW t \in Tick, MarketAnswers(t) PROVE SilenceInv'
  <2>1. /\ UNCHANGED <<oracle, failed, waited, faults, proc, timer>>
        /\ tick' = [tick EXCEPT ![t] = [at |-> "told", reading |-> market]]
    BY <1>7 DEF MarketAnswers
  <2>2. tick'[t] # Idle  BY <2>1 DEF Idle, FeedInv, FeedTypes
  <2>3. Ahead' = 0  BY <2>2 DEF Ahead, Quiet
  <2> QED  BY <1>0, <2>1, <2>3, SilenceStands
<1>8. ASSUME NEW t \in Tick, TickTracks(t) \/ TickRepublishes(t) PROVE SilenceInv'
  <2>1. Armed /\ \E price, reading : Publish(price, reading)
    BY <1>8 DEF TickTracks, TickRepublishes
  <2>2. timer' \in (0 .. PRICE_INTERVAL) \cup {None}  BY <1>0, <2>1 DEF Armed
  <2> QED  BY <2>1, <2>2, PublishAges
<1> QED
  BY <1>1, <1>2, <1>3, <1>4, <1>5, <1>6, <1>7, <1>8, Zenon DEF Next

\* What the two readers make of a mark is the same: any mark is below the
\* position manager's limit.
LEMMA ReadersAgree == FeedInv => (Evaluate(oracle) = "price" <=> ReadPrice(oracle))
<1> SUFFICES ASSUME FeedInv PROVE Evaluate(oracle) = "price" <=> ReadPrice(oracle)  OBVIOUS
<1>1. oracle.price \in Nat /\ oracle.age \in Nat
  BY DEF FeedInv, FeedTypes
<1>2. oracle.price < FIELD_64_LIMIT
  <2>1. Marked(oracle.price, oracle.reading, oracle.mode)  BY DEF FeedInv, Marks
  <2>2. CASE oracle.reading # None
    <3>1. oracle.price = Rebase(oracle.reading, anchored)  BY <2>1, <2>2 DEF Marked
    <3>2. oracle.price \in 1 .. SANE_MAX  BY <1>1, <3>1, RebaseRange
    <3> QED  BY <3>2, SMT
  <2>3. CASE oracle.reading = None
    <3>1. oracle.price \in (MIN_PRICE .. MAX_PRICE) \cup {START_PRICE, Fixed}
      BY <2>1, <2>3, RailsOrdered DEF Marked
    <3> QED  BY <3>1, RailsOrdered, SMT
  <2> QED  BY <2>2, <2>3
<1> QED  BY <1>1, <1>2, SMT DEF Evaluate, ReadPrice

\* The mark is no older than failed publications and time spent waiting explain,
\* and the adapter and the contract judge it alike, at every interval and limit.
THEOREM MarkAgesInSilence == Spec => []StaleOnlyInSilence
<1>1. FeedInv /\ DownIsOff /\ SilenceInv => StaleOnlyInSilence
  <2> SUFFICES ASSUME FeedInv, SilenceInv PROVE StaleOnlyInSilence  OBVIOUS
  <2>1. PriceFeedTypeOK
    <3>1. FeedTypes /\ OneAnchor  BY DEF FeedInv
    <3>2. timer \in (0 .. PRICE_INTERVAL) \cup {None} /\ {failed, waited, faults} \subseteq 0 .. MaxFaults
      BY SMT DEF SilenceInv
    <3> QED  BY <3>1, <3>2 DEF PriceFeedTypeOK, FeedTypes, OneAnchor, Modes
  <2>2. oracle.age <= PRICE_INTERVAL * (1 + failed) + waited
    <3>1. oracle.age \in Nat /\ Ahead \in 0 .. PRICE_INTERVAL /\ Allowed(failed) \in Nat
          /\ waited \in Nat
      BY AheadRange, AllowedFacts, SMT DEF FeedInv, FeedTypes, SilenceInv
    <3>2. oracle.age + Ahead <= Allowed(failed) + waited  BY DEF SilenceInv
    <3>3. oracle.age <= Allowed(failed) + waited  BY <3>1, <3>2, SMT
    <3> QED  BY <3>3 DEF Allowed
  <2> QED  BY <2>1, <2>2, ReadersAgree DEF StaleOnlyInSilence
<1>2. Init => DownIsOff  BY DEF Init, DownIsOff
<1> QED  BY InitFeed, NextFeed, InitSilence, NextSilence, <1>2, NextOff, <1>1, PTL DEF Spec
=============================================================================
