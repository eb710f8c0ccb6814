------------------------------ MODULE PriceFeed ------------------------------
(***************************************************************************)
(* Where the price that positions are judged by comes from: the publisher  *)
(* (scripts/push_price.mjs) asks the market, rebases what it hears on an   *)
(* anchor it keeps in a file, and sets the oracle's price; the position    *)
(* manager and the oracle adapter refuse a price that is too old.  The     *)
(* publisher's timer does not wait for a tick that still waits for the     *)
(* market, so ticks overlap and share the last price.                      *)
(***************************************************************************)
EXTENDS Integers

CONSTANTS
    MarketPrice,            \* what the market may be at
    START_PRICE, SCALE, STEP_BPS, BPS,
    SANE_MAX,               \* rebase's upper bound
    FIELD_64_LIMIT,         \* the position manager's
    Fixed,                  \* --fixed
    PRICE_INTERVAL, MAX_ORACLE_AGE,
    Tick,                   \* bound: ticks under way at once
    MaxFaults,              \* bound: publications that fail, time spent waiting or down
    None

VARIABLES
    market,
    file,                   \* ANCHOR_FILE
    proc,                   \* the publisher: mode, anchor, last price
    tick, timer,            \* its ticks, and the time to the next (None before the first ends)
    oracle,                 \* the record, its timestamp as an age
    anchored,               \* ghost: the first anchor there was
    failed, waited,         \* ghost: since the last publication
    faults

procVars == <<file, proc, tick, timer, anchored>>
vars == <<market, procVars, oracle, failed, waited, faults>>

MIN_PRICE == START_PRICE \div 2
MAX_PRICE == START_PRICE * 2

ASSUME PriceConstants ==
    /\ MarketPrice \subseteq Nat \ {0} /\ None \notin Nat
    /\ {START_PRICE, SCALE, BPS, Fixed, PRICE_INTERVAL, MAX_ORACLE_AGE} \subseteq Nat \ {0}
    /\ STEP_BPS \in 0 .. BPS /\ MaxFaults \in Nat
    /\ {SANE_MAX, FIELD_64_LIMIT} \subseteq Nat /\ MAX_PRICE <= SANE_MAX
    /\ Fixed < FIELD_64_LIMIT /\ SANE_MAX < FIELD_64_LIMIT

Reading == MarketPrice \cup {None}

PriceFeedTypeOK ==
    /\ market \in MarketPrice
    /\ {file, anchored} \subseteq Reading
    /\ proc \in [mode : {"down", "market", "synthetic", "fixed"}, anchor : Reading,
                 price : Nat, reading : Reading]
    /\ proc.mode = "market" => proc.anchor # None
    /\ tick \in [Tick -> [at : {"idle", "asked", "told"}, reading : Reading]]
    /\ timer \in (0 .. PRICE_INTERVAL) \cup {None}
    /\ oracle \in [price : Nat, age : Nat, reading : Reading, mode : {"market", "synthetic", "fixed"}]
    /\ {failed, waited, faults} \subseteq 0 .. MaxFaults

Down == [mode |-> "down", anchor |-> None, price |-> START_PRICE, reading |-> None]
Idle == [at |-> "idle", reading |-> None]
AllIdle == [t \in Tick |-> Idle]

\* The deployment has just published one price.
Init ==
    /\ market \in MarketPrice /\ file = None /\ anchored = None
    /\ proc = Down /\ tick = AllIdle /\ timer = None
    /\ oracle = [price |-> START_PRICE, age |-> 0, reading |-> None, mode |-> "fixed"]
    /\ failed = 0 /\ waited = 0 /\ faults = 0

Fault == faults < MaxFaults /\ faults' = faults + 1

-----------------------------------------------------------------------------
(* Arithmetic.                                                             *)

\* None when rebase throws.
Rebase(now, anchor) ==
    LET price == (START_PRICE * ((now * SCALE) \div anchor)) \div SCALE
    IN  IF price \in 1 .. SANE_MAX THEN price ELSE None

\* A mutant of NextPrice: the lower rail is forgotten.
NextPriceUnrailed(current) ==
    LET delta == (current * STEP_BPS) \div BPS
    IN  {current - delta, IF current + delta > MAX_PRICE THEN MAX_PRICE ELSE current + delta}

\* Either way the coin lands.
NextPrice(current) ==
    LET delta == (current * STEP_BPS) \div BPS
        Railed(p) == IF p < MIN_PRICE THEN MIN_PRICE ELSE IF p > MAX_PRICE THEN MAX_PRICE ELSE p
    IN  {Railed(current - delta), Railed(current + delta)}

-----------------------------------------------------------------------------
(* Those who read it.                                                      *)

\* PositionManager.read_price.
ReadPrice(record) ==
    record.price > 0 /\ record.price < FIELD_64_LIMIT /\ record.age >= 0 /\ record.age <= MAX_ORACLE_AGE

\* A mutant of Evaluate: the limit itself is too old.
EvaluateStrictly(record) ==
    IF record.price <= 0 THEN "no price"
    ELSE IF record.age < 0 \/ record.age >= MAX_ORACLE_AGE THEN "stale" ELSE "price"

\* The adapter's evaluate.
Evaluate(record) ==
    IF record.price <= 0 THEN "no price"
    ELSE IF record.age < 0 \/ record.age > MAX_ORACLE_AGE THEN "stale" ELSE "price"

-----------------------------------------------------------------------------
(* The publisher.                                                          *)

Waiting == proc.mode = "down" \/ \E t \in Tick : tick[t] # Idle

\* Time that passes while the publisher is down or one of its ticks waits is
\* bounded; otherwise it passes, once the ticks that are due have begun.
TimePasses ==
    /\ timer # 0 /\ ~(timer = None /\ tick = AllIdle /\ proc.mode # "down")
    /\ IF Waiting THEN Fault /\ waited' = waited + 1 ELSE UNCHANGED <<faults, waited>>
    /\ timer' = IF timer = None THEN None ELSE timer - 1
    /\ oracle' = [oracle EXCEPT !.age = @ + 1]
    /\ UNCHANGED <<market, file, proc, tick, anchored, failed>>

MarketMoves ==
    /\ market' \in MarketPrice \ {market}
    /\ UNCHANGED <<procVars, oracle, failed, waited, faults>>

\* A mutant of StartMarket: the anchor in the file is not looked at.
StartMarketAnew ==
    /\ proc.mode = "down"
    /\ file' = market
    /\ anchored' = IF anchored = None THEN market ELSE anchored
    /\ proc' = [Down EXCEPT !.mode = "market", !.anchor = file']
    /\ UNCHANGED <<market, tick, timer, oracle, failed, waited, faults>>

\* The market answers at startup; the anchor is the file's, or is written now.
StartMarket ==
    /\ proc.mode = "down"
    /\ file' = IF file = None THEN market ELSE file
    /\ anchored' = IF anchored = None THEN market ELSE anchored
    /\ proc' = [Down EXCEPT !.mode = "market", !.anchor = file']
    /\ UNCHANGED <<market, tick, timer, oracle, failed, waited, faults>>

\* --synthetic, or the market does not answer at startup; and --fixed.
StartOther ==
    /\ proc.mode = "down"
    /\ proc' \in {[Down EXCEPT !.mode = "synthetic"], [Down EXCEPT !.mode = "fixed", !.price = Fixed]}
    /\ UNCHANGED <<market, file, tick, timer, oracle, anchored, failed, waited, faults>>

Stop ==
    /\ proc.mode # "down" /\ Fault
    /\ proc' = Down /\ tick' = AllIdle /\ timer' = None
    /\ UNCHANGED <<market, file, oracle, anchored, failed, waited>>

\* The first tick at startup, the others when the timer fires.
Due == proc.mode # "down" /\ (timer = 0 \/ (timer = None /\ tick = AllIdle))

\* set_price, with the ledger's time; or it fails and the publisher goes on.
Publish(price, reading) ==
    \/ /\ oracle' = [price |-> price, age |-> 0, reading |-> reading, mode |-> proc.mode]
       /\ failed' = 0 /\ waited' = 0 /\ UNCHANGED faults
    \/ /\ Fault /\ failed' = failed + 1
       /\ UNCHANGED <<oracle, waited>>

\* setInterval comes after the first tick.
Armed == timer' = IF timer = None THEN PRICE_INTERVAL ELSE timer

FirstIdle(t) == t = CHOOSE u \in Tick : tick[u] = Idle

BeginTick(t) ==
    /\ Due /\ proc.mode = "market"
    /\ tick[t] = Idle /\ FirstIdle(t)
    /\ tick' = [tick EXCEPT ![t].at = "asked"]
    /\ timer' = IF timer = 0 THEN PRICE_INTERVAL ELSE timer
    /\ UNCHANGED <<market, file, proc, oracle, anchored, failed, waited, faults>>

\* Without a market to ask a tick is one step.
TickAtOnce ==
    /\ Due /\ proc.mode # "market"
    /\ Publish(proc.price, None)
    /\ timer' = PRICE_INTERVAL
    /\ \E price \in IF proc.mode = "synthetic" THEN NextPrice(proc.price) ELSE {proc.price} :
          proc' = [proc EXCEPT !.price = price]
    /\ UNCHANGED <<market, file, tick, anchored>>

\* The market answers; the answer is on its way.
MarketAnswers(t) ==
    /\ tick[t].at = "asked"
    /\ tick' = [tick EXCEPT ![t] = [at |-> "told", reading |-> market]]
    /\ UNCHANGED <<market, file, proc, timer, oracle, anchored, failed, waited, faults>>

\* The reading is rebased and published; one that cannot be leaves the last price.
TickTracks(t) ==
    /\ tick[t].at = "told"
    /\ LET price == Rebase(tick[t].reading, proc.anchor)
           next == IF price = None THEN proc ELSE [proc EXCEPT !.price = price, !.reading = tick[t].reading]
       IN  proc' = next /\ Publish(next.price, next.reading)
    /\ tick' = [tick EXCEPT ![t] = Idle] /\ Armed
    /\ UNCHANGED <<market, file, anchored>>

\* A mutant of TickRepublishes: nothing to say, nothing published.
TickRepublishesNot(t) ==
    /\ tick[t].at = "asked"
    /\ tick' = [tick EXCEPT ![t] = Idle] /\ Armed
    /\ UNCHANGED <<market, file, proc, oracle, anchored, failed, waited, faults>>

\* The market does not answer: the last price is published again.
TickRepublishes(t) ==
    /\ tick[t].at = "asked"
    /\ Publish(proc.price, proc.reading)
    /\ tick' = [tick EXCEPT ![t] = Idle] /\ Armed
    /\ UNCHANGED <<market, file, proc, anchored>>

Next ==
    \/ TimePasses \/ MarketMoves
    \/ StartMarket \/ StartOther \/ Stop \/ TickAtOnce
    \/ \E t \in Tick : BeginTick(t) \/ MarketAnswers(t) \/ TickTracks(t) \/ TickRepublishes(t)

Spec == Init /\ [][Next]_vars

-----------------------------------------------------------------------------
(* Properties.                                                             *)

\* The price is only as old as the publications that failed and the time the
\* publisher waited or was down account for: a read of the market that fails costs
\* nothing, the last price is published again (push_price.mjs: "a silent gap takes
\* the whole vertical down").  One that hangs is waited for, and nothing bounds that:
\* the request has no time-out.  And the adapter serves a price when and only when
\* the contract would act on it.
StaleOnlyInSilence ==
    /\ PriceFeedTypeOK
    /\ oracle.age <= PRICE_INTERVAL * (1 + failed) + waited
    /\ Evaluate(oracle) = "price" <=> ReadPrice(oracle)

\* Through restarts, failures and ticks that overlap, a mark that comes from a
\* reading is the market's movement since the first anchor, so two such marks differ
\* as the market did, whatever restarted in between.  One that comes from none is the
\* starting price, also in market mode (a publisher that has read nothing yet), the
\* operator's price, or inside the walk's rails.
MarkKeepsAnchor ==
    IF oracle.reading # None THEN oracle.price = Rebase(oracle.reading, anchored)
    ELSE CASE oracle.mode = "market"    -> oracle.price = START_PRICE
           [] oracle.mode = "synthetic" -> oracle.price \in MIN_PRICE .. MAX_PRICE
           [] OTHER                     -> oracle.price \in {START_PRICE, Fixed}
=============================================================================
