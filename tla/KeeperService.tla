---------------------------- MODULE KeeperService ----------------------------
(***************************************************************************)
(* The keeper (backend/keeper) against the liquidation engine.  A timer    *)
(* starts a tick every fifteen seconds, also while an earlier one still    *)
(* waits for a transaction, so ticks overlap; they share the secret store  *)
(* and the backoff map, and each await lets the others, the chain and the  *)
(* rest of the world move.  Between two awaits a tick is atomic.           *)
(***************************************************************************)
EXTENDS LiquidationEngine, Integers, FiniteSets

CONSTANTS
    Self,                   \* this keeper's address
    RivalSecret,            \* what the other keepers commit to
    Tick,                   \* bound: ticks under way at once
    TICK_SECONDS,           \* in the model's unit of time, as all durations
    FLOOR, CEILING,         \* nextCheckDelay's clamps
    None,                   \* no secret
    MaxFaults,              \* bound: failed reads, refused or late sends, crashes
    MaxRivalClaims          \* bound: claims by other keepers

VARIABLES
    tick,                   \* what each tick is doing
    cache, disk,            \* SecretStore: in memory and in its file
    wait,                   \* nextCheck, as the time left
    late,                   \* submitted transactions nobody polls for any more
    closed,                 \* positions their owner closed
    faults, rivals

storeVars == <<cache, disk>>
worldVars == <<closed, rivals>>
vars == <<engineVars, tick, storeVars, wait, late, worldVars, faults>>

ASSUME KeeperConstants ==
    /\ Self \in Keeper /\ RivalSecret \in Secret /\ None \notin Secret
    /\ {TICK_SECONDS, FLOOR, CEILING} \subseteq Nat \ {0} /\ FLOOR <= CEILING
    /\ {GracePeriod, ESCROW_TTL, MaxFaults, MaxRivalClaims} \subseteq Nat

Larger(a, b) == IF a >= b THEN a ELSE b

\* No position is left alone for longer.
LongestDelay == Larger(CEILING, TICK_SECONDS)

\* send(): what a transaction of this keeper does.
Submission == [kind : {"initiate", "reveal"}, id : PositionId, secret : Secret]

\* EngineView: four reads.
EngineView == [isStale : BOOLEAN, isLiquidated : BOOLEAN, secondsUntilStale : 0 .. GracePeriod,
               escrow : {{}} \cup {{c} : c \in Claim}]

\* lag is the time since the tick read its clock; past the longest delay it makes no
\* difference.
TickState ==
         [at : {"idle"}]
    \cup [at : {"view"}, lag : 0 .. LongestDelay, todo : SUBSET PositionId, id : PositionId,
          seen : EngineView]
    \cup [at : {"send", "poll"}, lag : 0 .. LongestDelay, todo : SUBSET PositionId, tx : Submission]

KeeperTypeOK ==
    /\ EngineTypeOK
    /\ tick \in [Tick -> TickState]
    /\ cache \in [PositionId -> Secret \cup {None}]
    /\ disk \in [PositionId -> Secret \cup {None}]
    /\ wait \in [PositionId -> 0 .. LongestDelay]
    /\ late \subseteq Submission
    /\ closed \subseteq PositionId
    /\ faults \in 0 .. MaxFaults /\ rivals \in 0 .. MaxRivalClaims

Idle == [at |-> "idle"]

\* Positions are open, and attested at that moment; the keeper has just started.
Init ==
    /\ silence = [id \in PositionId |-> 0]
    /\ escrow = [id \in PositionId |-> {}] /\ liquidated = {}
    /\ tick = [t \in Tick |-> Idle]
    /\ cache = [id \in PositionId |-> None] /\ disk = cache
    /\ wait = [id \in PositionId |-> 0]
    /\ late = {} /\ closed = {}
    /\ faults = 0 /\ rivals = 0

-----------------------------------------------------------------------------
(* The chain, the owners and the other keepers.                            *)

Fault == faults < MaxFaults /\ faults' = faults + 1

OwnerAttests ==
    /\ \E id \in PositionId \ (closed \cup liquidated) : RegisterHeartbeat(id)
    /\ UNCHANGED <<escrow, liquidated, tick, storeVars, wait, late, worldVars, faults>>

OwnerCloses ==
    /\ \E id \in PositionId \ (closed \cup liquidated) : closed' = closed \cup {id}
    /\ UNCHANGED <<engineVars, tick, storeVars, wait, late, rivals, faults>>

\* Another keeper claims, and may never be heard of again.
RivalClaims ==
    /\ rivals < MaxRivalClaims /\ rivals' = rivals + 1
    /\ \E k \in Keeper \ {Self}, id \in PositionId : InitiateLiquidation(k, id, RivalSecret)
    /\ UNCHANGED <<tick, storeVars, wait, late, closed, faults>>

\* A closed position has no record in the manager: its seizure reverts.
RivalSeizes ==
    /\ \E k \in Keeper \ {Self}, id \in PositionId \ closed : RedeemClaim(k, id, RivalSecret)
    /\ UNCHANGED <<tick, storeVars, wait, late, worldVars, faults>>

\* The ledger's clock, the keeper's and its timers go together.
TimePasses ==
    /\ EngineTick
    /\ wait' = [id \in PositionId |-> Larger(wait[id] - 1, 0)]
    /\ tick' = [t \in Tick |-> IF tick[t] = Idle THEN Idle
                               ELSE [tick[t] EXCEPT !.lag = Sooner(@ + 1, LongestDelay)]]
    /\ UNCHANGED <<storeVars, late, worldVars, faults>>

\* The engine executes a transaction of this keeper, or it reverts.
Executes(tx) ==
    \/ tx.kind = "initiate" /\ InitiateLiquidation(Self, tx.id, tx.secret)
    \/ tx.kind = "reveal" /\ tx.id \notin closed /\ RedeemClaim(Self, tx.id, tx.secret)

\* Whether it would, now: what simulation answers.
Succeeds(tx) ==
    /\ tx.id \notin liquidated /\ IsStale(tx.id)
    /\ IF tx.kind = "initiate" THEN MayClaim(Self, tx.id)
       ELSE /\ tx.id \notin closed
            /\ \E c \in escrow[tx.id] : c.keeper = Self /\ c.commitment = tx.secret

\* A transaction its sender stopped polling for lands after all, fails, or
\* expires with the minute it was valid for.
LateOutcome ==
    /\ \E tx \in late :
          /\ late' = late \ {tx}
          /\ Executes(tx) \/ UNCHANGED engineVars
    /\ UNCHANGED <<tick, storeVars, wait, worldVars, faults>>

-----------------------------------------------------------------------------
(* The secret store.                                                       *)

\* Not stored, not committed to, not under way.
Unseen(s) ==
    /\ s # RivalSecret
    /\ \A id \in PositionId : s \notin {cache[id], disk[id]} /\ \A c \in escrow[id] : c.commitment # s
    /\ \A tx \in late : tx.secret # s
    /\ \A t \in Tick : tick[t].at \in {"send", "poll"} => tick[t].tx.secret # s

\* freshSecret: which one does not matter as long as nobody has seen it.
FreshSecret == CHOOSE s \in Secret : Unseen(s)

\* The whole file is written on every change.
Flush(store) == cache' = store /\ disk' = store

\* A mutant of ClaimSecret: a new secret for each claim.
ClaimSecretAnew(id, secret) ==
    /\ secret = FreshSecret
    /\ Flush([cache EXCEPT ![id] = secret])

\* SecretStore.claim: the position's secret, created and written if it has none.
ClaimSecret(id, secret) ==
    \/ cache[id] # None /\ secret = cache[id] /\ UNCHANGED storeVars
    \/ cache[id] = None /\ secret = FreshSecret /\ Flush([cache EXCEPT ![id] = secret])

Release(id) == Flush([cache EXCEPT ![id] = None])

-----------------------------------------------------------------------------
(* A tick.                                                                 *)

At(t, at) == tick[t].at = at
Goto(t, state) == tick' = [tick EXCEPT ![t] = state]

\* nextCheck.set(id, now + delay), now being the time the tick began at.
CheckAfter(t, id, delay) == wait' = [wait EXCEPT ![id] = Larger(delay - tick[t].lag, 0)]

View(id) == [isStale |-> IsStale(id), isLiquidated |-> id \in liquidated,
             secondsUntilStale |-> SecondsUntilStale(id), escrow |-> escrow[id]]

\* The loop passes over the positions that are not due without awaiting anything
\* and sends the reads of the next one that is.
LoopOver(t, lag, todo) ==
    LET due == {id \in todo : wait[id] = 0}
    IN  \/ due = {} /\ Goto(t, Idle)
        \/ \E id \in due : Goto(t, [at |-> "view", lag |-> lag, todo |-> todo \ {id},
                                    id |-> id, seen |-> View(id)])

Onward(t) == LoopOver(t, tick[t].lag, tick[t].todo)

\* The tick reads its clock and lists the open positions; the indexer may still
\* list one that was closed or seized.  A tick that has nothing due, or whose
\* indexer is unreachable and lists nothing, is no step.
BeginTick(t) ==
    /\ At(t, "idle") /\ t = CHOOSE u \in Tick : At(u, "idle")
    /\ \E stillListed \in SUBSET (closed \cup liquidated) :
          LoopOver(t, 0, (PositionId \ (closed \cup liquidated)) \cup stillListed)
    /\ tick' # tick
    /\ UNCHANGED <<engineVars, storeVars, wait, late, worldVars, faults>>

ReadFails(t) ==
    /\ At(t, "view") /\ Fault
    /\ CheckAfter(t, tick[t].id, TICK_SECONDS)
    /\ Onward(t)
    /\ UNCHANGED <<engineVars, storeVars, late, worldVars>>

\* A mutant of NextCheckDelay: as patient with a healthy position as with any.
NextCheckDelayPatient(view) ==
    IF view.isStale /\ ~view.isLiquidated THEN FLOOR ELSE CEILING

NextCheckDelay(view) ==
    IF view.isLiquidated THEN CEILING
    ELSE IF view.isStale THEN FLOOR
    ELSE Sooner(CEILING, Larger(FLOOR, view.secondsUntilStale + 1))

\* A mutant of Decide: an expired claim is respected too.
DecideDeferring(view) ==
    IF view.isLiquidated \/ ~view.isStale THEN "skip"
    ELSE IF view.escrow = {} THEN "initiate"
    ELSE IF \E c \in view.escrow : c.keeper = Self THEN "reveal"
    ELSE "skip"

Decide(view) ==
    IF view.isLiquidated \/ ~view.isStale THEN "skip"
    ELSE IF view.escrow = {} THEN "initiate"
    ELSE IF \E c \in view.escrow : c.keeper = Self THEN "reveal"
    ELSE IF \E c \in view.escrow : c.age < ESCROW_TTL THEN "skip"
    ELSE "initiate"

\* The reads are no snapshot: each answers as of its own moment.
Answers(t) ==
    LET early == tick[t].seen
        now   == View(tick[t].id)
    IN  {[f \in DOMAIN early |-> IF f \in newer THEN now[f] ELSE early[f]] :
            newer \in SUBSET DOMAIN early}

\* What the tick does with a view, up to its next await.
Act(t, id, view) ==
    \/ /\ Decide(view) = "skip"
       /\ IF view.isLiquidated THEN Release(id) ELSE UNCHANGED storeVars
       /\ Onward(t)
    \/ /\ Decide(view) = "initiate"
       /\ \E secret \in Secret :
             /\ ClaimSecret(id, secret)
             /\ Goto(t, [at |-> "send", lag |-> tick[t].lag, todo |-> tick[t].todo,
                         tx |-> [kind |-> "initiate", id |-> id, secret |-> secret]])
    \/ /\ Decide(view) = "reveal" /\ cache[id] = None      \* the secret is missing
       /\ Onward(t) /\ UNCHANGED storeVars
    \/ /\ Decide(view) = "reveal" /\ cache[id] # None
       /\ Goto(t, [at |-> "send", lag |-> tick[t].lag, todo |-> tick[t].todo,
                   tx |-> [kind |-> "reveal", id |-> id, secret |-> cache[id]]])
       /\ UNCHANGED storeVars

Decided(t) ==
    /\ At(t, "view")
    /\ \E view \in Answers(t) :
          /\ CheckAfter(t, tick[t].id, NextCheckDelay(view))
          /\ Act(t, tick[t].id, view)
    /\ UNCHANGED <<engineVars, late, worldVars, faults>>

\* The catch: back off, on to the next position.
Refused(t) ==
    /\ CheckAfter(t, tick[t].tx.id, TICK_SECONDS)
    /\ Onward(t)

\* send(): the simulation passes and the transaction is submitted.
Submit(t) ==
    /\ At(t, "send") /\ Succeeds(tick[t].tx)
    /\ Goto(t, [tick[t] EXCEPT !.at = "poll"])
    /\ UNCHANGED <<engineVars, storeVars, wait, late, worldVars, faults>>

\* The simulation reverts: the owner attested, or a rival was first.
SubmitReverts(t) ==
    /\ At(t, "send") /\ ~Succeeds(tick[t].tx)
    /\ Refused(t)
    /\ UNCHANGED <<engineVars, storeVars, late, worldVars, faults>>

\* The RPC fails, or refuses the sequence number another tick just used.
SubmitFails(t) ==
    /\ At(t, "send") /\ Fault
    /\ Refused(t)
    /\ UNCHANGED <<engineVars, storeVars, late, worldVars>>

\* The poll sees the transaction succeed: a claim is revealed soon, a seized
\* position's secret is forgotten.
Lands(t) ==
    /\ At(t, "poll") /\ Executes(tick[t].tx)
    /\ IF tick[t].tx.kind = "initiate"
       THEN CheckAfter(t, tick[t].tx.id, 0) /\ UNCHANGED storeVars
       ELSE Release(tick[t].tx.id) /\ UNCHANGED wait
    /\ Onward(t)
    /\ UNCHANGED <<late, worldVars, faults>>

FailsOnChain(t) ==
    /\ At(t, "poll") /\ ~Succeeds(tick[t].tx)
    /\ Refused(t)
    /\ UNCHANGED <<engineVars, storeVars, late, worldVars, faults>>

\* Thirty seconds without a result; the transaction may still land.
PollGivesUp(t) ==
    /\ At(t, "poll") /\ Fault
    /\ late' = late \cup {tick[t].tx}
    /\ Refused(t)
    /\ UNCHANGED <<engineVars, storeVars, worldVars>>

\* The process dies and starts again: what it submitted stays submitted, the
\* secrets are read back from the file.
Crash ==
    /\ Fault
    /\ tick' = [t \in Tick |-> Idle]
    /\ wait' = [id \in PositionId |-> 0]
    /\ late' = late \cup {tick[t].tx : t \in {u \in Tick : At(u, "poll")}}
    /\ cache' = disk
    /\ UNCHANGED <<engineVars, disk, worldVars>>

TickStep(t) ==
    \/ BeginTick(t) \/ Decided(t)
    \/ Submit(t) \/ SubmitReverts(t) \/ Lands(t) \/ FailsOnChain(t)

TickFault(t) == ReadFails(t) \/ SubmitFails(t) \/ PollGivesUp(t)

Next ==
    \/ \E t \in Tick : TickStep(t) \/ TickFault(t)
    \/ Crash \/ LateOutcome
    \/ OwnerAttests \/ OwnerCloses
    \/ RivalClaims \/ RivalSeizes \/ TimePasses

\* The interval timer and the network go on; so does time.
Spec ==
    /\ Init /\ [][Next]_vars
    /\ \A t \in Tick : WF_vars(TickStep(t))
    /\ WF_vars(TimePasses)

-----------------------------------------------------------------------------
(* Properties.                                                             *)

\* Whatever this keeper holds a claim with is on disk until the position is
\* seized, through overlapping ticks, submissions that time out and land later,
\* and crashes at any await: it can always finish what it started
\* (secrets.ts:15-19).
RedeemableClaims ==
    /\ KeeperTypeOK
    /\ \A id \in PositionId : \A c \in escrow[id] : c.keeper = Self => disk[id] = c.commitment

\* The backoff never outlasts a position's health by more than the floor, though
\* it is computed from reads that are already old: the keeper arrives when the
\* position goes stale, not a ceiling later.
NeverOversleeps ==
    \A id \in PositionId \ liquidated :
        wait[id] <= Larger(Larger(FLOOR, TICK_SECONDS), GracePeriod + 1 - silence[id])

\* A position its owner no longer attests is seized or closed in the end, past
\* failed reads, late transactions, restarts, and a rival that claims and vanishes
\* (decide.ts: "Taking it over is what stops an abandoned claim from blocking
\* liquidation indefinitely").
GivenUpIsSeized ==
    \A id \in PositionId : <>[](silence[id] # 0) => <>(id \in liquidated \cup closed)
=============================================================================
