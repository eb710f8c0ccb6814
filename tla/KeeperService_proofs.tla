------------------------ MODULE KeeperService_proofs ------------------------
(***************************************************************************)
(* The keeper can finish what it started and is there in time, for any     *)
(* number of positions, keepers and ticks that overlap, and any durations. *)
(***************************************************************************)
EXTENDS KeeperService, TLAPS

Sending(t) == tick[t].at \in {"send", "poll"}

\* What may still be executed: under way in a tick, or late.
Pending == late \cup {tick[t].tx : t \in {u \in Tick : Sending(u)}}

\* The file is the memory, between any two steps.
SameStore == cache = disk

\* A seizure takes the claim with it, and a tick that has read of it can rely on it.
SeizedForGood ==
    /\ \A id \in liquidated : escrow[id] = {}
    /\ \A t \in Tick : tick[t].at = "view" /\ tick[t].seen.isLiquidated => tick[t].id \in liquidated

\* Every claim that may still land is one with the secret on file.
Stored(tx) == tx.kind = "initiate" => tx.id \in liquidated \/ disk[tx.id] = tx.secret

PendingIsStored == \A tx \in Pending : Stored(tx)

\* However old a read, the time it was made at plus what it says is not past the
\* deadline.
SightIsSound ==
    \A t \in Tick : tick[t].at = "view" =>
        \/ tick[t].seen.secondsUntilStale = 0
        \/ tick[t].lag = LongestDelay
        \/ tick[t].seen.secondsUntilStale - tick[t].lag <= GracePeriod - silence[tick[t].id]

KeeperInv ==
    /\ RedeemableClaims /\ NeverOversleeps
    /\ SameStore /\ SeizedForGood /\ PendingIsStored /\ SightIsSound

USE KeeperConstants

-----------------------------------------------------------------------------
(* The operators.                                                          *)

LEMMA Durations ==
    /\ LongestDelay \in Nat \ {0}
    /\ FLOOR <= LongestDelay /\ CEILING <= LongestDelay /\ TICK_SECONDS <= LongestDelay
BY DEF LongestDelay, Larger

\* What the type says of a tick, by what it is doing.
LEMMA TickParts ==
    ASSUME KeeperTypeOK, NEW t \in Tick
    PROVE  /\ tick[t].at \in {"idle", "view", "send", "poll"}
           /\ tick[t].at = "idle" => tick[t] = Idle
           /\ tick[t].at = "view" =>
                  /\ tick[t].lag \in 0 .. LongestDelay /\ tick[t].todo \subseteq PositionId
                  /\ tick[t].id \in PositionId /\ tick[t].seen \in EngineView
                  /\ tick[t] = [at |-> "view", lag |-> tick[t].lag, todo |-> tick[t].todo,
                                id |-> tick[t].id, seen |-> tick[t].seen]
           /\ Sending(t) =>
                  /\ tick[t].lag \in 0 .. LongestDelay /\ tick[t].todo \subseteq PositionId
                  /\ tick[t].tx \in Submission
                  /\ tick[t] = [at |-> tick[t].at, lag |-> tick[t].lag, todo |-> tick[t].todo,
                                tx |-> tick[t].tx]
<1>1. tick[t] \in TickState
  BY DEF KeeperTypeOK
<1>2. CASE tick[t] \in [at : {"idle"}]
  BY <1>2 DEF Idle, Sending
<1>3. CASE tick[t] \in [at : {"view"}, lag : 0 .. LongestDelay, todo : SUBSET PositionId,
                        id : PositionId, seen : EngineView]
  BY <1>3 DEF Sending
<1>4. CASE tick[t] \in [at : {"send", "poll"}, lag : 0 .. LongestDelay,
                        todo : SUBSET PositionId, tx : Submission]
  BY <1>4 DEF Sending
<1> QED
  BY <1>1, <1>2, <1>3, <1>4 DEF TickState

LEMMA PendingType == KeeperTypeOK => Pending \subseteq Submission
<1> SUFFICES ASSUME KeeperTypeOK, NEW tx \in Pending PROVE tx \in Submission
  OBVIOUS
<1>1. CASE tx \in late
  BY <1>1 DEF KeeperTypeOK
<1>2. ASSUME NEW t \in Tick, Sending(t), tx = tick[t].tx PROVE tx \in Submission
  BY <1>2, TickParts
<1> QED
  BY <1>1, <1>2 DEF Pending

LEMMA ViewType ==
    ASSUME EngineTypeOK, NEW id \in PositionId
    PROVE  View(id) \in EngineView
<1>1. IsStale(id) \in BOOLEAN /\ (id \in liquidated) \in BOOLEAN
  BY DEF IsStale
<1>2. SecondsUntilStale(id) \in 0 .. GracePeriod
  BY DEF EngineTypeOK, SecondsUntilStale
<1>3. escrow[id] \in {{}} \cup {{c} : c \in Claim}
  BY DEF EngineTypeOK
<1> QED
  BY <1>1, <1>2, <1>3 DEF View, EngineView

\* Whatever the reads mix, each is one of the two.
LEMMA AnswersMix ==
    ASSUME NEW t \in Tick, tick[t].seen \in EngineView, View(tick[t].id) \in EngineView,
           NEW view \in Answers(t)
    PROVE  /\ view \in EngineView
           /\ view.isLiquidated \in {tick[t].seen.isLiquidated, View(tick[t].id).isLiquidated}
           /\ view.secondsUntilStale \in
                  {tick[t].seen.secondsUntilStale, View(tick[t].id).secondsUntilStale}
<1> DEFINE early == tick[t].seen
           now == View(tick[t].id)
           D == {"isStale", "isLiquidated", "secondsUntilStale", "escrow"}
<1>1. DOMAIN early = D
  BY DEF EngineView
<1>2. PICK newer \in SUBSET D : view = [f \in D |-> IF f \in newer THEN now[f] ELSE early[f]]
  BY <1>1 DEF Answers
<1>3. /\ view["isStale"] \in {now["isStale"], early["isStale"]}
      /\ view["isLiquidated"] \in {now["isLiquidated"], early["isLiquidated"]}
      /\ view["secondsUntilStale"] \in {now["secondsUntilStale"], early["secondsUntilStale"]}
      /\ view["escrow"] \in {now["escrow"], early["escrow"]}
  BY <1>2
<1> HIDE DEF early, now
<1>4. view = [isStale |-> view["isStale"], isLiquidated |-> view["isLiquidated"],
              secondsUntilStale |-> view["secondsUntilStale"], escrow |-> view["escrow"]]
  BY <1>2
<1>5. early \in EngineView /\ now \in EngineView
  BY DEF early, now
<1>6. view \in EngineView
  BY <1>3, <1>4, <1>5 DEF EngineView
<1> QED
  BY <1>3, <1>6 DEF early, now

\* The loop ends or reads the next position that is due.
LEMMA LoopMoves ==
    ASSUME KeeperTypeOK, NEW t \in Tick, NEW lag \in 0 .. LongestDelay,
           NEW todo \in SUBSET PositionId, LoopOver(t, lag, todo)
    PROVE  \E s \in TickState :
               /\ tick' = [tick EXCEPT ![t] = s]
               /\ \/ s = Idle
                  \/ s.at = "view" /\ s.id \in PositionId /\ s.seen = View(s.id)
<1> DEFINE due == {id \in todo : wait[id] = 0}
<1>1. CASE Goto(t, Idle)
  <2>1. Idle \in TickState
    BY DEF Idle, TickState
  <2> QED
    BY <1>1, <2>1 DEF Goto
<1>2. ASSUME NEW id \in due,
             Goto(t, [at |-> "view", lag |-> lag, todo |-> todo \ {id},
                      id |-> id, seen |-> View(id)])
      PROVE  \E s \in TickState :
               /\ tick' = [tick EXCEPT ![t] = s]
               /\ s.at = "view" /\ s.id \in PositionId /\ s.seen = View(s.id)
  <2> DEFINE s == [at |-> "view", lag |-> lag, todo |-> todo \ {id}, id |-> id, seen |-> View(id)]
  <2>1. View(id) \in EngineView
    BY ViewType DEF KeeperTypeOK
  <2>2. s \in TickState
    BY <2>1 DEF TickState
  <2>3. tick' = [tick EXCEPT ![t] = s] /\ s.at = "view" /\ s.id = id /\ s.seen = View(id)
    BY <1>2 DEF Goto
  <2> HIDE DEF s
  <2> QED
    BY <2>2, <2>3
<1> QED
  BY <1>1, <1>2 DEF LoopOver

-----------------------------------------------------------------------------
(* What a step may do.                                                     *)

\* By when a position is looked at again.
Deadline(id) == Larger(Larger(FLOOR, TICK_SECONDS), GracePeriod + 1 - silence[id])

\* The ticks a step moves have just read what they know, or send what was pending
\* or is stored.
TicksMove ==
    \A t \in Tick :
        \/ tick'[t] = tick[t] \/ tick'[t] = Idle
        \/ tick'[t].at = "view" /\ tick'[t].id \in PositionId
               /\ tick'[t].seen = View(tick'[t].id)
        \/ tick'[t].at \in {"send", "poll"}
               /\ \E tx \in Submission : tick'[t].tx = tx /\ (tx \in Pending \/ Stored(tx)')

\* Secrets on file change only where there was none or the position is seized.
StoreMoves ==
    /\ cache' = disk' /\ disk' \in [PositionId -> Secret \cup {None}]
    /\ \A id \in PositionId : disk'[id] = disk[id] \/ id \in liquidated' \/ disk[id] = None

\* Claims of this keeper appear with the secret on file; seizures clear them.
EngineMoves ==
    /\ EngineTypeOK' /\ liquidated \subseteq liquidated'
    /\ \A id \in liquidated' : escrow'[id] = {}
    /\ \A id \in PositionId : silence'[id] <= silence[id]
    /\ \A id \in PositionId : \A c \in escrow'[id] :
           c.keeper = Self => c \in escrow[id] \/ disk[id] = c.commitment

\* No position is put off past its deadline.
WaitMoves ==
    /\ wait' \in [PositionId -> 0 .. LongestDelay]
    /\ \A id \in PositionId \ liquidated : wait'[id] <= Deadline(id)

\* A step that moves no time and no more than that keeps the invariant.
LEMMA KeepsInv ==
    ASSUME KeeperInv, TicksMove, StoreMoves, EngineMoves, WaitMoves,
           tick' \in [Tick -> TickState], late' \subseteq Pending, closed' \subseteq PositionId,
           faults' \in 0 .. MaxFaults, rivals' \in 0 .. MaxRivalClaims
    PROVE  KeeperInv'
<1>0. KeeperTypeOK /\ EngineTypeOK /\ EngineTypeOK' /\ cache' = disk'
  BY DEF KeeperInv, RedeemableClaims, KeeperTypeOK, EngineMoves, StoreMoves
<1>1. /\ liquidated \subseteq PositionId /\ liquidated' \subseteq PositionId
      /\ silence \in [PositionId -> 0 .. GracePeriod + 1]
      /\ silence' \in [PositionId -> 0 .. GracePeriod + 1]
      /\ disk \in [PositionId -> Secret \cup {None}]
      /\ wait' \in [PositionId -> 0 .. LongestDelay]
      /\ tick \in [Tick -> TickState] /\ tick' \in [Tick -> TickState]
      /\ liquidated \subseteq liquidated' /\ \A id \in PositionId : silence'[id] <= silence[id]
  BY <1>0 DEF KeeperTypeOK, EngineTypeOK, EngineMoves, WaitMoves
<1>2. ASSUME NEW tx \in Submission, Stored(tx) PROVE Stored(tx)'
  <2>1. tx.id \in PositionId /\ tx.secret \in Secret
    BY DEF Submission
  <2>2. disk'[tx.id] = disk[tx.id] \/ tx.id \in liquidated' \/ disk[tx.id] = None
    BY <2>1 DEF StoreMoves
  <2> QED
    BY <1>1, <1>2, <2>1, <2>2 DEF Stored
<1>3. Pending \subseteq Submission
  BY <1>0, PendingType
<1>9. KeeperTypeOK'
  BY <1>0, <1>1, <1>3 DEF KeeperTypeOK, StoreMoves
<1>4. RedeemableClaims'
  <2>1. ASSUME NEW id \in PositionId, NEW c \in escrow'[id], c.keeper = Self
        PROVE  disk'[id] = c.commitment
    <3>1. c \in Claim
      <4>1. escrow'[id] \in {{}} \cup {{d} : d \in Claim}
        BY <1>0 DEF EngineTypeOK
      <4> QED
        BY <4>1
    <3>2. c.commitment \in Secret
      BY <3>1 DEF Claim
    <3>3. disk[id] = c.commitment
      BY <2>1 DEF KeeperInv, RedeemableClaims, EngineMoves
    <3>4. id \notin liquidated'
      BY <2>1 DEF EngineMoves
    <3> QED
      BY <3>2, <3>3, <3>4 DEF StoreMoves
  <2> QED
    BY <1>9, <2>1 DEF RedeemableClaims
<1>5. NeverOversleeps'
  <2>1. ASSUME NEW id \in PositionId, id \notin liquidated'
        PROVE  wait'[id] <= Larger(Larger(FLOOR, TICK_SECONDS), GracePeriod + 1 - silence'[id])
    <3>1. wait'[id] <= Deadline(id) /\ silence'[id] <= silence[id]
      BY <1>1, <2>1 DEF WaitMoves
    <3>2. silence[id] \in Nat /\ silence'[id] \in Nat /\ wait'[id] \in Nat
      BY <1>1, Durations
    <3> QED
      BY <3>1, <3>2 DEF Deadline, Larger
  <2> QED
    BY <2>1 DEF NeverOversleeps
<1>6. PendingIsStored'
  <2>1. ASSUME NEW tx \in Pending' PROVE tx \in Pending \/ Stored(tx)'
    <3>1. CASE tx \in late'
      BY <3>1
    <3>2. ASSUME NEW t \in Tick, Sending(t)', tx = tick'[t].tx PROVE tx \in Pending \/ Stored(tx)'
      <4>1. tick'[t] = tick[t] => tx \in Pending
        BY <3>2 DEF Sending, Pending
      <4> QED
        BY <3>2, <4>1 DEF Sending, Idle, TicksMove
    <3> QED
      BY <2>1, <3>1, <3>2 DEF Pending
  <2> QED
    BY <1>2, <1>3, <2>1 DEF PendingIsStored, KeeperInv
<1>7. SeizedForGood' /\ SightIsSound'
  <2>1. ASSUME NEW t \in Tick, tick'[t].at = "view"
        PROVE  /\ tick'[t].seen.isLiquidated => tick'[t].id \in liquidated'
               /\ \/ tick'[t].seen.secondsUntilStale = 0
                  \/ tick'[t].lag = LongestDelay
                  \/ tick'[t].seen.secondsUntilStale - tick'[t].lag
                         <= GracePeriod - silence'[tick'[t].id]
    <3>1. CASE tick'[t] = tick[t]
      <4>1. /\ tick[t].id \in PositionId /\ tick[t].lag \in Nat
            /\ tick[t].seen.secondsUntilStale \in Nat
        <5>1. /\ tick[t].id \in PositionId /\ tick[t].lag \in 0 .. LongestDelay
              /\ tick[t].seen \in EngineView
          BY <1>0, <2>1, <3>1, TickParts
        <5>2. \A v \in EngineView : v.secondsUntilStale \in 0 .. GracePeriod
          BY DEF EngineView
        <5> QED
          BY <5>1, <5>2, Durations
      <4>2. silence[tick[t].id] \in Nat /\ silence'[tick[t].id] \in Nat
        BY <1>1, <4>1
      <4>3. /\ tick[t].seen.isLiquidated => tick[t].id \in liquidated
            /\ \/ tick[t].seen.secondsUntilStale = 0
               \/ tick[t].lag = LongestDelay
               \/ tick[t].seen.secondsUntilStale - tick[t].lag <= GracePeriod - silence[tick[t].id]
        BY <2>1, <3>1 DEF KeeperInv, SeizedForGood, SightIsSound
      <4> QED
        BY <1>1, <3>1, <4>1, <4>2, <4>3
    <3>2. CASE tick'[t].id \in PositionId /\ tick'[t].seen = View(tick'[t].id)
      <4> DEFINE id == tick'[t].id
      <4>1. silence[id] \in 0 .. GracePeriod + 1 /\ silence'[id] \in Nat /\ silence'[id] <= silence[id]
        BY <1>1, <3>2
      <4>2. tick'[t].lag \in Nat
        BY <1>1, <2>1, Durations DEF TickState
      <4>3. /\ tick'[t].seen.isLiquidated = (id \in liquidated)
            /\ tick'[t].seen.secondsUntilStale = SecondsUntilStale(id)
        BY <3>2 DEF View
      <4> HIDE DEF id
      <4>4. SecondsUntilStale(id) = 0 \/ SecondsUntilStale(id) - tick'[t].lag <= GracePeriod - silence'[id]
        BY <4>1, <4>2 DEF SecondsUntilStale
      <4> QED
        BY <1>1, <4>3, <4>4 DEF id
    <3> QED
      BY <2>1, <3>1, <3>2 DEF Idle, TicksMove
  <2> QED
    BY <2>1 DEF SeizedForGood, SightIsSound, EngineMoves
<1>8. SameStore'
  BY <1>0 DEF SameStore
<1> QED
  BY <1>4, <1>5, <1>6, <1>7, <1>8 DEF KeeperInv

-----------------------------------------------------------------------------
(* The parts of the steps.                                                 *)

\* What a tick remembers is enough to bound its next delay.
LEMMA SightDelay ==
    ASSUME KeeperInv, NEW t \in Tick, tick[t].at = "view", NEW view \in Answers(t)
    PROVE  /\ view \in EngineView
           /\ view.isLiquidated => tick[t].id \in liquidated
           /\ NextCheckDelay(view) \in 0 .. LongestDelay
           /\ tick[t].id \notin liquidated =>
                  Larger(NextCheckDelay(view) - tick[t].lag, 0) <= Deadline(tick[t].id)
<1> DEFINE id == tick[t].id
           lag == tick[t].lag
           seen == tick[t].seen
<1>1. KeeperTypeOK /\ EngineTypeOK
  BY DEF KeeperInv, RedeemableClaims, KeeperTypeOK
<1>2. id \in PositionId /\ lag \in 0 .. LongestDelay /\ seen \in EngineView
  BY <1>1, TickParts
<1>3. View(id) \in EngineView
  BY <1>1, <1>2, ViewType
<1>4. /\ view \in EngineView
      /\ view.isLiquidated \in {seen.isLiquidated, View(id).isLiquidated}
      /\ view.secondsUntilStale \in {seen.secondsUntilStale, View(id).secondsUntilStale}
  BY <1>2, <1>3, AnswersMix
<1>5. /\ View(id).isLiquidated = (id \in liquidated)
      /\ View(id).secondsUntilStale = SecondsUntilStale(id)
  BY DEF View
<1>6. /\ seen.isLiquidated => id \in liquidated
      /\ \/ seen.secondsUntilStale = 0
         \/ lag = LongestDelay
         \/ seen.secondsUntilStale - lag <= GracePeriod - silence[id]
  BY DEF KeeperInv, SeizedForGood, SightIsSound
<1>7. silence[id] \in 0 .. GracePeriod + 1
  BY <1>1, <1>2 DEF EngineTypeOK
<1>8. view.isLiquidated => id \in liquidated
  BY <1>4, <1>5, <1>6
<1>9. view.secondsUntilStale \in 0 .. GracePeriod /\ seen.secondsUntilStale \in Nat
  BY <1>2, <1>4 DEF EngineView
<1>10. \/ view.secondsUntilStale = 0
       \/ lag = LongestDelay
       \/ view.secondsUntilStale - lag <= GracePeriod - silence[id]
  BY <1>2, <1>4, <1>5, <1>6, <1>7, Durations DEF SecondsUntilStale
<1> HIDE DEF id, lag, seen
<1>11. NextCheckDelay(view) \in 0 .. LongestDelay
  BY <1>9, Durations DEF NextCheckDelay, Sooner, Larger
<1>12. ASSUME ~view.isLiquidated
       PROVE  \/ NextCheckDelay(view) <= FLOOR
              \/ NextCheckDelay(view) <= view.secondsUntilStale + 1
  BY <1>9, <1>12 DEF NextCheckDelay, Sooner, Larger
<1>13. ASSUME id \notin liquidated
       PROVE  Larger(NextCheckDelay(view) - lag, 0) <= Deadline(id)
  <2> DEFINE delay == NextCheckDelay(view)
             seconds == view.secondsUntilStale
  <2>1. delay \in 0 .. LongestDelay /\ seconds \in Nat /\ lag \in 0 .. LongestDelay
    BY <1>2, <1>9, <1>11
  <2>2. delay <= FLOOR \/ delay <= seconds + 1
    BY <1>8, <1>12, <1>13
  <2>3. seconds = 0 \/ lag = LongestDelay \/ seconds - lag <= GracePeriod - silence[id]
    BY <1>10
  <2> HIDE DEF delay, seconds
  <2>4. Larger(delay - lag, 0) <= Larger(Larger(FLOOR, TICK_SECONDS), GracePeriod + 1 - silence[id])
    BY <1>7, <2>1, <2>2, <2>3, Durations DEF Larger
  <2> QED
    BY <2>4 DEF Deadline, delay
<1> QED
  BY <1>4, <1>8, <1>11, <1>13 DEF id, lag, seen

\* A backoff, its delay counted from when the tick began.
LEMMA Backoff ==
    ASSUME KeeperInv, NEW t \in Tick, tick[t].lag \in 0 .. LongestDelay,
           NEW id \in PositionId, NEW delay \in 0 .. LongestDelay,
           CheckAfter(t, id, delay),
           id \notin liquidated => Larger(delay - tick[t].lag, 0) <= Deadline(id)
    PROVE  WaitMoves
<1>1. wait \in [PositionId -> 0 .. LongestDelay]
  BY DEF KeeperInv, RedeemableClaims, KeeperTypeOK
<1>2. Larger(delay - tick[t].lag, 0) \in 0 .. LongestDelay
  BY Durations DEF Larger
<1>3. wait' = [wait EXCEPT ![id] = Larger(delay - tick[t].lag, 0)]
  BY DEF CheckAfter
<1>4. \A i \in PositionId \ liquidated : wait[i] <= Deadline(i)
  BY DEF KeeperInv, NeverOversleeps, Deadline
<1> QED
  BY <1>1, <1>2, <1>3, <1>4 DEF WaitMoves

\* TICK_SECONDS, or nothing, is never too long.
LEMMA ShortDelay ==
    ASSUME KeeperInv, NEW t \in Tick, tick[t].lag \in 0 .. LongestDelay, NEW id \in PositionId,
           NEW delay \in {0, TICK_SECONDS}
    PROVE  delay \in 0 .. LongestDelay /\ Larger(delay - tick[t].lag, 0) <= Deadline(id)
<1>1. silence[id] \in 0 .. GracePeriod + 1
  BY DEF KeeperInv, RedeemableClaims, KeeperTypeOK, EngineTypeOK
<1> QED
  BY <1>1, Durations DEF Deadline, Larger

LEMMA WaitStands == KeeperInv /\ wait' = wait => WaitMoves
BY DEF KeeperInv, RedeemableClaims, KeeperTypeOK, NeverOversleeps, WaitMoves, Deadline

\* The steps of the keeper that leave the engine alone.
LEMMA EngineStands == KeeperInv /\ UNCHANGED engineVars => EngineMoves
<1> SUFFICES ASSUME KeeperInv, UNCHANGED engineVars PROVE EngineMoves
  OBVIOUS
<1>1. silence' = silence /\ escrow' = escrow /\ liquidated' = liquidated
  BY DEF engineVars
<1>2. EngineTypeOK /\ \A id \in liquidated : escrow[id] = {}
  BY DEF KeeperInv, RedeemableClaims, KeeperTypeOK, SeizedForGood
<1>3. EngineTypeOK'
  BY <1>1, <1>2 DEF EngineTypeOK
<1>4. \A id \in PositionId : silence[id] <= silence[id]
  BY <1>2 DEF EngineTypeOK
<1> QED
  BY <1>1, <1>2, <1>3, <1>4 DEF EngineMoves

LEMMA StoreStands == KeeperInv /\ UNCHANGED storeVars => StoreMoves
BY DEF KeeperInv, RedeemableClaims, KeeperTypeOK, SameStore, StoreMoves, storeVars

\* A secret is released only when the position is seized.
LEMMA ReleaseMoves ==
    ASSUME KeeperInv, NEW id \in PositionId, id \in liquidated', Release(id)
    PROVE  StoreMoves
<1>1. cache = disk /\ disk \in [PositionId -> Secret \cup {None}]
  BY DEF KeeperInv, RedeemableClaims, KeeperTypeOK, SameStore
<1> QED
  BY <1>1 DEF Release, Flush, StoreMoves

\* A claim is made with the secret on file.
LEMMA ClaimMoves ==
    ASSUME KeeperInv, NEW id \in PositionId, NEW secret \in Secret, ClaimSecret(id, secret)
    PROVE  StoreMoves /\ disk'[id] = secret
<1>1. cache = disk /\ disk \in [PositionId -> Secret \cup {None}]
  BY DEF KeeperInv, RedeemableClaims, KeeperTypeOK, SameStore
<1>2. CASE secret = cache[id] /\ UNCHANGED storeVars
  BY <1>1, <1>2 DEF storeVars, StoreMoves
<1>3. CASE cache[id] = None /\ Flush([cache EXCEPT ![id] = secret])
  BY <1>1, <1>3 DEF Flush, StoreMoves
<1> QED
  BY <1>2, <1>3 DEF ClaimSecret

\* The claim and the seizure as the engine executes them.
LEMMA InitiateMoves ==
    ASSUME KeeperInv, NEW k \in Keeper, NEW id \in PositionId, NEW s \in Secret,
           InitiateLiquidation(k, id, s), k = Self => disk[id] = s
    PROVE  EngineMoves /\ id \notin liquidated
<1>1. EngineTypeOK /\ \A i \in liquidated : escrow[i] = {}
  BY DEF KeeperInv, RedeemableClaims, KeeperTypeOK, SeizedForGood
<1> DEFINE claim == [keeper |-> k, commitment |-> s, age |-> 0]
<1>2. claim \in Claim
  BY DEF Claim
<1>3. /\ id \notin liquidated /\ silence' = silence /\ liquidated' = liquidated
      /\ escrow' = [escrow EXCEPT ![id] = {claim}]
  BY DEF InitiateLiquidation
<1>4. claim.keeper = Self => claim.commitment = disk[id]
  OBVIOUS
<1> HIDE DEF claim
<1>5. EngineTypeOK'
  BY <1>1, <1>2, <1>3 DEF EngineTypeOK
<1>6. \A i \in liquidated' : escrow'[i] = {}
  BY <1>1, <1>3 DEF EngineTypeOK
<1>7. \A i \in PositionId : silence'[i] <= silence[i]
  BY <1>1, <1>3 DEF EngineTypeOK
<1>8. ASSUME NEW i \in PositionId, NEW c \in escrow'[i], c.keeper = Self
      PROVE  c \in escrow[i] \/ disk[i] = c.commitment
  BY <1>1, <1>3, <1>4, <1>8 DEF EngineTypeOK
<1> QED
  BY <1>3, <1>5, <1>6, <1>7, <1>8 DEF EngineMoves

LEMMA RedeemMoves ==
    ASSUME KeeperInv, NEW k \in Keeper, NEW id \in PositionId, NEW s \in Secret,
           RedeemClaim(k, id, s)
    PROVE  EngineMoves /\ id \in liquidated' /\ silence' = silence
<1>1. EngineTypeOK /\ \A i \in liquidated : escrow[i] = {}
  BY DEF KeeperInv, RedeemableClaims, KeeperTypeOK, SeizedForGood
<1>2. /\ silence' = silence /\ liquidated' = liquidated \cup {id}
      /\ escrow' = [escrow EXCEPT ![id] = {}]
  BY DEF RedeemClaim
<1>3. EngineTypeOK'
  BY <1>1, <1>2 DEF EngineTypeOK
<1>4. \A i \in liquidated' : escrow'[i] = {}
  BY <1>1, <1>2 DEF EngineTypeOK
<1>5. \A i \in PositionId : silence'[i] <= silence[i]
  BY <1>1, <1>2 DEF EngineTypeOK
<1>6. \A i \in PositionId : \A c \in escrow'[i] : c \in escrow[i]
  BY <1>1, <1>2 DEF EngineTypeOK
<1> QED
  BY <1>2, <1>3, <1>4, <1>5, <1>6 DEF EngineMoves

\* A pending transaction of this keeper is executed.
LEMMA ExecutesMoves ==
    ASSUME KeeperInv, NEW tx \in Pending, Executes(tx)
    PROVE  EngineMoves /\ (tx.kind = "reveal" => tx.id \in liquidated')
<1>1. tx \in Submission
  BY PendingType DEF KeeperInv, RedeemableClaims
<1>2. /\ tx.id \in PositionId /\ tx.secret \in Secret
      /\ tx.kind \in {"initiate", "reveal"}
  BY <1>1 DEF Submission
<1>3. CASE tx.kind = "initiate" /\ InitiateLiquidation(Self, tx.id, tx.secret)
  <2>1. tx.id \notin liquidated
    BY <1>3 DEF InitiateLiquidation
  <2>2. disk[tx.id] = tx.secret
    BY <1>3, <2>1 DEF KeeperInv, PendingIsStored, Stored
  <2> QED
    BY <1>2, <1>3, <2>2, InitiateMoves
<1>4. CASE tx.kind = "reveal" /\ RedeemClaim(Self, tx.id, tx.secret)
  BY <1>2, <1>4, RedeemMoves
<1> QED
  BY <1>3, <1>4 DEF Executes

\* The tick's loop goes on.
LEMMA LoopTicks ==
    ASSUME KeeperInv, NEW t \in Tick, NEW lag \in 0 .. LongestDelay,
           NEW todo \in SUBSET PositionId, LoopOver(t, lag, todo)
    PROVE  TicksMove /\ tick' \in [Tick -> TickState]
<1>1. KeeperTypeOK /\ tick \in [Tick -> TickState]
  BY DEF KeeperInv, RedeemableClaims, KeeperTypeOK
<1>2. PICK s \in TickState :
         /\ tick' = [tick EXCEPT ![t] = s]
         /\ s = Idle \/ (s.at = "view" /\ s.id \in PositionId /\ s.seen = View(s.id))
  BY <1>1, LoopMoves
<1> QED
  BY <1>1, <1>2 DEF TicksMove

\* The tick sends a transaction that was pending or is stored.
LEMMA SendTicks ==
    ASSUME KeeperInv, NEW t \in Tick, NEW s \in TickState, Goto(t, s),
           s.at \in {"send", "poll"}, s.tx \in Submission,
           NEW tx \in Submission, s.tx = tx, tx \in Pending \/ Stored(tx)'
    PROVE  TicksMove /\ tick' \in [Tick -> TickState]
<1>1. tick \in [Tick -> TickState]
  BY DEF KeeperInv, RedeemableClaims, KeeperTypeOK
<1> QED
  BY <1>1 DEF TicksMove, Goto

LEMMA TicksStand == KeeperInv /\ tick' = tick => TicksMove /\ tick' \in [Tick -> TickState]
BY DEF KeeperInv, RedeemableClaims, KeeperTypeOK, TicksMove

-----------------------------------------------------------------------------
(* The steps.                                                              *)

\* What no step of a tick touches.
LEMMA WorldStands ==
    ASSUME KeeperInv, late' = late, UNCHANGED worldVars
    PROVE  late' \subseteq Pending /\ closed' \subseteq PositionId /\ rivals' \in 0 .. MaxRivalClaims
BY DEF KeeperInv, RedeemableClaims, KeeperTypeOK, Pending, worldVars

LEMMA FaultsCount == KeeperInv /\ (Fault \/ UNCHANGED faults) => faults' \in 0 .. MaxFaults
BY DEF KeeperInv, RedeemableClaims, KeeperTypeOK, Fault

LEMMA BeginTickKeeps ==
    ASSUME KeeperInv, NEW t \in Tick, BeginTick(t)
    PROVE  KeeperInv'
<1>1. PICK stillListed \in SUBSET (closed \cup liquidated) :
         LoopOver(t, 0, (PositionId \ (closed \cup liquidated)) \cup stillListed)
  BY DEF BeginTick
<1>2. closed \cup liquidated \subseteq PositionId
  BY DEF KeeperInv, RedeemableClaims, KeeperTypeOK, EngineTypeOK
<1>3. TicksMove /\ tick' \in [Tick -> TickState]
  BY <1>1, <1>2, LoopTicks, Durations
<1>4. EngineMoves /\ StoreMoves /\ WaitMoves
  BY EngineStands, StoreStands, WaitStands DEF BeginTick
<1> QED
  BY <1>3, <1>4, WorldStands, FaultsCount, KeepsInv DEF BeginTick

\* The tick backs off from a position and goes on: the catch.
LEMMA RefusedMoves ==
    ASSUME KeeperInv, NEW t \in Tick, tick[t].lag \in 0 .. LongestDelay,
           tick[t].todo \subseteq PositionId, NEW id \in PositionId,
           CheckAfter(t, id, TICK_SECONDS), Onward(t)
    PROVE  WaitMoves /\ TicksMove /\ tick' \in [Tick -> TickState]
<1>1. WaitMoves
  BY ShortDelay, Backoff
<1>2. TicksMove /\ tick' \in [Tick -> TickState]
  BY LoopTicks DEF Onward
<1> QED
  BY <1>1, <1>2

LEMMA ReadFailsKeeps ==
    ASSUME KeeperInv, NEW t \in Tick, ReadFails(t)
    PROVE  KeeperInv'
<1>1. /\ tick[t].lag \in 0 .. LongestDelay /\ tick[t].todo \subseteq PositionId
      /\ tick[t].id \in PositionId
  BY TickParts DEF KeeperInv, RedeemableClaims, ReadFails, At
<1>2. WaitMoves /\ TicksMove /\ tick' \in [Tick -> TickState]
  BY <1>1, RefusedMoves DEF ReadFails
<1>3. EngineMoves /\ StoreMoves
  BY EngineStands, StoreStands DEF ReadFails
<1> QED
  BY <1>2, <1>3, WorldStands, FaultsCount, KeepsInv DEF ReadFails

\* Deciding: the secret is released, created or read, and the tick goes on or sends.
LEMMA ActMoves ==
    ASSUME KeeperInv, NEW t \in Tick, tick[t].at = "view", NEW view \in EngineView,
           view.isLiquidated => tick[t].id \in liquidated,
           UNCHANGED engineVars, Act(t, tick[t].id, view)
    PROVE  StoreMoves /\ TicksMove /\ tick' \in [Tick -> TickState]
<1> DEFINE id == tick[t].id
<1>1. /\ tick[t].lag \in 0 .. LongestDelay /\ tick[t].todo \subseteq PositionId
      /\ id \in PositionId
  BY TickParts DEF KeeperInv, RedeemableClaims
<1>2. liquidated' = liquidated
  BY DEF engineVars
<1>3. Onward(t) => TicksMove /\ tick' \in [Tick -> TickState]
  BY <1>1, LoopTicks DEF Onward
<1>4. cache = disk /\ cache \in [PositionId -> Secret \cup {None}]
  BY DEF KeeperInv, SameStore, RedeemableClaims, KeeperTypeOK
<1> DEFINE Sent(kind, secret) ==
               [at |-> "send", lag |-> tick[t].lag, todo |-> tick[t].todo,
                tx |-> [kind |-> kind, id |-> id, secret |-> secret]]
<1>5. ASSUME NEW kind \in {"initiate", "reveal"}, NEW secret \in Secret,
             Goto(t, Sent(kind, secret)), kind = "initiate" => disk'[id] = secret
      PROVE  TicksMove /\ tick' \in [Tick -> TickState]
  <2> DEFINE tx == [kind |-> kind, id |-> id, secret |-> secret]
  <2>1. tx \in Submission /\ tx.kind = kind /\ tx.id = id /\ tx.secret = secret
    BY <1>1 DEF Submission
  <2>2. Sent(kind, secret) = [at |-> "send", lag |-> tick[t].lag, todo |-> tick[t].todo, tx |-> tx]
    OBVIOUS
  <2> HIDE DEF tx, Sent
  <2>3. /\ Sent(kind, secret) \in TickState /\ Sent(kind, secret).at = "send"
        /\ Sent(kind, secret).tx = tx
    BY <1>1, <2>1, <2>2 DEF TickState
  <2>4. PICK sent \in Submission : sent = tx
    BY <2>1
  <2>5. Stored(sent)'
    BY <1>5, <2>1, <2>4 DEF Stored
  <2>6. Goto(t, Sent(kind, secret))
    BY <1>5
  <2> HIDE DEF id
  <2> QED
    BY <2>3, <2>4, <2>5, <2>6, SendTicks
<1>6. CASE /\ IF view.isLiquidated THEN Release(id) ELSE UNCHANGED storeVars
           /\ Onward(t)
  <2>1. StoreMoves
    BY <1>1, <1>2, <1>6, ReleaseMoves, StoreStands
  <2> QED
    BY <1>3, <1>6, <2>1
<1>7. ASSUME NEW secret \in Secret, ClaimSecret(id, secret), Goto(t, Sent("initiate", secret))
      PROVE  StoreMoves /\ TicksMove /\ tick' \in [Tick -> TickState]
  BY <1>1, <1>5, <1>7, ClaimMoves
<1>8. CASE Onward(t) /\ UNCHANGED storeVars
  BY <1>3, <1>8, StoreStands
<1>9. CASE cache[id] # None /\ Goto(t, Sent("reveal", cache[id])) /\ UNCHANGED storeVars
  <2>1. cache[id] \in Secret
    BY <1>1, <1>4, <1>9
  <2> QED
    BY <1>5, <1>9, <2>1, StoreStands
<1> QED
  BY <1>6, <1>7, <1>8, <1>9 DEF Act

LEMMA DecidedKeeps ==
    ASSUME KeeperInv, NEW t \in Tick, Decided(t)
    PROVE  KeeperInv'
<1>1. PICK view \in Answers(t) :
         CheckAfter(t, tick[t].id, NextCheckDelay(view)) /\ Act(t, tick[t].id, view)
  BY DEF Decided
<1>2. tick[t].at = "view" /\ UNCHANGED engineVars
  BY DEF Decided, At
<1>3. /\ view \in EngineView
      /\ view.isLiquidated => tick[t].id \in liquidated
      /\ NextCheckDelay(view) \in 0 .. LongestDelay
      /\ tick[t].id \notin liquidated =>
             Larger(NextCheckDelay(view) - tick[t].lag, 0) <= Deadline(tick[t].id)
  BY <1>2, SightDelay
<1>4. tick[t].lag \in 0 .. LongestDelay /\ tick[t].id \in PositionId
  BY <1>2, TickParts DEF KeeperInv, RedeemableClaims
<1>5. WaitMoves
  BY <1>1, <1>3, <1>4, Backoff
<1>6. StoreMoves /\ TicksMove /\ tick' \in [Tick -> TickState]
  BY <1>1, <1>2, <1>3, ActMoves
<1> QED
  BY <1>2, <1>5, <1>6, EngineStands, WorldStands, FaultsCount, KeepsInv DEF Decided

\* A tick with a transaction under way.
LEMMA SendingParts ==
    ASSUME KeeperInv, NEW t \in Tick, At(t, "send") \/ At(t, "poll")
    PROVE  /\ tick[t].lag \in 0 .. LongestDelay /\ tick[t].todo \subseteq PositionId
           /\ tick[t].tx \in Submission /\ tick[t].tx \in Pending
           /\ tick[t].tx.id \in PositionId /\ tick[t].tx.kind \in {"initiate", "reveal"}
<1>1. KeeperTypeOK /\ Sending(t)
  BY DEF KeeperInv, RedeemableClaims, At, Sending
<1>2. /\ tick[t].lag \in 0 .. LongestDelay /\ tick[t].todo \subseteq PositionId
      /\ tick[t].tx \in Submission
  BY <1>1, TickParts
<1> QED
  BY <1>1, <1>2 DEF Submission, Pending

LEMMA SubmitKeeps ==
    ASSUME KeeperInv, NEW t \in Tick, Submit(t)
    PROVE  KeeperInv'
<1>1. tick[t].at = "send" /\ Goto(t, [tick[t] EXCEPT !.at = "poll"])
  BY DEF Submit, At
<1>2. /\ tick[t].lag \in 0 .. LongestDelay /\ tick[t].todo \subseteq PositionId
      /\ tick[t].tx \in Submission /\ tick[t].tx \in Pending
  BY SendingParts DEF Submit
<1>3. tick[t] = [at |-> "send", lag |-> tick[t].lag, todo |-> tick[t].todo, tx |-> tick[t].tx]
  BY <1>1, TickParts DEF KeeperInv, RedeemableClaims, Sending
<1>4. PICK s : s = [tick[t] EXCEPT !.at = "poll"]
  OBVIOUS
<1>5. s = [at |-> "poll", lag |-> tick[t].lag, todo |-> tick[t].todo, tx |-> tick[t].tx]
  BY <1>3, <1>4
<1>6. s \in TickState /\ s.at = "poll" /\ s.tx = tick[t].tx
  BY <1>2, <1>5 DEF TickState
<1>7. PICK tx \in Submission : s.tx = tx /\ tx \in Pending
  BY <1>2, <1>6
<1>8. TicksMove /\ tick' \in [Tick -> TickState]
  BY <1>1, <1>4, <1>6, <1>7, SendTicks
<1>9. EngineMoves /\ StoreMoves /\ WaitMoves
  BY EngineStands, StoreStands, WaitStands DEF Submit
<1> QED
  BY <1>8, <1>9, WorldStands, FaultsCount, KeepsInv DEF Submit

LEMMA RefusedKeeps ==
    ASSUME KeeperInv, NEW t \in Tick, SubmitReverts(t) \/ SubmitFails(t) \/ FailsOnChain(t)
    PROVE  KeeperInv'
<1>1. (At(t, "send") \/ At(t, "poll")) /\ Refused(t)
  BY DEF SubmitReverts, SubmitFails, FailsOnChain
<1>2. WaitMoves /\ TicksMove /\ tick' \in [Tick -> TickState]
  BY <1>1, SendingParts, RefusedMoves DEF Refused
<1>3. UNCHANGED <<engineVars, storeVars, late, worldVars>> /\ (Fault \/ UNCHANGED faults)
  BY DEF SubmitReverts, SubmitFails, FailsOnChain
<1>4. EngineMoves /\ StoreMoves
  BY <1>3, EngineStands, StoreStands
<1> QED
  BY <1>2, <1>3, <1>4, WorldStands, FaultsCount, KeepsInv

LEMMA PollGivesUpKeeps ==
    ASSUME KeeperInv, NEW t \in Tick, PollGivesUp(t)
    PROVE  KeeperInv'
<1>1. WaitMoves /\ TicksMove /\ tick' \in [Tick -> TickState]
  BY SendingParts, RefusedMoves DEF Refused, PollGivesUp
<1>2. EngineMoves /\ StoreMoves
  BY EngineStands, StoreStands DEF PollGivesUp
<1>3. late' \subseteq Pending
  BY SendingParts DEF PollGivesUp, Pending
<1>4. closed' \subseteq PositionId /\ rivals' \in 0 .. MaxRivalClaims
  BY DEF KeeperInv, RedeemableClaims, KeeperTypeOK, PollGivesUp, worldVars
<1> QED
  BY <1>1, <1>2, <1>3, <1>4, FaultsCount, KeepsInv DEF PollGivesUp

LEMMA LandsKeeps ==
    ASSUME KeeperInv, NEW t \in Tick, Lands(t)
    PROVE  KeeperInv'
<1> DEFINE tx == tick[t].tx
<1>1. /\ tick[t].lag \in 0 .. LongestDelay /\ tick[t].todo \subseteq PositionId
      /\ tx \in Submission /\ tx \in Pending
      /\ tx.id \in PositionId /\ tx.kind \in {"initiate", "reveal"}
  BY SendingParts DEF Lands
<1>2. EngineMoves /\ (tx.kind = "reveal" => tx.id \in liquidated')
  BY <1>1, ExecutesMoves DEF Lands
<1>3. StoreMoves /\ WaitMoves
  <2>1. CASE tx.kind = "initiate" /\ CheckAfter(t, tx.id, 0) /\ UNCHANGED storeVars
    BY <1>1, <2>1, ShortDelay, Backoff, StoreStands
  <2>2. CASE tx.kind = "reveal" /\ Release(tx.id) /\ UNCHANGED wait
    <3>1. StoreMoves
      BY <1>1, <1>2, <2>2, ReleaseMoves
    <3> QED
      BY <2>2, <3>1, WaitStands
  <2> QED
    BY <1>1, <2>1, <2>2 DEF Lands
<1>4. TicksMove /\ tick' \in [Tick -> TickState]
  BY <1>1, LoopTicks DEF Onward, Lands
<1> QED
  BY <1>2, <1>3, <1>4, WorldStands, FaultsCount, KeepsInv DEF Lands

LEMMA CrashKeeps == KeeperInv /\ Crash => KeeperInv'
<1> SUFFICES ASSUME KeeperInv, Crash PROVE KeeperInv'
  OBVIOUS
<1>1. tick' = [t \in Tick |-> Idle] /\ Idle \in TickState
  BY DEF Crash, Idle, TickState
<1>2. TicksMove /\ tick' \in [Tick -> TickState]
  BY <1>1 DEF TicksMove
<1>3. WaitMoves
  <2>1. ASSUME NEW id \in PositionId PROVE 0 <= Deadline(id)
    <3>1. silence[id] \in 0 .. GracePeriod + 1
      BY DEF KeeperInv, RedeemableClaims, KeeperTypeOK, EngineTypeOK
    <3> QED
      BY <3>1 DEF Deadline, Larger
  <2> QED
    BY <2>1, Durations DEF Crash, WaitMoves
<1>4. StoreMoves
  BY DEF Crash, StoreMoves, KeeperInv, RedeemableClaims, KeeperTypeOK
<1>5. late' \subseteq Pending
  BY DEF Crash, At, Pending, Sending
<1>6. closed' \subseteq PositionId /\ rivals' \in 0 .. MaxRivalClaims
  BY DEF KeeperInv, RedeemableClaims, KeeperTypeOK, Crash, worldVars
<1> QED
  BY <1>2, <1>3, <1>4, <1>5, <1>6, EngineStands, FaultsCount, KeepsInv DEF Crash

\* The chain, the owners and the rivals move without the keeper.
LEMMA OthersKeep ==
    ASSUME KeeperInv, EngineMoves, UNCHANGED <<tick, storeVars, wait>>, late' \subseteq Pending,
           closed' \subseteq PositionId, rivals' \in 0 .. MaxRivalClaims, UNCHANGED faults
    PROVE  KeeperInv'
BY TicksStand, StoreStands, WaitStands, FaultsCount, KeepsInv

LEMMA LateOutcomeKeeps == KeeperInv /\ LateOutcome => KeeperInv'
<1> SUFFICES ASSUME KeeperInv, LateOutcome PROVE KeeperInv'
  OBVIOUS
<1>1. PICK tx \in late : late' = late \ {tx} /\ (Executes(tx) \/ UNCHANGED engineVars)
  BY DEF LateOutcome
<1>2. tx \in Pending /\ late' \subseteq Pending
  BY <1>1 DEF Pending
<1>3. EngineMoves
  BY <1>1, <1>2, ExecutesMoves, EngineStands
<1>4. closed' \subseteq PositionId /\ rivals' \in 0 .. MaxRivalClaims
  BY DEF KeeperInv, RedeemableClaims, KeeperTypeOK, LateOutcome, worldVars
<1> QED
  BY <1>2, <1>3, <1>4, OthersKeep DEF LateOutcome

LEMMA OwnersKeep == KeeperInv /\ (OwnerAttests \/ OwnerCloses) => KeeperInv'
<1> SUFFICES ASSUME KeeperInv, OwnerAttests \/ OwnerCloses PROVE KeeperInv'
  OBVIOUS
<1>1. late' = late /\ rivals' = rivals /\ UNCHANGED <<tick, storeVars, wait, faults>>
  BY DEF OwnerAttests, OwnerCloses, worldVars
<1>2. KeeperTypeOK /\ EngineTypeOK /\ \A id \in liquidated : escrow[id] = {}
  BY DEF KeeperInv, RedeemableClaims, KeeperTypeOK, SeizedForGood
<1>3. closed' \subseteq PositionId
  BY <1>2 DEF OwnerAttests, OwnerCloses, worldVars, KeeperTypeOK
<1>4. EngineMoves
  <2>1. CASE OwnerAttests
    <3>1. PICK id \in PositionId : silence' = [silence EXCEPT ![id] = 0]
      BY <2>1 DEF OwnerAttests, RegisterHeartbeat
    <3>2. escrow' = escrow /\ liquidated' = liquidated
      BY <2>1 DEF OwnerAttests
    <3>3. EngineTypeOK' /\ \A i \in PositionId : silence'[i] <= silence[i]
      BY <1>2, <3>1, <3>2 DEF EngineTypeOK
    <3> QED
      BY <1>2, <3>2, <3>3 DEF EngineMoves
  <2>2. CASE OwnerCloses
    BY <2>2, EngineStands DEF OwnerCloses
  <2> QED
    BY <2>1, <2>2
<1>5. late' \subseteq Pending /\ rivals' \in 0 .. MaxRivalClaims
  BY <1>1, <1>2 DEF Pending, KeeperTypeOK
<1> QED
  BY <1>1, <1>3, <1>4, <1>5, OthersKeep

LEMMA RivalsKeep == KeeperInv /\ (RivalClaims \/ RivalSeizes) => KeeperInv'
<1> SUFFICES ASSUME KeeperInv, RivalClaims \/ RivalSeizes PROVE KeeperInv'
  OBVIOUS
<1>1. late' = late /\ closed' = closed /\ UNCHANGED <<tick, storeVars, wait, faults>>
  BY DEF RivalClaims, RivalSeizes, worldVars
<1>2. late' \subseteq Pending /\ closed' \subseteq PositionId /\ rivals' \in 0 .. MaxRivalClaims
  BY <1>1 DEF Pending, KeeperInv, RedeemableClaims, KeeperTypeOK, RivalClaims, RivalSeizes, worldVars
<1>3. EngineMoves
  <2>1. ASSUME NEW k \in Keeper \ {Self}, NEW id \in PositionId,
               InitiateLiquidation(k, id, RivalSecret)
        PROVE  EngineMoves
    BY <2>1, InitiateMoves
  <2>2. ASSUME NEW k \in Keeper \ {Self}, NEW id \in PositionId, RedeemClaim(k, id, RivalSecret)
        PROVE  EngineMoves
    BY <2>2, RedeemMoves
  <2> QED
    BY <2>1, <2>2 DEF RivalClaims, RivalSeizes
<1> QED
  BY <1>1, <1>2, <1>3, OthersKeep

\* Time moves the deadlines nearer, the delays along with them, and the lag of
\* what a tick has read.
LEMMA TimeKeeps == KeeperInv /\ TimePasses => KeeperInv'
<1> SUFFICES ASSUME KeeperInv, TimePasses PROVE KeeperInv'
  OBVIOUS
<1>1. KeeperTypeOK /\ EngineTypeOK
  BY DEF KeeperInv, RedeemableClaims, KeeperTypeOK
<1>2. /\ silence \in [PositionId -> 0 .. GracePeriod + 1] /\ wait \in [PositionId -> 0 .. LongestDelay]
      /\ tick \in [Tick -> TickState] /\ liquidated \subseteq PositionId
  BY <1>1 DEF KeeperTypeOK, EngineTypeOK
<1>3. /\ silence' = [id \in PositionId |-> Sooner(silence[id] + 1, GracePeriod + 1)]
      /\ escrow' = [id \in PositionId |->
                       {[c EXCEPT !.age = Sooner(@ + 1, ESCROW_TTL)] : c \in escrow[id]}]
      /\ liquidated' = liquidated
      /\ wait' = [id \in PositionId |-> Larger(wait[id] - 1, 0)]
      /\ tick' = [t \in Tick |-> IF tick[t] = Idle THEN Idle
                                 ELSE [tick[t] EXCEPT !.lag = Sooner(@ + 1, LongestDelay)]]
      /\ cache' = cache /\ disk' = disk /\ late' = late /\ closed' = closed /\ rivals' = rivals
      /\ faults' = faults
  BY DEF TimePasses, EngineTick, storeVars, worldVars
<1>4. silence' \in [PositionId -> 0 .. GracePeriod + 1]
  BY <1>2, <1>3 DEF Sooner
<1>5. ASSUME NEW c \in Claim
      PROVE  /\ [c EXCEPT !.age = Sooner(@ + 1, ESCROW_TTL)] \in Claim
             /\ [c EXCEPT !.age = Sooner(@ + 1, ESCROW_TTL)].keeper = c.keeper
             /\ [c EXCEPT !.age = Sooner(@ + 1, ESCROW_TTL)].commitment = c.commitment
  <2>1. Sooner(c.age + 1, ESCROW_TTL) \in 0 .. ESCROW_TTL
    BY DEF Claim, Sooner
  <2> QED
    BY <2>1 DEF Claim
<1>6. ASSUME NEW id \in PositionId
      PROVE  /\ escrow'[id] \in {{}} \cup {{c} : c \in Claim}
             /\ escrow[id] = {} => escrow'[id] = {}
             /\ \A c \in escrow'[id] : \E d \in escrow[id] :
                    c.keeper = d.keeper /\ c.commitment = d.commitment
  <2>1. escrow[id] = {} \/ \E c \in Claim : escrow[id] = {c}
    BY <1>1 DEF EngineTypeOK
  <2>2. CASE escrow[id] = {}
    BY <1>3, <2>2
  <2>3. ASSUME NEW c \in Claim, escrow[id] = {c}
        PROVE  /\ escrow'[id] = {[c EXCEPT !.age = Sooner(@ + 1, ESCROW_TTL)]}
    BY <1>3, <2>3
  <2>4. ASSUME NEW c \in Claim, escrow[id] = {c}
        PROVE  \E e \in Claim : /\ escrow'[id] = {e}
                               /\ e.keeper = c.keeper /\ e.commitment = c.commitment
    BY <1>5, <2>3, <2>4
  <2> QED
    BY <2>1, <2>2, <2>4
<1>7. EngineTypeOK'
  BY <1>2, <1>3, <1>4, <1>6 DEF EngineTypeOK
<1>8. ASSUME NEW t \in Tick
      PROVE  /\ tick'[t] \in TickState /\ tick'[t].at = tick[t].at
             /\ Sending(t) => tick'[t].tx = tick[t].tx
             /\ tick[t].at = "view" =>
                    /\ tick'[t].id = tick[t].id /\ tick'[t].seen = tick[t].seen
                    /\ tick'[t].lag = Sooner(tick[t].lag + 1, LongestDelay)
  <2>1. CASE tick[t].at = "idle"
    <3>1. tick'[t] = tick[t]
      BY <1>1, <1>3, <2>1, TickParts
    <3> QED
      BY <1>2, <2>1, <3>1 DEF Sending
  <2> DEFINE lag == Sooner(tick[t].lag + 1, LongestDelay)
  <2>2. tick[t].at # "idle" => tick'[t] = [tick[t] EXCEPT !.lag = lag]
    BY <1>3 DEF Idle
  <2>3. CASE tick[t].at = "view"
    <3>1. /\ tick[t].lag \in 0 .. LongestDelay /\ tick[t].todo \subseteq PositionId
          /\ tick[t].id \in PositionId /\ tick[t].seen \in EngineView
          /\ tick[t] = [at |-> "view", lag |-> tick[t].lag, todo |-> tick[t].todo,
                        id |-> tick[t].id, seen |-> tick[t].seen]
      BY <1>1, <2>3, TickParts
    <3>2. lag \in 0 .. LongestDelay
      BY <3>1, Durations DEF Sooner
    <3> HIDE DEF lag
    <3>3. tick'[t] = [at |-> "view", lag |-> lag, todo |-> tick[t].todo,
                      id |-> tick[t].id, seen |-> tick[t].seen]
      BY <2>2, <2>3, <3>1
    <3> QED
      BY <2>3, <3>1, <3>2, <3>3 DEF TickState, Sending, lag
  <2>4. CASE Sending(t)
    <3>1. /\ tick[t].lag \in 0 .. LongestDelay /\ tick[t].todo \subseteq PositionId
          /\ tick[t].tx \in Submission
          /\ tick[t] = [at |-> tick[t].at, lag |-> tick[t].lag, todo |-> tick[t].todo,
                        tx |-> tick[t].tx]
      BY <1>1, <2>4, TickParts
    <3>2. lag \in 0 .. LongestDelay
      BY <3>1, Durations DEF Sooner
    <3> HIDE DEF lag
    <3>3. tick'[t] = [at |-> tick[t].at, lag |-> lag, todo |-> tick[t].todo, tx |-> tick[t].tx]
      BY <2>2, <2>4, <3>1 DEF Sending
    <3> QED
      BY <2>4, <3>1, <3>2, <3>3 DEF TickState, Sending
  <2> QED
    BY <1>1, <2>1, <2>3, <2>4, TickParts DEF Sending
<1>9. KeeperTypeOK'
  <2>1. tick' \in [Tick -> TickState]
    BY <1>3, <1>8
  <2>2. wait' \in [PositionId -> 0 .. LongestDelay]
    BY <1>2, <1>3, Durations DEF Larger
  <2> QED
    BY <1>1, <1>3, <1>7, <2>1, <2>2 DEF KeeperTypeOK
<1>10. RedeemableClaims'
  BY <1>3, <1>6, <1>9 DEF KeeperInv, RedeemableClaims
<1>11. NeverOversleeps'
  <2>1. ASSUME NEW id \in PositionId, id \notin liquidated
        PROVE  wait'[id] <= Larger(Larger(FLOOR, TICK_SECONDS), GracePeriod + 1 - silence'[id])
    <3>1. wait[id] <= Larger(Larger(FLOOR, TICK_SECONDS), GracePeriod + 1 - silence[id])
      BY <2>1 DEF KeeperInv, NeverOversleeps
    <3>2. wait[id] \in Nat /\ silence[id] \in 0 .. GracePeriod + 1
      BY <1>2, Durations
    <3>3. /\ wait'[id] = Larger(wait[id] - 1, 0)
          /\ silence'[id] = Sooner(silence[id] + 1, GracePeriod + 1)
      BY <1>3
    <3> QED
      BY <3>1, <3>2, <3>3 DEF Larger, Sooner
  <2> QED
    BY <1>3, <2>1 DEF NeverOversleeps
<1>12. PendingIsStored'
  <2>1. Pending' \subseteq Pending
    <3>1. \A t \in Tick : Sending(t)' => Sending(t) /\ tick'[t].tx = tick[t].tx
      BY <1>8 DEF Sending
    <3> QED
      BY <1>3, <3>1 DEF Pending
  <2>2. \A tx \in Pending : Stored(tx)'
    BY <1>3 DEF KeeperInv, PendingIsStored, Stored
  <2> QED
    BY <2>1, <2>2 DEF PendingIsStored
<1>13. SeizedForGood'
  BY <1>2, <1>3, <1>6, <1>8 DEF KeeperInv, SeizedForGood
<1>14. SightIsSound'
  <2>1. ASSUME NEW t \in Tick, tick[t].at = "view"
        PROVE  \/ tick'[t].seen.secondsUntilStale = 0
               \/ tick'[t].lag = LongestDelay
               \/ tick'[t].seen.secondsUntilStale - tick'[t].lag
                      <= GracePeriod - silence'[tick'[t].id]
    <3> DEFINE seconds == tick[t].seen.secondsUntilStale
               lag == tick[t].lag
               id == tick[t].id
    <3>1. lag \in 0 .. LongestDelay /\ id \in PositionId /\ tick[t].seen \in EngineView
      BY <1>1, <2>1, TickParts
    <3>2. seconds \in 0 .. GracePeriod
      BY <3>1 DEF EngineView
    <3>3. seconds = 0 \/ lag = LongestDelay \/ seconds - lag <= GracePeriod - silence[id]
      BY <2>1 DEF KeeperInv, SightIsSound
    <3>4. silence[id] \in Nat /\ silence'[id] = Sooner(silence[id] + 1, GracePeriod + 1)
      BY <1>2, <1>3, <3>1
    <3>5. /\ tick'[t].seen.secondsUntilStale = seconds /\ tick'[t].id = id
          /\ tick'[t].lag = Sooner(lag + 1, LongestDelay)
      BY <1>8, <2>1
    <3> HIDE DEF seconds, lag, id
    <3>6. \/ seconds = 0 \/ Sooner(lag + 1, LongestDelay) = LongestDelay
          \/ seconds - Sooner(lag + 1, LongestDelay) <= GracePeriod - silence'[id]
      BY <3>1, <3>2, <3>3, <3>4, Durations DEF Sooner
    <3> QED
      BY <3>5, <3>6
  <2> QED
    BY <1>8, <2>1 DEF SightIsSound
<1> QED
  BY <1>3, <1>10, <1>11, <1>12, <1>13, <1>14 DEF KeeperInv, SameStore

-----------------------------------------------------------------------------
(* The results.                                                            *)

LEMMA KeeperStarts == Init => KeeperInv
<1> SUFFICES ASSUME Init PROVE KeeperInv
  OBVIOUS
<1>1. \A t \in Tick : tick[t] = Idle /\ tick[t].at = "idle"
  BY DEF Init, Idle
<1>2. EngineTypeOK
  BY DEF Init, EngineTypeOK
<1>3. KeeperTypeOK
  <2>1. Idle \in TickState
    BY DEF Idle, TickState
  <2> QED
    BY <1>2, <2>1, Durations DEF Init, KeeperTypeOK
<1>4. Pending = {}
  BY <1>1 DEF Init, Pending, Sending
<1>5. NeverOversleeps
  <2>1. ASSUME NEW id \in PositionId
        PROVE  wait[id] <= Larger(Larger(FLOOR, TICK_SECONDS), GracePeriod + 1 - silence[id])
    <3>1. wait[id] = 0 /\ silence[id] = 0
      BY DEF Init
    <3>2. FLOOR \in Nat /\ TICK_SECONDS \in Nat /\ GracePeriod \in Nat
      BY KeeperConstants
    <3> QED
      BY <3>1, <3>2 DEF Larger
  <2> QED
    BY <2>1 DEF NeverOversleeps
<1>6. RedeemableClaims /\ SameStore /\ SeizedForGood /\ PendingIsStored /\ SightIsSound
  BY <1>1, <1>3, <1>4
     DEF Init, RedeemableClaims, SameStore, SeizedForGood, PendingIsStored, SightIsSound
<1> QED
  BY <1>5, <1>6 DEF KeeperInv

LEMMA KeeperSteps == KeeperInv /\ [Next]_vars => KeeperInv'
<1> SUFFICES ASSUME KeeperInv, [Next]_vars PROVE KeeperInv'
  OBVIOUS
<1>1. ASSUME NEW t \in Tick, TickStep(t) \/ TickFault(t) PROVE KeeperInv'
  BY <1>1, BeginTickKeeps, DecidedKeeps, SubmitKeeps, RefusedKeeps, LandsKeeps, ReadFailsKeeps,
     PollGivesUpKeeps DEF TickStep, TickFault
<1>2. CASE UNCHANGED vars
  <2>1. late' \subseteq Pending /\ closed' \subseteq PositionId /\ rivals' \in 0 .. MaxRivalClaims
    BY <1>2 DEF vars, worldVars, Pending, KeeperInv, RedeemableClaims, KeeperTypeOK
  <2> QED
    BY <1>2, <2>1, EngineStands, OthersKeep DEF vars
<1> QED
  BY <1>1, <1>2, CrashKeeps, LateOutcomeKeeps, OwnersKeep, RivalsKeep, TimeKeeps DEF Next

LEMMA KeeperAlways == Spec => []KeeperInv
<1>1. [][Next]_vars /\ Init => []KeeperInv
  BY KeeperStarts, KeeperSteps, PTL
<1> QED
  BY <1>1, PTL DEF Spec

\* The keeper can redeem every claim it holds: through overlapping ticks, late
\* transactions and crashes, the secret of a claim is on file until the seizure.
THEOREM ClaimsAreRedeemable == Spec => []RedeemableClaims
<1>1. KeeperInv => RedeemableClaims
  BY DEF KeeperInv
<1> QED
  BY KeeperAlways, <1>1, PTL

\* No read is so old that the keeper sleeps past a deadline by more than its floor.
THEOREM DeadlinesAreKept == Spec => []NeverOversleeps
<1>1. KeeperInv => NeverOversleeps
  BY DEF KeeperInv
<1> QED
  BY KeeperAlways, <1>1, PTL
=============================================================================
