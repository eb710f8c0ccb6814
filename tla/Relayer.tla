------------------------------- MODULE Relayer -------------------------------
(***************************************************************************)
(* The relayer's submissions (backend/relayer): withdrawals that wait in a *)
(* queue and are settled together, calls that are submitted straight       *)
(* through (a withdrawal when batching is off, a transfer, a rage-quit),   *)
(* and transactions of the client's own for which it only pays the fee.    *)
(* The handlers share the queue, its timer and the relayer's account, and  *)
(* each await lets the others and the chain move.  Of a call, what counts  *)
(* is the nullifier it spends, its pool, and whether its proof is good.    *)
(***************************************************************************)
EXTENDS Naturals, Sequences

CONSTANTS
    Request,                \* what clients post
    Batched,                \* those that may wait in the queue
    Signed,                 \* those that may come as the client's own transaction
    Nullifier, NullifierOf, \* the note each spends
    Pool, PoolOf,           \* and the contract it calls
    allowedContracts,
    Sound,                  \* requests whose proof verifies
    BATCH_MAX,
    Flight,                 \* bound: submissions under way at once
    MaxFaults               \* bound: failed calls, polls given up, restarts

VARIABLES
    spent,                  \* the pools' nullifiers on the chain
    queue, batchTimer,      \* index.ts: the queue and its timer
    flight,                 \* submissions under way
    late,                   \* submitted, and nobody polls for it any more
    bumped,                 \* clients' transactions whose fee it pays, in the network
    answer,                 \* what each request was answered
    paid,                   \* ghost: requests the chain executed
    dropped,                \* ghost: left out of the batch they were answered for
    unknown,                \* ghost: answered or cut off before the outcome was known
    faults

queueVars == <<queue, batchTimer>>
ghostVars == <<paid, dropped, unknown>>
vars == <<spent, queueVars, flight, late, bumped, answer, ghostVars, faults>>

ASSUME RelayerConstants ==
    /\ {Batched, Signed, Sound} \subseteq SUBSET Request /\ allowedContracts \subseteq Pool
    /\ NullifierOf \in [Request -> Nullifier] /\ PoolOf \in [Request -> Pool]
    /\ BATCH_MAX \in Nat \ {0} /\ MaxFaults \in Nat

Members(s) == {s[i] : i \in 1 .. Len(s)}

\* all are the requests to answer, rest those still to simulate, usable those to
\* submit.
FlightState ==
         [at : {"free"}]
    \cup [at : {"simulate", "submit", "poll", "never", "fee", "send"}, all : Seq(Request), rest : Seq(Request),
          usable : Seq(Request)]

RelayerTypeOK ==
    /\ spent \subseteq Nullifier
    /\ queue \in Seq(Batched) /\ Len(queue) < BATCH_MAX
    /\ batchTimer \in {"null", "set", "fired"}
    /\ flight \in [Flight -> FlightState]
    /\ \A s \in late : Members(s) \subseteq Request
    /\ bumped \subseteq Signed
    /\ answer \in [Request -> {"new", "waiting", "hash", "sent", "error", "cut off"}]
    /\ paid \subseteq Request /\ dropped \subseteq Request /\ unknown \subseteq Request
    /\ faults \in 0 .. MaxFaults

Free == [at |-> "free"]
FirstFree(f) == f = CHOOSE g \in Flight : flight[g] = Free

Init ==
    /\ spent = {} /\ queue = <<>> /\ batchTimer = "null"
    /\ flight = [f \in Flight |-> Free] /\ late = {} /\ bumped = {}
    /\ answer = [r \in Request |-> "new"]
    /\ paid = {} /\ dropped = {} /\ unknown = {}
    /\ faults = 0

Fault == faults < MaxFaults /\ faults' = faults + 1

-----------------------------------------------------------------------------
(* The chain.                                                              *)

Nullifiers(calls) == {NullifierOf[r] : r \in Members(calls)}

\* One transaction, all or nothing: withdraw_v3_batch, or a single call.
Succeeds(calls) ==
    /\ Members(calls) \subseteq Sound
    /\ Nullifiers(calls) \cap spent = {}
    /\ \A i, j \in 1 .. Len(calls) : NullifierOf[calls[i]] = NullifierOf[calls[j]] => i = j

Execute(calls) ==
    /\ Succeeds(calls)
    /\ spent' = spent \cup Nullifiers(calls)
    /\ paid' = paid \cup Members(calls)

\* The note is spent by other means: its owner's other wallet, another relayer.
SpentElsewhere ==
    /\ Fault
    /\ \E n \in Nullifier \ spent : spent' = spent \cup {n}
    /\ UNCHANGED <<queueVars, flight, late, bumped, answer, ghostVars>>

\* A transaction nobody waits for lands after all, or never does.
LateOutcome ==
    /\ \E calls \in late :
          /\ late' = late \ {calls}
          /\ Execute(calls) \/ UNCHANGED <<spent, paid>>
    /\ UNCHANGED <<queueVars, flight, bumped, answer, dropped, unknown, faults>>

\* The client polls for its own transaction, which lands or never does.
BumpedOutcome ==
    /\ \E r \in bumped :
          /\ bumped' = bumped \ {r}
          /\ Execute(<<r>>) \/ UNCHANGED <<spent, paid>>
    /\ UNCHANGED <<queueVars, flight, late, answer, dropped, unknown, faults>>

-----------------------------------------------------------------------------
(* The handlers.                                                           *)

Answered(requests, with) ==
    answer' = [r \in Request |-> IF r \in Members(requests) THEN with ELSE answer[r]]

Start(f, at, calls) ==
    flight' = [flight EXCEPT ![f] = [at |-> at, all |-> calls, usable |-> IF at = "submit" THEN calls ELSE <<>>,
                                     rest |-> IF at = "submit" THEN <<>> ELSE calls]]

\* A mutant of FlushBatch: the timer that fired is left in batchTimer.
FlushBatchTimerKept(f, batch) ==
    /\ flight[f] = Free /\ FirstFree(f)
    /\ queue' = <<>>
    /\ batchTimer' = "fired"
    /\ Start(f, "simulate", batch)

\* flushBatch: the timer is cleared and the queue taken; the rest is awaited.
FlushBatch(f, batch) ==
    /\ flight[f] = Free /\ FirstFree(f)
    /\ queue' = <<>>
    /\ batchTimer' = "null"
    /\ Start(f, "simulate", batch)

\* enqueueWithdrawal: a full queue is flushed at once, else the timer is set
\* unless it already is.
EnqueueWithdrawal(r) ==
    /\ r \in Batched /\ answer[r] = "new"
    /\ answer' = [answer EXCEPT ![r] = "waiting"]
    /\ IF Len(queue) + 1 >= BATCH_MAX
       THEN \E f \in Flight : FlushBatch(f, Append(queue, r))
       ELSE /\ queue' = Append(queue, r)
            /\ batchTimer' = IF batchTimer = "null" THEN "set" ELSE batchTimer
            /\ UNCHANGED flight
    /\ UNCHANGED <<spent, late, bumped, ghostVars, faults>>

BatchTimerFires ==
    /\ batchTimer = "set"
    /\ \E f \in Flight : FlushBatch(f, queue)
    /\ UNCHANGED <<spent, late, bumped, answer, ghostVars, faults>>

\* assertAllowedContract.
Allowed(r) == PoolOf[r] \in allowedContracts

\* A request that is taken up, or refused for the contract it names.
TakeUp(r, at) ==
    IF Allowed(r)
    THEN /\ answer' = [answer EXCEPT ![r] = "waiting"]
         /\ \E f \in Flight : flight[f] = Free /\ FirstFree(f) /\ Start(f, at, <<r>>)
    ELSE answer' = [answer EXCEPT ![r] = "error"] /\ UNCHANGED flight

\* relayV3Withdraw, relayV3Transfer, relayV2Withdraw, relayV2Transfer and
\* relayV2RageQuit.
RelayCall(r) ==
    /\ r \notin Batched /\ answer[r] = "new"
    /\ TakeUp(r, "submit")
    /\ UNCHANGED <<spent, queueVars, late, bumped, ghostVars, faults>>

\* relayTransaction: one invocation of an allowed contract, signed by a client.
RelayTransaction(r) ==
    /\ r \in Signed /\ answer[r] = "new"
    /\ TakeUp(r, "fee")
    /\ UNCHANGED <<spent, queueVars, late, bumped, ghostVars, faults>>

At(f, at) == flight[f].at = at
Done(f) == flight' = [flight EXCEPT ![f] = Free]

\* A mutant of FetchBaseFee: a flat fee when the simulation fails.
FetchBaseFeeGuessed(f) ==
    /\ At(f, "fee")
    /\ flight' = [flight EXCEPT ![f].at = "send"]
    /\ UNCHANGED <<spent, queueVars, late, bumped, answer, ghostVars, faults>>

\* fetchBaseFee: what will not simulate is not paid for.
FetchBaseFee(f) ==
    /\ At(f, "fee")
    /\ \/ /\ Succeeds(flight[f].all)
          /\ flight' = [flight EXCEPT ![f].at = "send"] /\ UNCHANGED <<answer, faults>>
       \/ /\ IF Succeeds(flight[f].all) THEN Fault ELSE UNCHANGED faults
          /\ Answered(flight[f].all, "error") /\ Done(f)
    /\ UNCHANGED <<spent, queueVars, late, bumped, ghostVars>>

\* It is answered as soon as the network has it; or the RPC fails, before the
\* network has it or after, when the client is told an error all the same.
SendFeeBump(f) ==
    /\ At(f, "send")
    /\ \/ /\ bumped' = bumped \cup Members(flight[f].all)
          /\ Answered(flight[f].all, "sent") /\ UNCHANGED <<unknown, faults>>
       \/ Fault /\ Answered(flight[f].all, "error") /\ UNCHANGED <<bumped, unknown>>
       \/ /\ Fault /\ bumped' = bumped \cup Members(flight[f].all)
          /\ Answered(flight[f].all, "error") /\ unknown' = unknown \cup Members(flight[f].all)
    /\ Done(f)
    /\ UNCHANGED <<spent, queueVars, late, paid, dropped>>

\* A batch cannot span pools, nor name another contract: all its entries are
\* refused for one.
MixedPools(f) ==
    \E r, s \in Members(flight[f].all) : PoolOf[r] # PoolOf[s] \/ ~Allowed(r)

\* A mutant of SimulatesCleanly: an entry that fails is passed over but kept.
SimulatesCleanlyKeeping(f) ==
    /\ At(f, "simulate") /\ ~MixedPools(f) /\ flight[f].rest # <<>>
    /\ flight' = [flight EXCEPT ![f].rest = Tail(@), ![f].usable = Append(@, Head(flight[f].rest))]
    /\ UNCHANGED <<spent, queueVars, late, bumped, answer, ghostVars, faults>>

\* simulatesCleanly, one request after the other; a failed read counts as no.
SimulatesCleanly(f) ==
    /\ At(f, "simulate") /\ ~MixedPools(f) /\ flight[f].rest # <<>>
    /\ LET r == Head(flight[f].rest)
       IN  \/ /\ Succeeds(<<r>>)
              /\ flight' = [flight EXCEPT ![f].rest = Tail(@), ![f].usable = Append(@, r)]
              /\ UNCHANGED <<dropped, faults>>
           \/ /\ IF Succeeds(<<r>>) THEN Fault ELSE UNCHANGED faults
              /\ flight' = [flight EXCEPT ![f].rest = Tail(@)]
              /\ dropped' = dropped \cup {r}
    /\ UNCHANGED <<spent, queueVars, late, bumped, answer, paid, unknown>>

\* Every entry was simulated: the batch is submitted, unless nothing is left.
Simulated(f) ==
    /\ At(f, "simulate") /\ ~MixedPools(f) /\ flight[f].rest = <<>>
    /\ IF flight[f].usable = <<>>
       THEN Answered(flight[f].all, "error") /\ Done(f)
       ELSE flight' = [flight EXCEPT ![f].at = "submit"] /\ UNCHANGED answer
    /\ UNCHANGED <<spent, queueVars, late, bumped, ghostVars, faults>>

RefuseMixedPools(f) ==
    /\ At(f, "simulate") /\ MixedPools(f)
    /\ Answered(flight[f].all, "error") /\ Done(f)
    /\ UNCHANGED <<spent, queueVars, late, bumped, ghostVars, faults>>

\* Another transaction of the relayer's account is in the network.
AccountBusy(f) == late # {} \/ \E g \in Flight \ {f} : At(g, "poll")

\* prepareTransaction passes and the transaction is sent; while the account has
\* another one pending it may be turned away without an error, for good.
Submit(f) ==
    /\ At(f, "submit") /\ Succeeds(flight[f].usable)
    /\ \E at \in {"poll"} \cup (IF AccountBusy(f) THEN {"never"} ELSE {}) :
          flight' = [flight EXCEPT ![f].at = at]
    /\ UNCHANGED <<spent, queueVars, late, bumped, answer, ghostVars, faults>>

\* Preparing reverts, the RPC fails, or the sequence number was just used: every
\* entry is refused.
SubmitRefused(f) ==
    /\ At(f, "submit")
    /\ IF Succeeds(flight[f].usable) /\ ~AccountBusy(f) THEN Fault ELSE UNCHANGED faults
    /\ Answered(flight[f].all, "error") /\ Done(f)
    /\ UNCHANGED <<spent, queueVars, late, bumped, ghostVars>>

\* A mutant of Confirmed: the caller is answered on submission.
ConfirmedOnSubmit(f) ==
    /\ At(f, "poll")
    /\ late' = late \cup {flight[f].usable}
    /\ Answered(flight[f].all, "hash") /\ Done(f)
    /\ UNCHANGED <<spent, queueVars, bumped, ghostVars, faults>>

\* The transaction succeeds: every entry of the batch gets its hash.
Confirmed(f) ==
    /\ At(f, "poll") /\ Execute(flight[f].usable)
    /\ Answered(flight[f].all, "hash") /\ Done(f)
    /\ UNCHANGED <<queueVars, late, bumped, dropped, unknown, faults>>

FailedOnChain(f) ==
    /\ At(f, "poll") /\ ~Succeeds(flight[f].usable)
    /\ Answered(flight[f].all, "error") /\ Done(f)
    /\ UNCHANGED <<spent, queueVars, late, bumped, ghostVars, faults>>

\* A mutant of TimedOut: a call that timed out is taken for one that failed.
TimedOutForgotten(f) ==
    /\ At(f, "poll") /\ Fault
    /\ late' = late \cup {flight[f].usable}
    /\ Answered(flight[f].all, "error") /\ Done(f)
    /\ UNCHANGED <<spent, queueVars, bumped, ghostVars>>

\* A minute without a result, or the reply to the submission or to a poll is lost:
\* refused, though it may still land.
TimedOut(f) ==
    /\ \/ At(f, "poll") /\ Fault /\ late' = late \cup {flight[f].usable}
       \/ At(f, "never") /\ UNCHANGED <<late, faults>>
    /\ unknown' = unknown \cup Members(flight[f].all)
    /\ Answered(flight[f].all, "error") /\ Done(f)
    /\ UNCHANGED <<spent, queueVars, bumped, paid, dropped>>

\* The process restarts: the queue is lost and every caller is cut off.
Restart ==
    /\ Fault
    /\ queue' = <<>> /\ batchTimer' = "null"
    /\ late' = late \cup {flight[f].usable : f \in {g \in Flight : At(g, "poll")}}
    /\ flight' = [f \in Flight |-> Free]
    /\ answer' = [r \in Request |-> IF answer[r] = "waiting" THEN "cut off" ELSE answer[r]]
    /\ unknown' = unknown \cup {r \in Request : answer[r] = "waiting"}
    /\ UNCHANGED <<spent, bumped, paid, dropped>>

FlightStep(f) ==
    \/ SimulatesCleanly(f) \/ Simulated(f) \/ RefuseMixedPools(f)
    \/ FetchBaseFee(f) \/ SendFeeBump(f)
    \/ Submit(f) \/ SubmitRefused(f) \/ Confirmed(f) \/ FailedOnChain(f) \/ TimedOut(f)

Next ==
    \/ \E r \in Request : EnqueueWithdrawal(r) \/ RelayCall(r) \/ RelayTransaction(r)
    \/ BatchTimerFires
    \/ \E f \in Flight : FlightStep(f)
    \/ SpentElsewhere \/ LateOutcome \/ BumpedOutcome \/ Restart

\* Timers fire and awaited calls come back, one way or another.
Spec ==
    /\ Init /\ [][Next]_vars
    /\ WF_vars(BatchTimerFires)
    /\ \A f \in Flight : WF_vars(FlightStep(f))

-----------------------------------------------------------------------------
(* Properties.                                                             *)

\* A hash means that the transaction went through and paid this request, or that
\* the request had been left out of it on simulation: the answer does not say
\* which (index.ts:278), so a hash alone is no receipt for a batched withdrawal.
HashMeansSettled ==
    /\ RelayerTypeOK
    /\ \A r \in Request : answer[r] = "hash" => r \in paid \cup dropped

\* An error means that nothing was paid and nothing under way will pay, unless
\* the outcome was open when the caller was answered: only then can posting the
\* note again meet an earlier success.
ErrorMeansUnpaid ==
    \A r \in Request :
        answer[r] = "error" /\ r \notin unknown =>
            /\ r \notin paid /\ r \notin bumped
            /\ \A calls \in late : r \notin Members(calls)

\* The most a client may conclude from its answer, over batches, duplicates, lost
\* replies and time-outs (relay.ts:306-325, 41-46 and index.ts:262-290).
AnswersHold == HashMeansSettled /\ ErrorMeansUnpaid

\* Whoever was accepted is answered, or cut off by a restart: the service comes
\* to rest, and nobody is left in a queue that nothing flushes.
AcceptedIsAnswered == []<>(\A r \in Request : answer[r] # "waiting")

\* What a batch is about to pay was checked request by request: it fails as a
\* whole only by a note spent since, or by two requests for one note, never by a
\* proof that was bad from the start (relay.ts:119-122); and whatever goes out at
\* the relayer's expense, in a batch, alone or as a client's own transaction, is a
\* good call of an allowed contract (relay.ts:373-412, 426-440).
BadProofsStayOut ==
    /\ \A f \in Flight :
          flight[f].at \in {"submit", "poll"} /\ Members(flight[f].all) \subseteq Batched =>
              Members(flight[f].usable) \subseteq Sound
    /\ LET Out == UNION ({Members(calls) : calls \in late}
                          \cup {Members(flight[f].usable) : f \in {g \in Flight : At(g, "poll")}})
       IN  \A r \in Out \cup bumped : r \in Sound /\ Allowed(r)
=============================================================================
