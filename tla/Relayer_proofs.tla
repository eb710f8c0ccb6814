---------------------------- MODULE Relayer_proofs ---------------------------
(***************************************************************************)
(* The relayer's answers and what it pays for, for any requests, contracts *)
(* and batch size, any number of submissions under way and any faults.     *)
(***************************************************************************)
EXTENDS Relayer, TLAPS

\* The requests a flight has to answer.
Theirs(fl) == IF fl = Free THEN {} ELSE Members(fl.all)

\* A call the relayer may pay for.
Good(r) == r \in Sound /\ Allowed(r)

\* What a flight carries at each of its stages: it submits and simulates only what
\* it was given; what it no longer carries was left out of the batch; a batch carries
\* what simulated cleanly; from its submission on the contracts were checked, and
\* what is in the network had passed.
Fits(fl) ==
    /\ fl \in FlightState
    /\ fl # Free =>
          /\ Members(fl.usable) \subseteq Members(fl.all)
          /\ Members(fl.rest) \subseteq Members(fl.all)
          /\ fl.at = "simulate" =>
                /\ Members(fl.all) \subseteq Members(fl.usable) \cup Members(fl.rest) \cup dropped
                /\ Members(fl.usable) \subseteq Sound
          /\ fl.at \in {"submit", "poll", "never"} =>
                /\ Members(fl.all) \subseteq Members(fl.usable) \cup dropped
                /\ Members(fl.all) \subseteq Batched => Members(fl.usable) \subseteq Sound
          /\ fl.at # "simulate" => \A r \in Members(fl.all) : Allowed(r)
          /\ fl.at = "poll" => Members(fl.usable) \subseteq Sound
          /\ fl.at \in {"fee", "send"} => Members(fl.all) \subseteq Signed
          /\ fl.at = "send" => Members(fl.all) \subseteq Sound

\* The types, with late as sequences.
Types ==
    /\ RelayerTypeOK
    /\ late \subseteq Seq(Request)

FlightsFit == \A f \in Flight : Fits(flight[f])

\* A request is in the queue or in one flight, and then it waits.
InOnePlace ==
    /\ \A f, g \in Flight : f # g => Theirs(flight[f]) \cap Theirs(flight[g]) = {}
    /\ \A f \in Flight : Theirs(flight[f]) \cap Members(queue) = {}
    /\ \A f \in Flight : \A r \in Theirs(flight[f]) : answer[r] = "waiting"
    /\ \A r \in Members(queue) : answer[r] = "waiting"

\* What is in the network unattended is good, and its sender does not know its outcome
\* or was told that the transaction was sent.
Unattended ==
    /\ \A calls \in late : \A r \in Members(calls) : r \in unknown /\ Good(r)
    /\ \A r \in bumped : (answer[r] = "sent" \/ r \in unknown) /\ Good(r)

\* Who was paid was told so, or is among those who could not be told.
PaidIsTold == \A r \in paid : answer[r] \in {"hash", "sent"} \/ r \in unknown

HashIsSettled == \A r \in Request : answer[r] = "hash" => r \in paid \cup dropped

RelayerInv == Types /\ FlightsFit /\ InOnePlace /\ Unattended /\ PaidIsTold /\ HashIsSettled

-----------------------------------------------------------------------------
(* Members of a sequence.                                                  *)

LEMMA MembersTyped == ASSUME NEW S, NEW s \in Seq(S) PROVE Members(s) \subseteq S
BY DEF Members

LEMMA MembersOfNone == Members(<<>>) = {}
BY DEF Members

LEMMA MembersOfOne == ASSUME NEW x PROVE Members(<<x>>) = {x}
BY DEF Members

LEMMA MembersOfAppend ==
    ASSUME NEW S, NEW s \in Seq(S), NEW x \in S
    PROVE  Append(s, x) \in Seq(S) /\ Members(Append(s, x)) = Members(s) \cup {x}
<1>1. /\ Append(s, x) \in Seq(S) /\ Len(Append(s, x)) = Len(s) + 1
      /\ \A i \in 1 .. Len(s) : Append(s, x)[i] = s[i]
      /\ Append(s, x)[Len(s) + 1] = x /\ Len(s) \in Nat
  OBVIOUS
<1>2. Members(Append(s, x)) \subseteq Members(s) \cup {x}
  BY <1>1 DEF Members
<1>3. x \in Members(Append(s, x))
  BY <1>1 DEF Members
<1>4. Members(s) \subseteq Members(Append(s, x))
  BY <1>1 DEF Members
<1> QED
  BY <1>1, <1>2, <1>3, <1>4

LEMMA MembersOfTail ==
    ASSUME NEW S, NEW s \in Seq(S), s # <<>>
    PROVE  /\ Head(s) \in S /\ Tail(s) \in Seq(S)
           /\ Members(s) = {Head(s)} \cup Members(Tail(s))
<1>1. /\ Tail(s) \in Seq(S) /\ Len(Tail(s)) = Len(s) - 1 /\ Len(s) \in Nat /\ Len(s) > 0
      /\ \A i \in 1 .. Len(s) - 1 : Tail(s)[i] = s[i + 1]
      /\ Head(s) = s[1] /\ Head(s) \in S
  OBVIOUS
<1>2. Members(s) \subseteq {Head(s)} \cup Members(Tail(s))
  <2>1. ASSUME NEW i \in 1 .. Len(s), i # 1 PROVE s[i] \in Members(Tail(s))
    <3>1. i - 1 \in 1 .. Len(s) - 1 /\ Tail(s)[i - 1] = s[i]
      BY <1>1, <2>1
    <3> QED
      BY <1>1, <3>1 DEF Members
  <2> QED
    BY <1>1, <2>1 DEF Members
<1>3. Members(Tail(s)) \subseteq Members(s)
  <2>1. ASSUME NEW i \in 1 .. Len(s) - 1 PROVE Tail(s)[i] \in Members(s)
    <3>1. i + 1 \in 1 .. Len(s)
      BY <1>1, <2>1
    <3> QED
      BY <1>1, <3>1 DEF Members
  <2> QED
    BY <1>1, <2>1 DEF Members
<1>4. Head(s) \in Members(s)
  BY <1>1 DEF Members
<1> QED
  BY <1>1, <1>2, <1>3, <1>4

LEMMA SmallerSet == ASSUME NEW S, NEW T, S \subseteq T, NEW s \in Seq(S) PROVE s \in Seq(T)
<1>1. Len(s) \in Nat /\ s = [i \in 1 .. Len(s) |-> s[i]] /\ \A i \in 1 .. Len(s) : s[i] \in T
  OBVIOUS
<1> QED
  BY <1>1

-----------------------------------------------------------------------------
(* Flights.                                                                *)

LEMMA FlightParts ==
    ASSUME NEW fl \in FlightState, fl # Free
    PROVE  /\ fl.at \in {"simulate", "submit", "poll", "never", "fee", "send"}
           /\ fl.all \in Seq(Request) /\ fl.rest \in Seq(Request) /\ fl.usable \in Seq(Request)
           /\ fl = [at |-> fl.at, all |-> fl.all, rest |-> fl.rest, usable |-> fl.usable]
           /\ Members(fl.all) \subseteq Request
<1>1. fl \notin [at : {"free"}]
  BY DEF Free
<1>2. fl \in [at : {"simulate", "submit", "poll", "never", "fee", "send"}, all : Seq(Request),
              rest : Seq(Request), usable : Seq(Request)]
  BY <1>1 DEF FlightState
<1> QED
  BY <1>2, MembersTyped

\* Moving on through the rest of the requests.
LEMMA FlightChanges ==
    ASSUME NEW fl \in FlightState, fl # Free, NEW s, NEW u
    PROVE  /\ [fl EXCEPT !.rest = s, !.usable = u]
                  = [at |-> fl.at, all |-> fl.all, rest |-> s, usable |-> u]
           /\ [fl EXCEPT !.rest = s]
                  = [at |-> fl.at, all |-> fl.all, rest |-> s, usable |-> fl.usable]
<1>1. fl \notin [at : {"free"}]
  BY DEF Free
<1>2. fl \in [at : {"simulate", "submit", "poll", "never", "fee", "send"}, all : Seq(Request),
              rest : Seq(Request), usable : Seq(Request)]
  BY <1>1 DEF FlightState
<1>3. PICK a \in {"simulate", "submit", "poll", "never", "fee", "send"}, b \in Seq(Request),
           c \in Seq(Request), d \in Seq(Request) :
          fl = [at |-> a, all |-> b, rest |-> c, usable |-> d]
  BY <1>2
<1>4. [fl EXCEPT !.rest = s] = [at |-> a, all |-> b, rest |-> s, usable |-> d]
  BY <1>3
<1>5. PICK mid : mid = [at |-> a, all |-> b, rest |-> s, usable |-> d]
  OBVIOUS
<1>6. [fl EXCEPT !.rest = s, !.usable = u] = [at |-> a, all |-> b, rest |-> s, usable |-> u]
  <2>1. [fl EXCEPT !.rest = s, !.usable = u] = [[fl EXCEPT !.rest = s] EXCEPT !.usable = u]
    BY <1>3
  <2>2. [mid EXCEPT !.usable = u] = [at |-> a, all |-> b, rest |-> s, usable |-> u]
    BY <1>5
  <2> QED
    BY <1>4, <1>5, <2>1, <2>2
<1>7. fl.at = a /\ fl.all = b /\ fl.usable = d
  BY <1>3
<1> QED
  BY <1>4, <1>5, <1>6, <1>7

\* A flight that is anywhere is not free.
LEMMA Flying ==
    ASSUME NEW f \in Flight, NEW at \in {"simulate", "submit", "poll", "never", "fee", "send"},
           At(f, at)
    PROVE  flight[f] # Free
BY DEF At, Free

\* What fits goes on fitting as more is left out.
LEMMA FitsOn ==
    ASSUME dropped \subseteq dropped', NEW fl, Fits(fl)
    PROVE  Fits(fl)'
BY DEF Fits, Allowed

LEMMA TypesOfFlights == Types => \A f \in Flight : flight[f] \in FlightState
BY DEF Types, RelayerTypeOK

-----------------------------------------------------------------------------
(* The four kinds of step: the world's, a flight that goes on, one that    *)
(* ends, and one that starts.                                              *)

LEMMA WorldKeeps ==
    ASSUME RelayerInv, UNCHANGED <<queueVars, flight, answer, dropped, unknown>>,
           spent' \subseteq Nullifier, faults' \in 0 .. MaxFaults,
           late' \subseteq late, bumped' \subseteq bumped,
           paid \subseteq paid',
           \A r \in paid' : r \in paid \/ r \in bumped \/ \E calls \in late : r \in Members(calls)
    PROVE  RelayerInv'
<1>1. Types'
  <2>1. \A r \in paid' : r \in Request
    BY RelayerConstants DEF RelayerInv, Types, RelayerTypeOK
  <2> QED
    BY <2>1 DEF RelayerInv, Types, RelayerTypeOK, queueVars
<1>2. FlightsFit'
  BY FitsOn DEF RelayerInv, FlightsFit
<1>3. InOnePlace'
  BY DEF RelayerInv, InOnePlace, queueVars
<1>4. Unattended'
  BY DEF RelayerInv, Unattended, Good, Allowed
<1>5. PaidIsTold'
  BY DEF RelayerInv, PaidIsTold, Unattended
<1>6. HashIsSettled'
  BY DEF RelayerInv, HashIsSettled
<1> QED
  BY <1>1, <1>2, <1>3, <1>4, <1>5, <1>6 DEF RelayerInv

\* A flight goes on with the requests it has.
LEMMA FlightGoesOn ==
    ASSUME RelayerInv, NEW f \in Flight, NEW fl, flight[f] # Free, fl # Free,
           flight' = [flight EXCEPT ![f] = fl], fl.all = flight[f].all, Fits(fl)',
           UNCHANGED <<spent, queueVars, late, bumped, answer, paid, unknown>>,
           dropped \subseteq dropped', dropped' \subseteq Request, faults' \in 0 .. MaxFaults
    PROVE  RelayerInv'
<1>1. flight \in [Flight -> FlightState]
  BY DEF RelayerInv, Types, RelayerTypeOK
<1>2. flight'[f] = fl /\ \A g \in Flight : g # f => flight'[g] = flight[g]
  BY <1>1
<1>3. \A g \in Flight : Theirs(flight'[g]) = Theirs(flight[g])
  BY <1>2 DEF Theirs
<1>4. FlightsFit'
  BY <1>2, FitsOn DEF RelayerInv, FlightsFit
<1>5. Types'
  <2>1. fl \in FlightState
    BY DEF Fits
  <2>2. flight' \in [Flight -> FlightState]
    BY <1>1, <2>1
  <2> QED
    BY <2>2 DEF RelayerInv, Types, RelayerTypeOK, queueVars
<1>6. InOnePlace'
  BY <1>3 DEF RelayerInv, InOnePlace, queueVars
<1>7. Unattended' /\ PaidIsTold' /\ HashIsSettled'
  BY DEF RelayerInv, Unattended, Good, Allowed, PaidIsTold, HashIsSettled
<1> QED
  BY <1>4, <1>5, <1>6, <1>7 DEF RelayerInv

\* A flight ends, and everyone in it is answered.
LEMMA FlightEnds ==
    ASSUME RelayerInv, NEW f \in Flight, flight[f] # Free, NEW with \in {"hash", "sent", "error"},
           Answered(flight[f].all, with), Done(f),
           UNCHANGED <<queueVars, dropped>>,
           spent' \subseteq Nullifier, faults' \in 0 .. MaxFaults,
           unknown \subseteq unknown', unknown' \subseteq Request,
           paid \subseteq paid', paid' \subseteq paid \cup Members(flight[f].all),
           with = "error" => paid' = paid,
           with = "hash" => Members(flight[f].all) \subseteq paid' \cup dropped,
           late' \subseteq Seq(Request),
           \A calls \in late' : calls \in late \/ \A r \in Members(calls) : r \in unknown' /\ Good(r),
           bumped' \subseteq Signed,
           \A r \in bumped' : r \in bumped \/ (r \in Members(flight[f].all) /\ (with = "sent" \/ r \in unknown') /\ Good(r))
    PROVE  RelayerInv'
<1> DEFINE all == Members(flight[f].all)
<1>1. /\ flight \in [Flight -> FlightState] /\ answer \in [Request -> {"new", "waiting", "hash", "sent", "error", "cut off"}]
      /\ flight' = [flight EXCEPT ![f] = Free]
  BY DEF RelayerInv, Types, RelayerTypeOK, Done
<1>2. flight'[f] = Free /\ \A g \in Flight : g # f => flight'[g] = flight[g]
  BY <1>1
<1>3. all \subseteq Request /\ all = Theirs(flight[f])
  BY <1>1, FlightParts DEF Theirs
<1>4. \A r \in Request : answer'[r] = IF r \in all THEN with ELSE answer[r]
  BY DEF Answered
<1>5. \A r \in all : answer[r] = "waiting"
  BY <1>3 DEF RelayerInv, InOnePlace
<1> HIDE DEF all
<1>6. Types'
  <2>1. answer' \in [Request -> {"new", "waiting", "hash", "sent", "error", "cut off"}]
    BY <1>1 DEF Answered
  <2>2. flight' \in [Flight -> FlightState]
    <3>1. Free \in FlightState
      BY DEF Free, FlightState
    <3> QED
      BY <1>1, <3>1
  <2>3. paid' \subseteq Request
    BY <1>3 DEF RelayerInv, Types, RelayerTypeOK, all
  <2> QED
    BY <2>1, <2>2, <2>3 DEF RelayerInv, Types, RelayerTypeOK, queueVars
<1>7. FlightsFit'
  <2>1. Fits(Free)'
    BY DEF Fits, Free, FlightState
  <2> QED
    BY <1>2, <2>1, FitsOn DEF RelayerInv, FlightsFit
<1>8. InOnePlace'
  <2>1. \A g \in Flight : Theirs(flight'[g]) = IF g = f THEN {} ELSE Theirs(flight[g])
    BY <1>2 DEF Theirs
  <2>2. \A g \in Flight : Theirs(flight[g]) \subseteq Request
    BY <1>1, FlightParts DEF Theirs
  <2>3. Members(queue) \subseteq Request
    BY MembersTyped, RelayerConstants DEF RelayerInv, Types, RelayerTypeOK
  <2>4. \A g \in Flight : g # f => Theirs(flight[g]) \cap all = {}
    BY <1>3 DEF RelayerInv, InOnePlace
  <2>5. Members(queue) \cap all = {}
    BY <1>3 DEF RelayerInv, InOnePlace
  <2> QED
    BY <1>4, <2>1, <2>2, <2>3, <2>4, <2>5 DEF RelayerInv, InOnePlace, queueVars
<1>9. Unattended'
  <2>1. \A calls \in late' : \A r \in Members(calls) : r \in unknown' /\ Good(r)
    BY DEF RelayerInv, Unattended
  <2>2. ASSUME NEW r \in bumped' PROVE (answer'[r] = "sent" \/ r \in unknown') /\ Good(r)
    <3>1. r \in Request
      BY RelayerConstants
    <3>2. CASE r \in bumped
      <4>1. (answer[r] = "sent" \/ r \in unknown) /\ Good(r)
        BY <3>2 DEF RelayerInv, Unattended
      <4> QED
        BY <1>4, <1>5, <3>1, <4>1
    <3>3. CASE r \in all /\ (with = "sent" \/ r \in unknown') /\ Good(r)
      BY <1>4, <3>1, <3>3
    <3> QED
      BY <3>2, <3>3 DEF all
  <2> QED
    BY <2>1, <2>2 DEF Unattended, Good, Allowed
<1>10. PaidIsTold'
  <2>1. ASSUME NEW r \in paid' PROVE answer'[r] \in {"hash", "sent"} \/ r \in unknown'
    <3>1. r \in Request
      BY <1>6 DEF Types, RelayerTypeOK
    <3>2. CASE r \in all /\ with # "error"
      BY <1>4, <3>1, <3>2
    <3>3. CASE r \in paid
      <4>1. answer[r] \in {"hash", "sent"} \/ r \in unknown
        BY <3>3 DEF RelayerInv, PaidIsTold
      <4> QED
        BY <1>4, <1>5, <3>1, <4>1
    <3> QED
      BY <3>2, <3>3 DEF all
  <2> QED
    BY <2>1 DEF PaidIsTold
<1>11. HashIsSettled'
  <2>1. ASSUME NEW r \in Request, answer'[r] = "hash" PROVE r \in paid' \cup dropped
    <3>1. CASE r \in all
      BY <1>4, <2>1, <3>1 DEF all
    <3>2. CASE r \notin all
      BY <1>4, <2>1, <3>2 DEF RelayerInv, HashIsSettled
    <3> QED
      BY <3>1, <3>2
  <2> QED
    BY <2>1 DEF HashIsSettled
<1> QED
  BY <1>6, <1>7, <1>8, <1>9, <1>10, <1>11 DEF RelayerInv

\* A free flight takes up requests from the queue, and perhaps a new one.
LEMMA FlightStarts ==
    ASSUME RelayerInv, NEW f \in Flight, flight[f] = Free, NEW fl, fl # Free,
           flight' = [flight EXCEPT ![f] = fl], Fits(fl)', NEW new, new \subseteq Request,
           \A r \in new : answer[r] = "new",
           answer' = [r \in Request |-> IF r \in new THEN "waiting" ELSE answer[r]],
           queue' \in Seq(Batched), Len(queue') < BATCH_MAX, batchTimer' \in {"null", "set", "fired"},
           Members(fl.all) \subseteq Members(queue) \cup new, Members(queue') \subseteq Members(queue),
           Members(queue') \cap Members(fl.all) = {},
           UNCHANGED <<spent, late, bumped, ghostVars, faults>>
    PROVE  RelayerInv'
<1>1. /\ flight \in [Flight -> FlightState] /\ paid \subseteq Request
      /\ answer \in [Request -> {"new", "waiting", "hash", "sent", "error", "cut off"}]
      /\ bumped \subseteq Request
  BY RelayerConstants DEF RelayerInv, Types, RelayerTypeOK
<1>2. flight'[f] = fl /\ \A g \in Flight : g # f => flight'[g] = flight[g]
  BY <1>1
<1>3. Types'
  <2>1. flight' \in [Flight -> FlightState]
    BY <1>1 DEF Fits
  <2>2. answer' \in [Request -> {"new", "waiting", "hash", "sent", "error", "cut off"}]
    BY <1>1
  <2> QED
    BY <2>1, <2>2 DEF RelayerInv, Types, RelayerTypeOK, ghostVars
<1>4. FlightsFit'
  <2>1. dropped' = dropped
    BY DEF ghostVars
  <2> QED
    BY <1>2, <2>1, FitsOn DEF RelayerInv, FlightsFit
<1>5. InOnePlace'
  <2>1. \A g \in Flight : Theirs(flight'[g]) = IF g = f THEN Members(fl.all) ELSE Theirs(flight[g])
    BY <1>2 DEF Theirs
  <2>2. Members(queue) \subseteq Request /\ \A r \in Members(queue) : answer[r] = "waiting"
    BY MembersTyped, RelayerConstants DEF RelayerInv, Types, RelayerTypeOK, InOnePlace
  <2>3. ASSUME NEW g \in Flight
        PROVE  /\ Theirs(flight[g]) \subseteq Request /\ Theirs(flight[g]) \cap Members(queue) = {}
               /\ \A r \in Theirs(flight[g]) : answer[r] = "waiting"
    BY <1>1, FlightParts DEF Theirs, RelayerInv, InOnePlace
  <2>4. \A g \in Flight : Theirs(flight[g]) \cap (Members(queue) \cup new) = {}
    BY <2>3
  <2>5. \A g, h \in Flight : g # h => Theirs(flight'[g]) \cap Theirs(flight'[h]) = {}
    BY <2>1, <2>4 DEF RelayerInv, InOnePlace
  <2>6. \A g \in Flight : Theirs(flight'[g]) \cap Members(queue') = {}
    BY <2>1, <2>4
  <2>7. \A r \in Members(queue) \cup new : answer'[r] = "waiting"
    BY <2>2
  <2>8. \A g \in Flight : \A r \in Theirs(flight'[g]) : answer'[r] = "waiting"
    BY <2>1, <2>3, <2>7
  <2> QED
    BY <2>5, <2>6, <2>7, <2>8 DEF InOnePlace
<1>6. Unattended'
  BY <1>1 DEF RelayerInv, Unattended, Good, Allowed, ghostVars
<1>7. PaidIsTold' /\ HashIsSettled'
  BY <1>1 DEF RelayerInv, PaidIsTold, HashIsSettled, ghostVars
<1> QED
  BY <1>3, <1>4, <1>5, <1>6, <1>7 DEF RelayerInv

-----------------------------------------------------------------------------
(* The queue and the requests.                                             *)

\* A batch that starts fits.
LEMMA BatchFits ==
    ASSUME NEW batch \in Seq(Request)
    PROVE  Fits([at |-> "simulate", all |-> batch, usable |-> <<>>, rest |-> batch])
<1> DEFINE fl == [at |-> "simulate", all |-> batch, usable |-> <<>>, rest |-> batch]
<1>1. <<>> \in Seq(Request)
  OBVIOUS
<1>2. fl \in FlightState
  BY <1>1 DEF FlightState
<1>3. /\ fl.at = "simulate" /\ fl.all = batch /\ fl.usable = <<>> /\ fl.rest = batch
  OBVIOUS
<1> HIDE DEF fl
<1> QED
  BY <1>2, <1>3, MembersOfNone DEF Fits, fl

\* So does a call, or a client's transaction, to a contract that is allowed.
LEMMA CallFits ==
    ASSUME NEW r \in Request, Allowed(r)
    PROVE  /\ r \notin Batched =>
                  Fits([at |-> "submit", all |-> <<r>>, usable |-> <<r>>, rest |-> <<>>])
           /\ r \in Signed =>
                  Fits([at |-> "fee", all |-> <<r>>, usable |-> <<>>, rest |-> <<r>>])
<1> DEFINE call == [at |-> "submit", all |-> <<r>>, usable |-> <<r>>, rest |-> <<>>]
           own == [at |-> "fee", all |-> <<r>>, usable |-> <<>>, rest |-> <<r>>]
<1>1. <<>> \in Seq(Request) /\ <<r>> \in Seq(Request)
  OBVIOUS
<1>2. call \in FlightState /\ own \in FlightState
  BY <1>1 DEF FlightState
<1>3. /\ call.at = "submit" /\ call.all = <<r>> /\ call.usable = <<r>> /\ call.rest = <<>>
      /\ own.at = "fee" /\ own.all = <<r>> /\ own.usable = <<>> /\ own.rest = <<r>>
  OBVIOUS
<1> HIDE DEF call, own
<1>4. Members(<<r>>) = {r} /\ Members(<<>>) = {}
  BY MembersOfOne, MembersOfNone
<1>5. r \notin Batched => Fits(call)
  BY <1>2, <1>3, <1>4 DEF Fits
<1>6. r \in Signed => Fits(own)
  BY <1>2, <1>3, <1>4 DEF Fits
<1> QED
  BY <1>5, <1>6 DEF call, own

\* The whole queue, and perhaps the request that fills it, is taken.
LEMMA FlushKeeps ==
    ASSUME RelayerInv, NEW f \in Flight, NEW batch \in Seq(Batched), FlushBatch(f, batch),
           NEW new, new \subseteq Request, \A r \in new : answer[r] = "new",
           Members(batch) \subseteq Members(queue) \cup new,
           answer' = [r \in Request |-> IF r \in new THEN "waiting" ELSE answer[r]],
           UNCHANGED <<spent, late, bumped, ghostVars, faults>>
    PROVE  RelayerInv'
<1>1. batch \in Seq(Request)
  BY SmallerSet, RelayerConstants
<1>2. PICK fl : fl = [at |-> "simulate", all |-> batch, usable |-> <<>>, rest |-> batch]
  OBVIOUS
<1>3. flight[f] = Free /\ flight' = [flight EXCEPT ![f] = fl]
  BY <1>2 DEF FlushBatch, Start
<1>4. queue' = <<>> /\ batchTimer' = "null"
  BY DEF FlushBatch
<1>5. fl # Free /\ fl.all = batch
  BY <1>2 DEF Free
<1>6. Fits(fl)'
  <2>1. Fits(fl)
    BY <1>1, <1>2, BatchFits
  <2> QED
    BY <2>1, FitsOn DEF ghostVars
<1>7. queue' \in Seq(Batched) /\ Len(queue') < BATCH_MAX /\ Members(queue') = {}
  BY <1>4, MembersOfNone, RelayerConstants
<1>8. batchTimer' \in {"null", "set", "fired"} /\ Members(fl.all) \subseteq Members(queue) \cup new
  BY <1>4, <1>5
<1> QED
  BY <1>3, <1>5, <1>6, <1>7, <1>8, FlightStarts

LEMMA EnqueueKeeps ==
    ASSUME RelayerInv, NEW r \in Request, EnqueueWithdrawal(r)
    PROVE  RelayerInv'
<1>1. /\ r \in Batched /\ answer[r] = "new" /\ queue \in Seq(Batched) /\ queue \in Seq(Request)
      /\ answer \in [Request -> {"new", "waiting", "hash", "sent", "error", "cut off"}]
      /\ answer' = [answer EXCEPT ![r] = "waiting"]
      /\ UNCHANGED <<spent, late, bumped, ghostVars, faults>>
  BY RelayerConstants, SmallerSet DEF RelayerInv, Types, RelayerTypeOK, EnqueueWithdrawal
<1>2. /\ Append(queue, r) \in Seq(Batched) /\ Members(Append(queue, r)) = Members(queue) \cup {r}
  <2>1. queue \in Seq(Batched) /\ r \in Batched
    BY <1>1
  <2> QED
    BY <2>1, MembersOfAppend
<1>5. Len(queue) \in Nat /\ Len(Append(queue, r)) = Len(queue) + 1 /\ BATCH_MAX \in Nat
  <2>1. queue \in Seq(Batched) /\ r \in Batched
    BY <1>1
  <2>2. Len(queue) \in Nat /\ Len(Append(queue, r)) = Len(queue) + 1
    BY <2>1
  <2> QED
    BY <2>2, RelayerConstants
<1>3. CASE Len(queue) + 1 >= BATCH_MAX
  <2>1. PICK f \in Flight : FlushBatch(f, Append(queue, r))
    BY <1>3 DEF EnqueueWithdrawal
  <2>2. PICK batch : batch = Append(queue, r)
    OBVIOUS
  <2>3. batch \in Seq(Batched) /\ FlushBatch(f, batch) /\ Members(batch) \subseteq Members(queue) \cup {r}
    BY <1>2, <2>1, <2>2
  <2>4. answer' = [q \in Request |-> IF q \in {r} THEN "waiting" ELSE answer[q]]
    BY <1>1
  <2>5. \A q \in {r} : answer[q] = "new"
    BY <1>1
  <2> QED
    BY <1>1, <2>3, <2>4, <2>5, FlushKeeps
<1>4. CASE ~(Len(queue) + 1 >= BATCH_MAX)
  <2>1. /\ queue' = Append(queue, r) /\ flight' = flight
        /\ batchTimer' = IF batchTimer = "null" THEN "set" ELSE batchTimer
    BY <1>4 DEF EnqueueWithdrawal
  <2>2. Types'
    <3>1. Len(queue') < BATCH_MAX
      BY <1>4, <1>5, <2>1
    <3>2. answer' \in [Request -> {"new", "waiting", "hash", "sent", "error", "cut off"}]
      BY <1>1
    <3>3. batchTimer' \in {"null", "set", "fired"}
      BY <2>1 DEF RelayerInv, Types, RelayerTypeOK
    <3> QED
      BY <1>1, <1>2, <2>1, <3>1, <3>2, <3>3 DEF RelayerInv, Types, RelayerTypeOK, ghostVars
  <2>3. FlightsFit'
    BY <1>1, <2>1, FitsOn DEF RelayerInv, FlightsFit, ghostVars
  <2>4. InOnePlace'
    <3>1. Members(queue') = Members(queue) \cup {r} /\ Members(queue) \subseteq Request
      BY <1>1, <1>2, <2>1, MembersTyped
    <3>2. \A f \in Flight : Theirs(flight'[f]) = Theirs(flight[f]) /\ Theirs(flight[f]) \subseteq Request
      BY <2>1, TypesOfFlights, FlightParts DEF Theirs, RelayerInv
    <3>3. \A q \in Request : answer'[q] = IF q = r THEN "waiting" ELSE answer[q]
      BY <1>1
    <3>4. \A f \in Flight : r \notin Theirs(flight[f])
      BY <1>1 DEF RelayerInv, InOnePlace
    <3> QED
      BY <3>1, <3>2, <3>3, <3>4 DEF RelayerInv, InOnePlace
  <2>5. Unattended' /\ PaidIsTold' /\ HashIsSettled'
    <3>1. \A q \in Request : q # r => answer'[q] = answer[q]
      BY <1>1
    <3>2. bumped \subseteq Request /\ paid \subseteq Request
      BY RelayerConstants DEF RelayerInv, Types, RelayerTypeOK
    <3>3. answer'[r] = "waiting"
      BY <1>1
    <3>4. Unattended'
      BY <1>1, <3>1, <3>2 DEF RelayerInv, Unattended, Good, Allowed, ghostVars
    <3>5. PaidIsTold'
      BY <1>1, <3>1, <3>2 DEF RelayerInv, PaidIsTold, ghostVars
    <3>6. HashIsSettled'
      BY <1>1, <3>1, <3>3 DEF RelayerInv, HashIsSettled, ghostVars
    <3> QED
      BY <3>4, <3>5, <3>6
  <2> QED
    BY <2>2, <2>3, <2>4, <2>5 DEF RelayerInv
<1> QED
  BY <1>3, <1>4

LEMMA TimerKeeps == RelayerInv /\ BatchTimerFires => RelayerInv'
<1> SUFFICES ASSUME RelayerInv, BatchTimerFires PROVE RelayerInv'
  OBVIOUS
<1>1. PICK f \in Flight : FlushBatch(f, queue)
  BY DEF BatchTimerFires
<1>2. PICK batch : batch = queue
  OBVIOUS
<1>3. PICK none : none = {}
  OBVIOUS
<1>4. batch \in Seq(Batched) /\ FlushBatch(f, batch) /\ Members(batch) \subseteq Members(queue) \cup none
  BY <1>1, <1>2 DEF RelayerInv, Types, RelayerTypeOK
<1>5. answer' = [q \in Request |-> IF q \in none THEN "waiting" ELSE answer[q]]
  BY <1>3 DEF BatchTimerFires, RelayerInv, Types, RelayerTypeOK
<1>6. UNCHANGED <<spent, late, bumped, ghostVars, faults>>
  BY DEF BatchTimerFires
<1>7. (\A q \in none : answer[q] = "new") /\ none \subseteq Request
  BY <1>3
<1> QED
  BY <1>4, <1>5, <1>6, <1>7, FlushKeeps, Zenon

\* A call or a client's transaction, taken up or refused.
LEMMA TakeUpKeeps ==
    ASSUME RelayerInv, NEW r \in Request, answer[r] = "new",
           (TakeUp(r, "submit") /\ r \notin Batched) \/ (TakeUp(r, "fee") /\ r \in Signed),
           UNCHANGED <<spent, queueVars, late, bumped, ghostVars, faults>>
    PROVE  RelayerInv'
<1>1. /\ answer \in [Request -> {"new", "waiting", "hash", "sent", "error", "cut off"}]
      /\ bumped \subseteq Request /\ paid \subseteq Request /\ queue \in Seq(Batched)
      /\ Len(queue) < BATCH_MAX /\ batchTimer \in {"null", "set", "fired"}
      /\ Members(queue) \subseteq Request
  BY RelayerConstants, MembersTyped DEF RelayerInv, Types, RelayerTypeOK
<1>2. CASE Allowed(r)
  <2>1. /\ answer' = [q \in Request |-> IF q \in {r} THEN "waiting" ELSE answer[q]]
        /\ \A q \in {r} : answer[q] = "new"
    BY <1>1, <1>2 DEF TakeUp
  <2>2. PICK f \in Flight :
            /\ flight[f] = Free
            /\ (Start(f, "submit", <<r>>) /\ r \notin Batched) \/ (Start(f, "fee", <<r>>) /\ r \in Signed)
    BY <1>2 DEF TakeUp
  <2>3. PICK fl : /\ flight' = [flight EXCEPT ![f] = fl] /\ Fits(fl)
                  /\ fl # Free /\ fl.all = <<r>>
    <3>1. CASE Start(f, "submit", <<r>>) /\ r \notin Batched
      <4>1. flight' = [flight EXCEPT ![f] = [at |-> "submit", all |-> <<r>>, usable |-> <<r>>, rest |-> <<>>]]
        BY <3>1 DEF Start
      <4>2. Fits([at |-> "submit", all |-> <<r>>, usable |-> <<r>>, rest |-> <<>>])
        BY <1>2, <3>1, CallFits
      <4>3. [at |-> "submit", all |-> <<r>>, usable |-> <<r>>, rest |-> <<>>] # Free
        BY DEF Free
      <4>4. PICK fl : fl = [at |-> "submit", all |-> <<r>>, usable |-> <<r>>, rest |-> <<>>]
        OBVIOUS
      <4>5. fl.all = <<r>>
        BY <4>4
      <4> QED
        BY <4>1, <4>2, <4>3, <4>4, <4>5
    <3>2. CASE Start(f, "fee", <<r>>) /\ r \in Signed
      <4>1. flight' = [flight EXCEPT ![f] = [at |-> "fee", all |-> <<r>>, usable |-> <<>>, rest |-> <<r>>]]
        BY <3>2 DEF Start
      <4>2. Fits([at |-> "fee", all |-> <<r>>, usable |-> <<>>, rest |-> <<r>>])
        BY <1>2, <3>2, CallFits
      <4>3. [at |-> "fee", all |-> <<r>>, usable |-> <<>>, rest |-> <<r>>] # Free
        BY DEF Free
      <4>4. PICK fl : fl = [at |-> "fee", all |-> <<r>>, usable |-> <<>>, rest |-> <<r>>]
        OBVIOUS
      <4>5. fl.all = <<r>>
        BY <4>4
      <4> QED
        BY <4>1, <4>2, <4>3, <4>4, <4>5
    <3> QED
      BY <2>2, <3>1, <3>2
  <2>4. Fits(fl)'
    BY <2>3, FitsOn DEF ghostVars
  <2>5. Members(fl.all) = {r}
    BY <2>3, MembersOfOne
  <2>6. r \notin Members(queue)
    BY DEF RelayerInv, InOnePlace
  <2>7. /\ queue' \in Seq(Batched) /\ Len(queue') < BATCH_MAX
        /\ batchTimer' \in {"null", "set", "fired"} /\ Members(queue') = Members(queue)
    BY <1>1 DEF queueVars
  <2>8. PICK new : new = {r} /\ new \subseteq Request
    OBVIOUS
  <2>9. /\ answer' = [q \in Request |-> IF q \in new THEN "waiting" ELSE answer[q]]
        /\ \A q \in new : answer[q] = "new"
    BY <2>1, <2>8
  <2>10. /\ Members(fl.all) \subseteq Members(queue) \cup new
         /\ Members(queue') \subseteq Members(queue) /\ Members(queue') \cap Members(fl.all) = {}
    BY <2>5, <2>6, <2>7, <2>8
  <2> QED
    BY <2>2, <2>3, <2>4, <2>7, <2>8, <2>9, <2>10, FlightStarts
<1>3. CASE ~Allowed(r)
  <2>1. answer' = [answer EXCEPT ![r] = "error"] /\ flight' = flight
    BY <1>3 DEF TakeUp
  <2>2. Types'
    <3>1. answer' \in [Request -> {"new", "waiting", "hash", "sent", "error", "cut off"}]
      BY <1>1, <2>1
    <3> QED
      BY <2>1, <3>1 DEF RelayerInv, Types, RelayerTypeOK, ghostVars, queueVars
  <2>3. FlightsFit'
    BY <2>1, FitsOn DEF RelayerInv, FlightsFit, ghostVars
  <2>4. \A q \in Request : q # r => answer'[q] = answer[q]
    BY <1>1, <2>1
  <2>5. InOnePlace'
    <3>1. \A f \in Flight : Theirs(flight[f]) \subseteq Request /\ r \notin Theirs(flight[f])
      BY TypesOfFlights, FlightParts DEF Theirs, RelayerInv, InOnePlace
    <3>2. r \notin Members(queue)
      BY DEF RelayerInv, InOnePlace
    <3> QED
      BY <1>1, <2>1, <2>4, <3>1, <3>2 DEF RelayerInv, InOnePlace, queueVars
  <2>6. Unattended' /\ PaidIsTold'
    BY <1>1, <2>4 DEF RelayerInv, Unattended, Good, Allowed, PaidIsTold, ghostVars
  <2>7. HashIsSettled'
    <3>1. answer'[r] = "error"
      BY <1>1, <2>1
    <3> QED
      BY <2>4, <3>1 DEF RelayerInv, HashIsSettled, ghostVars
  <2> QED
    BY <2>2, <2>3, <2>5, <2>6, <2>7 DEF RelayerInv
<1> QED
  BY <1>2, <1>3

-----------------------------------------------------------------------------
(* The flights' steps.                                                     *)

\* What is known of a flight under way.
LEMMA InFlight ==
    ASSUME RelayerInv, NEW f \in Flight, flight[f] # Free
    PROVE  /\ flight \in [Flight -> FlightState] /\ Fits(flight[f])
           /\ flight[f].all \in Seq(Request) /\ flight[f].rest \in Seq(Request)
           /\ flight[f].usable \in Seq(Request)
           /\ Members(flight[f].all) \subseteq Request
           /\ Members(flight[f].usable) \subseteq Members(flight[f].all)
           /\ \A r \in Members(flight[f].all) : answer[r] = "waiting"
           /\ spent \subseteq Nullifier /\ faults \in 0 .. MaxFaults
           /\ late \subseteq Seq(Request) /\ bumped \subseteq Signed
           /\ unknown \subseteq Request /\ paid \subseteq Request /\ dropped \subseteq Request
<1>1. flight \in [Flight -> FlightState] /\ Fits(flight[f])
  BY DEF RelayerInv, Types, RelayerTypeOK, FlightsFit
<1>2. /\ flight[f].all \in Seq(Request) /\ flight[f].rest \in Seq(Request)
      /\ flight[f].usable \in Seq(Request) /\ Members(flight[f].all) \subseteq Request
  BY <1>1, FlightParts
<1>3. Theirs(flight[f]) = Members(flight[f].all)
  BY DEF Theirs
<1> QED
  BY <1>1, <1>2, <1>3 DEF Fits, RelayerInv, InOnePlace, Types, RelayerTypeOK

LEMMA FaultCounted == Types /\ Fault => faults' \in 0 .. MaxFaults
<1> SUFFICES ASSUME Types, Fault PROVE faults' \in 0 .. MaxFaults
  OBVIOUS
<1>1. faults \in 0 .. MaxFaults /\ MaxFaults \in Nat
  BY RelayerConstants DEF Types, RelayerTypeOK
<1>2. faults < MaxFaults /\ faults' = faults + 1
  BY DEF Fault
<1> QED
  BY <1>1, <1>2

\* A flight that ends with an error, while nothing was paid.
LEMMA ErrorKeeps ==
    ASSUME RelayerInv, NEW f \in Flight, flight[f] # Free,
           Answered(flight[f].all, "error"), Done(f),
           UNCHANGED <<spent, queueVars, late, bumped, paid, dropped, unknown>>,
           faults' \in 0 .. MaxFaults
    PROVE  RelayerInv'
<1>1. /\ spent' \subseteq Nullifier /\ late' \subseteq Seq(Request) /\ bumped' \subseteq Signed
      /\ unknown' \subseteq Request
  BY InFlight
<1>2. PICK with : with = "error"
  OBVIOUS
<1>3. with \in {"hash", "sent", "error"} /\ Answered(flight[f].all, with)
  BY <1>2
<1>4. /\ paid' = paid /\ late' = late /\ bumped' = bumped /\ unknown' = unknown
      /\ UNCHANGED <<queueVars, dropped>>
  OBVIOUS
<1>5. /\ paid \subseteq paid' /\ paid' \subseteq paid \cup Members(flight[f].all) /\ paid' = paid
      /\ \A calls \in late' : calls \in late \/ \A r \in Members(calls) : r \in unknown' /\ Good(r)
      /\ \A r \in bumped' : r \in bumped \/ (r \in Members(flight[f].all) /\ (with = "sent" \/ r \in unknown') /\ Good(r))
      /\ unknown \subseteq unknown' /\ with # "hash"
  BY <1>2, <1>4
<1> QED
  BY <1>1, <1>3, <1>4, <1>5, FlightEnds

LEMMA SimulationKeeps ==
    ASSUME RelayerInv, NEW f \in Flight, SimulatesCleanly(f)
    PROVE  RelayerInv'
<1>1. /\ At(f, "simulate") /\ flight[f].rest # <<>>
      /\ UNCHANGED <<spent, queueVars, late, bumped, answer, paid, unknown>>
  BY DEF SimulatesCleanly
<1>2. flight[f] # Free /\ flight[f].at = "simulate"
  BY <1>1, Flying DEF At
<1>3. /\ flight \in [Flight -> FlightState] /\ Fits(flight[f]) /\ flight[f].rest \in Seq(Request)
      /\ flight[f].usable \in Seq(Request) /\ dropped \subseteq Request /\ faults \in 0 .. MaxFaults
  BY <1>2, InFlight
<1>4. PICK old : old = flight[f]
  OBVIOUS
<1>5. PICK r : r = Head(old.rest)
  OBVIOUS
<1>6. r \in Request /\ Tail(old.rest) \in Seq(Request) /\ Members(old.rest) = {r} \cup Members(Tail(old.rest))
  <2>1. old.rest \in Seq(Request) /\ old.rest # <<>>
    BY <1>1, <1>3, <1>4
  <2> QED
    BY <1>5, <2>1, MembersOfTail
<1>7. old = [at |-> "simulate", all |-> old.all, rest |-> old.rest, usable |-> old.usable]
  BY <1>2, <1>3, <1>4, FlightParts DEF Fits
<1>8. /\ old.all \in Seq(Request) /\ old.usable \in Seq(Request)
      /\ Members(old.usable) \subseteq Members(old.all) /\ Members(old.rest) \subseteq Members(old.all)
      /\ Members(old.all) \subseteq Members(old.usable) \cup Members(old.rest) \cup dropped
      /\ Members(old.usable) \subseteq Sound
  BY <1>2, <1>3, <1>4, FlightParts DEF Fits
<1>9. old \in FlightState /\ old # Free /\ old.at = "simulate"
  BY <1>2, <1>3, <1>4 DEF Fits
<1>10. CASE /\ Succeeds(<<r>>) /\ UNCHANGED <<dropped, faults>>
           /\ flight' = [flight EXCEPT ![f].rest = Tail(@), ![f].usable = Append(@, r)]
  <2>1. PICK fl : fl = [at |-> "simulate", all |-> old.all, rest |-> Tail(old.rest),
                        usable |-> Append(old.usable, r)]
    OBVIOUS
  <2>2. flight' = [flight EXCEPT ![f] = fl]
    <3>1. flight' = [flight EXCEPT ![f] = [old EXCEPT !.rest = Tail(old.rest), !.usable = Append(old.usable, r)]]
      BY <1>3, <1>4, <1>10
    <3>2. [old EXCEPT !.rest = Tail(old.rest), !.usable = Append(old.usable, r)] = fl
      <4>1. [old EXCEPT !.rest = Tail(old.rest), !.usable = Append(old.usable, r)]
               = [at |-> old.at, all |-> old.all, rest |-> Tail(old.rest), usable |-> Append(old.usable, r)]
        BY <1>9, FlightChanges, Zenon
      <4> QED
        BY <1>9, <2>1, <4>1
    <3> QED
      BY <3>1, <3>2
  <2>3. Append(old.usable, r) \in Seq(Request) /\ Members(Append(old.usable, r)) = Members(old.usable) \cup {r}
    BY <1>6, <1>8, MembersOfAppend
  <2>4. r \in Sound
    BY <1>10, MembersOfOne DEF Succeeds
  <2>5. /\ fl.at = "simulate" /\ fl.all = old.all /\ fl.rest = Tail(old.rest)
        /\ fl.usable = Append(old.usable, r)
    BY <2>1
  <2>6. Fits(fl)'
    <3>1. fl \in FlightState
      BY <1>6, <1>8, <2>1, <2>3 DEF FlightState
    <3>2. dropped' = dropped
      BY <1>10
    <3> QED
      BY <1>6, <1>8, <2>3, <2>4, <2>5, <3>1, <3>2 DEF Fits
  <2>7. fl # Free
    BY <2>5 DEF Free
  <2>8. dropped \subseteq dropped' /\ dropped' \subseteq Request /\ faults' \in 0 .. MaxFaults
    BY <1>3, <1>10
  <2> QED
    BY <1>1, <1>2, <1>4, <2>2, <2>5, <2>6, <2>7, <2>8, FlightGoesOn
<1>11. CASE /\ IF Succeeds(<<r>>) THEN Fault ELSE UNCHANGED faults
            /\ flight' = [flight EXCEPT ![f].rest = Tail(@)]
            /\ dropped' = dropped \cup {r}
  <2>1. PICK fl : fl = [at |-> "simulate", all |-> old.all, rest |-> Tail(old.rest),
                        usable |-> old.usable]
    OBVIOUS
  <2>2. flight' = [flight EXCEPT ![f] = fl]
    <3>1. flight' = [flight EXCEPT ![f] = [old EXCEPT !.rest = Tail(old.rest)]]
      BY <1>3, <1>4, <1>11
    <3>2. [old EXCEPT !.rest = Tail(old.rest)] = fl
      <4>1. [old EXCEPT !.rest = Tail(old.rest)]
               = [at |-> old.at, all |-> old.all, rest |-> Tail(old.rest), usable |-> old.usable]
        BY <1>9, FlightChanges, Zenon
      <4> QED
        BY <1>9, <2>1, <4>1
    <3> QED
      BY <3>1, <3>2
  <2>5. /\ fl.at = "simulate" /\ fl.all = old.all /\ fl.rest = Tail(old.rest)
        /\ fl.usable = old.usable
    BY <2>1
  <2>6. Fits(fl)'
    <3>1. fl \in FlightState
      BY <1>6, <1>8, <2>1 DEF FlightState
    <3> QED
      BY <1>6, <1>8, <1>11, <2>5, <3>1 DEF Fits
  <2>7. fl # Free
    BY <2>5 DEF Free
  <2>8. dropped \subseteq dropped' /\ dropped' \subseteq Request
    BY <1>3, <1>6, <1>11
  <2>9. faults' \in 0 .. MaxFaults
    BY <1>3, <1>11, FaultCounted DEF RelayerInv
  <2> QED
    BY <1>1, <1>2, <1>4, <2>2, <2>5, <2>6, <2>7, <2>8, <2>9, FlightGoesOn
<1> QED
  BY <1>4, <1>5, <1>10, <1>11 DEF SimulatesCleanly

\* A flight that moves on to its next stage as it is.
LEMMA StageKeeps ==
    ASSUME RelayerInv, NEW f \in Flight, flight[f] # Free,
           NEW at \in {"submit", "poll", "never", "send"},
           flight' = [flight EXCEPT ![f].at = at],
           \/ /\ flight[f].at = "simulate" /\ flight[f].rest = <<>> /\ at = "submit"
              /\ \A r \in Members(flight[f].all) : Allowed(r)
           \/ flight[f].at = "submit" /\ at \in {"poll", "never"} /\ Succeeds(flight[f].usable)
           \/ flight[f].at = "fee" /\ at = "send" /\ Succeeds(flight[f].all),
           UNCHANGED <<spent, queueVars, late, bumped, answer, ghostVars, faults>>
    PROVE  RelayerInv'
<1>1. /\ flight \in [Flight -> FlightState] /\ Fits(flight[f]) /\ dropped \subseteq Request
      /\ faults \in 0 .. MaxFaults
  BY InFlight
<1>2. PICK old : old = flight[f]
  OBVIOUS
<1>3. /\ old = [at |-> old.at, all |-> old.all, rest |-> old.rest, usable |-> old.usable]
      /\ old.all \in Seq(Request) /\ old.rest \in Seq(Request) /\ old.usable \in Seq(Request)
  BY <1>1, <1>2, FlightParts DEF Fits
<1>4. PICK fl : fl = [at |-> at, all |-> old.all, rest |-> old.rest, usable |-> old.usable]
  OBVIOUS
<1>5. flight' = [flight EXCEPT ![f] = fl]
  <2>1. flight' = [flight EXCEPT ![f] = [old EXCEPT !.at = at]]
    BY <1>1, <1>2
  <2>2. [old EXCEPT !.at = at] = fl
    BY <1>3, <1>4
  <2> QED
    BY <2>1, <2>2
<1>6. fl.at = at /\ fl.all = old.all /\ fl.rest = old.rest /\ fl.usable = old.usable
  BY <1>4
<1>7. fl # Free
  BY <1>6 DEF Free
<1>8. Fits(fl)
  <2>1. fl \in FlightState
    BY <1>3, <1>4 DEF FlightState
  <2>2. Succeeds(old.usable) => Members(old.usable) \subseteq Sound
    BY DEF Succeeds
  <2>3. Succeeds(old.all) => Members(old.all) \subseteq Sound
    BY DEF Succeeds
  <2> QED
    BY <1>1, <1>2, <1>6, <2>1, <2>2, <2>3, MembersOfNone DEF Fits
<1>9. Fits(fl)'
  BY <1>8, FitsOn DEF ghostVars
<1>10. dropped \subseteq dropped' /\ dropped' \subseteq Request /\ faults' \in 0 .. MaxFaults
  BY <1>1 DEF ghostVars
<1> QED
  BY <1>2, <1>5, <1>6, <1>7, <1>9, <1>10, FlightGoesOn DEF ghostVars

LEMMA SimulatedKeeps ==
    ASSUME RelayerInv, NEW f \in Flight, Simulated(f) \/ RefuseMixedPools(f)
    PROVE  RelayerInv'
<1>1. At(f, "simulate") /\ UNCHANGED <<spent, queueVars, late, bumped, ghostVars, faults>>
  BY DEF Simulated, RefuseMixedPools
<1>2. flight[f] # Free
  BY <1>1, Flying
<1>3. CASE Answered(flight[f].all, "error") /\ Done(f)
  <2>1. faults' \in 0 .. MaxFaults
    BY <1>1, <1>2, InFlight
  <2> QED
    BY <1>1, <1>2, <1>3, <2>1, ErrorKeeps DEF ghostVars
<1>4. CASE Simulated(f) /\ flight' = [flight EXCEPT ![f].at = "submit"] /\ answer' = answer
  <2>1. flight[f].at = "simulate" /\ flight[f].rest = <<>>
    BY <1>4 DEF Simulated, At
  <2>2. \A r \in Members(flight[f].all) : Allowed(r)
    BY <1>4 DEF Simulated, MixedPools
  <2>3. PICK at : at = "submit"
    OBVIOUS
  <2>4. at \in {"submit", "poll", "never", "send"} /\ flight' = [flight EXCEPT ![f].at = at]
    BY <1>4, <2>3
  <2>5. UNCHANGED <<spent, queueVars, late, bumped, answer, ghostVars, faults>>
    BY <1>1, <1>4
  <2> QED
    BY <1>2, <2>1, <2>2, <2>3, <2>4, <2>5, StageKeeps
<1> QED
  BY <1>3, <1>4 DEF Simulated, RefuseMixedPools

LEMMA SubmitKeeps ==
    ASSUME RelayerInv, NEW f \in Flight, Submit(f)
    PROVE  RelayerInv'
<1>1. /\ At(f, "submit") /\ Succeeds(flight[f].usable)
      /\ UNCHANGED <<spent, queueVars, late, bumped, answer, ghostVars, faults>>
  BY DEF Submit
<1>2. PICK at \in {"poll", "never"} : flight' = [flight EXCEPT ![f].at = at]
  BY DEF Submit
<1>3. flight[f] # Free /\ flight[f].at = "submit"
  BY <1>1, Flying DEF At
<1> QED
  BY <1>1, <1>2, <1>3, StageKeeps

LEMMA SubmitRefusedKeeps ==
    ASSUME RelayerInv, NEW f \in Flight, SubmitRefused(f)
    PROVE  RelayerInv'
<1>1. /\ At(f, "submit") /\ Answered(flight[f].all, "error") /\ Done(f)
      /\ UNCHANGED <<spent, queueVars, late, bumped, ghostVars>>
      /\ Fault \/ faults' = faults
  BY DEF SubmitRefused
<1>2. flight[f] # Free
  BY <1>1, Flying
<1>3. faults' \in 0 .. MaxFaults
  BY <1>1, <1>2, InFlight, FaultCounted DEF RelayerInv
<1> QED
  BY <1>1, <1>2, <1>3, ErrorKeeps DEF ghostVars

LEMMA FailedKeeps ==
    ASSUME RelayerInv, NEW f \in Flight, FailedOnChain(f)
    PROVE  RelayerInv'
<1>1. /\ At(f, "poll") /\ Answered(flight[f].all, "error") /\ Done(f)
      /\ UNCHANGED <<spent, queueVars, late, bumped, ghostVars, faults>>
  BY DEF FailedOnChain
<1>2. flight[f] # Free
  BY <1>1, Flying
<1>3. faults' \in 0 .. MaxFaults
  BY <1>1, <1>2, InFlight
<1> QED
  BY <1>1, <1>2, <1>3, ErrorKeeps DEF ghostVars

LEMMA FetchBaseFeeKeeps ==
    ASSUME RelayerInv, NEW f \in Flight, FetchBaseFee(f)
    PROVE  RelayerInv'
<1>1. At(f, "fee") /\ UNCHANGED <<spent, queueVars, late, bumped, ghostVars>>
  BY DEF FetchBaseFee
<1>2. flight[f] # Free /\ flight[f].at = "fee"
  BY <1>1, Flying DEF At
<1>3. CASE /\ Succeeds(flight[f].all)
           /\ flight' = [flight EXCEPT ![f].at = "send"] /\ UNCHANGED <<answer, faults>>
  <2>1. PICK at : at = "send"
    OBVIOUS
  <2>2. at \in {"submit", "poll", "never", "send"} /\ flight' = [flight EXCEPT ![f].at = at]
    BY <1>3, <2>1
  <2> QED
    BY <1>1, <1>2, <1>3, <2>1, <2>2, StageKeeps
<1>4. CASE /\ IF Succeeds(flight[f].all) THEN Fault ELSE UNCHANGED faults
           /\ Answered(flight[f].all, "error") /\ Done(f)
  <2>1. faults' \in 0 .. MaxFaults
    BY <1>2, <1>4, InFlight, FaultCounted DEF RelayerInv
  <2> QED
    BY <1>1, <1>2, <1>4, <2>1, ErrorKeeps DEF ghostVars
<1> QED
  BY <1>3, <1>4 DEF FetchBaseFee

\* The fee bump is sent, or is not, or is and the reply that it was is lost.
LEMMA SendKeeps ==
    ASSUME RelayerInv, NEW f \in Flight, SendFeeBump(f)
    PROVE  RelayerInv'
<1>1. At(f, "send") /\ Done(f) /\ UNCHANGED <<spent, queueVars, late, paid, dropped>>
  BY DEF SendFeeBump
<1>2. flight[f] # Free /\ flight[f].at = "send"
  BY <1>1, Flying DEF At
<1>3. \A r \in Members(flight[f].all) : Good(r)
  BY <1>2, InFlight DEF Fits, Good
<1>4. bumped \cup Members(flight[f].all) \subseteq Signed
  BY <1>2, InFlight DEF Fits
<1>5. CASE /\ bumped' = bumped \cup Members(flight[f].all)
           /\ Answered(flight[f].all, "sent") /\ UNCHANGED <<unknown, faults>>
  <2>1. PICK with : with = "sent"
    OBVIOUS
  <2> QED
    BY <1>1, <1>2, <1>3, <1>4, <1>5, <2>1, InFlight, FlightEnds
<1>6. CASE Fault /\ Answered(flight[f].all, "error") /\ UNCHANGED <<bumped, unknown>>
  <2>1. faults' \in 0 .. MaxFaults
    BY <1>6, FaultCounted DEF RelayerInv
  <2> QED
    BY <1>1, <1>2, <1>6, <2>1, ErrorKeeps
<1>7. CASE /\ Fault /\ bumped' = bumped \cup Members(flight[f].all)
           /\ Answered(flight[f].all, "error") /\ unknown' = unknown \cup Members(flight[f].all)
  <2>1. faults' \in 0 .. MaxFaults
    BY <1>7, FaultCounted DEF RelayerInv
  <2>2. unknown \subseteq unknown' /\ unknown' \subseteq Request
    BY <1>2, <1>7, InFlight
  <2>3. \A r \in bumped' : r \in bumped \/ (r \in Members(flight[f].all) /\ r \in unknown' /\ Good(r))
    BY <1>3, <1>7
  <2>4. PICK with : with = "error"
    OBVIOUS
  <2> QED
    BY <1>1, <1>2, <1>4, <1>7, <2>1, <2>2, <2>3, <2>4, InFlight, FlightEnds
<1> QED
  BY <1>1, <1>5, <1>6, <1>7 DEF SendFeeBump

\* The transaction succeeds: the batch is paid and everyone gets its hash.
LEMMA ConfirmedKeeps ==
    ASSUME RelayerInv, NEW f \in Flight, Confirmed(f)
    PROVE  RelayerInv'
<1>1. /\ At(f, "poll") /\ Execute(flight[f].usable) /\ Answered(flight[f].all, "hash") /\ Done(f)
      /\ UNCHANGED <<queueVars, late, bumped, dropped, unknown, faults>>
  BY DEF Confirmed
<1>2. flight[f] # Free /\ flight[f].at = "poll"
  BY <1>1, Flying DEF At
<1>3. /\ Fits(flight[f]) /\ Members(flight[f].usable) \subseteq Members(flight[f].all)
      /\ Members(flight[f].all) \subseteq Request /\ spent \subseteq Nullifier
      /\ late \subseteq Seq(Request) /\ bumped \subseteq Signed /\ unknown \subseteq Request
      /\ faults \in 0 .. MaxFaults
  BY <1>2, InFlight
<1>4. paid' = paid \cup Members(flight[f].usable)
  BY <1>1 DEF Execute
<1>5. spent' \subseteq Nullifier
  <2>1. spent' = spent \cup Nullifiers(flight[f].usable)
    BY <1>1 DEF Execute
  <2>2. \A r \in Request : NullifierOf[r] \in Nullifier
    BY RelayerConstants
  <2> QED
    BY <1>3, <2>1, <2>2 DEF Nullifiers
<1>6. Members(flight[f].all) \subseteq paid' \cup dropped
  BY <1>2, <1>3, <1>4 DEF Fits
<1>7. PICK with : with = "hash"
  OBVIOUS
<1>8. /\ with \in {"hash", "sent", "error"} /\ Answered(flight[f].all, with) /\ with # "error"
      /\ paid \subseteq paid' /\ paid' \subseteq paid \cup Members(flight[f].all)
  BY <1>1, <1>3, <1>4, <1>7
<1>9. /\ unknown \subseteq unknown' /\ unknown' \subseteq Request /\ late' \subseteq Seq(Request)
      /\ late' \subseteq late /\ bumped' \subseteq Signed /\ bumped' \subseteq bumped
      /\ faults' \in 0 .. MaxFaults /\ UNCHANGED <<queueVars, dropped>> /\ Done(f)
  BY <1>1, <1>3
<1>10. /\ \A calls \in late' : calls \in late \/ \A r \in Members(calls) : r \in unknown' /\ Good(r)
       /\ \A r \in bumped' : r \in bumped \/ (r \in Members(flight[f].all) /\ (with = "sent" \/ r \in unknown') /\ Good(r))
  BY <1>9
<1> QED
  BY <1>2, <1>5, <1>6, <1>8, <1>9, <1>10, FlightEnds

\* Nobody waits for the transaction any more: its requests are told of an error.
LEMMA TimedOutKeeps ==
    ASSUME RelayerInv, NEW f \in Flight, TimedOut(f)
    PROVE  RelayerInv'
<1>1. /\ unknown' = unknown \cup Members(flight[f].all)
      /\ Answered(flight[f].all, "error") /\ Done(f)
      /\ UNCHANGED <<spent, queueVars, bumped, paid, dropped>>
  BY DEF TimedOut
<1>2. flight[f] # Free
  BY Flying DEF TimedOut
<1>3. /\ Fits(flight[f]) /\ Members(flight[f].usable) \subseteq Members(flight[f].all)
      /\ Members(flight[f].all) \subseteq Request /\ spent \subseteq Nullifier
      /\ late \subseteq Seq(Request) /\ bumped \subseteq Signed /\ unknown \subseteq Request
      /\ faults \in 0 .. MaxFaults /\ flight[f].usable \in Seq(Request)
  BY <1>2, InFlight
<1>4. late' \subseteq Seq(Request) /\ faults' \in 0 .. MaxFaults
  BY <1>3, FaultCounted DEF TimedOut, RelayerInv
<1>5. \A calls \in late' : calls \in late \/ \A r \in Members(calls) : r \in unknown' /\ Good(r)
  <2>1. CASE At(f, "poll") /\ late' = late \cup {flight[f].usable}
    <3>1. \A r \in Members(flight[f].usable) : Good(r)
      BY <1>2, <1>3, <2>1 DEF Fits, At, Good
    <3> QED
      BY <1>1, <1>3, <2>1, <3>1
  <2>2. CASE late' = late
    BY <2>2
  <2> QED
    BY <2>1, <2>2 DEF TimedOut
<1>6. PICK with : with = "error"
  OBVIOUS
<1>7. /\ with \in {"hash", "sent", "error"} /\ Answered(flight[f].all, with) /\ with # "hash"
      /\ paid \subseteq paid' /\ paid' \subseteq paid \cup Members(flight[f].all) /\ paid' = paid
      /\ spent' \subseteq Nullifier /\ unknown \subseteq unknown' /\ unknown' \subseteq Request
      /\ bumped' \subseteq Signed /\ bumped' = bumped
  BY <1>1, <1>3, <1>6
<1>8. \A r \in bumped' : r \in bumped \/ (r \in Members(flight[f].all) /\ (with = "sent" \/ r \in unknown') /\ Good(r))
  BY <1>7
<1> QED
  BY <1>1, <1>2, <1>4, <1>5, <1>7, <1>8, FlightEnds

-----------------------------------------------------------------------------
(* The world's steps.                                                      *)

LEMMA SpentElsewhereKeeps == RelayerInv /\ SpentElsewhere => RelayerInv'
<1> SUFFICES ASSUME RelayerInv, SpentElsewhere PROVE RelayerInv'
  OBVIOUS
<1>1. /\ Fault /\ UNCHANGED <<queueVars, flight, late, bumped, answer, ghostVars>>
      /\ \E n \in Nullifier \ spent : spent' = spent \cup {n}
  BY DEF SpentElsewhere
<1>2. spent' \subseteq Nullifier /\ faults' \in 0 .. MaxFaults
  BY <1>1, FaultCounted DEF RelayerInv, Types, RelayerTypeOK
<1> QED
  BY <1>1, <1>2, WorldKeeps DEF ghostVars

\* What a step of the chain pays, it was asked to pay.
LEMMA LateKeeps == RelayerInv /\ LateOutcome => RelayerInv'
<1> SUFFICES ASSUME RelayerInv, LateOutcome PROVE RelayerInv'
  OBVIOUS
<1>1. PICK calls \in late :
         /\ late' = late \ {calls}
         /\ Execute(calls) \/ UNCHANGED <<spent, paid>>
  BY DEF LateOutcome
<1>2. UNCHANGED <<queueVars, flight, bumped, answer, dropped, unknown, faults>>
  BY DEF LateOutcome
<1>3. /\ spent \subseteq Nullifier /\ Members(calls) \subseteq Request /\ faults \in 0 .. MaxFaults
  BY DEF RelayerInv, Types, RelayerTypeOK
<1>4. /\ paid \subseteq paid' /\ \A r \in paid' : r \in paid \/ r \in Members(calls)
      /\ spent' \subseteq Nullifier
  <2>1. Nullifiers(calls) \subseteq Nullifier
    BY <1>3, RelayerConstants DEF Nullifiers
  <2> QED
    BY <1>1, <1>3, <2>1 DEF Execute
<1>5. faults' \in 0 .. MaxFaults /\ late' \subseteq late /\ bumped' \subseteq bumped
  BY <1>1, <1>2, <1>3
<1> QED
  BY <1>2, <1>4, <1>5, WorldKeeps

LEMMA BumpedKeeps == RelayerInv /\ BumpedOutcome => RelayerInv'
<1> SUFFICES ASSUME RelayerInv, BumpedOutcome PROVE RelayerInv'
  OBVIOUS
<1>1. PICK r \in bumped :
         /\ bumped' = bumped \ {r}
         /\ Execute(<<r>>) \/ UNCHANGED <<spent, paid>>
  BY DEF BumpedOutcome
<1>2. UNCHANGED <<queueVars, flight, late, answer, dropped, unknown, faults>>
  BY DEF BumpedOutcome
<1>3. spent \subseteq Nullifier /\ r \in Request /\ faults \in 0 .. MaxFaults
  BY RelayerConstants DEF RelayerInv, Types, RelayerTypeOK
<1>4. /\ paid \subseteq paid' /\ \A q \in paid' : q \in paid \/ q \in bumped
      /\ spent' \subseteq Nullifier
  <2>1. Nullifiers(<<r>>) \subseteq Nullifier /\ Members(<<r>>) = {r}
    BY <1>3, RelayerConstants, MembersOfOne DEF Nullifiers
  <2> QED
    BY <1>1, <1>3, <2>1 DEF Execute
<1>5. faults' \in 0 .. MaxFaults /\ late' \subseteq late /\ bumped' \subseteq bumped
  BY <1>1, <1>2, <1>3
<1> QED
  BY <1>2, <1>4, <1>5, WorldKeeps

\* A restart: what was being polled for goes on unattended, and nobody waits.
LEMMA RestartKeeps == RelayerInv /\ Restart => RelayerInv'
<1> SUFFICES ASSUME RelayerInv, Restart PROVE RelayerInv'
  OBVIOUS
<1>1. /\ Fault /\ queue' = <<>> /\ batchTimer' = "null"
      /\ late' = late \cup {flight[f].usable : f \in {g \in Flight : At(g, "poll")}}
      /\ flight' = [f \in Flight |-> Free]
      /\ answer' = [r \in Request |-> IF answer[r] = "waiting" THEN "cut off" ELSE answer[r]]
      /\ unknown' = unknown \cup {r \in Request : answer[r] = "waiting"}
      /\ UNCHANGED <<spent, bumped, paid, dropped>>
  BY DEF Restart
<1>2. faults' \in 0 .. MaxFaults
  BY <1>1, FaultCounted DEF RelayerInv
<1>3. ASSUME NEW f \in Flight, At(f, "poll")
      PROVE  /\ flight[f].usable \in Seq(Request) /\ Members(flight[f].usable) \subseteq Request
             /\ \A r \in Members(flight[f].usable) : answer[r] = "waiting" /\ Good(r)
  <2>1. flight[f] # Free /\ flight[f].at = "poll"
    BY <1>3, Flying DEF At
  <2> QED
    BY <2>1, InFlight DEF Fits, Good
<1>4. ASSUME NEW calls \in late' PROVE calls \in Seq(Request)
  BY <1>1, <1>3 DEF RelayerInv, Types
<1>5. ASSUME NEW calls \in late' PROVE \A r \in Members(calls) : r \in unknown' /\ Good(r)
  BY <1>1, <1>3 DEF RelayerInv, Unattended
<1>6. answer \in [Request -> {"new", "waiting", "hash", "sent", "error", "cut off"}]
  BY DEF RelayerInv, Types, RelayerTypeOK
<1>7. Types'
  <2>1. answer' \in [Request -> {"new", "waiting", "hash", "sent", "error", "cut off"}]
    BY <1>1, <1>6
  <2>2. flight' \in [Flight -> FlightState]
    BY <1>1 DEF Free, FlightState
  <2>3. queue' \in Seq(Batched) /\ Len(queue') < BATCH_MAX
    <3>1. queue' = <<>>
      BY <1>1
    <3> QED
      BY <3>1, RelayerConstants
  <2>4. \A calls \in late' : Members(calls) \subseteq Request
    BY <1>4, MembersTyped
  <2>5. unknown' \subseteq Request
    BY <1>1 DEF RelayerInv, Types, RelayerTypeOK
  <2> QED
    BY <1>1, <1>2, <1>4, <2>1, <2>2, <2>3, <2>4, <2>5 DEF RelayerInv, Types, RelayerTypeOK
<1>8. FlightsFit'
  BY <1>1 DEF FlightsFit, Fits, Free, FlightState
<1>9. InOnePlace'
  BY <1>1, MembersOfNone DEF InOnePlace, Theirs
<1>10. Unattended'
  <2>1. ASSUME NEW r \in bumped' PROVE (answer'[r] = "sent" \/ r \in unknown') /\ Good(r)
    <3>1. (answer[r] = "sent" \/ r \in unknown) /\ Good(r) /\ r \in Request
      BY <1>1, RelayerConstants DEF RelayerInv, Unattended, Types, RelayerTypeOK
    <3> QED
      BY <1>1, <3>1
  <2> QED
    BY <1>5, <2>1 DEF Unattended, Good, Allowed
<1>11. PaidIsTold'
  <2>1. paid \subseteq Request
    BY DEF RelayerInv, Types, RelayerTypeOK
  <2> QED
    BY <1>1, <2>1 DEF RelayerInv, PaidIsTold
<1>12. HashIsSettled'
  BY <1>1 DEF RelayerInv, HashIsSettled
<1> QED
  BY <1>7, <1>8, <1>9, <1>10, <1>11, <1>12 DEF RelayerInv

-----------------------------------------------------------------------------
(* The results.                                                            *)

LEMMA RelayerStarts == Init => RelayerInv
<1> SUFFICES ASSUME Init PROVE RelayerInv
  OBVIOUS
<1>1. Types
  <2>1. flight \in [Flight -> FlightState]
    BY DEF Init, Free, FlightState
  <2>2. queue \in Seq(Batched) /\ Len(queue) < BATCH_MAX /\ faults \in 0 .. MaxFaults
    BY RelayerConstants DEF Init
  <2> QED
    BY <2>1, <2>2 DEF Init, Types, RelayerTypeOK
<1>2. FlightsFit
  BY DEF Init, FlightsFit, Fits, Free, FlightState
<1>3. InOnePlace
  BY MembersOfNone DEF Init, InOnePlace, Theirs
<1>4. Unattended /\ PaidIsTold /\ HashIsSettled
  BY DEF Init, Unattended, PaidIsTold, HashIsSettled
<1> QED
  BY <1>1, <1>2, <1>3, <1>4 DEF RelayerInv

LEMMA RelayerSteps == RelayerInv /\ [Next]_vars => RelayerInv'
<1> SUFFICES ASSUME RelayerInv, [Next]_vars PROVE RelayerInv'
  OBVIOUS
<1>1. ASSUME NEW r \in Request, EnqueueWithdrawal(r) PROVE RelayerInv'
  BY <1>1, EnqueueKeeps
<1>2. ASSUME NEW r \in Request, RelayCall(r) \/ RelayTransaction(r) PROVE RelayerInv'
  BY <1>2, TakeUpKeeps DEF RelayCall, RelayTransaction
<1>3. ASSUME NEW f \in Flight, FlightStep(f) PROVE RelayerInv'
  BY <1>3, SimulationKeeps, SimulatedKeeps, FetchBaseFeeKeeps, SendKeeps, SubmitKeeps,
     SubmitRefusedKeeps, ConfirmedKeeps, FailedKeeps, TimedOutKeeps DEF FlightStep
<1>4. CASE UNCHANGED vars
  <2>1. /\ spent' \subseteq Nullifier /\ faults' \in 0 .. MaxFaults
    BY <1>4 DEF vars, RelayerInv, Types, RelayerTypeOK
  <2> QED
    BY <1>4, <2>1, WorldKeeps DEF vars, ghostVars
<1> QED
  BY <1>1, <1>2, <1>3, <1>4, TimerKeeps, SpentElsewhereKeeps, LateKeeps, BumpedKeeps, RestartKeeps
     DEF Next

LEMMA RelayerAlways == Spec => []RelayerInv
<1>1. Init /\ [][Next]_vars => []RelayerInv
  BY RelayerStarts, RelayerSteps, PTL
<1> QED
  BY <1>1, PTL DEF Spec

\* The most a client may conclude from its answer, however the handlers interleave, time
\* out, lose a reply and restart. A hash is of a transaction that settled the request, or
\* of a batch that had left it out: who was dropped is told success like the rest
\* (index.ts:278) and cannot tell. An error means that nothing was paid or will be, unless
\* the outcome was open when it was told.
THEOREM ToldIsTrue == Spec => []AnswersHold
<1>1. RelayerInv => AnswersHold
  <2> SUFFICES ASSUME RelayerInv PROVE AnswersHold
    OBVIOUS
  <2>1. HashMeansSettled
    BY DEF RelayerInv, Types, HashIsSettled, HashMeansSettled
  <2>2. ErrorMeansUnpaid
    BY DEF RelayerInv, Unattended, PaidIsTold, ErrorMeansUnpaid
  <2> QED
    BY <2>1, <2>2 DEF AnswersHold
<1> QED
  BY RelayerAlways, <1>1, PTL

\* No request whose proof is bad, or that names a contract of its own, goes out at the
\* relayer's expense, in a batch, alone or signed by the client.
THEOREM OnlyGoodCallsAreFunded == Spec => []BadProofsStayOut
<1>1. RelayerInv => BadProofsStayOut
  <2> SUFFICES ASSUME RelayerInv PROVE BadProofsStayOut
    OBVIOUS
  <2>1. ASSUME NEW f \in Flight, flight[f].at \in {"submit", "poll"}
        PROVE  /\ Members(flight[f].all) \subseteq Batched => Members(flight[f].usable) \subseteq Sound
               /\ flight[f].at = "poll" => \A r \in Members(flight[f].usable) : r \in Sound /\ Allowed(r)
    <3>1. flight[f] # Free
      BY <2>1 DEF Free
    <3> QED
      BY <2>1, <3>1, InFlight DEF Fits
  <2>2. \A f \in {g \in Flight : At(g, "poll")} : \A r \in Members(flight[f].usable) : r \in Sound /\ Allowed(r)
    BY <2>1 DEF At
  <2>3. \A calls \in late : \A r \in Members(calls) : r \in Sound /\ Allowed(r)
    BY DEF RelayerInv, Unattended, Good
  <2>4. \A r \in bumped : r \in Sound /\ Allowed(r)
    BY DEF RelayerInv, Unattended, Good
  <2> QED
    BY <2>1, <2>2, <2>3, <2>4 DEF BadProofsStayOut
<1> QED
  BY RelayerAlways, <1>1, PTL
=============================================================================
