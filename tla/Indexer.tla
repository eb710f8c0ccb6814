------------------------------- MODULE Indexer -------------------------------
(***************************************************************************)
(* The indexer (backend/indexer): it follows the chain's events through an *)
(* RPC that pages them, scans a bounded number of ledgers for each page    *)
(* and forgets old ones, and keeps them in tables the wallets read.  A     *)
(* tick walks pages from the stored ledger to the head; its local          *)
(* variables are lost when it fails or the process restarts.  Of the       *)
(* events, leaves stand for all that is inserted once (commitments and     *)
(* nullifiers); a position is opened and closed, or seized, once.  Opening *)
(* and closing settle in the pool, which puts a leaf into its tree and     *)
(* says so in an event of its own that the decoder does not handle.        *)
(***************************************************************************)
EXTENDS Integers, Sequences, FiniteSets

CONSTANTS
    PositionId,
    StartLedger,           \* INDEXER_START_LEDGER, the pool's deployment
    PageLimit,             \* the request's limit
    MAX_PAGES_PER_TICK,
    ScanWindow,            \* ledgers the RPC scans for one page
    MaxLedger,             \* bound: ledgers closed
    MaxEvents,             \* bound: events emitted
    MaxFaults,             \* bound: failed requests, writes and restarts
    Idle                   \* no tick is running

VARIABLES
    chain,                 \* every event emitted, in order
    head,                  \* the last closed ledger: its events are visible
    oldest,                \* the oldest ledger the RPC retains
    leaves, listing,       \* the tables commitments and positions
    stored,                \* indexer_state: the ledger to resume from, or 0
    poll,                  \* pollOnce's local variables, or Idle
    lost,                  \* ghost: events given up, each for a named reason
    faults

chainVars == <<chain, head, oldest>>
tables == <<leaves, listing>>
vars == <<chainVars, tables, stored, poll, lost, faults>>

\* mints: how many leaves the transaction puts into the pool's tree.
Event == [ledger : Nat, kind : {"leaf"}, key : Nat, mints : {1}]
             \cup [ledger : Nat, kind : {"open", "close"}, key : PositionId, mints : 0 .. 1]

\* A page cursor: the ledger reached and the number of events passed.
PageCursor == [ledger : Nat, pos : Nat]
NoCursor == [ledger |-> 0, pos |-> 0]

\* In phase "page", from is the last event applied and next ends the page.
Poll == [phase : {"request", "page"}, startLedger : Nat, cursor : PageCursor, next : PageCursor,
         from : Nat, processed : Nat, scanned : Nat, seenHead : Nat,
         pages : 0 .. MAX_PAGES_PER_TICK]

ASSUME IndexerConstants ==
    /\ StartLedger \in Nat \ {0} /\ MaxLedger \in Nat /\ StartLedger <= MaxLedger
    /\ PageLimit \in Nat \ {0} /\ MAX_PAGES_PER_TICK \in Nat \ {0}
    /\ ScanWindow \in Nat \ {0, 1}
    /\ MaxEvents \in Nat /\ MaxFaults \in Nat
    /\ Idle \notin Poll

IndexerTypeOK ==
    /\ chain \in Seq(Event) /\ head \in Nat /\ oldest \in Nat
    /\ leaves \subseteq Nat /\ listing \in [PositionId -> {"none", "open", "closed"}]
    /\ stored \in 0 .. head + 1
    /\ poll \in Poll \cup {Idle}
    /\ lost \subseteq 1 .. Len(chain) /\ faults \in 0 .. MaxFaults

Init ==
    /\ chain = <<>> /\ head = StartLedger /\ oldest = StartLedger
    /\ leaves = {} /\ listing = [id \in PositionId |-> "none"]
    /\ stored = 0 /\ poll = Idle /\ lost = {} /\ faults = 0

Larger(a, b) == IF a >= b THEN a ELSE b
Smaller(a, b) == IF a <= b THEN a ELSE b

-----------------------------------------------------------------------------
(* The chain and its RPC.                                                  *)

Emitted(kind) == {i \in 1 .. Len(chain) : chain[i].kind = kind}
WasEmitted(kind, id) == \E i \in Emitted(kind) : chain[i].key = id

\* Leaves in the pool's tree before the i-th event.
LeavesBefore(i) == Cardinality({j \in 1 .. i - 1 : chain[j].mints = 1})

\* A transaction of the ledger that is being built.  A close mints the payout
\* note, a seizure none.
Emit ==
    /\ head < MaxLedger /\ Len(chain) < MaxEvents
    /\ \E event \in
          {[ledger |-> head + 1, kind |-> "leaf", key |-> LeavesBefore(Len(chain) + 1), mints |-> 1]}
          \cup {[ledger |-> head + 1, kind |-> "open", key |-> id, mints |-> 1] :
                   id \in {i \in PositionId : ~WasEmitted("open", i)}}
          \cup {[ledger |-> head + 1, kind |-> "close", key |-> id, mints |-> n] :
                   id \in {i \in PositionId : WasEmitted("open", i) /\ ~WasEmitted("close", i)},
                   n \in 0 .. 1} :
          chain' = Append(chain, event)
    /\ UNCHANGED <<head, oldest, tables, stored, poll, lost, faults>>

CloseLedger ==
    /\ head < MaxLedger
    /\ head' = head + 1
    /\ UNCHANGED <<chain, oldest, tables, stored, poll, lost, faults>>

\* The retention window slides.
AgeOut ==
    /\ oldest < head
    /\ oldest' = oldest + 1
    /\ UNCHANGED <<chain, head, tables, stored, poll, lost, faults>>

\* The number of events before a ledger.
EventsBefore(ledger) == Cardinality({i \in 1 .. Len(chain) : chain[i].ledger < ledger})

\* getEvents from a ledger and a position in the event order: PageLimit events
\* and the last one's cursor, or what the scan window has and its end.
PageUpTo(ledger, from) ==
    LET lastLedger == Smaller(ledger + ScanWindow - 1, head)
        last       == EventsBefore(lastLedger + 1)
    IN  IF last - from >= PageLimit
        THEN [ledger |-> chain[from + PageLimit].ledger, pos |-> from + PageLimit]
        ELSE [ledger |-> lastLedger, pos |-> last]

-----------------------------------------------------------------------------
(* The poller.                                                             *)

\* The ledger start() resumes from.
LastLedger == IF stored <= 0 THEN StartLedger ELSE stored

BeginTick ==
    /\ poll = Idle
    /\ poll' = [phase |-> "request", startLedger |-> LastLedger, cursor |-> NoCursor,
                next |-> NoCursor, from |-> 0, processed |-> LastLedger, scanned |-> 0,
                seenHead |-> 0, pages |-> 0]
    /\ UNCHANGED <<chainVars, tables, stored, lost, faults>>

InPhase(phase) == poll # Idle /\ poll.phase = phase

\* A mutant of ClampToRetention: the floor is compared the wrong way round.
ClampToRetentionNever ==
    /\ InPhase("request") /\ poll.cursor = NoCursor
    /\ poll.startLedger < oldest /\ oldest + 1 < poll.startLedger
    /\ poll' = [poll EXCEPT !.startLedger = oldest + 1]
    /\ lost' = lost
    /\ UNCHANGED <<chainVars, tables, stored, faults>>

\* The start ledger is no longer retained: go on from the floor, plus one.
ClampToRetention ==
    /\ InPhase("request") /\ poll.cursor = NoCursor
    /\ poll.startLedger < oldest
    /\ poll' = [poll EXCEPT !.startLedger = oldest + 1]
    /\ lost' = lost \cup {i \in 1 .. EventsBefore(oldest + 1) :
                             chain[i].ledger >= poll.startLedger}
    /\ UNCHANGED <<chainVars, tables, stored, faults>>

\* The RPC refuses a start past its head or a cursor that has aged out; the
\* tick fails and the next one starts again from the stored ledger.
RequestRefused ==
    /\ InPhase("request")
    /\ IF poll.cursor = NoCursor THEN poll.startLedger > head ELSE poll.cursor.ledger < oldest
    /\ poll' = Idle
    /\ UNCHANGED <<chainVars, tables, stored, lost, faults>>

RequestPage ==
    /\ InPhase("request")
    /\ poll.pages < MAX_PAGES_PER_TICK
    /\ LET first == IF poll.cursor = NoCursor THEN poll.startLedger ELSE poll.cursor.ledger
           from  == IF poll.cursor = NoCursor THEN EventsBefore(first) ELSE poll.cursor.pos
           next  == PageUpTo(first, from)
       IN  /\ first \in oldest .. head
           /\ poll' = [poll EXCEPT !.phase = "page", !.next = next, !.from = from,
                                   !.seenHead = head, !.pages = @ + 1]
    /\ UNCHANGED <<chainVars, tables, stored, lost, faults>>

\* A mutant of InsertPosition: a second insert resets is_closed, as an earlier
\* version of the code did.
InsertPositionReset(id) == listing' = [listing EXCEPT ![id] = "open"]

\* insertPosition: ON CONFLICT DO NOTHING.
InsertPosition(id) ==
    listing' = IF listing[id] = "none" THEN [listing EXCEPT ![id] = "open"] ELSE listing

\* updatePositionClose and updatePositionSeized: an UPDATE of the row, if any.
UpdatePositionClose(id) ==
    listing' = IF listing[id] = "none" THEN listing ELSE [listing EXCEPT ![id] = "closed"]

\* insertCommitment, insertNullifier: what is there already stays.
InsertCommitment(key) == leaves' = leaves \cup {key}

Apply(event) ==
    \/ event.kind = "leaf" /\ InsertCommitment(event.key) /\ UNCHANGED listing
    \/ event.kind = "open" /\ InsertPosition(event.key) /\ UNCHANGED leaves
    \/ event.kind = "close" /\ UpdatePositionClose(event.key) /\ UNCHANGED leaves

\* assertDense: as many rows as the last index says.
AssertDense(rows) == \A key \in rows : (\A other \in rows : other <= key) => key + 1 = Cardinality(rows)

\* The loop over the page's events goes on to the next one.
PassEvent ==
    /\ InPhase("page") /\ poll.from < poll.next.pos
    /\ poll' = [poll EXCEPT !.from = @ + 1,
                            !.processed = Larger(@, chain[poll.from + 1].ledger)]
    /\ UNCHANGED <<chainVars, stored>>

ProcessEvent ==
    /\ PassEvent
    /\ Apply(chain[poll.from + 1])
    /\ UNCHANGED <<lost, faults>>

\* processEvent catches the database's error and the loop goes on.
ProcessEventFails ==
    /\ faults < MaxFaults
    /\ PassEvent
    /\ lost' = lost \cup {poll.from + 1}
    /\ faults' = faults + 1
    /\ UNCHANGED tables

\* The page is applied.
PageDone == InPhase("page") /\ poll.from = poll.next.pos

\* A mutant of Exhausted: an empty page is taken for the end.
ExhaustedWhenEmpty == PageDone /\ poll.next.pos = poll.cursor.pos

\* The cursor did not move: everything up to the head has been scanned.
Exhausted == PageDone /\ poll.next = poll.cursor

FinishTick ==
    /\ Exhausted
    /\ stored' = Larger(poll.seenHead, poll.processed + 1)
    /\ poll' = Idle
    /\ UNCHANGED <<chainVars, tables, lost, faults>>

NextPage ==
    /\ PageDone /\ ~Exhausted
    /\ poll.pages < MAX_PAGES_PER_TICK
    /\ poll' = [poll EXCEPT !.phase = "request", !.cursor = poll.next,
                            !.scanned = Larger(@, poll.next.ledger)]
    /\ UNCHANGED <<chainVars, tables, stored, lost, faults>>

\* How far a tick that stops at the page cap has come.
ReachedLedger == Larger(Larger(poll.scanned, poll.next.ledger), poll.processed)

\* The page cap: resume after the ledger reached, all of it scanned or not.
StopAtPageCap ==
    /\ PageDone /\ ~Exhausted
    /\ poll.pages = MAX_PAGES_PER_TICK
    /\ stored' = ReachedLedger + 1
    /\ lost' = lost \cup {i \in 1 .. Len(chain) :
                              i > poll.next.pos /\ chain[i].ledger = poll.next.ledger}
    /\ poll' = Idle
    /\ UNCHANGED <<chainVars, tables, faults>>

\* A mutant of Abort: the cursor is kept as far as the tick has come.
AbortAdvanced ==
    /\ poll # Idle /\ faults < MaxFaults
    /\ stored' = Larger(stored, ReachedLedger)
    /\ poll' = Idle
    /\ faults' = faults + 1
    /\ UNCHANGED <<chainVars, tables, lost>>

\* The RPC or the cursor's write fails, or the process is restarted.
Abort ==
    /\ poll # Idle /\ faults < MaxFaults
    /\ poll' = Idle
    /\ faults' = faults + 1
    /\ UNCHANGED <<chainVars, tables, stored, lost>>

PollerStep ==
    \/ BeginTick \/ ClampToRetention \/ RequestRefused \/ RequestPage
    \/ ProcessEvent \/ FinishTick \/ NextPage \/ StopAtPageCap

Next == Emit \/ CloseLedger \/ AgeOut \/ PollerStep \/ ProcessEventFails \/ Abort

\* The poll loop never stops; the chain owes nothing.
Spec == Init /\ [][Next]_vars /\ WF_vars(PollerStep)

-----------------------------------------------------------------------------
(* Properties.                                                             *)

Recorded(i) ==
    CASE chain[i].kind = "leaf"  -> chain[i].key \in leaves
      [] chain[i].kind = "open"  -> listing[chain[i].key] # "none"
      [] chain[i].kind = "close" -> listing[chain[i].key] = "closed"

\* Given up itself, or an update of a row that was.
GivenUp(i) ==
    \/ i \in lost
    \/ chain[i].kind = "close"
          /\ \E j \in lost : chain[j].kind = "open" /\ chain[j].key = chain[i].key

\* What the RPC shows, or has shown.
Published == {i \in 1 .. Len(chain) : chain[i].ledger <= head}

\* Every event below the stored cursor is in the tables, but for the ones that
\* were given up for a reason the code names or logs: aged out before they were
\* read, refused by the database, or behind the page cap in its last ledger.
NothingSkipped ==
    /\ IndexerTypeOK
    /\ \A i \in 1 .. Len(chain) : chain[i].ledger < stored => Recorded(i) \/ GivenUp(i)

Settlements == {i \in 1 .. Len(chain) : chain[i].kind # "leaf" /\ chain[i].mints = 1}

\* As long as nothing was given up, the leaves that are served are a prefix of
\* the chain's, up to the first that a settlement minted, in the middle of a page
\* and after any restart too: a client that builds its tree from them gets a root
\* the pool has had.  (That many distinct indexes, the last of them one less:
\* there is no gap.)
ServedTreeIsPrefix ==
    lost = {} => AssertDense({key \in leaves : \A i \in Settlements : key < LeavesBefore(i)})

\* A closed position never comes back to life in the listing, however often its
\* events are read again.
ClosedStaysClosed ==
    [][\A id \in PositionId : listing[id] = "closed" => listing'[id] = "closed"]_vars

\* Whatever is retained when it is read gets into the tables, however far behind
\* the indexer is and whatever failed on the way.
EventuallyIndexed ==
    \A i \in 1 .. MaxEvents :
        i \in Published ~> i \in Published /\ (Recorded(i) \/ GivenUp(i))

-----------------------------------------------------------------------------
(* What the repository says that the code does not do.                     *)

\* vayyl-pool/src/lib.rs:99-101, of the event: "Lets the indexer / client note-scan
\* pick up notes created by position close, liquidation seizure, orders, etc.";
\* db.ts:129-131: "The leaf set must be gap-free: clients rebuild the Merkle tree
\* from getCommitments() in order".
LeafSetIsGapFree == lost = {} => AssertDense(leaves)
=============================================================================
