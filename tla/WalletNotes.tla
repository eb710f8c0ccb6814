------------------------------ MODULE WalletNotes ------------------------------
(***************************************************************************)
(* The wallet's notes (frontend/src/dapp): what the browser stores of them *)
(* against what the chain holds, while operations, refreshes and the       *)
(* settings page run side by side.  Every change of the store reads all of *)
(* it, awaits, and writes all of it back.  Two tasks do: what the user     *)
(* started, and the refresh a page does when it is opened; they overlap,   *)
(* and one may overwrite the other.  The pool is its log of events: a      *)
(* leaf's identity is its place in the log, which stands for its           *)
(* commitment.                                                             *)
(***************************************************************************)
EXTENDS NoteSelection, FiniteSets, FiniteSetsExt

CONSTANTS
    Denomination, Amount,   \* V2's amount, V3's amounts
    Margin,                 \* of a position
    Funders,                \* the keys whose notes the user opens positions with
    StartLeaves,            \* what the pool holds at first
    ReadableFeed,           \* whether a row's ephemeral point is written as the scan reads it
    MaxLog, MaxOps,         \* bounds: events of the pool, operations and chores begun
    MaxFaults,              \* bound: lost answers, failed reads, reloads
    None

VARIABLES
    log, position,          \* the chain: the pool's events, the wallet's position
    served,                 \* how many events the indexer serves
    notes, cursor,          \* the sealed store of the wallet's viewing key
    remembered,             \* localStorage: the key that funded the position
    legacy, backup,         \* the old viewing key's store, the exported file
    task,
    overwritten,            \* ghost: notes that some write removed from the store
    misled,                 \* ghost: notes the wallet was given a hash for that did not spend them
    unread,                 \* ghost: payments whose row a scan could not read
    ops, faults

chainVars == <<log, position>>
storeVars == <<notes, cursor, remembered, legacy, backup>>
ghostVars == <<overwritten, misled, unread>>
vars == <<chainVars, served, storeVars, task, ghostVars, ops, faults>>

Key == {"me", "old"}

\* What the user started, with the refresh it ends in; and a page's own refresh.
Task == {"user", "page"}

ASSUME WalletConstants ==
    /\ Funders \subseteq Key /\ ReadableFeed \in BOOLEAN
    /\ Denomination \in Nat \ {0} /\ Amount \subseteq Nat \ {0} /\ Margin \in Nat \ {0}
    /\ {MaxLog, MaxOps, MaxFaults} \subseteq Nat
    /\ None \notin Key
    /\ Len(StartLeaves) <= MaxLog
    /\ StartLeaves \in Seq([leaf : {TRUE}, owner : Key \cup {"other"}, protocol : {"v2", "v3"},
                           from : {"deposit", "transfer", "minted"}, amount : Nat, index : Nat])

-----------------------------------------------------------------------------
(* The chain.                                                              *)

\* deposits carry a public amount, transfers an event the owner can match; what a
\* settlement spends and mints is in no event that the indexer handles.
Leaf(owner, protocol, from, amount, index) ==
    [leaf |-> TRUE, owner |-> owner, protocol |-> protocol, from |-> from, amount |-> amount,
     index |-> index]
Spend(id, from) == [leaf |-> FALSE, note |-> id, from |-> from]

Leaves(upTo) == {i \in 1 .. upTo : log[i].event.leaf}
LeafAt(id) == log[id].event
SpentIn(upTo) == {log[i].event.note : i \in 1 .. upTo \ Leaves(upTo)}

\* Of these, what the indexer has in its tables.
Listed(i) == log[i].event.from # "minted"
ListedSpent(upTo) == {log[i].event.note : i \in {j \in 1 .. upTo \ Leaves(upTo) : Listed(j)}}

Ledger == IF log = <<>> THEN 0 ELSE Last(log).ledger

\* One transaction: its nullifiers, then its leaves.
Append2Log(spends, from, leaves) ==
    LET events == [i \in 1 .. Cardinality(spends) |-> Spend(SetToSeq(spends)[i], from)] \o leaves
    IN  log' = log \o [i \in 1 .. Len(events) |-> [event |-> events[i], ledger |-> Ledger + 1]]

Note(id, key) == [id |-> id, key |-> key, spent |-> FALSE]
Ids(S) == {n.id : n \in S}

Idle == [at |-> "idle", kind |-> "", marks |-> {}, adds |-> {}, key |-> None, outs |-> <<>>,
         next |-> "idle", new |-> {}, seen |-> 0, high |-> 0]

Init ==
    /\ log = [i \in 1 .. Len(StartLeaves) |-> [event |-> StartLeaves[i], ledger |-> 0]]
    /\ position = [at |-> "none", key |-> "me"] /\ served = Len(log)
    /\ notes = {Note(i, "me") : i \in {j \in Leaves(Len(log)) : LeafAt(j).owner = "me"}}
    /\ legacy = {Note(i, "me") : i \in {j \in Leaves(Len(log)) : LeafAt(j).owner = "old"}}
    /\ cursor = 0 /\ remembered = None /\ backup = {}
    /\ task = [t \in Task |-> Idle]
    /\ overwritten = {} /\ misled = {} /\ unread = {} /\ ops = 0 /\ faults = 0

Fault == faults < MaxFaults /\ faults' = faults + 1

\* Somebody pays this wallet, with change of their own.
OtherPays ==
    /\ Len(log) + 2 <= MaxLog
    /\ \E amount \in Amount :
          Append2Log({}, "", <<Leaf("other", "v3", "transfer", amount, 0),
                               Leaf("me", "v3", "transfer", amount, 0)>>)
    /\ UNCHANGED <<position, served, storeVars, task, ghostVars, ops, faults>>

IndexerServes ==
    /\ served < Len(log) /\ served' = served + 1
    /\ UNCHANGED <<chainVars, storeVars, task, ghostVars, ops, faults>>

-----------------------------------------------------------------------------
(* Notes of the old key, which travels with them (legacy-notes.ts).        *)

\* A note without a tag is the wallet's.
KeysForNote(n) == n.key

\* One key opens them all.
ShareOneKey(picked) == \A m, n \in picked : m.key = n.key

\* A mutant of TagLegacyNotes: the notes join as they were stored.
TagLegacyNotesNever(S) == S

\* Those without a tag are tagged with the old key.
TagLegacyNotes(S) == {IF n.key = "me" THEN [n EXCEPT !.key = "old"] ELSE n : n \in S}

\* On a collision the record in current wins.
MergeNotes(current, incoming) == current \cup {n \in incoming : n.id \notin Ids(current)}

-----------------------------------------------------------------------------
(* An operation chooses its notes, proves, and submits.                    *)

Spendable(protocol) == {n \in notes : ~n.spent /\ LeafAt(n.id).protocol = protocol}

\* fetchVerifiedCommitments: the served leaves give the root the pool has now.
TreeMatches == Leaves(Len(log)) = {i \in Leaves(served) : Listed(i)}

\* uses are spent, outs inserted, and the last of outs stored under key, unless
\* that is None.  A note under a key that does not own it cannot be proved.
Begin(kind, uses, outs, key) ==
    /\ task["user"].at = "idle"
    /\ ops < MaxOps /\ ops' = ops + 1
    /\ Len(log) + Cardinality(uses) + Len(outs) <= MaxLog
    /\ \A n \in uses : LeafAt(n.id).owner = KeysForNote(n)
    /\ task' = [task EXCEPT !["user"] = [Idle EXCEPT !.at = "submit", !.kind = kind, !.marks = Ids(uses),
                                                !.outs = outs, !.key = key]]
    /\ UNCHANGED <<chainVars, served, storeVars, ghostVars, faults>>

DepositV2 == Begin("deposit", {}, <<Leaf("me", "v2", "deposit", Denomination, 0)>>, "me")

DepositIndex ==
    LET prior == {LeafAt(n.id).index : n \in {m \in notes : LeafAt(m.id).from = "deposit"
                                                            /\ LeafAt(m.id).protocol = "v3"}}
    IN  IF prior = {} THEN 0 ELSE Max(prior) + 1

DepositV3(amount) ==
    Begin("deposit", {}, <<Leaf("me", "v3", "deposit", amount, DepositIndex)>>, "me")

Withdraw(n) ==
    /\ n \in Spendable("v2") /\ TreeMatches
    /\ Begin("spend", {n}, <<>>, None)

\* No Merkle path, so no indexer.
RageQuit(n) ==
    /\ n \in Spendable("v2")
    /\ Begin("spend", {n}, <<>>, None)

Transfer(n, to) ==
    /\ n \in Spendable("v2") /\ TreeMatches
    /\ Begin("spend", {n}, <<Leaf(to, "v2", "transfer", Denomination, 0)>>, None)

AmountOf(n) == LeafAt(n.id).amount
AmountsOf(S) == LET ids == SetToSeq(Ids(S)) IN [i \in 1 .. Len(ids) |-> LeafAt(ids[i]).amount]

\* selectNotes, whichever of equal notes comes first in the store.
Picks(S, amount) ==
    LET chosen == SelectNotes(AmountsOf(S), amount)
    IN  {p \in SUBSET S : p # {} /\ Cardinality(p) = Len(chosen)
                          /\ {AmountOf(n) : n \in p} = ToSet(chosen)}

\* A mutant of TransferV3: the change is stored as if it were the wallet's own.
TransferV3Untagged(picked, to, amount) ==
    /\ picked \in Picks(Spendable("v3"), amount) /\ TreeMatches /\ ShareOneKey(picked)
    /\ LET change == MapThenSumSet(AmountOf, picked) - amount
           key == KeysForNote(CHOOSE n \in picked : TRUE)
       IN  Begin("spend", picked, <<Leaf(to, "v3", "transfer", amount, 0),
                                       Leaf(key, "v3", "transfer", change, 0)>>,
                 IF change > 0 THEN "me" ELSE None)

\* One key opens both inputs, and the change is that key's.
TransferV3(picked, to, amount) ==
    /\ picked \in Picks(Spendable("v3"), amount) /\ TreeMatches /\ ShareOneKey(picked)
    /\ LET change == MapThenSumSet(AmountOf, picked) - amount
           key == KeysForNote(CHOOSE n \in picked : TRUE)
       IN  Begin("spend", picked, <<Leaf(to, "v3", "transfer", amount, 0),
                                       Leaf(key, "v3", "transfer", change, 0)>>,
                 IF change > 0 THEN key ELSE None)

WithdrawV3(n) ==
    /\ n \in Spendable("v3") /\ TreeMatches
    /\ Begin("withdrawV3", {n}, <<>>, None)

\* The smallest note that covers the margin.
OpenPosition(n) ==
    /\ position.at = "none" /\ TreeMatches /\ n.key \in Funders
    /\ LET candidates == {m \in Spendable("v3") : AmountOf(m) >= Margin}
       IN  n \in candidates /\ \A m \in candidates : AmountOf(n) <= AmountOf(m)
    /\ Begin("open", {n}, <<Leaf(n.key, "v3", "minted", AmountOf(n) - Margin, 0)>>,
             IF AmountOf(n) > Margin THEN n.key ELSE None)

\* Proved with the key on record, else the wallet's own; the payout note is
\* stored without saying whose it is.
ClosePosition(payout) ==
    /\ position = [at |-> "open", key |-> IF remembered = "old" THEN "old" ELSE "me"]
    /\ Begin("close", {}, <<Leaf(position.key, "v3", "minted", payout, 0)>>,
             IF payout > 0 THEN "me" ELSE None)

-----------------------------------------------------------------------------
(* The transaction, and the answer to it.                                  *)

Accepted(r) ==
    /\ r.marks \cap SpentIn(Len(log)) = {}
    /\ r.kind = "deposit" /\ r.outs[1].protocol = "v3" => \A i \in Leaves(Len(log)) : LeafAt(i) # r.outs[1]
    /\ r.kind = "open" => position.at = "none"
    /\ r.kind = "close" => position.at = "open"

Executes(r) ==
    /\ Accepted(r)
    /\ Append2Log(r.marks, IF r.kind = "open" THEN "minted" ELSE r.kind, r.outs)
    /\ Len(log) + Cardinality(r.marks) + Len(r.outs) <= MaxLog
    /\ position' = CASE r.kind = "open"  -> [at |-> "open", key |-> LeafAt(CHOOSE i \in r.marks : TRUE).owner]
                     [] r.kind = "close" -> [position EXCEPT !.at = "closed"]
                     [] OTHER            -> position

\* After the edits under way: the next edit, or what follows them.
Proceed(r) ==
    IF r.marks # {} \/ r.adds # {} THEN [r EXCEPT !.at = "edit", !.new = {}]
    ELSE IF r.next \in {"idle", "fetch"} THEN [Idle EXCEPT !.at = r.next]
    ELSE [r EXCEPT !.at = r.next, !.new = {}]

\* The pool's operations end with a refresh of the pool's view.
Confirmed(r, adds) ==
    Proceed([r EXCEPT !.outs = <<>>, !.key = None, !.adds = adds,
                      !.next = IF r.kind \in {"open", "close"} THEN "idle" ELSE "fetch"])

Lands ==
    /\ task["user"].at = "submit" /\ Executes(task["user"])
    /\ task' = [task EXCEPT !["user"] =
          Confirmed(@, IF @.key = None THEN {} ELSE {Note(Len(log'), @.key)})]
    /\ UNCHANGED <<served, storeVars, ghostVars, ops, faults>>

\* It lands, and the wallet never hears of it: an error is shown, nothing stored.
LandsUnheard ==
    /\ Fault
    /\ task["user"].at = "submit" /\ Executes(task["user"])
    /\ task' = [task EXCEPT !["user"] = Idle]
    /\ UNCHANGED <<served, storeVars, ghostVars, ops>>

\* A mutant of Refused: a withdrawal that was refused is marked all the same.
RefusedMarked ==
    /\ task["user"].at = "submit"
    /\ (~Accepted(task["user"]) /\ UNCHANGED faults) \/ Fault
    /\ task' = [task EXCEPT !["user"] = IF @.marks # {} THEN Confirmed(@, {}) ELSE Idle]
    /\ UNCHANGED <<chainVars, served, storeVars, ghostVars, ops>>

Refused ==
    /\ task["user"].at = "submit"
    /\ (~Accepted(task["user"]) /\ UNCHANGED faults) \/ Fault
    /\ task' = [task EXCEPT !["user"] = Idle]
    /\ UNCHANGED <<chainVars, served, storeVars, ghostVars, ops>>

\* The relayer left a withdrawal out of the batch, and answers it with the hash of
\* the batch (relayer/src/index.ts:278): the call reverts on simulation, or the
\* simulation could not be asked for.  The wallet takes the hash for its own.
Dropped ==
    /\ task["user"].at = "submit" /\ task["user"].kind = "withdrawV3"
    /\ (~Accepted(task["user"]) /\ UNCHANGED faults) \/ Fault
    /\ task' = [task EXCEPT !["user"] = Confirmed(@, {})]
    /\ misled' = misled \cup task["user"].marks
    /\ UNCHANGED <<chainVars, served, storeVars, overwritten, unread, ops>>

-----------------------------------------------------------------------------
(* The store: each change is a read of all of it and, later, a write.      *)

\* localStorage takes the record of the position when its note is marked.
Remember(r, rest) ==
    remembered' = IF r.kind = "open" /\ r.marks # {} /\ rest = {} THEN position.key ELSE remembered

\* markNoteSpent reads; a note that is not there is left at that.
ReadToMark(t) ==
    LET r == task[t]
        id == Min(r.marks)
        rest == [r EXCEPT !.marks = @ \ {id}]
    IN  /\ r.at = "edit" /\ r.marks # {}
        /\ IF id \in Ids(notes)
           THEN /\ task' = [task EXCEPT ![t] = [r EXCEPT !.at = "write", !.new =
                               {IF n.id = id THEN [n EXCEPT !.spent = TRUE] ELSE n : n \in notes}]]
                /\ UNCHANGED remembered
           ELSE /\ task' = [task EXCEPT ![t] = Proceed(rest)]
                /\ Remember(r, rest.marks)
        /\ UNCHANGED <<chainVars, served, notes, cursor, legacy, backup, ghostVars, ops, faults>>

\* addNote reads; a note that is there already is left alone.
ReadToAdd(t) ==
    LET r == task[t]
        note == CHOOSE n \in r.adds : \A m \in r.adds : n.id <= m.id
    IN  /\ r.at = "edit" /\ r.marks = {}
        /\ task' = [task EXCEPT ![t] =
              IF note.id \in Ids(notes)
              THEN Proceed([r EXCEPT !.adds = @ \ {note}])
              ELSE [r EXCEPT !.at = "write", !.new = notes \cup {note}]]
        /\ UNCHANGED <<chainVars, served, storeVars, ghostVars, ops, faults>>

\* saveNotes: the copy goes over whatever is there by now.
Write(t) ==
    LET r == task[t]
        rest == IF r.marks # {} THEN [r EXCEPT !.marks = @ \ {Min(@)}]
                                ELSE [r EXCEPT !.adds = {n \in @ : n.id # Min(Ids(@))}]
    IN  /\ r.at = "write"
        /\ notes' = r.new
        /\ overwritten' = overwritten \cup (Ids(notes) \ Ids(r.new))
        /\ Remember(r, rest.marks)
        /\ task' = [task EXCEPT ![t] = Proceed(rest)]
        /\ UNCHANGED <<chainVars, served, cursor, legacy, backup, misled, unread, ops, faults>>

\* The settings page.
ReadToReplace(new, next) ==
    /\ task["user"].at = "idle"
    /\ ops < MaxOps /\ ops' = ops + 1
    /\ task' = [task EXCEPT !["user"] = [Idle EXCEPT !.at = "write", !.new = new, !.next = next]]
    /\ UNCHANGED <<chainVars, served, storeVars, ghostVars, faults>>

ClearV2Notes ==
    ReadToReplace({n \in notes : LeafAt(n.id).protocol # "v2"}, "fetch")

ExportV2Backup ==
    /\ backup = {} /\ notes # {}
    /\ ops < MaxOps /\ ops' = ops + 1
    /\ backup' = notes
    /\ UNCHANGED <<chainVars, served, notes, cursor, remembered, legacy, task, ghostVars, faults>>

\* On a collision the file's record wins.
ImportV2Backup ==
    /\ backup # {}
    /\ ReadToReplace(MergeNotes(backup, notes), "fetch")

\* A mutant of RecoverLegacyNotes: the old store is deleted before the new is written.
RecoverLegacyNotesDeleteFirst ==
    /\ legacy # {}
    /\ task["user"].at = "idle"
    /\ ops < MaxOps /\ ops' = ops + 1
    /\ task' = [task EXCEPT !["user"] =
          [Idle EXCEPT !.at = "write", !.next = "fetch",
                       !.new = MergeNotes(notes, TagLegacyNotes(legacy))]]
    /\ legacy' = {}
    /\ UNCHANGED <<chainVars, served, notes, cursor, remembered, backup, ghostVars, faults>>

\* The old store's notes join the wallet's.
RecoverLegacyNotes ==
    /\ legacy # {}
    /\ ReadToReplace(MergeNotes(notes, TagLegacyNotes(legacy)), "delete")

DeleteLegacyStore ==
    /\ task["user"].at = "delete"
    /\ legacy' = {}
    /\ task' = [task EXCEPT !["user"] = [Idle EXCEPT !.at = "fetch"]]
    /\ UNCHANGED <<chainVars, served, notes, cursor, remembered, backup, ghostVars, ops, faults>>

-----------------------------------------------------------------------------
(* fetchState.                                                             *)

\* What the indexer answers.
GetTransfers(since) == {i \in Leaves(served) : LeafAt(i).from = "transfer" /\ log[i].ledger >= since}
GetDeposits == {i \in Leaves(served) : LeafAt(i).from = "deposit"}

\* The list of spent notes as it is served, or an empty one if the read fails.
FetchSpentNullifiers(upTo) == IF upTo = served THEN UNCHANGED faults ELSE Fault

\* scanTransferFeed goes through everything at or after the cursor.  decode.ts
\* writes the ephemeral point in hex, without a prefix; scanForIncomingNotesV3
\* reads it with BigInt, as decimal, and skips a row that it cannot read.
Rows == GetTransfers(cursor)
Mine == {i \in Rows : LeafAt(i).owner = "me"}
PassedOver == IF ReadableFeed THEN {} ELSE Mine
ScanTransferFeed(upTo) ==
    Proceed([Idle EXCEPT !.seen = upTo, !.next = "deposits",
                         !.adds = {Note(i, "me") : i \in Mine \ PassedOver},
                         !.high = Max({cursor} \cup {log[i].ledger : i \in Rows})])

Fetching(t) == IF t = "user" THEN task[t].at = "fetch" ELSE task[t].at = "idle"

\* fetchState takes the list of spent notes and begins the scan.
ScanIncoming(t) ==
    /\ Fetching(t)
    /\ \E upTo \in {0, served} : /\ FetchSpentNullifiers(upTo)
                                 /\ task' = [task EXCEPT ![t] = ScanTransferFeed(upTo)]
    /\ unread' = unread \cup PassedOver
    /\ UNCHANGED <<chainVars, served, storeVars, overwritten, misled, ops>>

\* recoverOwnDeposits: the wallet's own, by the amount and an index tried in turn.
MyDeposits == {i \in GetDeposits : LeafAt(i).protocol = "v3" /\ LeafAt(i).owner = "me"}

\* A mutant of RecoverDeposits: a wallet that was never paid returns early.
RecoverDepositsIfPaid(t) ==
    /\ task[t].at = "deposits"
    /\ task' = [task EXCEPT ![t] = Proceed([@ EXCEPT !.next = "cursor", !.adds =
                  {Note(i, "me") : i \in IF Rows = {} THEN {} ELSE MyDeposits \ Ids(notes)}])]
    /\ UNCHANGED <<chainVars, served, storeVars, ghostVars, ops, faults>>

\* recoverDeposits: V3 blindings are derived, so the wallet's own deposits can
\* be told; V2 blindings were drawn and cannot.
RecoverDeposits(t) ==
    /\ task[t].at = "deposits"
    /\ task' = [task EXCEPT ![t] = Proceed([@ EXCEPT !.next = "cursor", !.adds =
                  {Note(i, "me") : i \in MyDeposits \ Ids(notes)}])]
    /\ UNCHANGED <<chainVars, served, storeVars, ghostVars, ops, faults>>

\* A mutant of Reconcile: V3 notes are not looked at.
ReconcileV2(r) ==
    Proceed([Idle EXCEPT !.next = "idle", !.marks =
                {n.id : n \in {m \in Spendable("v2") : m.id \in ListedSpent(r.seen)}}])

\* Notes whose nullifier was on the list taken at the start are marked.
Reconcile(r) ==
    Proceed([Idle EXCEPT !.next = "idle", !.marks =
                {n.id : n \in {m \in notes : ~m.spent /\ m.id \in ListedSpent(r.seen)}}])

\* A mutant of FinishScan: the cursor goes one further.
FinishScanPast(t) ==
    /\ task[t].at = "cursor"
    /\ cursor' = IF task[t].high > cursor THEN task[t].high + 1 ELSE cursor
    /\ task' = [task EXCEPT ![t] = Reconcile(@)]
    /\ UNCHANGED <<chainVars, served, notes, remembered, legacy, backup, ghostVars, ops, faults>>

\* setScanCursor, and the notes are read to be reconciled.
FinishScan(t) ==
    /\ task[t].at = "cursor"
    /\ cursor' = task[t].high
    /\ task' = [task EXCEPT ![t] = Reconcile(@)]
    /\ UNCHANGED <<chainVars, served, notes, remembered, legacy, backup, ghostVars, ops, faults>>

\* The feed cannot be read: the scan is given up, and what is known of the spent
\* notes is applied all the same.
ScanFails(t) ==
    /\ Fault /\ Fetching(t)
    /\ task' = [task EXCEPT ![t] = Reconcile([Idle EXCEPT !.seen = served])]
    /\ UNCHANGED <<chainVars, served, storeVars, ghostVars, ops>>

\* Without an answer there are no deposits to look through; the scan goes on.
DepositsUnavailable(t) ==
    /\ Fault /\ task[t].at = "deposits"
    /\ task' = [task EXCEPT ![t] = Proceed([@ EXCEPT !.next = "cursor"])]
    /\ UNCHANGED <<chainVars, served, storeVars, ghostVars, ops>>

\* The tab is closed: whatever was under way is gone.
Reload ==
    /\ Fault
    /\ \E t \in Task : task[t] # Idle
    /\ task' = [t \in Task |-> Idle]
    /\ UNCHANGED <<chainVars, served, storeVars, ghostVars, ops>>

-----------------------------------------------------------------------------
Operate ==
    \/ DepositV2
    \/ \E amount \in Amount : DepositV3(amount) \/ ClosePosition(amount)
    \/ \E n \in notes : \/ Withdraw(n) \/ RageQuit(n) \/ WithdrawV3(n) \/ OpenPosition(n)
                        \/ \E to \in {"me", "other"} : Transfer(n, to)
    \/ \E picked \in SUBSET notes, to \in {"me", "other"}, amount \in Amount :
          TransferV3(picked, to, amount)

Settings == ClearV2Notes \/ ExportV2Backup \/ ImportV2Backup \/ RecoverLegacyNotes

\* What the page does by itself once it has been asked to.
Continue(t) ==
    \/ ReadToMark(t) \/ ReadToAdd(t) \/ Write(t)
    \/ ScanIncoming(t) \/ RecoverDeposits(t) \/ FinishScan(t)

Next ==
    \/ OtherPays \/ IndexerServes \/ Operate \/ Settings
    \/ Lands \/ LandsUnheard \/ Refused \/ Dropped \/ DeleteLegacyStore
    \/ \E t \in Task : Continue(t) \/ ScanFails(t) \/ DepositsUnavailable(t)
    \/ Reload

\* The page's own steps are taken; a transaction that was submitted lands or
\* fails; the indexer keeps up; and the user keeps opening pages that refresh.
Spec ==
    /\ Init /\ [][Next]_vars
    /\ WF_vars(IndexerServes)
    /\ WF_vars(Continue("page"))
    /\ WF_vars(Continue("user") \/ DeleteLegacyStore \/ Lands \/ Refused)

-----------------------------------------------------------------------------
WalletTypeOK ==
    /\ Len(log) <= MaxLog /\ served \in 0 .. Len(log)
    /\ position \in [at : {"none", "open", "closed"}, key : Key]
    /\ \A S \in {notes, legacy, backup} : /\ S \subseteq [id : Leaves(Len(log)), key : Key, spent : BOOLEAN]
                                          /\ \A m, n \in S : m.id = n.id => m = n
    /\ cursor \in 0 .. Ledger /\ remembered \in Key \cup {None}
    /\ overwritten \cup misled \cup unread \subseteq Leaves(Len(log))
    /\ ops \in 0 .. MaxOps /\ faults \in 0 .. MaxFaults
    /\ \A t \in Task : /\ task[t].at \in {"idle", "submit", "edit", "write", "delete", "fetch",
                                          "deposits", "cursor"}
                       /\ task[t].marks \subseteq Leaves(Len(log))

\* Every stored note names the key that opens it, through deposits, change,
\* receipts, adoption of the old key's notes, backups and positions: a note under
\* the wrong key shows in the balance and cannot be spent.
NoteOpens ==
    /\ WalletTypeOK
    /\ \A n \in notes : LeafAt(n.id).owner = n.key

\* A note marked spent is spent on the chain, or the relayer had left its withdrawal
\* out of a batch and answered with the hash of the batch all the same (against
\* tree-source.ts:186, "never the reverse").
SpentOnlyIfSpent == \A n \in notes : n.spent => n.id \in SpentIn(Len(log)) \cup misled

\* The key that the store names for a note opens it, and what it marks spent is
\* spent, but for what a hash of a batch without it was taken for.
NotesAreTrue == NoteOpens /\ SpentOnlyIfSpent

\* The scan never goes past a payment: what is before the cursor has been added,
\* but for the rows that could not be read, and only a write that went over another
\* lost it again.
ReceivedKept ==
    \A i \in Leaves(Len(log)) : LeafAt(i).from = "transfer" /\ LeafAt(i).owner = "me" /\ log[i].ledger < cursor
                                => i \in Ids(notes) \cup overwritten \cup unread

\* transfer.ts:369-370: "formatting differences can never cause a missed note".  As
\* the feed is written, they do: a payment before the cursor is in no store, and no
\* write has removed it.
FormatsMissNothing ==
    \A i \in Leaves(Len(log)) : LeafAt(i).from = "transfer" /\ LeafAt(i).owner = "me" /\ log[i].ledger < cursor
                                => i \in Ids(notes) \cup overwritten

\* A note of the old key is in the old store or in the wallet's, across failures
\* and reloads in the middle of the adoption, unless another write went over it.
LegacyKept ==
    \A i \in Leaves(Len(log)) : LeafAt(i).from = "deposit" /\ LeafAt(i).owner = "old"
                                => i \in Ids(legacy) \cup Ids(notes) \cup overwritten

\* No note that was the wallet's to store goes missing, of either key.
NotesAreKept == ReceivedKept /\ LegacyKept

\* Whatever notes a wallet at rest is given besides its own, a payment takes the
\* tightest single note, else the tightest pair, and what is shown as the most
\* that can be sent can be sent.
SelectionIsTightest ==
    (\A t \in Task : task[t] = Idle)
    => \A w \in Wallets : Tightest(AmountsOf(Spendable("v3")) \o w)

\* Whoever spent a note but by a settlement, and whether or not the answer came, it is shown as
\* spent again and again, an old backup or a write gone over notwithstanding.
SpendsRecorded == []<>(\A n \in notes : n.id \in ListedSpent(Len(log)) => n.spent)

\* A V3 deposit that landed is in the wallet again and again, on this device or
\* on a clean one, even when its answer was lost or its note written over.
DepositsFound ==
    []<>({i \in Leaves(Len(log)) : /\ LeafAt(i).from = "deposit" /\ LeafAt(i).protocol = "v3"
                                   /\ LeafAt(i).owner = "me"} \subseteq Ids(notes))
=============================================================================
