----------------------------- MODULE Enrollment ------------------------------
(***************************************************************************)
(* ASP enrollment in the relayer (backend/relayer/enrollment.ts).  The     *)
(* membership contract can look a leaf up but not list its leaves, so the  *)
(* service keeps a mirror from which clients build their paths.  Requests  *)
(* are served one after the other; each await lets the chain, the clients  *)
(* and the operator's own script move, and the process may stop there.     *)
(***************************************************************************)
EXTENDS Naturals, Sequences, FiniteSets, SequencesExt

CONSTANTS
    Leaf,
    maxEnrollments,         \* ASP_MAX_ENROLLMENTS
    MaxFaults               \* bound: timeouts, failed calls and writes, restarts,
                            \* leaves inserted past the service

VARIABLES
    onchain,                \* the membership contract's leaves, in order
    backend,                \* which store is in use, "file" or "postgres"
    mirror, file,           \* AspLeafStore: what it answers from and what outlives the
                            \* process, rows <<index, leaf>>; one table in Postgres
    queue,                  \* requests not answered yet; the first is being served
    job,                    \* where enrollSerial is with it
    late,                   \* submitted insertions nobody polls for any more
    service,                \* "boot", "enabled" or "disabled"
    check,                  \* verifyAgainstChain's progress
    unrecorded,             \* ghost: leaves whose insertion the service was not told of
    faults

storeVars == <<backend, mirror, file>>
vars == <<onchain, storeVars, queue, job, late, service, check, unrecorded, faults>>

ASSUME EnrollmentConstants == maxEnrollments \in Nat /\ MaxFaults \in Nat

Row == Nat \X Leaf

EnrollmentTypeOK ==
    /\ onchain \in Seq(Leaf) /\ IsInjective(onchain)
    /\ backend \in {"file", "postgres"}
    /\ mirror \subseteq Row /\ file \subseteq Row
    /\ backend = "postgres" => mirror = file
    /\ queue \in Seq(Leaf)
    /\ job \in {"start", "insert", "poll", "never", "index", "flush"}
    /\ queue = <<>> => job = "start"
    /\ late \subseteq Leaf /\ unrecorded \subseteq Leaf
    /\ service \in {"boot", "enabled", "disabled"}
    /\ check \in [leaves : Seq(Leaf), next : Nat]
    /\ faults \in 0 .. MaxFaults

NoCheck == [leaves |-> <<>>, next |-> 0]

\* Leaves enrolled before, and a list the operator gave the service for them
\* (INITIAL_ASP_LEAVES, or the file of an earlier deployment), right or not.
Lists == {s \in SeqOf(Leaf, maxEnrollments) : IsInjective(s)}

Init ==
    /\ onchain \in Lists
    /\ backend \in {"file", "postgres"}
    /\ \E list \in Lists : file = {<<n - 1, list[n]>> : n \in 1 .. Len(list)}
    /\ mirror = file
    /\ queue = <<>> /\ job = "start" /\ late = {}
    /\ service = "boot" /\ check = NoCheck
    /\ unrecorded = {} /\ faults = 0

Fault == faults < MaxFaults /\ faults' = faults + 1

-----------------------------------------------------------------------------
(* The membership contract.                                                *)

Members == ToSet(onchain)

\* readLeafIndex; rows count from zero.
IndexOf(leaf) == (CHOOSE i \in 1 .. Len(onchain) : onchain[i] = leaf) - 1

\* insert_leaf refuses a leaf it has.
InsertLeaf(leaf) == leaf \notin Members /\ onchain' = Append(onchain, leaf)

\* scripts/asp_insert.js, run by the operator with the same key.
OperatorInserts ==
    /\ Fault
    /\ \E leaf \in Leaf : InsertLeaf(leaf) /\ unrecorded' = unrecorded \cup {leaf}
    /\ UNCHANGED <<storeVars, queue, job, late, service, check>>

\* An insertion that timed out lands after all, or never does.
LateOutcome ==
    /\ \E leaf \in late : late' = late \ {leaf} /\ (InsertLeaf(leaf) \/ UNCHANGED onchain)
    /\ UNCHANGED <<storeVars, queue, job, service, check, unrecorded, faults>>

-----------------------------------------------------------------------------
(* The leaf store.  The file store keeps its rows in memory and writes all *)
(* of them after each change; the Postgres store is the table.             *)

\* A mutant of GetLeaves: the newest first.
GetLeavesNewestFirst ==
    LET After(r) == {s \in mirror : s[1] > r[1]}
    IN  [n \in 1 .. Cardinality(mirror) |->
            (CHOOSE r \in mirror : Cardinality(After(r)) = n - 1)[2]]

\* getLeaves: the leaves in the order of their indexes, the indexes dropped.
GetLeaves ==
    LET Before(r) == {s \in mirror : s[1] < r[1]}
    IN  [n \in 1 .. Cardinality(mirror) |->
            (CHOOSE r \in mirror : Cardinality(Before(r)) = n - 1)[2]]

Stored(leaf) == \E r \in mirror : r[2] = leaf

\* A mutant of WithRow: a row is added at the end of the list.
WithRowAtEnd(rows, leaf) == rows \cup {<<Cardinality(rows), leaf>>}

\* The row of that index is set, ON CONFLICT (leaf_index) DO UPDATE.
WithRow(rows, leaf) ==
    {r \in rows : r[1] # IndexOf(leaf)} \cup {<<IndexOf(leaf), leaf>>}

\* upsert begins: FileAspLeafStore sets the row in memory, writing comes after.
Upsert(leaf) == mirror' = IF backend = "file" THEN WithRow(mirror, leaf) ELSE mirror

\* What is written then: the whole file, or the one row of the statement.
Written(leaf) == IF backend = "file" THEN mirror ELSE WithRow(file, leaf)

-----------------------------------------------------------------------------
(* Startup.                                                                *)

\* verifyAgainstChain reads the mirror and the contract's leaf count.  A read
\* that fails, or a count that differs, leaves enrollment off for good.
ReadLeafCount ==
    /\ service = "boot" /\ check = NoCheck
    /\ IF Len(GetLeaves) = Len(onchain)
       THEN \/ check' = [leaves |-> GetLeaves, next |-> 1] /\ UNCHANGED <<service, faults>>
            \/ Fault /\ service' = "disabled" /\ UNCHANGED check
       ELSE service' = "disabled" /\ UNCHANGED <<check, faults>>
    /\ UNCHANGED <<onchain, storeVars, queue, job, late, unrecorded>>

\* A mutant of CheckLeaf: the index the contract reports is not compared.
CheckLeafPresence ==
    /\ service = "boot" /\ check.next \in 1 .. Len(check.leaves)
    /\ IF check.leaves[check.next] \in Members
       THEN check' = [check EXCEPT !.next = @ + 1] /\ UNCHANGED service
       ELSE service' = "disabled" /\ check' = NoCheck
    /\ UNCHANGED <<onchain, storeVars, queue, job, late, unrecorded, faults>>

\* Each leaf must be where the mirror has it.
CheckLeaf ==
    /\ service = "boot" /\ check.next \in 1 .. Len(check.leaves)
    /\ LET leaf == check.leaves[check.next]
       IN  IF leaf \in Members /\ IndexOf(leaf) = check.next - 1
           THEN check' = [check EXCEPT !.next = @ + 1] /\ UNCHANGED service
           ELSE service' = "disabled" /\ check' = NoCheck
    /\ UNCHANGED <<onchain, storeVars, queue, job, late, unrecorded, faults>>

Enable ==
    /\ service = "boot" /\ check.next = Len(check.leaves) + 1
    /\ service' = "enabled" /\ check' = NoCheck
    /\ UNCHANGED <<onchain, storeVars, queue, job, late, unrecorded, faults>>

\* The process stops and starts: the requests are gone, the store is the file's.
Restart ==
    /\ Fault
    /\ service' = "boot" /\ check' = NoCheck
    /\ mirror' = file /\ queue' = <<>> /\ job' = "start"
    /\ late' = IF job = "poll" THEN late \cup {queue[1]} ELSE late
    /\ unrecorded' = unrecorded \cup {r[2] : r \in mirror \ file}
           \cup {queue[n] : n \in {k \in {1} : job \in {"poll", "never", "index", "flush"}}}
    /\ UNCHANGED <<onchain, backend, file>>

-----------------------------------------------------------------------------
(* Enrolling.                                                              *)

\* enroll: whoever wants a path asks, and asks again while the leaf is missing.
Enroll(leaf) ==
    /\ service = "enabled"
    /\ leaf \notin ToSet(queue) /\ ~Stored(leaf)
    /\ queue' = Append(queue, leaf)
    /\ UNCHANGED <<onchain, storeVars, job, late, service, check, unrecorded, faults>>

Serving(at) == service = "enabled" /\ queue # <<>> /\ job = at
Current == queue[1]

\* The promise resolves or rejects and the queue moves on.
Answer == queue' = Tail(queue) /\ job' = "start"
Goto(at) == job' = at /\ UNCHANGED queue

\* A mutant of Begin: the contract is not asked whether it has the leaf.
BeginBlind ==
    /\ Serving("start")
    /\ IF Stored(Current) \/ Cardinality(mirror) >= maxEnrollments
       THEN Answer ELSE Goto("insert")
    /\ UNCHANGED <<onchain, storeVars, late, service, check, unrecorded, faults>>

\* The checks before an insertion: the mirror has it; the contract has it, unless
\* the read fails, which counts as an absence; the mirror is full.
Begin ==
    /\ Serving("start")
    /\ \/ Stored(Current) /\ Answer /\ UNCHANGED <<mirror, faults>>
       \/ /\ ~Stored(Current) /\ Current \in Members
          /\ Upsert(Current) /\ Goto("flush") /\ UNCHANGED faults
       \/ /\ ~Stored(Current) /\ UNCHANGED mirror
          /\ IF Current \in Members THEN Fault ELSE UNCHANGED faults
          /\ IF Cardinality(mirror) >= maxEnrollments THEN Answer ELSE Goto("insert")
    /\ UNCHANGED <<onchain, backend, file, late, service, check, unrecorded>>

\* The insertion passes its simulation and is sent.  While one that timed out is
\* still pending the account's sequence number is taken and it never lands.
SubmitInsertion ==
    /\ Serving("insert") /\ Current \notin Members
    /\ \E at \in {"poll"} \cup (IF late # {} THEN {"never"} ELSE {}) : Goto(at)
    /\ UNCHANGED <<onchain, storeVars, late, service, check, unrecorded, faults>>

\* It reverts in simulation or the RPC fails.
InsertionRefused ==
    /\ Serving("insert")
    /\ IF Current \notin Members /\ late = {} THEN Fault ELSE UNCHANGED faults
    /\ Answer
    /\ UNCHANGED <<onchain, storeVars, late, service, check, unrecorded>>

InsertionLands ==
    /\ Serving("poll") /\ InsertLeaf(Current)
    /\ Goto("index")
    /\ UNCHANGED <<storeVars, late, service, check, unrecorded, faults>>

InsertionFails ==
    /\ Serving("poll") /\ Current \in Members
    /\ Answer
    /\ UNCHANGED <<onchain, storeVars, late, service, check, unrecorded, faults>>

\* A minute without a result: the request fails, the leaf may still be inserted.
InsertionTimesOut ==
    /\ \/ Serving("poll") /\ Fault /\ late' = late \cup {Current}
       \/ Serving("never") /\ UNCHANGED <<late, faults>>
    /\ unrecorded' = unrecorded \cup {Current}
    /\ Answer
    /\ UNCHANGED <<onchain, storeVars, service, check>>

\* A mutant of RecordIndex: the cap is looked at again, the wrong way.
RecordIndexIfRoom ==
    /\ Serving("index")
    /\ IF Cardinality(mirror) + 1 < maxEnrollments THEN Upsert(Current) ELSE UNCHANGED mirror
    /\ Goto("flush")
    /\ UNCHANGED <<onchain, backend, file, late, service, check, unrecorded, faults>>

\* The new leaf's index is read and the row set.
RecordIndex ==
    /\ Serving("index")
    /\ Upsert(Current) /\ Goto("flush")
    /\ UNCHANGED <<onchain, backend, file, late, service, check, unrecorded, faults>>

\* The index cannot be read: the leaf is in the tree, and not in the mirror.
IndexUnavailable ==
    /\ Serving("index") /\ Fault
    /\ unrecorded' = unrecorded \cup {Current}
    /\ Answer
    /\ UNCHANGED <<onchain, storeVars, late, service, check>>

\* It is written and the caller told; or an error comes back, from a write that
\* was made or was not: the row is in memory only, or in the table unheard, or
\* nowhere.
Flush ==
    /\ Serving("flush")
    /\ \/ file' = Written(Current) /\ UNCHANGED <<faults, unrecorded>>
       \/ /\ Fault /\ file' \in {file, Written(Current)}
          /\ unrecorded' = IF backend = "postgres" /\ file' = file
                           THEN unrecorded \cup {Current} ELSE unrecorded
    /\ mirror' = IF backend = "postgres" THEN file' ELSE mirror
    /\ Answer
    /\ UNCHANGED <<onchain, backend, late, service, check>>

Boot == ReadLeafCount \/ CheckLeaf \/ Enable

EnrollSerial ==
    \/ Begin \/ SubmitInsertion \/ InsertionRefused \/ InsertionLands \/ InsertionFails
    \/ InsertionTimesOut \/ RecordIndex \/ IndexUnavailable \/ Flush

Next ==
    \/ \E leaf \in Leaf : Enroll(leaf)
    \/ Boot \/ EnrollSerial
    \/ OperatorInserts \/ LateOutcome \/ Restart

\* The process runs, the network settles what was sent, and whoever needs a path
\* keeps asking.
Spec ==
    /\ Init /\ [][Next]_vars
    /\ WF_vars(Boot) /\ WF_vars(EnrollSerial) /\ WF_vars(LateOutcome)
    /\ \A leaf \in Leaf : WF_vars(Enroll(leaf))

-----------------------------------------------------------------------------
(* Properties.                                                             *)

\* Every row, in memory and on disk, is where the contract has its leaf, whatever
\* was retried, timed out or inserted past the service.
RowsMatchChain ==
    /\ EnrollmentTypeOK
    /\ service = "enabled" =>
           \A r \in mirror \cup file : r[1] < Len(onchain) /\ onchain[r[1] + 1] = r[2]

\* A leaf the contract has and the mirror lacks is the one being enrolled, or one
\* the service was never told of: only a timeout, a failed read or write, or the
\* operator's script can put a hole in the list.
HolesAreAccounted ==
    service = "enabled" =>
        \A leaf \in Members :
            \/ Stored(leaf) \/ leaf \in unrecorded
            \/ job \in {"index", "flush"} /\ leaf = Current

\* The mirror is right in what it has and knows why it lacks what it lacks
\* (enrollment.ts:266-330).
MirrorAgrees == RowsMatchChain /\ HolesAreAccounted

\* While no such leaf is missing, the list that clients build their paths from is
\* the contract's, but for a leaf that is about to be added at its end.
ServedListIsPrefix ==
    service = "enabled" /\ (\A leaf \in unrecorded \cap Members : Stored(leaf)) =>
        IsPrefix(GetLeaves, onchain)

\* Enrollment is only enabled on a list that is a prefix of the contract's, even
\* if late insertions land between the reads that verify it.
EnabledOnlyOnPrefix ==
    service = "boot" /\ service' = "enabled" => IsPrefix(GetLeaves, onchain)

\* Clients build their paths from a prefix of the contract's leaves, from the
\* moment enrollment is enabled (enrollment.ts:228-262 and getLeaves).
ServedOnPrefix == [][EnabledOnlyOnPrefix /\ ServedListIsPrefix']_vars

\* Holes heal: while the service stays enabled and people ask again, every leaf
\* of the contract gets into the mirror.
HolesHeal == <>[](service = "enabled") => <>[](\A leaf \in Members : Stored(leaf))
=============================================================================
