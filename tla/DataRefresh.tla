----------------------------- MODULE DataRefresh ------------------------------
(***************************************************************************)
(* The data refresh of the backend (backend/app/data): the pipeline that   *)
(* turns source files into a snapshot directory and points CURRENT at it,  *)
(* run by the worker thread of DataService and by command-line processes   *)
(* beside it, and the API threads that read what CURRENT points at.        *)
(*                                                                         *)
(* A step is one critical section of DataService._lock, one read of a      *)
(* source file, or one group of writes no other thread can tell apart.     *)
(* The disk (source, snapshots, current) outlives every process.           *)
(***************************************************************************)
EXTENDS Naturals, Sequences, FiniteSets

CONSTANTS
  Service,        \* the worker thread of the service's executor
  Clis,           \* processes of the refresh command
  Readers,        \* API threads that answer a read
  Files,          \* paths of source files
  Categories,     \* directories the pipeline expects files in
  CategoryOf,     \* the directory of each path
  Contents,       \* what a source file can hold
  Critical,       \* contents in which assess_file finds a critical issue
  Malformed,      \* contents the parser quarantines
  Missing,        \* there is no such file
  BaselineDays,   \* reference dates whose counts are compared with a baseline
  MaxDay,         \* bound: days that pass
  MaxRuns,        \* bound: refreshes the service is asked for
  MaxChanges      \* bound: changes of source files

Runners == Clis \cup {Service}

ASSUME Names == /\ Service \notin Clis /\ Missing \notin Contents
                /\ CategoryOf \in [Files -> Categories]
ASSUME Kinds == Critical \subseteq Contents /\ Malformed \subseteq Contents
ASSUME Bounds == MaxDay \in Nat \ {0} /\ MaxRuns \in Nat /\ MaxChanges \in Nat

VARIABLES
  source,       \* per path, what the file holds, or Missing
  today,        \* the date
  changes,      \* number of changes of source files so far
  snapshots,    \* every snapshot directory made, in order: see Snapshot
  current,      \* the directory CURRENT names, 0 before the first promotion
  published,    \* history: the directories CURRENT has named
  at,           \* per runner, where it is: see Place
  job,          \* per runner, the locals of its pipeline run: see Job
  still,        \* history: per runner, no source changed since its run began
  ids,          \* run identifiers generated so far
  runId,        \* _run_id, 0 for None
  status,       \* _status
  future,       \* _future: the run it belongs to, 0 for None
  queue,        \* runs the executor holds
  task,         \* the run its worker has, 0 when idle
  closed,       \* the executor was shut down
  reader        \* per reader, its call: see Reading

files   == <<source, today, changes>>
disk    == <<snapshots, current, published>>
runs    == <<at, job, still>>
service == <<ids, runId, status, future, queue, task, closed>>
vars    == <<files, disk, runs, service, reader>>

Days == 1..MaxDay

\* "begin" is the worker between its first critical section and the discovery of
\* files, "done" a process that ended or a worker whose future is not resolved yet.
Working == {"begin", "assess", "scan", "stage", "tables", "promote", "swap"}
Place   == Working \cup {"idle", "report", "done"}

\* asOf: reference_date; found: the files discovered; todo: those still to read in
\* this pass; first: what the first pass read; blocked: there is a blocking reason;
\* dir: the candidate's directory, 0 before there is one.
NoJob == [asOf |-> 1, found |-> {}, todo |-> {}, first |-> [f \in Files |-> Missing],
          blocked |-> FALSE, dir |-> 0]

\* A status the run it belongs to does not leave.
Ended == {"completed", "failed"}

NoCall == [at |-> "idle", dir |-> 0, bars |-> [f \in Files |-> Missing], label |-> 0]

-----------------------------------------------------------------------------
Init ==
  /\ source \in [Files -> Contents \cup {Missing}] /\ today = 1 /\ changes = 0
  /\ snapshots = <<>> /\ current = 0 /\ published = {}
  /\ at = [r \in Runners |-> "idle"] /\ job = [r \in Runners |-> NoJob]
  /\ still = [r \in Runners |-> TRUE]
  /\ ids = 0 /\ runId = 0 /\ status = "idle" /\ future = 0
  /\ queue = <<>> /\ task = 0 /\ closed = FALSE
  /\ reader = [rd \in Readers |-> NoCall]

-----------------------------------------------------------------------------
(* The world: FData rewrites a file, a day passes. *)

SourceChanges(f) ==
  /\ changes < MaxChanges
  /\ \E c \in (Contents \cup {Missing}) \ {source[f]} : source' = [source EXCEPT ![f] = c]
  /\ changes' = changes + 1
  /\ still' = [r \in Runners |-> FALSE]
  /\ UNCHANGED <<today, disk, at, job, service, reader>>

NewDay ==
  /\ today < MaxDay /\ today' = today + 1
  /\ UNCHANGED <<source, changes, disk, runs, service, reader>>

-----------------------------------------------------------------------------
(* start_refresh and the executor's worker *)

\* Future.done(): the run is neither queued nor with the worker.
FutureDone == task # future /\ \A i \in DOMAIN queue : queue[i] # future

\* Mutant: a run that is still queued does not count.
InProgressIfTaken == future # 0 /\ task = future

InProgress == future # 0 /\ ~FutureDone

\* A refresh is in progress: the request is answered with its run.
AnswerRunning ==
  /\ InProgress
  /\ UNCHANGED vars

\* A new run; the executor refuses it, with an exception, once it is shut down,
\* which leaves the new identifier and status and the old future.
StartRefresh ==
  /\ ~InProgress /\ ids < MaxRuns
  /\ ids' = ids + 1 /\ runId' = ids + 1 /\ status' = "queued"
  /\ IF closed THEN UNCHANGED <<future, queue>>
     ELSE future' = ids + 1 /\ queue' = Append(queue, ids + 1)
  /\ UNCHANGED <<files, disk, runs, reader, task, closed>>

\* The worker takes a task, and _execute_refresh marks the run as running.  A task
\* that is not of the current run raises instead, before any status is written.
TakeTask ==
  /\ task = 0 /\ queue # <<>>
  /\ task' = Head(queue) /\ queue' = Tail(queue)
  /\ IF Head(queue) = runId
     THEN status' = "running" /\ at' = [at EXCEPT ![Service] = "begin"]
     ELSE UNCHANGED status /\ at' = [at EXCEPT ![Service] = "done"]
  /\ UNCHANGED <<files, disk, job, still, reader, ids, runId, future, closed>>

\* The executor resolves the future, after _execute_refresh has returned or raised.
Resolve ==
  /\ task # 0 /\ at[Service] = "done"
  /\ task' = 0 /\ at' = [at EXCEPT ![Service] = "idle"]
  /\ UNCHANGED <<files, disk, job, still, reader, ids, runId, status, future, queue, closed>>

\* close(): no more tasks; the queued ones are still run.
Close ==
  /\ ~closed /\ closed' = TRUE
  /\ UNCHANGED <<files, disk, runs, reader, ids, runId, status, future, queue, task>>

-----------------------------------------------------------------------------
(* The pipeline: RefreshPipeline.run and the SnapshotManager under it *)

\* assess_file found a critical issue in what the first pass read.
Excluded(r, f) == job[r].first[f] \in Critical

\* Where a pass goes on after one of its files.
NextPlace(todo, here, there) == IF todo = {} THEN there ELSE here

\* Files are discovered; a category without a file is a blocking reason.
Begin(r, asOf) ==
  LET found == {f \in Files : source[f] # Missing}
  IN  /\ at' = [at EXCEPT ![r] = NextPlace(found, "assess", "scan")]
      /\ job' = [job EXCEPT ![r] =
           [NoJob EXCEPT !.asOf = asOf, !.found = found, !.todo = found,
                         !.blocked = \E c \in Categories : \A f \in found : CategoryOf[f] # c]]
      /\ still' = [still EXCEPT ![r] = TRUE]
      /\ UNCHANGED <<files, disk, service, reader>>

\* The first pass reads one file: its assessment and its fingerprint.
Assess(r, f) ==
  /\ at[r] = "assess" /\ f \in job[r].todo /\ source[f] # Missing
  /\ job' = [job EXCEPT ![r].first[f] = source[f], ![r].todo = @ \ {f}]
  /\ at' = [at EXCEPT ![r] = NextPlace(job[r].todo \ {f}, "assess", "scan")]
  /\ UNCHANGED <<files, disk, still, service, reader>>

Candidate(r) ==
  [bars |-> [f \in Files |-> Missing], hash |-> job[r].first, asOf |-> job[r].asOf,
   run |-> IF r = Service THEN task ELSE 0,
   blocked |-> FALSE, complete |-> FALSE, ready |-> FALSE]

\* Counting deviates from the baseline, and the third pass begins in directory dir.
ScanInto(r, dir) ==
  /\ at[r] = "scan"
  /\ \E deviates \in {FALSE} \cup {job[r].asOf \in BaselineDays} :
       job' = [job EXCEPT ![r].blocked = @ \/ deviates, ![r].todo = job[r].found,
                          ![r].dir = dir]
  /\ at' = [at EXCEPT ![r] = NextPlace(job[r].found, "stage", "tables")]
  /\ UNCHANGED <<files, current, published, still, service, reader>>

\* Mutant: a run that is blocked already makes no directory.
ScanUnlessBlocked(r) ==
  /\ ScanInto(r, Len(snapshots) + 1)
  /\ snapshots' = IF job[r].blocked THEN snapshots ELSE Append(snapshots, Candidate(r))

\* Mutant: the directory's name is the data version, and it is emptied first.
ScanIntoVersion(r) ==
  LET same == {d \in DOMAIN snapshots : snapshots[d].asOf = job[r].asOf}
      dir  == IF same = {} THEN Len(snapshots) + 1 ELSE CHOOSE d \in same : TRUE
  IN  /\ ScanInto(r, dir)
      /\ snapshots' = [d \in DOMAIN snapshots \cup {dir} |->
                          IF d = dir THEN Candidate(r) ELSE snapshots[d]]

\* The second pass counts what the files hold.  On a baseline date a count that
\* deviates is a blocking reason; which contents deviate is left open.  Then the
\* staging directory is made, under a name no other run uses.
Scan(r) ==
  /\ ScanInto(r, Len(snapshots) + 1)
  /\ snapshots' = Append(snapshots, Candidate(r))

StageBars(r, f, bars) ==
  /\ at[r] = "stage" /\ f \in job[r].todo /\ source[f] # Missing
  /\ snapshots' = [snapshots EXCEPT ![job[r].dir].bars[f] = bars]
  /\ job' = [job EXCEPT ![r].todo = @ \ {f}]
  /\ at' = [at EXCEPT ![r] = NextPlace(job[r].todo \ {f}, "stage", "tables")]
  /\ UNCHANGED <<files, current, published, still, service, reader>>

\* Mutant: only the first pass decides what is quarantined.
StageAsAssessed(r, f) == StageBars(r, f, IF Excluded(r, f) THEN Missing ELSE source[f])

\* Mutant: only the parser decides what is quarantined.
StageAsParsed(r, f) == StageBars(r, f, IF source[f] \in Malformed THEN Missing ELSE source[f])

\* The third pass reads one file again and writes its bars, unless the parser
\* quarantines what it reads now or the first pass excluded the file.
Stage(r, f) ==
  StageBars(r, f, IF source[f] \in Malformed \/ Excluded(r, f) THEN Missing ELSE source[f])

\* Securities, quality issues and the manifest.
WriteTables(r) ==
  /\ at[r] = "tables"
  /\ snapshots' = [snapshots EXCEPT ![job[r].dir].complete = TRUE,
                                    ![job[r].dir].blocked = job[r].blocked]
  /\ at' = [at EXCEPT ![r] = "promote"]
  /\ UNCHANGED <<files, current, published, job, still, service, reader>>

\* promote(valid=False) returns FALSE and touches nothing.
Refuse(r) ==
  /\ at[r] = "promote" /\ job[r].blocked
  /\ at' = [at EXCEPT ![r] = "report"]
  /\ UNCHANGED <<files, disk, job, still, service, reader>>

\* Mutant: promote() does not look at valid.
MarkReadyAlways(r) ==
  /\ at[r] = "promote"
  /\ snapshots' = [snapshots EXCEPT ![job[r].dir].ready = TRUE]
  /\ at' = [at EXCEPT ![r] = "swap"]
  /\ UNCHANGED <<files, current, published, job, still, service, reader>>

\* READY, and the new pointer under a temporary name nobody reads.
MarkReady(r) ==
  /\ at[r] = "promote" /\ ~job[r].blocked
  /\ snapshots' = [snapshots EXCEPT ![job[r].dir].ready = TRUE]
  /\ at' = [at EXCEPT ![r] = "swap"]
  /\ UNCHANGED <<files, current, published, job, still, service, reader>>

\* os.replace of CURRENT.
Swap(r) ==
  /\ at[r] = "swap"
  /\ current' = job[r].dir /\ published' = published \cup {job[r].dir}
  /\ at' = [at EXCEPT ![r] = "report"]
  /\ UNCHANGED <<files, snapshots, job, still, service, reader>>

\* A run is over: the locals are gone, the service's status says how it ended.
End(r, outcome) ==
  /\ at' = [at EXCEPT ![r] = "done"]
  /\ job' = [job EXCEPT ![r] = NoJob]
  /\ status' = IF r = Service THEN outcome ELSE status
  /\ UNCHANGED <<files, disk, still, reader, ids, runId, future, queue, task, closed>>

\* Mutant: a run that raised nothing is completed.
ReportCompleted(r) ==
  /\ at[r] = "report"
  /\ End(r, "completed")

\* The result: promoted unless there was a blocking reason.
Report(r) ==
  /\ at[r] = "report"
  /\ End(r, IF job[r].blocked THEN "failed" ELSE "completed")

\* Mutant: the service waits for a file that is gone to come back.
FailInCli(r) ==
  /\ at[r] \in Working /\ r \in Clis
  /\ End(r, "failed")

\* An exception of any read or write: a file that is gone, a full disk, and after
\* the replacement of CURRENT the promoted run's own reading of it.  What was
\* written stays.  A process that is killed looks the same to everyone else.
Fail(r) ==
  /\ at[r] \in Working \/ (at[r] = "report" /\ ~job[r].blocked)
  /\ End(r, "failed")

StartService == at[Service] = "begin" /\ Begin(Service, today)

StartCli(r) ==
  /\ at[r] = "idle"
  /\ \E asOf \in Days : Begin(r, asOf)

Pipeline(r) ==
  \/ \E f \in Files : Assess(r, f) \/ Stage(r, f)
  \/ Scan(r) \/ WriteTables(r) \/ Refuse(r) \/ MarkReady(r) \/ Swap(r)
  \/ Report(r) \/ Fail(r)

Worker == TakeTask \/ StartService \/ Pipeline(Service) \/ Resolve

\* The service's process ends and starts again: a new DataService over the same disk.
Restart ==
  /\ runId' = 0 /\ status' = "idle" /\ future' = 0
  /\ queue' = <<>> /\ task' = 0 /\ closed' = FALSE
  /\ at' = [at EXCEPT ![Service] = "idle"] /\ job' = [job EXCEPT ![Service] = NoJob]
  /\ reader' = [rd \in Readers |-> NoCall]
  /\ UNCHANGED <<files, disk, still, ids>>

-----------------------------------------------------------------------------
(* A read: get_bars and list_symbols take the directory from CURRENT, query its *)
(* files, and then take the provenance from CURRENT; data_status and health     *)
(* read CURRENT twice in the same way.                                          *)

\* Without a snapshot nothing is read and the call returns.
TakeSnapshot(rd) ==
  /\ reader[rd].at = "idle" /\ current # 0
  /\ reader' = [reader EXCEPT ![rd] = [NoCall EXCEPT !.at = "query", !.dir = current]]
  /\ UNCHANGED <<files, disk, runs, service>>

Query(rd) ==
  /\ reader[rd].at = "query"
  /\ reader' = [reader EXCEPT ![rd].at = "label", ![rd].bars = snapshots[reader[rd].dir].bars]
  /\ UNCHANGED <<files, disk, runs, service>>

\* _provenance
Label(rd) ==
  /\ reader[rd].at = "label"
  /\ reader' = [reader EXCEPT ![rd].at = "answered", ![rd].label = snapshots[current].asOf]
  /\ UNCHANGED <<files, disk, runs, service>>

Return(rd) ==
  /\ reader[rd].at = "answered"
  /\ reader' = [reader EXCEPT ![rd] = NoCall]
  /\ UNCHANGED <<files, disk, runs, service>>

-----------------------------------------------------------------------------
Next ==
  \/ AnswerRunning \/ StartRefresh \/ Close \/ Restart \/ NewDay
  \/ Worker
  \/ \E r \in Clis : StartCli(r) \/ Pipeline(r)
  \/ \E f \in Files : SourceChanges(f)
  \/ \E rd \in Readers : TakeSnapshot(rd) \/ Query(rd) \/ Label(rd) \/ Return(rd)

Spec == Init /\ [][Next]_vars

\* The worker thread is scheduled.  Nothing obliges anyone to ask or to read.
FairSpec == Spec /\ WF_vars(Worker)

-----------------------------------------------------------------------------
(* Properties *)

Bars == [Files -> Contents \cup {Missing}]

Snapshot == [bars : Bars, hash : Bars, asOf : Days, run : 0..MaxRuns,
             blocked : BOOLEAN, complete : BOOLEAN, ready : BOOLEAN]

Job == [asOf : Days, found : SUBSET Files, todo : SUBSET Files, first : Bars,
        blocked : BOOLEAN, dir : 0..Len(snapshots)]

Reading == [at : {"idle", "query", "label", "answered"}, dir : 0..Len(snapshots),
            bars : Bars, label : 0..MaxDay]

TypeOK ==
  /\ source \in Bars /\ today \in Days /\ changes \in 0..MaxChanges
  /\ snapshots \in Seq(Snapshot) /\ current \in 0..Len(snapshots)
  /\ published \subseteq 1..Len(snapshots)
  /\ at \in [Runners -> Place] /\ job \in [Runners -> Job] /\ still \in [Runners -> BOOLEAN]
  /\ ids \in 0..MaxRuns /\ runId \in 0..ids /\ future \in 0..ids
  /\ status \in {"idle", "queued", "running"} \cup Ended
  /\ queue \in Seq(1..ids) /\ task \in 0..ids /\ closed \in BOOLEAN
  /\ reader \in [Readers -> Reading]

\* "Atomic snapshot promotion; a partial or invalid refresh must never replace the
\* last good snapshot" (docs/execution_playbook.md:187): whatever CURRENT has ever
\* named was written to the end, passed validation, carries READY and has no bars
\* of a file whose assessment was critical, however runs fail, die and overlap; so
\* no reader is refused by current_snapshot_path.
PublishedIsWhole ==
  \A d \in published \cup ({current} \ {0}) :
    /\ snapshots[d].complete /\ snapshots[d].ready /\ ~snapshots[d].blocked
    /\ \A f \in Files : snapshots[d].hash[f] \in Critical => snapshots[d].bars[f] = Missing

\* "Completed candidates are immutable" (HANDOFF.md:194): no step of any runner
\* writes into a directory that has READY.
CandidatesFreeze ==
  [][\A d \in DOMAIN snapshots : snapshots[d].ready => snapshots'[d] = snapshots[d]]_vars

\* A candidate whose run saw no source change holds what it was assessed on: every
\* file that is neither critical nor malformed, no other, under the hash of its bars.
SoundIfStill ==
  \A r \in Runners :
    at[r] = "swap" /\ still[r] =>
      \A f \in Files :
        LET s == snapshots[job[r].dir]
        IN  /\ s.hash[f] = source[f]
            /\ s.bars[f] = IF source[f] \in Critical \cup Malformed THEN Missing ELSE source[f]

\* CURRENT has named a snapshot of the run the status is about.
OwnPublished == \E d \in published : snapshots[d].run = runId

\* The status never claims more than what happened to CURRENT: a run that is
\* "completed" has put its own snapshot in place, one that is still queued has not,
\* and a future that is done leaves the run in no state but the two that end it.
StatusTellsPromotion ==
  /\ status = "completed" => OwnPublished
  /\ status = "queued" => ~OwnPublished
  /\ runId # 0 /\ future = runId /\ FutureDone => status \in Ended

\* "A failed refresh must leave the previous snapshot active"
\* (docs/execution_playbook.md:527): a run reported as failed has not replaced it.
FailedLeavesPrevious == status = "failed" => ~OwnPublished

\* The worker never meets "Refresh run id changed unexpectedly" (service.py:182).
RunIdIsStable == task # 0 => task = runId

\* "Critical data anomalies are quarantined and cannot enter the canonical bar
\* partitions" (backend/app/data/HANDOFF.md:197), whatever the sources do meanwhile.
NoCriticalBars ==
  \A d \in published : \A f \in Files : snapshots[d].bars[f] \notin Critical

\* "Every analytical output includes an as_of_date" (docs/development_plan.md:121),
\* and it is that of the bars it comes with.
AnswerIsOfOneSnapshot ==
  \A rd \in Readers :
    reader[rd].at = "answered" =>
      \E d \in published : /\ snapshots[d].bars = reader[rd].bars
                          /\ snapshots[d].asOf = reader[rd].label

\* What a call has: the bars of the directory it took, which nobody changes before
\* they are queried, then the bars and the label it got.
BarsOf(d) == IF d = 0 THEN [f \in Files |-> Missing] ELSE snapshots[d].bars
DateOf(d) == IF d = 0 THEN 0 ELSE snapshots[d].asOf

SeenBy(rd) ==
  [calls |-> reader[rd].at # "idle",
   bars  |-> IF reader[rd].at = "query" THEN BarsOf(reader[rd].dir) ELSE reader[rd].bars,
   label |-> reader[rd].label]

\* Acceptable is what the parser guarantees; of critical bars see NoCriticalBars.
Promise == INSTANCE PublishedSnapshot
  WITH Acceptable <- {b \in Bars : \A f \in Files : b[f] \notin Malformed},
       Dates <- Days, NoBars <- [f \in Files |-> Missing], NoDate <- 0,
       served <- BarsOf(current), asOf <- DateOf(current),
       seen <- [rd \in Readers |-> SeenBy(rd)]

\* A switch of the snapshot is one step, a call has the whole bars of the snapshot
\* it took, and its label is that of the snapshot served when it was labelled.
ServesWholeSnapshots == Promise!Spec

\* A refresh that the executor accepted comes to an end, whatever the files do, so
\* that the next request can start one.
RefreshEnds ==
  \A n \in 1..MaxRuns : future = n ~> future # n \/ FutureDone
=============================================================================
