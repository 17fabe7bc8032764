----------------------------- MODULE ScreenerJobs -----------------------------
(***************************************************************************)
(* ScreenerJobs (backend/app/quant/screener/jobs.py): callers submit, wait *)
(* for, read and stop screener runs, worker threads of a pool execute      *)
(* them.  A step is what happens between two points at which another       *)
(* thread can be seen: one critical section of self._lock, one call of the *)
(* executor, or one access to the dict of futures, which no lock guards.   *)
(*                                                                         *)
(* A record is the JobRecord of one accepted submission, named by its      *)
(* number; its future and its task have the same number.  The pool is      *)
(* concurrent.futures.ThreadPoolExecutor, modelled from how it is used.    *)
(***************************************************************************)
EXTENDS Naturals, Sequences, FiniteSets

CONSTANTS
  Callers,      \* threads that use the job table
  Workers,      \* threads of the pool; max_workers of them
  Runs,         \* run identifiers
  MaxRecords    \* bound: number of records a behaviour may create

ASSUME Bound == MaxRecords \in Nat

VARIABLES
  records,    \* every JobRecord created, in order: its run and its status
  jobs,       \* _jobs: per run, its current record, 0 when it has none
  futures,    \* _futures: per run, the future stored last, 0 when none
  queue,      \* tasks the executor holds and no worker has taken
  worker,     \* per worker, the task it has, 0 when it is idle
  done,       \* futures that are done
  stopped,    \* the executor was shut down
  at,         \* per caller, where it is: see Place
  record,     \* per caller, the record its call is about, or 0: the one submit()
              \* created, or the run's current one when wait() or result() began
  target      \* per caller, the future its wait() or result() found, or 0

table   == <<records, jobs, futures>>
pool    == <<queue, worker, done, stopped>>
callers == <<at, record, target>>
vars    == <<table, pool, callers>>

Active == {"queued", "running"}
Ended  == {"completed", "failed"}

\* "registered" is between the critical section of submit() and the call of the
\* executor, "accepted" between that call and the store of the future.  "waiting"
\* and "fetching" are wait() and result() blocked on a future, "reading" is wait()
\* about to take the status, "closing" is shutdown(wait=True).
Place == {"idle", "registered", "accepted", "waiting", "fetching", "reading", "closing"}

-----------------------------------------------------------------------------
Init ==
  /\ records = <<>>
  /\ jobs = [run \in Runs |-> 0] /\ futures = [run \in Runs |-> 0]
  /\ queue = <<>> /\ worker = [w \in Workers |-> 0] /\ done = {} /\ stopped = FALSE
  /\ at = [c \in Callers |-> "idle"] /\ record = [c \in Callers |-> 0]
  /\ target = [c \in Callers |-> 0]

-----------------------------------------------------------------------------
(* submit *)

Goto(c, place) == at' = [at EXCEPT ![c] = place]

\* Mutant: only a running record stops a second submission.
InProgressIfRunning(run) == jobs[run] # 0 /\ records[jobs[run]].status = "running"

\* Mutant: only a queued record stops a second submission.
InProgressIfQueued(run) == jobs[run] # 0 /\ records[jobs[run]].status = "queued"

InProgress(run) == jobs[run] # 0 /\ records[jobs[run]].status \in Active

\* submit() returns the record that is already there.
ReturnExisting(c, run) ==
  /\ at[c] = "idle" /\ InProgress(run)
  /\ UNCHANGED vars

\* Mutant: after the shutdown the table names a record that is never made.
RegisterUnlessStopped(c, run) ==
  /\ at[c] = "idle" /\ ~InProgress(run) /\ Len(records) < MaxRecords
  /\ records' = IF stopped THEN records
                ELSE Append(records, [run |-> run, status |-> "queued"])
  /\ jobs' = [jobs EXCEPT ![run] = Len(records) + 1]
  /\ record' = [record EXCEPT ![c] = Len(records) + 1]
  /\ Goto(c, "registered")
  /\ UNCHANGED <<futures, pool, target>>

Register(c, run) ==
  /\ at[c] = "idle" /\ ~InProgress(run) /\ Len(records) < MaxRecords
  /\ records' = Append(records, [run |-> run, status |-> "queued"])
  /\ jobs' = [jobs EXCEPT ![run] = Len(records) + 1]
  /\ record' = [record EXCEPT ![c] = Len(records) + 1]
  /\ Goto(c, "registered")
  /\ UNCHANGED <<futures, pool, target>>

Leave(c) == Goto(c, "idle") /\ record' = [record EXCEPT ![c] = 0]

\* Mutant: a refusal by the executor is taken for an acceptance.
EnqueueIgnoringRefusal(c) ==
  /\ at[c] = "registered"
  /\ queue' = IF stopped THEN queue ELSE Append(queue, record[c])
  /\ Goto(c, "accepted")
  /\ UNCHANGED <<table, worker, done, stopped, record, target>>

\* executor.submit, which raises once the executor is shut down.
Enqueue(c) ==
  /\ at[c] = "registered"
  /\ IF stopped THEN Leave(c) /\ UNCHANGED queue
     ELSE /\ queue' = Append(queue, record[c])
          /\ Goto(c, "accepted")
          /\ UNCHANGED record
  /\ UNCHANGED <<table, worker, done, stopped, target>>

StoreFuture(c) ==
  /\ at[c] = "accepted"
  /\ futures' = [futures EXCEPT ![records[record[c]].run] = record[c]]
  /\ Leave(c)
  /\ UNCHANGED <<records, jobs, pool, target>>

-----------------------------------------------------------------------------
(* wait and result: the future is read without the lock, once. *)

Ask(c, run, place) ==
  /\ Goto(c, place)
  /\ record' = [record EXCEPT ![c] = jobs[run]]
  /\ target' = [target EXCEPT ![c] = futures[run]]

\* wait() blocks on the future if there is one, and otherwise takes the status.
Wait(c, run) ==
  /\ at[c] = "idle"
  /\ Ask(c, run, IF futures[run] = 0 THEN "reading" ELSE "waiting")
  /\ UNCHANGED <<table, pool>>

\* result(), which raises KeyError when there is no future.
Result(c, run) ==
  /\ at[c] = "idle" /\ futures[run] # 0
  /\ Ask(c, run, "fetching")
  /\ UNCHANGED <<table, pool>>

Return(c) ==
  /\ Leave(c)
  /\ target' = [target EXCEPT ![c] = 0]

Wake(c) ==
  /\ target[c] \in done
  /\ \/ at[c] = "waiting" /\ Goto(c, "reading") /\ UNCHANGED <<record, target>>
     \/ at[c] = "fetching" /\ Return(c)
  /\ UNCHANGED <<table, pool>>

\* The timeout of wait() or result(): TimeoutError.
TimeOut(c) ==
  /\ at[c] \in {"waiting", "fetching"}
  /\ Return(c)
  /\ UNCHANGED <<table, pool>>

\* The status snapshot wait() returns, or KeyError for an unknown run.
ReadStatus(c) ==
  /\ at[c] = "reading"
  /\ Return(c)
  /\ UNCHANGED <<table, pool>>

-----------------------------------------------------------------------------
(* The task, on a worker thread *)

\* The pool hands the oldest task to an idle thread, also after the shutdown.
Take(w) ==
  /\ worker[w] = 0 /\ queue # <<>>
  /\ worker' = [worker EXCEPT ![w] = Head(queue)]
  /\ queue' = Tail(queue)
  /\ UNCHANGED <<table, done, stopped, callers>>

SetStatus(r, status) == records' = [records EXCEPT ![r].status = status]

StartTask(w) ==
  /\ worker[w] # 0 /\ records[worker[w]].status = "queued"
  /\ SetStatus(worker[w], "running")
  /\ UNCHANGED <<jobs, futures, pool, callers>>

\* work() returned or raised, and the record says so.
EndTask(w) ==
  /\ worker[w] # 0 /\ records[worker[w]].status = "running"
  /\ \E outcome \in Ended : SetStatus(worker[w], outcome)
  /\ UNCHANGED <<jobs, futures, pool, callers>>

\* The pool resolves the future after the task ended, and the thread is idle.
Resolve(w) ==
  /\ worker[w] # 0 /\ records[worker[w]].status \in Ended
  /\ done' = done \cup {worker[w]}
  /\ worker' = [worker EXCEPT ![w] = 0]
  /\ UNCHANGED <<table, queue, stopped, callers>>

-----------------------------------------------------------------------------
(* shutdown *)

\* Mutant: queued tasks are dropped.
ShutdownDropsTasks(c) ==
  /\ at[c] = "idle"
  /\ stopped' = TRUE /\ queue' = <<>>
  /\ \E place \in {"closing", "idle"} : Goto(c, place)
  /\ UNCHANGED <<table, worker, done, record, target>>

\* With wait=True the caller blocks until the threads have left.
Shutdown(c) ==
  /\ at[c] = "idle"
  /\ stopped' = TRUE
  /\ \E place \in {"closing", "idle"} : Goto(c, place)
  /\ UNCHANGED <<table, queue, worker, done, record, target>>

Joined(c) ==
  /\ at[c] = "closing" /\ queue = <<>> /\ \A w \in Workers : worker[w] = 0
  /\ Goto(c, "idle")
  /\ UNCHANGED <<table, pool, record, target>>

-----------------------------------------------------------------------------
Call(c) ==
  \/ \E run \in Runs : ReturnExisting(c, run) \/ Register(c, run)
                      \/ Wait(c, run) \/ Result(c, run)
  \/ TimeOut(c) \/ Shutdown(c)

\* What a caller inside a call does next by itself.
Proceed(c) == Enqueue(c) \/ StoreFuture(c) \/ Wake(c) \/ ReadStatus(c) \/ Joined(c)

Work(w) == Take(w) \/ StartTask(w) \/ EndTask(w) \/ Resolve(w)

Next == (\E c \in Callers : Call(c) \/ Proceed(c)) \/ (\E w \in Workers : Work(w))

\* Threads keep running and run_screen, a loop over a finite universe, ends.  No
\* caller is obliged to call, to time out or to shut down.
Fairness ==
  /\ \A c \in Callers : WF_vars(Proceed(c))
  /\ \A w \in Workers : WF_vars(Work(w))

Spec == Init /\ [][Next]_vars
FairSpec == Spec /\ Fairness

-----------------------------------------------------------------------------
(* Properties *)

Record == [run : Runs, status : Active \cup Ended]
Numbers == 0..MaxRecords

TypeOK ==
  /\ records \in Seq(Record) /\ Len(records) <= MaxRecords
  /\ jobs \in [Runs -> 0..Len(records)] /\ futures \in [Runs -> 0..Len(records)]
  /\ queue \in Seq(1..Len(records)) /\ worker \in [Workers -> 0..Len(records)]
  /\ done \subseteq 1..Len(records) /\ stopped \in BOOLEAN
  /\ at \in [Callers -> Place] /\ record \in [Callers -> 0..Len(records)]
  /\ target \in [Callers -> 0..Len(records)]

\* "Do not run the same screen twice concurrently" (submit docstring): no two
\* threads are inside work() for one run, however submissions of it interleave
\* with its tasks' ends.
NoConcurrentDuplicate ==
  \A v, w \in Workers :
    LET running(x) == worker[x] # 0 /\ records[worker[x]].status = "running"
    IN  v # w /\ running(v) /\ running(w) =>
          records[worker[v]].run # records[worker[w]].run

\* What status() answers follows the promise of the job table.
StatusOf == [run \in Runs |-> IF jobs[run] = 0 THEN "absent" ELSE records[jobs[run]].status]

Promise == INSTANCE JobTable WITH state <- StatusOf

KeepsPromise == Promise!Spec

\* "Block until the run finishes, then return its status snapshot." (jobs.py:123):
\* when wait() takes the status, the record it was called about has ended.
WaitBlocksUntilEnd ==
  \A c \in Callers :
    at[c] = "reading" /\ record[c] # 0 => records[record[c]].status \in Ended

\* Every caller returns from its call, without help from a timeout: nobody waits
\* for a future that is never resolved, and shutdown(wait=True) ends.
CallersReturn == \A c \in Callers : at[c] # "idle" ~> at[c] = "idle"

\* The executor was shut down before the record's task came to it.
Refused(r) ==
  /\ stopped /\ records[r].status = "queued" /\ futures[records[r].run] # r
  /\ \A i \in DOMAIN queue : queue[i] # r
  /\ \A w \in Workers : worker[w] # r

\* Every registered run ends, also when the executor is shut down meanwhile; only
\* one that came to the executor after its shutdown does not.
RunsEnd ==
  \A r \in 1..MaxRecords :
    r <= Len(records) ~>
      r <= Len(records) /\ (records[r].status \in Ended \/ Refused(r))
=============================================================================
