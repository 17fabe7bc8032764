-------------------------- MODULE ScreenerJobs_proofs --------------------------
(***************************************************************************)
(* Theorems of the screener's job table for any number of callers, workers *)
(* and runs: it is well typed, it keeps the promise of JobTable, and no    *)
(* two workers screen one run at once.                                     *)
(***************************************************************************)
EXTENDS ScreenerJobs, SequenceTheorems, TLAPS

\* A record that has not ended is the current record of its run.
CurrentInv ==
  /\ \A run \in Runs : jobs[run] # 0 => records[jobs[run]].run = run
  /\ \A i \in 1..Len(records) :
       records[i].status \in Active => jobs[records[i].run] = i

\* A caller inside submit() has a record.
CallerInv ==
  \A c \in Callers : at[c] \in {"registered", "accepted"} => record[c] # 0

\* A record's task is in one place: still with the caller that registered it, in
\* the queue, or on a worker.
TaskInv ==
  /\ \A c \in Callers : at[c] = "registered" =>
       /\ \A i \in DOMAIN queue : queue[i] # record[c]
       /\ \A w \in Workers : worker[w] # record[c]
       /\ \A d \in Callers : at[d] = "registered" /\ record[d] = record[c] => d = c
  /\ \A i, j \in DOMAIN queue : queue[i] = queue[j] => i = j
  /\ \A i \in DOMAIN queue : \A w \in Workers : worker[w] # queue[i]
  /\ \A v, w \in Workers : worker[v] # 0 /\ worker[v] = worker[w] => v = w

JobsInv == TypeOK /\ CurrentInv /\ CallerInv /\ TaskInv

-----------------------------------------------------------------------------
(* Type correctness *)

LEMMA InitInv == Init => JobsInv
<1> SUFFICES ASSUME Init PROVE JobsInv
  OBVIOUS
<1>1. Len(records) = 0 /\ Len(queue) = 0 /\ MaxRecords \in Nat
  BY Bound DEF Init
<1>2. TypeOK
  <2>1. records \in Seq(Record) /\ queue \in Seq(1..Len(records))
    BY DEF Init
  <2>2. jobs \in [Runs -> 0..Len(records)] /\ futures \in [Runs -> 0..Len(records)]
    BY <1>1 DEF Init
  <2>3. worker \in [Workers -> 0..Len(records)] /\ record \in [Callers -> 0..Len(records)]
    BY <1>1 DEF Init
  <2>4. target \in [Callers -> 0..Len(records)] /\ at \in [Callers -> Place]
    BY <1>1 DEF Init, Place
  <2>5. done \subseteq 1..Len(records) /\ stopped \in BOOLEAN
    BY DEF Init
  <2>6. Len(records) <= MaxRecords
    BY <1>1
  <2> QED BY <2>1, <2>2, <2>3, <2>4, <2>5, <2>6 DEF TypeOK
<1>3. CurrentInv
  BY <1>1 DEF CurrentInv, Init
<1>4. CallerInv /\ TaskInv
  BY <1>1 DEF CallerInv, TaskInv, Init
<1> QED BY <1>2, <1>3, <1>4 DEF JobsInv

\* The steps that leave the length of records alone: the ranges stay.
LEMMA SameLength ==
  ASSUME TypeOK, NEW r \in 1..Len(records), NEW status \in Active \cup Ended,
         SetStatus(r, status)
  PROVE  /\ records' \in Seq(Record)
         /\ Len(records') = Len(records)
         /\ \A i \in 1..Len(records) : i # r => records'[i] = records[i]
         /\ records'[r].run = records[r].run
         /\ records'[r].status = status
<1>1. records \in Seq(Record) /\ records[r] \in Record
  BY ElementOfSeq DEF TypeOK
<1>2. records' = [records EXCEPT ![r] = [records[r] EXCEPT !.status = status]]
  BY <1>1 DEF SetStatus
<1>3. [records[r] EXCEPT !.status = status] \in Record
  BY <1>1 DEF Record
<1> QED BY <1>1, <1>2, <1>3, ExceptSeq DEF Record

\* A new record extends the sequence.
LEMMA OneMore ==
  ASSUME TypeOK, NEW run \in Runs,
         records' = Append(records, [run |-> run, status |-> "queued"])
  PROVE  /\ records' \in Seq(Record)
         /\ Len(records) \in Nat
         /\ Len(records') = Len(records) + 1
         /\ \A i \in 1..Len(records) : records'[i] = records[i]
         /\ records'[Len(records) + 1] = [run |-> run, status |-> "queued"]
<1>1. [run |-> run, status |-> "queued"] \in Record
  BY DEF Record, Active
<1> QED BY <1>1, AppendProperties DEF TypeOK

LEMMA QueueTail ==
  ASSUME TypeOK, queue # <<>>
  PROVE  /\ Head(queue) = queue[1] /\ Head(queue) \in 1..Len(records)
         /\ 1 \in DOMAIN queue
         /\ Tail(queue) \in Seq(1..Len(records))
         /\ \A i \in DOMAIN Tail(queue) :
              i + 1 \in DOMAIN queue /\ i \in Nat /\ Tail(queue)[i] = queue[i + 1]
<1> QED BY HeadTailProperties DEF TypeOK

LEMMA QueueAppend ==
  ASSUME TypeOK, NEW r \in 1..Len(records)
  PROVE  /\ Append(queue, r) \in Seq(1..Len(records))
         /\ DOMAIN Append(queue, r) = 1..(Len(queue) + 1)
         /\ DOMAIN queue = 1..Len(queue) /\ Len(queue) \in Nat
         /\ \A i \in 1..Len(queue) : Append(queue, r)[i] = queue[i]
         /\ Append(queue, r)[Len(queue) + 1] = r
<1> QED BY AppendProperties DEF TypeOK

-----------------------------------------------------------------------------
(* Type correctness and the invariant, action by action *)

LEMMA RegisterInv ==
  ASSUME JobsInv, NEW c \in Callers, NEW run \in Runs, Register(c, run)
  PROVE  JobsInv'
<1> DEFINE n == Len(records) + 1
<1>1. /\ records' \in Seq(Record) /\ Len(records) \in Nat /\ Len(records') = n
      /\ \A i \in 1..Len(records) : records'[i] = records[i]
      /\ records'[n] = [run |-> run, status |-> "queued"]
  BY OneMore DEF JobsInv, Register
<1>2. n \in Nat \ {0} /\ 1..n = (1..Len(records)) \cup {n} /\ n \notin 0..Len(records)
      /\ 0..Len(records) \subseteq 0..n
  BY <1>1
<1>3. Len(records) < MaxRecords /\ MaxRecords \in Nat
  BY Bound DEF Register
<1>4. jobs' = [jobs EXCEPT ![run] = n] /\ record' = [record EXCEPT ![c] = n]
      /\ at' = [at EXCEPT ![c] = "registered"]
  BY DEF Register, Goto
<1>5. UNCHANGED <<futures, queue, worker, done, stopped, target>>
  BY DEF Register, pool
<1> HIDE DEF n
<1>6. TypeOK'
  <2>1. jobs' \in [Runs -> 0..n] /\ futures' \in [Runs -> 0..n]
    BY <1>2, <1>4, <1>5 DEF JobsInv, TypeOK
  <2>2. worker' \in [Workers -> 0..n] /\ record' \in [Callers -> 0..n]
        /\ target' \in [Callers -> 0..n]
    BY <1>2, <1>4, <1>5 DEF JobsInv, TypeOK
  <2>3. queue' \in Seq(1..n)
    BY <1>2, <1>5, SeqMonotonic DEF JobsInv, TypeOK
  <2>4. done' \subseteq 1..n /\ stopped' \in BOOLEAN
    BY <1>2, <1>5 DEF JobsInv, TypeOK
  <2>5. at' \in [Callers -> Place]
    BY <1>4 DEF JobsInv, TypeOK, Place
  <2>6. Len(records') <= MaxRecords
    BY <1>1, <1>3 DEF n
  <2> QED BY <1>1, <2>1, <2>2, <2>3, <2>4, <2>5, <2>6 DEF TypeOK
<1>7. CurrentInv'
  <2>1. ASSUME NEW x \in Runs, jobs'[x] # 0 PROVE records'[jobs'[x]].run = x
    <3>1. CASE x = run
      BY <3>1, <1>1, <1>4 DEF JobsInv, TypeOK
    <3>2. CASE x # run
      <4>1. jobs'[x] = jobs[x] /\ jobs[x] \in 1..Len(records)
        BY <3>2, <2>1, <1>1, <1>4 DEF JobsInv, TypeOK
      <4>2. records[jobs[x]].run = x
        BY <4>1, <2>1 DEF JobsInv, CurrentInv
      <4> QED BY <4>1, <4>2, <1>1
    <3> QED BY <3>1, <3>2
  <2>2. ASSUME NEW i \in 1..n, records'[i].status \in Active
        PROVE  jobs'[records'[i].run] = i
    <3>1. CASE i = n
      BY <3>1, <1>1, <1>4 DEF JobsInv, TypeOK
    <3>2. CASE i # n
      <4>1. i \in 1..Len(records) /\ records'[i] = records[i]
        BY <3>2, <1>1, <1>2
      <4>2. jobs[records[i].run] = i /\ records[i] \in Record
        BY <4>1, <2>2, ElementOfSeq DEF JobsInv, TypeOK, CurrentInv
      <4>3. records[i].run # run
        BY <4>1, <4>2, <2>2 DEF Register, InProgress
      <4> QED BY <4>1, <4>2, <4>3, <1>4 DEF JobsInv, TypeOK, Record
    <3> QED BY <3>1, <3>2
  <2> QED BY <1>1, <2>1, <2>2 DEF CurrentInv
<1>8. CallerInv'
  BY <1>2, <1>4 DEF JobsInv, TypeOK, CallerInv
<1>9. TaskInv'
  <2>1. \A i \in DOMAIN queue : queue[i] # n
    BY <1>2, ElementOfSeq DEF JobsInv, TypeOK
  <2>2. \A w \in Workers : worker[w] # n
    BY <1>2 DEF JobsInv, TypeOK
  <2>3. \A d \in Callers : record[d] # n
    BY <1>2 DEF JobsInv, TypeOK
  <2>4. record'[c] = n /\ \A d \in Callers \ {c} : record'[d] = record[d] /\ at'[d] = at[d]
    BY <1>4 DEF JobsInv, TypeOK
  <2> QED BY <1>5, <2>1, <2>2, <2>3, <2>4 DEF JobsInv, TaskInv
<1> QED BY <1>6, <1>7, <1>8, <1>9 DEF JobsInv

LEMMA EnqueueInv ==
  ASSUME JobsInv, NEW c \in Callers, Enqueue(c)
  PROVE  JobsInv'
<1>1. UNCHANGED <<records, jobs, futures, worker, done, stopped, target>>
  BY DEF Enqueue, table
<1>2. CASE stopped
  <2>1. at' = [at EXCEPT ![c] = "idle"] /\ record' = [record EXCEPT ![c] = 0]
        /\ queue' = queue
    BY <1>2 DEF Enqueue, Leave, Goto
  <2>2. Len(records) \in Nat
    BY DEF JobsInv, TypeOK
  <2>3. TypeOK'
    BY <1>1, <2>1, <2>2 DEF JobsInv, TypeOK, Place
  <2>4. CurrentInv'
    BY <1>1 DEF JobsInv, CurrentInv
  <2>5. CallerInv' /\ TaskInv'
    BY <1>1, <2>1 DEF JobsInv, TypeOK, CallerInv, TaskInv
  <2> QED BY <2>3, <2>4, <2>5 DEF JobsInv
<1>3. CASE ~stopped
  <2>1. at' = [at EXCEPT ![c] = "accepted"] /\ record' = record
        /\ queue' = Append(queue, record[c]) /\ at[c] = "registered"
    BY <1>3 DEF Enqueue, Goto
  <2>2. record[c] \in 1..Len(records)
    BY <2>1 DEF JobsInv, TypeOK, CallerInv
  <2>3. /\ queue' \in Seq(1..Len(records))
        /\ DOMAIN queue' = 1..(Len(queue) + 1)
        /\ DOMAIN queue = 1..Len(queue) /\ Len(queue) \in Nat
        /\ \A i \in 1..Len(queue) : queue'[i] = queue[i]
        /\ queue'[Len(queue) + 1] = record[c]
    BY <2>1, <2>2, QueueAppend DEF JobsInv
  <2>4. TypeOK'
    BY <1>1, <2>1, <2>3 DEF JobsInv, TypeOK, Place
  <2>5. CurrentInv' /\ CallerInv'
    BY <1>1, <2>1 DEF JobsInv, TypeOK, CurrentInv, CallerInv
  <2>6. TaskInv'
    <3>1. \A i \in DOMAIN queue' :
            \/ i \in DOMAIN queue /\ queue'[i] = queue[i]
            \/ i = Len(queue) + 1 /\ queue'[i] = record[c]
      BY <2>3
    <3>2. \A d \in Callers : at'[d] = "registered" => d # c /\ at[d] = "registered"
      BY <2>1 DEF JobsInv, TypeOK
    <3>3. \A d \in Callers : at'[d] = "registered" => record[d] # record[c]
      BY <2>1, <3>2 DEF JobsInv, TaskInv
    <3>4. \A i \in DOMAIN queue : queue[i] # record[c]
      BY <2>1 DEF JobsInv, TaskInv
    <3>5. \A w \in Workers : worker[w] # record[c]
      BY <2>1 DEF JobsInv, TaskInv
    <3>6. \A i, j \in DOMAIN queue' : queue'[i] = queue'[j] => i = j
      BY <3>1, <3>4 DEF JobsInv, TaskInv
    <3>7. \A i \in DOMAIN queue' : \A w \in Workers : worker'[w] # queue'[i]
      BY <1>1, <3>1, <3>5 DEF JobsInv, TaskInv
    <3>8. \A d \in Callers : at'[d] = "registered" =>
            \A i \in DOMAIN queue' : queue'[i] # record'[d]
      BY <2>1, <3>1, <3>2, <3>3 DEF JobsInv, TaskInv
    <3> QED BY <1>1, <2>1, <3>2, <3>6, <3>7, <3>8 DEF JobsInv, TaskInv
  <2> QED BY <2>4, <2>5, <2>6 DEF JobsInv
<1> QED BY <1>2, <1>3

LEMMA StoreFutureInv ==
  ASSUME JobsInv, NEW c \in Callers, StoreFuture(c)
  PROVE  JobsInv'
<1>1. /\ UNCHANGED <<records, jobs, queue, worker, done, stopped, target>>
      /\ at' = [at EXCEPT ![c] = "idle"] /\ record' = [record EXCEPT ![c] = 0]
      /\ futures' = [futures EXCEPT ![records[record[c]].run] = record[c]]
  BY DEF StoreFuture, Leave, Goto, pool
<1>2. record[c] \in 0..Len(records) /\ Len(records) \in Nat
  BY DEF JobsInv, TypeOK
<1>3. TypeOK'
  <2>1. at' \in [Callers -> Place]
    BY <1>1 DEF JobsInv, TypeOK, Place
  <2>2. record' \in [Callers -> 0..Len(records)]
    BY <1>1, <1>2 DEF JobsInv, TypeOK
  <2>3. futures' \in [Runs -> 0..Len(records)]
    BY <1>1, <1>2 DEF JobsInv, TypeOK
  <2> QED BY <1>1, <2>1, <2>2, <2>3 DEF JobsInv, TypeOK
<1>4. CurrentInv' /\ CallerInv' /\ TaskInv'
  BY <1>1 DEF JobsInv, TypeOK, CurrentInv, CallerInv, TaskInv
<1> QED BY <1>3, <1>4 DEF JobsInv

\* A step of a caller outside submit() that starts no submission.
LEMMA WaiterInv ==
  ASSUME JobsInv, NEW c \in Callers, UNCHANGED <<records, jobs, futures, queue, worker, done>>,
         stopped' \in BOOLEAN,
         NEW place \in Place \ {"registered", "accepted"},
         at' = [at EXCEPT ![c] = place],
         record' = record \/ \E n \in 0..Len(records) : record' = [record EXCEPT ![c] = n],
         target' = target \/ \E n \in 0..Len(records) : target' = [target EXCEPT ![c] = n]
  PROVE  JobsInv'
<1>1. record' \in [Callers -> 0..Len(records)] /\ target' \in [Callers -> 0..Len(records)]
  BY DEF JobsInv, TypeOK
<1>2. TypeOK'
  BY <1>1 DEF JobsInv, TypeOK
<1>3. \A d \in Callers : at'[d] \in {"registered", "accepted"} =>
        d # c /\ at'[d] = at[d] /\ record'[d] = record[d]
  BY DEF JobsInv, TypeOK
<1>4. CurrentInv'
  BY DEF JobsInv, CurrentInv
<1>5. CallerInv'
  BY <1>3 DEF JobsInv, CallerInv
<1>6. TaskInv'
  BY <1>3 DEF JobsInv, TaskInv
<1> QED BY <1>2, <1>4, <1>5, <1>6 DEF JobsInv

LEMMA TakeInv ==
  ASSUME JobsInv, NEW w \in Workers, Take(w)
  PROVE  JobsInv'
<1>1. /\ UNCHANGED <<records, jobs, futures, done, stopped, at, record, target>>
      /\ worker' = [worker EXCEPT ![w] = Head(queue)] /\ queue' = Tail(queue)
      /\ worker[w] = 0 /\ queue # <<>>
  BY DEF Take, table, callers
<1>2. /\ Head(queue) = queue[1] /\ Head(queue) \in 1..Len(records)
      /\ 1 \in DOMAIN queue
      /\ queue' \in Seq(1..Len(records))
      /\ \A i \in DOMAIN queue' : i + 1 \in DOMAIN queue /\ i \in Nat /\ i + 1 # 1
                                 /\ queue'[i] = queue[i + 1]
  <2>1. TypeOK
    BY DEF JobsInv
  <2>2. \A i \in DOMAIN queue' : i \in Nat /\ i # 0
    BY <1>1, <2>1, QueueTail DEF TypeOK
  <2> QED BY <1>1, <2>1, <2>2, QueueTail
<1>3. TypeOK'
  BY <1>1, <1>2 DEF JobsInv, TypeOK
<1>4. CurrentInv' /\ CallerInv'
  BY <1>1 DEF JobsInv, CurrentInv, CallerInv
<1>5. TaskInv'
  <2>1. \A v \in Workers : worker'[v] = IF v = w THEN queue[1] ELSE worker[v]
    BY <1>1, <1>2 DEF JobsInv, TypeOK
  <2>2. \A i, j \in DOMAIN queue' : queue'[i] = queue'[j] => i = j
    BY <1>2 DEF JobsInv, TaskInv
  <2>3. \A i \in DOMAIN queue' : \A v \in Workers : worker'[v] # queue'[i]
    BY <1>2, <2>1 DEF JobsInv, TaskInv
  <2>4. \A u, v \in Workers : worker'[u] # 0 /\ worker'[u] = worker'[v] => u = v
    BY <1>2, <2>1 DEF JobsInv, TaskInv
  <2>5. \A c \in Callers : at'[c] = "registered" =>
          /\ \A i \in DOMAIN queue' : queue'[i] # record'[c]
          /\ \A v \in Workers : worker'[v] # record'[c]
    BY <1>1, <1>2, <2>1 DEF JobsInv, TaskInv
  <2> QED BY <1>1, <2>2, <2>3, <2>4, <2>5 DEF JobsInv, TaskInv
<1> QED BY <1>3, <1>4, <1>5 DEF JobsInv

\* The status of a worker's record moves on; it stays or becomes ended only while
\* it was active before.
LEMMA SetStatusInv ==
  ASSUME JobsInv, NEW r \in 1..Len(records), NEW status \in Active \cup Ended,
         SetStatus(r, status), records[r].status \in Active,
         UNCHANGED <<jobs, futures, pool, callers>>
  PROVE  JobsInv'
<1>1. /\ records' \in Seq(Record)
      /\ Len(records') = Len(records)
      /\ \A i \in 1..Len(records) : i # r => records'[i] = records[i]
      /\ records'[r].run = records[r].run
      /\ records'[r].status = status
  BY SameLength DEF JobsInv
<1>2. UNCHANGED <<jobs, futures, queue, worker, done, stopped, at, record, target>>
  BY DEF pool, callers
<1>3. TypeOK'
  BY <1>1, <1>2 DEF JobsInv, TypeOK
<1>4. \A i \in 1..Len(records) :
        /\ records'[i].run = records[i].run
        /\ records'[i].status \in Active => records[i].status \in Active
  BY <1>1
<1>5. CurrentInv'
  <2>1. \A x \in Runs : jobs[x] # 0 => jobs[x] \in 1..Len(records)
    BY DEF JobsInv, TypeOK
  <2> QED BY <1>1, <1>2, <1>4, <2>1 DEF JobsInv, CurrentInv
<1>6. CallerInv' /\ TaskInv'
  BY <1>2 DEF JobsInv, CallerInv, TaskInv
<1> QED BY <1>3, <1>5, <1>6 DEF JobsInv

LEMMA ResolveInv ==
  ASSUME JobsInv, NEW w \in Workers, Resolve(w)
  PROVE  JobsInv'
<1>1. /\ UNCHANGED <<records, jobs, futures, queue, stopped, at, record, target>>
      /\ worker' = [worker EXCEPT ![w] = 0] /\ done' = done \cup {worker[w]}
      /\ worker[w] # 0
  BY DEF Resolve, table, callers
<1>2. worker[w] \in 1..Len(records) /\ Len(records) \in Nat
  BY <1>1 DEF JobsInv, TypeOK
<1>3. TypeOK'
  <2>1. worker' \in [Workers -> 0..Len(records)]
    BY <1>1, <1>2 DEF JobsInv, TypeOK
  <2>2. done' \subseteq 1..Len(records)
    BY <1>1, <1>2 DEF JobsInv, TypeOK
  <2> QED BY <1>1, <2>1, <2>2 DEF JobsInv, TypeOK
<1>4. CurrentInv' /\ CallerInv'
  BY <1>1 DEF JobsInv, CurrentInv, CallerInv
<1>5. \A v \in Workers : worker'[v] = IF v = w THEN 0 ELSE worker[v]
  BY <1>1 DEF JobsInv, TypeOK
<1>6. \A i \in DOMAIN queue : queue[i] # 0
  BY ElementOfSeq DEF JobsInv, TypeOK
<1>7. TaskInv'
  BY <1>1, <1>5, <1>6 DEF JobsInv, TaskInv, CallerInv
<1> QED BY <1>3, <1>4, <1>7 DEF JobsInv

LEMMA NextInv == JobsInv /\ [Next]_vars => JobsInv'
<1> SUFFICES ASSUME JobsInv, [Next]_vars PROVE JobsInv'
  OBVIOUS
<1>1. CASE UNCHANGED vars
  BY <1>1 DEF vars, table, pool, callers, JobsInv, TypeOK, CurrentInv, CallerInv, TaskInv
<1>2. ASSUME NEW c \in Callers, NEW run \in Runs, ReturnExisting(c, run) PROVE JobsInv'
  BY <1>1, <1>2 DEF ReturnExisting
<1>3. ASSUME NEW c \in Callers, NEW run \in Runs, Register(c, run) PROVE JobsInv'
  BY <1>3, RegisterInv
<1>4. ASSUME NEW c \in Callers, NEW run \in Runs, Wait(c, run) \/ Result(c, run)
      PROVE  JobsInv'
  <2>1. /\ jobs[run] \in 0..Len(records) /\ futures[run] \in 0..Len(records)
        /\ stopped \in BOOLEAN
    BY DEF JobsInv, TypeOK
  <2>2. /\ UNCHANGED <<records, jobs, futures, queue, worker, done, stopped>>
        /\ record' = [record EXCEPT ![c] = jobs[run]]
        /\ target' = [target EXCEPT ![c] = futures[run]]
    BY <1>4 DEF Wait, Result, Ask, table, pool
  <2>3. \E place \in {"reading", "waiting", "fetching"} : at' = [at EXCEPT ![c] = place]
    BY <1>4 DEF Wait, Result, Ask, Goto
  <2>4. PICK place \in {"reading", "waiting", "fetching"} : at' = [at EXCEPT ![c] = place]
    BY <2>3
  <2>5. place \in Place \ {"registered", "accepted"}
    BY DEF Place
  <2> QED BY <2>1, <2>2, <2>4, <2>5, WaiterInv
<1>5. ASSUME NEW c \in Callers, Return(c), UNCHANGED <<table, pool>> PROVE JobsInv'
  <2>1. /\ UNCHANGED <<records, jobs, futures, queue, worker, done, stopped>>
        /\ at' = [at EXCEPT ![c] = "idle"] /\ record' = [record EXCEPT ![c] = 0]
        /\ target' = [target EXCEPT ![c] = 0]
    BY <1>5 DEF Return, Leave, Goto, table, pool
  <2>2. 0 \in 0..Len(records) /\ stopped' \in BOOLEAN
    BY <2>1 DEF JobsInv, TypeOK
  <2>3. "idle" \in Place \ {"registered", "accepted"}
    BY DEF Place
  <2> QED BY <2>1, <2>2, <2>3, WaiterInv
<1>6. ASSUME NEW c \in Callers, NEW place \in {"idle", "reading", "closing"},
             Goto(c, place), UNCHANGED <<table, queue, worker, done, record, target>>,
             stopped' = stopped \/ stopped' = TRUE
      PROVE  JobsInv'
  <2>1. /\ UNCHANGED <<records, jobs, futures, queue, worker, done, record, target>>
        /\ at' = [at EXCEPT ![c] = place]
    BY <1>6 DEF Goto, table
  <2>2. stopped' \in BOOLEAN
    BY <1>6 DEF JobsInv, TypeOK
  <2>3. place \in Place \ {"registered", "accepted"}
    BY DEF Place
  <2> QED BY <2>1, <2>2, <2>3, WaiterInv
<1>7. ASSUME NEW c \in Callers, TimeOut(c) \/ ReadStatus(c) PROVE JobsInv'
  BY <1>5, <1>7 DEF TimeOut, ReadStatus
<1>8. ASSUME NEW c \in Callers, Wake(c) PROVE JobsInv'
  <2>1. CASE Return(c)
    BY <2>1, <1>5, <1>8 DEF Wake
  <2>2. CASE Goto(c, "reading") /\ UNCHANGED <<record, target>>
    BY <2>2, <1>6, <1>8 DEF Wake, pool
  <2> QED BY <1>8, <2>1, <2>2 DEF Wake
<1>9. ASSUME NEW c \in Callers, Shutdown(c) PROVE JobsInv'
  <2>1. PICK place \in {"closing", "idle"} : Goto(c, place)
    BY <1>9 DEF Shutdown
  <2> QED BY <2>1, <1>6, <1>9 DEF Shutdown
<1>10. ASSUME NEW c \in Callers, Joined(c) PROVE JobsInv'
  BY <1>6, <1>10 DEF Joined, pool
<1>11. ASSUME NEW c \in Callers, Enqueue(c) PROVE JobsInv'
  BY <1>11, EnqueueInv
<1>12. ASSUME NEW c \in Callers, StoreFuture(c) PROVE JobsInv'
  BY <1>12, StoreFutureInv
<1>13. ASSUME NEW w \in Workers, Work(w) PROVE JobsInv'
  <2>1. CASE Take(w)
    BY <2>1, TakeInv
  <2>2. CASE Resolve(w)
    BY <2>2, ResolveInv
  <2>3. CASE StartTask(w)
    <3>1. worker[w] \in 1..Len(records)
      BY <2>3 DEF StartTask, JobsInv, TypeOK
    <3> QED BY <2>3, <3>1, SetStatusInv DEF StartTask, Active
  <2>4. CASE EndTask(w)
    <3>1. worker[w] \in 1..Len(records)
      BY <2>4 DEF EndTask, JobsInv, TypeOK
    <3>2. PICK outcome \in Ended : SetStatus(worker[w], outcome)
      BY <2>4 DEF EndTask
    <3> QED BY <2>4, <3>1, <3>2, SetStatusInv DEF EndTask, Active
  <2> QED BY <1>13, <2>1, <2>2, <2>3, <2>4 DEF Work
<1> QED BY <1>1, <1>2, <1>3, <1>4, <1>7, <1>8, <1>9, <1>10, <1>11, <1>12, <1>13
        DEF Next, Call, Proceed

LEMMA AlwaysJobsInv == Spec => []JobsInv
<1> QED BY InitInv, NextInv, PTL DEF Spec

-----------------------------------------------------------------------------
(* Theorems *)

\* Records, futures, queue and threads have the shape of the Python objects.
THEOREM TypeCorrect == Spec => []TypeOK
<1>1. JobsInv => TypeOK
  BY DEF JobsInv
<1> QED BY <1>1, AlwaysJobsInv, PTL

\* However submissions of a run interleave with its tasks, no two threads are in
\* work() for it: two running records of one run would both be its current one.
THEOREM NeverTwice == Spec => []NoConcurrentDuplicate
<1>1. JobsInv => NoConcurrentDuplicate
  <2> SUFFICES ASSUME JobsInv, NEW v \in Workers, NEW w \in Workers, v # w,
                      worker[v] # 0, records[worker[v]].status = "running",
                      worker[w] # 0, records[worker[w]].status = "running",
                      records[worker[v]].run = records[worker[w]].run
               PROVE  FALSE
    BY DEF NoConcurrentDuplicate
  <2>1. worker[v] \in 1..Len(records) /\ worker[w] \in 1..Len(records)
    BY DEF JobsInv, TypeOK
  <2>2. worker[v] = worker[w]
    BY <2>1 DEF JobsInv, CurrentInv, Active
  <2> QED BY <2>2 DEF JobsInv, TaskInv
<1> QED BY <1>1, AlwaysJobsInv, PTL

\* The job table implements the promise of JobTable: every step queues, starts or
\* ends one run in the promised order, or changes no status.
LEMMA StatusStep ==
  ASSUME JobsInv, NEW r \in 1..Len(records), NEW status \in Active \cup Ended,
         records[r].status \in Active, SetStatus(r, status), UNCHANGED jobs
  PROVE  /\ StatusOf' = [StatusOf EXCEPT ![records[r].run] = status]
         /\ StatusOf[records[r].run] = records[r].status
         /\ records[r].run \in Runs
<1> DEFINE run == records[r].run
<1>1. /\ \A i \in 1..Len(records) : i # r => records'[i] = records[i]
      /\ records'[r].status = status
  BY SameLength DEF JobsInv
<1>2. run \in Runs /\ jobs[run] = r /\ r # 0
  <2>1. records[r] \in Record /\ Len(records) \in Nat
    BY ElementOfSeq DEF JobsInv, TypeOK
  <2>2. jobs[records[r].run] = r
    BY DEF JobsInv, CurrentInv
  <2> QED BY <2>1, <2>2 DEF Record
<1>3. \A x \in Runs : x # run /\ jobs[x] # 0 => jobs[x] # r /\ jobs[x] \in 1..Len(records)
  BY <1>2 DEF JobsInv, TypeOK, CurrentInv
<1>4. \A x \in Runs : StatusOf'[x] = IF x = run THEN status ELSE StatusOf[x]
  BY <1>1, <1>2, <1>3 DEF StatusOf
<1> QED BY <1>2, <1>4 DEF StatusOf

LEMMA PromiseStep == JobsInv /\ [Next]_vars => [Promise!Next]_StatusOf
<1> SUFFICES ASSUME JobsInv, [Next]_vars
             PROVE  Promise!Next \/ UNCHANGED StatusOf
  OBVIOUS
<1>1. CASE UNCHANGED <<jobs, records>>
  BY <1>1 DEF StatusOf
<1>2. ASSUME NEW c \in Callers, NEW run \in Runs, Register(c, run)
      PROVE  Promise!Queue(run)
  <2> DEFINE n == Len(records) + 1
  <2>1. /\ \A i \in 1..Len(records) : records'[i] = records[i]
        /\ records'[n].status = "queued" /\ n # 0
    BY <1>2, OneMore DEF JobsInv, Register
  <2>2. jobs' = [jobs EXCEPT ![run] = n]
    BY <1>2 DEF Register
  <2> HIDE DEF n
  <2>3. \A x \in Runs : jobs[x] # 0 => jobs[x] \in 1..Len(records)
    BY DEF JobsInv, TypeOK
  <2>4. \A x \in Runs : StatusOf'[x] = IF x = run THEN "queued" ELSE StatusOf[x]
    BY <2>1, <2>2, <2>3 DEF StatusOf, JobsInv, TypeOK
  <2>5. StatusOf' = [StatusOf EXCEPT ![run] = "queued"]
    BY <2>4 DEF StatusOf
  <2>6. StatusOf[run] \notin {"queued", "running"}
    BY <1>2 DEF Register, InProgress, StatusOf, Active
  <2> QED BY <2>5, <2>6 DEF Promise!Queue, Promise!Active
<1>3. ASSUME NEW w \in Workers, StartTask(w)
      PROVE  Promise!Next
  <2>1. worker[w] \in 1..Len(records)
    BY <1>3 DEF StartTask, JobsInv, TypeOK
  <2> DEFINE run == records[worker[w]].run
  <2>2. StatusOf' = [StatusOf EXCEPT ![run] = "running"] /\ StatusOf[run] = "queued"
        /\ run \in Runs
    BY <1>3, <2>1, StatusStep DEF StartTask, Active
  <2> QED BY <2>2 DEF Promise!Next, Promise!Start
<1>4. ASSUME NEW w \in Workers, EndTask(w)
      PROVE  Promise!Next
  <2>1. worker[w] \in 1..Len(records)
    BY <1>4 DEF EndTask, JobsInv, TypeOK
  <2> DEFINE run == records[worker[w]].run
  <2>2. PICK outcome \in Ended : SetStatus(worker[w], outcome)
    BY <1>4 DEF EndTask
  <2>3. StatusOf' = [StatusOf EXCEPT ![run] = outcome] /\ StatusOf[run] = "running"
        /\ run \in Runs
    BY <1>4, <2>1, <2>2, StatusStep DEF EndTask, Active
  <2> QED BY <2>3 DEF Promise!Next, Promise!End, Promise!Ended, Ended
<1>5. ASSUME NEW c \in Callers, Call(c) \/ Proceed(c), \A run \in Runs : ~Register(c, run)
      PROVE  UNCHANGED <<jobs, records>>
  BY <1>5 DEF Call, Proceed, ReturnExisting, Wait, Result, Ask, TimeOut, Shutdown, Enqueue,
       StoreFuture, Wake, ReadStatus, Joined, vars, table
<1>6. ASSUME NEW w \in Workers, Take(w) \/ Resolve(w)
      PROVE  UNCHANGED <<jobs, records>>
  BY <1>6 DEF Take, Resolve, table
<1> QED BY <1>1, <1>2, <1>3, <1>4, <1>5, <1>6 DEF Next, Work, vars, table, Promise!Next

THEOREM PromiseKept == Spec => KeepsPromise
<1>1. Init => Promise!Init
  BY DEF Init, Promise!Init, StatusOf, Promise!Absent
<1> QED BY <1>1, PromiseStep, AlwaysJobsInv, PTL DEF Spec, KeepsPromise, Promise!Spec
=============================================================================
