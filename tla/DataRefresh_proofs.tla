-------------------------- MODULE DataRefresh_proofs --------------------------
(***************************************************************************)
(* Theorems of the data refresh for any number of processes, readers,      *)
(* files and contents: the snapshots, what readers are served, and, last,  *)
(* single runs and the status they report.                                 *)
(***************************************************************************)
EXTENDS DataRefresh, SequenceTheorems, TLAPS

\* A run that may write has a directory of its own, which has no READY before the
\* run puts it there; when it does, the directory is complete and valid.
DirInv ==
  \A r \in Runners :
    /\ at[r] \in {"stage", "tables", "promote"} =>
         job[r].dir # 0 /\ ~snapshots[job[r].dir].ready
    /\ at[r] = "stage" => snapshots[job[r].dir].hash = job[r].first
    /\ at[r] = "promote" =>
         /\ snapshots[job[r].dir].complete
         /\ snapshots[job[r].dir].blocked = job[r].blocked
    /\ at[r] = "swap" =>
         /\ job[r].dir # 0
         /\ snapshots[job[r].dir].complete /\ snapshots[job[r].dir].ready
         /\ ~snapshots[job[r].dir].blocked
    /\ \A q \in Runners : q # r /\ job[r].dir # 0 => job[q].dir # job[r].dir

\* CURRENT names a published directory, and what is published is whole.
PubInv ==
  /\ \A d \in published :
       snapshots[d].complete /\ snapshots[d].ready /\ ~snapshots[d].blocked
  /\ current # 0 => current \in published
  /\ current = 0 => published = {}

\* What the parser quarantines and what the run's assessment excludes.
Quarantined(s) ==
  \A f \in Files : /\ s.bars[f] \notin Malformed
                   /\ s.hash[f] \in Critical => s.bars[f] = Missing

\* The quarantine holds in every directory, finished or not.
BarsInv == \A d \in 1..Len(snapshots) : Quarantined(snapshots[d])

\* A call works with a published directory, and gets its label last.
ReaderInv ==
  \A rd \in Readers :
    /\ reader[rd].at # "idle" => reader[rd].dir \in published
    /\ reader[rd].at \in {"query", "label"} => reader[rd].label = 0

DiskInv == TypeOK /\ DirInv /\ PubInv /\ BarsInv /\ ReaderInv

\* The parts of TypeOK.
TypeFiles   == source \in Bars /\ today \in Days /\ changes \in 0..MaxChanges
TypeDisk    == /\ snapshots \in Seq(Snapshot) /\ current \in 0..Len(snapshots)
               /\ published \subseteq 1..Len(snapshots)
TypeRuns    == at \in [Runners -> Place] /\ job \in [Runners -> Job] /\ still \in [Runners -> BOOLEAN]
TypeService == /\ ids \in 0..MaxRuns /\ runId \in 0..ids /\ future \in 0..ids
               /\ status \in {"idle", "queued", "running"} \cup Ended
               /\ queue \in Seq(1..ids) /\ task \in 0..ids /\ closed \in BOOLEAN
TypeReader  == reader \in [Readers -> Reading]

LEMMA TypeParts == TypeOK <=> TypeFiles /\ TypeDisk /\ TypeRuns /\ TypeService /\ TypeReader
BY DEF TypeOK, TypeFiles, TypeDisk, TypeRuns, TypeService, TypeReader

-----------------------------------------------------------------------------
(* Facts about the pieces *)

LEMMA Basics ==
  /\ Service \in Runners /\ Missing \notin Malformed /\ Missing \notin Contents
  /\ 1 \in Days /\ Days \subseteq 0..MaxDay /\ MaxDay \in Nat
  /\ [f \in Files |-> Missing] \in Bars
<1>1. Missing \notin Malformed
  BY Names, Kinds
<1>2. 1 \in Days /\ Days \subseteq 0..MaxDay /\ MaxDay \in Nat
  BY Bounds DEF Days
<1> QED BY <1>1, <1>2, Names DEF Runners, Bars

LEMMA NoJobType == ASSUME TypeDisk PROVE NoJob \in Job /\ NoJob.dir = 0
<1>1. 0 \in 0..Len(snapshots)
  BY DEF TypeDisk
<1> QED BY <1>1, Basics DEF NoJob, Job

LEMMA NoCallType == ASSUME TypeDisk PROVE NoCall \in Reading /\ NoCall.at = "idle"
<1>1. 0 \in 0..Len(snapshots)
  BY DEF TypeDisk
<1>2. 0 \in 0..MaxDay
  BY Basics
<1> QED BY <1>1, <1>2, Basics DEF NoCall, Reading

\* Longer sequences of snapshots keep the ranges that depend on the length.
LEMMA Longer ==
  ASSUME TypeRuns, TypeReader, TypeDisk, snapshots' \in Seq(Snapshot),
         Len(snapshots') \in {Len(snapshots), Len(snapshots) + 1}
  PROVE  /\ \A j \in Job : j \in Job'
         /\ \A c \in Reading : c \in Reading'
         /\ 1..Len(snapshots) \subseteq 1..Len(snapshots')
         /\ 0..Len(snapshots) \subseteq 0..Len(snapshots')
<1>1. Len(snapshots) \in Nat /\ Len(snapshots') \in Nat
  BY DEF TypeDisk
<1>2. 0..Len(snapshots) \subseteq 0..Len(snapshots') /\ 1..Len(snapshots) \subseteq 1..Len(snapshots')
  BY <1>1
<1>3. Job \subseteq Job'
  BY <1>2 DEF Job, Days, Bars
<1>4. Reading \subseteq Reading'
  BY <1>2 DEF Reading, Bars
<1> QED BY <1>2, <1>3, <1>4

\* One directory is written: the others stay, and it keeps what the run put in it
\* when it was made.
LEMMA WriteOne ==
  ASSUME TypeDisk, NEW d \in 1..Len(snapshots), NEW s \in Snapshot,
         snapshots' = [snapshots EXCEPT ![d] = s]
  PROVE  /\ snapshots' \in Seq(Snapshot) /\ Len(snapshots') = Len(snapshots)
         /\ snapshots'[d] = s
         /\ \A e \in 1..Len(snapshots) : e # d => snapshots'[e] = snapshots[e]
BY ExceptSeq DEF TypeDisk

LEMMA DirType ==
  ASSUME TypeDisk, TypeRuns, NEW r \in Runners, job[r].dir # 0
  PROVE  job[r].dir \in 1..Len(snapshots) /\ snapshots[job[r].dir] \in Snapshot
<1>1. job[r] \in Job /\ Len(snapshots) \in Nat
  BY DEF TypeRuns, TypeDisk
<1>2. job[r].dir \in 1..Len(snapshots)
  BY <1>1 DEF Job
<1> QED BY <1>2, ElementOfSeq DEF TypeDisk

-----------------------------------------------------------------------------
(* Steps that leave the disk alone *)

\* A runner other than r does not move.
Moves(r) ==
  /\ \A q \in Runners : q # r => at'[q] = at[q] /\ job'[q] = job[q]

LEMMA QuietDir ==
  ASSUME DiskInv, NEW r \in Runners, Moves(r), UNCHANGED disk,
         at'[r] \notin {"stage", "tables", "promote", "swap"},
         job'[r].dir \in {0, job[r].dir}
  PROVE  DirInv'
<1>1. \A q, p \in Runners : q # p /\ job'[q].dir # 0 => job'[p].dir # job'[q].dir
  BY DEF DiskInv, DirInv, Moves
<1>2. \A q \in Runners : q # r => at'[q] = at[q] /\ job'[q] = job[q]
  BY DEF Moves
<1>3. UNCHANGED snapshots
  BY DEF disk
<1> QED BY <1>1, <1>2, <1>3 DEF DiskInv, DirInv

\* With the disk unchanged, the invariant is about the types and the writers.
LEMMA QuietInv ==
  ASSUME DiskInv, UNCHANGED disk, TypeFiles', TypeRuns', TypeService', TypeReader',
         DirInv', ReaderInv'
  PROVE  DiskInv'
<1>1. TypeDisk'
  BY TypeParts DEF DiskInv, disk, TypeDisk
<1>2. TypeOK'
  BY <1>1 DEF TypeOK, TypeFiles, TypeDisk, TypeRuns, TypeService, TypeReader
<1>3. PubInv' /\ BarsInv'
  BY DEF DiskInv, disk, PubInv, BarsInv
<1> QED BY <1>2, <1>3 DEF DiskInv

LEMMA SameReaders ==
  ASSUME DiskInv, UNCHANGED <<disk, reader>>
  PROVE  TypeReader' /\ ReaderInv'
BY TypeParts DEF DiskInv, disk, TypeReader, Reading, ReaderInv

LEMMA SameRuns ==
  ASSUME DiskInv, UNCHANGED <<disk, at, job>>, still' \in [Runners -> BOOLEAN]
  PROVE  TypeRuns' /\ DirInv'
BY TypeParts DEF DiskInv, disk, TypeRuns, Job, DirInv

LEMMA SameService ==
  ASSUME DiskInv, UNCHANGED service
  PROVE  TypeService'
BY TypeParts DEF DiskInv, service, TypeService

LEMMA SameFiles ==
  ASSUME DiskInv, UNCHANGED files
  PROVE  TypeFiles'
BY TypeParts DEF DiskInv, files, TypeFiles

LEMMA WorldInv ==
  ASSUME DiskInv, NewDay \/ \E f \in Files : SourceChanges(f)
  PROVE  DiskInv'
<1>1. still' \in [Runners -> BOOLEAN] /\ UNCHANGED <<at, job, disk, reader, service>>
  BY TypeParts DEF NewDay, SourceChanges, runs, DiskInv, TypeRuns
<1>2. TypeFiles'
  <2>1. CASE NewDay
    BY <2>1, Bounds, TypeParts DEF NewDay, DiskInv, TypeFiles, Days
  <2>2. ASSUME NEW f \in Files, SourceChanges(f) PROVE TypeFiles'
    <3>1. changes < MaxChanges /\ changes' = changes + 1 /\ today' = today
      BY <2>2 DEF SourceChanges
    <3>2. source' \in Bars
      BY <2>2, TypeParts DEF SourceChanges, DiskInv, TypeFiles, Bars
    <3> QED BY <3>1, <3>2, Bounds, TypeParts DEF DiskInv, TypeFiles
  <2> QED BY <2>1, <2>2
<1> QED BY <1>1, <1>2, SameReaders, SameRuns, SameService, QuietInv

LEMMA RequestInv ==
  ASSUME DiskInv, AnswerRunning \/ StartRefresh \/ Close
  PROVE  DiskInv'
<1>1. UNCHANGED <<files, disk, runs, reader>>
  BY DEF AnswerRunning, StartRefresh, Close, vars
<1>2. TypeService'
  <2>1. CASE StartRefresh
    <3>1. ids \in Nat /\ ids < MaxRuns /\ ids' = ids + 1 /\ runId' = ids + 1 /\ status' = "queued"
          /\ UNCHANGED <<task, closed>>
      BY <2>1, Bounds, TypeParts DEF StartRefresh, DiskInv, TypeService
    <3>2. ids' \in 0..MaxRuns /\ runId' \in 0..ids' /\ 0..ids \subseteq 0..ids'
          /\ 1..ids \subseteq 1..ids' /\ ids + 1 \in 1..ids'
      BY <3>1, Bounds
    <3>3. queue \in Seq(1..ids')
      BY <3>2, SeqMonotonic, TypeParts DEF DiskInv, TypeService
    <3>4. queue' \in Seq(1..ids')
      BY <2>1, <3>2, <3>3, AppendProperties DEF StartRefresh
    <3>5. future' \in 0..ids' /\ task' \in 0..ids'
      BY <2>1, <3>1, <3>2, TypeParts DEF StartRefresh, DiskInv, TypeService
    <3> QED BY <3>1, <3>2, <3>4, <3>5, TypeParts DEF DiskInv, TypeService
  <2>2. CASE AnswerRunning \/ Close
    BY <2>2, TypeParts DEF AnswerRunning, Close, vars, service, DiskInv, TypeService
  <2> QED BY <2>1, <2>2
<1>3. still' \in [Runners -> BOOLEAN]
  BY <1>1, TypeParts DEF runs, DiskInv, TypeRuns
<1> QED BY <1>1, <1>2, <1>3, SameReaders, SameRuns, SameFiles, QuietInv DEF runs

\* The worker takes a task or resolves its future; it may not write in between.
LEMMA TaskInv ==
  ASSUME DiskInv, TakeTask \/ Resolve
  PROVE  DiskInv'
<1>1. UNCHANGED <<files, disk, job, still, reader>>
  BY DEF TakeTask, Resolve
<1>2. TypeService'
  <2>1. CASE TakeTask
    <3>1. Head(queue) \in 1..ids /\ Tail(queue) \in Seq(1..ids)
      BY <2>1, HeadTailProperties, TypeParts DEF TakeTask, DiskInv, TypeService
    <3>2. 1..ids \subseteq 0..ids
      BY TypeParts DEF DiskInv, TypeService
    <3> QED BY <2>1, <3>1, <3>2, TypeParts DEF TakeTask, DiskInv, TypeService
  <2>2. CASE Resolve
    BY <2>2, TypeParts DEF Resolve, DiskInv, TypeService
  <2> QED BY <2>1, <2>2
<1>3. \E p \in {"begin", "done", "idle"} : at' = [at EXCEPT ![Service] = p]
  BY DEF TakeTask, Resolve
<1>4. TypeRuns'
  BY <1>1, <1>3, TypeParts DEF DiskInv, disk, TypeRuns, Job, Place, Working
<1>5. DirInv'
  <2>1. Moves(Service) /\ at'[Service] \notin {"stage", "tables", "promote", "swap"}
        /\ job'[Service].dir = job[Service].dir
    BY <1>1, <1>3, Basics, TypeParts DEF Moves, DiskInv, TypeRuns
  <2> QED BY <1>1, <2>1, Basics, QuietDir
<1> QED BY <1>1, <1>2, <1>4, <1>5, SameReaders, SameFiles, QuietInv

LEMMA RestartInv == ASSUME DiskInv, Restart PROVE DiskInv'
<1>1. UNCHANGED <<files, disk, still, ids>>
  BY DEF Restart
<1>2. TypeService'
  <2>1. 0 \in 0..ids /\ <<>> \in Seq(1..ids)
    BY TypeParts DEF DiskInv, TypeService
  <2> QED BY <2>1, <1>1, TypeParts DEF Restart, DiskInv, TypeService
<1>3. NoJob \in Job /\ NoJob.dir = 0 /\ NoCall \in Reading /\ NoCall.at = "idle"
  BY NoJobType, NoCallType, TypeParts DEF DiskInv
<1>4. TypeRuns'
  BY <1>1, <1>3, TypeParts DEF Restart, DiskInv, disk, TypeRuns, Job, Place
<1>5. TypeReader' /\ ReaderInv'
  BY <1>1, <1>3 DEF Restart, disk, TypeReader, Reading, ReaderInv
<1>6. DirInv'
  <2>1. Moves(Service) /\ at'[Service] = "idle" /\ job'[Service] = NoJob
    BY Basics, TypeParts DEF Restart, Moves, DiskInv, TypeRuns
  <2> QED BY <1>1, <1>3, <2>1, Basics, QuietDir
<1> QED BY <1>1, <1>2, <1>4, <1>5, <1>6, SameFiles, QuietInv

LEMMA EndInv ==
  ASSUME DiskInv, NEW r \in Runners, NEW outcome \in Ended, End(r, outcome)
  PROVE  DiskInv'
<1>1. UNCHANGED <<files, disk, still, reader>>
  BY DEF End
<1>2. TypeService'
  BY TypeParts DEF End, DiskInv, TypeService
<1>3. NoJob \in Job /\ NoJob.dir = 0
  BY NoJobType, TypeParts DEF DiskInv
<1>4. TypeRuns'
  BY <1>1, <1>3, TypeParts DEF End, DiskInv, disk, TypeRuns, Job, Place
<1>5. Moves(r) /\ at'[r] = "done" /\ job'[r] = NoJob
  BY TypeParts DEF End, Moves, DiskInv, TypeRuns
<1> QED BY <1>1, <1>2, <1>3, <1>4, <1>5, SameReaders, SameFiles, QuietDir, QuietInv

LEMMA BeginInv ==
  ASSUME DiskInv, NEW r \in Runners, NEW asOf \in Days, Begin(r, asOf)
  PROVE  DiskInv'
<1> DEFINE found == {f \in Files : source[f] # Missing}
<1>1. UNCHANGED <<files, disk, service, reader>>
  BY DEF Begin
<1>2. at' = [at EXCEPT ![r] = NextPlace(found, "assess", "scan")]
      /\ job' = [job EXCEPT ![r] =
           [NoJob EXCEPT !.asOf = asOf, !.found = found, !.todo = found,
                         !.blocked = \E c \in Categories : \A f \in found : CategoryOf[f] # c]]
      /\ still' = [still EXCEPT ![r] = TRUE]
  BY DEF Begin
<1>3. found \subseteq Files
  OBVIOUS
<1> HIDE DEF found
<1>4. job'[r] \in Job /\ job'[r].dir = 0
  <2>1. NoJob \in Job /\ NoJob.dir = 0
    BY NoJobType, TypeParts DEF DiskInv
  <2> DEFINE b == \E c \in Categories : \A f \in found : CategoryOf[f] # c
  <2>2. b \in BOOLEAN
    OBVIOUS
  <2> HIDE DEF b
  <2>3. job'[r] = [NoJob EXCEPT !.asOf = asOf, !.found = found, !.todo = found, !.blocked = b]
    BY <1>2, TypeParts DEF DiskInv, TypeRuns, b
  <2> QED BY <2>1, <2>2, <2>3, <1>3 DEF Job
<1>5. at'[r] \in {"assess", "scan"}
  BY <1>2, TypeParts DEF NextPlace, DiskInv, TypeRuns
<1>6. Moves(r)
  BY <1>2, TypeParts DEF Moves, DiskInv, TypeRuns
<1>7. TypeRuns'
  <2>1. at' \in [Runners -> Place]
    BY <1>2, <1>5, TypeParts DEF DiskInv, TypeRuns, Place, Working
  <2>2. job' \in [Runners -> Job]
    BY <1>2, <1>4, <1>6, TypeParts DEF DiskInv, TypeRuns, Moves
  <2>3. still' \in [Runners -> BOOLEAN]
    BY <1>2, TypeParts DEF DiskInv, TypeRuns
  <2>4. Job' = Job
    BY <1>1 DEF disk, Job
  <2> QED BY <2>1, <2>2, <2>3, <2>4 DEF TypeRuns
<1> QED BY <1>1, <1>4, <1>5, <1>6, <1>7, SameReaders, SameFiles, SameService, QuietDir, QuietInv

LEMMA AssessInv ==
  ASSUME DiskInv, NEW r \in Runners, NEW f \in Files, Assess(r, f)
  PROVE  DiskInv'
<1>1. UNCHANGED <<files, disk, still, service, reader>>
  BY DEF Assess
<1>2. job' = [job EXCEPT ![r] = [job[r] EXCEPT !.first = [job[r].first EXCEPT ![f] = source[f]],
                                             !.todo = job[r].todo \ {f}]]
  BY TypeParts DEF Assess, DiskInv, TypeRuns, Job
<1>3. at'[r] \in {"assess", "scan"} /\ \A q \in Runners : q # r => at'[q] = at[q]
  BY TypeParts DEF Assess, NextPlace, DiskInv, TypeRuns
<1>4. Moves(r) /\ job'[r].dir = job[r].dir /\ job'[r] \in Job
  BY ZenonT(30), <1>2, <1>3, TypeParts DEF Moves, DiskInv, TypeRuns, Job, Bars, TypeFiles
<1>5. TypeRuns'
  <2>1. at' \in [Runners -> Place]
    BY <1>3, TypeParts DEF Assess, DiskInv, TypeRuns, Place, Working
  <2>2. job' \in [Runners -> Job] /\ Job' = Job
    BY <1>1, <1>2, <1>4, TypeParts DEF DiskInv, TypeRuns, Moves, disk, Job
  <2> QED BY <1>1, <2>1, <2>2, TypeParts DEF TypeRuns, DiskInv
<1> QED BY <1>1, <1>3, <1>4, <1>5, SameReaders, SameFiles, SameService, QuietDir, QuietInv

LEMMA RefuseInv == ASSUME DiskInv, NEW r \in Runners, Refuse(r) PROVE DiskInv'
<1>1. UNCHANGED <<files, disk, job, still, service, reader>> /\ at' = [at EXCEPT ![r] = "report"]
  BY DEF Refuse
<1>2. Moves(r) /\ at'[r] = "report"
  BY <1>1, TypeParts DEF Moves, DiskInv, TypeRuns
<1>3. TypeRuns'
  BY <1>1, TypeParts DEF DiskInv, disk, TypeRuns, Job, Place
<1> QED BY <1>1, <1>2, <1>3, SameReaders, SameFiles, SameService, QuietDir, QuietInv

-----------------------------------------------------------------------------
(* Steps that write *)

\* A step of run r that writes s into the directory of the run.
WriteStep(r, s) ==
  /\ at[r] \in {"stage", "tables", "promote"}
  /\ snapshots' = [snapshots EXCEPT ![job[r].dir] = s]
  /\ Moves(r) /\ job'[r].dir = job[r].dir /\ job'[r].blocked = job[r].blocked
  /\ at'[r] = "stage" => s.hash = job'[r].first
  /\ at'[r] \in {"stage", "tables", "promote"} => ~s.ready
  /\ at'[r] = "promote" => s.complete /\ s.blocked = job[r].blocked
  /\ at'[r] = "swap" => s.complete /\ s.ready /\ ~s.blocked
  /\ UNCHANGED <<files, current, published, still, service, reader>>

LEMMA WriteInv ==
  ASSUME DiskInv, NEW r \in Runners, NEW s \in Snapshot, WriteStep(r, s),
         at' \in [Runners -> Place], job' \in [Runners -> Job],
         Quarantined(s)
  PROVE  DiskInv'
<1> DEFINE dir == job[r].dir
<1>1. dir # 0 /\ ~snapshots[dir].ready /\ dir \in 1..Len(snapshots)
  BY DirType, TypeParts DEF WriteStep, DiskInv, DirInv
<1>2. /\ snapshots' \in Seq(Snapshot) /\ Len(snapshots') = Len(snapshots) /\ snapshots'[dir] = s
      /\ \A e \in 1..Len(snapshots) : e # dir => snapshots'[e] = snapshots[e]
  BY <1>1, WriteOne, TypeParts DEF WriteStep, DiskInv
<1>3. dir \notin published /\ published \subseteq 1..Len(snapshots)
  BY <1>1, TypeParts DEF DiskInv, PubInv, TypeDisk
<1>4. TypeDisk'
  BY <1>2, TypeParts DEF WriteStep, DiskInv, TypeDisk
<1>5. TypeRuns'
  <2>1. Job' = Job /\ still' \in [Runners -> BOOLEAN]
    BY <1>2, TypeParts DEF WriteStep, Job, DiskInv, TypeRuns
  <2> QED BY <2>1 DEF TypeRuns
<1>6. TypeReader' /\ ReaderInv'
  BY <1>2, TypeParts DEF WriteStep, DiskInv, TypeReader, Reading, ReaderInv
<1>7. DirInv'
  <2>1. \A q, p \in Runners : q # p /\ job'[q].dir # 0 => job'[p].dir # job'[q].dir
    BY DEF DiskInv, DirInv, WriteStep, Moves
  <2>2. ASSUME NEW q \in Runners, q # r
        PROVE  /\ at'[q] = at[q] /\ job'[q] = job[q]
               /\ job[q].dir # 0 => snapshots'[job[q].dir] = snapshots[job[q].dir]
    <3>1. at'[q] = at[q] /\ job'[q] = job[q] /\ job[q].dir # dir
      BY <1>1, <2>2 DEF DiskInv, DirInv, WriteStep, Moves
    <3>2. job[q].dir # 0 => job[q].dir \in 1..Len(snapshots)
      BY DirType, TypeParts DEF DiskInv
    <3> QED BY <1>2, <3>1, <3>2
  <2>3. at[r] # "swap" /\ snapshots'[job'[r].dir] = s /\ job'[r].dir # 0
    BY <1>1, <1>2 DEF WriteStep
  <2>4. ASSUME NEW q \in Runners
        PROVE  /\ at'[q] \in {"stage", "tables", "promote"} =>
                    job'[q].dir # 0 /\ ~snapshots'[job'[q].dir].ready
               /\ at'[q] = "stage" => snapshots'[job'[q].dir].hash = job'[q].first
               /\ at'[q] = "promote" =>
                    /\ snapshots'[job'[q].dir].complete
                    /\ snapshots'[job'[q].dir].blocked = job'[q].blocked
               /\ at'[q] = "swap" =>
                    /\ job'[q].dir # 0
                    /\ snapshots'[job'[q].dir].complete /\ snapshots'[job'[q].dir].ready
                    /\ ~snapshots'[job'[q].dir].blocked
    <3>1. CASE q = r
      BY <2>3, <3>1 DEF WriteStep
    <3>2. CASE q # r
      BY <2>2, <3>2 DEF DiskInv, DirInv
    <3> QED BY <3>1, <3>2
  <2> QED BY <2>1, <2>4 DEF DirInv
<1>8. PubInv'
  BY <1>2, <1>3 DEF WriteStep, DiskInv, PubInv
<1>9. BarsInv'
  BY <1>1, <1>2 DEF DiskInv, BarsInv
<1> QED BY <1>4, <1>5, <1>6, <1>7, <1>8, <1>9, SameFiles, SameService
        DEF WriteStep, DiskInv, TypeOK, TypeFiles, TypeDisk, TypeRuns, TypeService, TypeReader

\* The writing actions are write steps; what a run put into its directory when it
\* was made stays.
Keeps(r, s) ==
  LET old == snapshots[job[r].dir]
  IN  s.asOf = old.asOf /\ s.run = old.run /\ s.hash = old.hash

LEMMA StageWrites ==
  ASSUME DiskInv, NEW r \in Runners, NEW f \in Files, Stage(r, f)
  PROVE  \E s \in Snapshot :
           /\ WriteStep(r, s) /\ Keeps(r, s) /\ Quarantined(s)
           /\ at' \in [Runners -> Place] /\ job' \in [Runners -> Job]
<1> DEFINE bars == IF source[f] \in Malformed \/ Excluded(r, f) THEN Missing ELSE source[f]
           dir  == job[r].dir
           old  == snapshots[dir]
           s    == [old EXCEPT !.bars = [old.bars EXCEPT ![f] = bars]]
<1>1. /\ at[r] = "stage" /\ snapshots' = [snapshots EXCEPT ![dir].bars[f] = bars]
      /\ job' = [job EXCEPT ![r].todo = @ \ {f}]
      /\ at' = [at EXCEPT ![r] = NextPlace(job[r].todo \ {f}, "stage", "tables")]
      /\ UNCHANGED <<files, current, published, still, service, reader>>
  BY DEF Stage, StageBars
<1>2. dir \in 1..Len(snapshots) /\ old \in Snapshot /\ ~old.ready
  BY <1>1, DirType, TypeParts DEF DiskInv, DirInv
<1>3. bars \in Contents \cup {Missing} /\ bars \notin Malformed
      /\ (old.hash[f] \in Critical => bars = Missing)
  <2>1. old.hash = job[r].first
    BY <1>1 DEF DiskInv, DirInv
  <2> QED BY <2>1, Basics, TypeParts DEF DiskInv, TypeFiles, Bars, Excluded
<1>4. snapshots' = [snapshots EXCEPT ![dir] = s]
  BY <1>1
<1>5. Quarantined(old)
  BY <1>2 DEF DiskInv, BarsInv
<1> HIDE DEF bars
<1>6. s \in Snapshot /\ \A g \in Files : s.bars[g] = IF g = f THEN bars ELSE old.bars[g]
  BY <1>2, <1>3 DEF Snapshot, Bars
<1>7. s.ready = old.ready /\ Keeps(r, s) /\ s.hash = old.hash
  BY <1>2 DEF Snapshot, Keeps
<1>8. at'[r] \in {"stage", "tables"} /\ at' \in [Runners -> Place]
  BY <1>1, TypeParts DEF NextPlace, DiskInv, TypeRuns, Place, Working
<1>9. Moves(r) /\ job'[r].dir = dir /\ job'[r].blocked = job[r].blocked /\ job' \in [Runners -> Job]
      /\ job'[r].first = job[r].first
  BY <1>1, TypeParts DEF Moves, DiskInv, TypeRuns, Job
<1> HIDE DEF s
<1>10. WriteStep(r, s)
  <2>1. s.hash = job'[r].first
    BY <1>1, <1>7, <1>9 DEF DiskInv, DirInv
  <2> QED BY <1>1, <1>2, <1>4, <1>7, <1>8, <1>9, <2>1 DEF WriteStep
<1>11. Quarantined(s)
  BY <1>3, <1>5, <1>6, <1>7 DEF Quarantined
<1> QED BY <1>6, <1>7, <1>8, <1>9, <1>10, <1>11

LEMMA TablesWrites ==
  ASSUME DiskInv, NEW r \in Runners, WriteTables(r)
  PROVE  \E s \in Snapshot :
           /\ WriteStep(r, s) /\ Keeps(r, s) /\ Quarantined(s)
           /\ at' \in [Runners -> Place] /\ job' \in [Runners -> Job]
<1> DEFINE dir == job[r].dir
           old == snapshots[dir]
           s   == [old EXCEPT !.complete = TRUE, !.blocked = job[r].blocked]
<1>1. dir \in 1..Len(snapshots) /\ old \in Snapshot /\ ~old.ready
  BY DirType, TypeParts DEF WriteTables, DiskInv, DirInv
<1>2. snapshots' = [snapshots EXCEPT ![dir] = s]
  BY <1>1, TypeParts DEF WriteTables, DiskInv, TypeDisk
<1>3. job[r].blocked \in BOOLEAN
  BY TypeParts DEF DiskInv, TypeRuns, Job
<1>4. s \in Snapshot /\ s.bars = old.bars /\ s.complete /\ s.blocked = job[r].blocked
      /\ s.ready = old.ready /\ Keeps(r, s) /\ s.hash = old.hash
  BY <1>1, <1>3 DEF Snapshot, Keeps
<1>5. at'[r] = "promote" /\ at' \in [Runners -> Place]
  BY TypeParts DEF WriteTables, DiskInv, TypeRuns, Place, Working
<1>6. Moves(r) /\ UNCHANGED job
  BY TypeParts DEF WriteTables, Moves, DiskInv, TypeRuns
<1> HIDE DEF s
<1>7. WriteStep(r, s)
  BY <1>1, <1>2, <1>4, <1>5, <1>6 DEF WriteStep, WriteTables
<1>8. Quarantined(s)
  BY <1>1, <1>4 DEF DiskInv, BarsInv, Quarantined
<1> QED BY <1>4, <1>5, <1>6, <1>7, <1>8, TypeParts DEF DiskInv, TypeRuns

LEMMA ReadyWrites ==
  ASSUME DiskInv, NEW r \in Runners, MarkReady(r)
  PROVE  \E s \in Snapshot :
           /\ WriteStep(r, s) /\ Keeps(r, s) /\ Quarantined(s)
           /\ at' \in [Runners -> Place] /\ job' \in [Runners -> Job]
<1> DEFINE dir == job[r].dir
           old == snapshots[dir]
           s   == [old EXCEPT !.ready = TRUE]
<1>1. dir \in 1..Len(snapshots) /\ old \in Snapshot
  BY DirType, TypeParts DEF MarkReady, DiskInv, DirInv
<1>2. snapshots' = [snapshots EXCEPT ![dir] = s]
  BY <1>1, TypeParts DEF MarkReady, DiskInv, TypeDisk
<1>3. old.complete /\ ~old.blocked
  BY DEF MarkReady, DiskInv, DirInv
<1>4. s \in Snapshot /\ s.bars = old.bars /\ s.complete = old.complete /\ s.blocked = old.blocked
      /\ s.ready /\ Keeps(r, s) /\ s.hash = old.hash
  BY <1>1 DEF Snapshot, Keeps
<1>5. at'[r] = "swap" /\ at' \in [Runners -> Place]
  BY TypeParts DEF MarkReady, DiskInv, TypeRuns, Place, Working
<1>6. Moves(r) /\ UNCHANGED job
  BY TypeParts DEF MarkReady, Moves, DiskInv, TypeRuns
<1> HIDE DEF s
<1>7. WriteStep(r, s)
  BY <1>2, <1>3, <1>4, <1>5, <1>6 DEF WriteStep, MarkReady
<1>8. Quarantined(s)
  BY <1>1, <1>4 DEF DiskInv, BarsInv, Quarantined
<1> QED BY <1>4, <1>5, <1>6, <1>7, <1>8, TypeParts DEF DiskInv, TypeRuns

\* A new directory: the run's pointer to it is unlike every other.
LEMMA ScanShape ==
  ASSUME DiskInv, NEW r \in Runners, Scan(r)
  PROVE  /\ snapshots' = Append(snapshots, Candidate(r)) /\ Candidate(r) \in Snapshot
         /\ snapshots' \in Seq(Snapshot) /\ Len(snapshots) \in Nat
         /\ Len(snapshots') = Len(snapshots) + 1
         /\ \A e \in 1..Len(snapshots) : snapshots'[e] = snapshots[e]
         /\ snapshots'[Len(snapshots) + 1] = Candidate(r)
         /\ Moves(r) /\ job'[r].dir = Len(snapshots) + 1 /\ at'[r] \in {"stage", "tables"}
         /\ job'[r].first = job[r].first
         /\ at' \in [Runners -> Place] /\ job' \in [Runners -> Job'] /\ job'[r] \in Job'
<1>1. Candidate(r) \in Snapshot
  <2>1. job[r].first \in Bars /\ job[r].asOf \in Days
    BY TypeParts DEF DiskInv, TypeRuns, Job
  <2>2. (IF r = Service THEN task ELSE 0) \in 0..MaxRuns
    BY Bounds, TypeParts DEF DiskInv, TypeService
  <2> QED BY <2>1, <2>2, Basics DEF Candidate, Snapshot
<1>2. snapshots' = Append(snapshots, Candidate(r))
  BY DEF Scan
<1>3. /\ snapshots' \in Seq(Snapshot) /\ Len(snapshots) \in Nat
      /\ Len(snapshots') = Len(snapshots) + 1
      /\ \A e \in 1..Len(snapshots) : snapshots'[e] = snapshots[e]
      /\ snapshots'[Len(snapshots) + 1] = Candidate(r)
  BY <1>1, <1>2, AppendProperties, TypeParts DEF DiskInv, TypeDisk
<1>4. at'[r] \in {"stage", "tables"} /\ at' \in [Runners -> Place]
      /\ \A q \in Runners : q # r => at'[q] = at[q]
  BY TypeParts DEF Scan, ScanInto, NextPlace, DiskInv, TypeRuns, Place, Working
<1>5. PICK deviates \in BOOLEAN :
        job' = [job EXCEPT ![r].blocked = @ \/ deviates, ![r].todo = job[r].found,
                           ![r].dir = Len(snapshots) + 1]
  BY DEF Scan, ScanInto
<1> DEFINE b == job[r].blocked \/ deviates
<1>6. b \in BOOLEAN
  BY TypeParts DEF DiskInv, TypeRuns, Job
<1>7. job' = [job EXCEPT ![r] =
        [job[r] EXCEPT !.blocked = b, !.todo = job[r].found, !.dir = Len(snapshots) + 1]]
  BY <1>5, TypeParts DEF DiskInv, TypeRuns
<1> HIDE DEF b
<1>8. Len(snapshots) + 1 \in 0..Len(snapshots') /\ \A j \in Job : j \in Job'
  BY <1>3, Longer, TypeParts DEF DiskInv
<1>9. job[r] \in Job /\ job \in [Runners -> Job]
  BY TypeParts DEF DiskInv, TypeRuns
<1>10. job'[r] = [job[r] EXCEPT !.blocked = b, !.todo = job[r].found, !.dir = Len(snapshots) + 1]
       /\ \A q \in Runners : q # r => job'[q] = job[q]
  BY <1>7, <1>9
<1>11. job'[r] \in Job' /\ job'[r].dir = Len(snapshots) + 1 /\ job'[r].first = job[r].first
  <2> DEFINE n == Len(snapshots) + 1
  <2>1. n \in 0..Len(snapshots')
    BY <1>8
  <2> HIDE DEF n
  <2>2. job'[r] = [job[r] EXCEPT !.blocked = b, !.todo = job[r].found, !.dir = n]
    BY <1>10 DEF n
  <2>3. job'[r] \in Job' /\ job'[r].dir = n /\ job'[r].first = job[r].first
    BY <1>6, <1>9, <2>1, <2>2 DEF Job, Days, Bars
  <2> QED BY <2>3 DEF n
<1>12. job' \in [Runners -> Job']
  BY <1>7, <1>8, <1>9, <1>10, <1>11
<1> QED BY <1>1, <1>2, <1>3, <1>4, <1>10, <1>11, <1>12 DEF Moves

LEMMA ScanInv == ASSUME DiskInv, NEW r \in Runners, Scan(r) PROVE DiskInv'
<1> DEFINE n == Len(snapshots) + 1
<1>1. /\ snapshots' \in Seq(Snapshot) /\ Len(snapshots) \in Nat /\ Len(snapshots') = n
      /\ \A e \in 1..Len(snapshots) : snapshots'[e] = snapshots[e]
      /\ snapshots'[n] = Candidate(r)
      /\ Moves(r) /\ job'[r].dir = n /\ at'[r] \in {"stage", "tables"}
      /\ job'[r].first = job[r].first
      /\ at' \in [Runners -> Place] /\ job' \in [Runners -> Job']
  BY ScanShape
<1>2. UNCHANGED <<files, current, published, still, service, reader>>
  BY DEF Scan, ScanInto
<1>3. /\ n # 0 /\ n \notin 0..Len(snapshots) /\ 1..n = (1..Len(snapshots)) \cup {n}
      /\ 0..Len(snapshots) \subseteq 0..n /\ 1..Len(snapshots) \subseteq 1..n
  BY <1>1
<1> HIDE DEF n
<1>4. \A q \in Runners : job[q].dir # n /\ (job[q].dir # 0 => job[q].dir \in 1..Len(snapshots))
  BY <1>1, <1>3, TypeParts DEF DiskInv, TypeRuns, Job
<1>5. TypeDisk'
  BY <1>1, <1>2, <1>3, TypeParts DEF DiskInv, TypeDisk
<1>6. TypeRuns'
  BY <1>1, <1>2, TypeParts DEF DiskInv, TypeRuns
<1>7. TypeReader'
  <2>1. Len(snapshots') \in {Len(snapshots), Len(snapshots) + 1}
    BY <1>1 DEF n
  <2> QED BY <1>1, <1>2, <2>1, Longer, TypeParts DEF DiskInv, TypeReader
<1>8. ReaderInv'
  BY <1>2 DEF DiskInv, ReaderInv
<1>9. Candidate(r).ready = FALSE /\ Quarantined(Candidate(r)) /\ Candidate(r).hash = job[r].first
  BY Basics DEF Candidate, Quarantined
<1>10. DirInv'
  <2>1. \A q \in Runners : q # r => at'[q] = at[q] /\ job'[q] = job[q]
    BY <1>1 DEF Moves
  <2>2. \A q, p \in Runners : q # p /\ job'[q].dir # 0 => job'[p].dir # job'[q].dir
    BY <1>1, <1>4, <2>1 DEF DiskInv, DirInv
  <2>3. \A q \in Runners : q # r /\ job[q].dir # 0 => snapshots'[job[q].dir] = snapshots[job[q].dir]
    BY <1>1, <1>4
  <2>4. ASSUME NEW q \in Runners
        PROVE  /\ at'[q] \in {"stage", "tables", "promote"} =>
                    job'[q].dir # 0 /\ ~snapshots'[job'[q].dir].ready
               /\ at'[q] = "stage" => snapshots'[job'[q].dir].hash = job'[q].first
               /\ at'[q] = "promote" =>
                    /\ snapshots'[job'[q].dir].complete
                    /\ snapshots'[job'[q].dir].blocked = job'[q].blocked
               /\ at'[q] = "swap" =>
                    /\ job'[q].dir # 0
                    /\ snapshots'[job'[q].dir].complete /\ snapshots'[job'[q].dir].ready
                    /\ ~snapshots'[job'[q].dir].blocked
    <3>1. CASE q = r
      BY <1>1, <1>3, <1>9, <3>1
    <3>2. CASE q # r
      BY <2>1, <2>3, <3>2 DEF DiskInv, DirInv
    <3> QED BY <3>1, <3>2
  <2> QED BY <2>2, <2>4 DEF DirInv
<1>11. PubInv'
  <2>1. \A d \in published : snapshots'[d] = snapshots[d]
    BY <1>1, TypeParts DEF DiskInv, TypeDisk
  <2> QED BY <1>2, <2>1 DEF DiskInv, PubInv
<1>12. BarsInv'
  BY <1>1, <1>3, <1>9 DEF DiskInv, BarsInv
<1> QED BY <1>2, <1>5, <1>6, <1>7, <1>8, <1>10, <1>11, <1>12, SameFiles, SameService
        DEF DiskInv, TypeOK, TypeFiles, TypeDisk, TypeRuns, TypeService, TypeReader

LEMMA SwapInv == ASSUME DiskInv, NEW r \in Runners, Swap(r) PROVE DiskInv'
<1> DEFINE dir == job[r].dir
<1>1. /\ at[r] = "swap" /\ current' = dir /\ published' = published \cup {dir}
      /\ at' = [at EXCEPT ![r] = "report"]
      /\ UNCHANGED <<files, snapshots, job, still, service, reader>>
  BY DEF Swap
<1>2. dir \in 1..Len(snapshots) /\ dir # 0
  BY <1>1, DirType, TypeParts DEF DiskInv, DirInv
<1>3. snapshots[dir].complete /\ snapshots[dir].ready /\ ~snapshots[dir].blocked
  BY <1>1 DEF DiskInv, DirInv
<1>4. TypeDisk'
  BY <1>1, <1>2, TypeParts DEF DiskInv, TypeDisk
<1>5. TypeRuns'
  BY <1>1, TypeParts DEF DiskInv, TypeRuns, Job, Place
<1>6. TypeReader' /\ ReaderInv'
  BY <1>1, TypeParts DEF DiskInv, TypeReader, Reading, ReaderInv
<1>7. DirInv'
  BY <1>1, TypeParts DEF DiskInv, DirInv, TypeRuns
<1>8. PubInv' /\ BarsInv'
  BY <1>1, <1>2, <1>3 DEF DiskInv, PubInv, BarsInv
<1> QED BY <1>1, <1>4, <1>5, <1>6, <1>7, <1>8, SameFiles, SameService
        DEF DiskInv, TypeOK, TypeFiles, TypeDisk, TypeRuns, TypeService, TypeReader

-----------------------------------------------------------------------------
(* Readers *)

LEMMA ReadInv ==
  ASSUME DiskInv, NEW rd \in Readers,
         TakeSnapshot(rd) \/ Query(rd) \/ Label(rd) \/ Return(rd)
  PROVE  DiskInv'
<1>1. UNCHANGED <<files, disk, runs, service>>
  BY DEF TakeSnapshot, Query, Label, Return
<1>2. reader[rd] \in Reading /\ reader \in [Readers -> Reading]
  BY TypeParts DEF DiskInv, TypeReader
<1>3. \A d \in published \cup ({current} \ {0}) : d \in 1..Len(snapshots) /\ snapshots[d] \in Snapshot
  <2>1. \A d \in published \cup ({current} \ {0}) : d \in 1..Len(snapshots)
    BY TypeParts DEF DiskInv, TypeDisk
  <2> QED BY <2>1, ElementOfSeq, TypeParts DEF DiskInv, TypeDisk
<1>4. PICK c \in Reading : reader' = [reader EXCEPT ![rd] = c] /\ (c.at # "idle" => c.dir \in published)
                          /\ (c.at \in {"query", "label"} => c.label = 0)
  <2>1. CASE TakeSnapshot(rd)
    <3>1. NoCall \in Reading /\ current \in 0..Len(snapshots) /\ current \in published
      BY <2>1, NoCallType, TypeParts DEF TakeSnapshot, DiskInv, PubInv, TypeDisk
    <3>2. [NoCall EXCEPT !.at = "query", !.dir = current] \in Reading
          /\ [NoCall EXCEPT !.at = "query", !.dir = current].dir = current
          /\ [NoCall EXCEPT !.at = "query", !.dir = current].label = 0
      BY <3>1 DEF Reading, NoCall
    <3> QED BY <2>1, <3>1, <3>2 DEF TakeSnapshot
  <2>2. CASE Query(rd)
    <3> DEFINE c == [reader[rd] EXCEPT !.at = "label", !.bars = snapshots[reader[rd].dir].bars]
    <3>1. reader' = [reader EXCEPT ![rd] = c] /\ reader[rd].dir \in published /\ reader[rd].label = 0
      BY <2>2, <1>2 DEF Query, DiskInv, ReaderInv
    <3>2. snapshots[reader[rd].dir].bars \in Bars
      BY <1>3, <3>1 DEF Snapshot
    <3>3. c \in Reading /\ c.dir = reader[rd].dir /\ c.label = reader[rd].label
      BY <1>2, <3>2 DEF Reading
    <3> QED BY <3>1, <3>3
  <2>3. CASE Label(rd)
    <3> DEFINE c == [reader[rd] EXCEPT !.at = "answered", !.label = snapshots[current].asOf]
    <3>1. reader' = [reader EXCEPT ![rd] = c] /\ reader[rd].dir \in published
      BY <2>3, <1>2 DEF Label, DiskInv, ReaderInv
    <3>2. snapshots[current].asOf \in 0..MaxDay
      BY <1>3, <3>1, Basics DEF DiskInv, PubInv, Snapshot
    <3>3. c \in Reading /\ c.dir = reader[rd].dir /\ c.at = "answered"
      BY <1>2, <3>2 DEF Reading
    <3> QED BY <3>1, <3>3
  <2>4. CASE Return(rd)
    BY <2>4, NoCallType, TypeParts DEF Return, DiskInv
  <2> QED BY <2>1, <2>2, <2>3, <2>4
<1>5. TypeReader' /\ ReaderInv'
  <2>1. Reading' = Reading /\ published' = published
    BY <1>1 DEF Reading, disk
  <2> QED BY <1>2, <1>4, <2>1 DEF DiskInv, TypeReader, ReaderInv
<1>6. still' \in [Runners -> BOOLEAN]
  BY <1>1, TypeParts DEF runs, DiskInv, TypeRuns
<1> QED BY <1>1, <1>5, <1>6, SameRuns, SameFiles, SameService, QuietInv DEF runs

-----------------------------------------------------------------------------
(* The invariant *)

LEMMA InitInv == Init => DiskInv
<1> SUFFICES ASSUME Init PROVE DiskInv
  OBVIOUS
<1>1. Len(snapshots) = 0 /\ snapshots = <<>> /\ snapshots \in Seq(Snapshot)
  BY DEF Init
<1>2. TypeDisk
  BY <1>1 DEF Init, TypeDisk
<1>3. TypeFiles
  BY Basics, Bounds DEF Init, TypeFiles, Bars
<1>4. TypeRuns
  BY <1>2, NoJobType DEF Init, TypeRuns, Place
<1>5. TypeService
  <2>1. ids = 0 /\ ids \in 0..MaxRuns /\ 0 \in 0..ids
    BY Bounds DEF Init
  <2>2. queue \in Seq(1..ids)
    BY DEF Init
  <2>3. runId \in 0..ids /\ future \in 0..ids /\ task \in 0..ids /\ closed \in BOOLEAN
    BY <2>1 DEF Init
  <2>4. status \in {"idle", "queued", "running"} \cup Ended
    BY DEF Init
  <2> QED BY <2>1, <2>2, <2>3, <2>4 DEF TypeService
<1>6. TypeReader
  BY <1>2, NoCallType DEF Init, TypeReader
<1>7. DirInv /\ PubInv /\ BarsInv /\ ReaderInv
  BY <1>1, <1>2, NoJobType, NoCallType DEF Init, DirInv, PubInv, BarsInv, ReaderInv
<1> QED BY <1>2, <1>3, <1>4, <1>5, <1>6, <1>7, TypeParts DEF DiskInv

LEMMA PipelineInv == ASSUME DiskInv, NEW r \in Runners, Pipeline(r) PROVE DiskInv'
<1>1. ASSUME NEW f \in Files, Assess(r, f) PROVE DiskInv'
  BY <1>1, AssessInv
<1>2. ASSUME NEW f \in Files, Stage(r, f) PROVE DiskInv'
  BY <1>2, StageWrites, WriteInv
<1>3. CASE WriteTables(r)
  BY <1>3, TablesWrites, WriteInv
<1>4. CASE MarkReady(r)
  BY <1>4, ReadyWrites, WriteInv
<1>5. CASE Report(r) \/ Fail(r)
  BY <1>5, EndInv DEF Report, Fail, Ended
<1> QED BY <1>1, <1>2, <1>3, <1>4, <1>5, ScanInv, RefuseInv, SwapInv DEF Pipeline

LEMMA StepInv == DiskInv /\ [Next]_vars => DiskInv'
<1> SUFFICES ASSUME DiskInv, [Next]_vars PROVE DiskInv'
  OBVIOUS
<1>1. CASE UNCHANGED vars
  <2>1. UNCHANGED <<files, disk, runs, service, reader>>
    BY <1>1 DEF vars
  <2>2. still' \in [Runners -> BOOLEAN]
    BY <2>1, TypeParts DEF runs, DiskInv, TypeRuns
  <2> QED BY <2>1, <2>2, SameReaders, SameRuns, SameFiles, SameService, QuietInv DEF runs
<1>2. CASE AnswerRunning \/ StartRefresh \/ Close
  BY <1>2, RequestInv
<1>3. CASE NewDay \/ \E f \in Files : SourceChanges(f)
  BY <1>3, WorldInv
<1>4. CASE Worker
  <2>1. today \in Days
    BY TypeParts DEF DiskInv, TypeFiles
  <2> QED BY <1>4, <2>1, Basics, TaskInv, BeginInv, PipelineInv DEF Worker, StartService
<1>5. ASSUME NEW r \in Clis, StartCli(r) \/ Pipeline(r) PROVE DiskInv'
  <2>1. r \in Runners
    BY DEF Runners
  <2> QED BY <1>5, <2>1, BeginInv, PipelineInv DEF StartCli
<1>6. ASSUME NEW rd \in Readers, TakeSnapshot(rd) \/ Query(rd) \/ Label(rd) \/ Return(rd)
      PROVE  DiskInv'
  BY <1>6, ReadInv
<1> QED BY <1>1, <1>2, <1>3, <1>4, <1>5, <1>6, RestartInv DEF Next

LEMMA AlwaysDiskInv == Spec => []DiskInv
BY InitInv, StepInv, PTL DEF Spec

\* The variables keep their types, however runs fail, overlap and restart.
THEOREM TypeCorrect == Spec => []TypeOK
<1>1. DiskInv => TypeOK
  BY DEF DiskInv
<1> QED BY <1>1, AlwaysDiskInv, PTL

\* Whatever CURRENT has named is complete, valid, carries READY and has no bars of
\* a file whose assessment was critical.
THEOREM OnlyWholeSnapshots == Spec => []PublishedIsWhole
<1>1. DiskInv => PublishedIsWhole
  <2> SUFFICES ASSUME DiskInv PROVE PublishedIsWhole
    OBVIOUS
  <2>1. \A d \in published \cup ({current} \ {0}) : d \in published /\ Quarantined(snapshots[d])
    BY TypeParts DEF DiskInv, PubInv, BarsInv, TypeDisk
  <2> QED BY <2>1 DEF DiskInv, PubInv, PublishedIsWhole, Quarantined
<1> QED BY <1>1, AlwaysDiskInv, PTL

-----------------------------------------------------------------------------
(* What a step does to the snapshots *)

\* The steps that do not write.
Silent(r) ==
  \/ \E f \in Files : Assess(r, f)
  \/ Refuse(r) \/ Swap(r) \/ Report(r) \/ Fail(r)

Writes(r) == (\E f \in Files : Stage(r, f)) \/ WriteTables(r) \/ MarkReady(r)

LEMMA PipelineKinds ==
  \A r \in Runners : Pipeline(r) => Silent(r) \/ Writes(r) \/ Scan(r)
BY DEF Pipeline, Silent, Writes

LEMMA WritesShape ==
  ASSUME DiskInv, NEW r \in Runners, Writes(r)
  PROVE  \E s \in Snapshot : WriteStep(r, s) /\ Keeps(r, s)
BY StageWrites, TablesWrites, ReadyWrites DEF Writes

\* Directories are added, never removed; one with READY stays as it is, and none
\* changes its date or the run it is of.
Evolves ==
  /\ Len(snapshots) \in Nat /\ 1..Len(snapshots) \subseteq 1..Len(snapshots')
  /\ \A d \in 1..Len(snapshots) :
       /\ snapshots[d].ready => snapshots'[d] = snapshots[d]
       /\ snapshots'[d].asOf = snapshots[d].asOf
       /\ snapshots'[d].run = snapshots[d].run

LEMMA SameSnapshots == ASSUME DiskInv, UNCHANGED snapshots PROVE Evolves
BY TypeParts DEF DiskInv, TypeDisk, Evolves

LEMMA WriteEvolves ==
  ASSUME DiskInv, NEW r \in Runners, Writes(r)
  PROVE  /\ Evolves /\ Len(snapshots') = Len(snapshots)
         /\ job[r].dir \in 1..Len(snapshots)
         /\ \A d \in 1..Len(snapshots) : d # job[r].dir => snapshots'[d] = snapshots[d]
<1>1. PICK s \in Snapshot : WriteStep(r, s) /\ Keeps(r, s)
  BY WritesShape
<1>2. job[r].dir \in 1..Len(snapshots) /\ ~snapshots[job[r].dir].ready
  BY <1>1, DirType, TypeParts DEF WriteStep, DiskInv, DirInv
<1>3. /\ Len(snapshots') = Len(snapshots) /\ snapshots'[job[r].dir] = s
      /\ \A e \in 1..Len(snapshots) : e # job[r].dir => snapshots'[e] = snapshots[e]
  BY <1>1, <1>2, WriteOne, TypeParts DEF WriteStep, DiskInv
<1>4. Len(snapshots) \in Nat
  BY TypeParts DEF DiskInv, TypeDisk
<1> QED BY <1>1, <1>2, <1>3, <1>4 DEF Evolves, Keeps

LEMMA ScanEvolves == ASSUME DiskInv, NEW r \in Runners, Scan(r) PROVE Evolves
<1>1. /\ Len(snapshots) \in Nat /\ Len(snapshots') = Len(snapshots) + 1
      /\ \A e \in 1..Len(snapshots) : snapshots'[e] = snapshots[e]
  BY ScanShape
<1>2. 1..Len(snapshots) \subseteq 1..Len(snapshots')
  BY <1>1
<1> QED BY <1>1, <1>2 DEF Evolves

\* The steps of the world, the requests and the readers.
Outside ==
  \/ UNCHANGED vars
  \/ AnswerRunning \/ StartRefresh \/ Close \/ Restart \/ NewDay
  \/ TakeTask \/ Resolve
  \/ StartService \/ \E r \in Clis : StartCli(r)
  \/ \E f \in Files : SourceChanges(f)
  \/ \E rd \in Readers : TakeSnapshot(rd) \/ Query(rd) \/ Label(rd) \/ Return(rd)

LEMMA StepKinds ==
  [Next]_vars => Outside \/ \E r \in Runners : Silent(r) \/ Writes(r) \/ Scan(r)
BY PipelineKinds DEF Next, Worker, Outside, Runners

LEMMA OutsideDisk == Outside => UNCHANGED disk
BY DEF Outside, vars, AnswerRunning, StartRefresh, Close, Restart, NewDay, TakeTask, Resolve,
       StartService, StartCli, Begin, SourceChanges, TakeSnapshot, Query, Label, Return

LEMMA SilentSnapshots == \A r \in Runners : Silent(r) => UNCHANGED <<snapshots, reader>>
BY DEF Silent, Assess, Refuse, Swap, Report, Fail, End, disk

LEMMA AllEvolve == DiskInv /\ [Next]_vars => Evolves
<1> SUFFICES ASSUME DiskInv, [Next]_vars PROVE Evolves
  OBVIOUS
<1>1. CASE Outside
  BY <1>1, OutsideDisk, SameSnapshots DEF disk
<1>2. ASSUME NEW r \in Runners, Silent(r) \/ Writes(r) \/ Scan(r) PROVE Evolves
  BY <1>2, SilentSnapshots, SameSnapshots, WriteEvolves, ScanEvolves
<1> QED BY <1>1, <1>2, StepKinds

\* No step of any runner changes a directory that has READY.
THEOREM ReadyDirectoriesStay == Spec => CandidatesFreeze
<1> DEFINE Stays == \A d \in DOMAIN snapshots : snapshots[d].ready => snapshots'[d] = snapshots[d]
<1>1. DiskInv /\ [Next]_vars => Stays
  <2> SUFFICES ASSUME DiskInv, [Next]_vars PROVE Stays
    OBVIOUS
  <2>1. Evolves /\ DOMAIN snapshots = 1..Len(snapshots)
    BY AllEvolve, TypeParts DEF DiskInv, TypeDisk
  <2> QED BY <2>1 DEF Evolves
<1>2. DiskInv /\ [Next]_vars => [Stays]_vars
  BY <1>1
<1> HIDE DEF Stays
<1>3. Spec => [][Stays]_vars
  BY <1>2, AlwaysDiskInv, PTL DEF Spec
<1> QED BY <1>3 DEF CandidatesFreeze, Stays

-----------------------------------------------------------------------------
(* The promise to the readers *)

Served   == BarsOf(current)
ServedOf == DateOf(current)
Seen     == [rd \in Readers |-> SeenBy(rd)]
View     == <<Served, ServedOf, Seen>>

\* A step that neither switches CURRENT nor moves a reader: what is published stays.
LEMMA SameView == ASSUME DiskInv, Evolves, UNCHANGED <<current, reader>> PROVE UNCHANGED View
<1>1. \A d \in published : d # 0 /\ snapshots'[d] = snapshots[d]
  BY TypeParts DEF DiskInv, TypeDisk, PubInv, Evolves
<1>2. current # 0 => snapshots'[current] = snapshots[current]
  BY <1>1 DEF DiskInv, PubInv
<1>3. Served' = Served /\ ServedOf' = ServedOf
  BY <1>2 DEF Served, ServedOf, BarsOf, DateOf
<1>4. ASSUME NEW rd \in Readers PROVE SeenBy(rd)' = SeenBy(rd)
  <2>1. reader[rd].at # "idle" => snapshots'[reader[rd].dir] = snapshots[reader[rd].dir]
    BY <1>1 DEF DiskInv, ReaderInv
  <2> QED BY <2>1 DEF SeenBy, BarsOf
<1> QED BY <1>3, <1>4 DEF View, Seen

LEMMA ReaderStep ==
  ASSUME DiskInv, NEW rd \in Readers,
         TakeSnapshot(rd) \/ Query(rd) \/ Label(rd) \/ Return(rd)
  PROVE  Promise!Next \/ UNCHANGED View
<1>1. UNCHANGED <<snapshots, current>> /\ reader \in [Readers -> Reading] /\ reader[rd] \in Reading
  BY TypeParts DEF TakeSnapshot, Query, Label, Return, disk, DiskInv, TypeReader
<1>2. Served' = Served /\ ServedOf' = ServedOf
  BY <1>1 DEF Served, ServedOf, BarsOf, DateOf
<1>3. \A q \in Readers : q # rd => reader'[q] = reader[q]
  BY <1>1 DEF TakeSnapshot, Query, Label, Return
<1>4. \A q \in Readers : q # rd => SeenBy(q)' = SeenBy(q)
  BY <1>1, <1>3 DEF SeenBy, BarsOf
<1>5. CASE TakeSnapshot(rd)
  <2>1. reader'[rd].at = "query" /\ reader'[rd].dir = current /\ reader'[rd].label = 0
    BY <1>1, <1>5 DEF TakeSnapshot, NoCall
  <2>2. SeenBy(rd)' = [calls |-> TRUE, bars |-> Served, label |-> 0]
    BY <1>1, <2>1 DEF SeenBy, Served, BarsOf
  <2>3. Seen' = [Seen EXCEPT ![rd] = [calls |-> TRUE, bars |-> Served, label |-> 0]]
    BY <1>4, <2>2 DEF Seen
  <2>4. ~Seen[rd].calls
    BY <1>5 DEF TakeSnapshot, Seen, SeenBy
  <2> QED BY <1>2, <2>3, <2>4 DEF Promise!Next, Promise!Take, Served, ServedOf, Seen
<1>6. CASE Query(rd)
  <2>1. reader[rd].at = "query" /\ reader[rd].dir # 0
    BY <1>6, TypeParts DEF Query, DiskInv, ReaderInv, TypeDisk
  <2>2. reader'[rd].at = "label" /\ reader'[rd].bars = snapshots[reader[rd].dir].bars
        /\ reader'[rd].label = reader[rd].label
    BY <1>1, <1>6 DEF Query, Reading
  <2>3. SeenBy(rd)' = SeenBy(rd)
    BY <2>1, <2>2 DEF SeenBy, BarsOf
  <2> QED BY <1>2, <1>4, <2>3 DEF View, Seen
<1>7. CASE Label(rd)
  <2>1. reader[rd].at = "label" /\ reader[rd].label = 0 /\ current # 0
    BY <1>7, TypeParts DEF Label, DiskInv, ReaderInv, PubInv
  <2>2. reader'[rd].at = "answered" /\ reader'[rd].bars = reader[rd].bars
        /\ reader'[rd].label = snapshots[current].asOf
    BY <1>1, <1>7 DEF Label, Reading
  <2>3. SeenBy(rd)' = [SeenBy(rd) EXCEPT !.label = ServedOf]
    BY <2>1, <2>2 DEF SeenBy, ServedOf, DateOf
  <2>4. Seen' = [Seen EXCEPT ![rd].label = ServedOf]
    BY <1>4, <2>3 DEF Seen
  <2>5. Seen[rd].calls /\ Seen[rd].label = 0
    BY <2>1 DEF Seen, SeenBy
  <2> QED BY <1>2, <2>4, <2>5 DEF Promise!Next, Promise!Label, Served, ServedOf, Seen
<1>8. CASE Return(rd)
  <2>1. reader'[rd] = NoCall
    BY <1>1, <1>8 DEF Return
  <2>2. SeenBy(rd)' = Promise!NoCall
    <3>1. [calls |-> FALSE, bars |-> reader'[rd].bars, label |-> reader'[rd].label] = Promise!NoCall
      BY <2>1 DEF NoCall, Promise!NoCall
    <3>2. (reader'[rd].at # "idle") = FALSE /\ ~(reader'[rd].at = "query")
      BY <2>1 DEF NoCall
    <3> QED BY <3>1, <3>2 DEF SeenBy
  <2>3. Seen' = [q \in Readers |-> IF q \in {rd} THEN Promise!NoCall ELSE Seen[q]]
    BY <1>4, <2>2 DEF Seen
  <2> QED BY <1>2, <2>3 DEF Promise!Next, Promise!Forget, Served, ServedOf, Seen
<1> QED BY <1>5, <1>6, <1>7, <1>8

LEMMA SwapStep ==
  ASSUME DiskInv, NEW r \in Runners, Swap(r)
  PROVE  Promise!Publish
<1> DEFINE dir == job[r].dir
<1>1. current' = dir /\ UNCHANGED <<snapshots, reader>>
  BY DEF Swap
<1>2. dir \in 1..Len(snapshots) /\ dir # 0 /\ snapshots[dir] \in Snapshot
  BY DirType, TypeParts DEF Swap, DiskInv, DirInv
<1>3. BarsOf(current)' = snapshots[dir].bars /\ DateOf(current)' = snapshots[dir].asOf
  BY <1>1, <1>2 DEF BarsOf, DateOf
<1>4. /\ snapshots[dir].bars \in Bars /\ snapshots[dir].asOf \in Days
      /\ \A f \in Files : snapshots[dir].bars[f] \notin Malformed
  BY <1>2 DEF Snapshot, DiskInv, BarsInv, Quarantined
<1>5. \A rd \in Readers : SeenBy(rd)' = SeenBy(rd)
  BY <1>1 DEF SeenBy, BarsOf
<1> QED BY <1>3, <1>4, <1>5 DEF Promise!Publish

LEMMA PromiseStep == DiskInv /\ [Next]_vars => Promise!Next \/ UNCHANGED View
<1> SUFFICES ASSUME DiskInv, [Next]_vars PROVE Promise!Next \/ UNCHANGED View
  OBVIOUS
<1>1. CASE UNCHANGED <<current, reader>>
  BY <1>1, AllEvolve, SameView
<1>2. ASSUME NEW rd \in Readers, TakeSnapshot(rd) \/ Query(rd) \/ Label(rd) \/ Return(rd)
      PROVE  Promise!Next \/ UNCHANGED View
  BY <1>2, ReaderStep
<1>3. CASE Restart
  <2>1. \A rd \in Readers : SeenBy(rd)' = Promise!NoCall
    <3> SUFFICES ASSUME NEW rd \in Readers PROVE SeenBy(rd)' = Promise!NoCall
      OBVIOUS
    <3>1. reader'[rd] = NoCall
      BY <1>3 DEF Restart
    <3>2. [calls |-> FALSE, bars |-> reader'[rd].bars, label |-> reader'[rd].label] = Promise!NoCall
      BY <3>1 DEF NoCall, Promise!NoCall
    <3>3. (reader'[rd].at # "idle") = FALSE /\ ~(reader'[rd].at = "query")
      BY <3>1 DEF NoCall
    <3> QED BY <3>2, <3>3 DEF SeenBy
  <2>2. Seen' = [q \in Readers |-> IF q \in Readers THEN Promise!NoCall ELSE Seen[q]]
    BY <2>1 DEF Seen
  <2>3. Served' = Served /\ ServedOf' = ServedOf
    BY <1>3 DEF Restart, disk, Served, ServedOf, BarsOf, DateOf
  <2> QED BY <2>2, <2>3 DEF Promise!Next, Promise!Forget, Served, ServedOf, Seen
<1>4. ASSUME NEW r \in Runners, Swap(r) PROVE Promise!Next
  BY <1>4, SwapStep DEF Promise!Next
<1>5. ASSUME NEW r \in Runners, Silent(r) \/ Writes(r) \/ Scan(r), ~Swap(r)
      PROVE  UNCHANGED <<current, reader>>
  BY <1>5 DEF Silent, Writes, Scan, ScanInto, Stage, StageBars, WriteTables, MarkReady, Assess,
       Refuse, Report, Fail, End, disk
<1>6. CASE Outside
  <2>1. UNCHANGED current
    BY <1>6, OutsideDisk DEF disk
  <2> QED BY <1>1, <1>2, <1>3, <1>6, <2>1 DEF Outside, vars, AnswerRunning, StartRefresh, Close,
           NewDay, TakeTask, Resolve, StartService, StartCli, Begin, SourceChanges
<1> QED BY <1>1, <1>4, <1>5, <1>6, StepKinds

\* The files, the pointer and the readers implement PublishedSnapshot: one snapshot
\* is served and replaced as a whole, a call has the whole bars of the one it took,
\* and its label is that of the snapshot served when it was labelled.
THEOREM WholeSnapshotsServed == Spec => ServesWholeSnapshots
<1>1. Init => Promise!Init
  <2> SUFFICES ASSUME Init PROVE Promise!Init
    OBVIOUS
  <2>1. current = 0 /\ \A rd \in Readers : reader[rd] = NoCall
    BY DEF Init
  <2>2. BarsOf(current) = [f \in Files |-> Missing] /\ DateOf(current) = 0
    BY <2>1 DEF BarsOf, DateOf
  <2>3. ASSUME NEW rd \in Readers PROVE SeenBy(rd) = Promise!NoCall
    <3>1. reader[rd] = NoCall
      BY <2>1
    <3>2. [calls |-> FALSE, bars |-> reader[rd].bars, label |-> reader[rd].label] = Promise!NoCall
      BY <3>1 DEF NoCall, Promise!NoCall
    <3>3. (reader[rd].at # "idle") = FALSE /\ ~(reader[rd].at = "query")
      BY <3>1 DEF NoCall
    <3> QED BY <3>2, <3>3 DEF SeenBy
  <2> QED BY <2>2, <2>3 DEF Promise!Init
<1>2. DiskInv /\ [Next]_vars =>
        [Promise!Next]_<<BarsOf(current), DateOf(current), [rd \in Readers |-> SeenBy(rd)]>>
  BY PromiseStep DEF View, Served, ServedOf, Seen
<1> QED BY <1>1, <1>2, AlwaysDiskInv, PTL DEF Spec, ServesWholeSnapshots, Promise!Spec
-----------------------------------------------------------------------------
(* Single runs: the status a run reports, and what its snapshot holds. *)

\* The queue and the worker hold at most one run between them, the current one, and
\* its future is the one start_refresh looks at.
ServiceInv ==
  /\ task # 0 => task = runId /\ task = future /\ queue = <<>>
  /\ queue # <<>> => queue = <<runId>> /\ future = runId /\ runId # 0

Outcome == {"stage", "tables", "promote", "swap", "report"}

\* No directory is of run n.
NoneOf(n) == \A d \in 1..Len(snapshots) : snapshots[d].run # n

\* The status tells where the worker is.
PlaceInv ==
  /\ task = 0 <=> at[Service] = "idle"
  /\ status = "running" <=> at[Service] \in Working \cup {"report"}
  /\ status = "idle" <=> runId = 0
  /\ status = "queued" => at[Service] = "idle" /\ (future = runId => queue # <<>>)
  /\ queue # <<>> => status = "queued"
  /\ at[Service] = "done" => status \in Ended

\* The worker's run has no directory before the scan and this one afterwards, which
\* is published when the run reports unless it was blocked.
KnownInv == \A d \in 1..Len(snapshots) : snapshots[d].run \in 0..ids

NoneInv == status = "queued" \/ at[Service] \in {"begin", "assess", "scan"} => NoneOf(runId)

OwnInv ==
  at[Service] \in Outcome =>
    /\ job[Service].dir # 0 /\ snapshots[job[Service].dir].run = runId
    /\ \A d \in 1..Len(snapshots) : d # job[Service].dir => snapshots[d].run # runId
    /\ at[Service] # "report" => job[Service].dir \notin published
    /\ at[Service] = "report" => (job[Service].dir \in published <=> ~job[Service].blocked)
    /\ at[Service] = "swap" => ~job[Service].blocked

CliInv == \A r \in Clis : job[r].dir # 0 => snapshots[job[r].dir].run = 0

TruthInv == status = "completed" => OwnPublished

StatusInv == PlaceInv /\ KnownInv /\ NoneInv /\ OwnInv /\ CliInv /\ TruthInv

Expected(f) == IF source[f] \in Critical \cup Malformed THEN Missing ELSE source[f]

\* What run r has read and written, as long as no source has changed.
SoundOf(r) ==
  still[r] =>
    /\ at[r] \in {"assess", "scan"} => \A f \in Files : f \notin job[r].found => source[f] = Missing
    /\ at[r] = "assess" => \A f \in Files : f \notin job[r].todo => job[r].first[f] = source[f]
    /\ at[r] \in {"scan", "stage", "tables", "promote", "swap"} =>
         \A f \in Files : job[r].first[f] = source[f]
    /\ at[r] \in {"stage", "tables", "promote", "swap"} =>
         \A f \in Files : snapshots[job[r].dir].hash[f] = source[f]
    /\ at[r] = "stage" =>
         \A f \in Files : f \notin job[r].todo => snapshots[job[r].dir].bars[f] = Expected(f)
    /\ at[r] \in {"tables", "promote", "swap"} =>
         \A f \in Files : snapshots[job[r].dir].bars[f] = Expected(f)

SoundInv == \A r \in Runners : SoundOf(r)

-----------------------------------------------------------------------------
(* The worker and its queue *)

LEMMA ServiceInit == Init => ServiceInv
BY DEF Init, ServiceInv

LEMMA ServiceStep == DiskInv /\ ServiceInv /\ [Next]_vars => ServiceInv'
<1> SUFFICES ASSUME DiskInv, ServiceInv, [Next]_vars PROVE ServiceInv'
  OBVIOUS
<1> USE DEF ServiceInv
<1>1. ids \in Nat /\ runId \in Nat /\ future \in Nat /\ queue \in Seq(1..ids)
  BY Bounds, TypeParts DEF DiskInv, TypeService
<1>2. ASSUME UNCHANGED <<runId, future, queue, task>> PROVE ServiceInv'
  BY <1>2
<1>3. CASE StartRefresh
  <2>1. task = 0
    BY <1>3 DEF StartRefresh, InProgress, FutureDone
  <2>2. queue = <<>>
    <3>1. CASE queue # <<>>
      <4>1. 1 \in DOMAIN queue /\ queue[1] = future /\ future # 0
        BY <3>1
      <4> QED BY <1>3, <4>1 DEF StartRefresh, InProgress, FutureDone
    <3> QED BY <3>1
  <2>3. closed => ServiceInv'
    BY <1>3, <2>1, <2>2 DEF StartRefresh
  <2>4. ~closed => queue' = <<ids + 1>> /\ runId' = ids + 1 /\ future' = ids + 1 /\ task' = 0
    BY <1>3, <2>1, <2>2 DEF StartRefresh
  <2>5. ids + 1 # 0
    BY <1>1
  <2> QED BY <2>3, <2>4, <2>5
<1>4. CASE TakeTask
  <2>1. queue = <<runId>> /\ future = runId
    BY <1>4 DEF TakeTask
  <2>2. Head(queue) = runId /\ Tail(queue) = <<>>
    BY <2>1
  <2> QED BY <1>4, <2>1, <2>2 DEF TakeTask
<1>5. CASE Resolve
  BY <1>5 DEF Resolve
<1>6. CASE Restart
  BY <1>6 DEF Restart
<1>7. CASE Outside
  BY <1>2, <1>3, <1>4, <1>5, <1>6, <1>7
     DEF Outside, vars, service, AnswerRunning, Close, NewDay, StartService, StartCli, Begin,
         SourceChanges, TakeSnapshot, Query, Label, Return
<1>8. ASSUME NEW r \in Runners, Silent(r) \/ Writes(r) \/ Scan(r) PROVE ServiceInv'
  BY <1>2, <1>8 DEF Silent, Writes, Scan, ScanInto, Stage, StageBars, WriteTables, MarkReady,
       Assess, Refuse, Swap, Report, Fail, End, service
<1> QED BY <1>7, <1>8, StepKinds

\* The worker never meets a run identifier that changed under it.
THEOREM RunIdNeverChanges == Spec => []RunIdIsStable
<1>1. ServiceInv => RunIdIsStable
  BY DEF ServiceInv, RunIdIsStable
<1> QED BY <1>1, ServiceInit, ServiceStep, AlwaysDiskInv, PTL DEF Spec

LEMMA AlwaysServiceInv == Spec => []ServiceInv
BY ServiceInit, ServiceStep, AlwaysDiskInv, PTL DEF Spec

-----------------------------------------------------------------------------
(* What a run reads and writes while the sources rest *)

Reads  == {"assess", "scan"}
Holds  == {"stage", "tables", "promote", "swap"}

LEMMA SoundFrame ==
  ASSUME NEW r \in Runners, SoundOf(r), at'[r] = at[r], job'[r] = job[r],
         still'[r] => still[r] /\ source' = source,
         at[r] \in Holds => snapshots'[job[r].dir] = snapshots[job[r].dir]
  PROVE  SoundOf(r)'
BY DEF SoundOf, Expected, Holds

LEMMA SoundElsewhere ==
  ASSUME NEW r \in Runners, at'[r] \notin Reads \cup Holds
  PROVE  SoundOf(r)'
BY DEF SoundOf, Reads, Holds

\* A step of one run leaves the others, and their directories, alone.
LEMMA OthersStay ==
  ASSUME DiskInv, NEW q \in Runners, Silent(q) \/ Writes(q) \/ Scan(q), NEW r \in Runners, r # q
  PROVE  /\ at'[r] = at[r] /\ job'[r] = job[r] /\ UNCHANGED <<files, still>>
         /\ job[r].dir # 0 => snapshots'[job[r].dir] = snapshots[job[r].dir]
<1>1. job[r].dir # 0 => job[r].dir \in 1..Len(snapshots) /\ job[q].dir # job[r].dir
  BY DirType, TypeParts DEF DiskInv, DirInv
<1>2. CASE Silent(q)
  BY <1>2, TypeParts DEF DiskInv, TypeRuns, Silent, Assess, Refuse, Swap, Report, Fail, End, disk
<1>3. CASE Writes(q)
  <2>1. PICK s \in Snapshot : WriteStep(q, s)
    BY <1>3, WritesShape
  <2> QED BY <1>1, <1>3, <2>1, WriteEvolves DEF WriteStep, Moves
<1>4. CASE Scan(q)
  <2>1. UNCHANGED <<files, still>>
    BY <1>4 DEF Scan, ScanInto
  <2> QED BY <1>1, <1>4, <2>1, ScanShape DEF Moves
<1> QED BY <1>2, <1>3, <1>4

LEMMA SoundOthers ==
  ASSUME DiskInv, SoundInv, NEW q \in Runners, Silent(q) \/ Writes(q) \/ Scan(q),
         NEW r \in Runners, r # q
  PROVE  SoundOf(r)'
<1>1. at[r] \in Holds => job[r].dir # 0
  BY DEF DiskInv, DirInv, Holds
<1>2. at'[r] = at[r] /\ job'[r] = job[r] /\ source' = source /\ still' = still
      /\ (at[r] \in Holds => snapshots'[job[r].dir] = snapshots[job[r].dir])
  BY <1>1, OthersStay DEF files
<1> QED BY <1>2, SoundFrame DEF SoundInv

LEMMA SoundBegin ==
  ASSUME DiskInv, NEW r \in Runners, NEW asOf \in Days, Begin(r, asOf)
  PROVE  SoundOf(r)'
<1> DEFINE found == {f \in Files : source[f] # Missing}
           b     == \E c \in Categories : \A f \in found : CategoryOf[f] # c
<1>1. /\ at'[r] = IF found = {} THEN "scan" ELSE "assess"
      /\ job'[r] = [NoJob EXCEPT !.asOf = asOf, !.found = found, !.todo = found, !.blocked = b]
      /\ source' = source
  BY TypeParts DEF Begin, NextPlace, DiskInv, TypeRuns, files
<1> HIDE DEF b
<1>2. job'[r].found = found /\ job'[r].todo = found /\ \A f \in Files : job'[r].first[f] = Missing
  BY <1>1 DEF NoJob
<1>3. \A f \in Files : f \notin found <=> source[f] = Missing
  OBVIOUS
<1> HIDE DEF found
<1>4. CASE found = {}
  BY <1>1, <1>2, <1>3, <1>4 DEF SoundOf
<1>5. CASE found # {}
  BY <1>1, <1>2, <1>3, <1>5 DEF SoundOf
<1> QED BY <1>4, <1>5

LEMMA SoundAssess ==
  ASSUME DiskInv, NEW r \in Runners, SoundOf(r), NEW f \in Files, Assess(r, f)
  PROVE  SoundOf(r)'
<1>1. /\ at'[r] = IF job[r].todo \ {f} = {} THEN "scan" ELSE "assess"
      /\ source' = source /\ still' = still /\ at[r] = "assess"
  BY TypeParts DEF Assess, NextPlace, DiskInv, TypeRuns, files
<1>2. job'[r] = [job[r] EXCEPT !.first = [job[r].first EXCEPT ![f] = source[f]],
                               !.todo = job[r].todo \ {f}]
  BY TypeParts DEF Assess, DiskInv, TypeRuns
<1>3. job[r] \in Job /\ job[r].first \in Bars
  BY TypeParts DEF DiskInv, TypeRuns, Job
<1>4. /\ job'[r].found = job[r].found /\ job'[r].todo = job[r].todo \ {f}
      /\ job'[r].first = [job[r].first EXCEPT ![f] = source[f]]
  BY <1>2, <1>3 DEF Job
<1>5. \A g \in Files : job'[r].first[g] = IF g = f THEN source[f] ELSE job[r].first[g]
  BY <1>3, <1>4 DEF Bars
<1>6. CASE job[r].todo \ {f} = {}
  BY <1>1, <1>4, <1>5, <1>6 DEF SoundOf
<1>7. CASE job[r].todo \ {f} # {}
  BY <1>1, <1>4, <1>5, <1>7 DEF SoundOf
<1> QED BY <1>6, <1>7

LEMMA SoundScan ==
  ASSUME DiskInv, NEW r \in Runners, SoundOf(r), Scan(r)
  PROVE  SoundOf(r)'
<1> DEFINE n == Len(snapshots) + 1
<1>1. /\ at'[r] = IF job[r].found = {} THEN "tables" ELSE "stage"
      /\ source' = source /\ still' = still /\ at[r] = "scan"
  BY TypeParts DEF Scan, ScanInto, NextPlace, DiskInv, TypeRuns, files
<1>2. /\ job'[r].found = job[r].found /\ job'[r].todo = job[r].found
      /\ job'[r].first = job[r].first
  <2>1. PICK deviates \in BOOLEAN :
          job' = [job EXCEPT ![r].blocked = @ \/ deviates, ![r].todo = job[r].found,
                             ![r].dir = Len(snapshots) + 1]
    BY DEF Scan, ScanInto
  <2> DEFINE b == job[r].blocked \/ deviates
             m == Len(snapshots) + 1
  <2>2. job'[r] = [job[r] EXCEPT !.blocked = b, !.todo = job[r].found, !.dir = m]
    BY <2>1, TypeParts DEF DiskInv, TypeRuns
  <2> HIDE DEF b, m
  <2> QED BY <2>2, TypeParts DEF DiskInv, TypeRuns, Job
<1>3. snapshots'[n] = Candidate(r) /\ job'[r].dir = n
  BY ScanShape
<1>4. \A f \in Files : snapshots'[n].bars[f] = Missing /\ snapshots'[n].hash[f] = job[r].first[f]
  BY <1>3 DEF Candidate
<1> HIDE DEF n
<1>5. \A f \in Files : source[f] = Missing => Expected(f) = Missing
  BY DEF Expected
<1>7. CASE job[r].found = {}
  BY <1>1, <1>2, <1>3, <1>4, <1>5, <1>7 DEF SoundOf, Expected
<1>8. CASE job[r].found # {}
  BY <1>1, <1>2, <1>3, <1>4, <1>5, <1>8 DEF SoundOf, Expected
<1> QED BY <1>7, <1>8

LEMMA SoundStage ==
  ASSUME DiskInv, NEW r \in Runners, SoundOf(r), NEW f \in Files, Stage(r, f)
  PROVE  SoundOf(r)'
<1> DEFINE bars == IF source[f] \in Malformed \/ Excluded(r, f) THEN Missing ELSE source[f]
           dir  == job[r].dir
<1>1. /\ at'[r] = IF job[r].todo \ {f} = {} THEN "tables" ELSE "stage"
      /\ source' = source /\ still' = still /\ at[r] = "stage"
  BY TypeParts DEF Stage, StageBars, NextPlace, DiskInv, TypeRuns, files
<1>2. /\ job'[r].todo = job[r].todo \ {f} /\ job'[r].first = job[r].first /\ job'[r].dir = dir
  BY TypeParts DEF Stage, StageBars, DiskInv, TypeRuns, Job
<1>3. dir \in 1..Len(snapshots) /\ snapshots[dir] \in Snapshot
  BY <1>1, DirType, TypeParts DEF DiskInv, DirInv
<1>4. snapshots' = [snapshots EXCEPT ![dir].bars[f] = bars]
  BY DEF Stage, StageBars
<1>5. DOMAIN snapshots = 1..Len(snapshots)
  BY TypeParts DEF DiskInv, TypeDisk
<1>6. snapshots'[dir] = [snapshots[dir] EXCEPT !.bars = [snapshots[dir].bars EXCEPT ![f] = bars]]
  BY <1>3, <1>4, <1>5
<1> HIDE DEF bars
<1>7. /\ snapshots'[dir].hash = snapshots[dir].hash
      /\ \A g \in Files : snapshots'[dir].bars[g] = IF g = f THEN bars ELSE snapshots[dir].bars[g]
  BY <1>3, <1>6 DEF Snapshot, Bars
<1>8. still[r] => bars = Expected(f)
  BY <1>1 DEF SoundOf, Expected, Excluded, bars
<1>9. CASE job[r].todo \ {f} = {}
  BY <1>1, <1>2, <1>7, <1>8, <1>9 DEF SoundOf, Expected
<1>10. CASE job[r].todo \ {f} # {}
  BY <1>1, <1>2, <1>7, <1>8, <1>10 DEF SoundOf, Expected
<1> QED BY <1>9, <1>10

\* The later writes keep the bars and the fingerprints.
LEMMA SoundFinish ==
  ASSUME DiskInv, NEW r \in Runners, SoundOf(r), WriteTables(r) \/ MarkReady(r)
  PROVE  SoundOf(r)'
<1> DEFINE dir == job[r].dir
<1>1. /\ at[r] \in {"tables", "promote"} /\ at'[r] \in {"promote", "swap"}
      /\ source' = source /\ still' = still /\ job' = job
  BY TypeParts DEF WriteTables, MarkReady, DiskInv, TypeRuns, files
<1>2. dir \in 1..Len(snapshots) /\ snapshots[dir] \in Snapshot
  BY <1>1, DirType, TypeParts DEF DiskInv, DirInv
<1>3. snapshots'[dir].hash = snapshots[dir].hash /\ snapshots'[dir].bars = snapshots[dir].bars
  <2>1. CASE WriteTables(r)
    <3> DEFINE old == snapshots[dir]
               s   == [old EXCEPT !.complete = TRUE, !.blocked = job[r].blocked]
    <3>1. snapshots' = [snapshots EXCEPT ![dir] = s]
      BY <1>2, <2>1, TypeParts DEF WriteTables, DiskInv, TypeDisk
    <3>2. s \in Snapshot /\ s.hash = old.hash /\ s.bars = old.bars
      BY <1>2, TypeParts DEF Snapshot, DiskInv, TypeRuns, Job
    <3> HIDE DEF s
    <3>3. snapshots'[dir] = s
      BY <1>2, <3>1, <3>2, WriteOne, TypeParts DEF DiskInv
    <3> QED BY <3>2, <3>3
  <2>2. CASE MarkReady(r)
    <3> DEFINE old == snapshots[dir]
               s   == [old EXCEPT !.ready = TRUE]
    <3>1. snapshots' = [snapshots EXCEPT ![dir] = s]
      BY <1>2, <2>2, TypeParts DEF MarkReady, DiskInv, TypeDisk
    <3>2. s \in Snapshot /\ s.hash = old.hash /\ s.bars = old.bars
      BY <1>2, TypeParts DEF Snapshot, DiskInv, TypeRuns, Job
    <3> HIDE DEF s
    <3>3. snapshots'[dir] = s
      BY <1>2, <3>1, <3>2, WriteOne, TypeParts DEF DiskInv
    <3> QED BY <3>2, <3>3
  <2> QED BY <2>1, <2>2
<1> QED BY <1>1, <1>3 DEF SoundOf, Expected

LEMMA SoundOwn ==
  ASSUME DiskInv, SoundInv, NEW r \in Runners, Silent(r) \/ Writes(r) \/ Scan(r)
  PROVE  SoundOf(r)'
<1>1. SoundOf(r)
  BY DEF SoundInv
<1>2. CASE Refuse(r) \/ Swap(r) \/ Report(r) \/ Fail(r)
  <2>1. at'[r] \in {"report", "done"}
    BY <1>2, TypeParts DEF Refuse, Swap, Report, Fail, End, DiskInv, TypeRuns
  <2> QED BY <2>1, SoundElsewhere DEF Reads, Holds
<1> QED BY <1>1, <1>2, SoundAssess, SoundScan, SoundStage, SoundFinish DEF Silent, Writes

LEMMA SoundOutside ==
  ASSUME DiskInv, SoundInv, Outside, NEW r \in Runners
  PROVE  SoundOf(r)'
<1>1. UNCHANGED snapshots
  BY OutsideDisk DEF disk
<1>2. ASSUME at'[r] = at[r], job'[r] = job[r], still'[r] => still[r] /\ source' = source
      PROVE  SoundOf(r)'
  BY <1>1, <1>2, SoundFrame DEF SoundInv
<1>3. at \in [Runners -> Place] /\ job \in [Runners -> Job] /\ still \in [Runners -> BOOLEAN]
      /\ Service \in Runners /\ Clis \subseteq Runners
  BY Basics, TypeParts DEF DiskInv, TypeRuns, Runners
<1>4. CASE TakeTask \/ Resolve \/ Restart
  <2>1. CASE r = Service
    <3>1. at'[r] \in {"begin", "done", "idle"}
      BY <1>3, <1>4, <2>1 DEF TakeTask, Resolve, Restart
    <3> QED BY <3>1, SoundElsewhere DEF Reads, Holds
  <2>2. CASE r # Service
    BY <1>2, <1>3, <1>4, <2>2 DEF TakeTask, Resolve, Restart, files
  <2> QED BY <2>1, <2>2
<1>5. ASSUME NEW q \in Runners, NEW asOf \in Days, Begin(q, asOf) PROVE SoundOf(r)'
  <2>1. CASE r = q
    BY <1>5, <2>1, SoundBegin
  <2>2. CASE r # q
    BY <1>2, <1>3, <1>5, <2>2 DEF Begin, files
  <2> QED BY <2>1, <2>2
<1>6. ASSUME NEW f \in Files, SourceChanges(f) PROVE SoundOf(r)'
  <2>1. still'[r] = FALSE /\ UNCHANGED <<at, job>>
    BY <1>6 DEF SourceChanges
  <2> QED BY <1>2, <2>1
<1>7. CASE StartService \/ \E q \in Clis : StartCli(q)
  <2>1. today \in Days
    BY TypeParts DEF DiskInv, TypeFiles
  <2> QED BY <1>3, <1>5, <1>7, <2>1 DEF StartService, StartCli
<1>8. CASE UNCHANGED <<runs, source>>
  BY <1>2, <1>8 DEF runs
<1> QED BY <1>4, <1>6, <1>7, <1>8 DEF Outside, vars, files, AnswerRunning, StartRefresh, Close,
           NewDay, TakeSnapshot, Query, Label, Return

LEMMA SoundStep == DiskInv /\ SoundInv /\ [Next]_vars => SoundInv'
<1> SUFFICES ASSUME DiskInv, SoundInv, [Next]_vars, NEW r \in Runners PROVE SoundOf(r)'
  BY DEF SoundInv
<1>1. CASE Outside
  BY <1>1, SoundOutside
<1>2. ASSUME NEW q \in Runners, Silent(q) \/ Writes(q) \/ Scan(q) PROVE SoundOf(r)'
  BY <1>2, SoundOwn, SoundOthers
<1> QED BY <1>1, <1>2, StepKinds

LEMMA SoundInit == Init => SoundInv
BY DEF Init, SoundInv, SoundOf

\* A candidate about to be published holds what its sources hold, if they rested
\* during the run: all of every acceptable file, nothing of the others.
THEOREM SoundWhenStill == Spec => []SoundIfStill
<1>1. SoundInv => SoundIfStill
  BY DEF SoundInv, SoundOf, SoundIfStill, Expected
<1> QED BY <1>1, SoundInit, SoundStep, AlwaysDiskInv, PTL DEF Spec

-----------------------------------------------------------------------------
(* The status and CURRENT *)

LEMMA PlaceFrame ==
  ASSUME PlaceInv, at'[Service] = at[Service],
         UNCHANGED <<runId, status, future, queue, task>>
  PROVE  PlaceInv'
BY DEF PlaceInv

LEMMA PlaceWorks ==
  ASSUME PlaceInv, {at[Service], at'[Service]} \subseteq Working \cup {"report"},
         UNCHANGED <<runId, status, future, queue, task>>
  PROVE  PlaceInv'
BY DEF PlaceInv, Working

\* Where a step of a run leads.
LEMMA PipelinePlaces ==
  ASSUME DiskInv, NEW r \in Runners, Silent(r) \/ Writes(r) \/ Scan(r)
  PROVE  /\ at[r] \in Working \cup {"report"}
         /\ \A q \in Runners : q # r => at'[q] = at[q]
         /\ \/ at'[r] \in (Working \cup {"report"}) \ {"begin"} /\ UNCHANGED service
            \/ \E outcome \in Ended : End(r, outcome)
<1> USE DEF Working
<1>1. CASE Writes(r)
  BY <1>1, TypeParts DEF Writes, Stage, StageBars, NextPlace, WriteTables, MarkReady, DiskInv, TypeRuns
<1>2. CASE Scan(r)
  BY <1>2, TypeParts DEF Scan, ScanInto, NextPlace, DiskInv, TypeRuns
<1>3. CASE Report(r) \/ Fail(r)
  BY <1>3, TypeParts DEF Report, Fail, End, Ended, DiskInv, TypeRuns
<1>4. CASE Refuse(r) \/ Swap(r) \/ \E f \in Files : Assess(r, f)
  BY <1>4, TypeParts DEF Refuse, Swap, Assess, NextPlace, DiskInv, TypeRuns
<1> QED BY <1>1, <1>2, <1>3, <1>4 DEF Silent

LEMMA PlaceStep == DiskInv /\ ServiceInv /\ PlaceInv /\ [Next]_vars => PlaceInv'
<1> SUFFICES ASSUME DiskInv, ServiceInv, PlaceInv, [Next]_vars PROVE PlaceInv'
  OBVIOUS
<1>1. ids \in Nat /\ at \in [Runners -> Place] /\ Service \in Runners /\ Service \notin Clis
      /\ Clis \subseteq Runners
  BY Bounds, Names, TypeParts DEF DiskInv, TypeService, TypeRuns, Runners
<1>2. ASSUME NEW r \in Runners, Silent(r) \/ Writes(r) \/ Scan(r) PROVE PlaceInv'
  <2>1. CASE r # Service
    <3>1. at'[Service] = at[Service] /\ UNCHANGED <<runId, status, future, queue, task>>
      BY <1>1, <1>2, <2>1, PipelinePlaces DEF End, service
    <3> QED BY <3>1, PlaceFrame
  <2>2. CASE r = Service
    <3>1. CASE at'[Service] \in (Working \cup {"report"}) \ {"begin"} /\ UNCHANGED service
      BY <1>2, <2>2, <3>1, PipelinePlaces, PlaceWorks DEF service
    <3>2. ASSUME NEW outcome \in Ended, End(Service, outcome) PROVE PlaceInv'
      <4>1. at'[Service] = "done" /\ status' = outcome /\ UNCHANGED <<runId, future, queue, task>>
        BY <1>1, <3>2 DEF End
      <4>2. at[Service] \in Working \cup {"report"}
        BY <1>2, <2>2, PipelinePlaces
      <4>3. queue = <<>>
        BY <4>2 DEF PlaceInv, ServiceInv, Working
      <4> QED BY <4>1, <4>2, <4>3 DEF PlaceInv, Working, Ended
    <3> QED BY <1>2, <2>2, <3>1, <3>2, PipelinePlaces
  <2> QED BY <2>1, <2>2
<1>3. CASE StartRefresh
  <2>1. task = 0
    BY <1>3 DEF StartRefresh, InProgress, FutureDone, ServiceInv
  <2>2. /\ at'[Service] = "idle" /\ task' = 0 /\ status' = "queued" /\ runId' = ids + 1
        /\ ids + 1 # 0
    BY <1>1, <1>3, <2>1 DEF StartRefresh, runs, PlaceInv
  <2>3. future' = runId' => queue' # <<>>
    <3>1. CASE closed
      <4>1. future \in 0..ids
        BY TypeParts DEF DiskInv, TypeService
      <4>2. future' # ids + 1
        BY <1>1, <1>3, <3>1, <4>1 DEF StartRefresh
      <4> QED BY <2>2, <4>2
    <3>2. CASE ~closed
      <4>1. queue' = Append(queue, ids + 1) /\ queue \in Seq(1..ids)
        BY <1>3, <3>2, TypeParts DEF StartRefresh, DiskInv, TypeService
      <4>2. Len(queue') = Len(queue) + 1 /\ Len(queue) \in Nat
        BY <4>1
      <4>3. queue' # <<>>
        BY <4>2
      <4> QED BY <4>3
    <3> QED BY <3>1, <3>2
  <2> QED BY <2>2, <2>3 DEF PlaceInv, Working, Ended
<1>4. CASE TakeTask
  <2>1. queue = <<runId>> /\ runId # 0 /\ Head(queue) = runId
    BY <1>4 DEF TakeTask, ServiceInv
  <2>2. task' = runId /\ status' = "running" /\ at'[Service] = "begin" /\ runId' = runId
        /\ queue' = <<>>
    BY <1>1, <1>4, <2>1 DEF TakeTask
  <2> QED BY <2>1, <2>2 DEF PlaceInv, Working, Ended
<1>5. CASE Resolve
  <2>1. task' = 0 /\ at'[Service] = "idle" /\ at[Service] = "done" /\ UNCHANGED <<status, runId, queue>>
    BY <1>1, <1>5 DEF Resolve
  <2> QED BY <2>1 DEF PlaceInv, Working, Ended
<1>6. CASE Restart
  <2>1. task' = 0 /\ at'[Service] = "idle" /\ status' = "idle" /\ runId' = 0 /\ queue' = <<>>
    BY <1>1, <1>6 DEF Restart
  <2> QED BY <2>1 DEF PlaceInv, Working, Ended
<1>7. CASE StartService
  <2>1. at[Service] = "begin" /\ at'[Service] \in {"assess", "scan"} /\ UNCHANGED service
    BY <1>1, <1>7 DEF StartService, Begin, NextPlace
  <2> QED BY <2>1, PlaceWorks DEF Working, service
<1>8. CASE \E q \in Clis : StartCli(q)
  BY <1>1, <1>8, PlaceFrame DEF StartCli, Begin, service
<1>9. CASE UNCHANGED <<runs, runId, status, future, queue, task>>
  BY <1>9, PlaceFrame DEF runs
<1>10. CASE \E f \in Files : SourceChanges(f)
  BY <1>10, PlaceFrame DEF SourceChanges, service
<1>11. CASE Outside
  BY <1>3, <1>4, <1>5, <1>6, <1>7, <1>8, <1>9, <1>10, <1>11
     DEF Outside, vars, service, AnswerRunning, Close, NewDay, TakeSnapshot, Query, Label, Return
<1> QED BY <1>2, <1>11, StepKinds

\* The worker rests, the directories grow by those of others, and so may CURRENT.
LEMMA OwnFrame ==
  ASSUME DiskInv, StatusInv, Evolves,
         at'[Service] = at[Service], job'[Service] = job[Service],
         UNCHANGED <<ids, runId, status>>,
         \A d \in 1..Len(snapshots)' : d \notin 1..Len(snapshots) => snapshots'[d].run = 0,
         published \subseteq published',
         \A d \in published' \ published : d \in 1..Len(snapshots) /\ snapshots[d].run = 0,
         \A r \in Clis : job'[r].dir # 0 =>
           job'[r].dir \in 1..Len(snapshots)' /\ (job'[r].dir \in 1..Len(snapshots) => job'[r].dir = job[r].dir)
  PROVE  KnownInv' /\ NoneInv' /\ OwnInv' /\ CliInv' /\ TruthInv'
<1> USE DEF StatusInv
<1>1. \A d \in 1..Len(snapshots) : snapshots'[d].run = snapshots[d].run
  BY DEF Evolves
<1>2. published \subseteq 1..Len(snapshots) /\ ids \in Nat /\ Len(snapshots) \in Nat
  BY Bounds, TypeParts DEF DiskInv, TypeDisk, TypeService
<1>3. job[Service].dir # 0 => job[Service].dir \in 1..Len(snapshots)
  BY Basics, DirType, TypeParts DEF DiskInv
<1>4. status = "queued" \/ status \in Ended \/ at[Service] \in Working \cup {"report"} => runId # 0
  BY DEF PlaceInv, Ended
<1>5. KnownInv'
  BY <1>1, <1>2 DEF KnownInv
<1>6. NoneInv'
  BY <1>1, <1>4 DEF NoneInv, NoneOf, Working
<1>7. OwnInv'
  <2>1. SUFFICES ASSUME at[Service] \in Outcome PROVE OwnInv'
    BY DEF OwnInv
  <2>2. runId # 0
    BY <1>4, <2>1 DEF Working, Outcome
  <2>3. job[Service].dir \in published' <=> job[Service].dir \in published
    BY <1>3, <2>1, <2>2 DEF OwnInv
  <2>4. \A d \in 1..Len(snapshots)' : d # job[Service].dir => snapshots'[d].run # runId
    BY <1>1, <2>1, <2>2 DEF OwnInv
  <2>5. snapshots'[job[Service].dir].run = runId /\ job[Service].dir # 0
    BY <1>1, <1>3, <2>1 DEF OwnInv
  <2> QED BY <2>1, <2>3, <2>4, <2>5 DEF OwnInv
<1>8. CliInv'
  BY <1>1 DEF CliInv
<1>9. TruthInv'
  BY <1>1, <1>2 DEF TruthInv, OwnPublished
<1> QED BY <1>5, <1>6, <1>7, <1>8, <1>9

\* Nothing of it moves.
LEMMA OwnStill ==
  ASSUME DiskInv, StatusInv, UNCHANGED <<disk, ids, runId, status>>,
         at'[Service] = at[Service], job'[Service] = job[Service],
         \A r \in Clis : job'[r].dir \in {0, job[r].dir}
  PROVE  KnownInv' /\ NoneInv' /\ OwnInv' /\ CliInv' /\ TruthInv'
<1>1. UNCHANGED <<snapshots, published>>
  BY DEF disk
<1> QED BY <1>1 DEF StatusInv, KnownInv, NoneInv, NoneOf, OwnInv, CliInv, TruthInv, OwnPublished

LEMMA OwnCli ==
  ASSUME DiskInv, StatusInv, NEW r \in Clis, Silent(r) \/ Writes(r) \/ Scan(r)
  PROVE  KnownInv' /\ NoneInv' /\ OwnInv' /\ CliInv' /\ TruthInv'
<1>1. r \in Runners /\ r # Service /\ Service \in Runners /\ Clis \subseteq Runners
  BY Names, Basics DEF Runners
<1>2. at'[Service] = at[Service] /\ job'[Service] = job[Service]
      /\ \A q \in Clis : q # r => job'[q] = job[q]
  BY <1>1, OthersStay
<1>3. UNCHANGED <<ids, runId, status>>
  BY <1>1, PipelinePlaces DEF End, service
<1>4. \A q \in Clis : job[q].dir # 0 => job[q].dir \in 1..Len(snapshots)
  BY <1>1, DirType, TypeParts DEF DiskInv
<1>5. CASE Writes(r)
  <2>1. job'[r].dir = job[r].dir
    BY <1>1, <1>5, WritesShape DEF WriteStep
  <2>2. Len(snapshots') = Len(snapshots) /\ Evolves /\ published' = published
    BY <1>1, <1>5, WriteEvolves DEF Writes, Stage, StageBars, WriteTables, MarkReady
  <2> QED BY <1>2, <1>3, <1>4, <2>1, <2>2, OwnFrame
<1>6. CASE Scan(r)
  <2>1. /\ Len(snapshots') = Len(snapshots) + 1 /\ Len(snapshots) \in Nat
        /\ snapshots'[Len(snapshots) + 1] = Candidate(r) /\ job'[r].dir = Len(snapshots) + 1
    BY <1>1, <1>6, ScanShape
  <2>2. Evolves /\ published' = published
    BY <1>1, <1>6, ScanEvolves DEF Scan, ScanInto
  <2>3. \A d \in 1..Len(snapshots)' : d \notin 1..Len(snapshots) => snapshots'[d].run = 0
    <3>1. Candidate(r).run = 0
      BY <1>1 DEF Candidate
    <3>2. \A d \in 1..Len(snapshots)' : d \notin 1..Len(snapshots) => d = Len(snapshots) + 1
      BY <2>1
    <3> QED BY <2>1, <3>1, <3>2
  <2>4. job'[r].dir \in 1..Len(snapshots)' /\ job'[r].dir \notin 1..Len(snapshots)
        /\ 1..Len(snapshots) \subseteq 1..Len(snapshots)'
    BY <2>1
  <2> QED BY <1>2, <1>3, <1>4, <2>2, <2>3, <2>4, OwnFrame
<1>7. CASE Swap(r)
  <2>1. /\ UNCHANGED <<snapshots, job>> /\ published' = published \cup {job[r].dir}
        /\ job[r].dir # 0 /\ at[r] = "swap"
    BY <1>1, <1>7 DEF Swap, DiskInv, DirInv
  <2>2. Evolves /\ snapshots[job[r].dir].run = 0
    BY <2>1, SameSnapshots DEF StatusInv, CliInv
  <2> QED BY <1>2, <1>3, <1>4, <2>1, <2>2, OwnFrame
<1>8. CASE Silent(r) /\ ~Swap(r)
  <2>1. UNCHANGED disk
    BY <1>8 DEF Silent, Assess, Refuse, Report, Fail, End
  <2>2. job'[r].dir \in {0, job[r].dir}
    <3>1. CASE \E f \in Files : Assess(r, f)
      BY <1>1, <3>1, TypeParts DEF Assess, DiskInv, TypeRuns, Job
    <3>2. CASE Refuse(r)
      BY <3>2 DEF Refuse
    <3>3. CASE Report(r) \/ Fail(r)
      BY <1>1, <3>3, TypeParts DEF Report, Fail, End, NoJob, DiskInv, TypeRuns
    <3> QED BY <1>8, <3>1, <3>2, <3>3 DEF Silent
  <2> QED BY <1>2, <1>3, <2>1, <2>2, OwnStill
<1> QED BY <1>5, <1>6, <1>7, <1>8

LEMMA OwnService ==
  ASSUME DiskInv, ServiceInv, StatusInv, Silent(Service) \/ Writes(Service) \/ Scan(Service)
  PROVE  KnownInv' /\ NoneInv' /\ OwnInv' /\ CliInv' /\ TruthInv'
<1> DEFINE dir == job[Service].dir
<1> USE DEF StatusInv
<1>1. Service \in Runners /\ Service \notin Clis /\ Clis \subseteq Runners
  BY Names, Basics DEF Runners
<1>2. \A q \in Clis : job'[q] = job[q]
  BY <1>1, OthersStay
<1>3. status = "running" /\ runId # 0 /\ task = runId /\ at[Service] # "idle"
  BY <1>1, PipelinePlaces DEF PlaceInv, ServiceInv, Working
<1>4. \A q \in Clis : job[q].dir # 0 => job[q].dir \in 1..Len(snapshots)
  BY <1>1, DirType, TypeParts DEF DiskInv
<1>5. ids \in Nat /\ Len(snapshots) \in Nat /\ published \subseteq 1..Len(snapshots)
      /\ runId \in 0..ids
  BY Bounds, TypeParts DEF DiskInv, TypeDisk, TypeService
<1>6. CASE Writes(Service)
  <2>1. /\ at[Service] \in {"stage", "tables", "promote"} /\ job'[Service].dir = dir
        /\ UNCHANGED <<service, published>>
        /\ at'[Service] \in {"stage", "tables", "promote", "swap"}
        /\ at'[Service] = "swap" => ~job'[Service].blocked
    <3>1. CASE \E f \in Files : Stage(Service, f)
      BY <1>1, <3>1, TypeParts DEF Stage, StageBars, NextPlace, DiskInv, TypeRuns, Job
    <3>2. CASE WriteTables(Service) \/ MarkReady(Service)
      BY <1>1, <3>2, TypeParts DEF WriteTables, MarkReady, DiskInv, TypeRuns
    <3> QED BY <1>6, <3>1, <3>2 DEF Writes
  <2>2. Evolves /\ Len(snapshots') = Len(snapshots) /\ dir \in 1..Len(snapshots)
    BY <1>1, <1>6, WriteEvolves
  <2>3. \A d \in 1..Len(snapshots) : snapshots'[d].run = snapshots[d].run
    BY <2>2 DEF Evolves
  <2>4. KnownInv' /\ CliInv'
    BY <1>2, <1>4, <2>1, <2>2, <2>3 DEF service, KnownInv, CliInv
  <2>5. OwnInv'
    BY <2>1, <2>2, <2>3 DEF service, OwnInv, Outcome
  <2> QED BY <1>3, <2>1, <2>4, <2>5 DEF service, NoneInv, TruthInv, OwnPublished, Ended
<1>7. CASE Scan(Service)
  <2>1. /\ Len(snapshots') = Len(snapshots) + 1 /\ at'[Service] \in {"stage", "tables"}
        /\ snapshots'[Len(snapshots) + 1] = Candidate(Service)
        /\ job'[Service].dir = Len(snapshots) + 1
        /\ \A d \in 1..Len(snapshots) : snapshots'[d] = snapshots[d]
    BY <1>1, <1>7, ScanShape
  <2>2. at[Service] = "scan" /\ UNCHANGED <<service, published>>
    BY <1>7 DEF Scan, ScanInto
  <2>3. Candidate(Service).run = runId
    BY <1>3 DEF Candidate
  <2>4. \A d \in 1..Len(snapshots) : snapshots[d].run # runId
    BY <2>2 DEF NoneInv, NoneOf
  <2>5. 1..Len(snapshots)' = (1..Len(snapshots)) \cup {Len(snapshots) + 1}
        /\ Len(snapshots) + 1 \notin 1..Len(snapshots) /\ Len(snapshots) + 1 # 0
    BY <1>5, <2>1
  <2>6. KnownInv'
    <3>1. ids' = ids /\ \A d \in 1..Len(snapshots) : snapshots'[d].run \in 0..ids
      BY <2>1, <2>2 DEF service, KnownInv
    <3>2. snapshots'[Len(snapshots) + 1].run \in 0..ids
      BY <1>5, <2>1, <2>3
    <3> QED BY <2>5, <3>1, <3>2 DEF KnownInv
  <2>7. CliInv'
    BY <1>2, <1>4, <2>1 DEF CliInv
  <2>8. OwnInv'
    BY <1>5, <2>1, <2>2, <2>3, <2>4, <2>5 DEF service, OwnInv, Outcome
  <2> QED BY <1>3, <2>1, <2>2, <2>6, <2>7, <2>8 DEF service, NoneInv, TruthInv, OwnPublished, Ended
<1>8. CASE \E f \in Files : Assess(Service, f)
  <2>1. at[Service] = "assess" /\ at'[Service] \in {"assess", "scan"} /\ UNCHANGED <<service, disk>>
    BY <1>1, <1>8, TypeParts DEF Assess, NextPlace, DiskInv, TypeRuns
  <2> QED BY <1>2, <1>3, <2>1 DEF service, disk, KnownInv, NoneInv, NoneOf, OwnInv, Outcome, CliInv, TruthInv, OwnPublished, Ended
<1>9. CASE Refuse(Service)
  <2>1. at[Service] = "promote" /\ at'[Service] = "report" /\ UNCHANGED <<service, disk, job>>
        /\ job[Service].blocked
    BY <1>1, <1>9, TypeParts DEF Refuse, DiskInv, TypeRuns
  <2> QED BY <1>2, <1>3, <2>1 DEF service, disk, KnownInv, NoneInv, NoneOf, OwnInv, Outcome, CliInv, TruthInv, OwnPublished, Ended
<1>10. CASE Swap(Service)
  <2>1. at[Service] = "swap" /\ at'[Service] = "report" /\ UNCHANGED <<service, snapshots, job>>
        /\ published' = published \cup {dir}
    BY <1>1, <1>10, TypeParts DEF Swap, DiskInv, TypeRuns
  <2> QED BY <1>2, <1>3, <2>1 DEF service, KnownInv, NoneInv, NoneOf, OwnInv, Outcome, CliInv, TruthInv, OwnPublished, Ended
<1>11. CASE Report(Service) \/ Fail(Service)
  <2>1. PICK outcome \in Ended :
          /\ End(Service, outcome)
          /\ outcome = "completed" => at[Service] = "report" /\ ~job[Service].blocked
    BY <1>11 DEF Report, Fail, Working, Ended
  <2>2. UNCHANGED <<disk, ids, runId>> /\ at'[Service] = "done" /\ status' = outcome
    BY <1>1, <2>1, TypeParts DEF End, DiskInv, TypeRuns
  <2>3. outcome = "completed" => OwnPublished
    BY <2>1 DEF OwnInv, Outcome, OwnPublished
  <2> QED BY <1>2, <2>2, <2>3 DEF disk, KnownInv, NoneInv, OwnInv, Outcome, CliInv, TruthInv, OwnPublished, Ended
<1> QED BY <1>6, <1>7, <1>8, <1>9, <1>10, <1>11 DEF Silent

LEMMA OwnOutside ==
  ASSUME DiskInv, ServiceInv, StatusInv, Outside
  PROVE  KnownInv' /\ NoneInv' /\ OwnInv' /\ CliInv' /\ TruthInv'
<1> USE DEF StatusInv
<1>1. UNCHANGED <<snapshots, published>> /\ UNCHANGED disk
  BY OutsideDisk DEF disk
<1>2. Service \in Runners /\ Service \notin Clis /\ Clis \subseteq Runners /\ ids \in Nat
      /\ at \in [Runners -> Place] /\ job \in [Runners -> Job] /\ NoJob.dir = 0
      /\ published \subseteq 1..Len(snapshots)
  BY Names, Basics, Bounds, NoJobType, TypeParts DEF Runners, DiskInv, TypeRuns, TypeService, TypeDisk
<1>3. CASE StartRefresh
  <2>1. task = 0
    BY <1>3 DEF StartRefresh, InProgress, FutureDone, ServiceInv
  <2>2. at'[Service] = "idle" /\ status' = "queued" /\ runId' = ids + 1 /\ ids' = ids + 1 /\ job' = job
    BY <1>3, <2>1 DEF StartRefresh, runs, PlaceInv
  <2>3. 0..ids \subseteq 0..(ids + 1) /\ ids + 1 \notin 0..ids
    BY <1>2
  <2> QED BY <1>1, <2>2, <2>3 DEF KnownInv, NoneInv, NoneOf, OwnInv, Outcome, CliInv, TruthInv, OwnPublished, Ended
<1>4. CASE TakeTask
  <2>1. queue = <<runId>> /\ Head(queue) = runId /\ at[Service] = "idle"
    BY <1>4 DEF TakeTask, ServiceInv, PlaceInv
  <2>2. status' = "running" /\ at'[Service] = "begin" /\ UNCHANGED <<job, ids, runId>>
    BY <1>2, <1>4, <2>1 DEF TakeTask
  <2>3. NoneOf(runId)
    <3>1. status = "queued"
      BY <2>1 DEF PlaceInv
    <3> QED BY <3>1 DEF NoneInv
  <2> QED BY <1>1, <2>2, <2>3 DEF KnownInv, NoneInv, NoneOf, OwnInv, Outcome, CliInv, TruthInv, OwnPublished, Ended
<1>5. CASE Resolve
  <2>1. at[Service] = "done" /\ at'[Service] = "idle" /\ UNCHANGED <<job, ids, runId, status>>
    BY <1>2, <1>5 DEF Resolve
  <2> QED BY <1>1, <2>1 DEF KnownInv, NoneInv, NoneOf, OwnInv, Outcome, CliInv, TruthInv, OwnPublished
<1>6. CASE Restart
  <2>1. at'[Service] = "idle" /\ status' = "idle" /\ ids' = ids /\ \A q \in Clis : job'[q] = job[q]
    BY <1>2, <1>6 DEF Restart
  <2> QED BY <1>1, <2>1 DEF KnownInv, NoneInv, OwnInv, Outcome, CliInv, TruthInv, OwnPublished, Ended
<1>7. CASE StartService
  <2>1. at[Service] = "begin" /\ at'[Service] \in {"assess", "scan"} /\ UNCHANGED service
        /\ \A q \in Clis : job'[q] = job[q]
    BY <1>2, <1>7 DEF StartService, Begin, NextPlace
  <2> QED BY <1>1, <2>1 DEF service, KnownInv, NoneInv, NoneOf, OwnInv, Outcome, CliInv, TruthInv, OwnPublished
<1>8. ASSUME NEW q \in Clis, StartCli(q)
      PROVE  KnownInv' /\ NoneInv' /\ OwnInv' /\ CliInv' /\ TruthInv'
  <2>1. UNCHANGED service /\ at'[Service] = at[Service] /\ job'[Service] = job[Service]
        /\ \A p \in Clis : p # q => job'[p] = job[p]
    BY <1>2, <1>8 DEF StartCli, Begin
  <2>2. job'[q].dir = 0
    <3>1. PICK asOf \in Days : Begin(q, asOf)
      BY <1>8 DEF StartCli
    <3> DEFINE found == {f \in Files : source[f] # Missing}
               b     == \E c \in Categories : \A f \in found : CategoryOf[f] # c
    <3>2. job'[q] = [NoJob EXCEPT !.asOf = asOf, !.found = found, !.todo = found, !.blocked = b]
      BY <1>2, <3>1 DEF Begin
    <3> HIDE DEF found, b
    <3> QED BY <3>2 DEF NoJob
  <2> QED BY <1>1, <2>1, <2>2, OwnStill DEF service
<1>9. CASE UNCHANGED <<at, job, ids, runId, status>>
  BY <1>1, <1>9, OwnStill
<1> QED BY <1>3, <1>4, <1>5, <1>6, <1>7, <1>8, <1>9
     DEF Outside, vars, runs, service, AnswerRunning, Close, NewDay, SourceChanges, TakeSnapshot,
         Query, Label, Return

LEMMA StatusStep == DiskInv /\ ServiceInv /\ StatusInv /\ [Next]_vars => StatusInv'
<1> SUFFICES ASSUME DiskInv, ServiceInv, StatusInv, [Next]_vars PROVE StatusInv'
  OBVIOUS
<1>1. PlaceInv'
  BY PlaceStep DEF StatusInv
<1>2. CASE Outside
  BY <1>1, <1>2, OwnOutside DEF StatusInv
<1>3. ASSUME NEW r \in Runners, Silent(r) \/ Writes(r) \/ Scan(r) PROVE StatusInv'
  <2>1. r = Service \/ r \in Clis
    BY DEF Runners
  <2> QED BY <1>1, <1>3, <2>1, OwnService, OwnCli DEF StatusInv
<1> QED BY <1>2, <1>3, StepKinds

LEMMA StatusInit == Init => StatusInv
<1> SUFFICES ASSUME Init PROVE StatusInv
  OBVIOUS
<1>1. at[Service] = "idle" /\ task = 0 /\ status = "idle" /\ runId = 0 /\ snapshots = <<>> /\ queue = <<>>
      /\ \A r \in Clis : job[r].dir = 0
  BY Basics DEF Init, NoJob, Runners
<1>2. 1..Len(snapshots) = {}
  BY <1>1
<1> QED BY <1>1, <1>2 DEF StatusInv, PlaceInv, KnownInv, NoneInv, OwnInv, CliInv, TruthInv, OwnPublished,
           Outcome, Working, Ended

LEMMA StatusImplies == TypeOK /\ ServiceInv /\ StatusInv => StatusTellsPromotion
<1> SUFFICES ASSUME TypeOK, ServiceInv, StatusInv PROVE StatusTellsPromotion
  OBVIOUS
<1>1. ASSUME runId # 0, future = runId, FutureDone PROVE status \in Ended
  <2>1. status \in {"idle", "queued", "running"} \cup Ended
    BY DEF TypeOK
  <2>2. status # "idle"
    BY <1>1 DEF StatusInv, PlaceInv
  <2>3. status # "running"
    BY <1>1 DEF StatusInv, PlaceInv, ServiceInv, FutureDone, Working
  <2>4. ASSUME status = "queued" PROVE FALSE
    <3>1. queue = <<runId>>
      BY <1>1, <2>4 DEF StatusInv, PlaceInv, ServiceInv
    <3>2. 1 \in DOMAIN queue /\ queue[1] = runId
      BY <3>1
    <3> QED BY <1>1, <3>2 DEF FutureDone
  <2> QED BY <2>1, <2>2, <2>3, <2>4
<1>2. ASSUME status = "queued" PROVE ~OwnPublished
  <2>1. \A d \in published : d \in 1..Len(snapshots)
    BY DEF TypeOK
  <2> QED BY <1>2, <2>1 DEF StatusInv, NoneInv, NoneOf, OwnPublished
<1> QED BY <1>1, <1>2 DEF StatusInv, TruthInv, StatusTellsPromotion

\* A run reported as completed has put its snapshot in place, a queued one has not,
\* and a future that is done leaves no status but the two that end a run.
THEOREM StatusIsTrue == Spec => []StatusTellsPromotion
<1>1. DiskInv => TypeOK
  BY DEF DiskInv
<1> QED BY <1>1, StatusInit, StatusStep, StatusImplies, AlwaysDiskInv, AlwaysServiceInv, PTL DEF Spec
=============================================================================
