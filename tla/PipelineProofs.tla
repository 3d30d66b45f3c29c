---------------------------- MODULE PipelineProofs ---------------------------
(***************************************************************************)
(* Type correctness of the recording pipeline, for any workers, runs,      *)
(* requests, tasks and sessions, any attempt limit, and every fault.       *)
(*                                                                         *)
(* TypeOK is not inductive: a worker's take comes from the recording of    *)
(* its task's session, so that has to be a session.  TypeInv adds what is  *)
(* missing: rows in use were inserted, and inserted rows have a session.   *)
(*                                                                         *)
(* Then, from MediaInv, what is true of a recording's artefacts.           *)
(***************************************************************************)
EXTENDS RecordingPipeline, TLAPS

Inserted(t) == t \in Tasks /\ tasks[t].status # "ABSENT"

RowsOK ==
  /\ tasks \in [Tasks -> TaskRow]
  /\ \A t \in Tasks : Inserted(t) => tasks[t].session \in Sessions

DataOK ==
  /\ recs \in [Sessions -> Recording]
  /\ live \in [Sessions -> {"SCHEDULED", "LIVE", "ENDED"}]
  /\ store \in [Sessions -> ObjectStore]
  /\ faults \in Nat

JobsOK ==
  /\ worker \in [Workers -> Job]
  /\ \A w \in Workers : worker[w].pc # "idle" => Inserted(worker[w].task)

RunsOK ==
  /\ run \in [Runs -> Run]
  /\ \A r \in Runs : run[r].pc # "free" => Inserted(run[r].task)

\* What a request remembers at pc: a task for an administrator's, otherwise
\* a session.
Anchored(req) ==
  /\ req.pc \in OnTask => Inserted(req.task)
  /\ req.pc \notin {"new", "done"} \cup OnTask => req.session \in Sessions

RequestsOK ==
  /\ request \in [Requests -> Request]
  /\ \A q \in Requests : Anchored(request[q])

TypeInv == RowsOK /\ DataOK /\ JobsOK /\ RunsOK /\ RequestsOK

LEMMA TypeInvType == TypeInv => TypeOK
BY DEF TypeInv, TypeOK, RowsOK, DataOK, JobsOK, RunsOK, RequestsOK

-----------------------------------------------------------------------------
(* Values.                                                                  *)

LEMMA RowTypes == NoRow \in TaskRow /\ \A s \in Sessions : Created(s) \in TaskRow
<1>1. NoRow \in TaskRow
  BY TableAssumption DEF TaskRow, NoRow, Missing
<1> QED BY <1>1 DEF TaskRow, Created, Status

LEMMA JobTypes ==
  /\ Idle \in Job
  /\ FreeRun \in Run
  /\ Unsent \in Request /\ Answered \in Request
<1>1. Idle \in Job
  BY TableAssumption DEF Idle, Job, WorkerPC, Take
<1>2. FreeRun \in Run /\ Unsent \in Request
  BY DEF FreeRun, Run, RunPC, Unsent, Request, RequestPC, Take
<1> QED BY <1>1, <1>2 DEF Answered, Request, RequestPC

LEMMA DataTypes ==
  /\ NoRecording \in Recording /\ Uploading \in Recording
  /\ EmptyStore \in ObjectStore
  /\ [EmptyStore EXCEPT !.open = {1}, !.newest = 1] \in ObjectStore
<1>1. NoRecording \in Recording /\ EmptyStore \in ObjectStore
  BY DEF NoRecording, Recording, EmptyStore, ObjectStore, Take
<1>2. Uploading \in Recording
  BY DEF Uploading, NoRecording, Recording, Take
<1>3. PICK e \in ObjectStore : e = EmptyStore
  BY <1>1
<1>4. \A o \in SUBSET Take, n \in Take : [e EXCEPT !.open = o, !.newest = n] \in ObjectStore
  BY DEF ObjectStore
<1>5. {1} \in SUBSET Take /\ 1 \in Take
  BY DEF Take
<1> QED BY <1>1, <1>2, <1>3, <1>4, <1>5

-----------------------------------------------------------------------------
(* A statement on an inserted row keeps its session and leaves it inserted. *)

KeptRow(row, new) ==
  /\ new \in TaskRow
  /\ new.session = row.session
  /\ new.status # "ABSENT"

LEMMA Statements ==
  ASSUME NEW row \in TaskRow, row.status # "ABSENT"
  PROVE  /\ \A w \in Workers : KeptRow(row, Claimed(row, w)) /\ KeptRow(row, HeartBeaten(row, w))
         /\ KeptRow(row, Unlocked(row))
         /\ \A seen \in 0 .. MaxAttempts : KeptRow(row, FailureRecorded(row, seen))
         /\ \A st \in Status \cup {"DELETED"} : /\ KeptRow(row, WithStatus(row, st))
                                                /\ KeptRow(row, Closed(row, st))
<1>1. \A w \in Workers : KeptRow(row, Claimed(row, w))
  BY DEF KeptRow, TaskRow, Claimed, Status, NodeOwned
<1>2. \A w \in Workers : KeptRow(row, HeartBeaten(row, w))
  BY DEF KeptRow, TaskRow, HeartBeaten
<1>3. KeptRow(row, Unlocked(row))
  BY TableAssumption DEF KeptRow, TaskRow, Unlocked
<1>4. PICK r \in TaskRow : r = Unlocked(row) /\ r.session = row.session
  BY <1>3 DEF KeptRow
<1>5. ASSUME NEW seen \in 0 .. MaxAttempts
      PROVE  KeptRow(row, FailureRecorded(row, seen))
  <2>1. /\ MaxAttempts \in 0 .. MaxAttempts
        /\ seen + 1 >= MaxAttempts \/ seen + 1 \in 0 .. MaxAttempts
    BY TableAssumption
  <2>2. CASE seen + 1 >= MaxAttempts
    <3>1. FailureRecorded(row, seen) = [r EXCEPT !.attempts = MaxAttempts, !.status = "FAILED"]
      BY <1>4, <2>2 DEF FailureRecorded
    <3> QED BY <1>4, <2>1, <3>1 DEF KeptRow, TaskRow, Status, Terminal
  <2>3. CASE ~(seen + 1 >= MaxAttempts)
    <3>1. FailureRecorded(row, seen) = [r EXCEPT !.attempts = seen + 1, !.status = "PENDING"]
      BY <1>4, <2>3 DEF FailureRecorded
    <3> QED BY <1>4, <2>1, <2>3, <3>1 DEF KeptRow, TaskRow, Status
  <2> QED BY <2>2, <2>3
<1>6. ASSUME NEW st \in Status \cup {"DELETED"}
      PROVE  KeptRow(row, WithStatus(row, st)) /\ KeptRow(row, Closed(row, st))
  <2>1. st # "ABSENT" /\ st \in Status \cup Missing
    BY DEF Status, NodeOwned, PythonOwned, Terminal, Missing
  <2>2. KeptRow(row, WithStatus(row, st))
    BY <2>1 DEF KeptRow, TaskRow, WithStatus
  <2>3. KeptRow(row, Closed(row, st))
    BY <1>4, <2>1 DEF KeptRow, TaskRow, Closed
  <2> QED BY <2>2, <2>3
<1> QED BY <1>1, <1>2, <1>3, <1>5, <1>6

-----------------------------------------------------------------------------
(* One part of the state changes.                                           *)

\* Rows are never taken out of the table, and never change their session.
Stays ==
  \A t \in Tasks : tasks[t].status # "ABSENT" => /\ tasks'[t].status # "ABSENT"
                                                 /\ tasks'[t].session = tasks[t].session

LEMMA RowChange ==
  ASSUME RowsOK, NEW t, Inserted(t), NEW new, KeptRow(tasks[t], new),
         tasks' = [tasks EXCEPT ![t] = new]
  PROVE  RowsOK' /\ Stays
BY DEF RowsOK, Inserted, KeptRow, Stays

LEMMA RowsKept ==
  ASSUME RowsOK, UNCHANGED tasks
  PROVE  RowsOK' /\ Stays
BY DEF RowsOK, Inserted, Stays

LEMMA JobChange ==
  ASSUME JobsOK, Stays, NEW w \in Workers, NEW job \in Job,
         job.pc # "idle" => Inserted(job.task),
         worker' = [worker EXCEPT ![w] = job]
  PROVE  JobsOK'
BY DEF JobsOK, Stays, Inserted

LEMMA RunChange ==
  ASSUME RunsOK, Stays, NEW r \in Runs, NEW new \in Run,
         new.pc # "free" => Inserted(new.task),
         run' = [run EXCEPT ![r] = new]
  PROVE  RunsOK'
BY DEF RunsOK, Stays, Inserted

LEMMA RequestChange ==
  ASSUME RequestsOK, Stays, NEW q \in Requests, NEW new \in Request,
         Anchored(new), request' = [request EXCEPT ![q] = new]
  PROVE  RequestsOK'
BY DEF RequestsOK, Stays, Anchored, Inserted

LEMMA OthersKept ==
  ASSUME TypeInv, Stays
  PROVE  /\ UNCHANGED worker => JobsOK'
         /\ UNCHANGED run => RunsOK'
         /\ UNCHANGED request => RequestsOK'
         /\ UNCHANGED <<recs, live, store, faults>> => DataOK'
<1>1. UNCHANGED worker => JobsOK'
  BY DEF TypeInv, JobsOK, Inserted, Stays
<1>2. UNCHANGED run => RunsOK'
  BY DEF TypeInv, RunsOK, Inserted, Stays
<1>3. UNCHANGED request => RequestsOK'
  BY DEF TypeInv, RequestsOK, Anchored, Inserted, Stays
<1>4. UNCHANGED <<recs, live, store, faults>> => DataOK'
  BY DEF TypeInv, DataOK
<1> QED BY <1>1, <1>2, <1>3, <1>4

LEMMA FaultType == ASSUME NEW kind, Fault(kind), faults \in Nat PROVE faults' \in Nat
BY DEF Fault

-----------------------------------------------------------------------------
LEMMA TypeInit == Init => TypeInv
<1> SUFFICES ASSUME Init PROVE TypeInv OBVIOUS
<1>1. RowsOK
  BY RowTypes DEF Init, RowsOK, Inserted, NoRow
<1>2. DataOK
  <2>1. PICK up \in SUBSET Sessions :
          /\ recs = [s \in Sessions |-> IF s \in up THEN Uploading ELSE NoRecording]
          /\ live = [s \in Sessions |-> IF s \in up THEN "LIVE" ELSE "SCHEDULED"]
          /\ store = [s \in Sessions |->
                        IF s \in up THEN [EmptyStore EXCEPT !.open = {1}, !.newest = 1]
                        ELSE EmptyStore]
    BY DEF Init
  <2>2. recs \in [Sessions -> Recording] /\ store \in [Sessions -> ObjectStore]
    BY <2>1, DataTypes
  <2> QED BY <2>1, <2>2 DEF Init, DataOK
<1>3. JobsOK /\ RunsOK
  BY JobTypes DEF Init, JobsOK, RunsOK, Idle, FreeRun
<1>4. RequestsOK
  BY JobTypes DEF Init, RequestsOK, Anchored, Unsent, OnTask
<1> QED BY <1>1, <1>2, <1>3, <1>4 DEF TypeInv

-----------------------------------------------------------------------------
(* Workers.                                                                 *)

LEMMA WorkerMoves ==
  ASSUME TypeInv, Stays, NEW w \in Workers
  PROVE  /\ GoIdle(w) => JobsOK'
         /\ ~At(w, "idle") /\ Throw(w) => JobsOK'
         /\ \A pc \in WorkerPC : ~At(w, "idle") /\ Goto(w, pc) => JobsOK'
<1>1. JobsOK /\ RowsOK
  BY DEF TypeInv
<1>2. GoIdle(w) => JobsOK'
  BY <1>1, JobChange, JobTypes DEF GoIdle, Idle
<1>3. ASSUME NEW pc \in WorkerPC, ~At(w, "idle"), Goto(w, pc)
      PROVE  JobsOK'
  <2> DEFINE job == [worker[w] EXCEPT !.pc = pc]
  <2>1. job \in Job /\ Inserted(job.task) /\ worker' = [worker EXCEPT ![w] = job]
    BY <1>1, <1>3 DEF JobsOK, Job, At, Goto, Inserted
  <2> QED BY <1>1, <2>1, JobChange
<1>4. ASSUME ~At(w, "idle"), Throw(w)
      PROVE  JobsOK'
  <2> DEFINE job == [worker[w] EXCEPT !.pc = "record", !.seen = tasks[worker[w].task].attempts]
  <2>1. Inserted(worker[w].task) /\ worker[w] \in Job
    BY <1>1, <1>4 DEF JobsOK, At
  <2>2. tasks[worker[w].task].attempts \in 0 .. MaxAttempts
    BY <1>1, <2>1 DEF RowsOK, TaskRow, Inserted
  <2>3. job \in Job /\ Inserted(job.task)
    BY <2>1, <2>2 DEF Job, WorkerPC, Inserted
  <2>4. worker' = [worker EXCEPT ![w] = job] \/ worker' = [worker EXCEPT ![w] = Idle]
    BY <1>4 DEF Throw, RowOf, TaskOf
  <2> QED BY <1>1, <2>3, <2>4, JobChange, JobTypes DEF Idle
<1> QED BY <1>2, <1>3, <1>4

\* What a worker off "idle" can rely on.
LEMMA BusyWorker ==
  ASSUME TypeInv, NEW w \in Workers, ~At(w, "idle")
  PROVE  /\ Inserted(TaskOf(w)) /\ SessionOf(TaskOf(w)) \in Sessions
         /\ tasks[TaskOf(w)] \in TaskRow /\ tasks[TaskOf(w)].status # "ABSENT"
         /\ worker[w] \in Job
BY DEF TypeInv, JobsOK, RowsOK, At, TaskOf, Inserted, SessionOf

LEMMA UpdateStatusType ==
  ASSUME TypeInv, NEW w \in Workers, NEW pc, pc # "idle", NEW st \in Status,
         NEW next \in WorkerPC, UpdateStatus(w, pc, st, next)
  PROVE  TypeInv' /\ Stays
<1>1. ~At(w, "idle")
  BY DEF UpdateStatus, At
<1>2. RowsOK' /\ Stays
  BY <1>1, BusyWorker, Statements, RowChange DEF TypeInv, UpdateStatus
<1>3. JobsOK'
  BY <1>1, <1>2, WorkerMoves DEF UpdateStatus
<1> QED BY <1>2, <1>3, OthersKept DEF UpdateStatus, TypeInv

LEMMA WorkerType ==
  ASSUME TypeInv, NEW w \in Workers, WorkerStep(w)
  PROVE  TypeInv' /\ Stays
<1> USE DEF WorkerPC
<1>1. CASE Claim(w)
  <2>1. PICK t \in Tasks :
          /\ Runnable(tasks[t])
          /\ tasks' = [tasks EXCEPT ![t] = Claimed(tasks[t], w)]
          /\ worker' = [worker EXCEPT ![w] = [Idle EXCEPT !.pc = "begin", !.task = t,
                                                         !.push = tasks[t].push]]
    BY <1>1 DEF Claim
  <2>2. tasks[t] \in TaskRow /\ Inserted(t)
    BY <2>1 DEF TypeInv, RowsOK, Runnable, NodeOwned, Inserted
  <2>3. RowsOK' /\ Stays
    BY <2>1, <2>2, Statements, RowChange DEF TypeInv, Inserted
  <2>4. [Idle EXCEPT !.pc = "begin", !.task = t, !.push = tasks[t].push] \in Job
    BY <2>2, JobTypes, PipelineAssumption DEF Job, TaskRow
  <2>5. JobsOK'
    BY <2>1, <2>2, <2>3, <2>4, JobChange DEF TypeInv, Job
  <2> QED BY <1>1, <2>3, <2>5, OthersKept DEF Claim, TypeInv
<1>2. CASE Begin(w)
  <2> DEFINE rec == recs[SessionOf(TaskOf(w))]
             done == rec.transcript # 0 /\ rec.autoSummary # 0
             pc == IF ~rec.playbackKey THEN "transcode"
                   ELSE IF done THEN "complete" ELSE "extract"
             job == [worker[w] EXCEPT !.take = rec.raw, !.mp4 = rec.playbackKey,
                                      !.audio = rec.audioKey, !.done = done, !.pc = pc]
  <2>1. ~At(w, "idle")
    BY <1>2 DEF Begin, At
  <2>2. rec \in Recording /\ worker[w] \in Job /\ Inserted(worker[w].task)
    BY <2>1, BusyWorker DEF TypeInv, DataOK, TaskOf
  <2>3. job \in Job /\ job.task = worker[w].task
    BY <2>2 DEF Job, Recording
  <2>4. worker' = [worker EXCEPT ![w] = job]
    BY <1>2 DEF Begin, TypeInv, JobsOK
  <2>5. RowsOK' /\ Stays
    BY <1>2, RowsKept DEF Begin, TypeInv
  <2>6. JobsOK'
    BY <2>2, <2>3, <2>4, <2>5, JobChange DEF TypeInv
  <2> QED BY <1>2, <2>5, <2>6, OthersKept DEF Begin, TypeInv
<1>3. CASE Transcode(w) \/ Thumbnail(w) \/ Extract(w) \/ Upload(w) \/ HandOff(w)
  BY <1>3, UpdateStatusType DEF Transcode, Thumbnail, Extract, Upload, HandOff, Status,
     NodeOwned, PythonOwned
<1>4. CASE PutVideo(w) \/ PutAudio(w)
  <2>1. ~At(w, "idle")
    BY <1>4 DEF PutVideo, PutAudio, At
  <2>2. RowsOK' /\ Stays
    BY <1>4, RowsKept DEF PutVideo, PutAudio, TypeInv
  <2>3. JobsOK'
    BY <1>4, <2>1, <2>2, WorkerMoves DEF PutVideo, PutAudio
  <2>4. worker[w].take \in Take
    BY <2>1, BusyWorker DEF Job
  <2>5. DataOK'
    BY <1>4, <2>4 DEF PutVideo, PutAudio, TypeInv, DataOK, ObjectStore
  <2> QED BY <1>4, <2>2, <2>3, <2>5, OthersKept DEF PutVideo, PutAudio, TypeInv
<1>5. CASE VideoReady(w) \/ SetAudio(w)
  <2>1. ~At(w, "idle")
    BY <1>5 DEF VideoReady, SetAudio, At
  <2>2. RowsOK' /\ Stays
    BY <1>5, RowsKept DEF VideoReady, SetAudio, TypeInv
  <2>3. JobsOK'
    BY <1>5, <2>1, <2>2, WorkerMoves DEF VideoReady, SetAudio
  <2>4. recs' \in [Sessions -> Recording]
    <3>1. recs \in [Sessions -> Recording]
      BY DEF TypeInv, DataOK
    <3>2. CASE VideoReady(w)
      BY <3>1, <3>2 DEF VideoReady, Recording
    <3>3. CASE SetAudio(w)
      BY <3>1, <3>3 DEF SetAudio, Recording
    <3> QED BY <1>5, <3>2, <3>3
  <2>5. DataOK'
    BY <1>5, <2>4 DEF VideoReady, SetAudio, TypeInv, DataOK
  <2> QED BY <1>5, <2>2, <2>3, <2>5, OthersKept DEF VideoReady, SetAudio, TypeInv
<1>6. CASE Enqueue(w) \/ EnqueueReplyLost(w)
  <2>1. ~At(w, "idle")
    BY <1>6 DEF Enqueue, EnqueueReplyLost, At
  <2>2. RowsOK' /\ Stays
    BY <1>6, RowsKept DEF Enqueue, EnqueueReplyLost, TypeInv
  <2>3. JobsOK'
    BY <1>6, <2>1, <2>2, WorkerMoves DEF Enqueue, EnqueueReplyLost
  <2>4. PICK r \in Runs : Accepted(w, r)
    BY <1>6 DEF Enqueue, EnqueueReplyLost
  <2>5. PICK audio \in Take :
          run' = [run EXCEPT ![r] = [pc |-> "start", task |-> TaskOf(w), audio |-> audio]]
    BY <2>1, <2>4, BusyWorker DEF Accepted, TypeInv, DataOK, ObjectStore, Job
  <2>6. /\ [pc |-> "start", task |-> TaskOf(w), audio |-> audio] \in Run
        /\ Inserted(TaskOf(w))
    BY <2>1, BusyWorker DEF Run, RunPC, TaskOf, Job
  <2>7. RunsOK'
    BY <2>2, <2>5, <2>6, RunChange DEF TypeInv
  <2>8. DataOK'
    BY <1>6, FaultType DEF Enqueue, EnqueueReplyLost, TypeInv, DataOK
  <2> QED BY <1>6, <2>2, <2>3, <2>7, <2>8, OthersKept DEF Enqueue, EnqueueReplyLost, TypeInv
<1>7. CASE Release(w) \/ Complete(w) \/ CleanupFails(w) \/ RecordFailure(w)
  <2>1. ~At(w, "idle")
    BY <1>7 DEF Release, Complete, CleanupFails, RecordFailure, At
  <2>2. /\ KeptRow(RowOf(w), Unlocked(RowOf(w)))
        /\ KeptRow(RowOf(w), Closed(RowOf(w), "COMPLETED"))
        /\ KeptRow(RowOf(w), FailureRecorded(RowOf(w), worker[w].seen))
    BY <2>1, BusyWorker, Statements DEF RowOf, Status, Terminal, Job
  <2>3. RowsOK' /\ Stays
    <3>1. \/ UNCHANGED tasks
          \/ \E new : KeptRow(RowOf(w), new) /\ tasks' = [tasks EXCEPT ![TaskOf(w)] = new]
      BY <1>7, <2>2 DEF Release, Complete, CleanupFails, RecordFailure, RowOf
    <3> QED BY <2>1, <3>1, BusyWorker, RowChange, RowsKept DEF TypeInv, RowOf
  <2>4. JobsOK'
    BY <1>7, <2>1, <2>3, WorkerMoves DEF Release, Complete, CleanupFails, RecordFailure
  <2>5. CASE Release(w) \/ Complete(w) \/ RecordFailure(w)
    BY <2>3, <2>4, <2>5, OthersKept DEF Release, Complete, RecordFailure, TypeInv
  <2>6. CASE CleanupFails(w)
    <3>1. DataOK'
      BY <2>6, FaultType DEF CleanupFails, TypeInv, DataOK
    <3> QED BY <2>3, <2>4, <2>6, <3>1, OthersKept DEF CleanupFails, TypeInv
  <2> QED BY <1>7, <2>5, <2>6
<1>8. CASE StageFails(w) \/ ReleaseFails(w) \/ Crash(w)
  <2>1. ~At(w, "idle")
    BY <1>8 DEF StageFails, ReleaseFails, Crash, At
  <2>2. RowsOK' /\ Stays
    BY <1>8, RowsKept DEF StageFails, ReleaseFails, Crash, TypeInv
  <2>3. JobsOK'
    BY <1>8, <2>1, <2>2, WorkerMoves DEF StageFails, ReleaseFails, Crash
  <2>4. DataOK'
    BY <1>8, FaultType DEF StageFails, ReleaseFails, Crash, TypeInv, DataOK
  <2> QED BY <1>8, <2>2, <2>3, <2>4, OthersKept DEF StageFails, ReleaseFails, Crash, TypeInv
<1>9. CASE Heartbeat(w)
  <2>1. RowsOK' /\ Stays
    BY <1>9, BusyWorker, Statements, RowChange DEF Heartbeat, TypeInv
  <2> QED BY <1>9, <2>1, OthersKept DEF Heartbeat, TypeInv
<1> QED BY <1>1, <1>2, <1>3, <1>4, <1>5, <1>6, <1>7, <1>8, <1>9
        DEF WorkerStep, HandlerStep

-----------------------------------------------------------------------------
(* The passing of leases, and the Python server.                            *)

LEMMA LeaseType ==
  ASSUME TypeInv, NEW t \in Tasks, LeaseRunsOut(t) \/ HeartbeatsLost(t)
  PROVE  TypeInv' /\ Stays
<1>1. tasks[t] \in TaskRow /\ tasks' = [tasks EXCEPT ![t] = [tasks[t] EXCEPT !.lease = "expired"]]
  BY DEF LeaseRunsOut, HeartbeatsLost, TypeInv, RowsOK
<1>2. RowsOK' /\ Stays
  BY <1>1 DEF TypeInv, RowsOK, TaskRow, Inserted, Stays
<1>3. DataOK'
  BY FaultType DEF LeaseRunsOut, HeartbeatsLost, TypeInv, DataOK
<1> QED BY <1>2, <1>3, OthersKept DEF LeaseRunsOut, HeartbeatsLost, TypeInv

LEMMA RunMoves ==
  ASSUME TypeInv, Stays, NEW r \in Runs
  PROVE  /\ EndRun(r) => RunsOK'
         /\ \A pc \in RunPC : ~RunAt(r, "free") /\ RunGoto(r, pc) => RunsOK'
<1>1. RunsOK
  BY DEF TypeInv
<1>2. EndRun(r) => RunsOK'
  BY <1>1, RunChange, JobTypes DEF EndRun, FreeRun
<1>3. ASSUME NEW pc \in RunPC, ~RunAt(r, "free"), RunGoto(r, pc)
      PROVE  RunsOK'
  <2> DEFINE new == [run[r] EXCEPT !.pc = pc]
  <2>1. new \in Run /\ Inserted(new.task) /\ run' = [run EXCEPT ![r] = new]
    BY <1>1, <1>3 DEF RunsOK, Run, RunAt, RunGoto, Inserted
  <2> QED BY <1>1, <2>1, RunChange
<1> QED BY <1>2, <1>3

\* What a run that is under way can rely on.
LEMMA BusyRun ==
  ASSUME TypeInv, NEW r \in Runs, ~RunAt(r, "free")
  PROVE  /\ Inserted(run[r].task) /\ SessionOf(run[r].task) \in Sessions
         /\ tasks[run[r].task] \in TaskRow /\ run[r].audio \in Take
BY DEF TypeInv, RunsOK, RowsOK, RunAt, Inserted, SessionOf, Run

LEMMA RunWrites ==
  ASSUME TypeInv, NEW r \in Runs, ~RunAt(r, "free")
  PROVE  /\ \A st \in Status : TaskSet(run[r].task, WithStatus(tasks[run[r].task], st))
                                => RowsOK' /\ Stays
         /\ \A st \in Status : TaskSet(run[r].task, Closed(tasks[run[r].task], st))
                                => RowsOK' /\ Stays
<1>1. /\ Inserted(run[r].task) /\ tasks[run[r].task] \in TaskRow
      /\ tasks[run[r].task].status # "ABSENT"
  BY BusyRun DEF Inserted
<1>2. ASSUME NEW row, KeptRow(tasks[run[r].task], row), TaskSet(run[r].task, row)
      PROVE  RowsOK' /\ Stays
  BY <1>1, <1>2, RowChange, RowsKept DEF TaskSet, TypeInv
<1> QED BY <1>1, <1>2, Statements

LEMMA RunType ==
  ASSUME TypeInv, NEW r \in Runs, RunStep(r)
  PROVE  TypeInv' /\ Stays
<1> USE DEF RunPC
<1>1. CASE RunStart(r) \/ RunSilent(r) \/ RunSummarizes(r) \/ RunFinish(r) \/ RunFails(r)
  <2>1. ~RunAt(r, "free")
    BY <1>1 DEF RunStart, RunSilent, RunSummarizes, RunFinish, RunLogs, RunFails, RunAt
  <2>2. RowsOK' /\ Stays
    BY <1>1, <2>1, RunWrites DEF RunStart, RunSilent, RunSummarizes, RunFinish, RunLogs, RunFails,
       Status, PythonOwned, Terminal
  <2>3. RunsOK'
    BY <1>1, <2>1, <2>2, RunMoves DEF RunStart, RunSilent, RunSummarizes, RunFinish, RunLogs, RunFails
  <2> QED BY <1>1, <2>2, <2>3, OthersKept
          DEF RunStart, RunSilent, RunSummarizes, RunFinish, RunLogs, RunFails, TypeInv
<1>2. CASE RunTranscribes(r) \/ RunSummary(r) \/ RunLogs(r)
  <2>1. ~RunAt(r, "free")
    BY <1>2 DEF RunTranscribes, RunSummary, RunLogs, RunAt
  <2>2. RowsOK' /\ Stays
    BY <1>2, RowsKept DEF RunTranscribes, RunSummary, RunLogs, TypeInv
  <2>3. RunsOK'
    BY <1>2, <2>1, <2>2, RunMoves DEF RunTranscribes, RunSummary, RunLogs
  <2>4. DataOK'
    BY <1>2, <2>1, BusyRun DEF RunTranscribes, RunSummary, RunLogs, RecordingSet, TypeInv, DataOK,
       Recording
  <2> QED BY <1>2, <2>2, <2>3, <2>4, OthersKept DEF RunTranscribes, RunSummary, RunLogs, TypeInv
<1> QED BY <1>1, <1>2 DEF RunStep

LEMMA RunUnrecordedType ==
  ASSUME TypeInv, NEW r \in Runs, RunUnrecorded(r)
  PROVE  TypeInv' /\ Stays
<1>1. RowsOK' /\ Stays
  BY RowsKept DEF RunUnrecorded, TypeInv
<1>2. RunsOK'
  BY <1>1, RunMoves DEF RunUnrecorded
<1>3. DataOK'
  BY FaultType DEF RunUnrecorded, TypeInv, DataOK
<1> QED BY <1>1, <1>2, <1>3, OthersKept DEF RunUnrecorded, TypeInv

LEMMA RestartType == ASSUME TypeInv, Restart PROVE TypeInv' /\ Stays
<1>1. PICK swept \in SUBSET {t \in Tasks : tasks[t].status \in PythonOwned} :
        tasks' = [t \in Tasks |-> IF t \in swept THEN Closed(tasks[t], "FAILED") ELSE tasks[t]]
  BY DEF Restart
<1>2. \A t \in swept : KeptRow(tasks[t], Closed(tasks[t], "FAILED"))
  BY Statements DEF TypeInv, RowsOK, PythonOwned, Status, Terminal
<1>3. RowsOK' /\ Stays
  <2>1. tasks \in [Tasks -> TaskRow] /\ \A t \in Tasks : Inserted(t) => tasks[t].session \in Sessions
    BY DEF TypeInv, RowsOK
  <2>2. \A t \in Tasks : \/ tasks'[t] = tasks[t]
                         \/ /\ KeptRow(tasks[t], tasks'[t])
                            /\ tasks[t].status \in PythonOwned
    BY <1>1, <1>2
  <2>3. tasks' \in [Tasks -> TaskRow]
    BY <1>1, <2>1, <2>2 DEF KeptRow
  <2> QED BY <2>1, <2>2, <2>3 DEF RowsOK, Stays, Inserted, KeptRow, PythonOwned
<1>4. RunsOK'
  BY JobTypes DEF Restart, RunsOK, FreeRun
<1>5. DataOK'
  BY FaultType DEF Restart, TypeInv, DataOK
<1> QED BY <1>3, <1>4, <1>5, OthersKept DEF Restart, TypeInv

-----------------------------------------------------------------------------
(* HTTP requests.                                                           *)

LEMMA RequestMoves ==
  ASSUME TypeInv, Stays, NEW q \in Requests
  PROVE  /\ Answer(q) => RequestsOK'
         /\ \A s \in Sessions, take \in Take, saw \in BOOLEAN,
               pc \in RequestPC \ OnTask :
               Remember(q, pc, s, take, saw) => RequestsOK'
         /\ \A pc \in RequestPC \ OnTask :
               request[q].session \in Sessions /\ Next_(q, pc) => RequestsOK'
         /\ \A pc \in OnTask :
               request[q].pc \in OnTask /\ Next_(q, pc) => RequestsOK'
         /\ \A pc \in OnTask, t \in Tasks :
               /\ Inserted(t)
               /\ request' = [request EXCEPT ![q].pc = pc, ![q].task = t]
               => RequestsOK'
<1>1. RequestsOK /\ DataOK
  BY DEF TypeInv
<1>2. Answer(q) => RequestsOK'
  BY <1>1, RequestChange, JobTypes DEF Answer, Answered, Unsent, Anchored, OnTask
<1>3. ASSUME NEW s \in Sessions, NEW take \in Take, NEW saw \in BOOLEAN,
             NEW pc \in RequestPC \ OnTask, Remember(q, pc, s, take, saw)
      PROVE  RequestsOK'
  <2> DEFINE new == [pc |-> pc, session |-> s, id |-> recs[s].id,
                     take |-> take, saw |-> saw, task |-> 0]
  <2>1. new \in Request /\ Anchored(new) /\ request' = [request EXCEPT ![q] = new]
    BY <1>1, <1>3 DEF DataOK, Recording, Request, Anchored, Remember
  <2> QED BY <1>1, <2>1, RequestChange
<1>4. ASSUME NEW pc \in RequestPC \ OnTask,
             request[q].session \in Sessions, Next_(q, pc)
      PROVE  RequestsOK'
  <2> DEFINE new == [request[q] EXCEPT !.pc = pc]
  <2>1. new \in Request /\ Anchored(new) /\ request' = [request EXCEPT ![q] = new]
    BY <1>1, <1>4 DEF RequestsOK, Request, Anchored, Next_
  <2> QED BY <1>1, <2>1, RequestChange
<1>5. ASSUME NEW pc \in OnTask, NEW t \in Tasks, Inserted(t),
             request' = [request EXCEPT ![q].pc = pc, ![q].task = t]
      PROVE  RequestsOK'
  <2> DEFINE new == [request[q] EXCEPT !.pc = pc, !.task = t]
  <2>1. new \in Request /\ new.pc = pc /\ new.task = t
    BY <1>1, PipelineAssumption DEF RequestsOK, Request, RequestPC, OnTask
  <2>2. Anchored(new)
    BY <1>5, <2>1 DEF Anchored
  <2>3. request' = [request EXCEPT ![q] = new]
    BY <1>1, <1>5 DEF RequestsOK
  <2> QED BY <1>1, <2>1, <2>2, <2>3, RequestChange
<1>6. ASSUME NEW pc \in OnTask, request[q].pc \in OnTask, Next_(q, pc)
      PROVE  RequestsOK'
  <2> DEFINE new == [request[q] EXCEPT !.pc = pc]
  <2>1. new \in Request /\ new.pc = pc /\ new.task = request[q].task
    BY <1>1 DEF RequestsOK, Request, RequestPC, OnTask
  <2>2. Inserted(request[q].task)
    BY <1>1, <1>6 DEF RequestsOK, Anchored
  <2>3. Anchored(new)
    BY <1>6, <2>1, <2>2 DEF Anchored, OnTask
  <2>4. request' = [request EXCEPT ![q] = new]
    BY <1>1, <1>6 DEF RequestsOK, Next_
  <2> QED BY <1>1, <2>1, <2>3, <2>4, RequestChange
<1> QED BY <1>2, <1>3, <1>4, <1>5, <1>6

\* What a handler past its first await can rely on.
LEMMA BusyRequest ==
  ASSUME TypeInv, NEW q \in Requests
  PROVE  /\ request[q] \in Request
         /\ request[q].pc \notin {"new", "done"} \cup OnTask =>
              request[q].session \in Sessions
         /\ request[q].pc \in OnTask =>
              /\ Inserted(request[q].task)
              /\ tasks[request[q].task] \in TaskRow
              /\ tasks[request[q].task].status # "ABSENT"
BY DEF TypeInv, RequestsOK, RowsOK, Anchored, Inserted

LEMMA RequestSentType ==
  ASSUME TypeInv, NEW q \in Requests, RequestSent(q)
  PROVE  TypeInv' /\ Stays
<1> USE DEF RequestPC, OnTask
<1>1. ASSUME NEW s \in Sessions,
             InitUpload(q, s) \/ CompleteRead(q, s) \/ AbortUpload(q, s)
               \/ ResetObjects(q, s) \/ RetryRead(q, s)
      PROVE  TypeInv' /\ Stays
  <2>1. RowsOK' /\ Stays
    BY <1>1, RowsKept DEF InitUpload, CompleteRead, AbortUpload, ResetObjects, RetryRead, TypeInv
  <2>2. recs[s] \in Recording /\ store[s] \in ObjectStore /\ store \in [Sessions -> ObjectStore]
    BY DEF TypeInv, DataOK
  <2>3. RequestsOK'
    <3>1. recs[s].raw \in Take /\ recs[s].upload \in BOOLEAN /\ recs[s].playbackKey \in BOOLEAN
          /\ store[s].newest + 1 \in Take /\ 0 \in Take
      BY <2>2 DEF Recording, ObjectStore, Take
    <3> QED BY <1>1, <2>1, <3>1, RequestMoves
            DEF InitUpload, CompleteRead, AbortUpload, ResetObjects, RetryRead
  <2>4. store' \in [Sessions -> ObjectStore]
    <3>1. CASE InitUpload(q, s)
      <4> DEFINE take == store[s].newest + 1
      <4>1. take \in Take /\ store[s].open \cup {take} \in SUBSET Take
        BY <2>2 DEF ObjectStore, Take
      <4> QED BY <2>2, <3>1, <4>1 DEF InitUpload, ObjectStore
    <3>2. CASE AbortUpload(q, s)
      <4>1. PICK open \in SUBSET Take :
              store' = [store EXCEPT ![s].open = open] \/ UNCHANGED store
        <5>1. /\ store[s].open \ {recs[s].raw} \in SUBSET Take
              /\ store[s].open \in SUBSET Take
          BY <2>2 DEF ObjectStore
        <5> QED BY <3>2, <5>1 DEF AbortUpload
      <4> QED BY <2>2, <4>1 DEF ObjectStore
    <3>3. CASE ResetObjects(q, s)
      <4>1. PICK aborted \in BOOLEAN, deleted \in BOOLEAN :
              store' = [store EXCEPT ![s] = Cleaned(store[s], recs[s], aborted, deleted)]
        BY <3>3 DEF ResetObjects
      <4>2. /\ store[s].open \ {recs[s].raw} \in SUBSET Take
            /\ store[s].raw \ {recs[s].raw} \in SUBSET Take
            /\ store[s].open \in SUBSET Take /\ store[s].raw \in SUBSET Take
            /\ 0 \in Take /\ store[s].mp4 \in Take /\ store[s].mp3 \in Take
        BY <2>2 DEF ObjectStore, Take
      <4> DEFINE open == IF aborted /\ recs[s].upload THEN store[s].open \ {recs[s].raw}
                         ELSE store[s].open
                 raw == IF deleted THEN store[s].raw \ {recs[s].raw} ELSE store[s].raw
                 mp4 == IF deleted /\ recs[s].playbackKey THEN 0 ELSE store[s].mp4
                 mp3 == IF deleted /\ recs[s].audioKey THEN 0 ELSE store[s].mp3
      <4>3. open \in SUBSET Take /\ raw \in SUBSET Take /\ mp4 \in Take /\ mp3 \in Take
        BY <4>2
      <4>4. Cleaned(store[s], recs[s], aborted, deleted)
              = [store[s] EXCEPT !.open = open, !.raw = raw, !.mp4 = mp4, !.mp3 = mp3]
        BY DEF Cleaned
      <4> HIDE DEF open, raw, mp4, mp3
      <4>5. Cleaned(store[s], recs[s], aborted, deleted) \in ObjectStore
        BY <2>2, <4>3, <4>4 DEF ObjectStore
      <4> QED BY <2>2, <4>1, <4>5
    <3>4. CASE UNCHANGED store
      BY <2>2, <3>4
    <3> QED BY <1>1, <3>1, <3>2, <3>3, <3>4 DEF CompleteRead, RetryRead
  <2>5. DataOK'
    BY <1>1, <2>4 DEF InitUpload, CompleteRead, AbortUpload, ResetObjects, RetryRead,
       TypeInv, DataOK
  <2> QED BY <1>1, <2>1, <2>3, <2>5, OthersKept
          DEF InitUpload, CompleteRead, AbortUpload, ResetObjects, RetryRead, TypeInv
<1>2. ASSUME NEW t \in Tasks, RearmRead(q, t) \/ CancelRead(q, t)
      PROVE  TypeInv' /\ Stays
  <2>1. RowsOK' /\ Stays
    BY <1>2, RowsKept DEF RearmRead, CancelRead, TypeInv
  <2>2. Inserted(t)
    BY <1>2 DEF RearmRead, CancelRead, Exists, Missing, Terminal, Inserted
  <2>3. RequestsOK'
    BY <1>2, <2>1, <2>2, RequestMoves DEF RearmRead, CancelRead
  <2> QED BY <1>2, <2>1, <2>3, OthersKept DEF RearmRead, CancelRead, TypeInv
<1> QED BY <1>1, <1>2 DEF RequestSent

LEMMA RequestGoesOnType ==
  ASSUME TypeInv, NEW q \in Requests, RequestGoesOn(q)
  PROVE  TypeInv' /\ Stays
<1> USE DEF RequestPC, OnTask
<1>1. request[q] \in Request
  BY BusyRequest
<1>2. CASE InitRow(q) \/ CompleteStatus(q) \/ AbortRow(q) \/ RetryRow(q)
  <2>1. RowsOK' /\ Stays
    BY <1>2, RowsKept DEF InitRow, CompleteStatus, AbortRow, RetryRow, TypeInv
  <2>2. request[q].session \in Sessions
    BY <1>2, BusyRequest DEF InitRow, CompleteStatus, AbortRow, RetryRow
  <2>3. RequestsOK'
    BY <1>2, <2>1, <2>2, RequestMoves DEF InitRow, CompleteStatus, AbortRow, RetryRow
  <2>4. recs' \in [Sessions -> Recording]
    <3>1. recs \in [Sessions -> Recording] /\ request[q].take \in Take
      BY <1>1 DEF TypeInv, DataOK, Request
    <3>2. CASE InitRow(q)
      <4> DEFINE s == request[q].session
                 id == IF recs[s].id = 0 THEN request[q].take ELSE recs[s].id
      <4>1. id \in Nat
        BY <2>2, <3>1 DEF Recording, Take
      <4>2. recs' = [recs EXCEPT ![s] = [recs[s] EXCEPT
                       !.status = "UPLOADING", !.id = id, !.raw = request[q].take,
                       !.upload = TRUE, !.playbackKey = FALSE]]
        BY <2>2, <3>1, <3>2 DEF InitRow
      <4>3. [recs[s] EXCEPT !.status = "UPLOADING", !.id = id, !.raw = request[q].take,
                            !.upload = TRUE, !.playbackKey = FALSE] \in Recording
        BY <2>2, <3>1, <4>1 DEF Recording
      <4> HIDE DEF s, id
      <4> QED BY <3>1, <4>2, <4>3
    <3>3. CASE CompleteStatus(q)
      BY <3>1, <3>3 DEF CompleteStatus, Recording
    <3>4. CASE AbortRow(q)
      BY <3>1, <3>4 DEF AbortRow, Recording
    <3>5. CASE RetryRow(q)
      <4> DEFINE s == request[q].session
      <4>1. PICK st \in {"READY", "PROCESSING"} :
              recs' = [recs EXCEPT ![s].status = st, ![s].autoSummary = 0]
        BY <3>5 DEF RetryRow
      <4> QED BY <3>1, <4>1 DEF Recording, Take
    <3> QED BY <1>2, <3>2, <3>3, <3>4, <3>5
  <2>5. DataOK'
    BY <1>2, <2>4 DEF InitRow, CompleteStatus, AbortRow, RetryRow, TypeInv, DataOK
  <2> QED BY <1>2, <2>1, <2>3, <2>5, OthersKept
          DEF InitRow, CompleteStatus, AbortRow, RetryRow, TypeInv
<1>3. CASE InitSession(q) \/ CompleteSession(q) \/ ResetSession(q) \/ RequestFails(q)
  <2>1. RowsOK' /\ Stays
    BY <1>3, RowsKept DEF InitSession, CompleteSession, ResetSession, RequestFails, TypeInv
  <2>2. RequestsOK'
    BY <1>3, <2>1, RequestMoves DEF InitSession, CompleteSession, ResetSession, RequestFails
  <2>3. DataOK'
    BY <1>3 DEF InitSession, CompleteSession, ResetSession, RequestFails, TypeInv, DataOK
  <2> QED BY <1>3, <2>1, <2>2, <2>3, OthersKept
          DEF InitSession, CompleteSession, ResetSession, RequestFails, TypeInv
<1>4. CASE CompleteUpload(q)
  <2>1. RowsOK' /\ Stays
    BY <1>4, RowsKept DEF CompleteUpload, TypeInv
  <2>2. request[q].session \in Sessions /\ request[q].take \in Take
    BY <1>1, <1>4, BusyRequest DEF CompleteUpload, Request
  <2>3. RequestsOK'
    BY <1>4, <2>1, <2>2, RequestMoves DEF CompleteUpload
  <2>4. store' \in [Sessions -> ObjectStore]
    <3> DEFINE s == request[q].session
               take == request[q].take
    <3>1. /\ store \in [Sessions -> ObjectStore]
          /\ store[s].open \ {take} \in SUBSET Take /\ store[s].raw \cup {take} \in SUBSET Take
      BY <2>2 DEF TypeInv, DataOK, ObjectStore
    <3>2. CASE UNCHANGED store
      BY <3>1, <3>2
    <3>3. CASE store' = [store EXCEPT ![s].open = @ \ {take}, ![s].raw = @ \cup {take}]
      BY <3>1, <3>3 DEF ObjectStore
    <3> QED BY <1>4, <3>2, <3>3 DEF CompleteUpload
  <2>5. DataOK'
    BY <1>4, <2>4 DEF CompleteUpload, TypeInv, DataOK
  <2> QED BY <1>4, <2>1, <2>3, <2>5, OthersKept DEF CompleteUpload, TypeInv
<1>5. CASE CompleteTask(q) \/ RetryTask(q)
  <2>1. request[q].session \in Sessions
    BY <1>5, BusyRequest DEF CompleteTask, RetryTask
  <2>2. PICK t \in Tasks : /\ tasks[t].status = "ABSENT"
                           /\ tasks' = [tasks EXCEPT ![t] = Created(request[q].session)]
    BY <1>5 DEF CompleteTask, RetryTask, CreateTask
  <2>3. /\ Created(request[q].session) \in TaskRow
        /\ Created(request[q].session).status = "PENDING"
        /\ Created(request[q].session).session = request[q].session
    BY <2>1, RowTypes DEF Created, NoRow
  <2>4. RowsOK' /\ Stays
    BY <2>1, <2>2, <2>3 DEF TypeInv, RowsOK, Stays, Inserted
  <2>5. RequestsOK'
    BY <1>5, <2>1, <2>4, RequestMoves DEF CompleteTask, RetryTask
  <2> QED BY <1>5, <2>4, <2>5, OthersKept DEF CompleteTask, RetryTask, TypeInv
<1>6. CASE ResetRow(q)
  <2> DEFINE s == request[q].session
  <2>1. s \in Sessions
    BY <1>6, BusyRequest DEF ResetRow
  <2>2. \A t \in Tasks : Exists(t) => KeptRow(tasks[t], Closed(tasks[t], "DELETED"))
    BY Statements DEF Exists, Missing, TypeInv, RowsOK
  <2>3. RowsOK' /\ Stays
    <3>1. tasks \in [Tasks -> TaskRow] /\ \A t \in Tasks : Inserted(t) => tasks[t].session \in Sessions
      BY DEF TypeInv, RowsOK
    <3>2. \A t \in Tasks : tasks'[t] = tasks[t] \/ (Exists(t) /\ KeptRow(tasks[t], tasks'[t]))
      BY <1>6, <2>2 DEF ResetRow
    <3>3. tasks' \in [Tasks -> TaskRow]
      <4> DEFINE row(t) == IF Exists(t) /\ tasks[t].session = s
                           THEN Closed(tasks[t], "DELETED") ELSE tasks[t]
      <4>1. \A t \in Tasks : row(t) \in TaskRow
        BY <2>2, <3>1 DEF KeptRow
      <4>2. tasks' = [t \in Tasks |-> row(t)]
        BY <1>6 DEF ResetRow
      <4> HIDE DEF row
      <4> QED BY <4>1, <4>2
    <3> QED BY <3>1, <3>2, <3>3 DEF RowsOK, Stays, Inserted, KeptRow, Exists, Missing
  <2>4. RequestsOK'
    BY <1>6, <2>1, <2>3, RequestMoves DEF ResetRow
  <2>5. DataOK'
    BY <1>6, DataTypes DEF ResetRow, TypeInv, DataOK
  <2> QED BY <1>6, <2>3, <2>4, <2>5, OthersKept DEF ResetRow, TypeInv
<1>7. CASE RearmRow(q) \/ CancelRow(q)
  <2> DEFINE t == request[q].task
  <2>1. Inserted(t) /\ tasks[t] \in TaskRow /\ tasks[t].status # "ABSENT"
    BY <1>7, BusyRequest DEF RearmRow, CancelRow
  <2>2. KeptRow(tasks[t], WithStatus(tasks[t], "PENDING")) /\ KeptRow(tasks[t], Closed(tasks[t], "CANCELED"))
    BY <2>1, Statements DEF Status, Terminal
  <2>3. RowsOK' /\ Stays
    BY <1>7, <2>1, <2>2, RowChange DEF RearmRow, CancelRow, TypeInv
  <2>4. RequestsOK'
    BY <1>7, <2>3, RequestMoves DEF RearmRow, CancelRow
  <2> QED BY <1>7, <2>3, <2>4, OthersKept DEF RearmRow, CancelRow, TypeInv
<1>8. CASE RearmPayload(q)
  <2> DEFINE t == request[q].task
  <2>1. Inserted(t) /\ tasks[t] \in TaskRow /\ tasks[t].status # "ABSENT"
    BY <1>8, BusyRequest DEF RearmPayload
  <2>2. PICK push \in BOOLEAN : tasks' = [tasks EXCEPT ![t] = [tasks[t] EXCEPT !.push = push]]
    BY <1>8, <2>1 DEF RearmPayload, TypeInv, RowsOK
  <2>3. KeptRow(tasks[t], [tasks[t] EXCEPT !.push = push])
    BY <2>1 DEF KeptRow, TaskRow
  <2> HIDE DEF t
  <2>4. RowsOK' /\ Stays
    BY <2>1, <2>2, <2>3, RowChange DEF TypeInv
  <2>5. RequestsOK'
    BY <1>8, <2>4, RequestMoves DEF RearmPayload
  <2> QED BY <1>8, <2>4, <2>5, OthersKept DEF RearmPayload, TypeInv
<1> QED BY <1>2, <1>3, <1>4, <1>5, <1>6, <1>7, <1>8 DEF RequestGoesOn

-----------------------------------------------------------------------------
LEMMA TypeNext == TypeInv /\ [Next]_vars => TypeInv' /\ Stays
<1> SUFFICES ASSUME TypeInv, [Next]_vars PROVE TypeInv' /\ Stays
  OBVIOUS
<1>1. CASE Next
  BY <1>1, WorkerType, LeaseType, RunType, RunUnrecordedType, RestartType, RequestSentType, RequestGoesOnType
     DEF Next, RequestStep
<1>2. CASE UNCHANGED vars
  BY <1>2, RowsKept, OthersKept DEF vars, TypeInv
<1> QED BY <1>1, <1>2

\* Every reachable state of the pipeline is typed: no interleaving of
\* workers, runs and requests takes a row, an object or a process out of its
\* type (a status outside the enumeration, attempts above maxAttempts).
THEOREM TypeCorrect == Spec => []TypeOK
<1>1. TypeInv => TypeOK
  BY TypeInvType
<1> QED BY <1>1, TypeInit, TypeNext, PTL DEF Spec

-----------------------------------------------------------------------------
(***************************************************************************)
(* What every reachable state of the pipeline says of a recording's        *)
(* artefacts, for clients that complete, abort, retry, re-arm and cancel   *)
(* as they like but do not start over on a session (no "init", no          *)
(* "reset"), for any number of processes and under every fault.            *)
(*                                                                         *)
(* HandedOffHasMedia speaks of task rows.  It is not inductive: a worker's *)
(* right to hand over rests on the stages it went through or, since its    *)
(* snapshot said so, skipped; a run's on the worker that handed over; a    *)
(* READY status on what a retry request saw.  MediaInv says all of it, and *)
(* with it each step of the pipeline is one of Artefacts.                  *)
(***************************************************************************)

NoStartingOver == RequestKinds \cap {"init", "reset"} = {}

RecordingMedia(s) ==
  /\ recs[s].status = "READY" => recs[s].playbackKey
  /\ recs[s].playbackKey => store[s].mp4 # 0
  /\ recs[s].audioKey => recs[s].playbackKey /\ store[s].mp3 # 0
  /\ recs[s].transcript # 0 => recs[s].audioKey
  /\ recs[s].autoSummary # 0 => recs[s].transcript # 0

\* What worker w, busy for session s, has behind it.
WorkerMedia(w, s) ==
  /\ worker[w].mp4 => recs[s].playbackKey
  /\ worker[w].audio => recs[s].audioKey
  /\ worker[w].done => recs[s].transcript # 0
  /\ worker[w].pc \notin {"idle", "begin", "record"} => worker[w].take # 0
  /\ worker[w].pc \in {"thumbnail", "videoReady"} => store[s].mp4 # 0
  /\ worker[w].pc \in {"extract", "upload", "putAudio", "setAudio"} => recs[s].playbackKey
  /\ worker[w].pc = "setAudio" => store[s].mp3 # 0
  /\ worker[w].pc \in {"handOff", "enqueue", "release", "complete"} => recs[s].audioKey

RunMedia(r, s) ==
  /\ recs[s].audioKey /\ run[r].audio # 0
  /\ run[r].pc \in {"summarize", "llm", "finish"} => recs[s].transcript # 0

RequestMedia(q) ==
  /\ request[q].pc \notin {"initRow", "resetRow"}
  /\ request[q].pc = "retryRow" /\ request[q].saw => recs[request[q].session].playbackKey

RowMedia(t) ==
  /\ tasks[t].status # "DELETED"
  /\ tasks[t].status \in PythonOwned \cup {"COMPLETED"} => recs[SessionOf(t)].audioKey

MediaInv ==
  /\ \A s \in Sessions : RecordingMedia(s)
  /\ \A w \in Workers : worker[w].pc # "idle" => WorkerMedia(w, SessionOf(TaskOf(w)))
  /\ \A r \in Runs : run[r].pc # "free" => RunMedia(r, SessionOf(run[r].task))
  /\ \A q \in Requests : RequestMedia(q)
  /\ \A t \in Tasks : RowMedia(t)

LEMMA MediaImplies == TypeInv /\ MediaInv => HandedOffHasMedia /\ ReadyIsPlayable
<1> SUFFICES ASSUME TypeInv, MediaInv PROVE HandedOffHasMedia /\ ReadyIsPlayable
  OBVIOUS
<1>1. ReadyIsPlayable
  BY DEF MediaInv, RecordingMedia, ReadyIsPlayable
<1>2. ASSUME NEW t \in Tasks, tasks[t].status \in PythonOwned \cup {"COMPLETED"}
      PROVE  SessionOf(t) \in Sessions /\ recs[SessionOf(t)].audioKey
  BY <1>2 DEF TypeInv, RowsOK, Inserted, MediaInv, RowMedia, SessionOf, PythonOwned
<1> QED BY <1>1, <1>2 DEF HandedOffHasMedia, MediaInv, RecordingMedia

LEMMA MediaInit == Init => MediaInv
<1> SUFFICES ASSUME Init PROVE MediaInv
  OBVIOUS
<1>1. \A s \in Sessions :
        /\ recs[s].status # "READY" /\ ~recs[s].playbackKey /\ ~recs[s].audioKey
        /\ recs[s].transcript = 0 /\ recs[s].autoSummary = 0
  BY DEF Init, Uploading, NoRecording
<1>2. /\ \A w \in Workers : worker[w].pc = "idle"
      /\ \A r \in Runs : run[r].pc = "free"
      /\ \A q \in Requests : request[q].pc = "new"
      /\ \A t \in Tasks : tasks[t].status = "ABSENT"
  BY DEF Init, Idle, FreeRun, Unsent, NoRow
<1> QED BY <1>1, <1>2 DEF MediaInv, RecordingMedia, RequestMedia, RowMedia, PythonOwned

-----------------------------------------------------------------------------
(* What was published stays: no step takes an artefact away but the summary. *)

Grows ==
  \A s \in Sessions :
    /\ recs[s].playbackKey => recs'[s].playbackKey
    /\ recs[s].audioKey => recs'[s].audioKey
    /\ recs[s].transcript # 0 => recs'[s].transcript # 0
    /\ store[s].mp4 # 0 => store'[s].mp4 # 0
    /\ store[s].mp3 # 0 => store'[s].mp3 # 0

\* What holds of a part of the state that a step leaves alone, when what it
\* rests on grows.
LEMMA MediaFrame ==
  ASSUME TypeInv, MediaInv, Stays, Grows
  PROVE  /\ \A w \in Workers : worker'[w] = worker[w] /\ worker[w].pc # "idle" =>
              WorkerMedia(w, SessionOf(TaskOf(w)))'
         /\ \A r \in Runs : run'[r] = run[r] /\ run[r].pc # "free" =>
              RunMedia(r, SessionOf(run[r].task))'
         /\ NoStartingOver => \A q \in Requests : request'[q] = request[q] => RequestMedia(q)'
         /\ \A t \in Tasks : tasks'[t].status = tasks[t].status => RowMedia(t)'
<1>1. ASSUME NEW w \in Workers, worker'[w] = worker[w], worker[w].pc # "idle"
      PROVE  WorkerMedia(w, SessionOf(TaskOf(w)))'
  <2> DEFINE s == SessionOf(TaskOf(w))
  <2>1. s \in Sessions /\ SessionOf(TaskOf(w))' = s
    BY <1>1, BusyWorker DEF At, Stays, SessionOf, TaskOf, Inserted
  <2>2. WorkerMedia(w, s)
    BY <1>1 DEF MediaInv
  <2> QED BY <1>1, <2>1, <2>2 DEF WorkerMedia, Grows
<1>2. ASSUME NEW r \in Runs, run'[r] = run[r], run[r].pc # "free"
      PROVE  RunMedia(r, SessionOf(run[r].task))'
  <2> DEFINE s == SessionOf(run[r].task)
  <2>1. s \in Sessions /\ SessionOf(run[r].task)' = s
    BY <1>2, BusyRun DEF RunAt, Stays, SessionOf, Inserted
  <2>2. RunMedia(r, s)
    BY <1>2 DEF MediaInv
  <2> QED BY <1>2, <2>1, <2>2 DEF RunMedia, Grows
<1>3. ASSUME NEW q \in Requests, request'[q] = request[q]
      PROVE  RequestMedia(q)'
  BY <1>3, BusyRequest DEF OnTask, MediaInv, RequestMedia, Grows
<1>4. ASSUME NEW t \in Tasks, tasks'[t].status = tasks[t].status
      PROVE  RowMedia(t)'
  BY <1>4 DEF MediaInv, RowMedia, PythonOwned, TypeInv, RowsOK, Inserted, Stays, SessionOf, Grows
<1> QED BY <1>1, <1>2, <1>3, <1>4

LEMMA Unchanged ==
  ASSUME TypeInv, MediaInv, Stays, UNCHANGED recs, UNCHANGED store
  PROVE  Grows /\ \A s \in Sessions : RecordingMedia(s)'
BY DEF Grows, MediaInv, RecordingMedia

-----------------------------------------------------------------------------
(* Workers.                                                                 *)

\* A worker that goes on to pc, on the same task, knowing what it knew.
LEMMA WorkerGoesOn ==
  ASSUME TypeInv, MediaInv, Stays, Grows, NEW w \in Workers, ~At(w, "idle"),
         NEW pc \in WorkerPC, Goto(w, pc)
  PROVE  LET s == SessionOf(TaskOf(w))
         IN /\ s \in Sessions /\ WorkerMedia(w, s) /\ SessionOf(TaskOf(w))' = s
            /\ worker'[w].pc = pc /\ worker'[w].take = worker[w].take
            /\ worker'[w].mp4 => recs'[s].playbackKey
            /\ worker'[w].audio => recs'[s].audioKey
            /\ worker'[w].done => recs'[s].transcript # 0
<1> DEFINE s == SessionOf(TaskOf(w))
<1>1. worker'[w] = [worker[w] EXCEPT !.pc = pc]
  BY DEF Goto, TypeInv, JobsOK
<1>2. worker[w] \in Job
  BY BusyWorker
<1>3. /\ worker'[w].task = worker[w].task /\ worker'[w].mp4 = worker[w].mp4
      /\ worker'[w].audio = worker[w].audio /\ worker'[w].done = worker[w].done
      /\ worker'[w].pc = pc /\ worker'[w].take = worker[w].take
  BY <1>1, <1>2 DEF Job
<1>4. s \in Sessions /\ SessionOf(TaskOf(w))' = s
  BY <1>3, BusyWorker DEF Stays, SessionOf, TaskOf, Inserted
<1>5. WorkerMedia(w, s)
  BY DEF MediaInv, At
<1> QED BY <1>3, <1>4, <1>5 DEF WorkerMedia, Grows

\* A worker's step that leaves recordings and objects alone.
LEMMA WorkerOnly ==
  ASSUME TypeInv, MediaInv, NoStartingOver, Stays, NEW w \in Workers,
         UNCHANGED <<recs, store, run, request>>,
         \A v \in Workers \ {w} : worker'[v] = worker[v],
         worker'[w].pc # "idle" => WorkerMedia(w, SessionOf(TaskOf(w)))',
         \A t \in Tasks : RowMedia(t)'
  PROVE  MediaInv'
<1>1. Grows /\ \A s \in Sessions : RecordingMedia(s)'
  BY Unchanged
<1>2. \A v \in Workers : worker'[v].pc # "idle" => WorkerMedia(v, SessionOf(TaskOf(v)))'
  BY <1>1, MediaFrame
<1>3. \A r \in Runs : run'[r].pc # "free" => RunMedia(r, SessionOf(run[r].task))'
  BY <1>1, MediaFrame
<1>4. \A q \in Requests : RequestMedia(q)'
  BY <1>1, MediaFrame
<1> QED BY <1>1, <1>2, <1>3, <1>4 DEF MediaInv

LEMMA RowsUnchanged ==
  ASSUME TypeInv, MediaInv, Stays, Grows, UNCHANGED tasks
  PROVE  \A t \in Tasks : RowMedia(t)'
BY MediaFrame

LEMMA OthersStay ==
  ASSUME TypeInv, NEW w \in Workers
  PROVE  /\ \A pc \in WorkerPC : Goto(w, pc) => \A v \in Workers \ {w} : worker'[v] = worker[v]
         /\ GoIdle(w) \/ Throw(w) => \A v \in Workers \ {w} : worker'[v] = worker[v]
         /\ GoIdle(w) => worker'[w] = Idle
         /\ Throw(w) => worker'[w].pc \in {"idle", "record"}
<1>1. worker \in [Workers -> Job] /\ worker[w] \in Job /\ Idle.pc = "idle"
  BY DEF TypeInv, JobsOK, Idle
<1>2. \A job : worker' = [worker EXCEPT ![w] = job] =>
                /\ worker'[w] = job
                /\ \A v \in Workers \ {w} : worker'[v] = worker[v]
  BY <1>1
<1>3. ASSUME NEW pc \in WorkerPC, Goto(w, pc)
      PROVE  \A v \in Workers \ {w} : worker'[v] = worker[v]
  BY <1>1, <1>3 DEF Goto
<1>4. GoIdle(w) => worker'[w] = Idle /\ \A v \in Workers \ {w} : worker'[v] = worker[v]
  BY <1>2 DEF GoIdle
<1>5. ASSUME Throw(w)
      PROVE  worker'[w].pc \in {"idle", "record"} /\ \A v \in Workers \ {w} : worker'[v] = worker[v]
  <2> DEFINE job == [worker[w] EXCEPT !.pc = "record", !.seen = RowOf(w).attempts]
  <2>1. job.pc = "record"
    BY <1>1 DEF Job
  <2>2. worker' = [worker EXCEPT ![w] = job] \/ worker' = [worker EXCEPT ![w] = Idle]
    BY <1>5 DEF Throw
  <2> HIDE DEF job
  <2> QED BY <1>1, <1>2, <2>1, <2>2
<1> QED BY <1>3, <1>4, <1>5

LEMMA ThrowMedia ==
  ASSUME TypeInv, MediaInv, Stays, Grows, NEW w \in Workers, ~At(w, "idle"), Throw(w)
  PROVE  worker'[w].pc # "idle" => WorkerMedia(w, SessionOf(TaskOf(w)))'
<1> SUFFICES ASSUME worker'[w].pc # "idle" PROVE WorkerMedia(w, SessionOf(TaskOf(w)))'
  OBVIOUS
<1> DEFINE s == SessionOf(TaskOf(w))
<1>1. worker[w] \in Job
  BY BusyWorker
<1>2. worker'[w] = [worker[w] EXCEPT !.pc = "record", !.seen = RowOf(w).attempts]
  BY DEF Throw, TypeInv, JobsOK, Idle
<1>3. /\ worker'[w].pc = "record"
      /\ worker'[w].task = worker[w].task /\ worker'[w].mp4 = worker[w].mp4
      /\ worker'[w].audio = worker[w].audio /\ worker'[w].done = worker[w].done
  BY <1>1, <1>2 DEF Job
<1>4. s \in Sessions /\ SessionOf(TaskOf(w))' = s
  BY <1>3, BusyWorker DEF Stays, SessionOf, TaskOf, Inserted
<1>5. WorkerMedia(w, s)
  BY DEF MediaInv, At
<1> QED BY <1>3, <1>4, <1>5 DEF WorkerMedia, Grows

\* A statement on the worker's row, with the status it is left in.
LEMMA RowMediaChange ==
  ASSUME TypeInv, MediaInv, Stays, Grows, NEW t, Inserted(t), NEW new,
         tasks' = [tasks EXCEPT ![t] = new], new.status # "DELETED",
         new.status \in PythonOwned \cup {"COMPLETED"} =>
           new.status = tasks[t].status \/ recs'[SessionOf(t)].audioKey
  PROVE  \A u \in Tasks : RowMedia(u)'
<1> SUFFICES ASSUME NEW u \in Tasks PROVE RowMedia(u)'
  OBVIOUS
<1>1. CASE u # t
  BY <1>1, MediaFrame DEF Inserted, TypeInv, RowsOK
<1>2. CASE u = t
  <2>1. tasks'[u].status = new.status /\ SessionOf(u)' = SessionOf(t)
    BY <1>2 DEF Inserted, TypeInv, RowsOK, Stays, SessionOf
  <2>2. tasks[t].status = new.status => RowMedia(u)'
    BY <1>2, <2>1, MediaFrame
  <2> QED BY <1>2, <2>1, <2>2 DEF RowMedia
<1> QED BY <1>1, <1>2

LEMMA UpdateStatusMedia ==
  ASSUME TypeInv, MediaInv, NoStartingOver, Stays, NEW w \in Workers, NEW pc, pc # "idle",
         NEW st \in Status, NEW next \in WorkerPC, UpdateStatus(w, pc, st, next),
         LET s == SessionOf(TaskOf(w))
         IN /\ st = "COMPLETED" \/ st \in PythonOwned => recs[s].audioKey
            /\ next \notin {"idle", "begin", "record"} => worker[w].take # 0
            /\ next \in {"thumbnail", "videoReady"} => store[s].mp4 # 0
            /\ next \in {"extract", "upload", "putAudio", "setAudio"} => recs[s].playbackKey
            /\ next = "setAudio" => store[s].mp3 # 0
            /\ next \in {"handOff", "enqueue", "release", "complete"} => recs[s].audioKey
  PROVE  MediaInv'
<1> DEFINE s == SessionOf(TaskOf(w))
<1>1. ~At(w, "idle") /\ Goto(w, next) /\ UNCHANGED <<recs, store, run, request>>
  BY DEF UpdateStatus, At
<1>2. Grows
  BY <1>1, Unchanged
<1>3. WorkerMedia(w, s)'
  BY <1>1, <1>2, WorkerGoesOn DEF WorkerMedia
<1>4. SessionOf(TaskOf(w))' = s
  BY <1>1, <1>2, WorkerGoesOn
<1>5. \A t \in Tasks : RowMedia(t)'
  <2>1. Inserted(TaskOf(w)) /\ tasks' = [tasks EXCEPT ![TaskOf(w)] = WithStatus(tasks[TaskOf(w)], st)]
    BY <1>1, BusyWorker DEF UpdateStatus
  <2>2. WithStatus(tasks[TaskOf(w)], st).status = st /\ st # "DELETED"
    BY <1>1, BusyWorker DEF WithStatus, TaskRow, Status, NodeOwned, PythonOwned, Terminal
  <2> QED BY <1>1, <1>2, <2>1, <2>2, RowMediaChange
<1>6. \A v \in Workers \ {w} : worker'[v] = worker[v]
  BY <1>1, OthersStay
<1> QED BY <1>1, <1>3, <1>4, <1>5, <1>6, WorkerOnly

LEMMA WorkerMediaStep ==
  ASSUME TypeInv, MediaInv, NoStartingOver, Stays, NEW w \in Workers, WorkerStep(w)
  PROVE  MediaInv'
<1> DEFINE s == SessionOf(TaskOf(w))
<1> USE DEF WorkerPC
<1>w. ~At(w, "idle") => s \in Sessions /\ WorkerMedia(w, s) /\ RecordingMedia(s) /\ worker[w] \in Job
  BY BusyWorker DEF MediaInv, At
<1>1. CASE Claim(w)
  <2>1. PICK t \in Tasks :
          /\ Runnable(tasks[t])
          /\ tasks' = [tasks EXCEPT ![t] = Claimed(tasks[t], w)]
          /\ worker' = [worker EXCEPT ![w] = [Idle EXCEPT !.pc = "begin", !.task = t,
                                                         !.push = tasks[t].push]]
    BY <1>1 DEF Claim
  <2>2. UNCHANGED <<recs, store, run, request>> /\ Grows
    BY <1>1, Unchanged DEF Claim
  <2>3. /\ worker'[w] = [Idle EXCEPT !.pc = "begin", !.task = t, !.push = tasks[t].push]
        /\ \A v \in Workers \ {w} : worker'[v] = worker[v]
    BY <2>1 DEF TypeInv, JobsOK
  <2>4. WorkerMedia(w, SessionOf(TaskOf(w)))'
    <3>1. /\ worker'[w].pc = "begin" /\ ~worker'[w].mp4 /\ ~worker'[w].audio /\ ~worker'[w].done
      BY <2>3 DEF Idle
    <3> QED BY <3>1 DEF WorkerMedia
  <2>5. Inserted(t) /\ Claimed(tasks[t], w).status = "CLAIMED"
    BY <2>1 DEF Runnable, NodeOwned, Inserted, Claimed, TypeInv, RowsOK, TaskRow
  <2>6. \A u \in Tasks : RowMedia(u)'
    BY <2>1, <2>2, <2>5, RowMediaChange DEF PythonOwned
  <2> QED BY <2>2, <2>3, <2>4, <2>6, WorkerOnly
<1>2. CASE Begin(w)
  <2> DEFINE rec == recs[s]
             done == rec.transcript # 0 /\ rec.autoSummary # 0
             pc == IF ~rec.playbackKey THEN "transcode"
                   ELSE IF done THEN "complete" ELSE "extract"
             job == [worker[w] EXCEPT !.take = rec.raw, !.mp4 = rec.playbackKey,
                                      !.audio = rec.audioKey, !.done = done, !.pc = pc]
  <2>1. ~At(w, "idle") /\ UNCHANGED <<tasks, recs, store, run, request>>
    BY <1>2 DEF Begin, At
  <2>2. worker' = [worker EXCEPT ![w] = job] /\ rec.raw # 0
    BY <1>2 DEF Begin, TypeInv, JobsOK
  <2>3. /\ worker'[w] = job
        /\ \A v \in Workers \ {w} : worker'[v] = worker[v]
    BY <2>2 DEF TypeInv, JobsOK
  <2>4. /\ job.take = rec.raw /\ job.mp4 = rec.playbackKey /\ job.audio = rec.audioKey
        /\ job.done = done /\ job.pc = pc /\ job.task = worker[w].task
    BY <1>w, <2>1 DEF Job
  <2>5. SessionOf(TaskOf(w))' = s
    BY <2>1, <2>3, <2>4 DEF SessionOf, TaskOf
  <2>6. WorkerMedia(w, SessionOf(TaskOf(w)))'
    <3>1. /\ pc \in {"transcode", "complete", "extract"}
          /\ pc = "complete" => rec.audioKey
          /\ pc = "extract" => rec.playbackKey
      BY <1>w, <2>1 DEF RecordingMedia
    <3>2. done => rec.transcript # 0
      OBVIOUS
    <3> HIDE DEF pc, done, job
    <3> QED BY <2>1, <2>2, <2>3, <2>4, <2>5, <3>1, <3>2 DEF WorkerMedia
  <2>7. \A t \in Tasks : RowMedia(t)'
    BY <2>1, Unchanged, RowsUnchanged
  <2> QED BY <2>1, <2>3, <2>6, <2>7, WorkerOnly
<1>3. CASE Transcode(w) \/ Thumbnail(w) \/ Extract(w) \/ Upload(w) \/ HandOff(w)
  <2>1. ~At(w, "idle")
    BY <1>3 DEF Transcode, Thumbnail, Extract, Upload, HandOff, UpdateStatus, At
  <2> USE <1>w, <2>1, UpdateStatusMedia
      DEF UpdateStatus, At, WorkerMedia, RecordingMedia, Status, NodeOwned, PythonOwned
  <2>2. CASE Transcode(w) BY <2>2 DEF Transcode
  <2>3. CASE Thumbnail(w) BY <2>3 DEF Thumbnail
  <2>4. CASE Extract(w) BY <2>4 DEF Extract
  <2>5. CASE Upload(w) BY <2>5 DEF Upload
  <2>6. CASE HandOff(w) BY <2>6 DEF HandOff
  <2> QED BY <1>3, <2>2, <2>3, <2>4, <2>5, <2>6
<1>4. CASE PutVideo(w) \/ PutAudio(w)
  <2>1. /\ ~At(w, "idle") /\ UNCHANGED <<tasks, recs, run, request>>
        /\ Goto(w, "thumbnail") \/ Goto(w, "setAudio")
    BY <1>4 DEF PutVideo, PutAudio, At
  <2>2. s \in Sessions /\ worker[w].take # 0
    BY <1>w, <1>4, <2>1 DEF WorkerMedia, PutVideo, PutAudio, At
  <2>3. \/ store' = [store EXCEPT ![s].mp4 = worker[w].take]
        \/ store' = [store EXCEPT ![s].mp3 = worker[w].take]
    BY <1>4 DEF PutVideo, PutAudio
  <2>4. \A z \in Sessions : /\ store[z].mp4 # 0 => store'[z].mp4 # 0
                            /\ store[z].mp3 # 0 => store'[z].mp3 # 0
    BY <2>2, <2>3 DEF TypeInv, DataOK, ObjectStore
  <2>5. Grows /\ \A z \in Sessions : RecordingMedia(z)'
    <3>1. recs' = recs
      BY <2>1
    <3>2. Grows
      BY <2>4, <3>1 DEF Grows
    <3>3. ASSUME NEW z \in Sessions PROVE RecordingMedia(z)'
      BY <2>4, <3>1 DEF MediaInv, RecordingMedia
    <3> QED BY <3>2, <3>3
  <2>6. WorkerMedia(w, SessionOf(TaskOf(w)))'
    <3>1. CASE PutVideo(w)
      <4>1. worker'[w].pc = "thumbnail" /\ worker'[w].take = worker[w].take /\ store'[s].mp4 # 0
        <5>1. store'[s].mp4 = worker[w].take
          BY <2>2, <3>1 DEF PutVideo, TypeInv, DataOK, ObjectStore
        <5>2. Goto(w, "thumbnail")
          BY <3>1 DEF PutVideo
        <5> QED BY <2>1, <2>2, <2>5, <5>1, <5>2, WorkerGoesOn
      <4> QED BY <2>1, <2>2, <2>5, <3>1, <4>1, WorkerGoesOn DEF PutVideo, WorkerMedia
    <3>2. CASE PutAudio(w)
      <4>1. /\ worker'[w].pc = "setAudio" /\ worker'[w].take = worker[w].take
            /\ store'[s].mp3 # 0 /\ recs'[s].playbackKey
        <5>1. store'[s].mp3 = worker[w].take
          BY <2>2, <3>2 DEF PutAudio, TypeInv, DataOK, ObjectStore
        <5>2. Goto(w, "setAudio") /\ recs'[s].playbackKey
          BY <1>w, <2>1, <3>2 DEF PutAudio, WorkerMedia, At
        <5> QED BY <2>1, <2>2, <2>5, <5>1, <5>2, WorkerGoesOn
      <4> QED BY <2>1, <2>2, <2>5, <3>2, <4>1, WorkerGoesOn DEF PutAudio, WorkerMedia
    <3> QED BY <1>4, <3>1, <3>2
  <2>7. \A v \in Workers \ {w} : worker'[v] = worker[v]
    BY <2>1, OthersStay
  <2>8. \A v \in Workers : worker'[v].pc # "idle" => WorkerMedia(v, SessionOf(TaskOf(v)))'
    BY <2>5, <2>6, <2>7, MediaFrame
  <2>9. /\ \A r \in Runs : run'[r].pc # "free" => RunMedia(r, SessionOf(run[r].task))'
        /\ \A q \in Requests : RequestMedia(q)'
        /\ \A t \in Tasks : RowMedia(t)'
    BY <2>1, <2>5, MediaFrame
  <2> QED BY <2>5, <2>8, <2>9 DEF MediaInv
<1>5. CASE VideoReady(w) \/ SetAudio(w)
  <2>1. /\ ~At(w, "idle") /\ UNCHANGED <<tasks, store, run, request>>
        /\ \E pc \in {"complete", "extract", "handOff"} : Goto(w, pc)
    BY <1>5 DEF VideoReady, SetAudio, At
  <2>2. s \in Sessions /\ recs[s] \in Recording /\ recs \in [Sessions -> Recording]
    BY <1>w, <2>1 DEF TypeInv, DataOK
  <2>3. /\ \A z \in Sessions \ {s} : recs'[z] = recs[z]
        /\ recs'[s].transcript = recs[s].transcript
        /\ recs'[s].autoSummary = recs[s].autoSummary
        /\ VideoReady(w) => /\ recs'[s].playbackKey /\ recs'[s].audioKey = recs[s].audioKey
                            /\ store[s].mp4 # 0
        /\ SetAudio(w) => /\ recs'[s].audioKey /\ recs'[s].playbackKey = recs[s].playbackKey
                          /\ recs'[s].status = recs[s].status
                          /\ recs[s].playbackKey /\ store[s].mp3 # 0
    <3>1. CASE VideoReady(w)
      BY <1>w, <2>1, <2>2, <3>1 DEF VideoReady, SetAudio, At, Recording, WorkerMedia
    <3>2. CASE SetAudio(w)
      BY <1>w, <2>1, <2>2, <3>2 DEF VideoReady, SetAudio, At, Recording, WorkerMedia
    <3> QED BY <1>5, <3>1, <3>2
  <2>4. Grows
    BY <1>5, <2>1, <2>3 DEF Grows
  <2>5. \A z \in Sessions : RecordingMedia(z)'
    BY <1>5, <1>w, <2>1, <2>3 DEF RecordingMedia, MediaInv
  <2>6. WorkerMedia(w, SessionOf(TaskOf(w)))'
    <3>1. worker[w].take # 0
      BY <1>5, <1>w, <2>1 DEF WorkerMedia, VideoReady, SetAudio, At
    <3>2. CASE VideoReady(w)
      <4>1. PICK pc \in {"complete", "extract"} : Goto(w, pc) /\ (pc = "complete" <=> worker[w].done)
        BY <1>w, <2>1, <3>2 DEF VideoReady, Job
      <4>2. worker'[w].pc = pc /\ worker'[w].take = worker[w].take
        BY <2>1, <2>4, <4>1, WorkerGoesOn
      <4>3. pc = "complete" => recs'[s].audioKey
        BY <1>w, <2>1, <2>3, <3>2, <4>1 DEF WorkerMedia, RecordingMedia
      <4> QED BY <2>1, <2>3, <2>4, <3>1, <3>2, <4>1, <4>2, <4>3, WorkerGoesOn DEF WorkerMedia
    <3>3. CASE SetAudio(w)
      <4>1. worker'[w].pc = "handOff" /\ worker'[w].take = worker[w].take
        BY <2>1, <2>4, <3>3, WorkerGoesOn DEF SetAudio
      <4> QED BY <2>1, <2>3, <2>4, <3>1, <3>3, <4>1, WorkerGoesOn DEF WorkerMedia, SetAudio
    <3> QED BY <1>5, <3>2, <3>3
  <2>7. \A v \in Workers \ {w} : worker'[v] = worker[v]
    BY <2>1, OthersStay
  <2>8. \A v \in Workers : worker'[v].pc # "idle" => WorkerMedia(v, SessionOf(TaskOf(v)))'
    BY <2>4, <2>6, <2>7, MediaFrame
  <2>9. /\ \A r \in Runs : run'[r].pc # "free" => RunMedia(r, SessionOf(run[r].task))'
        /\ \A q \in Requests : RequestMedia(q)'
        /\ \A t \in Tasks : RowMedia(t)'
    BY <2>1, <2>4, MediaFrame
  <2> QED BY <2>5, <2>8, <2>9 DEF MediaInv
<1>6. CASE Enqueue(w) \/ EnqueueReplyLost(w)
  <2>1. ~At(w, "idle") /\ UNCHANGED <<tasks, recs, store, request>> /\ worker[w].pc = "enqueue"
    BY <1>6 DEF Enqueue, EnqueueReplyLost, At
  <2>2. Grows /\ \A z \in Sessions : RecordingMedia(z)'
    BY <2>1, Unchanged
  <2>3. worker'[w].pc # "idle" => WorkerMedia(w, SessionOf(TaskOf(w)))'
    <3>1. CASE Enqueue(w)
      <4>1. /\ worker'[w].pc = "release" /\ worker'[w].take = worker[w].take
            /\ worker[w].take # 0 /\ recs[s].audioKey /\ Goto(w, "release")
        BY <1>w, <2>1, <2>2, <3>1, WorkerGoesOn DEF Enqueue, WorkerMedia
      <4> QED BY <1>w, <2>1, <2>2, <4>1, WorkerGoesOn DEF WorkerMedia
    <3>2. CASE EnqueueReplyLost(w)
      BY <2>1, <2>2, <3>2, ThrowMedia DEF EnqueueReplyLost
    <3> QED BY <1>6, <3>1, <3>2
  <2>4. \A v \in Workers \ {w} : worker'[v] = worker[v]
    BY <1>6, OthersStay DEF Enqueue, EnqueueReplyLost
  <2>5. \A v \in Workers : worker'[v].pc # "idle" => WorkerMedia(v, SessionOf(TaskOf(v)))'
    BY <2>2, <2>3, <2>4, MediaFrame
  <2>6. PICK r \in Runs : Accepted(w, r)
    BY <1>6 DEF Enqueue, EnqueueReplyLost
  <2>7. ASSUME NEW p \in Runs, run'[p].pc # "free"
        PROVE  RunMedia(p, SessionOf(run[p].task))'
    <3>1. CASE p # r
      <4>1. run'[p] = run[p]
        BY <2>6, <3>1 DEF Accepted, TypeInv, RunsOK
      <4> QED BY <2>2, <2>7, <4>1, MediaFrame
    <3>2. CASE p = r
      <4>1. /\ run'[p].audio # 0 /\ run'[p].task = TaskOf(w) /\ run'[p].pc = "start"
        BY <2>6, <3>2 DEF Accepted, TypeInv, RunsOK
      <4>2. recs'[s].audioKey /\ SessionOf(run[p].task)' = s
        BY <1>w, <2>1, <4>1 DEF WorkerMedia, SessionOf
      <4> QED BY <4>1, <4>2 DEF RunMedia
    <3> QED BY <3>1, <3>2
  <2>8. /\ \A q \in Requests : RequestMedia(q)'
        /\ \A t \in Tasks : RowMedia(t)'
    BY <2>1, <2>2, MediaFrame
  <2> QED BY <2>2, <2>5, <2>7, <2>8 DEF MediaInv
<1>7. CASE Release(w) \/ Complete(w) \/ CleanupFails(w) \/ RecordFailure(w) \/ Heartbeat(w)
  <2>1. ~At(w, "idle") /\ UNCHANGED <<recs, store, run, request>>
    BY <1>7 DEF Release, Complete, CleanupFails, RecordFailure, Heartbeat, At
  <2>2. Grows
    BY <2>1, Unchanged
  <2>3. /\ Inserted(TaskOf(w)) /\ tasks[TaskOf(w)] \in TaskRow
        /\ tasks[TaskOf(w)].status # "DELETED"
    BY <2>1, BusyWorker DEF Inserted, MediaInv, RowMedia
  <2>4. \/ UNCHANGED tasks
        \/ \E new : /\ tasks' = [tasks EXCEPT ![TaskOf(w)] = new]
                    /\ \/ new.status = tasks[TaskOf(w)].status
                       \/ new.status = "COMPLETED" /\ recs[s].audioKey
                       \/ new.status \in {"FAILED", "PENDING"}
    <3>1. CASE Release(w) \/ (CleanupFails(w) /\ At(w, "release"))
      <4>1. tasks' = [tasks EXCEPT ![TaskOf(w)] = Unlocked(tasks[TaskOf(w)])]
        BY <3>1 DEF Release, CleanupFails
      <4>2. Unlocked(tasks[TaskOf(w)]).status = tasks[TaskOf(w)].status
        BY <2>3 DEF Unlocked, TaskRow
      <4> QED BY <4>1, <4>2
    <3>2. CASE Complete(w) \/ (CleanupFails(w) /\ ~At(w, "release"))
      <4>1. tasks' = [tasks EXCEPT ![TaskOf(w)] = Closed(tasks[TaskOf(w)], "COMPLETED")]
        BY <3>2 DEF Complete, CleanupFails
      <4>2. Closed(tasks[TaskOf(w)], "COMPLETED").status = "COMPLETED"
        BY <2>3 DEF Closed, Unlocked, TaskRow
      <4>3. recs[s].audioKey
        BY <1>w, <2>1, <3>2 DEF Complete, CleanupFails, At, WorkerMedia
      <4> QED BY <4>1, <4>2, <4>3
    <3>3. CASE RecordFailure(w)
      <4>1. \/ UNCHANGED tasks
            \/ tasks' = [tasks EXCEPT ![TaskOf(w)] = FailureRecorded(tasks[TaskOf(w)], worker[w].seen)]
        BY <3>3 DEF RecordFailure
      <4>2. FailureRecorded(tasks[TaskOf(w)], worker[w].seen).status \in {"FAILED", "PENDING"}
        BY <2>3 DEF FailureRecorded, Unlocked, TaskRow
      <4> QED BY <4>1, <4>2
    <3>4. CASE Heartbeat(w)
      <4>1. tasks' = [tasks EXCEPT ![TaskOf(w)] = HeartBeaten(tasks[TaskOf(w)], w)]
        BY <3>4 DEF Heartbeat
      <4>2. HeartBeaten(tasks[TaskOf(w)], w).status = tasks[TaskOf(w)].status
        BY <2>3 DEF HeartBeaten, TaskRow
      <4> QED BY <4>1, <4>2
    <3> QED BY <1>7, <3>1, <3>2, <3>3, <3>4
  <2>5. \A t \in Tasks : RowMedia(t)'
    <3>1. CASE UNCHANGED tasks
      BY <2>2, <3>1, RowsUnchanged
    <3>2. ASSUME NEW new, tasks' = [tasks EXCEPT ![TaskOf(w)] = new],
                 \/ new.status = tasks[TaskOf(w)].status
                 \/ new.status = "COMPLETED" /\ recs[s].audioKey
                 \/ new.status \in {"FAILED", "PENDING"}
          PROVE  \A t \in Tasks : RowMedia(t)'
      BY <2>1, <2>2, <2>3, <3>2, RowMediaChange DEF PythonOwned
    <3> QED BY <2>4, <3>1, <3>2
  <2>6. GoIdle(w) \/ UNCHANGED worker \/ Throw(w)
    BY <1>7 DEF Release, Complete, CleanupFails, RecordFailure, Heartbeat
  <2>7. CASE GoIdle(w)
    <3>1. worker'[w].pc = "idle" /\ \A v \in Workers \ {w} : worker'[v] = worker[v]
      BY <2>7, OthersStay DEF Idle
    <3> QED BY <2>1, <2>5, <3>1, WorkerOnly
  <2>8. CASE UNCHANGED worker
    <3>1. WorkerMedia(w, SessionOf(TaskOf(w)))'
      BY <2>1, <2>2, <2>8, MediaFrame DEF At
    <3> QED BY <2>1, <2>5, <2>8, <3>1, WorkerOnly
  <2>9. CASE Throw(w)
    <3>1. worker'[w].pc # "idle" => WorkerMedia(w, SessionOf(TaskOf(w)))'
      BY <2>1, <2>2, <2>9, ThrowMedia
    <3>2. \A v \in Workers \ {w} : worker'[v] = worker[v]
      BY <2>9, OthersStay
    <3> QED BY <2>1, <2>5, <3>1, <3>2, WorkerOnly
  <2> QED BY <2>6, <2>7, <2>8, <2>9
<1>8. CASE StageFails(w) \/ ReleaseFails(w) \/ Crash(w)
  <2>1. ~At(w, "idle") /\ UNCHANGED <<tasks, recs, store, run, request>>
    BY <1>8 DEF StageFails, ReleaseFails, Crash, At
  <2>2. Grows /\ \A t \in Tasks : RowMedia(t)'
    BY <2>1, Unchanged, RowsUnchanged
  <2>3. GoIdle(w) \/ Throw(w)
    BY <1>8 DEF StageFails, ReleaseFails, Crash
  <2>4. worker'[w].pc # "idle" => WorkerMedia(w, SessionOf(TaskOf(w)))'
    BY <2>1, <2>2, <2>3, ThrowMedia, OthersStay DEF Idle
  <2>5. \A v \in Workers \ {w} : worker'[v] = worker[v]
    BY <2>3, OthersStay
  <2> QED BY <2>1, <2>2, <2>4, <2>5, WorkerOnly
<1> QED BY <1>1, <1>2, <1>3, <1>4, <1>5, <1>6, <1>7, <1>8 DEF WorkerStep, HandlerStep

\* A lease that runs out leaves every status alone.
LEMMA LeaseMedia ==
  ASSUME TypeInv, MediaInv, NoStartingOver, Stays, NEW t \in Tasks,
         LeaseRunsOut(t) \/ HeartbeatsLost(t)
  PROVE  MediaInv'
<1>1. /\ UNCHANGED <<recs, store, worker, run, request>>
      /\ tasks' = [tasks EXCEPT ![t] = [tasks[t] EXCEPT !.lease = "expired"]]
  BY DEF LeaseRunsOut, HeartbeatsLost
<1>2. Grows /\ \A s \in Sessions : RecordingMedia(s)'
  BY <1>1, Unchanged
<1>3. \A u \in Tasks : tasks'[u].status = tasks[u].status
  BY <1>1 DEF TypeInv, RowsOK, TaskRow
<1> QED BY <1>1, <1>2, <1>3, MediaFrame DEF MediaInv

-----------------------------------------------------------------------------
(* The Python server.                                                       *)

LEMMA RunMediaStep ==
  ASSUME TypeInv, MediaInv, NoStartingOver, Stays, NEW r \in Runs, RunStep(r)
  PROVE  MediaInv'
<1> DEFINE t == run[r].task
           s == SessionOf(t)
<1>1. ~RunAt(r, "free") /\ UNCHANGED <<store, worker, request>>
  BY DEF RunStep, RunStart, RunTranscribes, RunSilent, RunSummarizes, RunSummary, RunFinish,
         RunLogs, RunFails, RunAt
<1>2. /\ s \in Sessions /\ Inserted(t) /\ tasks[t] \in TaskRow
      /\ run[r] \in Run /\ recs[s] \in Recording
      /\ RunMedia(r, s) /\ RecordingMedia(s) /\ RowMedia(t)
  BY <1>1, BusyRun DEF TypeInv, RunsOK, DataOK, MediaInv, RunAt, Inserted
<1>x. Exists(t)
  BY <1>2 DEF RowMedia, Inserted, Exists, Missing
<1>3. \/ UNCHANGED recs
      \/ /\ RunTranscribes(r)
         /\ recs' = [recs EXCEPT ![s] = [recs[s] EXCEPT !.transcript = run[r].audio]]
      \/ /\ RunSummary(r)
         /\ recs' = [recs EXCEPT ![s] = [recs[s] EXCEPT !.autoSummary = run[r].audio]]
  BY DEF RunStep, RunStart, RunTranscribes, RunSilent, RunSummarizes, RunSummary, RunFinish,
         RunLogs, RunFails, RecordingSet
<1>4. /\ \A z \in Sessions \ {s} : recs'[z] = recs[z]
      /\ recs'[s].status = recs[s].status /\ recs'[s].playbackKey = recs[s].playbackKey
      /\ recs'[s].audioKey = recs[s].audioKey
      /\ recs'[s].transcript \in {recs[s].transcript, run[r].audio}
      /\ \/ recs'[s].autoSummary = recs[s].autoSummary
         \/ RunSummary(r) /\ recs'[s].transcript = recs[s].transcript
  BY <1>2, <1>3 DEF TypeInv, DataOK, Recording
<1>5. Grows
  BY <1>1, <1>2, <1>4 DEF Grows, RunMedia
<1>6. ASSUME NEW z \in Sessions
      PROVE  RecordingMedia(z)'
  <2>1. CASE z = s
    BY <1>1, <1>2, <1>4, <2>1 DEF RecordingMedia, RunMedia, RunSummary, RunAt
  <2>2. CASE z # s
    BY <1>1, <1>4, <2>2 DEF RecordingMedia, MediaInv
  <2> QED BY <2>1, <2>2
<1>7. \A u \in Tasks : RowMedia(u)'
  <2>1. CASE UNCHANGED tasks
    BY <1>5, <2>1, RowsUnchanged
  <2>2. ASSUME NEW new, tasks' = [tasks EXCEPT ![t] = new], new.status # "DELETED"
        PROVE  \A u \in Tasks : RowMedia(u)'
    BY <1>2, <1>5, <2>2, RowMediaChange DEF Grows, RunMedia
  <2>3. \A st \in {"TRANSCRIBING", "SUMMARIZING", "COMPLETED", "FAILED"} :
          WithStatus(tasks[t], st).status # "DELETED" /\ Closed(tasks[t], st).status # "DELETED"
    BY <1>2 DEF WithStatus, Closed, Unlocked, TaskRow
  <2>4. \/ UNCHANGED tasks
        \/ \E new : tasks' = [tasks EXCEPT ![t] = new] /\ new.status # "DELETED"
    BY <2>3 DEF RunStep, RunStart, RunTranscribes, RunSilent, RunSummarizes, RunSummary,
           RunFinish, RunLogs, RunFails, TaskSet
  <2> QED BY <2>1, <2>2, <2>4
<1>8. ASSUME NEW p \in Runs, run'[p].pc # "free"
      PROVE  RunMedia(p, SessionOf(run[p].task))'
  <2>1. /\ \A x \in Runs \ {r} : run'[x] = run[x]
        /\ \/ run'[r] = FreeRun
           \/ /\ run'[r].task = t /\ run'[r].audio = run[r].audio
              /\ run'[r].pc \in {"summarize", "llm", "finish"} => recs'[s].transcript # 0
    <3>1. CASE EndRun(r)
      BY <3>1 DEF EndRun, TypeInv, RunsOK
    <3>2. ASSUME NEW pc, RunGoto(r, pc),
                 pc \in {"summarize", "llm", "finish"} => recs'[s].transcript # 0
          PROVE  <2>1!1 /\ <2>1!2
      BY <1>2, <3>2 DEF RunGoto, TypeInv, RunsOK, Run
    <3>6. CASE RunFinish(r)
      BY <3>2, <3>6 DEF RunFinish
    <3>3. CASE RunTranscribes(r)
      <4>1. recs'[s].transcript # 0
        <5>1. recs' = [recs EXCEPT ![s] = [recs[s] EXCEPT !.transcript = run[r].audio]]
          BY <1>x, <3>3 DEF RunTranscribes, RecordingSet
        <5> QED BY <1>2, <5>1 DEF RunMedia, TypeInv, DataOK, Recording
      <4> QED BY <3>2, <3>3, <4>1 DEF RunTranscribes
    <3>4. CASE RunSummarizes(r) \/ RunSummary(r)
      <4>1. recs'[s].transcript # 0
        BY <1>2, <1>5, <3>4 DEF RunMedia, Grows, RunSummarizes, RunSummary, RunAt
      <4> QED BY <3>2, <3>4, <4>1 DEF RunSummarizes, RunSummary
    <3>5. CASE RunStart(r)
      BY <3>1, <3>2, <3>5 DEF RunStart
    <3> QED BY <3>1, <3>3, <3>4, <3>5, <3>6 DEF RunStep, RunSilent, RunLogs, RunFails
  <2>2. CASE p # r
    <3>1. run'[p] = run[p]
      BY <2>1, <2>2
    <3> QED BY <1>5, <1>8, <3>1, MediaFrame
  <2>3. CASE p = r
    <3>1. FreeRun.pc = "free"
      BY DEF FreeRun
    <3>2. /\ run'[r].task = t /\ run'[r].audio = run[r].audio
          /\ run'[r].pc \in {"summarize", "llm", "finish"} => recs'[s].transcript # 0
      BY <1>8, <2>1, <2>3, <3>1
    <3>3. SessionOf(run[r].task)' = s
      BY <1>2, <3>2 DEF SessionOf, Stays, Inserted
    <3> QED BY <1>2, <1>4, <2>3, <3>2, <3>3 DEF RunMedia
  <2> QED BY <2>2, <2>3
<1>9. /\ \A w \in Workers : worker'[w].pc # "idle" => WorkerMedia(w, SessionOf(TaskOf(w)))'
      /\ \A q \in Requests : RequestMedia(q)'
  BY <1>1, <1>5, MediaFrame
<1> QED BY <1>6, <1>7, <1>8, <1>9 DEF MediaInv

LEMMA RunUnrecordedMedia ==
  ASSUME TypeInv, MediaInv, NoStartingOver, Stays, NEW r \in Runs, RunUnrecorded(r)
  PROVE  MediaInv'
<1>1. UNCHANGED <<tasks, recs, store, worker, request>>
  BY DEF RunUnrecorded
<1>2. Grows /\ \A s \in Sessions : RecordingMedia(s)'
  BY <1>1, Unchanged
<1>3. run'[r].pc = "free" /\ \A p \in Runs \ {r} : run'[p] = run[p]
  BY DEF RunUnrecorded, EndRun, FreeRun, TypeInv, RunsOK
<1> QED BY <1>1, <1>2, <1>3, MediaFrame DEF MediaInv

LEMMA RestartMedia ==
  ASSUME TypeInv, MediaInv, NoStartingOver, Stays, Restart
  PROVE  MediaInv'
<1>1. PICK swept \in SUBSET Tasks :
        tasks' = [t \in Tasks |-> IF t \in swept THEN Closed(tasks[t], "FAILED") ELSE tasks[t]]
  BY DEF Restart
<1>2. Grows /\ \A s \in Sessions : RecordingMedia(s)'
  BY Unchanged DEF Restart
<1>3. ASSUME NEW t \in Tasks PROVE RowMedia(t)'
  <2>1. CASE t \in swept
    <3>1. Closed(tasks[t], "FAILED").status = "FAILED"
      BY DEF Closed, Unlocked, TypeInv, RowsOK, TaskRow
    <3> QED BY <1>1, <2>1, <3>1 DEF RowMedia, PythonOwned
  <2>2. CASE t \notin swept
    BY <1>1, <1>2, <2>2, MediaFrame
  <2> QED BY <2>1, <2>2
<1>4. \A r \in Runs : run'[r].pc = "free"
  BY DEF Restart, FreeRun
<1> QED BY <1>2, <1>3, <1>4, MediaFrame DEF MediaInv, Restart

-----------------------------------------------------------------------------
(* The requests.                                                            *)

\* A request's step, when the recordings and the rows are right after it.
LEMMA RequestOnly ==
  ASSUME TypeInv, MediaInv, NoStartingOver, Stays, Grows, NEW q \in Requests,
         UNCHANGED <<worker, run>>,
         \A p \in Requests \ {q} : request'[p] = request[p],
         RequestMedia(q)',
         \A s \in Sessions : RecordingMedia(s)',
         \A t \in Tasks : RowMedia(t)'
  PROVE  MediaInv'
<1>1. \A p \in Requests : RequestMedia(p)'
  BY MediaFrame
<1>2. /\ \A w \in Workers : worker'[w].pc # "idle" => WorkerMedia(w, SessionOf(TaskOf(w)))'
      /\ \A r \in Runs : run'[r].pc # "free" => RunMedia(r, SessionOf(run[r].task))'
  BY MediaFrame
<1> QED BY <1>1, <1>2 DEF MediaInv

\* Where a request goes.
LEMMA RequestTurns ==
  ASSUME TypeInv, NEW q \in Requests
  PROVE  /\ \A pc \in RequestPC : Next_(q, pc) =>
              request'[q].pc = pc /\ \A p \in Requests \ {q} : request'[p] = request[p]
         /\ Answer(q) =>
              request'[q].pc = "done" /\ \A p \in Requests \ {q} : request'[p] = request[p]
         /\ \A pc, s, take, saw : Remember(q, pc, s, take, saw) =>
              /\ request'[q].pc = pc /\ request'[q].saw = saw /\ request'[q].session = s
              /\ \A p \in Requests \ {q} : request'[p] = request[p]
BY DEF TypeInv, RequestsOK, Request, Next_, Answer, Answered, Unsent, Remember

LEMMA RequestSentMedia ==
  ASSUME TypeInv, MediaInv, NoStartingOver, Stays, NEW q \in Requests, RequestSent(q)
  PROVE  MediaInv'
<1>1. ASSUME NEW s \in Sessions, CompleteRead(q, s) \/ AbortUpload(q, s) \/ RetryRead(q, s)
      PROVE  MediaInv'
  <2>1. UNCHANGED <<tasks, recs, worker, run>>
    BY <1>1 DEF CompleteRead, AbortUpload, RetryRead
  <2>2. \A z \in Sessions : store'[z].mp4 = store[z].mp4 /\ store'[z].mp3 = store[z].mp3
    <3>1. \/ UNCHANGED store
          \/ \E open : store' = [store EXCEPT ![s].open = open]
      BY <1>1 DEF CompleteRead, AbortUpload, RetryRead
    <3> QED BY <3>1 DEF TypeInv, DataOK, ObjectStore
  <2>3. Grows /\ \A z \in Sessions : RecordingMedia(z)'
    BY <2>1, <2>2 DEF Grows, MediaInv, RecordingMedia
  <2>4. RequestMedia(q)' /\ \A p \in Requests \ {q} : request'[p] = request[p]
    <3>1. CASE CompleteRead(q, s) \/ AbortUpload(q, s)
      BY <2>1, <3>1, RequestTurns DEF CompleteRead, AbortUpload, RequestMedia
    <3>2. CASE RetryRead(q, s)
      <4>1. Remember(q, "retryRow", s, 0, recs[s].playbackKey)
        BY <3>2 DEF RetryRead
      <4> QED BY <2>1, <4>1, RequestTurns DEF RequestMedia
    <3> QED BY <1>1, <3>1, <3>2
  <2> QED BY <2>1, <2>3, <2>4, RowsUnchanged, RequestOnly
<1>2. ASSUME NEW t \in Tasks, RearmRead(q, t) \/ CancelRead(q, t)
      PROVE  MediaInv'
  <2>1. UNCHANGED <<tasks, recs, store, worker, run>>
    BY <1>2 DEF RearmRead, CancelRead
  <2>2. Grows /\ \A z \in Sessions : RecordingMedia(z)'
    BY <2>1, Unchanged
  <2>4. RequestMedia(q)' /\ \A p \in Requests \ {q} : request'[p] = request[p]
    <3>1. PICK pc \in {"rearmPayload", "cancelRow"} :
            request' = [request EXCEPT ![q].pc = pc, ![q].task = t]
      BY <1>2 DEF RearmRead, CancelRead
    <3>2. request'[q].pc = pc
      BY <3>1 DEF TypeInv, RequestsOK, Request
    <3> QED BY <3>1, <3>2 DEF RequestMedia, TypeInv, RequestsOK
  <2> QED BY <2>1, <2>2, <2>4, RowsUnchanged, RequestOnly
<1>3. \A s \in Sessions : ~InitUpload(q, s) /\ ~ResetObjects(q, s)
  BY DEF NoStartingOver, InitUpload, ResetObjects, New
<1> QED BY <1>1, <1>2, <1>3 DEF RequestSent

LEMMA RequestGoesOnMedia ==
  ASSUME TypeInv, MediaInv, NoStartingOver, Stays, NEW q \in Requests, RequestGoesOn(q)
  PROVE  MediaInv'
<1> USE DEF RequestPC
<1> DEFINE s == request[q].session
<1>1. request[q] \in Request /\ RequestMedia(q) /\ UNCHANGED <<worker, run>>
  BY BusyRequest DEF OnTask, MediaInv, RequestGoesOn, InitRow, InitSession, CompleteUpload,
     CompleteStatus, CompleteTask, CompleteSession, AbortRow, ResetRow, ResetSession,
     RetryRow, RetryTask, RearmPayload, RearmRow, CancelRow, RequestFails
<1>2. ~InitRow(q) /\ ~ResetRow(q)
  BY <1>1 DEF RequestMedia, InitRow, ResetRow
<1>3. RequestMedia(q)' /\ \A p \in Requests \ {q} : request'[p] = request[p]
  <2>1. \/ Answer(q)
        \/ \E pc \in RequestPC \ {"initRow", "resetRow", "retryRow"} : Next_(q, pc)
    BY <1>2 DEF RequestGoesOn, InitSession, CompleteUpload, CompleteStatus, CompleteTask,
       CompleteSession, AbortRow, ResetSession, RetryRow, RetryTask, RearmPayload, RearmRow,
       CancelRow, RequestFails
  <2> QED BY <2>1, RequestTurns DEF RequestMedia
<1>4. CASE InitSession(q) \/ CompleteSession(q) \/ ResetSession(q) \/ RequestFails(q)
  <2>1. UNCHANGED <<tasks, recs, store>>
    BY <1>4 DEF InitSession, CompleteSession, ResetSession, RequestFails
  <2> QED BY <1>1, <1>3, <2>1, Unchanged, RowsUnchanged, RequestOnly
<1>5. CASE CompleteUpload(q)
  <2>1. UNCHANGED <<tasks, recs>>
    BY <1>5 DEF CompleteUpload
  <2>2. \A z \in Sessions : store'[z].mp4 = store[z].mp4 /\ store'[z].mp3 = store[z].mp3
    <3>1. s \in Sessions /\ store \in [Sessions -> ObjectStore]
      BY <1>5, BusyRequest DEF OnTask, CompleteUpload, TypeInv, DataOK
    <3>2. CASE UNCHANGED store
      BY <3>2
    <3>3. ASSUME NEW open, NEW raw, store' = [store EXCEPT ![s].open = open, ![s].raw = raw]
          PROVE  \A z \in Sessions : store'[z].mp4 = store[z].mp4 /\ store'[z].mp3 = store[z].mp3
      <4>1. store' = [store EXCEPT ![s] = [store[s] EXCEPT !.open = open, !.raw = raw]]
        BY <3>1, <3>3
      <4> QED BY <3>1, <4>1 DEF ObjectStore
    <3> QED BY <1>5, <3>2, <3>3 DEF CompleteUpload
  <2>3. Grows /\ \A z \in Sessions : RecordingMedia(z)'
    BY <2>1, <2>2 DEF Grows, MediaInv, RecordingMedia
  <2> QED BY <1>1, <1>3, <2>1, <2>3, RowsUnchanged, RequestOnly
<1>6. CASE CompleteStatus(q) \/ AbortRow(q) \/ RetryRow(q)
  <2>1. UNCHANGED <<tasks, store>> /\ s \in Sessions
    BY <1>6, BusyRequest DEF OnTask, CompleteStatus, AbortRow, RetryRow
  <2>2. /\ \A z \in Sessions \ {s} : recs'[z] = recs[z]
        /\ recs'[s].playbackKey = recs[s].playbackKey
        /\ recs'[s].audioKey = recs[s].audioKey
        /\ recs'[s].transcript = recs[s].transcript
        /\ recs'[s].autoSummary \in {recs[s].autoSummary, 0}
        /\ recs'[s].status = "READY" => recs[s].playbackKey
    <3>1. \/ recs' = [recs EXCEPT ![s].status = "PROCESSING"]
          \/ recs' = [recs EXCEPT ![s].status = "FAILED", ![s].upload = FALSE]
          \/ \E st \in {"READY", "PROCESSING"} :
               /\ recs' = [recs EXCEPT ![s].status = st, ![s].autoSummary = 0]
               /\ st = "READY" => recs[s].playbackKey
      BY <1>1, <1>6 DEF CompleteStatus, AbortRow, RetryRow, RequestMedia
    <3> QED BY <2>1, <3>1 DEF TypeInv, DataOK, Recording
  <2>3. Grows
    BY <2>1, <2>2 DEF Grows
  <2>4. \A z \in Sessions : RecordingMedia(z)'
    BY <2>1, <2>2 DEF MediaInv, RecordingMedia
  <2> QED BY <1>1, <1>3, <2>1, <2>3, <2>4, RowsUnchanged, RequestOnly
<1>7. CASE CompleteTask(q) \/ RetryTask(q) \/ RearmRow(q) \/ CancelRow(q)
  <2>1. UNCHANGED <<recs, store>>
    BY <1>7 DEF CompleteTask, RetryTask, RearmRow, CancelRow
  <2>2. Grows /\ \A z \in Sessions : RecordingMedia(z)'
    BY <2>1, Unchanged
  <2>3. PICK t \in Tasks :
          \E new : /\ tasks' = [tasks EXCEPT ![t] = new]
                  /\ new.status \in {"PENDING", "CANCELED"}
    <3>1. CASE CompleteTask(q) \/ RetryTask(q)
      <4>1. Created(s).status = "PENDING"
        BY DEF Created, NoRow
      <4> QED BY <3>1, <4>1 DEF CompleteTask, RetryTask, CreateTask
    <3>2. CASE RearmRow(q) \/ CancelRow(q)
      <4>1. request[q].task \in Tasks /\ tasks[request[q].task] \in TaskRow
        BY <3>2, BusyRequest DEF OnTask, RearmRow, CancelRow, Inserted
      <4>2. /\ WithStatus(tasks[request[q].task], "PENDING").status = "PENDING"
            /\ Closed(tasks[request[q].task], "CANCELED").status = "CANCELED"
        BY <4>1 DEF WithStatus, Closed, Unlocked, TaskRow
      <4> QED BY <3>2, <4>1, <4>2 DEF RearmRow, CancelRow
    <3> QED BY <1>7, <3>1, <3>2
  <2>4. ASSUME NEW u \in Tasks PROVE RowMedia(u)'
    <3>1. CASE u = t
      BY <2>3, <3>1 DEF RowMedia, PythonOwned, TypeInv, RowsOK
    <3>2. CASE u # t
      BY <2>2, <2>3, <3>2, MediaFrame DEF TypeInv, RowsOK
    <3> QED BY <3>1, <3>2
  <2> QED BY <1>1, <1>3, <2>2, <2>4, RequestOnly
<1>8. CASE RearmPayload(q)
  <2>1. UNCHANGED <<recs, store>>
    BY <1>8 DEF RearmPayload
  <2>2. Grows /\ \A z \in Sessions : RecordingMedia(z)'
    BY <2>1, Unchanged
  <2>3. \A u \in Tasks : tasks'[u].status = tasks[u].status
    BY <1>8 DEF RearmPayload, TypeInv, RowsOK, TaskRow
  <2>4. \A u \in Tasks : RowMedia(u)'
    BY <2>2, <2>3, MediaFrame
  <2> QED BY <1>1, <1>3, <2>2, <2>4, RequestOnly
<1> QED BY <1>2, <1>4, <1>5, <1>6, <1>7, <1>8 DEF RequestGoesOn

-----------------------------------------------------------------------------
LEMMA MediaNext ==
  ASSUME NoStartingOver, TypeInv, MediaInv, [Next]_vars
  PROVE  TypeInv' /\ MediaInv'
<1>1. TypeInv' /\ Stays
  BY TypeNext
<1>2. CASE Next
  BY <1>1, <1>2, WorkerMediaStep, LeaseMedia, RunMediaStep, RunUnrecordedMedia, RestartMedia,
     RequestSentMedia, RequestGoesOnMedia DEF Next, RequestStep
<1>3. CASE UNCHANGED vars
  <2>1. UNCHANGED <<tasks, recs, store, worker, run, request>>
    BY <1>3 DEF vars
  <2> QED BY <1>1, <2>1, Unchanged, MediaFrame DEF MediaInv
<1> QED BY <1>1, <1>2, <1>3

LEMMA MediaAlways == ASSUME NoStartingOver PROVE Spec => [](TypeInv /\ MediaInv)
<1>1. TypeInv /\ MediaInv /\ [Next]_vars => (TypeInv /\ MediaInv)'
  BY MediaNext
<1> QED BY <1>1, TypeInit, MediaInit, PTL DEF Spec

\* No task reaches the Python server, and none is COMPLETED, before the
\* video and the audio of its recording are published and stored: for any
\* number of workers that crash, lose leases or run twice, and whatever
\* completions, aborts, retries, re-arms and cancels come in between.
THEOREM HandedOffHasMediaAlways == ASSUME NoStartingOver PROVE Spec => []HandedOffHasMedia
BY MediaAlways, MediaImplies, PTL

\* Under the same conditions a recording shown as READY has a video to play.
THEOREM ReadyIsPlayableAlways == ASSUME NoStartingOver PROVE Spec => []ReadyIsPlayable
BY MediaAlways, MediaImplies, PTL

-----------------------------------------------------------------------------
(* The pipeline implements Artefacts: every step publishes at most one      *)
(* artefact of one session, and not before the one it is made from.         *)

\* The step leaves the artefacts of session s alone.
Kept(s) ==
  /\ recs'[s].playbackKey = recs[s].playbackKey
  /\ recs'[s].audioKey = recs[s].audioKey
  /\ recs'[s].transcript = recs[s].transcript
  /\ recs'[s].autoSummary = recs[s].autoSummary

LEMMA AllKept ==
  ASSUME \A s \in Sessions : Kept(s)
  PROVE  UNCHANGED A!vars
BY DEF Kept, A!vars

\* A step that sets one field of one recording.
LEMMA OneField ==
  ASSUME NEW s \in Sessions, \A z \in Sessions \ {s} : Kept(z),
         \/ /\ recs'[s].playbackKey
            /\ recs'[s].audioKey = recs[s].audioKey
            /\ recs'[s].transcript = recs[s].transcript
            /\ recs'[s].autoSummary = recs[s].autoSummary
         \/ /\ recs'[s].playbackKey = recs[s].playbackKey
            /\ recs[s].playbackKey /\ recs'[s].audioKey
            /\ recs'[s].transcript = recs[s].transcript
            /\ recs'[s].autoSummary = recs[s].autoSummary
         \/ /\ recs'[s].playbackKey = recs[s].playbackKey
            /\ recs'[s].audioKey = recs[s].audioKey
            /\ recs[s].audioKey /\ recs'[s].transcript # 0
            /\ recs'[s].autoSummary = recs[s].autoSummary
         \/ /\ recs'[s].playbackKey = recs[s].playbackKey
            /\ recs'[s].audioKey = recs[s].audioKey
            /\ recs'[s].transcript = recs[s].transcript
            /\ recs[s].transcript # 0 /\ recs'[s].autoSummary # 0
         \/ /\ recs'[s].playbackKey = recs[s].playbackKey
            /\ recs'[s].audioKey = recs[s].audioKey
            /\ recs'[s].transcript = recs[s].transcript
            /\ recs'[s].autoSummary = 0
  PROVE  A!Next
<1> USE DEF Kept
<1>1. CASE /\ recs'[s].playbackKey
           /\ recs'[s].audioKey = recs[s].audioKey
           /\ recs'[s].transcript = recs[s].transcript
           /\ recs'[s].autoSummary = recs[s].autoSummary
  <2>1. A!PublishVideo(s)
    BY <1>1 DEF A!PublishVideo
  <2> QED BY <2>1 DEF A!Next
<1>2. CASE /\ recs'[s].playbackKey = recs[s].playbackKey
           /\ recs[s].playbackKey /\ recs'[s].audioKey
           /\ recs'[s].transcript = recs[s].transcript
           /\ recs'[s].autoSummary = recs[s].autoSummary
  <2>1. A!PublishAudio(s)
    BY <1>2 DEF A!PublishAudio
  <2> QED BY <2>1 DEF A!Next
<1>3. CASE /\ recs'[s].playbackKey = recs[s].playbackKey
           /\ recs'[s].audioKey = recs[s].audioKey
           /\ recs[s].audioKey /\ recs'[s].transcript # 0
           /\ recs'[s].autoSummary = recs[s].autoSummary
  <2>1. A!SaveTranscript(s)
    BY <1>3 DEF A!SaveTranscript
  <2> QED BY <2>1 DEF A!Next
<1>4. CASE /\ recs'[s].playbackKey = recs[s].playbackKey
           /\ recs'[s].audioKey = recs[s].audioKey
           /\ recs'[s].transcript = recs[s].transcript
           /\ recs[s].transcript # 0 /\ recs'[s].autoSummary # 0
  <2>1. A!SaveSummary(s)
    BY <1>4 DEF A!SaveSummary
  <2> QED BY <2>1 DEF A!Next
<1>5. CASE /\ recs'[s].playbackKey = recs[s].playbackKey
           /\ recs'[s].audioKey = recs[s].audioKey
           /\ recs'[s].transcript = recs[s].transcript
           /\ recs'[s].autoSummary = 0
  <2>1. A!DropSummary(s)
    BY <1>5 DEF A!DropSummary
  <2> QED BY <2>1 DEF A!Next
<1> QED BY <1>1, <1>2, <1>3, <1>4, <1>5

LEMMA ArtefactsInit == Init => A!Init
<1> SUFFICES ASSUME Init PROVE A!Init
  OBVIOUS
<1>1. \A s \in Sessions : /\ ~recs[s].playbackKey /\ ~recs[s].audioKey
                          /\ recs[s].transcript = 0 /\ recs[s].autoSummary = 0
  BY DEF Init, Uploading, NoRecording
<1> QED BY <1>1 DEF A!Init

\* The steps that touch a recording, by what they do to its artefacts.
LEMMA WorkerPublishes ==
  ASSUME TypeInv, MediaInv, NEW w \in Workers, WorkerStep(w)
  PROVE  UNCHANGED A!vars \/ A!Next
<1> DEFINE s == SessionOf(TaskOf(w))
<1>1. recs \in [Sessions -> Recording]
  BY DEF TypeInv, DataOK
<1>2. CASE VideoReady(w)
  <2>1. s \in Sessions
    BY <1>2, BusyWorker DEF VideoReady, At
  <2>2. /\ \A z \in Sessions \ {s} : Kept(z)
        /\ recs'[s].playbackKey
        /\ recs'[s].audioKey = recs[s].audioKey
        /\ recs'[s].transcript = recs[s].transcript
        /\ recs'[s].autoSummary = recs[s].autoSummary
    BY <1>1, <1>2, <2>1 DEF VideoReady, Recording, Kept
  <2> HIDE DEF s
  <2> QED BY <2>1, <2>2, OneField
<1>3. CASE SetAudio(w)
  <2>1. s \in Sessions /\ recs[s].playbackKey
    BY <1>3, BusyWorker DEF SetAudio, At, MediaInv, WorkerMedia
  <2>2. /\ \A z \in Sessions \ {s} : Kept(z)
        /\ recs'[s].playbackKey = recs[s].playbackKey
        /\ recs'[s].audioKey
        /\ recs'[s].transcript = recs[s].transcript
        /\ recs'[s].autoSummary = recs[s].autoSummary
    BY <1>1, <1>3, <2>1 DEF SetAudio, Recording, Kept
  <2> HIDE DEF s
  <2> QED BY <2>1, <2>2, OneField
<1>4. VideoReady(w) \/ SetAudio(w) \/ UNCHANGED recs
  BY DEF WorkerStep, HandlerStep, Claim, Begin, Transcode, PutVideo, Thumbnail, Extract, Upload,
     PutAudio, HandOff, UpdateStatus, Enqueue, Release, Complete, StageFails, RecordFailure,
     EnqueueReplyLost, ReleaseFails, CleanupFails, Heartbeat, Crash
<1> QED BY <1>2, <1>3, <1>4, AllKept DEF Kept

LEMMA RunPublishes ==
  ASSUME TypeInv, MediaInv, NEW r \in Runs, RunStep(r)
  PROVE  UNCHANGED A!vars \/ A!Next
<1> DEFINE s == SessionOf(run[r].task)
<1>1. recs \in [Sessions -> Recording]
  BY DEF TypeInv, DataOK
<1>2. CASE RunTranscribes(r) /\ Exists(run[r].task)
  <2>1. s \in Sessions /\ RunMedia(r, s)
    BY <1>2, BusyRun DEF RunTranscribes, RunAt, MediaInv
  <2>2. recs' = [recs EXCEPT ![s] = [recs[s] EXCEPT !.transcript = run[r].audio]]
    BY <1>2 DEF RunTranscribes, RecordingSet
  <2>3. /\ \A z \in Sessions \ {s} : Kept(z)
        /\ recs'[s].playbackKey = recs[s].playbackKey
        /\ recs'[s].audioKey = recs[s].audioKey
        /\ recs[s].audioKey /\ recs'[s].transcript # 0
        /\ recs'[s].autoSummary = recs[s].autoSummary
    BY <1>1, <2>1, <2>2 DEF Recording, Kept, RunMedia
  <2> HIDE DEF s
  <2> QED BY <2>1, <2>3, OneField
<1>3. CASE RunSummary(r) /\ Exists(run[r].task) /\ recs' # recs
  <2>1. s \in Sessions /\ RunMedia(r, s) /\ recs[s].transcript # 0
    BY <1>3, BusyRun DEF RunSummary, RunAt, MediaInv, RunMedia
  <2>2. recs' = [recs EXCEPT ![s] = [recs[s] EXCEPT !.autoSummary = run[r].audio]]
    BY <1>3 DEF RunSummary, RecordingSet
  <2>3. /\ \A z \in Sessions \ {s} : Kept(z)
        /\ recs'[s].playbackKey = recs[s].playbackKey
        /\ recs'[s].audioKey = recs[s].audioKey
        /\ recs'[s].transcript = recs[s].transcript
        /\ recs'[s].autoSummary # 0
    BY <1>1, <2>1, <2>2 DEF Recording, Kept, RunMedia
  <2> HIDE DEF s
  <2> QED BY <2>1, <2>3, OneField
<1>4. \/ RunTranscribes(r) /\ Exists(run[r].task)
      \/ RunSummary(r) /\ Exists(run[r].task) /\ recs' # recs
      \/ UNCHANGED recs
  BY DEF RunStep, RunStart, RunTranscribes, RunSilent, RunSummarizes, RunSummary, RunFinish,
     RunLogs, RunFails, RecordingSet
<1> QED BY <1>2, <1>3, <1>4, AllKept DEF Kept

LEMMA RequestPublishes ==
  ASSUME TypeInv, MediaInv, NoStartingOver, NEW q \in Requests, RequestStep(q)
  PROVE  UNCHANGED A!vars \/ A!Next
<1> DEFINE s == request[q].session
<1>1. recs \in [Sessions -> Recording]
  BY DEF TypeInv, DataOK
<1>2. CASE RetryRow(q)
  <2>1. s \in Sessions
    BY <1>2, BusyRequest DEF OnTask, RetryRow
  <2>2. PICK st \in {"READY", "PROCESSING"} :
          recs' = [recs EXCEPT ![s].status = st, ![s].autoSummary = 0]
    BY <1>2 DEF RetryRow
  <2>3. /\ \A z \in Sessions \ {s} : Kept(z)
        /\ recs'[s].playbackKey = recs[s].playbackKey
        /\ recs'[s].audioKey = recs[s].audioKey
        /\ recs'[s].transcript = recs[s].transcript
        /\ recs'[s].autoSummary = 0
    BY <1>1, <2>1, <2>2 DEF Recording, Kept
  <2> HIDE DEF s
  <2> QED BY <2>1, <2>3, OneField
<1>3. CASE CompleteStatus(q) \/ AbortRow(q)
  <2>1. \/ recs' = [recs EXCEPT ![s].status = "PROCESSING"]
        \/ recs' = [recs EXCEPT ![s].status = "FAILED", ![s].upload = FALSE]
    BY <1>3 DEF CompleteStatus, AbortRow
  <2>2. \A z \in Sessions : Kept(z)
    BY <1>1, <2>1 DEF Recording, Kept
  <2> QED BY <2>2, AllKept
<1>4. ~InitRow(q) /\ ~ResetRow(q) /\ \A z \in Sessions : ~InitUpload(q, z) /\ ~ResetObjects(q, z)
  BY DEF MediaInv, RequestMedia, NoStartingOver, InitRow, ResetRow, InitUpload, ResetObjects, New
<1>5. RetryRow(q) \/ CompleteStatus(q) \/ AbortRow(q) \/ UNCHANGED recs
  BY <1>4 DEF RequestStep, RequestSent, RequestGoesOn, CompleteRead, AbortUpload, RetryRead,
     RearmRead, CancelRead, InitSession, CompleteUpload, CompleteTask, CompleteSession,
     ResetSession, RetryTask, RearmPayload, RearmRow, CancelRow, RequestFails
<1> QED BY <1>2, <1>3, <1>5, AllKept DEF Kept

LEMMA ArtefactsNext ==
  ASSUME NoStartingOver, TypeInv, MediaInv, [Next]_vars
  PROVE  [A!Next]_A!vars
<1>1. CASE \E w \in Workers : WorkerStep(w)
  BY <1>1, WorkerPublishes
<1>2. CASE \E r \in Runs : RunStep(r)
  BY <1>2, RunPublishes
<1>3. CASE \E q \in Requests : RequestStep(q)
  BY <1>3, RequestPublishes
<1>4. CASE UNCHANGED recs
  BY <1>4, AllKept DEF Kept
<1> QED BY <1>1, <1>2, <1>3, <1>4 DEF Next, vars, LeaseRunsOut, HeartbeatsLost, Restart,
                                      RunUnrecorded

\* The artefacts of a take appear in the order video, audio, transcript,
\* summary, and only the summary is ever withdrawn: execute's stages behind
\* its probes, the server's writes and a teacher's retry, however many of
\* them run side by side or over again.
THEOREM ArtefactsInOrderAlways == ASSUME NoStartingOver PROVE Spec => ArtefactsInOrder
<1>1. TypeInv /\ MediaInv /\ [Next]_vars => [A!Next]_A!vars
  BY ArtefactsNext
<1> QED BY <1>1, ArtefactsInit, MediaAlways, PTL DEF Spec, ArtefactsInOrder, A!Spec

-----------------------------------------------------------------------------
(***************************************************************************)
(* What the task queue guarantees while leases are renewed, hand-off       *)
(* replies arrive, work directories can be removed and no administrator    *)
(* re-arms or cancels: a task has one owner, is tried at most MaxAttempts times and is passed along one way,  *)
(* for any number of workers, runs, tasks and requests, and however often  *)
(* workers crash and the Python server restarts.                           *)
(*                                                                         *)
(* OneOwner is not inductive.  claimNext looks at a row, never at the      *)
(* other workers: that nobody else works on a row it may take has to be    *)
(* read off the row.  QueueInv says, for each place in execute and in      *)
(* _process_task, what the row of the task looks like.                     *)
(***************************************************************************)

NoOverrides ==
  /\ RequestKinds \cap {"rearm", "cancel"} = {}
  /\ Faults \cap {"lease", "lostReply", "cleanup"} = {}

Busy(w) == ~At(w, "idle")
Active(r) == ~RunAt(r, "free")

\* A worker inside execute, or in the catch block of its failure.
Handles(w) == Busy(w) /\ ~At(w, "release")

\* What the row says while w is on it.  A handler holds the lease: nobody
\* else may claim.  Past the hand-off the row is Python's, or closed.
WorkerRow(w) ==
  Busy(w) /\ Exists(TaskOf(w)) =>
    /\ Handles(w) => RowOf(w).lockedBy = w /\ RowOf(w).lease = "held"
    /\ At(w, "release") => RowOf(w).status \in PythonOwned \cup Terminal
    /\ At(w, "enqueue") => RowOf(w).status = "HANDED_OFF"
    /\ At(w, "record") => /\ RowOf(w).status \in NodeOwned \cup {"HANDED_OFF"}
                          /\ worker[w].seen = RowOf(w).attempts
    /\ worker[w].pc \notin {"release", "enqueue", "record"} => RowOf(w).status \in NodeOwned

\* Once a run has closed its task, only its last log entry is left.
RunRow(r) ==
  Active(r) /\ Exists(run[r].task) =>
    IF RunAt(r, "log") THEN tasks[run[r].task].status \in Terminal
    ELSE tasks[run[r].task].status \in PythonOwned

TriesLeft(t) ==
  Exists(t) /\ tasks[t].status \notin Terminal => tasks[t].attempts < MaxAttempts

OneWorker == \A w, v \in Workers : Busy(w) /\ Busy(v) /\ TaskOf(w) = TaskOf(v) => w = v
OneRun == \A r, p \in Runs : Active(r) /\ Active(p) /\ run[r].task = run[p].task => r = p
Apart == \A w \in Workers, r \in Runs : Handles(w) /\ Active(r) => TaskOf(w) # run[r].task

\* Who is on no task has none in hand.
Parked ==
  /\ \A w \in Workers : Busy(w) \/ TaskOf(w) = 0
  /\ \A r \in Runs : Active(r) \/ run[r].task = 0

QueueInv ==
  /\ OneWorker /\ OneRun /\ Apart /\ Parked
  /\ \A w \in Workers : WorkerRow(w)
  /\ \A r \in Runs : RunRow(r)
  /\ \A t \in Tasks : TriesLeft(t)
  /\ \A q \in Requests : request[q].pc \notin OnTask

LEMMA QueueImplies == TypeInv /\ QueueInv => OneOwner /\ AttemptsLeft
<1> SUFFICES ASSUME TypeInv, QueueInv PROVE OneOwner /\ AttemptsLeft
  OBVIOUS
<1>1. AttemptsLeft
  BY DEF QueueInv, TriesLeft, AttemptsLeft
<1>2. ASSUME NEW t \in Tasks
      PROVE  /\ \A w \in Handlers(t) : w \in Workers /\ Handles(w) /\ TaskOf(w) = t
             /\ \A r \in RunsOn(t) : r \in Runs /\ Active(r) /\ run[r].task = t
  <2>1. t # 0
    BY PipelineAssumption
  <2> QED BY <2>1 DEF QueueInv, Parked, Handlers, RunsOn, Handles
<1>3. OneOwner
  BY <1>2 DEF QueueInv, OneWorker, OneRun, Apart, Handles, OneOwner
<1> QED BY <1>1, <1>3

LEMMA QueueInit == Init => QueueInv
<1> SUFFICES ASSUME Init PROVE QueueInv
  OBVIOUS
<1>1. /\ \A w \in Workers : worker[w].pc = "idle" /\ worker[w].task = 0
      /\ \A r \in Runs : run[r].pc = "free" /\ run[r].task = 0
      /\ \A q \in Requests : request[q].pc = "new"
      /\ \A t \in Tasks : tasks[t].status = "ABSENT"
  BY DEF Init, Idle, FreeRun, Unsent, NoRow
<1>2. OneWorker /\ OneRun /\ Apart /\ Parked
  BY <1>1 DEF OneWorker, OneRun, Apart, Parked, Busy, Active, Handles, At, RunAt, TaskOf
<1>3. /\ \A w \in Workers : WorkerRow(w)
      /\ \A r \in Runs : RunRow(r)
  BY <1>1 DEF WorkerRow, RunRow, Busy, Active, At, RunAt
<1>4. \A t \in Tasks : TriesLeft(t)
  BY <1>1 DEF TriesLeft, Exists, Missing
<1> QED BY <1>1, <1>2, <1>3, <1>4 DEF QueueInv, OnTask

-----------------------------------------------------------------------------
(* Steps of one worker.                                                     *)

\* A step of a worker on its task: it stays on it or drops it, it touches no
\* other row, and it does not come back from the hand-off.
LEMMA WorkerChange ==
  ASSUME TypeInv, QueueInv, NEW w \in Workers, Busy(w), NEW t, t = TaskOf(w),
         \A v \in Workers \ {w} : worker'[v] = worker[v],
         \A u \in Tasks : u # t => tasks'[u] = tasks[u],
         UNCHANGED <<run, request>>,
         \/ Busy(w)' /\ TaskOf(w)' = t /\ (Handles(w) \/ ~Handles(w)')
         \/ ~Busy(w)' /\ TaskOf(w)' = 0,
         WorkerRow(w)', TriesLeft(t)',
         Exists(t)' => Exists(t),
         At(w, "release") /\ Exists(t)' => tasks'[t].status = tasks[t].status
  PROVE  QueueInv'
<1>1. t \in Tasks
  BY BusyWorker DEF Busy, Inserted
<1>2. ASSUME NEW v \in Workers, v # w
      PROVE  /\ Busy(v)' = Busy(v) /\ Handles(v)' = Handles(v) /\ TaskOf(v)' = TaskOf(v)
             /\ WorkerRow(v)'
  <2>1. /\ Busy(v)' = Busy(v) /\ Handles(v)' = Handles(v) /\ TaskOf(v)' = TaskOf(v)
        /\ worker'[v] = worker[v]
    BY <1>2 DEF Busy, Handles, At, TaskOf
  <2>2. CASE Busy(v)
    <3>1. TaskOf(v) # t /\ TaskOf(v) \in Tasks
      BY <1>2, <2>2, BusyWorker DEF QueueInv, OneWorker, Busy, Inserted
    <3>2. RowOf(v)' = RowOf(v) /\ (Exists(TaskOf(v))' <=> Exists(TaskOf(v)))
      BY <2>1, <3>1 DEF RowOf, Exists
    <3>3. WorkerRow(v)
      BY DEF QueueInv
    <3> QED BY <2>1, <3>2, <3>3 DEF WorkerRow, Handles, At
  <2>3. CASE ~Busy(v)
    BY <2>1, <2>3 DEF WorkerRow
  <2> QED BY <2>1, <2>2, <2>3
<1>3. OneWorker'
  BY <1>1, <1>2, PipelineAssumption DEF QueueInv, OneWorker
<1>4. \A r \in Runs : Active(r)' = Active(r) /\ run'[r] = run[r]
  BY DEF Active, RunAt
<1>5. OneRun'
  BY <1>4 DEF QueueInv, OneRun
<1>6. Apart'
  <2>1. Handles(w)' => Handles(w) /\ TaskOf(w)' = TaskOf(w)
    BY DEF Handles
  <2> QED BY <1>2, <1>4, <2>1 DEF QueueInv, Apart
<1>7. Parked'
  BY <1>2, <1>4 DEF QueueInv, Parked
<1>8. \A v \in Workers : WorkerRow(v)'
  BY <1>2
<1>9. ASSUME NEW r \in Runs
      PROVE  RunRow(r)'
  <2>1. CASE Active(r) /\ run[r].task # t
    <3>1. run[r].task \in Tasks
      BY <2>1, BusyRun DEF Active, Inserted
    <3> QED BY <1>4, <2>1, <3>1 DEF QueueInv, RunRow, Exists, RunAt
  <2>2. CASE Active(r) /\ run[r].task = t
    <3>1. At(w, "release")
      BY <2>2 DEF QueueInv, Apart, Handles
    <3> QED BY <1>1, <1>4, <2>2, <3>1 DEF QueueInv, RunRow, Exists, RunAt
  <2>3. CASE ~Active(r)
    BY <1>4, <2>3 DEF RunRow
  <2> QED BY <2>1, <2>2, <2>3
<1>10. ASSUME NEW u \in Tasks, u # t
       PROVE  TriesLeft(u)'
  BY <1>10 DEF QueueInv, TriesLeft, Exists
<1>11. \A u \in Tasks : TriesLeft(u)'
  BY <1>10
<1>12. \A q \in Requests : request'[q].pc \notin OnTask
  BY DEF QueueInv
<1> QED BY <1>3, <1>5, <1>6, <1>7, <1>8, <1>9, <1>11, <1>12 DEF QueueInv

\* What the statements of the table leave in a row.
LEMMA RowFields ==
  ASSUME NEW row \in TaskRow
  PROVE  /\ \A w \in Workers :
              /\ Claimed(row, w).status = "CLAIMED" /\ Claimed(row, w).lockedBy = w
              /\ Claimed(row, w).lease = "held" /\ Claimed(row, w).attempts = row.attempts
              /\ HeartBeaten(row, w).status = row.status
              /\ HeartBeaten(row, w).attempts = row.attempts
              /\ HeartBeaten(row, w).lockedBy = row.lockedBy
              /\ HeartBeaten(row, w).lease \in {row.lease, "held"}
         /\ \A st : /\ WithStatus(row, st).status = st
                    /\ WithStatus(row, st).attempts = row.attempts
                    /\ WithStatus(row, st).lockedBy = row.lockedBy
                    /\ WithStatus(row, st).lease = row.lease
                    /\ Closed(row, st).status = st /\ Closed(row, st).attempts = row.attempts
         /\ Unlocked(row).status = row.status /\ Unlocked(row).attempts = row.attempts
         /\ \A seen \in 0 .. MaxAttempts :
              \/ FailureRecorded(row, seen).status = "FAILED"
              \/ /\ FailureRecorded(row, seen).status = "PENDING"
                 /\ FailureRecorded(row, seen).attempts < MaxAttempts
<1>1. /\ \A w \in Workers :
           /\ Claimed(row, w).status = "CLAIMED" /\ Claimed(row, w).lockedBy = w
           /\ Claimed(row, w).lease = "held" /\ Claimed(row, w).attempts = row.attempts
           /\ HeartBeaten(row, w).status = row.status
           /\ HeartBeaten(row, w).attempts = row.attempts
           /\ HeartBeaten(row, w).lockedBy = row.lockedBy
           /\ HeartBeaten(row, w).lease \in {row.lease, "held"}
  BY DEF TaskRow, Claimed, HeartBeaten
<1>2. \A st : /\ WithStatus(row, st).status = st
              /\ WithStatus(row, st).attempts = row.attempts
              /\ WithStatus(row, st).lockedBy = row.lockedBy
              /\ WithStatus(row, st).lease = row.lease
  BY DEF TaskRow, WithStatus
<1>3. Unlocked(row) \in TaskRow
  BY TableAssumption DEF TaskRow, Unlocked
<1>4. Unlocked(row).status = row.status /\ Unlocked(row).attempts = row.attempts
  BY DEF TaskRow, Unlocked
<1>5. \A st : Closed(row, st).status = st /\ Closed(row, st).attempts = row.attempts
  BY <1>3, <1>4 DEF TaskRow, Closed
<1>6. ASSUME NEW seen \in 0 .. MaxAttempts
      PROVE  \/ FailureRecorded(row, seen).status = "FAILED"
             \/ /\ FailureRecorded(row, seen).status = "PENDING"
                /\ FailureRecorded(row, seen).attempts < MaxAttempts
  <2>1. PICK r \in TaskRow : r = Unlocked(row)
    BY <1>3
  <2>2. CASE seen + 1 >= MaxAttempts
    <3>1. FailureRecorded(row, seen) = [r EXCEPT !.attempts = MaxAttempts, !.status = "FAILED"]
      BY <2>1, <2>2 DEF FailureRecorded
    <3> QED BY <3>1 DEF TaskRow
  <2>3. CASE ~(seen + 1 >= MaxAttempts)
    <3>1. FailureRecorded(row, seen) = [r EXCEPT !.attempts = seen + 1, !.status = "PENDING"]
      BY <2>1, <2>3 DEF FailureRecorded
    <3>2. seen + 1 < MaxAttempts
      BY <2>3, TableAssumption
    <3> QED BY <3>1, <3>2 DEF TaskRow
  <2> QED BY <2>2, <2>3
<1> QED BY <1>1, <1>2, <1>4, <1>5, <1>6

\* Where a worker's step leaves its job.
LEMMA JobFields ==
  ASSUME TypeInv, NEW w \in Workers, Busy(w)
  PROVE  /\ \A pc \in WorkerPC : Goto(w, pc) =>
              /\ \A v \in Workers \ {w} : worker'[v] = worker[v]
              /\ worker'[w].pc = pc /\ worker'[w].task = TaskOf(w)
              /\ worker'[w].seen = worker[w].seen
         /\ GoIdle(w) =>
              /\ \A v \in Workers \ {w} : worker'[v] = worker[v]
              /\ worker'[w].pc = "idle" /\ worker'[w].task = 0
         /\ Throw(w) =>
              /\ \A v \in Workers \ {w} : worker'[v] = worker[v]
              /\ Exists(TaskOf(w)) => /\ worker'[w].pc = "record"
                                      /\ worker'[w].task = TaskOf(w)
                                      /\ worker'[w].seen = RowOf(w).attempts
              /\ ~Exists(TaskOf(w)) => worker'[w].pc = "idle" /\ worker'[w].task = 0
<1>1. worker \in [Workers -> Job] /\ worker[w] \in Job /\ Idle.pc = "idle" /\ Idle.task = 0
  BY DEF TypeInv, JobsOK, Idle
<1>2. \A job : worker' = [worker EXCEPT ![w] = job] =>
                /\ worker'[w] = job
                /\ \A v \in Workers \ {w} : worker'[v] = worker[v]
  BY <1>1
<1>3. ASSUME NEW pc \in WorkerPC, Goto(w, pc)
      PROVE  /\ \A v \in Workers \ {w} : worker'[v] = worker[v]
             /\ worker'[w].pc = pc /\ worker'[w].task = TaskOf(w)
             /\ worker'[w].seen = worker[w].seen
  BY <1>1, <1>3 DEF Goto, Job, TaskOf
<1>4. GoIdle(w) => /\ \A v \in Workers \ {w} : worker'[v] = worker[v]
                   /\ worker'[w].pc = "idle" /\ worker'[w].task = 0
  BY <1>1, <1>2 DEF GoIdle
<1>5. ASSUME Throw(w), Exists(TaskOf(w))
      PROVE  /\ \A v \in Workers \ {w} : worker'[v] = worker[v]
             /\ worker'[w].pc = "record" /\ worker'[w].task = TaskOf(w)
             /\ worker'[w].seen = RowOf(w).attempts
  <2> DEFINE job == [worker[w] EXCEPT !.pc = "record", !.seen = RowOf(w).attempts]
  <2>1. job.pc = "record" /\ job.task = TaskOf(w) /\ job.seen = RowOf(w).attempts
    BY <1>1 DEF Job, TaskOf
  <2>2. worker' = [worker EXCEPT ![w] = job]
    BY <1>5 DEF Throw
  <2> HIDE DEF job
  <2> QED BY <1>2, <2>1, <2>2
<1>6. ASSUME Throw(w), ~Exists(TaskOf(w))
      PROVE  /\ \A v \in Workers \ {w} : worker'[v] = worker[v]
             /\ worker'[w].pc = "idle" /\ worker'[w].task = 0
  BY <1>1, <1>2, <1>6 DEF Throw
<1> QED BY <1>3, <1>4, <1>5, <1>6

LEMMA UpdateStatusQueue ==
  ASSUME TypeInv, QueueInv, NEW w \in Workers,
         NEW pc \in WorkerPC \ {"idle", "enqueue", "release", "record"},
         NEW st \in NodeOwned \cup {"HANDED_OFF"},
         NEW next \in WorkerPC \ {"idle", "release", "record"},
         next = "enqueue" <=> st = "HANDED_OFF", UpdateStatus(w, pc, st, next)
  PROVE  QueueInv'
<1>1. Busy(w) /\ Handles(w)
  BY DEF UpdateStatus, Busy, Handles, At
<1>2. PICK t \in Tasks : t = TaskOf(w) /\ tasks[t] \in TaskRow
  BY <1>1, BusyWorker DEF Busy, Inserted
<1>3. Exists(t) /\ Goto(w, next) /\ UNCHANGED <<run, request>>
  BY <1>2 DEF UpdateStatus
<1>4. /\ tasks'[t] = WithStatus(tasks[t], st)
      /\ \A u \in Tasks : u # t => tasks'[u] = tasks[u]
  BY <1>2 DEF UpdateStatus, TypeInv, RowsOK
<1>5. tasks[t].lockedBy = w /\ tasks[t].lease = "held" /\ tasks[t].status \in NodeOwned
  BY <1>1, <1>2, <1>3 DEF QueueInv, WorkerRow, RowOf, UpdateStatus, At
<1>6. tasks[t].attempts < MaxAttempts
  BY <1>2, <1>3, <1>5 DEF QueueInv, TriesLeft, NodeOwned, Terminal
<1>7. /\ tasks'[t].status = st /\ tasks'[t].attempts < MaxAttempts
      /\ tasks'[t].lockedBy = w /\ tasks'[t].lease = "held"
  BY <1>2, <1>4, <1>5, <1>6, RowFields
<1>8. /\ worker'[w].pc = next /\ worker'[w].task = t
      /\ \A v \in Workers \ {w} : worker'[v] = worker[v]
  BY <1>1, <1>2, <1>3, JobFields
<1>9. TriesLeft(t)'
  BY <1>7 DEF TriesLeft
<1>10. WorkerRow(w)'
  BY <1>7, <1>8 DEF WorkerRow, RowOf, TaskOf, At, NodeOwned
<1>11. Busy(w)' /\ TaskOf(w)' = t
  BY <1>8 DEF Busy, At, TaskOf
<1>12. ~At(w, "release")
  BY <1>1 DEF Handles
<1> QED BY <1>1, <1>2, <1>3, <1>4, <1>8, <1>9, <1>10, <1>11, <1>12, WorkerChange

\* Nobody is on a row that may be claimed.
LEMMA RunnableIsFree ==
  ASSUME QueueInv, NEW t \in Tasks, Runnable(tasks[t])
  PROVE  /\ Exists(t) /\ tasks[t].status \notin Terminal
         /\ \A v \in Workers : Busy(v) => TaskOf(v) # t
         /\ \A r \in Runs : Active(r) => run[r].task # t
<1>1. Exists(t) /\ tasks[t].status \notin Terminal
  BY DEF Runnable, NodeOwned, Exists, Missing, Terminal
<1>2. \A v \in Workers : Busy(v) => TaskOf(v) # t
  BY <1>1 DEF QueueInv, WorkerRow, Handles, Busy, RowOf, Runnable, NodeOwned, PythonOwned,
     Terminal, At
<1>3. \A r \in Runs : Active(r) => run[r].task # t
  BY <1>1 DEF QueueInv, RunRow, Runnable, NodeOwned, PythonOwned, Terminal
<1> QED BY <1>1, <1>2, <1>3

LEMMA WorkerQueueStep ==
  ASSUME TypeInv, QueueInv, NoOverrides, NEW w \in Workers, WorkerStep(w)
  PROVE  QueueInv'
<1> USE DEF WorkerPC
<1>1. CASE Claim(w)
  <2>1. PICK t \in Tasks :
          /\ Runnable(tasks[t])
          /\ tasks' = [tasks EXCEPT ![t] = Claimed(tasks[t], w)]
          /\ worker' = [worker EXCEPT ![w] = [Idle EXCEPT !.pc = "begin", !.task = t,
                                                         !.push = tasks[t].push]]
    BY <1>1 DEF Claim
  <2>2. ~Busy(w) /\ UNCHANGED <<run, request>>
    BY <1>1 DEF Claim, Busy
  <2>3. /\ worker'[w].pc = "begin" /\ worker'[w].task = t
        /\ \A v \in Workers \ {w} : worker'[v] = worker[v]
    BY <2>1 DEF TypeInv, JobsOK, Idle
  <2>4. /\ tasks[t] \in TaskRow /\ tasks'[t] = Claimed(tasks[t], w)
        /\ \A u \in Tasks : u # t => tasks'[u] = tasks[u]
    BY <2>1 DEF TypeInv, RowsOK
  <2>5. Exists(t) /\ tasks[t].status \notin Terminal
    BY <2>1, RunnableIsFree
  <2>6. /\ tasks'[t].status = "CLAIMED" /\ tasks'[t].lockedBy = w /\ tasks'[t].lease = "held"
        /\ tasks'[t].attempts < MaxAttempts
    BY <2>4, <2>5, RowFields DEF QueueInv, TriesLeft
  <2>7. \A v \in Workers : Busy(v) => TaskOf(v) # t
    BY <2>1, RunnableIsFree
  <2>8. \A r \in Runs : Active(r) => run[r].task # t
    BY <2>1, RunnableIsFree
  <2>9. ASSUME NEW v \in Workers, v # w
        PROVE  /\ Busy(v)' = Busy(v) /\ Handles(v)' = Handles(v) /\ TaskOf(v)' = TaskOf(v)
               /\ WorkerRow(v)'
    <3>1. /\ Busy(v)' = Busy(v) /\ Handles(v)' = Handles(v) /\ TaskOf(v)' = TaskOf(v)
          /\ worker'[v] = worker[v]
      BY <2>3, <2>9 DEF Busy, Handles, At, TaskOf
    <3>2. CASE Busy(v)
      <4>1. TaskOf(v) # t /\ TaskOf(v) \in Tasks
        BY <2>7, <3>2, BusyWorker DEF Busy, Inserted
      <4>2. RowOf(v)' = RowOf(v) /\ (Exists(TaskOf(v))' <=> Exists(TaskOf(v)))
        BY <2>4, <3>1, <4>1 DEF RowOf, Exists
      <4>3. WorkerRow(v)
        BY DEF QueueInv
      <4> QED BY <3>1, <4>2, <4>3 DEF WorkerRow, Handles, At
    <3>3. CASE ~Busy(v)
      BY <3>1, <3>3 DEF WorkerRow
    <3> QED BY <3>1, <3>2, <3>3
  <2>10. WorkerRow(w)' /\ Busy(w)' /\ TaskOf(w)' = t
    BY <2>3, <2>6 DEF WorkerRow, RowOf, TaskOf, Busy, Handles, At, NodeOwned
  <2>11. OneWorker'
    BY <2>7, <2>9, <2>10 DEF QueueInv, OneWorker
  <2>12. \A r \in Runs : Active(r)' = Active(r) /\ run'[r] = run[r]
    BY <2>2 DEF Active, RunAt
  <2>13. OneRun' /\ Apart' /\ Parked'
    BY <2>8, <2>9, <2>10, <2>12 DEF QueueInv, OneRun, Apart, Parked
  <2>14. ASSUME NEW r \in Runs PROVE RunRow(r)'
    <3>1. CASE Active(r)
      <4>1. run[r].task \in Tasks /\ run[r].task # t
        BY <2>8, <3>1, BusyRun DEF Active, Inserted
      <4> QED BY <2>4, <2>12, <4>1 DEF QueueInv, RunRow, Exists, RunAt
    <3>2. CASE ~Active(r)
      BY <2>12, <3>2 DEF RunRow
    <3> QED BY <3>1, <3>2
  <2>15. ASSUME NEW u \in Tasks PROVE TriesLeft(u)'
    BY <2>4, <2>6 DEF QueueInv, TriesLeft, Exists
  <2>16. \A q \in Requests : request'[q].pc \notin OnTask
    BY <2>2 DEF QueueInv
  <2> QED BY <2>9, <2>10, <2>11, <2>13, <2>14, <2>15, <2>16 DEF QueueInv
<1>2. CASE Transcode(w) \/ Thumbnail(w) \/ Extract(w) \/ Upload(w) \/ HandOff(w)
  BY <1>2, UpdateStatusQueue DEF Transcode, Thumbnail, Extract, Upload, HandOff, NodeOwned
<1>3. ASSUME Busy(w)
      PROVE  \E t \in Tasks : t = TaskOf(w) /\ tasks[t] \in TaskRow
  BY <1>3, BusyWorker DEF Busy, Inserted
<1>4. CASE Begin(w) \/ PutVideo(w) \/ VideoReady(w) \/ PutAudio(w) \/ SetAudio(w)
  <2>1. Busy(w) /\ worker[w].pc \notin {"enqueue", "release", "record"}
    BY <1>4 DEF Begin, PutVideo, VideoReady, PutAudio, SetAudio, Busy, At
  <2>2. PICK t \in Tasks : t = TaskOf(w) /\ tasks[t] \in TaskRow
    BY <1>3, <2>1
  <2>3. UNCHANGED <<tasks, run, request>>
    BY <1>4 DEF Begin, PutVideo, VideoReady, PutAudio, SetAudio
  <2>4. /\ worker'[w].pc \notin {"idle", "enqueue", "release", "record"}
        /\ worker'[w].task = t
        /\ \A v \in Workers \ {w} : worker'[v] = worker[v]
    <3>1. CASE Begin(w)
      <4>1. worker \in [Workers -> Job]
        BY DEF TypeInv, JobsOK
      <4> QED BY <2>2, <3>1, <4>1 DEF Begin, TaskOf, Job
    <3>2. CASE PutVideo(w) \/ VideoReady(w) \/ PutAudio(w) \/ SetAudio(w)
      <4>1. PICK pc \in {"thumbnail", "complete", "extract", "setAudio", "handOff"} : Goto(w, pc)
        BY <3>2 DEF PutVideo, VideoReady, PutAudio, SetAudio
      <4> QED BY <2>1, <2>2, <4>1, JobFields
    <3> QED BY <1>4, <3>1, <3>2
  <2>5. Busy(w)' /\ TaskOf(w)' = t /\ Handles(w) /\ ~At(w, "release")
    BY <2>1, <2>4 DEF Busy, Handles, At, TaskOf
  <2>6. WorkerRow(w)'
    <3>1. RowOf(w)' = RowOf(w) /\ (Exists(TaskOf(w))' <=> Exists(TaskOf(w)))
      BY <2>2, <2>3, <2>5 DEF RowOf, Exists
    <3>2. Exists(TaskOf(w)) => /\ RowOf(w).lockedBy = w /\ RowOf(w).lease = "held"
                               /\ RowOf(w).status \in NodeOwned
      BY <2>1, <2>5 DEF QueueInv, WorkerRow
    <3> QED BY <2>4, <3>1, <3>2 DEF WorkerRow, At
  <2>7. TriesLeft(t)' /\ (Exists(t)' => Exists(t))
    BY <2>3 DEF QueueInv, TriesLeft, Exists
  <2> QED BY <2>1, <2>2, <2>3, <2>4, <2>5, <2>6, <2>7, WorkerChange
<1>5. CASE Enqueue(w)
  <2>1. PICK r \in Runs : Accepted(w, r)
    BY <1>5 DEF Enqueue
  <2>2. /\ Busy(w) /\ Handles(w) /\ At(w, "enqueue") /\ Exists(TaskOf(w))
        /\ Goto(w, "release") /\ UNCHANGED <<tasks, request>>
    BY <1>5, <2>1 DEF Enqueue, Accepted, Busy, Handles, At
  <2>3. PICK t \in Tasks : t = TaskOf(w)
    BY <1>3, <2>2
  <2>4. /\ run'[r].pc = "start" /\ run'[r].task = t
        /\ \A p \in Runs \ {r} : run'[p] = run[p]
    BY <2>1, <2>3 DEF Accepted, TypeInv, RunsOK
  <2>5. /\ worker'[w].pc = "release" /\ worker'[w].task = t
        /\ \A v \in Workers \ {w} : worker'[v] = worker[v]
    BY <2>2, <2>3, JobFields
  <2>6. tasks[t].status = "HANDED_OFF"
    BY <2>2, <2>3 DEF QueueInv, WorkerRow, RowOf
  <2>7. /\ \A v \in Workers : Busy(v)' = Busy(v) /\ TaskOf(v)' = TaskOf(v)
        /\ \A v \in Workers \ {w} : Handles(v)' = Handles(v)
        /\ ~Handles(w)' /\ Active(r)'
        /\ \A p \in Runs \ {r} : Active(p)' = Active(p)
    BY <2>2, <2>3, <2>4, <2>5 DEF Busy, Handles, Active, At, RunAt, TaskOf
  <2>8. \A v \in Workers \ {w} : Busy(v) => TaskOf(v) # t
    BY <2>2, <2>3 DEF QueueInv, OneWorker
  <2>9. \A p \in Runs : Active(p) => run[p].task # t
    BY <2>2, <2>3 DEF QueueInv, Apart
  <2>10. OneWorker' /\ OneRun' /\ Apart' /\ Parked'
    <3>1. OneWorker' /\ Parked'
      BY <2>4, <2>7 DEF QueueInv, OneWorker, Parked
    <3>2. OneRun'
      BY <2>4, <2>7, <2>9 DEF QueueInv, OneRun
    <3>3. Apart'
      BY <2>4, <2>7, <2>8 DEF QueueInv, Apart, Handles
    <3> QED BY <3>1, <3>2, <3>3
  <2>11. ASSUME NEW v \in Workers PROVE WorkerRow(v)'
    <3>1. RowOf(v)' = RowOf(v) /\ (Exists(TaskOf(v))' <=> Exists(TaskOf(v)))
      BY <2>2, <2>7 DEF RowOf, Exists
    <3>2. CASE v = w
      BY <2>3, <2>5, <2>6, <3>1, <3>2 DEF WorkerRow, Handles, At, RowOf, PythonOwned
    <3>3. CASE v # w
      BY <2>5, <2>7, <3>1, <3>3 DEF QueueInv, WorkerRow, Handles, At
    <3> QED BY <3>2, <3>3
  <2>12. ASSUME NEW p \in Runs PROVE RunRow(p)'
    <3>1. CASE p = r
      BY <2>2, <2>4, <2>6, <3>1 DEF RunRow, RunAt, PythonOwned
    <3>2. CASE p # r
      BY <2>2, <2>4, <2>7, <3>2 DEF QueueInv, RunRow, Exists, RunAt
    <3> QED BY <3>1, <3>2
  <2>13. /\ \A u \in Tasks : TriesLeft(u)'
         /\ \A q \in Requests : request'[q].pc \notin OnTask
    BY <2>2 DEF QueueInv, TriesLeft, Exists
  <2> QED BY <2>10, <2>11, <2>12, <2>13 DEF QueueInv
<1>6. CASE Release(w) \/ Complete(w) \/ RecordFailure(w) \/ Crash(w)
  <2>1. Busy(w) /\ GoIdle(w) /\ UNCHANGED <<run, request>>
    BY <1>6 DEF Release, Complete, RecordFailure, Crash, Busy, At
  <2>2. PICK t \in Tasks : t = TaskOf(w) /\ tasks[t] \in TaskRow
    BY <1>3, <2>1
  <2>3. /\ \A u \in Tasks : u # t => tasks'[u] = tasks[u]
        /\ TriesLeft(t)' /\ (Exists(t)' => Exists(t))
        /\ At(w, "release") => tasks'[t].status = tasks[t].status
    <3>1. tasks \in [Tasks -> TaskRow] /\ TriesLeft(t) /\ worker[w].seen \in 0 .. MaxAttempts
      BY <2>1, BusyWorker DEF TypeInv, RowsOK, QueueInv, Busy, Job
    <3>2. CASE Crash(w) \/ (RecordFailure(w) /\ ~Exists(t))
      BY <2>2, <3>1, <3>2 DEF Crash, RecordFailure, TriesLeft, Exists
    <3>3. CASE Release(w)
      <4>1. Exists(t) /\ tasks' = [tasks EXCEPT ![t] = Unlocked(tasks[t])]
        BY <2>2, <3>3 DEF Release
      <4>2. tasks'[t].status = tasks[t].status /\ tasks'[t].attempts = tasks[t].attempts
        BY <2>2, <3>1, <4>1, RowFields
      <4> QED BY <3>1, <4>1, <4>2 DEF TriesLeft, Exists
    <3>4. CASE Complete(w)
      <4>1. Exists(t) /\ tasks' = [tasks EXCEPT ![t] = Closed(tasks[t], "COMPLETED")]
        BY <2>2, <3>4 DEF Complete
      <4>2. tasks'[t].status = "COMPLETED" /\ ~At(w, "release")
        BY <2>2, <3>1, <3>4, <4>1, RowFields DEF Complete, At
      <4> QED BY <3>1, <4>1, <4>2 DEF TriesLeft, Terminal
    <3>5. CASE RecordFailure(w) /\ Exists(t)
      <4>1. tasks' = [tasks EXCEPT ![t] = FailureRecorded(tasks[t], worker[w].seen)]
        BY <2>2, <3>5 DEF RecordFailure
      <4>2. /\ tasks'[t].status \notin Terminal => tasks'[t].attempts < MaxAttempts
            /\ ~At(w, "release")
        BY <2>2, <3>1, <3>5, <4>1, RowFields DEF RecordFailure, At, Terminal
      <4> QED BY <3>1, <3>5, <4>1, <4>2 DEF TriesLeft
    <3> QED BY <1>6, <3>2, <3>3, <3>4, <3>5
  <2>4. /\ worker'[w].pc = "idle" /\ worker'[w].task = 0
        /\ \A v \in Workers \ {w} : worker'[v] = worker[v]
    BY <2>1, JobFields
  <2>5. ~Busy(w)' /\ TaskOf(w)' = 0 /\ WorkerRow(w)'
    BY <2>4 DEF Busy, At, TaskOf, WorkerRow
  <2> QED BY <2>1, <2>2, <2>3, <2>4, <2>5, WorkerChange
<1>7. CASE StageFails(w)
  <2>1. /\ Busy(w) /\ ~At(w, "record") /\ Throw(w) /\ UNCHANGED <<tasks, run, request>>
        /\ At(w, "release") => ~Exists(TaskOf(w))
    BY <1>7 DEF StageFails, Busy, At
  <2>2. PICK t \in Tasks : t = TaskOf(w) /\ tasks[t] \in TaskRow
    BY <1>3, <2>1
  <2>3. TriesLeft(t)' /\ (Exists(t)' <=> Exists(t))
    BY <2>1 DEF QueueInv, TriesLeft, Exists
  <2>4. CASE Exists(t)
    <3>1. /\ worker'[w].pc = "record" /\ worker'[w].task = t
          /\ worker'[w].seen = tasks[t].attempts
          /\ \A v \in Workers \ {w} : worker'[v] = worker[v]
      BY <2>1, <2>2, <2>4, JobFields DEF RowOf
    <3>2. Busy(w)' /\ TaskOf(w)' = t /\ Handles(w) /\ ~At(w, "release")
      BY <2>1, <2>2, <2>4, <3>1 DEF Busy, Handles, At, TaskOf
    <3>3. /\ tasks[t].lockedBy = w /\ tasks[t].lease = "held"
          /\ tasks[t].status \in NodeOwned \cup {"HANDED_OFF"}
      BY <2>1, <2>2, <2>4, <3>2 DEF QueueInv, WorkerRow, RowOf, At
    <3>4. WorkerRow(w)'
      BY <2>1, <3>1, <3>3 DEF WorkerRow, RowOf, TaskOf, At
    <3> QED BY <2>1, <2>2, <2>3, <3>1, <3>2, <3>4, WorkerChange
  <2>5. CASE ~Exists(t)
    <3>1. /\ worker'[w].pc = "idle" /\ worker'[w].task = 0
          /\ \A v \in Workers \ {w} : worker'[v] = worker[v]
      BY <2>1, <2>2, <2>5, JobFields
    <3>2. ~Busy(w)' /\ TaskOf(w)' = 0 /\ WorkerRow(w)'
      BY <3>1 DEF Busy, At, TaskOf, WorkerRow
    <3> QED BY <2>1, <2>2, <2>3, <2>5, <3>1, <3>2, WorkerChange
  <2> QED BY <2>4, <2>5
<1>8. CASE Heartbeat(w)
  <2>1. Busy(w) /\ UNCHANGED <<worker, run, request>>
    BY <1>8 DEF Heartbeat, Busy
  <2>2. PICK t \in Tasks : t = TaskOf(w) /\ tasks[t] \in TaskRow
    BY <1>3, <2>1
  <2>3. tasks' = [tasks EXCEPT ![t] = HeartBeaten(tasks[t], w)]
    BY <1>8, <2>2 DEF Heartbeat
  <2>4. /\ tasks'[t].status = tasks[t].status /\ tasks'[t].attempts = tasks[t].attempts
        /\ tasks'[t].lockedBy = tasks[t].lockedBy /\ tasks'[t].lease \in {tasks[t].lease, "held"}
        /\ \A u \in Tasks : u # t => tasks'[u] = tasks[u]
    BY <2>2, <2>3, RowFields DEF TypeInv, RowsOK
  <2>5. TriesLeft(t)' /\ (Exists(t)' <=> Exists(t))
    BY <2>4 DEF QueueInv, TriesLeft, Exists
  <2>6. Busy(w)' /\ TaskOf(w)' = t /\ (Handles(w) \/ ~Handles(w)')
    BY <2>1, <2>2 DEF Busy, Handles, At, TaskOf
  <2>7. WorkerRow(w)'
    <3>1. WorkerRow(w)
      BY DEF QueueInv
    <3> QED BY <2>1, <2>2, <2>4, <2>5, <3>1 DEF WorkerRow, RowOf, TaskOf, Busy, Handles, At
  <2> QED BY <2>1, <2>2, <2>4, <2>5, <2>6, <2>7, WorkerChange
<1>9. ~EnqueueReplyLost(w) /\ ~ReleaseFails(w) /\ ~CleanupFails(w)
  BY DEF EnqueueReplyLost, ReleaseFails, CleanupFails, Fault, NoOverrides
<1> QED BY <1>1, <1>2, <1>4, <1>5, <1>6, <1>7, <1>8, <1>9 DEF WorkerStep, HandlerStep

-----------------------------------------------------------------------------
(* Steps that leave the workers alone.                                      *)

\* Runs go on, on their tasks, or end.
LEMMA WorkersAside ==
  ASSUME QueueInv, UNCHANGED worker,
         \A r \in Runs : \/ Active(r)' = Active(r) /\ run'[r].task = run[r].task
                         \/ ~Active(r)' /\ run'[r].task = 0,
         \A w \in Workers : WorkerRow(w)', \A r \in Runs : RunRow(r)',
         \A t \in Tasks : TriesLeft(t)', \A q \in Requests : request'[q].pc \notin OnTask
  PROVE  QueueInv'
<1>1. \A w \in Workers : Busy(w)' = Busy(w) /\ Handles(w)' = Handles(w) /\ TaskOf(w)' = TaskOf(w)
  BY DEF Busy, Handles, At, TaskOf
<1>2. OneWorker' /\ Parked'
  BY <1>1 DEF QueueInv, OneWorker, Parked
<1>3. OneRun' /\ Apart'
  BY <1>1 DEF QueueInv, OneRun, Apart
<1> QED BY <1>2, <1>3 DEF QueueInv

\* A worker none of whose rows is touched keeps what it knows.
LEMMA WorkerRowKept ==
  ASSUME QueueInv, UNCHANGED worker, NEW w \in Workers,
         Busy(w) => tasks'[TaskOf(w)] = tasks[TaskOf(w)]
  PROVE  WorkerRow(w)'
<1>1. WorkerRow(w)
  BY DEF QueueInv
<1>2. Busy(w)' = Busy(w) /\ Handles(w)' = Handles(w) /\ TaskOf(w)' = TaskOf(w)
  BY DEF Busy, Handles, At, TaskOf
<1>3. Busy(w) => RowOf(w)' = RowOf(w) /\ (Exists(TaskOf(w))' <=> Exists(TaskOf(w)))
  BY <1>2 DEF RowOf, Exists, TaskOf
<1> QED BY <1>1, <1>2, <1>3 DEF WorkerRow, At

LEMMA LeaseQueueStep ==
  ASSUME TypeInv, QueueInv, NoOverrides, NEW t \in Tasks, LeaseRunsOut(t) \/ HeartbeatsLost(t)
  PROVE  QueueInv'
<1>1. LeaseRunsOut(t)
  BY DEF HeartbeatsLost, Fault, NoOverrides
<1>2. /\ UNCHANGED <<worker, run, request>> /\ \A u \in Tasks : u # t => tasks'[u] = tasks[u]
      /\ tasks'[t].status = tasks[t].status /\ tasks'[t].attempts = tasks[t].attempts
      /\ \A w \in Workers : TaskOf(w) = t => tasks[t].lockedBy # w
  BY <1>1 DEF LeaseRunsOut, TypeInv, RowsOK, TaskRow
<1>3. \A u \in Tasks : tasks'[u].status = tasks[u].status /\ tasks'[u].attempts = tasks[u].attempts
  BY <1>2
<1>4. ASSUME NEW w \in Workers PROVE WorkerRow(w)'
  <2>1. CASE ~Busy(w) \/ TaskOf(w) # t
    <3>1. Busy(w) => TaskOf(w) \in Tasks
      BY BusyWorker DEF Busy, Inserted
    <3> QED BY <1>2, <2>1, <3>1, WorkerRowKept
  <2>2. CASE Busy(w) /\ TaskOf(w) = t
    <3>1. Exists(t) => ~Handles(w) /\ tasks[t].status \in PythonOwned \cup Terminal
      BY <1>2, <2>2 DEF QueueInv, WorkerRow, RowOf, Handles
    <3>2. /\ TaskOf(w)' = t /\ Handles(w)' = Handles(w) /\ worker'[w] = worker[w]
          /\ Exists(t)' <=> Exists(t)
      BY <1>2, <2>2 DEF TaskOf, Handles, Busy, At, Exists
    <3> QED BY <1>2, <2>2, <3>1, <3>2 DEF WorkerRow, RowOf, Handles, Busy, At
  <2> QED BY <2>1, <2>2
<1>5. \A r \in Runs : RunRow(r)' /\ Active(r)' = Active(r) /\ run'[r].task = run[r].task
  <2>1. \A r \in Runs : Active(r) => run[r].task \in Tasks
    BY BusyRun DEF Active, Inserted
  <2> QED BY <1>2, <1>3, <2>1 DEF QueueInv, RunRow, Active, RunAt, Exists
<1>6. \A u \in Tasks : TriesLeft(u)'
  BY <1>3 DEF QueueInv, TriesLeft, Exists
<1>7. \A q \in Requests : request'[q].pc \notin OnTask
  BY <1>2 DEF QueueInv
<1> QED BY <1>2, <1>4, <1>5, <1>6, <1>7, WorkersAside

\* What a run's step does to the table: it writes the row of its task, or
\* nothing; and where it goes.
LEMMA RunRows ==
  ASSUME TypeInv, NEW r \in Runs, RunStep(r) \/ RunUnrecorded(r), NEW t \in Tasks,
         t = run[r].task, tasks[t] \in TaskRow
  PROVE  /\ \A p \in Runs \ {r} : run'[p] = run[p]
         /\ \/ run'[r].pc = "free" /\ run'[r].task = 0
            \/ run'[r].pc # "free" /\ run'[r].task = t /\ ~RunAt(r, "log")
         /\ \A u \in Tasks : u # t => tasks'[u] = tasks[u]
         /\ \/ tasks'[t] = tasks[t] /\ (run'[r].pc = "log" => ~Exists(t))
            \/ /\ Exists(t) /\ tasks'[t].attempts = tasks[t].attempts
               /\ \/ /\ tasks'[t].status \in PythonOwned
                     /\ run'[r].pc \notin {"free", "log"}
                  \/ /\ tasks'[t].status \in Terminal
                     /\ run'[r].pc \in {"free", "log"}
<1>1. run \in [Runs -> Run] /\ run[r] \in Run
  BY DEF TypeInv, RunsOK
<1>2. ASSUME EndRun(r)
      PROVE  /\ \A p \in Runs \ {r} : run'[p] = run[p]
             /\ run'[r].pc = "free" /\ run'[r].task = 0
  BY <1>1, <1>2 DEF EndRun, FreeRun
<1>3. ASSUME NEW pc \in RunPC, RunGoto(r, pc)
      PROVE  /\ \A p \in Runs \ {r} : run'[p] = run[p]
             /\ run'[r].pc = pc /\ run'[r].task = t
  BY <1>1, <1>3 DEF RunGoto, Run
<1>4. ASSUME Exists(t), NEW st, tasks' = [tasks EXCEPT ![t] = WithStatus(tasks[t], st)]
      PROVE  /\ \A u \in Tasks : u # t => tasks'[u] = tasks[u]
             /\ tasks'[t].status = st /\ tasks'[t].attempts = tasks[t].attempts
  BY <1>4, RowFields DEF TypeInv, RowsOK
<1>5. ASSUME Exists(t), NEW st, tasks' = [tasks EXCEPT ![t] = Closed(tasks[t], st)]
      PROVE  /\ \A u \in Tasks : u # t => tasks'[u] = tasks[u]
             /\ tasks'[t].status = st /\ tasks'[t].attempts = tasks[t].attempts
  BY <1>5, RowFields DEF TypeInv, RowsOK
<1>6. \/ UNCHANGED tasks /\ EndRun(r)
      \/ /\ UNCHANGED tasks /\ ~RunAt(r, "log")
         /\ \E pc \in RunPC \ {"free", "log"} : RunGoto(r, pc)
      \/ UNCHANGED tasks /\ ~Exists(t) /\ ~RunAt(r, "log") /\ RunGoto(r, "log")
      \/ /\ Exists(t) /\ ~RunAt(r, "log")
         /\ \E pc \in RunPC \ {"free", "log"} : RunGoto(r, pc)
         /\ \E st \in PythonOwned : tasks' = [tasks EXCEPT ![t] = WithStatus(tasks[t], st)]
      \/ /\ Exists(t) /\ (EndRun(r) \/ (~RunAt(r, "log") /\ RunGoto(r, "log")))
         /\ \E st \in Terminal : tasks' = [tasks EXCEPT ![t] = Closed(tasks[t], st)]
  <2>1. CASE RunStart(r)
    BY <2>1 DEF RunStart, TaskSet, RunAt, PythonOwned, RunPC
  <2>2. CASE RunTranscribes(r) \/ RunSummary(r)
    BY <2>2 DEF RunTranscribes, RunSummary, RunAt, RunPC
  <2>3. CASE RunSilent(r) \/ RunFails(r)
    BY <2>3 DEF RunSilent, RunFails, TaskSet, Terminal
  <2>4. CASE RunSummarizes(r)
    BY <2>4 DEF RunSummarizes, TaskSet, RunAt, PythonOwned, RunPC
  <2>5. CASE RunFinish(r)
    BY <2>5 DEF RunFinish, TaskSet, RunAt, Terminal
  <2>6. CASE RunLogs(r) \/ RunUnrecorded(r)
    BY <2>6 DEF RunLogs, RunUnrecorded
  <2> QED BY <2>1, <2>2, <2>3, <2>4, <2>5, <2>6 DEF RunStep
<1>7. CASE UNCHANGED tasks /\ EndRun(r)
  BY <1>2, <1>7
<1>8. CASE /\ UNCHANGED tasks /\ ~RunAt(r, "log")
           /\ \E pc \in RunPC \ {"free", "log"} : RunGoto(r, pc)
  BY <1>3, <1>8
<1>9. CASE UNCHANGED tasks /\ ~Exists(t) /\ ~RunAt(r, "log") /\ RunGoto(r, "log")
  BY <1>3, <1>9 DEF RunPC
<1>10. CASE /\ Exists(t) /\ ~RunAt(r, "log")
            /\ \E pc \in RunPC \ {"free", "log"} : RunGoto(r, pc)
            /\ \E st \in PythonOwned : tasks' = [tasks EXCEPT ![t] = WithStatus(tasks[t], st)]
  BY <1>3, <1>4, <1>10
<1>11. CASE /\ Exists(t) /\ (EndRun(r) \/ (~RunAt(r, "log") /\ RunGoto(r, "log")))
            /\ \E st \in Terminal : tasks' = [tasks EXCEPT ![t] = Closed(tasks[t], st)]
  <2>1. /\ \A u \in Tasks : u # t => tasks'[u] = tasks[u]
        /\ tasks'[t].status \in Terminal /\ tasks'[t].attempts = tasks[t].attempts
    BY <1>5, <1>11
  <2>2. /\ \A p \in Runs \ {r} : run'[p] = run[p]
        /\ \/ run'[r].pc = "free" /\ run'[r].task = 0
           \/ run'[r].pc = "log" /\ run'[r].task = t /\ ~RunAt(r, "log")
    BY <1>2, <1>3, <1>11 DEF RunPC
  <2> QED BY <1>11, <2>1, <2>2
<1> QED BY <1>6, <1>7, <1>8, <1>9, <1>10, <1>11

\* A step of a run: it writes its row or leaves it, stays or ends.
LEMMA RunQueueStep ==
  ASSUME TypeInv, QueueInv, NEW r \in Runs, RunStep(r) \/ RunUnrecorded(r)
  PROVE  QueueInv'
<1>1. Active(r) /\ UNCHANGED <<worker, request>>
  BY DEF RunStep, RunStart, RunTranscribes, RunSilent, RunSummarizes, RunSummary, RunFinish,
     RunLogs, RunFails, RunUnrecorded, Active, RunAt
<1>2. PICK t \in Tasks : t = run[r].task /\ tasks[t] \in TaskRow
  BY <1>1, BusyRun DEF Active, Inserted
<1>3. /\ \A u \in Tasks : u # t => tasks'[u] = tasks[u]
      /\ \/ tasks'[t] = tasks[t] /\ (run'[r].pc = "log" => ~Exists(t))
         \/ /\ Exists(t) /\ tasks'[t].attempts = tasks[t].attempts
            /\ \/ tasks'[t].status \in PythonOwned /\ run'[r].pc \notin {"free", "log"}
               \/ tasks'[t].status \in Terminal /\ run'[r].pc \in {"free", "log"}
  BY <1>2, RunRows
<1>4. /\ \A p \in Runs \ {r} : run'[p] = run[p]
      /\ \/ run'[r].pc = "free" /\ ~Active(r)' /\ run'[r].task = 0
         \/ run'[r].pc # "free" /\ Active(r)' /\ run'[r].task = t /\ ~RunAt(r, "log")
  BY <1>2, RunRows DEF Active, RunAt
<1>5. Exists(t) => IF RunAt(r, "log") THEN tasks[t].status \in Terminal
                   ELSE tasks[t].status \in PythonOwned
  BY <1>1, <1>2 DEF QueueInv, RunRow
<1>6. \A w \in Workers : Busy(w) /\ TaskOf(w) = t => At(w, "release")
  BY <1>1, <1>2 DEF QueueInv, Apart, Handles
<1>7. ASSUME NEW w \in Workers PROVE WorkerRow(w)'
  <2>1. CASE ~Busy(w) \/ TaskOf(w) # t \/ tasks'[t] = tasks[t]
    <3>1. Busy(w) => TaskOf(w) \in Tasks
      BY BusyWorker DEF Busy, Inserted
    <3> QED BY <1>1, <1>3, <2>1, <3>1, WorkerRowKept
  <2>2. CASE Busy(w) /\ TaskOf(w) = t /\ tasks'[t] # tasks[t]
    <3>1. At(w, "release")' /\ TaskOf(w)' = t /\ ~Handles(w)'
      BY <1>1, <1>6, <2>2 DEF At, TaskOf, Handles
    <3>2. tasks'[t].status \in PythonOwned \cup Terminal
      BY <1>3, <2>2
    <3> QED BY <3>1, <3>2 DEF WorkerRow, RowOf, At
  <2> QED BY <2>1, <2>2
<1>8. ASSUME NEW p \in Runs, p # r
      PROVE  Active(p)' = Active(p) /\ run'[p].task = run[p].task /\ RunRow(p)'
  <2>1. Active(p)' = Active(p) /\ run'[p] = run[p]
    BY <1>4, <1>8 DEF Active, RunAt
  <2>2. Active(p) => run[p].task \in Tasks /\ run[p].task # t
    BY <1>1, <1>2, <1>8, BusyRun DEF QueueInv, OneRun, Active, Inserted
  <2> QED BY <1>3, <2>1, <2>2 DEF QueueInv, RunRow, RunAt, Exists
<1>9. RunRow(r)'
  <2>1. CASE run'[r].pc = "free"
    BY <1>4, <2>1 DEF RunRow
  <2>2. CASE run'[r].pc = "log"
    <3>1. Exists(t)' => tasks'[t].status \in Terminal
      BY <1>3, <2>2 DEF Exists
    <3> QED BY <1>4, <2>2, <3>1 DEF RunRow, RunAt
  <2>3. CASE run'[r].pc \notin {"free", "log"}
    <3>1. Exists(t)' => tasks'[t].status \in PythonOwned
      BY <1>3, <1>4, <1>5, <2>3 DEF Exists
    <3> QED BY <1>4, <2>3, <3>1 DEF RunRow, RunAt
  <2> QED BY <2>1, <2>2, <2>3
<1>10. ASSUME NEW u \in Tasks PROVE TriesLeft(u)'
  <2>1. CASE u # t \/ tasks'[t] = tasks[t]
    BY <1>3, <2>1 DEF QueueInv, TriesLeft, Exists
  <2>2. CASE u = t /\ tasks'[t] # tasks[t] /\ tasks'[t].status \in Terminal
    BY <2>2 DEF TriesLeft
  <2>3. CASE u = t /\ tasks'[t] # tasks[t] /\ tasks'[t].status \notin Terminal
    <3>1. Exists(t) /\ tasks'[t].attempts = tasks[t].attempts /\ ~RunAt(r, "log")
      BY <1>3, <1>4, <2>3
    <3>2. tasks[t].status \notin Terminal
      BY <1>5, <3>1 DEF PythonOwned, Terminal
    <3>3. tasks'[t].attempts < MaxAttempts
      BY <1>2, <3>1, <3>2 DEF QueueInv, TriesLeft
    <3> QED BY <2>3, <3>3 DEF TriesLeft
  <2> QED BY <2>1, <2>2, <2>3
<1>11. \A q \in Requests : request'[q].pc \notin OnTask
  BY <1>1 DEF QueueInv
<1>12. \A p \in Runs : \/ Active(p)' = Active(p) /\ run'[p].task = run[p].task
                       \/ ~Active(p)' /\ run'[p].task = 0
  <2>1. Active(r)' \in BOOLEAN /\ Active(r) \in BOOLEAN
    BY DEF Active
  <2> QED BY <1>1, <1>2, <1>4, <1>8, <2>1
<1>13. \A p \in Runs : RunRow(p)'
  BY <1>8, <1>9
<1> QED BY <1>1, <1>7, <1>10, <1>11, <1>12, <1>13, WorkersAside

LEMMA RestartQueueStep == ASSUME TypeInv, QueueInv, Restart PROVE QueueInv'
<1>1. PICK swept \in SUBSET {t \in Tasks : /\ tasks[t].status \in PythonOwned
                                           /\ tasks[t].lease # "held"} :
        tasks' = [t \in Tasks |-> IF t \in swept THEN Closed(tasks[t], "FAILED") ELSE tasks[t]]
  BY DEF Restart
<1>2. /\ UNCHANGED <<worker, request>>
      /\ \A r \in Runs : ~Active(r)' /\ run'[r].task = 0
  BY DEF Restart, Active, RunAt, FreeRun
<1>3. \A t \in Tasks : \/ tasks'[t] = tasks[t]
                       \/ /\ tasks[t].status \in PythonOwned /\ tasks[t].lease # "held"
                          /\ tasks'[t].status = "FAILED"
  BY <1>1, RowFields DEF TypeInv, RowsOK
<1>4. ASSUME NEW w \in Workers PROVE WorkerRow(w)'
  <2>1. PICK t : t = TaskOf(w)
    OBVIOUS
  <2>2. CASE Busy(w) /\ tasks'[t] # tasks[t]
    <3>1. t \in Tasks
      BY <2>1, <2>2, BusyWorker DEF Busy, Inserted
    <3>2. tasks[t].status \in PythonOwned /\ tasks[t].lease # "held" /\ tasks'[t].status = "FAILED"
      BY <1>3, <2>2, <3>1
    \* A handler holds the lease: the sweep passes over its row.
    <3>3. At(w, "release")
      BY <2>1, <2>2, <3>2 DEF QueueInv, WorkerRow, RowOf, Handles, Exists, PythonOwned, Missing
    <3>4. At(w, "release")' /\ TaskOf(w)' = t /\ ~Handles(w)'
      BY <1>2, <2>1, <3>3 DEF At, TaskOf, Handles
    <3> QED BY <3>2, <3>4 DEF WorkerRow, RowOf, At, Terminal
  <2>3. CASE ~(Busy(w) /\ tasks'[t] # tasks[t])
    BY <1>2, <2>1, <2>3, WorkerRowKept
  <2> QED BY <2>2, <2>3
<1>5. \A r \in Runs : RunRow(r)'
  BY <1>2 DEF RunRow
<1>6. ASSUME NEW t \in Tasks PROVE TriesLeft(t)'
  <2>1. CASE tasks'[t] = tasks[t]
    BY <2>1 DEF QueueInv, TriesLeft, Exists
  <2>2. CASE tasks'[t].status = "FAILED"
    BY <2>2 DEF TriesLeft, Terminal
  <2> QED BY <1>3, <2>1, <2>2
<1>7. \A q \in Requests : request'[q].pc \notin OnTask
  BY <1>2 DEF QueueInv
<1> QED BY <1>2, <1>4, <1>5, <1>6, <1>7, WorkersAside

\* Requests put new tasks in the queue, and delete some.
LEMMA RequestQueueStep ==
  ASSUME TypeInv, QueueInv, NoOverrides, NEW q \in Requests, RequestStep(q)
  PROVE  QueueInv'
<1>1. UNCHANGED <<worker, run>>
  BY DEF RequestStep, RequestSent, RequestGoesOn, InitUpload, CompleteRead, AbortUpload,
     ResetObjects, RetryRead, RearmRead, CancelRead, InitRow, InitSession, CompleteUpload,
     CompleteStatus, CompleteTask, CompleteSession, AbortRow, ResetRow, ResetSession, RetryRow,
     RetryTask, RearmPayload, RearmRow, CancelRow, RequestFails
<1>2. /\ request[q].pc \notin OnTask
      /\ \A t \in Tasks : ~RearmRead(q, t) /\ ~CancelRead(q, t)
      /\ ~RearmPayload(q) /\ ~RearmRow(q) /\ ~CancelRow(q)
  BY DEF QueueInv, OnTask, RearmRead, CancelRead, RearmPayload, RearmRow, CancelRow, New,
     NoOverrides
<1>3. \A p \in Requests : request'[p].pc \notin OnTask
  <2>1. request \in [Requests -> Request]
    BY DEF TypeInv, RequestsOK
  <2>2. ASSUME NEW pc, pc \notin OnTask, NEW s, NEW take, NEW saw, Remember(q, pc, s, take, saw)
        PROVE  \A p \in Requests : request'[p].pc \notin OnTask
    BY <2>1, <2>2 DEF QueueInv, Remember
  <2>3. ASSUME NEW pc, pc \notin OnTask, Next_(q, pc)
        PROVE  \A p \in Requests : request'[p].pc \notin OnTask
    BY <2>1, <2>3 DEF QueueInv, Next_, Request
  <2>4. ASSUME Answer(q)
        PROVE  \A p \in Requests : request'[p].pc \notin OnTask
    BY <2>1, <2>4 DEF QueueInv, Answer, Answered, Unsent, OnTask
  <2>5. CASE \E s \in Sessions : \/ InitUpload(q, s) \/ CompleteRead(q, s)
                                 \/ AbortUpload(q, s) \/ ResetObjects(q, s) \/ RetryRead(q, s)
    BY <2>2, <2>5 DEF InitUpload, CompleteRead, AbortUpload, ResetObjects, RetryRead, OnTask
  <2>6. CASE RequestGoesOn(q)
    BY <1>2, <2>3, <2>4, <2>6 DEF RequestGoesOn, InitRow, InitSession, CompleteUpload,
       CompleteStatus, CompleteTask, CompleteSession, AbortRow, ResetRow, ResetSession, RetryRow,
       RetryTask, RequestFails, OnTask
  <2> QED BY <1>2, <2>5, <2>6 DEF RequestStep, RequestSent
<1>4. \A t \in Tasks : \/ tasks'[t] = tasks[t]
                       \/ tasks'[t].status = "DELETED"
                       \/ /\ tasks[t].status = "ABSENT" /\ tasks'[t].status = "PENDING"
                          /\ tasks'[t].attempts = 0
  <2>1. CASE UNCHANGED tasks
    BY <2>1
  <2>2. CASE CreateTask(q)
    <3>1. PICK t \in Tasks : /\ tasks[t].status = "ABSENT"
                             /\ tasks' = [tasks EXCEPT ![t] = Created(request[q].session)]
      BY <2>2 DEF CreateTask
    <3>2. \A s : Created(s).status = "PENDING" /\ Created(s).attempts = 0
      BY DEF Created, NoRow
    <3> QED BY <3>1, <3>2 DEF TypeInv, RowsOK
  <2>3. CASE ResetRow(q)
    <3>1. \A t \in Tasks : Closed(tasks[t], "DELETED").status = "DELETED"
      BY RowFields DEF TypeInv, RowsOK
    <3> QED BY <2>3, <3>1 DEF ResetRow
  <2>4. UNCHANGED tasks \/ CreateTask(q) \/ ResetRow(q)
    BY <1>2 DEF RequestStep, RequestSent, RequestGoesOn, InitUpload, CompleteRead, AbortUpload,
       ResetObjects, RetryRead, InitRow, InitSession, CompleteUpload, CompleteStatus,
       CompleteTask, CompleteSession, AbortRow, ResetSession, RetryRow, RetryTask, RequestFails
  <2> QED BY <2>1, <2>2, <2>3, <2>4
\* Nobody is on a row that is not there yet.
<1>5. ASSUME NEW w \in Workers PROVE WorkerRow(w)'
  <2>1. PICK t : t = TaskOf(w)
    OBVIOUS
  <2>2. CASE Busy(w) /\ tasks'[t] # tasks[t]
    <3>1. Inserted(t)
      BY <2>1, <2>2, BusyWorker DEF Busy
    <3>2. tasks'[t].status = "DELETED" /\ TaskOf(w)' = t
      BY <1>1, <1>4, <2>1, <2>2, <3>1 DEF Inserted, TaskOf
    <3> QED BY <3>2 DEF WorkerRow, Exists, Missing
  <2>3. CASE ~(Busy(w) /\ tasks'[t] # tasks[t])
    BY <1>1, <2>1, <2>3, WorkerRowKept
  <2> QED BY <2>2, <2>3
<1>6. ASSUME NEW r \in Runs
      PROVE  RunRow(r)' /\ Active(r)' = Active(r) /\ run'[r].task = run[r].task
  <2>1. Active(r)' = Active(r) /\ run'[r].task = run[r].task
    BY <1>1 DEF Active, RunAt
  <2>2. Active(r) => Inserted(run[r].task)
    BY BusyRun DEF Active
  <2>3. RunRow(r) /\ (RunAt(r, "log")' <=> RunAt(r, "log"))
    BY <1>1 DEF QueueInv, RunAt
  <2> QED BY <1>4, <2>1, <2>2, <2>3 DEF RunRow, Exists, Missing, Inserted
<1>7. ASSUME NEW t \in Tasks PROVE TriesLeft(t)'
  <2>1. CASE tasks'[t] = tasks[t]
    BY <2>1 DEF QueueInv, TriesLeft, Exists
  <2>2. CASE tasks'[t].status = "DELETED"
    BY <2>2 DEF TriesLeft, Exists, Missing
  <2>3. CASE tasks'[t].attempts = 0
    BY <2>3, TableAssumption DEF TriesLeft
  <2> QED BY <1>4, <2>1, <2>2, <2>3
<1> QED BY <1>1, <1>3, <1>5, <1>6, <1>7, WorkersAside

LEMMA QueueNext ==
  ASSUME NoOverrides, TypeInv, QueueInv, [Next]_vars
  PROVE  QueueInv'
<1>1. CASE UNCHANGED vars
  <2>1. UNCHANGED <<tasks, worker, run, request>>
    BY <1>1 DEF vars
  <2>2. \A w \in Workers : WorkerRow(w)'
    BY <2>1, WorkerRowKept
  <2>3. \A r \in Runs : Active(r)' = Active(r) /\ run'[r].task = run[r].task /\ RunRow(r)'
    BY <2>1 DEF QueueInv, Active, RunAt, RunRow, Exists
  <2>4. \A t \in Tasks : TriesLeft(t)'
    BY <2>1 DEF QueueInv, TriesLeft, Exists
  <2>5. \A q \in Requests : request'[q].pc \notin OnTask
    BY <2>1 DEF QueueInv
  <2> QED BY <2>1, <2>2, <2>3, <2>4, <2>5, WorkersAside
<1> QED BY <1>1, WorkerQueueStep, LeaseQueueStep, RunQueueStep, RestartQueueStep,
           RequestQueueStep DEF Next

LEMMA QueueAlways == ASSUME NoOverrides PROVE Spec => [](TypeInv /\ QueueInv)
<1>1. Init => TypeInv /\ QueueInv
  BY TypeInit, QueueInit
<1>2. TypeInv /\ QueueInv /\ [Next]_vars => (TypeInv /\ QueueInv)'
  BY TypeNext, QueueNext
<1> QED BY <1>1, <1>2, PTL DEF Spec

\* A task is worked on by one process at a time, a worker's handler or a
\* Python run: claimNext's lease and its exclusion of the statuses Python
\* owns suffice, through crashes, restarts and deletions.
THEOREM OneOwnerAlways == ASSUME NoOverrides PROVE Spec => []OneOwner
BY QueueImplies, QueueAlways, PTL

\* A task that is still to be worked on has attempts left (recordFailure):
\* no order of failures, crashes and sweeps gets it past maxAttempts.
THEOREM AttemptsLeftAlways == ASSUME NoOverrides PROVE Spec => []AttemptsLeft
BY QueueImplies, QueueAlways, PTL

-----------------------------------------------------------------------------
(* The queue implements TaskOwnership, when nobody deletes a recording      *)
(* either.                                                                  *)

NoDeletions == "reset" \notin RequestKinds

NoneDeleted ==
  /\ \A t \in Tasks : tasks[t].status # "DELETED"
  /\ \A q \in Requests : request[q].pc # "resetRow"

Handled(t) == \E w \in Workers : Handles(w) /\ TaskOf(w) = t

Owner == [t \in Tasks |-> OwnerOf(t)]

\* Who owns a task, by its row and whether a handler is on it.
LEMMA OwnerValues ==
  ASSUME NEW t \in Tasks, Parked
  PROVE  /\ tasks[t].status \in Missing => OwnerOf(t) = "nobody"
         /\ Exists(t) /\ (Handled(t) \/ tasks[t].status \in NodeOwned) => OwnerOf(t) = "worker"
         /\ ~Handled(t) /\ tasks[t].status = "PENDING" => OwnerOf(t) = "queue"
         /\ ~Handled(t) /\ tasks[t].status \in PythonOwned => OwnerOf(t) = "python"
         /\ ~Handled(t) /\ tasks[t].status \in Terminal => OwnerOf(t) = "finished"
<1>1. Handlers(t) # {} <=> Handled(t)
  <2>1. t # 0
    BY PipelineAssumption
  <2> QED BY <2>1 DEF Parked, Handlers, Handled, Handles
<1>2. tasks[t].status \in Missing => OwnerOf(t) = "nobody"
  BY DEF OwnerOf, Exists, Missing, PythonOwned, Terminal
<1>3. Exists(t) /\ (Handled(t) \/ tasks[t].status \in NodeOwned) => OwnerOf(t) = "worker"
  BY <1>1 DEF OwnerOf, Exists, Missing, NodeOwned, PythonOwned, Terminal
<1>4. ~Handled(t) /\ tasks[t].status = "PENDING" => OwnerOf(t) = "queue"
  BY <1>1 DEF OwnerOf, Exists, Missing, NodeOwned, PythonOwned, Terminal
<1>5. ~Handled(t) /\ tasks[t].status \in PythonOwned => OwnerOf(t) = "python"
  BY <1>1 DEF OwnerOf, Exists, Missing, NodeOwned, PythonOwned, Terminal
<1>6. ~Handled(t) /\ tasks[t].status \in Terminal => OwnerOf(t) = "finished"
  BY <1>1 DEF OwnerOf, Exists, Missing, NodeOwned, PythonOwned, Terminal
<1> QED BY <1>2, <1>3, <1>4, <1>5, <1>6

LEMMA NextOwnerValues ==
  ASSUME NEW t \in Tasks, Parked'
  PROVE  /\ Exists(t)' /\ (Handled(t)' \/ tasks'[t].status \in NodeOwned) => OwnerOf(t)' = "worker"
         /\ ~Handled(t)' /\ tasks'[t].status = "PENDING" => OwnerOf(t)' = "queue"
         /\ ~Handled(t)' /\ tasks'[t].status \in PythonOwned => OwnerOf(t)' = "python"
         /\ ~Handled(t)' /\ tasks'[t].status \in Terminal => OwnerOf(t)' = "finished"
<1>1. Handlers(t)' # {} <=> Handled(t)'
  <2>1. t # 0
    BY PipelineAssumption
  <2> QED BY <2>1 DEF Parked, Handlers, Handled, Handles
<1>2. Exists(t)' /\ (Handled(t)' \/ tasks'[t].status \in NodeOwned) => OwnerOf(t)' = "worker"
  BY <1>1 DEF OwnerOf, Exists, Missing, NodeOwned, PythonOwned, Terminal
<1>3. ~Handled(t)' /\ tasks'[t].status = "PENDING" => OwnerOf(t)' = "queue"
  BY <1>1 DEF OwnerOf, Exists, Missing, NodeOwned, PythonOwned, Terminal
<1>4. ~Handled(t)' /\ tasks'[t].status \in PythonOwned => OwnerOf(t)' = "python"
  BY <1>1 DEF OwnerOf, Exists, Missing, NodeOwned, PythonOwned, Terminal
<1>5. ~Handled(t)' /\ tasks'[t].status \in Terminal => OwnerOf(t)' = "finished"
  BY <1>1 DEF OwnerOf, Exists, Missing, NodeOwned, PythonOwned, Terminal
<1> QED BY <1>2, <1>3, <1>4, <1>5

LEMMA SameOwner ==
  ASSUME NEW t \in Tasks, Parked, Parked', Handled(t)' <=> Handled(t),
         tasks'[t].status = tasks[t].status
  PROVE  OwnerOf(t)' = OwnerOf(t)
<1>1. t # 0
  BY PipelineAssumption
<1>2. Handlers(t) # {} <=> Handled(t)
  BY <1>1 DEF Parked, Handlers, Handled, Handles
<1>3. Handlers(t)' # {} <=> Handled(t)'
  BY <1>1 DEF Parked, Handlers, Handled, Handles
<1> QED BY <1>2, <1>3 DEF OwnerOf, Exists

\* One task changes hands, or none does.
LEMMA OnePasses ==
  ASSUME NEW t \in Tasks, \A u \in Tasks : u # t => OwnerOf(u)' = OwnerOf(u),
         \/ OwnerOf(t)' = OwnerOf(t)
         \/ OwnerOf(t) = "nobody" /\ OwnerOf(t)' = "queue"
         \/ OwnerOf(t) = "queue" /\ OwnerOf(t)' = "worker"
         \/ OwnerOf(t) = "worker" /\ OwnerOf(t)' \in {"queue", "python", "finished"}
         \/ OwnerOf(t) = "python" /\ OwnerOf(t)' = "finished"
  PROVE  O!Next \/ UNCHANGED Owner
<1>1. CASE OwnerOf(t)' = OwnerOf(t)
  BY <1>1 DEF Owner
<1>2. ASSUME NEW from, NEW to, OwnerOf(t) = from, OwnerOf(t)' = to
      PROVE  O!Pass(t, from, to)
  BY <1>2 DEF O!Pass
<1>3. CASE OwnerOf(t) = "nobody" /\ OwnerOf(t)' = "queue"
  <2>1. O!Submit(t)
    BY <1>2, <1>3 DEF O!Submit
  <2> QED BY <2>1 DEF O!Next
<1>4. CASE OwnerOf(t) = "queue" /\ OwnerOf(t)' = "worker"
  <2>1. O!Take(t)
    BY <1>2, <1>4 DEF O!Take
  <2> QED BY <2>1 DEF O!Next
<1>5. CASE OwnerOf(t) = "worker" /\ OwnerOf(t)' \in {"queue", "python", "finished"}
  <2>1. O!GiveBack(t) \/ O!HandOver(t) \/ O!Finish(t)
    BY <1>2, <1>5 DEF O!GiveBack, O!HandOver, O!Finish
  <2> QED BY <2>1 DEF O!Next
<1>6. CASE OwnerOf(t) = "python" /\ OwnerOf(t)' = "finished"
  <2>1. O!Finish(t)
    BY <1>2, <1>6 DEF O!Finish
  <2> QED BY <2>1 DEF O!Next
<1> QED BY <1>1, <1>3, <1>4, <1>5, <1>6

\* The step is of one worker and one task that no other worker is on.
LEMMA WorkerShifts ==
  ASSUME QueueInv, QueueInv', NEW w \in Workers, NEW t \in Tasks,
         \A v \in Workers \ {w} : worker'[v] = worker[v] /\ (Busy(v) => TaskOf(v) # t),
         Busy(w) => TaskOf(w) = t, Busy(w)' => TaskOf(w)' = t,
         \A u \in Tasks : u # t => tasks'[u].status = tasks[u].status
  PROVE  /\ Handled(t) <=> Handles(w)
         /\ Handled(t)' <=> Handles(w)'
         /\ \A u \in Tasks : u # t => OwnerOf(u)' = OwnerOf(u)
<1>1. \A v \in Workers \ {w} : /\ Busy(v)' = Busy(v) /\ Handles(v)' = Handles(v)
                               /\ TaskOf(v)' = TaskOf(v)
  BY DEF Busy, Handles, At, TaskOf
<1>2. Handled(t) <=> Handles(w)
  BY DEF Handled, Handles
<1>3. Handled(t)' <=> Handles(w)'
  BY <1>1 DEF Handled, Handles
<1>4. ASSUME NEW u \in Tasks, u # t
      PROVE  OwnerOf(u)' = OwnerOf(u)
  <2>1. Handled(u)' <=> Handled(u)
    <3>1. (Handles(w) => TaskOf(w) # u) /\ (Handles(w)' => TaskOf(w)' # u)
      BY <1>4 DEF Handles
    <3> QED BY <1>1, <3>1 DEF Handled
  <2> QED BY <1>4, <2>1, SameOwner DEF QueueInv
<1> QED BY <1>2, <1>3, <1>4

LEMMA WorkerPasses ==
  ASSUME TypeInv, QueueInv, QueueInv', NoneDeleted, NoOverrides, NEW w \in Workers, WorkerStep(w)
  PROVE  O!Next \/ UNCHANGED Owner
<1> USE DEF WorkerPC
<1>1. CASE Claim(w)
  <2>1. PICK t \in Tasks :
          /\ Runnable(tasks[t])
          /\ tasks' = [tasks EXCEPT ![t] = Claimed(tasks[t], w)]
          /\ worker' = [worker EXCEPT ![w] = [Idle EXCEPT !.pc = "begin", !.task = t,
                                                         !.push = tasks[t].push]]
    BY <1>1 DEF Claim
  <2>2. /\ worker'[w].pc = "begin" /\ worker'[w].task = t
        /\ \A v \in Workers \ {w} : worker'[v] = worker[v]
    BY <2>1 DEF TypeInv, JobsOK, Idle
  <2>3. /\ tasks[t] \in TaskRow /\ tasks'[t] = Claimed(tasks[t], w)
        /\ \A u \in Tasks : u # t => tasks'[u] = tasks[u]
    BY <2>1 DEF TypeInv, RowsOK
  <2>4. ~Busy(w) /\ Handles(w)' /\ TaskOf(w)' = t /\ \A v \in Workers : Busy(v) => TaskOf(v) # t
    BY <1>1, <2>1, <2>2, RunnableIsFree DEF Claim, Busy, Handles, At, TaskOf
  <2>5. /\ ~Handled(t) /\ Handled(t)'
        /\ \A u \in Tasks : u # t => OwnerOf(u)' = OwnerOf(u)
    BY <2>2, <2>3, <2>4, WorkerShifts DEF Handles
  <2>6. tasks'[t].status = "CLAIMED"
    BY <2>3, RowFields
  <2>7. OwnerOf(t)' = "worker"
    BY <2>5, <2>6, NextOwnerValues DEF QueueInv, Exists, Missing
  <2>8. OwnerOf(t) \in {"queue", "worker"}
    BY <2>1, <2>5, OwnerValues DEF QueueInv, Runnable, NodeOwned, Exists, Missing
  <2> QED BY <2>5, <2>7, <2>8, OnePasses
<1>2. ASSUME Busy(w)
      PROVE  \E t \in Tasks : /\ t = TaskOf(w) /\ tasks[t] \in TaskRow /\ Exists(t)
                              /\ \A v \in Workers \ {w} : Busy(v) => TaskOf(v) # t
  <2>1. TaskOf(w) \in Tasks /\ tasks[TaskOf(w)] \in TaskRow /\ Exists(TaskOf(w))
    BY <1>2, BusyWorker DEF Busy, Inserted, NoneDeleted, Exists, Missing
  <2> QED BY <1>2, <2>1 DEF QueueInv, OneWorker
\* Stages: the handler goes on, with the row in its hands.
<1>3. CASE \/ Begin(w) \/ Transcode(w) \/ PutVideo(w) \/ Thumbnail(w) \/ VideoReady(w)
           \/ Extract(w) \/ Upload(w) \/ PutAudio(w) \/ SetAudio(w) \/ HandOff(w)
           \/ StageFails(w)
  <2>1. Busy(w)
    BY <1>3 DEF Begin, Transcode, PutVideo, Thumbnail, VideoReady, Extract, Upload, PutAudio,
       SetAudio, HandOff, UpdateStatus, StageFails, Busy, At
  <2>2. PICK t \in Tasks : /\ t = TaskOf(w) /\ tasks[t] \in TaskRow /\ Exists(t)
                           /\ \A v \in Workers \ {w} : Busy(v) => TaskOf(v) # t
    BY <1>2, <2>1
  <2>3. Handles(w)
    BY <1>3, <2>1, <2>2 DEF Begin, Transcode, PutVideo, Thumbnail, VideoReady, Extract, Upload,
       PutAudio, SetAudio, HandOff, UpdateStatus, StageFails, Handles, At
  <2>4. /\ Handles(w)' /\ TaskOf(w)' = t
        /\ \A v \in Workers \ {w} : worker'[v] = worker[v]
    <3>1. CASE Begin(w)
      <4>1. worker \in [Workers -> Job]
        BY DEF TypeInv, JobsOK
      <4>2. worker'[w].pc \in {"transcode", "complete", "extract"} /\ worker'[w].task = t
        BY <2>2, <3>1, <4>1 DEF Begin, TaskOf, Job
      <4>3. \A v \in Workers \ {w} : worker'[v] = worker[v]
        BY <3>1, <4>1 DEF Begin
      <4> QED BY <4>2, <4>3 DEF Handles, Busy, At, TaskOf
    <3>2. CASE StageFails(w)
      <4>1. Throw(w)
        BY <3>2 DEF StageFails
      <4> QED BY <2>1, <2>2, <4>1, JobFields DEF Handles, Busy, At, TaskOf
    <3>3. CASE ~Begin(w) /\ ~StageFails(w)
      <4>1. PICK pc \in WorkerPC \ {"idle", "release"} : Goto(w, pc)
        BY <1>3, <3>3 DEF Transcode, PutVideo, Thumbnail, VideoReady, Extract, Upload, PutAudio,
           SetAudio, HandOff, UpdateStatus
      <4> QED BY <2>1, <2>2, <4>1, JobFields DEF Handles, Busy, At, TaskOf
    <3> QED BY <3>1, <3>2, <3>3
  <2>5. /\ Exists(t)'
        /\ \A u \in Tasks : u # t => tasks'[u].status = tasks[u].status
    <3>1. CASE UNCHANGED tasks
      BY <2>2, <3>1 DEF Exists
    <3>2. ASSUME NEW st \in NodeOwned \cup {"HANDED_OFF"},
                 tasks' = [tasks EXCEPT ![t] = WithStatus(tasks[t], st)]
          PROVE  /\ Exists(t)'
                 /\ \A u \in Tasks : u # t => tasks'[u].status = tasks[u].status
      <4>1. tasks'[t].status = st
        BY <2>2, <3>2, RowFields DEF TypeInv, RowsOK
      <4> QED BY <3>2, <4>1 DEF Exists, Missing, NodeOwned, TypeInv, RowsOK
    <3>3. \/ UNCHANGED tasks
          \/ \E st \in NodeOwned \cup {"HANDED_OFF"} :
               tasks' = [tasks EXCEPT ![t] = WithStatus(tasks[t], st)]
      BY <1>3, <2>2 DEF Begin, Transcode, PutVideo, Thumbnail, VideoReady, Extract, Upload,
         PutAudio, SetAudio, HandOff, UpdateStatus, StageFails, NodeOwned
    <3> QED BY <3>1, <3>2, <3>3
  <2>6. Handled(t) /\ Handled(t)' /\ \A u \in Tasks : u # t => OwnerOf(u)' = OwnerOf(u)
    BY <2>2, <2>3, <2>4, <2>5, WorkerShifts
  <2>7. OwnerOf(t) = "worker" /\ OwnerOf(t)' = "worker"
    BY <2>2, <2>5, <2>6, OwnerValues, NextOwnerValues DEF QueueInv
  <2> QED BY <2>6, <2>7, OnePasses
\* The handler lets go of its task.
<1>4. CASE Enqueue(w) \/ Complete(w) \/ RecordFailure(w) \/ (Crash(w) /\ ~At(w, "release"))
  <2>1. Busy(w) /\ Handles(w)
    BY <1>4 DEF Enqueue, Complete, RecordFailure, Crash, Busy, Handles, At
  <2>2. PICK t \in Tasks : /\ t = TaskOf(w) /\ tasks[t] \in TaskRow /\ Exists(t)
                           /\ \A v \in Workers \ {w} : Busy(v) => TaskOf(v) # t
    BY <1>2, <2>1
  <2>3. /\ ~Handles(w)' /\ (Busy(w)' => TaskOf(w)' = t)
        /\ \A v \in Workers \ {w} : worker'[v] = worker[v]
    <3>1. Goto(w, "release") \/ GoIdle(w)
      BY <1>4 DEF Enqueue, Complete, RecordFailure, Crash
    <3> QED BY <2>1, <2>2, <3>1, JobFields DEF Handles, Busy, At, TaskOf
  <2>4. /\ tasks'[t].status \in NodeOwned \cup {"HANDED_OFF", "PENDING", "COMPLETED", "FAILED"}
        /\ \A u \in Tasks : u # t => tasks'[u].status = tasks[u].status
    <3>1. tasks \in [Tasks -> TaskRow] /\ worker[w].seen \in 0 .. MaxAttempts
      BY <2>1, BusyWorker DEF TypeInv, RowsOK, Busy, Job
    <3>2. tasks[t].status \in NodeOwned \cup {"HANDED_OFF"}
      BY <2>1, <2>2 DEF QueueInv, WorkerRow, RowOf, Handles, At
    <3>3. CASE UNCHANGED tasks
      BY <3>2, <3>3
    <3>4. CASE Complete(w)
      <4>1. tasks' = [tasks EXCEPT ![t] = Closed(tasks[t], "COMPLETED")]
        BY <2>2, <3>4 DEF Complete
      <4> QED BY <2>2, <3>1, <4>1, RowFields
    <3>5. CASE RecordFailure(w)
      <4>1. tasks' = [tasks EXCEPT ![t] = FailureRecorded(tasks[t], worker[w].seen)]
        BY <2>2, <3>5 DEF RecordFailure
      <4> QED BY <2>2, <3>1, <4>1, RowFields
    <3> QED BY <1>4, <3>3, <3>4, <3>5 DEF Enqueue, Crash
  <2>5. Handled(t) /\ ~Handled(t)' /\ \A u \in Tasks : u # t => OwnerOf(u)' = OwnerOf(u)
    BY <2>1, <2>2, <2>3, <2>4, WorkerShifts
  <2>6. OwnerOf(t) = "worker"
    BY <2>2, <2>5, OwnerValues DEF QueueInv
  <2>7. OwnerOf(t)' \in {"worker", "queue", "python", "finished"}
    BY <2>4, <2>5, NextOwnerValues DEF QueueInv, NodeOwned, PythonOwned, Terminal, Exists, Missing
  <2> QED BY <2>5, <2>6, <2>7, OnePasses
\* Statements that leave the task to whom it belongs.
<1>5. CASE Heartbeat(w) \/ Release(w) \/ (Crash(w) /\ At(w, "release"))
  <2>1. Busy(w)
    BY <1>5 DEF Heartbeat, Release, Crash, Busy, At
  <2>2. PICK t \in Tasks : /\ t = TaskOf(w) /\ tasks[t] \in TaskRow /\ Exists(t)
                           /\ \A v \in Workers \ {w} : Busy(v) => TaskOf(v) # t
    BY <1>2, <2>1
  <2>3. /\ Handles(w)' <=> Handles(w)
        /\ Busy(w)' => TaskOf(w)' = t
        /\ \A v \in Workers \ {w} : worker'[v] = worker[v]
    <3>1. CASE Heartbeat(w)
      BY <2>2, <3>1 DEF Heartbeat, Handles, Busy, At, TaskOf
    <3>2. CASE GoIdle(w) /\ At(w, "release")
      BY <2>1, <3>2, JobFields DEF Handles, Busy, At
    <3> QED BY <1>5, <3>1, <3>2 DEF Release, Crash
  <2>4. \A u \in Tasks : tasks'[u].status = tasks[u].status
    <3>1. tasks \in [Tasks -> TaskRow]
      BY DEF TypeInv, RowsOK
    <3>2. \/ UNCHANGED tasks
          \/ tasks' = [tasks EXCEPT ![t] = HeartBeaten(tasks[t], w)]
          \/ tasks' = [tasks EXCEPT ![t] = Unlocked(tasks[t])]
      BY <1>5, <2>2 DEF Heartbeat, Release, Crash
    <3>3. /\ HeartBeaten(tasks[t], w).status = tasks[t].status
          /\ Unlocked(tasks[t]).status = tasks[t].status
      BY <2>2, RowFields
    <3> QED BY <3>1, <3>2, <3>3
  <2>5. (Handled(t)' <=> Handled(t)) /\ \A u \in Tasks : u # t => OwnerOf(u)' = OwnerOf(u)
    BY <2>2, <2>3, <2>4, WorkerShifts
  <2>6. OwnerOf(t)' = OwnerOf(t)
    BY <2>4, <2>5, SameOwner DEF QueueInv
  <2> QED BY <2>5, <2>6, OnePasses
<1>6. ~EnqueueReplyLost(w) /\ ~ReleaseFails(w) /\ ~CleanupFails(w)
  BY DEF EnqueueReplyLost, ReleaseFails, CleanupFails, Fault, NoOverrides
<1> QED BY <1>1, <1>3, <1>4, <1>5, <1>6 DEF WorkerStep, HandlerStep

\* Steps that leave the workers alone: each task stays with its owner, is
\* submitted, or is finished by the Python server.
LEMMA OthersPass ==
  ASSUME TypeInv, QueueInv, QueueInv', NoneDeleted, NoneDeleted', UNCHANGED worker
  PROVE  /\ \A u \in Tasks : Handled(u)' <=> Handled(u)
         /\ \A u \in Tasks : tasks'[u].status = tasks[u].status => OwnerOf(u)' = OwnerOf(u)
         /\ \A u \in Tasks : /\ tasks[u].status = "ABSENT" /\ tasks'[u].status = "PENDING"
                             => OwnerOf(u) = "nobody" /\ OwnerOf(u)' = "queue"
         /\ \A u \in Tasks :
              /\ tasks[u].status \in PythonOwned /\ ~Handled(u)
              => /\ OwnerOf(u) = "python"
                 /\ tasks'[u].status \in PythonOwned => OwnerOf(u)' = "python"
                 /\ tasks'[u].status \in Terminal => OwnerOf(u)' = "finished"
         /\ \A u \in Tasks :
              /\ tasks[u].status \in Terminal /\ tasks'[u].status \in Terminal /\ ~Handled(u)
              => OwnerOf(u)' = OwnerOf(u)
<1>1. \A w \in Workers : Busy(w)' = Busy(w) /\ Handles(w)' = Handles(w) /\ TaskOf(w)' = TaskOf(w)
  BY DEF Busy, Handles, At, TaskOf
<1>2. \A u \in Tasks : Handled(u)' <=> Handled(u)
  BY <1>1 DEF Handled
<1>3. \A u \in Tasks : tasks'[u].status = tasks[u].status => OwnerOf(u)' = OwnerOf(u)
  BY <1>2, SameOwner DEF QueueInv
<1>4. ASSUME NEW u \in Tasks, tasks[u].status = "ABSENT", tasks'[u].status = "PENDING"
      PROVE  OwnerOf(u) = "nobody" /\ OwnerOf(u)' = "queue"
  <2>1. ~Handled(u)
    BY <1>4, BusyWorker DEF Handled, Handles, Busy, Inserted
  <2>2. OwnerOf(u) = "nobody"
    BY <1>4, OwnerValues DEF QueueInv, Missing
  <2>3. OwnerOf(u)' = "queue"
    BY <1>2, <1>4, <2>1, NextOwnerValues DEF QueueInv
  <2> QED BY <2>2, <2>3
<1>5. ASSUME NEW u \in Tasks, tasks[u].status \in PythonOwned, ~Handled(u)
      PROVE  /\ OwnerOf(u) = "python"
             /\ tasks'[u].status \in PythonOwned => OwnerOf(u)' = "python"
             /\ tasks'[u].status \in Terminal => OwnerOf(u)' = "finished"
  <2>1. OwnerOf(u) = "python"
    BY <1>5, OwnerValues DEF QueueInv
  <2>2. ~Handled(u)'
    BY <1>2, <1>5
  <2> QED BY <2>1, <2>2, NextOwnerValues DEF QueueInv
<1>6. ASSUME NEW u \in Tasks, tasks[u].status \in Terminal, tasks'[u].status \in Terminal,
             ~Handled(u)
      PROVE  OwnerOf(u)' = OwnerOf(u)
  <2>1. OwnerOf(u) = "finished"
    BY <1>6, OwnerValues DEF QueueInv
  <2>2. OwnerOf(u)' = "finished"
    BY <1>2, <1>6, NextOwnerValues DEF QueueInv
  <2> QED BY <2>1, <2>2
<1> QED BY <1>2, <1>3, <1>4, <1>5, <1>6

LEMMA RunPasses ==
  ASSUME TypeInv, QueueInv, QueueInv', NoneDeleted, NoneDeleted', NEW r \in Runs,
         RunStep(r) \/ RunUnrecorded(r)
  PROVE  O!Next \/ UNCHANGED Owner
<1>1. Active(r) /\ UNCHANGED worker
  BY DEF RunStep, RunStart, RunTranscribes, RunSilent, RunSummarizes, RunSummary, RunFinish,
     RunLogs, RunFails, RunUnrecorded, Active, RunAt
<1>2. PICK t \in Tasks : t = run[r].task /\ tasks[t] \in TaskRow
  BY <1>1, BusyRun DEF Active, Inserted
<1>3. /\ \A u \in Tasks : u # t => tasks'[u] = tasks[u]
      /\ \/ tasks'[t] = tasks[t]
         \/ /\ Exists(t) /\ tasks'[t].status \in PythonOwned \cup Terminal
            /\ RunAt(r, "log") => tasks'[t].status \in Terminal
  <2>1. /\ \/ run'[r].pc = "free"
           \/ ~RunAt(r, "log")
        /\ \A u \in Tasks : u # t => tasks'[u] = tasks[u]
        /\ \/ tasks'[t] = tasks[t]
           \/ /\ Exists(t)
              /\ \/ tasks'[t].status \in PythonOwned /\ run'[r].pc \notin {"free", "log"}
                 \/ tasks'[t].status \in Terminal
    BY <1>2, RunRows
  <2> QED BY <2>1
<1>4. \A u \in Tasks : u # t => OwnerOf(u)' = OwnerOf(u)
  BY <1>1, <1>3, OthersPass
<1>5. CASE tasks'[t] = tasks[t]
  <2>1. OwnerOf(t)' = OwnerOf(t)
    BY <1>1, <1>5, OthersPass
  <2> QED BY <1>4, <2>1, OnePasses
<1>6. CASE /\ Exists(t) /\ tasks'[t].status \in PythonOwned \cup Terminal
           /\ RunAt(r, "log") => tasks'[t].status \in Terminal
  <2>1. /\ ~Handled(t)
        /\ IF RunAt(r, "log") THEN tasks[t].status \in Terminal
           ELSE tasks[t].status \in PythonOwned
    BY <1>1, <1>2, <1>6 DEF QueueInv, RunRow, Apart, Handled
  <2>2. CASE RunAt(r, "log")
    <3>1. OwnerOf(t)' = OwnerOf(t)
      BY <1>1, <1>6, <2>1, <2>2, OthersPass
    <3> QED BY <1>4, <3>1, OnePasses
  <2>3. CASE ~RunAt(r, "log")
    <3>1. OwnerOf(t) = "python" /\ OwnerOf(t)' \in {"python", "finished"}
      BY <1>1, <1>6, <2>1, <2>3, OthersPass
    <3> QED BY <1>4, <3>1, OnePasses
  <2> QED BY <2>2, <2>3
<1> QED BY <1>3, <1>5, <1>6

LEMMA RestartPasses ==
  ASSUME TypeInv, QueueInv, QueueInv', NoneDeleted, NoneDeleted', Restart
  PROVE  O!Next
<1>1. PICK swept \in SUBSET {t \in Tasks : /\ tasks[t].status \in PythonOwned
                                           /\ tasks[t].lease # "held"} :
        tasks' = [t \in Tasks |-> IF t \in swept THEN Closed(tasks[t], "FAILED") ELSE tasks[t]]
  BY DEF Restart
<1>2. UNCHANGED worker
  BY DEF Restart
<1>3. ASSUME NEW t \in swept
      PROVE  t \in Tasks /\ OwnerOf(t) = "python" /\ OwnerOf(t)' = "finished"
  <2>1. /\ t \in Tasks /\ tasks[t].status \in PythonOwned /\ tasks[t].lease # "held"
        /\ tasks'[t].status = "FAILED"
    BY <1>1, RowFields DEF TypeInv, RowsOK
  <2>2. ~Handled(t)
    BY <2>1 DEF Handled, QueueInv, WorkerRow, RowOf, Handles, Exists, PythonOwned, Missing
  <2> QED BY <1>2, <2>1, <2>2, OthersPass DEF Terminal
<1>4. \A t \in Tasks \ swept : OwnerOf(t)' = OwnerOf(t)
  BY <1>1, <1>2, OthersPass
<1>5. O!Sweep
  <2>1. swept \in SUBSET {t \in Tasks : [u \in Tasks |-> OwnerOf(u)][t] = "python"}
    BY <1>3
  <2>2. [t \in Tasks |-> OwnerOf(t)]'
          = [t \in Tasks |-> IF t \in swept THEN "finished" ELSE [u \in Tasks |-> OwnerOf(u)][t]]
    BY <1>3, <1>4
  <2> QED BY <2>1, <2>2 DEF O!Sweep
<1> QED BY <1>5 DEF O!Next

LEMMA RequestPasses ==
  ASSUME TypeInv, QueueInv, QueueInv', NoneDeleted, NoneDeleted', NoOverrides,
         NEW q \in Requests, RequestStep(q)
  PROVE  O!Next \/ UNCHANGED Owner
<1>1. UNCHANGED worker
  BY DEF RequestStep, RequestSent, RequestGoesOn, InitUpload, CompleteRead, AbortUpload,
     ResetObjects, RetryRead, RearmRead, CancelRead, InitRow, InitSession, CompleteUpload,
     CompleteStatus, CompleteTask, CompleteSession, AbortRow, ResetRow, ResetSession, RetryRow,
     RetryTask, RearmPayload, RearmRow, CancelRow, RequestFails
<1>2. CASE UNCHANGED tasks
  <2>1. \A t \in Tasks : OwnerOf(t)' = OwnerOf(t)
    BY <1>1, <1>2, OthersPass
  <2> QED BY <2>1 DEF Owner
<1>3. CASE CreateTask(q)
  <2>1. PICK t \in Tasks : /\ tasks[t].status = "ABSENT"
                           /\ tasks' = [tasks EXCEPT ![t] = Created(request[q].session)]
    BY <1>3 DEF CreateTask
  <2>2. /\ tasks'[t].status = "PENDING"
        /\ \A u \in Tasks : u # t => tasks'[u] = tasks[u]
    BY <2>1 DEF TypeInv, RowsOK, Created, NoRow
  <2>3. OwnerOf(t) = "nobody" /\ OwnerOf(t)' = "queue"
    BY <1>1, <2>1, <2>2, OthersPass
  <2>4. \A u \in Tasks : u # t => OwnerOf(u)' = OwnerOf(u)
    BY <1>1, <2>2, OthersPass
  <2> QED BY <2>3, <2>4, OnePasses
<1>4. /\ ~ResetRow(q) /\ ~RearmPayload(q) /\ ~RearmRow(q) /\ ~CancelRow(q)
  BY DEF QueueInv, NoneDeleted, OnTask, ResetRow, RearmPayload, RearmRow, CancelRow
<1>5. UNCHANGED tasks \/ CreateTask(q)
  BY <1>4 DEF RequestStep, RequestSent, RequestGoesOn, InitUpload, CompleteRead, AbortUpload,
     ResetObjects, RetryRead, RearmRead, CancelRead, InitRow, InitSession, CompleteUpload,
     CompleteStatus, CompleteTask, CompleteSession, AbortRow, ResetSession, RetryRow, RetryTask,
     RequestFails
<1> QED BY <1>2, <1>3, <1>5

-----------------------------------------------------------------------------
(* Rows come and go.  Nothing here depends on NoOverrides.                  *)

\* Only two statements insert a row and one deletes rows; every other one
\* finds its row there and leaves it there, or does nothing.
LEMMA RowSteps ==
  ASSUME TypeInv, [Next]_vars
  PROVE  \/ \E q \in Requests : CompleteTask(q) \/ RetryTask(q) \/ ResetRow(q)
         \/ \A t \in Tasks : \/ tasks'[t].status = tasks[t].status
                             \/ Exists(t) /\ Exists(t)'
<1> DEFINE Steady == \A t \in Tasks : \/ tasks'[t].status = tasks[t].status
                                      \/ Exists(t) /\ Exists(t)'
<1>1. tasks \in [Tasks -> TaskRow] /\ \A st \in Status : st \notin Missing
  BY DEF TypeInv, RowsOK, Status, NodeOwned, PythonOwned, Terminal, Missing
<1>2. ASSUME NEW t \in Tasks, NEW new, tasks' = [tasks EXCEPT ![t] = new],
             new.status = tasks[t].status \/ (Exists(t) /\ new.status \in Status)
      PROVE  Steady
  BY <1>1, <1>2 DEF Exists
<1>3. UNCHANGED tasks => Steady
  OBVIOUS
<1>4. ASSUME NEW w \in Workers, WorkerStep(w)
      PROVE  Steady
  <2>1. CASE Claim(w)
    <3>1. PICK t \in Tasks : /\ Runnable(tasks[t])
                             /\ tasks' = [tasks EXCEPT ![t] = Claimed(tasks[t], w)]
      BY <2>1 DEF Claim
    <3>2. Exists(t) /\ Claimed(tasks[t], w).status = "CLAIMED"
      BY <1>1, <3>1, RowFields DEF Runnable, Exists, Missing, NodeOwned
    <3> QED BY <1>2, <3>1, <3>2 DEF Status, NodeOwned
  <2>2. CASE ~Claim(w)
    <3>1. CASE UNCHANGED tasks
      BY <1>3, <3>1
    <3>2. CASE ~UNCHANGED tasks
      <4>1. Busy(w)
        BY <1>4, <2>2, <3>2 DEF WorkerStep, HandlerStep, Begin, Transcode, PutVideo, Thumbnail,
           VideoReady, Extract, Upload, PutAudio, SetAudio, HandOff, UpdateStatus, Enqueue, Release,
           Complete, StageFails, RecordFailure, EnqueueReplyLost, ReleaseFails, CleanupFails,
           Heartbeat, Crash, Busy, At
      <4>2. PICK t \in Tasks : t = TaskOf(w) /\ tasks[t] \in TaskRow /\ worker[w] \in Job
        BY <4>1, BusyWorker DEF Busy, Inserted
      <4>3. \/ /\ Exists(t)
               /\ \E st \in Status : tasks' = [tasks EXCEPT ![t] = WithStatus(tasks[t], st)]
            \/ tasks' = [tasks EXCEPT ![t] = Unlocked(tasks[t])]
            \/ Exists(t) /\ tasks' = [tasks EXCEPT ![t] = Closed(tasks[t], "COMPLETED")]
            \/ /\ Exists(t)
               /\ tasks' = [tasks EXCEPT ![t] = FailureRecorded(tasks[t], worker[w].seen)]
            \/ tasks' = [tasks EXCEPT ![t] = HeartBeaten(tasks[t], w)]
        BY <1>4, <2>2, <3>2, <4>2 DEF CleanupFails, WorkerStep, HandlerStep, Begin, Transcode, PutVideo,
           Thumbnail, VideoReady, Extract, Upload, PutAudio, SetAudio, HandOff, UpdateStatus,
           Enqueue, Release, Complete, StageFails, RecordFailure, EnqueueReplyLost, ReleaseFails,
           Heartbeat, Crash, Status, NodeOwned, PythonOwned
      <4>4. worker[w].seen \in 0 .. MaxAttempts
        BY <4>2 DEF Job
      <4> QED BY <1>2, <4>2, <4>3, <4>4, RowFields DEF Status, Terminal
    <3> QED BY <3>1, <3>2
  <2> QED BY <2>1, <2>2
<1>5. ASSUME NEW t \in Tasks, LeaseRunsOut(t) \/ HeartbeatsLost(t)
      PROVE  Steady
  <2>1. tasks' = [tasks EXCEPT ![t] = [tasks[t] EXCEPT !.lease = "expired"]]
    BY <1>1, <1>5 DEF LeaseRunsOut, HeartbeatsLost
  <2>2. [tasks[t] EXCEPT !.lease = "expired"].status = tasks[t].status
    BY <1>1 DEF TaskRow
  <2> QED BY <1>2, <2>1, <2>2
<1>6. ASSUME NEW r \in Runs, RunStep(r) \/ RunUnrecorded(r)
      PROVE  Steady
  <2>1. Active(r)
    BY <1>6 DEF RunStep, RunStart, RunTranscribes, RunSilent, RunSummarizes, RunSummary,
       RunFinish, RunLogs, RunFails, RunUnrecorded, Active, RunAt
  <2>2. PICK t \in Tasks : t = run[r].task /\ tasks[t] \in TaskRow
    BY <2>1, BusyRun DEF Active, Inserted
  <2> QED BY <1>1, <1>6, <2>2, RunRows DEF Exists, Status
<1>7. CASE Restart
  <2>1. \A t \in Tasks : \/ tasks'[t] = tasks[t]
                         \/ tasks[t].status \in PythonOwned /\ tasks'[t].status = "FAILED"
    BY <1>1, <1>7, RowFields DEF Restart
  <2> QED BY <2>1 DEF Exists, PythonOwned, Missing
<1>8. ASSUME NEW q \in Requests, RequestStep(q), ~CompleteTask(q), ~RetryTask(q), ~ResetRow(q)
      PROVE  Steady
  <2>1. \/ UNCHANGED tasks
        \/ RearmPayload(q) \/ RearmRow(q) \/ CancelRow(q)
    BY <1>8 DEF RequestStep, RequestSent, RequestGoesOn, InitUpload, CompleteRead, AbortUpload,
       ResetObjects, RetryRead, RearmRead, CancelRead, InitRow, InitSession, CompleteUpload,
       CompleteStatus, CompleteSession, AbortRow, ResetSession, RetryRow, RequestFails
  <2>2. CASE RearmPayload(q) \/ RearmRow(q) \/ CancelRow(q)
    <3>1. request[q].pc \in OnTask
      BY <2>2 DEF RearmPayload, RearmRow, CancelRow, OnTask
    <3>2. PICK t \in Tasks : t = request[q].task /\ tasks[t] \in TaskRow
      BY <3>1, BusyRequest DEF Inserted
    <3>3. \/ /\ Exists(t)
             /\ \/ tasks' = [tasks EXCEPT ![t] = WithStatus(tasks[t], "PENDING")]
                \/ tasks' = [tasks EXCEPT ![t] = Closed(tasks[t], "CANCELED")]
          \/ \E push \in BOOLEAN : tasks' = [tasks EXCEPT ![t] = [tasks[t] EXCEPT !.push = push]]
      BY <1>1, <2>2, <3>2 DEF RearmPayload, RearmRow, CancelRow
    <3>4. \A push \in BOOLEAN : [tasks[t] EXCEPT !.push = push].status = tasks[t].status
      BY <3>2 DEF TaskRow
    <3>5. ASSUME NEW push \in BOOLEAN,
                 tasks' = [tasks EXCEPT ![t] = [tasks[t] EXCEPT !.push = push]]
          PROVE  Steady
      BY <1>2, <3>4, <3>5
    <3>6. WithStatus(tasks[t], "PENDING").status \in Status
          /\ Closed(tasks[t], "CANCELED").status \in Status
      BY <3>2, RowFields DEF Status, Terminal
    <3> QED BY <1>2, <3>3, <3>5, <3>6
  <2> QED BY <1>3, <2>1, <2>2
<1>9. CASE UNCHANGED vars
  BY <1>3, <1>9 DEF vars
<1> QED BY <1>4, <1>5, <1>6, <1>7, <1>8, <1>9 DEF Next

\* The statements on recordings.
LEMMA RecordingWriters ==
  ASSUME [Next]_vars
  PROVE  \/ UNCHANGED recs
         \/ \E w \in Workers : VideoReady(w) \/ SetAudio(w)
         \/ \E r \in Runs : RunTranscribes(r) \/ RunSummary(r)
         \/ \E q \in Requests : \/ CompleteStatus(q) \/ AbortRow(q) \/ RetryRow(q)
                                \/ InitRow(q) \/ ResetRow(q)
BY DEF Next, vars, WorkerStep, HandlerStep, Claim, Begin, Transcode, PutVideo, Thumbnail,
   Extract, Upload, PutAudio, HandOff, UpdateStatus, Enqueue, Release, Complete, StageFails,
   RecordFailure, EnqueueReplyLost, ReleaseFails, CleanupFails, Heartbeat, Crash, LeaseRunsOut,
   HeartbeatsLost, RunStep, RunStart, RunSilent, RunSummarizes, RunFinish, RunLogs, RunFails,
   RunUnrecorded, Restart, RequestStep, RequestSent, RequestGoesOn, InitUpload, CompleteRead,
   AbortUpload, ResetObjects, RetryRead, RearmRead, CancelRead, InitSession, CompleteUpload,
   CompleteTask, CompleteSession, ResetSession, RetryTask, RearmPayload, RearmRow, CancelRow,
   RequestFails

\* Statements on the recordings keep their ids, but for three.
LEMMA RecordingIds ==
  ASSUME TypeInv, [Next]_vars
  PROVE  \/ \E q \in Requests : InitRow(q) \/ ResetRow(q)
         \/ \A s \in Sessions : recs'[s].id = recs[s].id
<1>1. recs \in [Sessions -> Recording]
  BY DEF TypeInv, DataOK
<1>2. CASE UNCHANGED recs
  BY <1>2
<1>3. ASSUME NEW w \in Workers, VideoReady(w) \/ SetAudio(w)
      PROVE  \A s \in Sessions : recs'[s].id = recs[s].id
  <2>1. CASE VideoReady(w)
    BY <1>1, <2>1 DEF VideoReady, Recording
  <2>2. CASE SetAudio(w)
    BY <1>1, <2>2 DEF SetAudio, Recording
  <2> QED BY <1>3, <2>1, <2>2
<1>4. ASSUME NEW r \in Runs, RunTranscribes(r) \/ RunSummary(r)
      PROVE  \A s \in Sessions : recs'[s].id = recs[s].id
  <2>1. CASE RunTranscribes(r)
    BY <1>1, <2>1 DEF RunTranscribes, RecordingSet, Recording
  <2>2. CASE RunSummary(r)
    BY <1>1, <2>2 DEF RunSummary, RecordingSet, Recording
  <2> QED BY <1>4, <2>1, <2>2
<1>5. ASSUME NEW q \in Requests, CompleteStatus(q) \/ AbortRow(q) \/ RetryRow(q)
      PROVE  \A s \in Sessions : recs'[s].id = recs[s].id
  <2>1. CASE CompleteStatus(q)
    BY <1>1, <2>1 DEF CompleteStatus, Recording
  <2>2. CASE AbortRow(q)
    BY <1>1, <2>2 DEF AbortRow, Recording
  <2>3. CASE RetryRow(q)
    BY <1>1, <2>3 DEF RetryRow, Recording
  <2> QED BY <1>5, <2>1, <2>2, <2>3
<1>6. \/ UNCHANGED recs
      \/ \E w \in Workers : VideoReady(w) \/ SetAudio(w)
      \/ \E r \in Runs : RunTranscribes(r) \/ RunSummary(r)
      \/ \E q \in Requests : \/ CompleteStatus(q) \/ AbortRow(q) \/ RetryRow(q)
                             \/ InitRow(q) \/ ResetRow(q)
  BY RecordingWriters
<1> QED BY <1>2, <1>3, <1>4, <1>5, <1>6

\* A request that is to create a task knows its recording by the id it had.
TaskRequest(q) ==
  request[q].pc \in {"completeUpload", "completeStatus", "completeTask", "retryRow", "retryTask"}
    => request[q].id # 0

RecordingInv == TasksHaveRecording /\ \A q \in Requests : TaskRequest(q)

LEMMA RequestWriters ==
  ASSUME [Next]_vars
  PROVE  UNCHANGED request \/ \E q \in Requests : RequestStep(q)
BY DEF Next, vars, WorkerStep, HandlerStep, Claim, Begin, Transcode, PutVideo, Thumbnail,
   VideoReady, Extract, Upload, PutAudio, SetAudio, HandOff, UpdateStatus, Enqueue, Release,
   Complete, StageFails, RecordFailure, EnqueueReplyLost, ReleaseFails, CleanupFails, Heartbeat, Crash,
   LeaseRunsOut, HeartbeatsLost, RunStep, RunStart, RunTranscribes, RunSilent, RunSummarizes,
   RunSummary, RunFinish, RunLogs, RunFails, RunUnrecorded, Restart

LEMMA TaskRequestKept ==
  ASSUME TypeInv, RecordingInv, [Next]_vars
  PROVE  \A q \in Requests : TaskRequest(q)'
<1>1. request \in [Requests -> Request]
  BY DEF TypeInv, RequestsOK
<1>2. ASSUME UNCHANGED request
      PROVE  \A q \in Requests : TaskRequest(q)'
  BY <1>2 DEF RecordingInv, TaskRequest
<1>3. ASSUME NEW q \in Requests, RequestStep(q)
      PROVE  \A p \in Requests : TaskRequest(p)'
  <2>1. ASSUME NEW new, request' = [request EXCEPT ![q] = new],
               new.pc \in {"completeUpload", "completeStatus", "completeTask", "retryRow",
                           "retryTask"} => new.id # 0
        PROVE  \A p \in Requests : TaskRequest(p)'
    BY <1>1, <2>1 DEF RecordingInv, TaskRequest
  <2>2. ASSUME Answer(q)
        PROVE  \A p \in Requests : TaskRequest(p)'
    BY <2>1, <2>2 DEF Answer, Answered, Unsent
  <2>3. ASSUME NEW pc, NEW s, NEW take, NEW saw, Remember(q, pc, s, take, saw),
               HasRecording(s) \/ pc = "initRow"
        PROVE  \A p \in Requests : TaskRequest(p)'
    BY <2>1, <2>3 DEF Remember, HasRecording
  <2>4. ASSUME NEW pc, Next_(q, pc),
               \/ pc \notin {"completeUpload", "completeStatus", "completeTask", "retryRow",
                             "retryTask"}
               \/ request[q].pc \in {"completeUpload", "completeStatus", "retryRow"}
        PROVE  \A p \in Requests : TaskRequest(p)'
    <3> DEFINE new == [request[q] EXCEPT !.pc = pc]
    <3>1. new.pc = pc /\ new.id = request[q].id /\ request' = [request EXCEPT ![q] = new]
      BY <1>1, <2>4 DEF Request, Next_
    <3>2. request[q].pc \in {"completeUpload", "completeStatus", "retryRow"} => request[q].id # 0
      BY DEF RecordingInv, TaskRequest
    <3> HIDE DEF new
    <3> QED BY <2>1, <2>4, <3>1, <3>2
  <2>5. ASSUME NEW pc \in OnTask, NEW t, request' = [request EXCEPT ![q].pc = pc, ![q].task = t]
        PROVE  \A p \in Requests : TaskRequest(p)'
    <3> DEFINE new == [request[q] EXCEPT !.pc = pc, !.task = t]
    <3>1. new.pc = pc /\ request' = [request EXCEPT ![q] = new]
      BY <1>1, <2>5 DEF Request
    <3> HIDE DEF new
    <3> QED BY <2>1, <3>1 DEF OnTask
  <2>6. CASE RequestSent(q)
    <3>1. CASE \E s \in Sessions : \/ InitUpload(q, s) \/ CompleteRead(q, s) \/ AbortUpload(q, s)
                                   \/ ResetObjects(q, s) \/ RetryRead(q, s)
      BY <2>3, <3>1 DEF InitUpload, CompleteRead, AbortUpload, ResetObjects, RetryRead
    <3>2. CASE \E t \in Tasks : RearmRead(q, t) \/ CancelRead(q, t)
      BY <2>5, <3>2 DEF RearmRead, CancelRead, OnTask
    <3> QED BY <2>6, <3>1, <3>2 DEF RequestSent
  <2>7. CASE RequestGoesOn(q)
    <3>1. CASE \/ InitSession(q) \/ CompleteSession(q) \/ AbortRow(q) \/ ResetSession(q)
               \/ RetryTask(q) \/ RearmRow(q) \/ CancelRow(q) \/ RequestFails(q)
      BY <2>2, <3>1 DEF InitSession, CompleteSession, AbortRow, ResetSession, RetryTask, RearmRow,
         CancelRow, RequestFails
    <3>2. CASE \/ InitRow(q) \/ CompleteUpload(q) \/ CompleteStatus(q) \/ CompleteTask(q)
               \/ ResetRow(q) \/ RetryRow(q) \/ RearmPayload(q)
      BY <2>4, <3>2 DEF InitRow, CompleteUpload, CompleteStatus, CompleteTask, ResetRow, RetryRow,
         RearmPayload
    <3> QED BY <2>7, <3>1, <3>2 DEF RequestGoesOn
  <2> QED BY <1>3, <2>6, <2>7 DEF RequestStep
<1>4. UNCHANGED request \/ \E q \in Requests : RequestStep(q)
  BY RequestWriters
<1> QED BY <1>2, <1>3, <1>4

LEMMA RecordingNext ==
  ASSUME TypeInv, RecordingInv, [Next]_vars, Stays
  PROVE  RecordingInv'
<1>1. tasks \in [Tasks -> TaskRow] /\ recs \in [Sessions -> Recording]
  BY DEF TypeInv, RowsOK, DataOK
<1>2. \A t \in Tasks : Exists(t) => /\ SessionOf(t) \in Sessions /\ recs[SessionOf(t)].id # 0
                                    /\ SessionOf(t)' = SessionOf(t)
  BY DEF RecordingInv, TasksHaveRecording, TypeInv, RowsOK, Inserted, Exists, Missing, Stays,
     SessionOf
<1>3. ASSUME NEW q \in Requests, CompleteTask(q) \/ RetryTask(q)
      PROVE  TasksHaveRecording'
  <2>1. CreateTask(q) /\ UNCHANGED recs /\ request[q].id # 0 /\ request[q].session \in Sessions
    BY <1>3, BusyRequest DEF CompleteTask, RetryTask, RecordingInv, TaskRequest, OnTask
  <2>2. PICK t \in Tasks : tasks' = [tasks EXCEPT ![t] = Created(request[q].session)]
    BY <2>1 DEF CreateTask
  <2>3. Created(request[q].session).session = request[q].session
    BY DEF Created, NoRow
  <2>4. recs[request[q].session].id # 0
    BY <2>1 DEF CreateTask, SameRow
  <2>5. ASSUME NEW u \in Tasks, Exists(u)'
        PROVE  recs'[SessionOf(u)'].id # 0
    <3>1. CASE u = t
      BY <1>1, <2>1, <2>2, <2>3, <2>4, <3>1 DEF SessionOf
    <3>2. CASE u # t
      BY <1>1, <1>2, <2>1, <2>2, <2>5, <3>2 DEF Exists
    <3> QED BY <3>1, <3>2
  <2> QED BY <2>5 DEF TasksHaveRecording
<1>4. ASSUME NEW q \in Requests, ResetRow(q)
      PROVE  TasksHaveRecording'
  <2>1. PICK s \in Sessions : s = request[q].session
    BY <1>4, BusyRequest DEF ResetRow, OnTask
  <2>2. \A z \in Sessions \ {s} : recs'[z] = recs[z]
    BY <1>1, <1>4, <2>1 DEF ResetRow
  <2>3. ASSUME NEW u \in Tasks, Exists(u)'
        PROVE  Exists(u) /\ SessionOf(u) # s
    <3>1. Closed(tasks[u], "DELETED").status = "DELETED"
      BY <1>1, RowFields
    <3> QED BY <1>4, <2>1, <2>3, <3>1 DEF ResetRow, Exists, SessionOf, Missing
  <2> QED BY <1>2, <2>2, <2>3 DEF TasksHaveRecording
<1>5. ASSUME \A t \in Tasks : \/ tasks'[t].status = tasks[t].status
                              \/ Exists(t) /\ Exists(t)',
             \A s \in Sessions : recs[s].id # 0 => recs'[s].id # 0
      PROVE  TasksHaveRecording'
  <2>1. \A t \in Tasks : Exists(t)' => Exists(t)
    BY <1>5 DEF Exists
  <2> QED BY <1>2, <1>5, <2>1 DEF TasksHaveRecording
<1>6. ASSUME NEW q \in Requests, InitRow(q)
      PROVE  TasksHaveRecording'
  <2>1. UNCHANGED tasks /\ request[q].session \in Sessions
    BY <1>6, BusyRequest DEF InitRow, OnTask
  <2>2. \A s \in Sessions : recs[s].id # 0 => recs'[s].id # 0
    BY <1>1, <1>6, <2>1 DEF InitRow, Recording
  <2> QED BY <1>5, <2>1, <2>2
<1>7. TasksHaveRecording'
  BY <1>3, <1>4, <1>5, <1>6, RowSteps, RecordingIds
<1> QED BY <1>7, TaskRequestKept DEF RecordingInv

\* Every task belongs to a recording that is there, whatever resets,
\* restarts, completions and retries overlap: the cascade of the reset
\* route, and tasks.create's reference to the row.
THEOREM TasksHaveRecordingAlways == Spec => []TasksHaveRecording
<1>1. Init => TypeInv /\ RecordingInv
  <2> SUFFICES ASSUME Init PROVE TypeInv /\ RecordingInv
    OBVIOUS
  <2>1. RecordingInv
    BY DEF Init, NoRow, Unsent, RecordingInv, TasksHaveRecording, TaskRequest, Exists, Missing
  <2> QED BY <2>1, TypeInit
<1>2. TypeInv /\ RecordingInv /\ [Next]_vars => (TypeInv /\ RecordingInv)'
  BY TypeNext, RecordingNext
<1>3. RecordingInv => TasksHaveRecording
  BY DEF RecordingInv
<1> QED BY <1>1, <1>2, <1>3, PTL DEF Spec

\* A deleted row stays deleted; a step that publishes an artefact does so for
\* a task that is there.
LEMMA LateWrites ==
  ASSUME TypeInv, [Next]_vars
  PROVE  /\ \A t \in Tasks : Deleted(t) => Deleted(t)'
         /\ \A w \in Workers : Deleted(TaskOf(w)) /\ worker'[w] # worker[w] => recs' = recs
         /\ \A r \in Runs : Deleted(run[r].task) /\ run'[r] # run[r] => recs' = recs
<1>1. tasks \in [Tasks -> TaskRow] /\ worker \in [Workers -> Job] /\ run \in [Runs -> Run]
  BY DEF TypeInv, RowsOK, JobsOK, RunsOK
<1>2. \A t \in Tasks : Deleted(t) => Deleted(t)'
  <2>1. ASSUME NEW q \in Requests, CreateTask(q) \/ ResetRow(q)
        PROVE  \A t \in Tasks : tasks[t].status = "DELETED" => tasks'[t].status = "DELETED"
    BY <1>1, <2>1 DEF CreateTask, ResetRow, Exists, Missing
  <2>2. ASSUME \A t \in Tasks : tasks'[t].status = tasks[t].status \/ (Exists(t) /\ Exists(t)')
        PROVE  \A t \in Tasks : tasks[t].status = "DELETED" => tasks'[t].status = "DELETED"
    BY <2>2 DEF Exists, Missing
  <2> QED BY <2>1, <2>2, RowSteps DEF CompleteTask, RetryTask, Deleted
<1>3. \A t : Deleted(t) => ~Exists(t)
  BY DEF Deleted, Exists, Missing
<1>4. CASE UNCHANGED recs
  BY <1>2, <1>4
<1>5. ASSUME NEW v \in Workers, VideoReady(v) \/ SetAudio(v)
      PROVE  /\ \A w \in Workers : Deleted(TaskOf(w)) => worker'[w] = worker[w]
             /\ run' = run
  <2>1. Exists(TaskOf(v)) /\ (\E pc : Goto(v, pc)) /\ run' = run
    BY <1>5 DEF VideoReady, SetAudio
  <2>2. \A w \in Workers \ {v} : worker'[w] = worker[w]
    BY <1>1, <2>1 DEF Goto
  <2> QED BY <1>3, <2>1, <2>2
<1>6. ASSUME NEW p \in Runs, RunTranscribes(p) \/ RunSummary(p), recs' # recs
      PROVE  /\ \A r \in Runs : Deleted(run[r].task) => run'[r] = run[r]
             /\ worker' = worker
  <2>1. Exists(run[p].task) /\ (\E pc : RunGoto(p, pc)) /\ worker' = worker
    BY <1>6 DEF RunTranscribes, RunSummary, RecordingSet
  <2>2. \A r \in Runs \ {p} : run'[r] = run[r]
    BY <1>1, <2>1 DEF RunGoto
  <2> QED BY <1>3, <2>1, <2>2
<1>7. ASSUME NEW q \in Requests,
             CompleteStatus(q) \/ AbortRow(q) \/ RetryRow(q) \/ InitRow(q) \/ ResetRow(q)
      PROVE  worker' = worker /\ run' = run
  BY <1>7 DEF CompleteStatus, AbortRow, RetryRow, InitRow, ResetRow
<1>8. CASE recs' # recs
  BY <1>2, <1>5, <1>6, <1>7, <1>8, RecordingWriters
<1> QED BY <1>4, <1>8

\* What was deleted does not come back, and no process still on a deleted task
\* changes a recording with a step of its own: its updates by id find the row
\* gone, and the row the next take has got is another one.
THEOREM LateWritesMissNewRowAlways == Spec => LateWritesMissNewRow
<1>1. TypeInv /\ [Next]_vars =>
        [/\ \A t \in Tasks : Deleted(t) => Deleted(t)'
         /\ \A w \in Workers : Deleted(TaskOf(w)) /\ worker'[w] # worker[w] => recs' = recs
         /\ \A r \in Runs : Deleted(run[r].task) /\ run'[r] # run[r] => recs' = recs]_vars
  BY LateWrites
<1>2. TypeInv /\ [Next]_vars => TypeInv'
  BY TypeNext
<1> QED BY <1>1, <1>2, TypeInit, PTL DEF Spec, LateWritesMissNewRow

-----------------------------------------------------------------------------
(* Ownership, concluded.                                                    *)

LEMMA NoneDeletedNext ==
  ASSUME NoDeletions, TypeInv, NoneDeleted, [Next]_vars
  PROVE  NoneDeleted'
<1>1. \A q \in Requests : ~ResetRow(q) /\ \A s \in Sessions : ~ResetObjects(q, s)
  BY DEF NoneDeleted, NoDeletions, ResetRow, ResetObjects, New
<1>2. \A t \in Tasks : tasks'[t].status # "DELETED"
  <2>1. ASSUME NEW q \in Requests, CreateTask(q)
        PROVE  \A t \in Tasks : tasks'[t].status # "DELETED"
    BY <2>1 DEF CreateTask, Created, NoRow, NoneDeleted, TypeInv, RowsOK
  <2>2. ASSUME \A t \in Tasks : tasks'[t].status = tasks[t].status \/ (Exists(t) /\ Exists(t)')
        PROVE  \A t \in Tasks : tasks'[t].status # "DELETED"
    BY <2>2 DEF NoneDeleted, Exists, Missing
  <2> QED BY <1>1, <2>1, <2>2, RowSteps DEF CompleteTask, RetryTask
<1>3. \A q \in Requests : request'[q].pc # "resetRow"
  <2>1. request \in [Requests -> Request]
    BY DEF TypeInv, RequestsOK
  <2>2. ASSUME NEW q \in Requests, NEW pc, pc # "resetRow", Next_(q, pc)
        PROVE  \A p \in Requests : request'[p].pc # "resetRow"
    BY <2>1, <2>2 DEF NoneDeleted, Next_, Request
  <2>3. ASSUME NEW q \in Requests, Answer(q)
        PROVE  \A p \in Requests : request'[p].pc # "resetRow"
    BY <2>1, <2>3 DEF NoneDeleted, Answer, Answered, Unsent
  <2>4. ASSUME NEW q \in Requests, NEW pc, pc # "resetRow", NEW s, NEW take, NEW saw,
               Remember(q, pc, s, take, saw)
        PROVE  \A p \in Requests : request'[p].pc # "resetRow"
    BY <2>1, <2>4 DEF NoneDeleted, Remember
  <2>5. ASSUME NEW q \in Requests, RequestStep(q)
        PROVE  \A p \in Requests : request'[p].pc # "resetRow"
    <3>1. CASE \E s \in Sessions : InitUpload(q, s) \/ CompleteRead(q, s) \/ AbortUpload(q, s)
                                     \/ RetryRead(q, s)
      BY <2>4, <3>1 DEF InitUpload, CompleteRead, AbortUpload, RetryRead
    <3>2. CASE \E t \in Tasks : RearmRead(q, t) \/ CancelRead(q, t)
      BY <2>1, <3>2 DEF RearmRead, CancelRead, NoneDeleted, Request
    <3>3. CASE RequestGoesOn(q)
      BY <1>1, <2>2, <2>3, <3>3 DEF RequestGoesOn, InitRow, InitSession, CompleteUpload,
         CompleteStatus, CompleteTask, CompleteSession, AbortRow, ResetSession, RetryRow,
         RetryTask, RearmPayload, RearmRow, CancelRow, RequestFails
    <3> QED BY <1>1, <2>5, <3>1, <3>2, <3>3 DEF RequestStep, RequestSent
  <2>6. UNCHANGED request \/ \E q \in Requests : RequestStep(q)
    BY RequestWriters
  <2> QED BY <2>5, <2>6 DEF NoneDeleted
<1> QED BY <1>2, <1>3 DEF NoneDeleted

LEMMA OwnerNext ==
  ASSUME NoOverrides, TypeInv, QueueInv, QueueInv', NoneDeleted, NoneDeleted', [Next]_vars
  PROVE  O!Next \/ UNCHANGED Owner
<1>1. CASE UNCHANGED vars
  BY <1>1, OthersPass DEF vars, Owner
<1>2. ASSUME NEW t \in Tasks, LeaseRunsOut(t) \/ HeartbeatsLost(t)
      PROVE  UNCHANGED Owner
  <2>1. UNCHANGED worker /\ \A u \in Tasks : tasks'[u].status = tasks[u].status
    BY <1>2 DEF LeaseRunsOut, HeartbeatsLost, TypeInv, RowsOK, TaskRow
  <2> QED BY <2>1, OthersPass DEF Owner
<1> QED BY <1>1, <1>2, WorkerPasses, RunPasses, RestartPasses, RequestPasses DEF Next

\* The queue, its workers and the Python server pass each task along one way
\* only: from the queue to a worker, from there to Python, back or to its
\* end.  Every step of theirs is a step of TaskOwnership or changes no owner.
THEOREM OwnershipIsPassedAlways ==
  ASSUME NoOverrides, NoDeletions PROVE Spec => OwnershipIsPassed
<1>1. Init => TypeInv /\ QueueInv /\ NoneDeleted
  <2>1. Init => NoneDeleted
    BY DEF Init, NoneDeleted, NoRow, Unsent
  <2> QED BY <2>1, TypeInit, QueueInit
<1>2. Init => O!Init
  <2> SUFFICES ASSUME Init PROVE O!Init
    OBVIOUS
  <2>1. \A t \in Tasks : OwnerOf(t) = "nobody"
    BY QueueInit, OwnerValues DEF Init, QueueInv, NoRow, Missing
  <2> QED BY <2>1 DEF O!Init
<1>3. TypeInv /\ QueueInv /\ NoneDeleted /\ [Next]_vars => (TypeInv /\ QueueInv /\ NoneDeleted)'
  BY TypeNext, QueueNext, NoneDeletedNext
<1>4. TypeInv /\ QueueInv /\ NoneDeleted /\ (QueueInv /\ NoneDeleted)' /\ [Next]_vars
        => [O!Next]_([t \in Tasks |-> OwnerOf(t)])
  BY OwnerNext DEF Owner
<1> QED BY <1>1, <1>2, <1>3, <1>4, PTL DEF Spec, OwnershipIsPassed, O!Spec

=============================================================================
