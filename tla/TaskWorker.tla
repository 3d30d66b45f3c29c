----------------------------- MODULE TaskWorker -----------------------------
(***************************************************************************)
(* The Node task worker: the polling loop of TaskWorker.ts around the      *)
(* handler ProcessRecordingTask.execute.  One action per database or       *)
(* object-store call, since another process can act between any two.       *)
(* ffmpeg works on the worker's own temporary files, so each of its calls  *)
(* is part of the action that stores its result.                           *)
(***************************************************************************)
EXTENDS PipelineState

TaskOf(w) == worker[w].task
RowOf(w) == tasks[TaskOf(w)]
At(w, pc) == worker[w].pc = pc
Goto(w, pc) == worker' = [worker EXCEPT ![w].pc = pc]
GoIdle(w) == worker' = [worker EXCEPT ![w] = Idle]

\* claimNext: the oldest runnable row that no other statement has locked.
Claim(w) ==
  /\ At(w, "idle")
  /\ \E t \in Tasks :
       /\ Runnable(tasks[t])
       /\ \A u \in Tasks : Runnable(tasks[u]) /\ u < t => InUse(u)
       /\ tasks' = [tasks EXCEPT ![t] = Claimed(@, w)]
       /\ worker' = [worker EXCEPT ![w] = [Idle EXCEPT !.pc = "begin",
                                             !.task = t, !.push = tasks[t].push]]
  /\ UNCHANGED <<recs, live, store, run, request, faults>>

\* execute reads the recording once; hasMp4, hasAudio and needHandoff stay
\* what they were at this moment.  The raw file is needed for every stage,
\* so the download succeeds only if the take's raw object is there.
Begin(w) ==
  LET rec  == recs[SessionOf(TaskOf(w))]
      done == rec.transcript # 0 /\ rec.autoSummary # 0
      skip == rec.playbackKey /\ rec.audioKey /\ done
  IN /\ At(w, "begin")
     /\ Exists(TaskOf(w))
     /\ rec.raw # 0
     /\ skip \/ rec.raw \in store[SessionOf(TaskOf(w))].raw
     /\ worker' = [worker EXCEPT ![w].take = rec.raw, ![w].mp4 = rec.playbackKey,
                                 ![w].audio = rec.audioKey, ![w].done = done,
                                 ![w].pc = IF ~rec.playbackKey THEN "transcode"
                                           ELSE IF done THEN "complete"
                                           ELSE "extract"]
     /\ UNCHANGED <<tasks, recs, live, store, run, request, faults>>

\* tasks.updateStatus(task.id, st): no ownership check, an error only when
\* the row is gone.
UpdateStatus(w, pc, st, next) ==
  /\ At(w, pc)
  /\ Exists(TaskOf(w))
  /\ tasks' = [tasks EXCEPT ![TaskOf(w)] = WithStatus(@, st)]
  /\ Goto(w, next)
  /\ UNCHANGED <<recs, live, store, run, request, faults>>

Transcode(w) == UpdateStatus(w, "transcode", "TRANSCODING", "putVideo")

PutVideo(w) ==
  /\ At(w, "putVideo")
  /\ store' = [store EXCEPT ![SessionOf(TaskOf(w))].mp4 = worker[w].take]
  /\ Goto(w, "thumbnail")
  /\ UNCHANGED <<tasks, recs, live, run, request, faults>>

Thumbnail(w) == UpdateStatus(w, "thumbnail", "THUMBNAIL", "videoReady")

\* Mutant: markVideoReady by session, which hits the next take's row.
VideoReadyBySession(w) ==
  /\ At(w, "videoReady")
  /\ recs' = [recs EXCEPT ![SessionOf(TaskOf(w))].status = "READY",
                          ![SessionOf(TaskOf(w))].playbackKey = TRUE]
  /\ Goto(w, IF worker[w].done THEN "complete" ELSE "extract")
  /\ UNCHANGED <<tasks, live, store, run, request, faults>>

\* The thumbnail itself is optional; markVideoReady publishes the video.
VideoReady(w) ==
  /\ At(w, "videoReady")
  /\ Exists(TaskOf(w))
  /\ recs' = [recs EXCEPT ![SessionOf(TaskOf(w))].status = "READY",
                          ![SessionOf(TaskOf(w))].playbackKey = TRUE]
  /\ Goto(w, IF worker[w].done THEN "complete" ELSE "extract")
  /\ UNCHANGED <<tasks, live, store, run, request, faults>>

\* Mutant: the probe of the mp4 used for the audio too.
ExtractByVideo(w) ==
  UpdateStatus(w, "extract", "EXTRACTING_AUDIO",
               IF worker[w].mp4 THEN "handOff" ELSE "upload")

Extract(w) ==
  UpdateStatus(w, "extract", "EXTRACTING_AUDIO",
               IF worker[w].audio THEN "handOff" ELSE "upload")

Upload(w) == UpdateStatus(w, "upload", "UPLOADING_AUDIO", "putAudio")

PutAudio(w) ==
  /\ At(w, "putAudio")
  /\ store' = [store EXCEPT ![SessionOf(TaskOf(w))].mp3 = worker[w].take]
  /\ Goto(w, "setAudio")
  /\ UNCHANGED <<tasks, recs, live, run, request, faults>>

SetAudio(w) ==
  /\ At(w, "setAudio")
  /\ Exists(TaskOf(w))
  /\ recs' = [recs EXCEPT ![SessionOf(TaskOf(w))].audioKey = TRUE]
  /\ Goto(w, "handOff")
  /\ UNCHANGED <<tasks, live, store, run, request, faults>>

HandOff(w) == UpdateStatus(w, "handOff", "HANDED_OFF", "enqueue")

\* What the Python server queues for w's request: it refuses a task that is
\* gone and, when it pulls, an object that is not there.
Accepted(w, r) ==
  LET audio == IF worker[w].push THEN worker[w].take
               ELSE store[SessionOf(TaskOf(w))].mp3
  IN /\ Exists(TaskOf(w))
     /\ audio # 0
     /\ run[r].pc = "free"
     /\ run' = [run EXCEPT ![r] = [pc |-> "start", task |-> TaskOf(w), audio |-> audio]]

\* enqueueTranscription answered 202.
Enqueue(w) ==
  /\ At(w, "enqueue")
  /\ \E r \in Runs : Accepted(w, r)
  /\ Goto(w, "release")
  /\ UNCHANGED <<tasks, recs, live, store, request, faults>>

\* Mutant: releaseLock writes the hand-off status again.
ReleaseRestates(w) ==
  /\ At(w, "release")
  /\ Exists(TaskOf(w))
  /\ tasks' = [tasks EXCEPT ![TaskOf(w)] = Closed(@, "HANDED_OFF")]
  /\ GoIdle(w)
  /\ UNCHANGED <<recs, live, store, run, request, faults>>

Release(w) ==
  /\ At(w, "release")
  /\ Exists(TaskOf(w))
  /\ tasks' = [tasks EXCEPT ![TaskOf(w)] = Unlocked(@)]
  /\ GoIdle(w)
  /\ UNCHANGED <<recs, live, store, run, request, faults>>

Complete(w) ==
  /\ At(w, "complete")
  /\ Exists(TaskOf(w))
  /\ tasks' = [tasks EXCEPT ![TaskOf(w)] = Closed(@, "COMPLETED")]
  /\ GoIdle(w)
  /\ UNCHANGED <<recs, live, store, run, request, faults>>

\* execute throws: tick's catch block starts recordFailure, whose
\* transaction first reads the attempts.  When the row is gone it throws
\* again and the outer catch ends the tick.
Throw(w) ==
  worker' = [worker EXCEPT ![w] = IF Exists(TaskOf(w))
                                  THEN [@ EXCEPT !.pc = "record", !.seen = RowOf(w).attempts]
                                  ELSE Idle]

\* Any call of the handler can fail.  releaseLock does when the row is gone;
\* for another failure of it see ReleaseFails.  The removal of the work
\* directory in the finally block is part of each action that leaves execute:
\* nobody else sees it, and a failure stays a failure whatever comes of it.
StageFails(w) ==
  /\ worker[w].pc \notin {"idle", "record"}
  /\ At(w, "release") => ~Exists(TaskOf(w))
  /\ Throw(w)
  /\ UNCHANGED <<tasks, recs, live, store, run, request, faults>>

\* The server queued the work, but the hand-off fails for the worker all the
\* same: the reply does not arrive (timeout, connection reset).
EnqueueReplyLost(w) ==
  /\ At(w, "enqueue")
  /\ \E r \in Runs : Accepted(w, r)
  /\ Fault("lostReply")
  /\ Throw(w)
  /\ UNCHANGED <<tasks, recs, live, store, request>>

\* A fault of the same kind: the hand-off went through, but the database
\* call of releaseLock fails.
ReleaseFails(w) ==
  /\ At(w, "release")
  /\ Exists(TaskOf(w))
  /\ Fault("lostReply")
  /\ Throw(w)
  /\ UNCHANGED <<tasks, recs, live, store, run, request>>

\* A fault of its own: the last statement of Release or Complete succeeds, but
\* the work directory cannot be removed, and execute throws all the same.
CleanupFails(w) ==
  /\ worker[w].pc \in {"release", "complete"}
  /\ Exists(TaskOf(w))
  /\ tasks' = [tasks EXCEPT ![TaskOf(w)] = IF At(w, "release") THEN Unlocked(@)
                                           ELSE Closed(@, "COMPLETED")]
  /\ Fault("cleanup")
  /\ Throw(w)
  /\ UNCHANGED <<recs, live, store, run, request>>

RecordFailure(w) ==
  /\ At(w, "record")
  /\ tasks' = IF Exists(TaskOf(w))
              THEN [tasks EXCEPT ![TaskOf(w)] = FailureRecorded(@, worker[w].seen)]
              ELSE tasks
  /\ GoIdle(w)
  /\ UNCHANGED <<recs, live, store, run, request, faults>>

\* The heartbeat timer runs while the worker is on a task.
Heartbeat(w) ==
  /\ ~At(w, "idle")
  /\ tasks' = [tasks EXCEPT ![TaskOf(w)] = HeartBeaten(@, w)]
  /\ UNCHANGED <<recs, live, store, worker, run, request, faults>>

\* The worker drops its task and leaves the row as it is: the process died,
\* stop() gave up waiting, or appendLog or recordFailure threw in the catch
\* block.  A new process has a new id; it is the same w here, since lockedBy
\* is only ever compared by the heartbeat of the worker that claimed the row.
Crash(w) ==
  /\ ~At(w, "idle")
  /\ Fault("crash")
  /\ GoIdle(w)
  /\ UNCHANGED <<tasks, recs, live, store, run, request>>

\* lockedUntil passes by itself once the holder is no longer on the task.
LeaseRunsOut(t) ==
  /\ tasks[t].lease = "held"
  /\ \A w \in Workers : TaskOf(w) = t => tasks[t].lockedBy # w
  /\ tasks' = [tasks EXCEPT ![t].lease = "expired"]
  /\ UNCHANGED <<recs, live, store, worker, run, request, faults>>

\* While the holder works it takes three heartbeats in a row to fail or to
\* come late; the worker only logs that and works on.
HeartbeatsLost(t) ==
  /\ tasks[t].lease = "held"
  /\ tasks' = [tasks EXCEPT ![t].lease = "expired"]
  /\ Fault("lease")
  /\ UNCHANGED <<recs, live, store, worker, run, request>>

HandlerStep(w) ==
  \/ Begin(w) \/ Transcode(w) \/ PutVideo(w) \/ Thumbnail(w) \/ VideoReady(w)
  \/ Extract(w) \/ Upload(w) \/ PutAudio(w) \/ SetAudio(w)
  \/ HandOff(w) \/ Enqueue(w) \/ Release(w) \/ Complete(w)
  \/ StageFails(w) \/ RecordFailure(w)

WorkerStep(w) ==
  \/ Claim(w) \/ HandlerStep(w)
  \/ EnqueueReplyLost(w) \/ ReleaseFails(w) \/ CleanupFails(w)
  \/ Heartbeat(w) \/ Crash(w)
=============================================================================
