-------------------------- MODULE RecordingPipeline --------------------------
(***************************************************************************)
(* The recording pipeline: workers, Python runs and HTTP requests          *)
(* interleaved over the shared rows and objects.                           *)
(***************************************************************************)
EXTENDS TaskWorker, WhisperServer, RecordingApi

\* A recording in the middle of its first upload.
Uploading == [NoRecording EXCEPT !.status = "UPLOADING", !.id = 1, !.raw = 1,
                                 !.upload = TRUE]

\* No task yet; each session has no recording, or is live and uploading one.
Init ==
  /\ tasks = [t \in Tasks |-> NoRow]
  /\ \E up \in SUBSET Sessions :
       /\ recs = [s \in Sessions |-> IF s \in up THEN Uploading ELSE NoRecording]
       /\ live = [s \in Sessions |-> IF s \in up THEN "LIVE" ELSE "SCHEDULED"]
       /\ store = [s \in Sessions |->
                     IF s \in up THEN [EmptyStore EXCEPT !.open = {1}, !.newest = 1]
                     ELSE EmptyStore]
  /\ worker = [w \in Workers |-> Idle]
  /\ run = [r \in Runs |-> FreeRun]
  /\ request = [q \in Requests |-> Unsent]
  /\ faults = 0

Next ==
  \/ \E w \in Workers : WorkerStep(w)
  \/ \E t \in Tasks : LeaseRunsOut(t) \/ HeartbeatsLost(t)
  \/ \E r \in Runs : RunStep(r) \/ RunUnrecorded(r)
  \/ Restart
  \/ \E q \in Requests : RequestStep(q)

Spec == Init /\ [][Next]_vars

\* The workers keep polling and their handlers keep running, the server's
\* event loop and the request handlers run what they have started, and a
\* lease nobody renews runs out.  Clients need not send anything, and no
\* fault has to happen.
Fairness ==
  /\ WF_vars(\E w \in Workers : Claim(w))
  /\ \A w \in Workers : WF_vars(HandlerStep(w))
  /\ \A r \in Runs : WF_vars(RunStep(r))
  /\ \A q \in Requests : WF_vars(RequestGoesOn(q))
  /\ \A t \in Tasks : WF_vars(LeaseRunsOut(t))

FairSpec == Spec /\ Fairness

-----------------------------------------------------------------------------
(***************************************************************************)
(* Safety                                                                  *)
(***************************************************************************)

\* Work reaches the Python server, and a task is called COMPLETED, only when
\* the recording's video and audio are published and stored, whichever
\* workers died, lost their lease or ran twice on the way (the order of the
\* stages in ProcessRecordingTask.execute and its idempotency probes).
\* For clients that do not start over on the same session.
HandedOffHasMedia ==
  \A t \in Tasks :
    tasks[t].status \in PythonOwned \cup {"COMPLETED"} =>
      LET s == SessionOf(t)
      IN /\ recs[s].playbackKey /\ store[s].mp4 # 0
         /\ recs[s].audioKey /\ store[s].mp3 # 0

\* A recording shown as READY has a video to play (markVideoReady after the
\* upload of the mp4; resetForRetry's choice between READY and PROCESSING).
ReadyIsPlayable ==
  \A s \in Sessions :
    recs[s].status = "READY" => recs[s].playbackKey /\ store[s].mp4 # 0

\* Every task belongs to a recording that is there, also when a teacher
\* resets or starts over while a completion or a retry is under way (the
\* delete of the reset route cascades, tasks.create refers to the row).
TasksHaveRecording ==
  \A t \in Tasks : Exists(t) => recs[SessionOf(t)].id # 0

\* After a reset, which deletes a recording's row with its tasks, nothing that
\* a worker or a run still does for such a task changes a recording, least of
\* all the row the session's next take has by then; and a deleted task stays
\* deleted.  An abort deletes nothing: the next init restarts the same row, and
\* there the old worker's writes do arrive (README, section 4).
Deleted(t) == t \in Tasks /\ tasks[t].status = "DELETED"
LateWritesMissNewRow ==
  [][/\ \A t \in Tasks : Deleted(t) => Deleted(t)'
     /\ \A w \in Workers : Deleted(TaskOf(w)) /\ worker'[w] # worker[w] => recs' = recs
     /\ \A r \in Runs : Deleted(run[r].task) /\ run'[r] # run[r] => recs' = recs]_vars

Handlers(t) == {w \in Workers : TaskOf(w) = t /\ ~At(w, "release")}
RunsOn(t) == {r \in Runs : run[r].task = t}

\* A task is worked on by one process at a time: one worker's handler, or
\* one Python run (claimNext with its lease, and its exclusion of the
\* statuses Python owns).  Holds while leases are renewed, hand-off replies
\* arrive, work directories can be removed and no administrator re-arms or
\* cancels.
OneOwner ==
  \A t \in Tasks :
    /\ \A w, v \in Handlers(t) : w = v
    /\ \A r, p \in RunsOn(t) : r = p
    /\ Handlers(t) = {} \/ RunsOn(t) = {}

\* A task that is still to be worked on has attempts left: recordFailure
\* gives up at maxAttempts, and crashes and sweeps do not go around it.
AttemptsLeft ==
  \A t \in Tasks :
    Exists(t) /\ tasks[t].status \notin Terminal => tasks[t].attempts < MaxAttempts

(***************************************************************************)
(* Refinement                                                              *)
(***************************************************************************)

\* Artefacts of a session's take appear in order and stay.  For clients that
\* do not start over on the same session, and under every fault.
A == INSTANCE Artefacts WITH
       video      <- {s \in Sessions : recs[s].playbackKey},
       audio      <- {s \in Sessions : recs[s].audioKey},
       transcript <- {s \in Sessions : recs[s].transcript # 0},
       summary    <- {s \in Sessions : recs[s].autoSummary # 0}

ArtefactsInOrder == A!Spec

\* Who has task t.  A row in a node-owned status still belongs to its worker
\* after that worker died: the next claim takes it over from there.
OwnerOf(t) ==
  CASE tasks[t].status \in Missing -> "nobody"
    [] Exists(t) /\ (Handlers(t) # {} \/ tasks[t].status \in NodeOwned) -> "worker"
    [] Handlers(t) = {} /\ tasks[t].status = "PENDING" -> "queue"
    [] Handlers(t) = {} /\ tasks[t].status \in PythonOwned -> "python"
    [] Handlers(t) = {} /\ tasks[t].status \in Terminal -> "finished"

O == INSTANCE TaskOwnership WITH owner <- [t \in Tasks |-> OwnerOf(t)]

\* Under the conditions of OneOwner the queue passes each task along one
\* way only.
OwnershipIsPassed == O!Spec

(***************************************************************************)
(* Liveness, under FairSpec                                                *)
(***************************************************************************)

\* A fault hit task t in Python's hands, or on the way there: no process is on
\* it, and none may claim it.
Stranded(t) ==
  /\ faults > 0
  /\ tasks[t].status \in PythonOwned
  /\ \A w \in Workers : TaskOf(w) # t
  /\ RunsOn(t) = {}

\* A task that was queued is finished in the end: completed, or failed after
\* its attempts, also after a crash of its worker, a clean-up that failed or a
\* restart of the server, but for the very task such a fault has stranded.
TasksFinish ==
  \A t \in Tasks :
    tasks[t].status = "PENDING" ~> tasks[t].status \in Terminal \/ Stranded(t)

\* A task whose worker crashed in one of its own stages is picked up again:
\* no row stays in a node-owned status (the lease runs out, claimNext takes
\* the row again).
StagesRecover ==
  \A t \in Tasks :
    tasks[t].status \in NodeOwned ~> tasks[t].status \notin NodeOwned
=============================================================================
