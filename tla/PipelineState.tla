--------------------------- MODULE PipelineState ---------------------------
(***************************************************************************)
(* What the parts of the recording pipeline share: the database rows, the  *)
(* object store, and where each process (worker, transcription run, HTTP   *)
(* request) stands.  The components' modules extend this one.              *)
(***************************************************************************)
EXTENDS TaskTable

CONSTANTS
  Tasks,        \* ids of task rows, numbered in order of createdAt
  Runs,         \* background tasks the Python server can have at a time
  Requests,     \* HTTP requests clients may send, each served once
  RequestKinds, \* which routes the clients use
  Faults,       \* which faults may happen
  MaxFaults     \* bound on the number of faults in a behaviour

AllRequestKinds == {"init", "complete", "abort", "reset", "retry",
                    "rearm", "cancel"}
AllFaults == {"crash", "lease", "lostReply", "cleanup", "restart"}

ASSUME PipelineAssumption ==
  /\ Tasks \subseteq Nat \ {0}
  /\ RequestKinds \subseteq AllRequestKinds
  /\ Faults \subseteq AllFaults
  /\ MaxFaults \in Nat

VARIABLES
  tasks,    \* table "Task"
  recs,     \* table "SessionRecording", at most one row per session
  live,     \* CourseSession.status
  store,    \* S3 / MinIO, per session
  worker,   \* the job each TaskWorker is on
  run,      \* the Python server's background tasks
  request,  \* the HTTP requests
  faults    \* number of faults so far

vars == <<tasks, recs, live, store, worker, run, request, faults>>

-----------------------------------------------------------------------------
(* A take is one recording attempt of the teacher: the timestamp in rawKey. *)
(* Artefacts carry the take they were made from; 0 is NULL or no object.    *)
Take == Nat

\* upload: s3UploadId is set.  id tells the rows of one session apart after
\* a reset deleted one and a new take inserted another.
Recording == [status      : {"NONE", "UPLOADING", "PROCESSING", "READY", "FAILED"},
              id          : Nat,
              raw         : Take,
              upload      : BOOLEAN,
              playbackKey : BOOLEAN,
              audioKey    : BOOLEAN,
              transcript  : Take,
              autoSummary : Take]

NoRecording == [status |-> "NONE", id |-> 0, raw |-> 0, upload |-> FALSE,
                playbackKey |-> FALSE, audioKey |-> FALSE,
                transcript |-> 0, autoSummary |-> 0]

\* open: takes whose multipart upload is in progress; raw: takes whose raw
\* object exists; mp4, mp3: the take in playback.mp4 and audio.mp3, whose
\* keys are the same for every take of a session.  newest: the last take
\* begun; the next one gets a later timestamp.
ObjectStore == [open : SUBSET Take, raw : SUBSET Take, mp4 : Take, mp3 : Take,
                newest : Take]

EmptyStore == [open |-> {}, raw |-> {}, mp4 |-> 0, mp3 |-> 0, newest |-> 0]

WorkerPC == {"idle", "begin", "transcode", "putVideo", "thumbnail",
             "videoReady", "extract", "upload", "putAudio", "setAudio",
             "handOff", "enqueue", "release", "complete", "record"}

\* take, mp4, audio and done are execute's snapshot of the recording row:
\* its rawKey, hasMp4, hasAudio and ~needHandoff.  seen: see recordFailure.
Job == [pc : WorkerPC, task : Nat, push : BOOLEAN, take : Take,
        mp4 : BOOLEAN, audio : BOOLEAN, done : BOOLEAN, seen : 0 .. MaxAttempts]

Idle == [pc |-> "idle", task |-> 0, push |-> FALSE, take |-> 0,
         mp4 |-> FALSE, audio |-> FALSE, done |-> FALSE, seen |-> 0]

RunPC == {"free", "start", "whisper", "summarize", "llm", "finish", "log"}
Run == [pc : RunPC, task : Nat, audio : Take]
FreeRun == [pc |-> "free", task |-> 0, audio |-> 0]

RequestPC == {"new", "done", "initRow", "initSession", "completeUpload",
              "completeStatus", "completeTask", "completeSession", "abortRow",
              "resetRow", "resetSession", "retryRow", "retryTask",
              "rearmPayload", "rearmRow", "cancelRow"}

\* Where a request of an administrator waits, holding a task, not a session.
OnTask == {"rearmPayload", "rearmRow", "cancelRow"}

\* What a handler remembers across its awaits: the session, the id of the
\* recording row it read, the take and s3UploadId it read or made, whether
\* it saw a playbackKey, and the task of an admin request.
Request == [pc : RequestPC, session : Sessions \cup {NoSession}, id : Nat,
            take : Take, saw : BOOLEAN, task : Nat]

Unsent == [pc |-> "new", session |-> NoSession, id |-> 0, take |-> 0,
           saw |-> FALSE, task |-> 0]
Answered == [Unsent EXCEPT !.pc = "done"]

\* The type invariant of the pipeline.
TypeOK ==
  /\ tasks \in [Tasks -> TaskRow]
  /\ recs \in [Sessions -> Recording]
  /\ live \in [Sessions -> {"SCHEDULED", "LIVE", "ENDED"}]
  /\ store \in [Sessions -> ObjectStore]
  /\ worker \in [Workers -> Job]
  /\ run \in [Runs -> Run]
  /\ request \in [Requests -> Request]
  /\ faults \in Nat

-----------------------------------------------------------------------------
Exists(t) == tasks[t].status \notin Missing

\* A worker or a run on task t finds t's recording row as long as the task
\* row is there: deleting the recording deletes its tasks with it.
SessionOf(t) == tasks[t].session

\* Does some process have a statement on row u under way?  FOR UPDATE SKIP
\* LOCKED passes over such a row.
InUse(u) ==
  \/ \E w \in Workers : worker[w].task = u
  \/ \E r \in Runs : run[r].task = u
  \/ \E q \in Requests : request[q].task = u

\* A fault of this kind may happen, and counts.
Fault(kind) ==
  /\ kind \in Faults
  /\ faults < MaxFaults
  /\ faults' = faults + 1
=============================================================================
