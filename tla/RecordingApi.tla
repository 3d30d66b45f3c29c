---------------------------- MODULE RecordingApi ----------------------------
(***************************************************************************)
(* The HTTP handlers that act on a recording and its tasks: the routes of  *)
(* recordings.routes.ts with the use cases CompleteRecording and           *)
(* RetryRecording, and the admin routes with RetryTask and CancelTask.     *)
(* A handler is split where it awaits: what it read may be out of date at  *)
(* its next step.  A handler whose checks fail answers an error and        *)
(* changes nothing, so the request is simply not taken.                    *)
(***************************************************************************)
EXTENDS PipelineState

New(q, kind) == request[q].pc = "new" /\ kind \in RequestKinds
Next_(q, pc) == request' = [request EXCEPT ![q].pc = pc]
Answer(q) == request' = [request EXCEPT ![q] = Answered]

\* The handler goes on at pc, remembering the session's recording row.
Remember(q, pc, s, take, saw) ==
  request' = [request EXCEPT ![q] = [pc |-> pc, session |-> s, id |-> recs[s].id,
                                     take |-> take, saw |-> saw, task |-> 0]]

HasRecording(s) == recs[s].id # 0

\* The row the handler read is still there: an update by id succeeds.
SameRow(q) == recs[request[q].session].id = request[q].id

-----------------------------------------------------------------------------
\* POST /recordings: refused once the recording is PROCESSING or READY;
\* opens a multipart upload under a new rawKey.
InitUpload(q, s) ==
  LET take == store[s].newest + 1
  IN /\ New(q, "init")
     /\ recs[s].status \notin {"PROCESSING", "READY"}
     /\ store' = [store EXCEPT ![s].open = @ \cup {take}, ![s].newest = take]
     /\ Remember(q, "initRow", s, take, FALSE)
     /\ UNCHANGED <<tasks, recs, live, worker, run, faults>>

\* Updates the row it found, or creates one if it found none; the artefact
\* fields it does not name keep their values.
InitRow(q) ==
  LET s == request[q].session
  IN /\ request[q].pc = "initRow"
     /\ SameRow(q)
     /\ recs' = [recs EXCEPT ![s].status = "UPLOADING",
                             ![s].id = IF @ = 0 THEN request[q].take ELSE @,
                             ![s].raw = request[q].take,
                             ![s].upload = TRUE,
                             ![s].playbackKey = FALSE]
     /\ Next_(q, "initSession")
     /\ UNCHANGED <<tasks, live, store, worker, run, faults>>

InitSession(q) ==
  /\ request[q].pc = "initSession"
  /\ live' = [live EXCEPT ![request[q].session] = "LIVE"]
  /\ Answer(q)
  /\ UNCHANGED <<tasks, recs, store, worker, run, faults>>

-----------------------------------------------------------------------------
\* POST /:recordingId/complete reads the row.
CompleteRead(q, s) ==
  /\ New(q, "complete")
  /\ HasRecording(s) /\ recs[s].raw # 0
  /\ Remember(q, "completeUpload", s, recs[s].raw, recs[s].upload)
  /\ UNCHANGED <<tasks, recs, live, store, worker, run, faults>>

\* completeMultipart, unless s3UploadId was null.  An upload that was
\* completed before may be answered again with success (as S3 does) or with
\* an error (as MinIO does: RequestFails).
CompleteUpload(q) ==
  LET s == request[q].session
      take == request[q].take
  IN /\ request[q].pc = "completeUpload"
     /\ \/ ~request[q].saw /\ UNCHANGED store
        \/ request[q].saw /\ take \in store[s].raw /\ UNCHANGED store
        \/ /\ request[q].saw /\ take \in store[s].open
           /\ store' = [store EXCEPT ![s].open = @ \ {take}, ![s].raw = @ \cup {take}]
     /\ Next_(q, "completeStatus")
     /\ UNCHANGED <<tasks, recs, live, worker, run, faults>>

CompleteStatus(q) ==
  /\ request[q].pc = "completeStatus"
  /\ SameRow(q)
  /\ recs' = [recs EXCEPT ![request[q].session].status = "PROCESSING"]
  /\ Next_(q, "completeTask")
  /\ UNCHANGED <<tasks, live, store, worker, run, faults>>

\* tasks.create: the next row; its recordingId must refer to a row.
CreateTask(q) ==
  /\ SameRow(q)
  /\ \E t \in Tasks :
       /\ tasks[t].status = "ABSENT"
       /\ \A u \in Tasks : tasks[u].status = "ABSENT" => t <= u
       /\ tasks' = [tasks EXCEPT ![t] = Created(request[q].session)]

CompleteTask(q) ==
  /\ request[q].pc = "completeTask"
  /\ CreateTask(q)
  /\ Next_(q, "completeSession")
  /\ UNCHANGED <<recs, live, store, worker, run, faults>>

CompleteSession(q) ==
  /\ request[q].pc = "completeSession"
  /\ live' = IF SameRow(q) THEN [live EXCEPT ![request[q].session] = "ENDED"] ELSE live
  /\ Answer(q)
  /\ UNCHANGED <<tasks, recs, store, worker, run, faults>>

-----------------------------------------------------------------------------
\* POST /:recordingId/abort, in any status; aborting the upload is
\* best-effort.
AbortUpload(q, s) ==
  /\ New(q, "abort")
  /\ HasRecording(s)
  /\ \/ store' = [store EXCEPT ![s].open =
                    IF recs[s].upload THEN @ \ {recs[s].raw} ELSE @]
     \/ UNCHANGED store
  /\ Remember(q, "abortRow", s, 0, FALSE)
  /\ UNCHANGED <<tasks, recs, live, worker, run, faults>>

AbortRow(q) ==
  LET s == request[q].session
  IN /\ request[q].pc = "abortRow"
     /\ SameRow(q)
     /\ recs' = [recs EXCEPT ![s].status = "FAILED", ![s].upload = FALSE]
     /\ Answer(q)
     /\ UNCHANGED <<tasks, live, store, worker, run, faults>>

\* cleanupRecordingS3: aborts the upload and deletes the objects the row
\* refers to; either may fail without a word.
Cleaned(objects, rec, aborted, deleted) ==
  [objects EXCEPT
     !.open = IF aborted /\ rec.upload THEN @ \ {rec.raw} ELSE @,
     !.raw  = IF deleted THEN @ \ {rec.raw} ELSE @,
     !.mp4  = IF deleted /\ rec.playbackKey THEN 0 ELSE @,
     !.mp3  = IF deleted /\ rec.audioKey THEN 0 ELSE @]

\* POST /:recordingId/reset
ResetObjects(q, s) ==
  /\ New(q, "reset")
  /\ HasRecording(s)
  /\ \E aborted, deleted \in BOOLEAN :
       store' = [store EXCEPT ![s] = Cleaned(@, recs[s], aborted, deleted)]
  /\ Remember(q, "resetRow", s, 0, FALSE)
  /\ UNCHANGED <<tasks, recs, live, worker, run, faults>>

\* Mutant: no cascade.
ResetRowOnly(q) ==
  LET s == request[q].session
  IN /\ request[q].pc = "resetRow"
     /\ SameRow(q)
     /\ recs' = [recs EXCEPT ![s] = NoRecording]
     /\ Next_(q, "resetSession")
     /\ UNCHANGED <<tasks, live, store, worker, run, faults>>

\* The row goes, and its tasks with it.
ResetRow(q) ==
  LET s == request[q].session
  IN /\ request[q].pc = "resetRow"
     /\ SameRow(q)
     /\ recs' = [recs EXCEPT ![s] = NoRecording]
     /\ tasks' = [t \in Tasks |->
                    IF Exists(t) /\ tasks[t].session = s
                    THEN Closed(tasks[t], "DELETED") ELSE tasks[t]]
     /\ Next_(q, "resetSession")
     /\ UNCHANGED <<live, store, worker, run, faults>>

ResetSession(q) ==
  /\ request[q].pc = "resetSession"
  /\ live' = [live EXCEPT ![request[q].session] = "SCHEDULED"]
  /\ Answer(q)
  /\ UNCHANGED <<tasks, recs, store, worker, run, faults>>

-----------------------------------------------------------------------------
\* POST /:recordingId/retry up to resetForRetry's read of playbackKey.
RetryRead(q, s) ==
  /\ New(q, "retry")
  /\ HasRecording(s) /\ recs[s].raw # 0
  /\ Remember(q, "retryRow", s, 0, recs[s].playbackKey)
  /\ UNCHANGED <<tasks, recs, live, store, worker, run, faults>>

\* Mutant: READY without a look at the video.
RetryRowReady(q) ==
  LET s == request[q].session
  IN /\ request[q].pc = "retryRow"
     /\ SameRow(q)
     /\ recs' = [recs EXCEPT ![s].status = "READY", ![s].autoSummary = 0]
     /\ Next_(q, "retryTask")
     /\ UNCHANGED <<tasks, live, store, worker, run, faults>>

\* Mutant: a "deep" retry that drops the transcript as well.
RetryRowDeep(q) ==
  LET s == request[q].session
  IN /\ request[q].pc = "retryRow"
     /\ SameRow(q)
     /\ recs' = [recs EXCEPT
                   ![s].status = IF request[q].saw THEN "READY" ELSE "PROCESSING",
                   ![s].transcript = 0, ![s].autoSummary = 0]
     /\ Next_(q, "retryTask")
     /\ UNCHANGED <<tasks, live, store, worker, run, faults>>

RetryRow(q) ==
  LET s == request[q].session
  IN /\ request[q].pc = "retryRow"
     /\ SameRow(q)
     /\ recs' = [recs EXCEPT
                   ![s].status = IF request[q].saw THEN "READY" ELSE "PROCESSING",
                   ![s].autoSummary = 0]
     /\ Next_(q, "retryTask")
     /\ UNCHANGED <<tasks, live, store, worker, run, faults>>

RetryTask(q) ==
  /\ request[q].pc = "retryTask"
  /\ CreateTask(q)
  /\ Answer(q)
  /\ UNCHANGED <<recs, live, store, worker, run, faults>>

-----------------------------------------------------------------------------
\* POST /admin/tasks/:id/retry: allowed for a finished row and for a claimed
\* one.
RearmRead(q, t) ==
  /\ New(q, "rearm")
  /\ tasks[t].status \in Terminal \cup {"CLAIMED"}
  /\ request' = [request EXCEPT ![q].pc = "rearmPayload", ![q].task = t]
  /\ UNCHANGED <<tasks, recs, live, store, worker, run, faults>>

\* The transport override of the request's body; without one the payload
\* stays as it is.
RearmPayload(q) ==
  /\ request[q].pc = "rearmPayload"
  /\ Exists(request[q].task)
  /\ \E push \in BOOLEAN : tasks' = [tasks EXCEPT ![request[q].task].push = push]
  /\ Next_(q, "rearmRow")
  /\ UNCHANGED <<recs, live, store, worker, run, faults>>

RearmRow(q) ==
  /\ request[q].pc = "rearmRow"
  /\ Exists(request[q].task)
  /\ tasks' = [tasks EXCEPT ![request[q].task] = WithStatus(@, "PENDING")]
  /\ Answer(q)
  /\ UNCHANGED <<recs, live, store, worker, run, faults>>

\* POST /admin/tasks/:id/cancel: a no-op on a finished row.
CancelRead(q, t) ==
  /\ New(q, "cancel")
  /\ Exists(t) /\ tasks[t].status \notin Terminal
  /\ request' = [request EXCEPT ![q].pc = "cancelRow", ![q].task = t]
  /\ UNCHANGED <<tasks, recs, live, store, worker, run, faults>>

CancelRow(q) ==
  /\ request[q].pc = "cancelRow"
  /\ Exists(request[q].task)
  /\ tasks' = [tasks EXCEPT ![request[q].task] = Closed(@, "CANCELED")]
  /\ Answer(q)
  /\ UNCHANGED <<recs, live, store, worker, run, faults>>

-----------------------------------------------------------------------------
\* A call of the handler throws, or the API process dies under it: what was
\* done stays done, the rest is not.
RequestFails(q) ==
  /\ request[q].pc \notin {"new", "done"}
  /\ Answer(q)
  /\ UNCHANGED <<tasks, recs, live, store, worker, run, faults>>

RequestSent(q) ==
  \/ \E s \in Sessions : \/ InitUpload(q, s) \/ CompleteRead(q, s)
                         \/ AbortUpload(q, s) \/ ResetObjects(q, s) \/ RetryRead(q, s)
  \/ \E t \in Tasks : RearmRead(q, t) \/ CancelRead(q, t)

RequestGoesOn(q) ==
  \/ InitRow(q) \/ InitSession(q)
  \/ CompleteUpload(q) \/ CompleteStatus(q) \/ CompleteTask(q) \/ CompleteSession(q)
  \/ AbortRow(q) \/ ResetRow(q) \/ ResetSession(q)
  \/ RetryRow(q) \/ RetryTask(q) \/ RearmPayload(q) \/ RearmRow(q) \/ CancelRow(q)
  \/ RequestFails(q)

RequestStep(q) == RequestSent(q) \/ RequestGoesOn(q)
=============================================================================
