------------------------- MODULE MultipartRecorder -------------------------
(***************************************************************************)
(* The browser recorder of record/Recorder.tsx against the multipart       *)
(* upload behind it: start() and stop(), which await the user, the network *)
(* and each other's uploads, the MediaRecorder that delivers a slice every *)
(* five seconds meanwhile, and the parts in flight.  Several recorders may *)
(* be mounted for one session (tabs, teachers, a page opened again): they  *)
(* share the session's one recording row and whatever upload it names.     *)
(*                                                                         *)
(* The handlers of recordings.routes.ts are atomic here; RecordingApi has  *)
(* them split at their awaits.                                             *)
(***************************************************************************)
EXTENDS Naturals, Sequences, FiniteSetsExt

CONSTANTS
  Recorders,
  PartMin,    \* slices that make PART_MIN_BYTES
  MaxSlices,  \* bound on the slices of a take
  Slices,     \* the same, by recorder
  MaxUploads, \* bound on the takes begun
  MaxFaults   \* bound on failing calls and refused permissions

ASSUME RecorderAssumption ==
  /\ PartMin \in Nat \ {0}
  /\ MaxSlices \in Nat /\ Slices \in [Recorders -> 0..MaxSlices]
  /\ MaxUploads \in Nat /\ MaxFaults \in Nat

VARIABLES
  status,   \* RecorderStatus
  error,    \* a message is shown
  at,       \* where start() or stop() waits
  mr,       \* the MediaRecorder
  take,     \* history: the takes a recorder has begun to record
  captured, \* slices of the take that arrived; those after cut[r] are the
  cut,      \*   buffer (bufferRef), the others have gone into parts
  number,   \* partNumberRef
  parts,    \* partsRef
  awaited,  \* what Promise.all(pendingFlushes) waits for
  flights,  \* flushPart calls at one of their awaits
  marked,   \* the teacher marked chapters
  late,     \* history: a last slice came after the wait of stop()
  row,      \* the session's row in "SessionRecording"
  bucket,   \* parts stored with an upload
  open,     \* multipart uploads neither completed nor aborted
  object,   \* what an upload was completed to
  faults

recorder == <<status, error, at, mr, take, captured, cut, number, parts, awaited, marked, late>>
server == <<row, bucket, open, object>>
recorderVars == <<recorder, flights, server, faults>>

Status == {"idle", "starting", "recording", "stopping", "uploading", "done", "error"}
StartPC == {"picking", "miking", "initing"}
StopPC == {"settling", "draining", "flushing", "completing", "chapters"}
Uploads == 1..MaxUploads

\* Slices from..to of a take; equal data has equal ETags.
Data == [by : Recorders, take : Uploads, from : 1..MaxSlices, to : 1..MaxSlices]
Part == [n : 1..MaxSlices, data : Data]
Flight == [by : Recorders, n : 1..MaxSlices, data : Data, final : BOOLEAN,
           upload : Uploads \cup {0}]  \* 0: still waiting for its part-url
RowStatus == {"absent", "UPLOADING", "PROCESSING", "READY", "FAILED"}

RecorderTypeOK ==
  /\ status \in [Recorders -> Status]
  /\ error \in [Recorders -> BOOLEAN]
  /\ at \in [Recorders -> StartPC \cup StopPC \cup {"idle"}]
  /\ mr \in [Recorders -> {"none", "recording", "stopping"}]
  /\ take \in [Recorders -> 0..MaxUploads]
  /\ captured \in [Recorders -> 0..MaxSlices]
  /\ cut \in [Recorders -> 0..MaxSlices]
  /\ \A r \in Recorders : cut[r] <= captured[r]
  /\ number \in [Recorders -> 1..(MaxSlices + 1)]
  /\ parts \in [Recorders -> SUBSET Part]
  /\ awaited \in [Recorders -> SUBSET (1..MaxSlices)]
  /\ flights \subseteq Flight
  /\ marked \in [Recorders -> BOOLEAN]
  /\ late \in [Recorders -> BOOLEAN]
  /\ row \in [status : RowStatus, upload : Uploads \cup {0}]
  /\ \A b \in bucket : b.upload \in Uploads /\ b.part \in Part
  /\ open \subseteq Uploads
  /\ object \in [Uploads -> Seq(Data)]
  /\ faults \in 0..MaxFaults

RecorderInit ==
  /\ status = [r \in Recorders |-> "idle"]
  /\ error = [r \in Recorders |-> FALSE]
  /\ at = [r \in Recorders |-> "idle"]
  /\ mr = [r \in Recorders |-> "none"]
  /\ take = [r \in Recorders |-> 0]
  /\ captured = [r \in Recorders |-> 0]
  /\ cut = [r \in Recorders |-> 0]
  /\ number = [r \in Recorders |-> 1]
  /\ parts = [r \in Recorders |-> {}]
  /\ awaited = [r \in Recorders |-> {}]
  /\ flights = {}
  /\ marked = [r \in Recorders |-> FALSE]
  /\ late = [r \in Recorders |-> FALSE]
  /\ row = [status |-> "absent", upload |-> 0]
  /\ bucket = {}
  /\ open = {}
  /\ object = [u \in Uploads |-> <<>>]
  /\ faults = 0

Fault == faults < MaxFaults /\ faults' = faults + 1
NoFault == UNCHANGED faults

Goto(r, pc) == at' = [at EXCEPT ![r] = pc]
Show(r, s) == status' = [status EXCEPT ![r] = s]

-----------------------------------------------------------------------------
(* flushPart: the buffer is taken and its number with it, then part-url and *)
(* PUT are awaited.                                                         *)

Cut(r, upto, final) ==
  /\ cut' = [cut EXCEPT ![r] = upto]
  /\ number' = [number EXCEPT ![r] = @ + 1]
  /\ flights' = flights \cup
       {[by |-> r, n |-> number[r], final |-> final, upload |-> 0,
         data |-> [by |-> r, take |-> take[r], from |-> cut[r] + 1, to |-> upto]]}

\* ondataavailable
Arrives(r) ==
  /\ captured[r] < Slices[r]
  /\ captured' = [captured EXCEPT ![r] = @ + 1]
  /\ IF captured[r] + 1 - cut[r] >= PartMin
     THEN Cut(r, captured[r] + 1, FALSE)
     ELSE UNCHANGED <<cut, number, flights>>

Slice(r) ==
  /\ mr[r] = "recording"
  /\ Arrives(r)
  /\ UNCHANGED <<status, error, at, mr, take, parts, awaited, marked, late, server, faults>>

\* What stop() of the MediaRecorder still delivers, if anything.
LastSlice(r) ==
  /\ mr[r] = "stopping"
  /\ mr' = [mr EXCEPT ![r] = "none"]
  /\ \/ /\ Arrives(r)
        /\ late' = [late EXCEPT ![r] = @ \/ at[r] # "settling"]
     \/ UNCHANGED <<captured, cut, number, flights, late>>
  /\ UNCHANGED <<status, error, at, take, parts, awaited, marked, server, faults>>

\* The upload is the row's at this moment.
PartUrl(f) ==
  /\ f.upload = 0
  /\ flights' = (flights \ {f}) \cup {[f EXCEPT !.upload = row.upload]}
  /\ UNCHANGED <<recorder, server, faults>>

\* A part of the same number replaces the one before.
Stored(f) ==
  {b \in bucket : ~ (b.upload = f.upload /\ b.part.n = f.n)}
    \cup {[upload |-> f.upload, part |-> [n |-> f.n, data |-> f.data]]}

PutPart(f) ==
  LET r == f.by
  IN /\ f.upload \in open
     /\ bucket' = Stored(f)
     /\ flights' = flights \ {f}
     /\ parts' = [parts EXCEPT ![r] = @ \cup {[n |-> f.n, data |-> f.data]}]
     /\ IF f.final THEN Goto(r, "completing") /\ Show(r, "uploading")
                   ELSE UNCHANGED <<at, status>>
     /\ UNCHANGED <<error, mr, take, captured, cut, number, awaited, marked, late>>
     /\ UNCHANGED <<row, open, object, faults>>

Fails(r) ==
  /\ Show(r, "error")
  /\ error' = [error EXCEPT ![r] = TRUE]
  /\ Goto(r, "idle")

\* Mutant: a part is tried for ever.
PartFailsSlowly(f) ==
  /\ f.upload \notin open \cup {0}
  /\ UNCHANGED <<recorder, flights, server, faults>>

\* A part that fails is not tried again.  The upload may be gone; or a call
\* fails, perhaps only its answer.
PartFails(f) ==
  /\ \/ f.upload \notin open \cup {0} /\ UNCHANGED <<bucket, faults>>
     \/ Fault /\ UNCHANGED bucket
     \/ Fault /\ f.upload \in open /\ bucket' = Stored(f)
  /\ flights' = flights \ {f}
  /\ IF f.final THEN Fails(f.by)
     ELSE error' = [error EXCEPT ![f.by] = TRUE] /\ UNCHANGED <<status, at>>
  /\ UNCHANGED <<mr, take, captured, cut, number, parts, awaited, marked, late>>
  /\ UNCHANGED <<row, open, object>>

-----------------------------------------------------------------------------
(* start()                                                                  *)

\* The last slice of the take before has come by now.
Start(r) ==
  /\ status[r] \in {"idle", "error", "done"}
  /\ mr[r] = "none"
  /\ Show(r, "starting")
  /\ error' = [error EXCEPT ![r] = FALSE]
  /\ Goto(r, "picking")
  /\ UNCHANGED <<mr, take, captured, cut, number, parts, awaited, marked, late>>
  /\ UNCHANGED <<flights, server, faults>>

\* The screen is chosen; a microphone that is still live is used again.
Picked(r, micLive) ==
  /\ at[r] = "picking"
  /\ Goto(r, IF micLive THEN "initing" ELSE "miking")
  /\ UNCHANGED <<status, error, mr, take, captured, cut, number, parts, awaited, marked, late>>
  /\ UNCHANGED <<flights, server, faults>>

Miked(r) ==
  /\ at[r] = "miking"
  /\ Goto(r, "initing")
  /\ UNCHANGED <<status, error, mr, take, captured, cut, number, parts, awaited, marked, late>>
  /\ UNCHANGED <<flights, server, faults>>

\* The screen or the microphone is refused.
Refused(r) ==
  /\ at[r] \in {"picking", "miking"}
  /\ Fault
  /\ Fails(r)
  /\ UNCHANGED <<mr, take, captured, cut, number, parts, awaited, marked, late>>
  /\ UNCHANGED <<flights, server>>

Finalized == row.status \in {"PROCESSING", "READY"}

\* POST /recordings: a new upload, in the row there is if there is one.
InitUpload ==
  /\ ~ Finalized
  /\ row.upload < MaxUploads
  /\ row' = [status |-> "UPLOADING", upload |-> row.upload + 1]
  /\ open' = open \cup {row.upload + 1}
  /\ UNCHANGED <<bucket, object>>

\* Mutant: the count of what has been taken from the buffer is kept.
FreshRefsButCut(r) ==
  /\ take' = [take EXCEPT ![r] = @ + 1]
  /\ parts' = [parts EXCEPT ![r] = {}]
  /\ number' = [number EXCEPT ![r] = 1]
  /\ captured' = [captured EXCEPT ![r] = 0]
  /\ UNCHANGED cut

\* Refs of the component, made anew for every take.
FreshRefs(r) ==
  /\ take' = [take EXCEPT ![r] = @ + 1]
  /\ parts' = [parts EXCEPT ![r] = {}]
  /\ number' = [number EXCEPT ![r] = 1]
  /\ captured' = [captured EXCEPT ![r] = 0]
  /\ cut' = [cut EXCEPT ![r] = 0]

Inited(r) ==
  /\ at[r] = "initing"
  /\ InitUpload
  /\ FreshRefs(r)
  /\ mr' = [mr EXCEPT ![r] = "recording"]
  /\ Show(r, "recording")
  /\ Goto(r, "idle")
  /\ UNCHANGED <<error, awaited, marked, late, flights, faults>>

\* 409, 503, or an answer that is lost.
InitFails(r) ==
  /\ at[r] = "initing"
  /\ \/ Finalized /\ UNCHANGED <<server, faults>>
     \/ Fault /\ UNCHANGED server
     \/ Fault /\ InitUpload
  /\ Fails(r)
  /\ UNCHANGED <<mr, take, captured, cut, number, parts, awaited, marked, late, flights>>

-----------------------------------------------------------------------------
(* stop()                                                                   *)

Stop(r) ==
  /\ status[r] = "recording"
  /\ Show(r, "stopping")
  /\ mr' = [mr EXCEPT ![r] = "stopping"]
  /\ Goto(r, "settling")
  /\ UNCHANGED <<error, take, captured, cut, number, parts, awaited, marked, late>>
  /\ UNCHANGED <<flights, server, faults>>

InFlight(r) == {f.n : f \in {g \in flights : g.by = r /\ g.data.take = take[r] /\ ~ g.final}}

\* Mutant: nothing is waited for.
PendingForgotten(r) == {}

\* pendingFlushes, as it is when Promise.all is given it.
Pending(r) == InFlight(r)

\* The 250 ms are over.
Settled(r) ==
  /\ at[r] = "settling"
  /\ awaited' = [awaited EXCEPT ![r] = Pending(r)]
  /\ Goto(r, "draining")
  /\ UNCHANGED <<status, error, mr, take, captured, cut, number, parts, marked, late>>
  /\ UNCHANGED <<flights, server, faults>>

Drained(r) ==
  /\ at[r] = "draining"
  /\ awaited[r] \cap InFlight(r) = {}
  /\ awaited' = [awaited EXCEPT ![r] = {}]
  /\ IF cut[r] < captured[r]
     THEN Cut(r, captured[r], TRUE) /\ Goto(r, "flushing") /\ UNCHANGED status
     ELSE Goto(r, "completing") /\ Show(r, "uploading") /\ UNCHANGED <<cut, number, flights>>
  /\ UNCHANGED <<error, mr, take, captured, parts, marked, late, server, faults>>

\* Mutant: the list is sorted the other way round.
ByNumberDown(p, q) == p.n > q.n

\* completeMultipart sorts the list.
ByNumber(p, q) == p.n < q.n
Rank(p, ps) == Cardinality({q \in ps : ByNumber(q, p)})
Assembled(ps) ==
  [i \in 1..Cardinality(ps) |-> (CHOOSE p \in ps : Rank(p, ps) = i - 1).data]

\* What S3 asks of the list: every part there with the ETag given, each
\* number once, and none but the last too small.
Accepted(ps, u) ==
  /\ ps # {} /\ u \in open
  /\ \A p \in ps : [upload |-> u, part |-> p] \in bucket
  /\ \A p \in ps : (\E q \in ps : p.n < q.n) => p.data.to - p.data.from + 1 >= PartMin

CompleteUpload(r) ==
  /\ Accepted(parts[r], row.upload)
  /\ object' = [object EXCEPT ![row.upload] = Assembled(parts[r])]
  /\ open' = open \ {row.upload}
  /\ row' = [row EXCEPT !.status = "PROCESSING"]
  /\ UNCHANGED bucket

Completed(r) ==
  /\ at[r] = "completing"
  /\ CompleteUpload(r)
  /\ IF marked[r] THEN Goto(r, "chapters") /\ UNCHANGED status
                  ELSE Goto(r, "idle") /\ Show(r, "done")
  /\ UNCHANGED <<error, mr, take, captured, cut, number, parts, awaited, marked, late>>
  /\ UNCHANGED <<flights, faults>>

CompleteFails(r) ==
  /\ at[r] = "completing"
  /\ \/ ~ Accepted(parts[r], row.upload) /\ UNCHANGED <<server, faults>>
     \/ Fault /\ UNCHANGED server
     \/ Fault /\ CompleteUpload(r)
  /\ Fails(r)
  /\ UNCHANGED <<mr, take, captured, cut, number, parts, awaited, marked, late, flights>>

MarkChapter(r) ==
  /\ status[r] = "recording"
  /\ marked' = [marked EXCEPT ![r] = TRUE]
  /\ UNCHANGED <<status, error, at, mr, take, captured, cut, number, parts, awaited, late>>
  /\ UNCHANGED <<flights, server, faults>>

\* PUT /chapters
ChaptersSaved(r) ==
  /\ at[r] = "chapters"
  /\ Goto(r, "idle")
  /\ Show(r, "done")
  /\ UNCHANGED <<error, mr, take, captured, cut, number, parts, awaited, marked, late>>
  /\ UNCHANGED <<flights, server, faults>>

ChaptersFail(r) ==
  /\ at[r] = "chapters"
  /\ Fault
  /\ Fails(r)
  /\ UNCHANGED <<mr, take, captured, cut, number, parts, awaited, marked, late, flights, server>>

\* The component is unmounted: its calls in flight go on.
Unmount(r) ==
  /\ mr' = [mr EXCEPT ![r] = IF @ = "recording" THEN "stopping" ELSE @]
  /\ UNCHANGED <<status, error, at, take, captured, cut, number, parts, awaited, marked, late>>
  /\ UNCHANGED <<flights, server, faults>>

\* The pipeline behind: RecordingPipeline.
Process ==
  /\ row.status = "PROCESSING"
  /\ \E s \in {"READY", "FAILED"} : row' = [row EXCEPT !.status = s]
  /\ UNCHANGED <<recorder, flights, bucket, open, object, faults>>

Retry ==
  /\ row.status = "FAILED"
  /\ row' = [row EXCEPT !.status = "PROCESSING"]
  /\ UNCHANGED <<recorder, flights, bucket, open, object, faults>>

-----------------------------------------------------------------------------
Follows(a, b) == a.by = b.by /\ a.take = b.take /\ a.to < b.from

\* What an upload was completed to holds the slices of one take of one
\* recorder, in order: parts that recorders send into each other's uploads,
\* and parts that arrive out of order, do not mix.  (A slice later than the
\* 250 ms stop() waits for it can: nobody waits for its part, which ends up
\* in the list of the next take.)
ObjectsAreOneTake ==
  \A u \in Uploads : \A i \in DOMAIN object[u] :
    i > 1 /\ ~ late[object[u][i].by] => Follows(object[u][i - 1], object[u][i])

Whole(o, r) ==
  /\ o # <<>>
  /\ o[1].by = r /\ o[1].take = take[r] /\ o[1].from = 1
  /\ o[Len(o)].to = captured[r]
  /\ \A i \in 2..Len(o) : o[i].from = o[i - 1].to + 1

\* A recorder that shows "done" and no message has stored every slice it was
\* given, unless one came later than stop() waits for it.
DoneIsWhole ==
  \A r \in Recorders :
    status[r] = "done" /\ ~ error[r] /\ ~ late[r] => \E u \in Uploads : Whole(object[u], r)
=============================================================================
