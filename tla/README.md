# A verification project for the online learning platform

TLA+ models of `olp-public` (a course platform with live classrooms and lecture
recording), the TLC configurations that check them, and TLAPS proofs about
them. Paths are relative to the repository; definitions keep the names of the
code where TLA+ allows it.

## 1. The system

A Next.js frontend talks over HTTP and socket.io to a Node backend
(`backend/src`); the backend and a Python transcription server
(`whisper-server`) share one Postgres database and one S3 bucket. A teacher's
browser records a lecture and uploads it in parts; the backend queues a task;
a worker inside the backend transcodes the upload, extracts the audio and
hands the task to the Python server, which transcribes and summarizes it and
writes its results straight into the database.

| component | state | operations | what makes it hard | what makes it correct |
|---|---|---|---|---|
| Task queue (`infrastructure/db/PrismaTaskRepository.ts`) | table `Task`: status, lock, lease, attempts | create, claimNext, heartbeat, updateStatus, releaseLock, recordFailure, markCompleted, cancel | claims under `SKIP LOCKED`, leases that expire, writes that look only at the id | one owner per task; the attempts limit; a finished task stays finished |
| Task worker (`infrastructure/tasks/TaskWorker.ts`) | the running task, heartbeat timer, stop flag | tick, startHeartbeat, stop | crash between any two awaits, lost heartbeats | abandoned work is picked up again; every failure ends in a re-queue or in FAILED |
| Recording pipeline, node stages (`application/tasks/ProcessRecordingTask.ts`) | a snapshot of the recording, files in a work directory | transcode, thumbnail, extract audio, upload, hand over | the snapshot goes stale; a second run of the same task | artefacts appear in order; Python gets work only with its input in place |
| Whisper server (`whisper-server/server.py`, `tasks.py`) | background tasks in memory, the same rows | enqueue, transcribe, summarize, mark failed or completed, sweep at boot | restart loses the queue; replies get lost; two runs on one task | transcript before summary; a row always ends somewhere |
| Recording lifecycle (`modules/recordings`, `application/recordings`) | table `SessionRecording`, the session's status, S3 objects and uploads | init, complete, abort, reset, retry | check-then-act over awaits; an old worker still writing | READY means playable; no task without a recording; after a reset the new take is left alone by the old one |
| Task administration (`modules/admin`, `RetryTask`, `CancelTask`) | the same rows | retry, cancel | acts on rows others work on | re-queues what is stuck; leaves published artefacts in place |
| Live classroom server (`live/server.ts`) | rooms, per-socket flags, `SessionAttendance` | join, leave, disconnect, chat, questions, hands, media flags, signalling relay | handlers interleave at every await; disconnect during join; recovery at boot races first joins | one open attendance row per present socket, none for absent ones; what a room is told converges |
| Live classroom clients (`useLiveRoom.ts`, `lib/rtc.ts`) | participants, chat, questions, peer connections | event handlers, history merges, offer/answer/ICE | events and histories in any order; glare | lists converge to the server's; negotiations end stable |
| Browser recorder and its page (`Recorder.tsx`, `record/page.tsx`, `useMixedAudio.ts`) | buffered slices, part numbers, uploaded parts; tracks, the mixer; what the page knows of the recording | start, slices, flushPart, stop, unmount; devices, stage, poll, retry | a part's upload fails or is late when recording stops; several pages on one upload; permissions granted late | the completed upload is every slice once, in order; the devices are let go; every end comes to rest |
| Session page (`sessions/[sessionId]/page.tsx`, playback and progress routes) | the session and playback as loaded, the player, the summary editor, a stored access code | bootstrap, two pollers, playing, saving the position, save summary, retry, reset, code | answers on their way while buttons, pollers and pipeline go on; effects on elements that come and go | what is saved shows; the video is not reloaded; the position is not lost; what is waited for arrives |
| Sessions, courses, memberships, uploads, access (`modules/*`) | their tables, files in the bucket | join, invite, remove, rotate, publish, read, upload, delete | a check read before an await and used after it; objects and rows in two stores | access only while entitled; roles as given; no object without a row, no row without its object |
| Language-model client, database helper (`whisper-server/llm.py`, `db.py`) | a process-wide client | calls with retries | | a failed call fails its step |
| Pages without state, styling, configuration, logging, deployment | none of its own | rendering, wiring | | |

Interactions: workers, Python runs, HTTP handlers and administrators never
call each other while they work (the enqueue call apart). They meet in the
rows of `Task` and `SessionRecording` and in the session's objects, whose keys
(`playback.mp4`, `audio.mp3`) are the same for every take of a session. So the
pipeline is modelled as processes over shared rows, interleaved at every await.
The classroom is one node process whose handlers interleave at their awaits,
and browsers that are told of its rows by several ways at once. Pages are
models of their own, with the routes they call: a request reads or writes the
rows when it is served, and its answer changes the page later.

## 2. The modules

| module | models |
|---|---|
| `TaskTable` | a row of `Task` and every statement on it, as functions from row to row |
| `PipelineState` | the shared state: rows, objects, the place each process is at; `TypeOK` |
| `TaskWorker` | `TaskWorker.tick` around `ProcessRecordingTask.execute`: one action per database or object-store call, failures of each, crash, lease expiry |
| `WhisperServer` | `_process_task`, one action per write; failure, restart, boot sweep |
| `RecordingApi` | the routes init, complete, abort, reset, retry and the admin routes retry and cancel, split where they await |
| `RecordingPipeline` | the composition: `Init`, `Next`, fairness, the properties |
| `Artefacts` | abstract: what may be published about a recording, in which order |
| `TaskOwnership` | abstract: who has a task, and to whom it may pass |
| `RecordingPipelineMC` | model values and symmetry for TLC |
| `MultipartRecorder` | `start`, `stop` and `flushPart` of `Recorder.tsx`, split at their awaits, any number of recorders on the one upload the session's row names |
| `RecordPage` | the page around them: authorization, pre-flight, LIVE and END, tracks of screen, microphones and cameras, the mixer, the poll of the processing |
| `LiveAttendance` | `room:join`, `room:leave`, `disconnect` of `live/server.ts` and the recovery at boot, split at their awaits, over the rows of `SessionAttendance` |
| `RoomFeed` | questions: asked, answered, announced, sent as backlog, read over HTTP, and merged into the list a browser shows |
| `RoomServer` | the presence half of `live/server.ts`: the room, `socket.data`, snapshots, hands, stage, media flags, relay |
| `RoomMesh` | browsers on top of it: participants, peer connections with glare, streams, buttons, lost connections and new ones |
| `SessionPage` | the page of a session for one viewer, and the routes behind it |
| `CourseAccess` | a course with its members, its join code and visibility, its session, and the files of both; requests of its pages side by side |
| `RecordPageMC`, `LiveAttendanceMC`, `RoomFeedMC`, `RoomMeshMC`, `SessionPageMC`, `CourseAccessMC` | model values |
| `PipelineProofs` | theorems about the pipeline and their proofs (section 5) |
| `CourseAccessProofs`, `LiveAttendanceProofs`, `RoomFeedProofs`, `SessionPageProofs` | the same about courses, attendance rows, the list of questions and the page of a session |
| `RecordPageProofs` | the recorder's operations one by one, as lemmas; the theorems about the page with any number of recorders |
| `RoomMeshProofs`, `RoomTalkProofs` | the classroom's server and pages together, with any number of pages and sockets; what two pages negotiate, and what of it is shown |

State and code. `tasks` is the table `Task`; of a row it keeps status, session,
the payload's transport override (`push`), `attempts`, `lockedBy` and
`lockedUntil` as a three-valued `lease` (no lease, one in the future, one in
the past). `recs` is `SessionRecording` with its keys as Booleans (set or
null); raw object, transcript and summary carry the number of the take they
were made from, since the code tells takes apart by the timestamp in `rawKey`.
`store` is what the bucket holds of a session. `worker[w]` is a program counter
in `execute`, the task and the snapshot of lines 52-61; `run[r]` the same for a
Python background task; `request[q]` for an HTTP handler.

Granularity. Every database statement and object-store call is an action of
its own; another process can act between any two. ffmpeg reads and writes
files only its worker sees, so a call of it belongs to the action that stores
the result. A handler whose check fails answers an error and changes nothing:
the action is not enabled. Any call of a worker, a run or a handler may fail.

Faults of the pipeline, each counted against `MaxFaults`: `crash` (a worker's
process dies, or gives up its task without a word), `lease` (a worker that
lives loses its lease), `lostReply` (the hand-off went through, the worker sees
an error), `cleanup` (the `finally` of `execute` cannot remove the work directory
of a task that is done or handed over, and `execute` throws after all), `restart`
(the Python process dies and boots again, or a run ends without its `mark_failed`).

The recorder. A take is a sequence of numbered slices; `captured` counts those
that arrived, `cut` those that went into parts, so the slices between are
`bufferRef`. A call of `flushPart` in flight is a member of `flights`, first
without an upload (it waits for its part URL), then with the upload the row
named at that moment. `bucket` holds the parts by upload and number with the
data they carry, so that S3's acceptance of a list of parts is a comparison
(`Accepted`). Calls fail before they have an effect, or after it (a lost
answer). What S3 assembles is given by each part's rank in the list
(`Rank`, `Assembled`): the sort of `completeMultipart`, in a form that can be
reasoned about. `late` is history: a last slice after the 250 ms `stop` waits.
`RecordPage` adds the tracks of one page (`live` is the set that captures, a leaked screen
among them), and what `useMixedAudio` has connected with which gain.

The room. A handler that awaits is a member of `jobs`; what it does before its
first await happens with the event. `currentParticipants` is a job that reads
one socket after the other (`TakeSnapshot`) and describes each as it is when
read. What is emitted waits in the socket's `inbox`, in order. A peer
connection is its signaling state and the streams sent, offered, agreed on and
heard of. `answered` is a signaling state of the model: the answer has come and
`setRemoteDescription` is setting it (`reply`), while the browser still says
`have-local-offer`. Two variables are history. `stale`: something was announced
that was no longer so, or while a snapshot was taken ("torn", as long as the
snapshot is; the next that is sent clean puts it back to "no"). `ignored`, of a
connection: its page ignored an offer behind an answer it was setting, and has
made or taken none since.

The session page. `page` is the state of the React component, `video` the
element: whether the listeners and the seek are attached to it (`hears`,
`seeks`), what it has loaded and where it is. `Rendered` is what React does to
it when states are set: which effects run, on the element that is there.
`asked`, `act` and `put` are requests under way. `page.gaveUp` is the poller for
texts after its ten minutes. `page.anew`, `page.refocused`, `page.missed` and
`page.behind` are history and only weaken properties: what each stands for is
in section 3.

The course. `job[s]` is the request a person's page has under way (a handler's
step, and what it has read so far), or the stage of an upload, or of the
pipeline's video. `requireCourseRole` in front of a list is two steps, as it
reads the membership first and the visibility of the course after an await.
`rows` are the files rows name, `store` the objects in the bucket. `good`, `given`,
`kept` and `cut` are history.

## 3. The checks

| run | question | bounds |
|---|---|---|
| `PipelineFaults` | `TypeOK`; is work handed over and completed only with the media in place (`HandedOffHasMedia`), is a READY recording playable (`ReadyIsPlayable`), and does the pipeline implement `Artefacts` (`ArtefactsInOrder`)? | 2 workers, 1 run, 1 task, 2 requests out of complete, retry, admin retry and admin cancel on 1 session, 1 fault of any kind |
| `PipelineLifecycle` | does every task have its recording (`TasksHaveRecording`), and do late writes for a task that a reset has deleted miss the new take's row (`LateWritesMissNewRow`)? | 3 requests out of init, complete, abort, reset, retry; 1 session, 2 tasks, 1 worker, 1 run |
| `PipelineOwners` | one owner per task (`OneOwner`), attempts never exceeded (`AttemptsLeft`), ownership passes as `TaskOwnership` says (`OwnershipIsPassed`) | 2 workers, 2 runs, 2 tasks, 2 crashes or restarts |
| `PipelineFinishes` | under fairness: is every queued task finished (`TasksFinish`), is an abandoned stage picked up (`StagesRecover`)? | 2 tasks, 1 worker, 1 run, complete and retry, 1 crash, failing clean-up or restart |
| `LiveAttendance` | has every open row somebody who will close it (`OpenRowsAreInHand`), and is it closed (`RowsGetClosed`)? Does a stint keep its real end whatever the recovery took it for (`StintsKeepTheirEnd`)? Is a socket counted in one session at a time (`OneStintAtATime`)? | 2 sockets, one of which visits 2 sessions, 2 crashes or failing writes |
| `RoomFeed` | does a browser show every question it should, and once (`ListIsWhole`), and does every question get through (`EveryoneSees`)? | 1 browser, 2 questions, each answered at most once, 2 lost connections, restarts or failing queries |
| `RoomMesh` | once everything has arrived: is what a page publishes on every other page, with picture and sound (`MediaReaches`), does no pair wait for an answer for ever (`NegotiationSettles`), do the pages show the server's room (`ViewsAgree`), and no picture of a page that is gone (`NoPictureOfTheGone`)? Is a microphone only shown that a teacher allowed (`ShownMicsAreAllowed`)? | a teacher and a student, 3 connections, 1 lost connection, presses of buttons up to a weight of 4 |
| `RecordPage` | is a completed upload made of one take in order (`ObjectsAreOneTake`), a take that shows "done" whole (`DoneIsWhole`)? Does nothing capture once a page's live phase is over (`NothingCaptures`), is nobody in the recording unasked (`ParticipantsConsent`)? Does every end come to rest (`PageSettles`)? | 2 pages on one session, takes of 3 slices and of 1, 2 slices to a part, 2 uploads, 1 participant, 1 fault |
| `SessionPage` | does a saved summary show (`SavedSummaryShows`), does the player keep its video (`VideoStays`) and the viewer the position (`PositionHeld`), and does what the pollers wait for arrive (`PageCatchesUp`)? | 1 viewer of either role, a recording of 3 units, 2 takes, 1 run, 1 code, 3 moves or failures |
| `CourseAccess` | do bucket and tables keep step (`StoreInStep`), does only succeed what was entitled to at some time since it was sent (`EntitledSinceSent`), and is a role what a teacher last made it (`InvitationsStand`)? | a teacher, a student, a guest; a chat file and the video; 2 requests, 1 crash or refused deletion |
| `ClaimTeacherIsHeard`, `ClaimVideoAppears` | one statement of the repository each, violated (section 4) | the smallest that shows it |

Why the bounds are enough. Two workers, two runs and two tasks are the least
for a race over a row, two runs on a task, and for the order of the queue. Two
faults cover a fault during the recovery from another. Two attempts tell the
last attempt from the one before. Three requests are a take, its end by a reset,
and the start of the next; the second task is the next take's own. Sockets share only the process and its recovery: one to
leave a row behind and one to join while the recovery runs are enough. Browsers
share only what is broadcast, the same to each in the room, so one shows all
that can happen to a list; two questions give it an order. A mesh is made of
pairs: two pages are enough for glare and for every order of joining,
publishing and leaving; the third connection is the second life of either page.
The presses of a run weigh 4 together: a hand, an answer to it, a stage or its
end weigh 1, a webcam, a toggle, a lost connection or a page closed 2, a page
closed while it joins 3. So there is a teacher live with screen and webcam before
the student comes, a hand, its acceptance and two more, or any two toggles. A
student's stream that is there before somebody else comes takes a third page,
and is left to the theorem. Three slices with two to a
part give a part cut while recording, a last one, and none left over; the
second page has one slice, which is its last part, and is there for the row
they share. Three units of ten seconds tell the beginning, a place inside and
the end of a recording; the second take is the one after a reset. Two requests in a course race over any row; a third
actor's rows are its own. Which bounds cut off behaviour, and not just
repetition, is said where they are made: `Alone`, `Plain` and `Followed`
(`RecordPage`) exercise chapters, camera, stage and the end of sharing one at a
time; `Press(n)`, `Unhurried` and `Idle` (`RoomMesh`) space out what users do, so that
at most one handler is awaiting something when most buttons are pressed and none
when the stage changes hands, and connections break when everything has arrived;
GO LIVE, coming, closing and everything the browsers do by themselves waits for
nothing. These guards are part of `Spec`, so the theorems have them too, with any
number of presses. The pages of
`CourseAccess` have one request under way, those of `SessionPage` one button,
and its ticks are answered before the next tick. `Unhurried` of `SessionPage`:
after a reset, what the page had asked about the old take has come before
somebody starts the next one on the recorder's page, which takes a pre-flight
check and minutes. An answer that came later still would put the old take's
playback on a page of the new one. `CHECK_DEADLOCK FALSE` is set
because the system does stop when its clients have sent all their requests and
nothing is queued or under way.

Where a property holds. `OneOwner`, `AttemptsLeft` and `OwnershipIsPassed` are
statements about the queue's protocol; they hold while leases are renewed,
hand-off replies arrive, work directories can be removed and no administrator
interferes, which are the conditions of `PipelineOwners`. They do not survive
lost leases, lost replies, failing clean-ups or admin requests (section 4).
`OneOwner` is said of a task, not of a take: a duplicate completion gives a take
two. `LateWritesMissNewRow` is about resets, which delete a row with its tasks; an
abort deletes nothing, and what its old worker writes does reach the row when it
is restarted (section 4). `TasksFinish` excepts the one task whose fault leaves it
in a status Python owns while no worker and no run is on it (`Stranded`), and
demands the end of every other. `HandedOffHasMedia`, `ReadyIsPlayable` and
`ArtefactsInOrder` hold under every fault, for clients that do not start over
on a session: init and reset put a session's artefacts back, in several steps,
while an old worker may still run.

Elsewhere an exception is part of the property and names what the code does
not prevent. `late` in `RecordPage`: a slice after the 250 ms. `lostScreen` and
a camera granted after the end in `NothingCaptures`. `ignored` in `MediaReaches` and
`NegotiationSettles`: an offer came while the answer before it was being set.
`stale` in `ViewsAgree`: an announcement and a snapshot overtook each other, until
the next snapshot that nothing overtakes. `behind` in `SavedSummaryShows`: an
answer read before the save arrives after it. `anew` in `PositionHeld`: the
position was not offered (the list of `/continue` was full, the request failed or
was behind, or a button's reload uncovered the player after its effects had run),
or the viewer moved; `refocused`: the viewer pressed the focus button. `missed` in
`PageCatchesUp`: the only request for the playback came to nothing; `gaveUp`: the
poller for texts was refused or failed for its ten minutes, as it is on a page
whose code was set. An answer starts the ten minutes anew. `kept` in
`StoreInStep`: the store refused, or a row was written while its session was
being deleted; `cut`: the server went down in the middle of a deletion. With
one of them dropped, TLC finds the case in each run.

Fairness (`Fairness` in `RecordingPipeline`), all weak: some worker keeps
claiming (the poll timer of `TaskWorker.start`), a handler, a run and a request
handler that has begun goes on (the event loops schedule what is ready; every
awaited call returns or throws), and the lease of a dead holder runs out (time
passes). Nothing is assumed of clients or faults. Claiming is fair for the
workers together, not for each. In the classroom a handler that has begun goes
on, connections deliver what was sent while they last, and a browser whose
connection broke connects again (`reconnection: true` in `lib/socket.ts`). In
`RecordPage` the browser's timers and promises go on, requests are answered or
fail, the page polls (`setInterval`), and the pipeline behind it ends; nobody
has to press a button. In `SessionPage` the bootstrap goes on and the two
intervals tick and are answered; a recording may stay in the making for ever,
so the properties assume that it is READY for good. `RoomMesh` and
`CourseAccess` state no liveness: `RoomMesh` says what holds when nothing is
left to arrive, which needs no fairness.

The clients of the classroom. `LiveAttendance` takes from `useLiveRoom.ts` that
a socket joins when it is connected, joins again only for another session, and
emits `room:leave` at most once, right before it disconnects. Its history
variable `lost` names the rows whose closing was missed: of a join overtaken by
a disconnect, of a leave that cleared the id of a newer row, of a failed write.
The invariants except these and nothing else; the first of them needs no
fault. In `RoomFeed`, questions posted over HTTP are announced to nobody; `ListIsWhole` and `EveryoneSees` are
about the others. They say which questions are shown, not with which answers: a late
history may undo an answer (section 4).

## 4. Where the code and its documentation part

Two have a run that ends in a counterexample.

- `ClaimTeacherIsHeard`: a lost pre-flight microphone is replaced to prevent a
  "silent recording" (`Recorder.tsx:176-178`); the MediaRecorder is given the
  mixer's track, and the mixer stays wired to the pre-flight microphone, which a
  failed start or the stop before has ended. The second take is silent.
- `ClaimVideoAppears`: the overlay of a recording in the making says "this page
  auto-refreshes" (`sessions/[sessionId]/page.tsx:1392`). The playback route
  answers for a recording that is not READY too, and a page that has a playback
  polls for texts only: neither its status nor its video comes.

Read off the models, without a run. The pipeline:

- the admin retry "resets attempts" (`RetryTask.ts:19`); it does not, so a
  FAILED task re-armed by an administrator fails for good on its next error;
- "if the worker crashes ... another worker picks the row up"
  (`schema.prisma:241`); not after `HANDED_OFF` was set and before the server
  answered;
- "admin retries via /admin/tasks" a task stuck after a Python crash
  (`PrismaTaskRepository.ts:72-74`); the use case refuses the stuck statuses;
- a retry keeps READY when the mp4 exists (`PrismaRecordingRepository.ts:126`);
  it reads first and writes later, and a video published in between goes back
  to PROCESSING;
- the clean-up in the `finally` of `execute` (`ProcessRecordingTask.ts:181-183`)
  may throw behind `markCompleted` or the hand-off: `tick` records a failure, and
  a completed or handed-over task is PENDING again, in the second case beside the
  run it was handed to; when the last entry of the log cannot be written, the
  Python run marks the task it has completed as failed (`server.py:844-853`);
- an abort (`recordings.routes.ts:160-171`) keeps the row and its task; the next
  init restarts the same row (58-69), and `markVideoReady` of the old worker makes
  the new take READY with the old video. After a reset the row is another, but
  the keys in the bucket are not: an old worker's upload overwrites the new
  take's `playback.mp4`;
- a completion that is sent twice creates two tasks for one take; a failure
  between the status and the task leaves a recording in PROCESSING that no task is
  about;
- a canceled task is revived by the next status write of the worker on it; a
  lost hand-off reply puts a worker and a Python run on one task; a worker
  whose lease was lost can take a task that has failed for good back into a
  stage; a task whose summary failed is COMPLETED;
- the upload-init flow is said to clear stale artefacts
  (`RecordingRepository.ts:46`); `clearProcessedArtifacts` is never called, and
  audio, transcript and summary of the last take stay;
- the upload id is said to be "null once completeMultipart has flushed all
  parts" (`Recording.ts:32`); it is never cleared, so a duplicate completion
  sends `completeMultipart` again;
- "on final failure set FAILED" (`TECHNICAL-PLAN.md:477`): `markFailed` is never
  called and the recording stays in PROCESSING;

The classroom:

- in `mergeById` the incoming rows win "so a fresh `question:answered` realtime
  event overwrites the historical row" (`useLiveRoom.ts:24`); every caller
  passes the history as incoming, so a late history overwrites the answer;
- the attendance row is "cleared + closed ... on room:leave / disconnect"
  (`live/server.ts:26-27`); a disconnect while `room:join` inserts it finds no
  id, and the row stays open, and "live now", until the next boot;
- late joiners are said to "see the live conversation in full"
  (`live/server.ts:263-264`); the backlog takes the oldest 200 questions and 500
  messages;
- a take that is given up, or ends, unpublishes with `replaceTrack(null)` and
  sends no `stream-gone` (`Recorder.tsx:142`): its dead stream stays first in
  the list of every student in the room, and `pickPrimaryStream`
  (`MeetingGrid.tsx:47`) goes on showing it when the next take is live;
- `leaveStage` leaves `handAcceptedBy` as it is: the same teacher's next
  acceptance of that student opens no prompt, while the server has the
  microphone on;
- "Perfect Negotiation ... straight from the W3C spec" (`lib/rtc.ts:2-3`) lacks
  the spec's pending-answer flag: `setRemoteDescription` of an answer is awaited
  (99-108) while the state is still `have-local-offer`, so an offer right behind
  the answer counts as a collision (59-65). The impolite page drops it, and the
  polite one, whose new stream was in it, waits for an answer until the other has
  something to offer;
- a page that is closed while its `room:join` is under way may enter the room after
  its `room:leave`: `disconnect` tells nobody of a socket that is not marked as
  joined (`live/server.ts:524-527`), and the others show it until the next
  snapshot;
- a snapshot read before an announcement can arrive after it, and shows who has
  left, or the old hand or microphone, until the next;
- `publish(null)` silences the webcam's senders too; after a reconnection the
  mesh keeps its old peers (`useLiveRoom.ts:178`), and offers to a ghost for ever.

The recorder:

- "per-part retries" (`TECHNICAL-PLAN.md:472`): a part that fails is not tried
  again; the take ends with a message and a hole;
- the browser's own "stop sharing" calls the `stop()` of the render `start()` was
  called in (`Recorder.tsx:245`), which does nothing: the take goes on without
  a picture;
- a screen whose microphone is refused is never stopped, nor is a camera that is
  granted after the end;
- a slice later than 250 ms after the stop is lost, or goes into the list of the
  next take;
- a page opened on a FAILED recording lets "start fresh"
  (`record/page.tsx:348-350`), but shows the processing instead of the
  pre-flight check and the LIVE button;
- streams on stage before the pre-flight check are not taken up by the mixer.

The session page:

- a retry of a session whose texts are there reruns the summary, which the page
  never shows (`sessions/[sessionId]/page.tsx:439` says it does): the poller
  for texts has stopped;
- a READY recording whose playback request fails is not asked for again ("No
  recording yet"), and a reload by a button that finds it READY ends the poller too;
- a stored code is sent for ever after the teacher has changed it: 403 without
  a new prompt; questions and chat are not behind the code at all;
- the focus button (`page.tsx:549-576`) mounts another video, which starts at 0; the
  effects that seek and save do not follow it, until the next answer sets the
  playback and attaches the listeners: the beginning is saved over the position of
  a viewer who only changed the layout;
- the poller for texts gives up after ten minutes without an answer (239-244): a
  page that is refused for so long, because a code was set, does not ask again
  when the code is removed;
- the listeners that save the position are attached when the playback is set,
  while the skeleton is still shown: for a recording that is complete when the
  page opens, the position is not saved and the active chapter does not follow
  (`PROJECT-OVERVIEW.md:71`); the focus layout has a player without them;
- an access code that is set and removed again while a retry is under way: a
  playback that a poll brings in between is set behind the prompt, and the
  retry's reload shows a player that neither seeks the position nor has
  listeners; when the answer with the texts attaches these, the beginning is
  saved over the position;
- saves of the position are not ordered, and one from a second viewing takes
  "completed" back; the sixth freshest session is the last that resumes;
- a poll's answer from before a reset brings the deleted recording's playback
  back, one from before a save the text of before.

Courses:

- "orphaned bytes are recoverable, orphaned DB pointers are not"
  (`infrastructure/storage/s3.ts:143-146`); the deletions take the objects first and the
  rows last, so a crash in between leaves rows without their objects;
- a file uploaded and not sent, and a message or video saved while its session
  is being deleted, stays in the bucket;
- a message saved after its session's deletion rejects in a socket handler that
  nobody awaits, which ends the node process;
- an invitation that went through is reported as a failure and not shown:
  `e.currentTarget.reset()` after an await throws (`members/page.tsx:40`,
  `courses/[courseId]/page.tsx:752`);
- the last teacher can be removed; a removed member stays in the live room's
  broadcasts until the socket ends; a member of no course may read a public
  course and not chat there, which a guest may.

## 5. The proofs

TLC checks small instances; the theorems here hold for every value of the
constants that the named assumptions of the modules allow: any sets of
workers, runs, requests, sessions, sockets, people and recorders, any task and
slice numbers, any `MaxAttempts` above 0, any number of faults. The assumptions
(`TableAssumption`, `PipelineAssumption`, `AccessAssumption`,
`AttendanceAssumption`, `FeedAssumption`, `RecorderAssumption`,
`PageAssumption`, `SessionPageAssumption`, `ServerAssumption`, `MeshAssumption`)
are about the constants' types alone. Some theorems have a hypothesis beyond them, which the
last column names.

| theorem (module) | property | further hypothesis |
|---|---|---|
| `TypeCorrect` (`PipelineProofs`, `CourseAccessProofs`, `LiveAttendanceProofs`, `RoomFeedProofs`, `RecordPageProofs`, `SessionPageProofs`, `RoomMeshProofs`) | `TypeOK` of each | |
| `HandedOffHasMediaAlways`, `ReadyIsPlayableAlways` (`PipelineProofs`) | the safety properties of `PipelineFaults` | `NoStartingOver` |
| `ArtefactsInOrderAlways` (`PipelineProofs`) | refinement of `Artefacts` | `NoStartingOver` |
| `OneOwnerAlways`, `AttemptsLeftAlways` (`PipelineProofs`) | the queue's protocol | `NoOverrides` |
| `OwnershipIsPassedAlways` (`PipelineProofs`) | refinement of `TaskOwnership` | `NoOverrides`, `NoDeletions` |
| `TasksHaveRecordingAlways` (`PipelineProofs`) | `TasksHaveRecording` | |
| `LateWritesMissNewRowAlways` (`PipelineProofs`) | the action property `LateWritesMissNewRow`, which is about resets | |
| `InvitationsStandAlways`, `EntitledSinceSentAlways`, `StoreInStepAlways` (`CourseAccessProofs`) | the safety of `CourseAccess` | |
| `OpenRowsAreInHandAlways`, `StintsKeepTheirEndAlways`, `OneStintAtATimeAlways` (`LiveAttendanceProofs`) | the safety of `LiveAttendance` | |
| `NoDuplicatesAlways` (`RoomFeedProofs`) | the first half of `ListIsWhole` | |
| `ListIsWholeAlways` (`RoomFeedProofs`) | `ListIsWhole` | `BacklogSuffices` |
| `ObjectsAreOneTakeAlways`, `DoneIsWholeAlways`, `NothingCapturesAlways`, `ParticipantsConsentAlways` (`RecordPageProofs`) | the safety of `RecordPage` | |
| `VideoStaysAlways`, `PositionHeldAlways`, `SavedSummaryShowsAlways` (`SessionPageProofs`) | the safety of `SessionPage`: two action properties and an invariant | |
| `MicsAllowed`, `PicturesGo`, `GlaresSettle`, `ViewsMeet` (`RoomMeshProofs`), `MediaArrives` (`RoomTalkProofs`) | the safety of `RoomMesh`: `ShownMicsAreAllowed`, `NoPictureOfTheGone`, `NegotiationSettles`, `ViewsAgree`, `MediaReaches` | |

The hypotheses are the conditions of the runs (section 3). `NoStartingOver`:
clients send no init and no reset, which put a session's artefacts back while
an old worker may still run. `NoOverrides`: no administrator re-arms or cancels
a task, no lease is lost while its worker lives, no hand-off reply is lost, and
no clean-up of a work directory fails; with any of them TLC finds two owners or
a finished task that is queued again. `NoDeletions`: no reset, which
deletes tasks under their workers; `TaskOwnership` knows no such step.
`BacklogSuffices`: a session has no more questions than the backlog query takes
(200); of a longer one the late joiner misses the youngest (section 4).
Everything else is allowed with each: crashes, restarts of the Python server,
failing calls, and any number of the other requests.

None of the properties is inductive. What each proof adds:

**Types of the pipeline** (`TypeInv`). A worker copies the raw take out of the
recording of its task's session, and `NoSession` has none: a row in use by a
process was inserted, inserted rows have a session, and a request past its
first step remembers one. Rows are never un-inserted (`Stays`), which carries
the parts about other processes over each step.

**Media** (`MediaInv`). The properties speak of rows and recordings, but hold
because of what processes have behind them: for each place in the handler,
which artefacts are there (made, or seen in a snapshot that cannot become false
again), the same for a run, and that a retry request which saw the video still
can. The core lemma is that published artefacts stay. For the refinement, each
step sets at most one field of one recording (`OneField`), and `MediaInv` gives
the field before it.

**The queue** (`QueueInv`). `claimNext` looks at a row and never at the other
workers, so that nobody else is on a task has to be read off its row:
`WorkerRow` says what status, lock and lease the row has at each place of
`execute` (a handler holds the lease; past the hand-off the row is Python's or
closed), `RunRow` that a run's row is in a status Python owns, or closed when only
the last entry of its log is left to write. With these,
`OneWorker`, `OneRun` and `Apart` (no handler on a run's task) support each
other. For `AttemptsLeft`, a worker about to record a failure has seen the
attempts the row still has. `OwnershipIsPassed` maps each kind of step to one
of `TaskOwnership` or to no change of `Owner`. `TasksHaveRecording` needs that a
request about to create a task knows the recording's row by its id
(`TaskRequest`), and which steps delete or replace a recording at all;
`LateWritesMissNewRow` is a property of single steps, by kind of writer: whose
task's row is gone writes to no recording.

**Attendance** (`AttendanceInv`). `SocketInv` is said of one socket at a time,
since handlers of different sockets share only the recovery: where its three
handlers are and which rows they have taken (`RowsAreThere`, `JoinKnows`), that
a row whose closing a handler has passed has its end (`EndsAreWritten`), that
rows which come after the disconnect began are among `lost` (`LateRowsAreLost`),
and that a row without its real end is held by the socket or its join
(`UnendedIsHeld`). `LeftToRecovery` covers the sockets whose process died. A
join reads `attendanceId` of the row it will close before it awaits the
update: the model's `join` carries that row (`of`).

**Courses** (`TypeInv`, `EntitledInv`, `StoreInv`). A role that is not the one
last given has been given none (`InvitationsStand` is inductive with the
types). `EntitledInv`: who has got past the first step of a handler was
entitled when it looked, and a page that loads several lists owes this to the
first answer that let it in; who was found no member and is about to be let in as
a visitor (`admitted = "visitor"`) owes it to the second look only. `StoreInv` says, for each stage of a deletion,
which objects of the session's files it has still to delete (`StageOK`), and
that an upload on its way to its row has its object in the bucket.

**The feed** (`FeedInv`, `Covered`). What a browser does not show yet is on its
way to it: from the reading of the backlog on, every question announced so far
is in its list, in its inbox or in the backlog its join holds, since the room
was entered before. That the backlog has all of them rests on the rows being
inserted in order (`RowsOK`, `FirstNumbers`). `MergeKeeps`, `AddKeeps` and
`UpdateKeeps` say what the browser's three ways to change its list keep.
What is left of a list in `mergeById` is picked by rank, for the same reason as
the recorder's parts below.

**The recorder** (`RecorderInv`, per recorder `TakeInv`). The invariant is
about the *pieces* of a take: parts in `partsRef`, in flight, or stored. They
are of this take, tile the slices 1 to `cut` without a gap or overlap in the
order of their numbers (`InOrder`), none is missing unless a message is shown
(`NoneLost`), and while a call is in flight `stop` has it in the list it waits
for (`Timely`) - unless a slice was late. `Store` says that a completed upload is never
written again and holds each number once, so that what other recorders on the
same row do cannot change it. The sort is handled by two lemmas: in a list whose numbers
are 1 to its size, the part of rank i-1 is number i (`AssembledByNumber`),
proved by counting (`PartsAreCounted`). Each
operation has its lemma; `RecordPageProofs` adds `Devices` (which track can be
live in which state of the page) and `Consent` (who may have a gain in the
mixer).

**The session page** (`TypeInv`, `PollInv`, `AnewInv`, `PositionInv`, `TakesInv`,
`SummaryInv`). The types need that the editor is open on its card only, so that
a save names a recording. `VideoStays`: an answer with a new url would have to
find a playback on the page, and `PollInv` says that what is on its way to the
first poller then is of a recording that was not READY; the one way around it,
an answer for the texts that meets the page after a reset, comes while there is no
recording at all (`Unhurried`). `PositionHeld` rests on what React's effects
have done to the element, case by case (`PlayerStays`, `PlayerAppears`): for a
viewer who resumes, nothing is saved before the element has its metadata, it
will then seek the position offered, and from there what is saved, or on its
way, is behind the element (`PositionInv`). A viewer who presses the focus button
has another element, of which none of this is true (`refocused`). The exception for a player that a
reload uncovers came out of this proof: the case (section 4) is beyond the bounds of
the run. `SavedSummaryShows` needs that answers are of takes begun (`TakesInv`),
and the gap between the row's change and its answer (`SummaryInv`).

**The room** (`TypeInv`, `AdmissionInv`, `MicsInv`, `PresenceInv`, `PictureInv`,
`DepartureInv`, `GlareInv`, `RoomInv`, `ViewInv`, `StageInv`, `HeardInv`, `LeftInv`,
`TalkInv`). `TypeOK` says that no list shows anybody
twice, which is inductive since lists are merged by id. `MicsInv` carries
`ShownMicsAreAllowed` along everything an entry passes through: the server's
copy, the snapshots being taken, the queues, the page. That what is said of
a socket can be trusted rests on `AdmissionInv`: only who was admitted is
described at all. `PresenceInv` relates a page to its connection: the two know of
each other except while a `disconnect` is still to be noticed.
The other four theorems hold *once everything has arrived*, so their
invariants say what is on its way. `PictureInv`: a picture has its explanation,
either the connection is up, or `room:left` of it is in the page's queue or
a handler is about to send it, or the peer connection is about to fail.
`GlareInv`: a page that waits for an answer has its offer, or the answer to it, in one of
the two queues, or the other side offers too, and then the impolite side's offer is still to
be read; or the other side has ignored the offer while it was setting an answer
(`Missed`). Nothing that was sent before can answer it (`OfferLast`). That a page
which ignored an offer is impolite, and is setting an answer or has set it, is
part of the invariant (`Belongs`). `DepartureInv` says that nobody is told of the
end of a connection that has not ended.
`ViewInv`: a page's list is right when what is still in its queue is counted
(`WillShow`, `WillMiss`, `WillMatch`). While a snapshot is being taken it alone
counts, since every page is about to be sent it: if no announcement came since it
was begun, it is right about each socket it has read, or will be when the handler
that changes that socket has announced it (`SnapshotRightFor`), also when the pages
are wrong. So sending it makes them right, whatever went past them before.

`MediaReaches` (`RoomTalkProofs`) follows a stream from the page that publishes it to the page that
shows it. Every connection carries what its page publishes, the stage stream
with its senders on (`StageInv`). What a page has been told of, and its owner
still publishes, it shows (`HeardInv`): a stream is published once, so a "gone"
that arrives late never takes away one that is on stage. In between is the
exchange of two pages (`TalkInv`). Each has a connection to the other or is about to be
told of it, by a join under way, an acknowledgement being made or a message
(`WillMeet`). What is agreed on has been heard at the other end, or is in an answer on its
way there or being set there, and an offer or an answer on its way belongs to the one that is out
(`Half`, seen from either side in `Sound`). The polite side's offer may still be in a
queue after it gave way: an offer is in force while no answer of the same page
is behind it (`InForce`). `LeftInv` says that nobody is told that a page has left
which has not.

The recursive `SortSeq` and `SelectSeq` are opaque to the prover, which is why
`Assembled` and `MergeById` go by rank (`Rank`, `Before`), and why the longest take is a constant
(`MaxSlices`), with the takes of each recorder below it.

What stays with TLC. Liveness, which the prover cannot do under fairness:
`TasksFinish`, `StagesRecover`, `RowsGetClosed`, `EveryoneSees`, `PageSettles`,
`PageCatchesUp`. Every invariant and every action property that a passing run
checks is a theorem, under the hypotheses of the table.

## 6. Not modelled

- Contents: media, transcript and summary texts, logs, error messages.
- `appendLog` as a read and a write of the log array: entries can be lost,
  nothing decides on them.
- The thumbnail, which is optional and which nothing waits for.
- The routes for chapters; the pull endpoint of the Python server beyond its
  check that the audio exists; its inference gate, retry counts and memory
  guards; the retry loops of `llm.py` and `db.py`.
- In the classroom: ICE candidates and the transport they find, the layout of
  the grid, memberships that change while somebody is in the room. The
  run has two pages; the theorems hold for any number.
- The lengths of stints and their sum over a user's tabs; the totals and lists
  of the teacher's pages; chapters' editing.
- Creating and renaming courses and sessions, custom join codes and their retry
  on a collision, paging, the change of a role (`PATCH`, which no page sends).
- Clocks: a lease is in the future or in the past, the boot sweep may take
  any row it could find old enough, and the five minutes before a reset are
  always over.
- Authentication and validation: tokens and passwords are library calls; whom a
  route lets through is modelled where it decides something (`CourseAccess`).
- HTTP shell, configuration, schema, seed, deployment: no state of their own.

## 7. Plan

What is next, in order.

1. `InferenceGate`: the Python server's gate, its lazy model and retry counts.
2. Pure algorithms against reference definitions: attendance totals, join codes
   and their retry limit, pagination.
