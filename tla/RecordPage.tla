----------------------------- MODULE RecordPage -----------------------------
(***************************************************************************)
(* The record page around its Recorder: who may open it, the pre-flight    *)
(* check, the LIVE and END buttons, what it shows of the processing that   *)
(* follows; and, for the page of one teacher, the tracks of the screen,    *)
(* the microphone and the camera with the mixer (useMixedAudio) that puts  *)
(* the participants on stage into the recording.                           *)
(***************************************************************************)
EXTENDS MultipartRecorder

CONSTANTS
  Watched, \* the recorder whose devices are followed
  Stage    \* streams of participants that may be accepted on stage

ASSUME PageAssumption == Watched \in Recorders

VARIABLES
  at_page,    \* where the page is on its way to the recorder
  known,      \* session.recording.status as loaded
  processing, \* processingStatus
  live,       \* tracks that are capturing
  stream,     \* streamRef, what is published into the mesh
  webcam,     \* webcamTrackRef
  asking,     \* openWebcam waits for getUserMedia
  onStage,    \* remote streams with audio
  enabled,    \* recordParticipants
  mixer,      \* the AudioContext: which extra sources it has, with which gain
  recorded    \* the audio source given to the MediaRecorder

pageVars == <<at_page, known, processing>>
deviceVars == <<live, stream, webcam, asking>>
mixVars == <<onStage, enabled, mixer, recorded>>
vars == <<recorderVars, pageVars, deviceVars, mixVars>>

Nothing == "nothing"
AtPage == {"checking", "denied", "loading", "preflight", "ready", "left"}
\* "lostScreen": a screen that is captured and held by nobody.
Tracks == {"screen", "lostScreen", "preMic", "freshMic", "preCam", "cam"}
Gain == {"out", "silent", "heard"}

TypeOK ==
  /\ RecorderTypeOK
  /\ at_page \in [Recorders -> AtPage]
  /\ known \in [Recorders -> RowStatus]
  /\ processing \in [Recorders -> RowStatus \cup {Nothing}]
  /\ live \subseteq Tracks
  /\ stream \subseteq Tracks
  /\ webcam \in {Nothing, "preCam", "cam"}
  /\ asking \in BOOLEAN
  /\ onStage \subseteq Stage
  /\ enabled \in BOOLEAN
  /\ mixer \in [ctx : BOOLEAN, extra : [Stage -> Gain]]
  /\ recorded \in {Nothing, "mixer", "mic"}

\* Other pages have been loaded before there was a recording, and wait with
\* their pre-flight check.
Init ==
  /\ RecorderInit
  /\ at_page = [r \in Recorders |-> IF r = Watched THEN "checking" ELSE "preflight"]
  /\ known = [r \in Recorders |-> "absent"]
  /\ processing = [r \in Recorders |-> Nothing]
  /\ live = {}
  /\ stream = {}
  /\ webcam = Nothing
  /\ asking = FALSE
  /\ onStage = {}
  /\ enabled = FALSE
  /\ mixer = [ctx |-> FALSE, extra |-> [p \in Stage |-> "out"]]
  /\ recorded = Nothing

AtOf(r, p) == at_page[r] = p
PageGoto(r, p) == at_page' = [at_page EXCEPT ![r] = p]
Here(r) == ~ AtOf(r, "left")

\* An action of the recorder that leaves the devices as they are.
Elsewhere == UNCHANGED <<deviceVars, mixVars>>

\* Bound: chapters, the camera, the stage and the end of sharing are each
\* exercised by themselves, while every other page waits.
Marking == marked[Watched]
Filming == webcam # Nothing \/ asking \/ "cam" \in live
Staging == onStage # {} \/ enabled
Unshared == stream # {} /\ "screen" \notin live
Plain == ~ Marking /\ ~ Filming /\ ~ Staging /\ ~ Unshared
Alone(exercise) ==
  /\ exercise \/ Plain
  /\ \A r \in Recorders \ {Watched} : AtOf(r, "preflight")

-----------------------------------------------------------------------------
(* The way to the recorder.                                                 *)

\* Only a teacher of the course; others are sent away, and so is who has no
\* session.
Authorize(r) ==
  /\ AtOf(r, "checking")
  /\ \/ PageGoto(r, "loading") /\ NoFault
     \/ Fault /\ PageGoto(r, "denied")
  /\ UNCHANGED <<recorder, flights, server, known, processing>>
  /\ Elsewhere

\* reload() when the page is opened.
Load(r) ==
  /\ AtOf(r, "loading")
  /\ PageGoto(r, "preflight")
  /\ known' = [known EXCEPT ![r] = row.status]
  /\ processing' = [processing EXCEPT ![r] = IF row.status = "FAILED" THEN "FAILED" ELSE @]
  /\ UNCHANGED recorderVars
  /\ Elsewhere

ShowProcessing(r) == processing[r] # Nothing \/ known[r] \in {"PROCESSING", "READY"}
CanStartFresh(r) == known[r] \in {"absent", "UPLOADING", "FAILED"}
ShowRecorder(r) == AtOf(r, "ready") /\ CanStartFresh(r)
LiveEnded(r) == processing[r] # Nothing \/ known[r] \in {"PROCESSING", "READY"}

\* The LIVE button of the control bar, which goes when the processing shows.
CanStartLive(r) ==
  /\ ShowRecorder(r)
  /\ ~ ShowProcessing(r)
  /\ status[r] \in {"idle", "error", "done"}

\* PreflightCheck has the microphone, and the camera unless it is refused;
\* the mixer opens on the microphone.  Extra streams that were there before
\* the AudioContext are not taken up: their effect does not run again.
Preflight(r) ==
  /\ AtOf(r, "preflight")
  /\ r # Watched => Plain
  /\ ~ ShowProcessing(r)
  /\ PageGoto(r, "ready")
  /\ IF r = Watched
     THEN /\ \E cam \in {{}, {"preCam"}} : live' = {"preMic"} \cup cam
          /\ mixer' = [mixer EXCEPT !.ctx = TRUE]
     ELSE UNCHANGED <<live, mixer>>
  /\ UNCHANGED <<recorderVars, known, processing>>
  /\ UNCHANGED <<stream, webcam, asking, onStage, enabled, recorded>>

-----------------------------------------------------------------------------
(* The recorder with the tracks it takes and gives back.                    *)

Mics == {"preMic", "freshMic"}

StartLive(r) ==
  /\ CanStartLive(r)
  /\ Start(r)
  /\ UNCHANGED pageVars
  /\ Elsewhere

\* The merged stream is published before the upload is begun.
Merge(r, mic) ==
  IF r = Watched
  THEN /\ live' = live \cup {"screen", mic}
       /\ stream' = {"screen", mic}
  ELSE UNCHANGED <<live, stream>>

PickScreen(r) ==
  /\ Picked(r, r # Watched \/ "preMic" \in live)
  /\ IF r # Watched \/ "preMic" \in live
     THEN Merge(r, "preMic")
     ELSE live' = live \cup {"screen"} /\ UNCHANGED stream
  /\ UNCHANGED <<pageVars, webcam, asking, mixVars>>

GetMic(r) ==
  /\ Miked(r)
  /\ Merge(r, "freshMic")
  /\ UNCHANGED <<pageVars, webcam, asking, mixVars>>

\* The catch of start() stops what has been merged; a screen that waits for
\* its microphone has not.
Release(r) ==
  IF r = Watched
  THEN /\ live' = IF at[r] = "miking" THEN (live \ {"screen"}) \cup {"lostScreen"}
                                      ELSE live \ stream
       /\ stream' = {}
  ELSE UNCHANGED <<live, stream>>

StartFails(r) ==
  /\ Refused(r) \/ InitFails(r)
  /\ Release(r)
  /\ UNCHANGED <<pageVars, webcam, asking, mixVars>>

\* The mixer's track is preferred, and never ends.
GoLive(r) ==
  /\ Inited(r)
  /\ recorded' = IF r # Watched THEN recorded ELSE IF mixer.ctx THEN "mixer" ELSE "mic"
  /\ UNCHANGED <<pageVars, deviceVars, onStage, enabled, mixer>>

\* The browser's own "stop sharing".  onended calls the stop() of the render
\* that start() was called in, whose status was not "recording": nothing.
SharingEnds ==
  /\ Alone(Unshared)
  /\ "screen" \in live
  /\ live' = live \ {"screen"}
  /\ UNCHANGED <<recorderVars, pageVars, stream, webcam, asking, mixVars>>

\* stop() stops the merged stream and the pre-flight microphone.
StoppedByEnd == stream \cup {"preMic"}

EndLive(r) ==
  /\ Here(r)
  /\ Stop(r)
  /\ IF r = Watched
     THEN live' = live \ StoppedByEnd /\ stream' = {}
     ELSE UNCHANGED <<live, stream>>
  /\ UNCHANGED <<pageVars, webcam, asking, mixVars>>

\* What goes on by itself, of a page that was left too.
RecorderStep(r) ==
  /\ \/ Slice(r) \/ LastSlice(r)
     \/ Settled(r) \/ Drained(r)
     \/ CompleteFails(r) \/ ChaptersFail(r)
  /\ UNCHANGED pageVars
  /\ Elsewhere

Mark(r) ==
  /\ Here(r) /\ Alone(Marking)
  /\ MarkChapter(r)
  /\ UNCHANGED pageVars
  /\ Elsewhere

FlightStep(f) ==
  /\ PartUrl(f) \/ PutPart(f) \/ PartFails(f)
  /\ UNCHANGED pageVars
  /\ Elsewhere

-----------------------------------------------------------------------------
(* The camera.                                                              *)

Shows(r) == Here(r) /\ processing[r] = Nothing /\ ~ ShowProcessing(r)

\* openWebcam takes the camera of the pre-flight check while it is live.
OpenWebcam ==
  /\ Alone(Filming)
  /\ Shows(Watched) /\ status[Watched] = "recording"
  /\ webcam = Nothing /\ ~ asking
  /\ IF "preCam" \in live
     THEN webcam' = "preCam" /\ UNCHANGED asking
     ELSE asking' = TRUE /\ UNCHANGED webcam
  /\ UNCHANGED <<recorderVars, pageVars, live, stream, mixVars>>

\* Allowed or refused, wherever the page is by now.
CameraAnswers ==
  /\ asking
  /\ asking' = FALSE
  /\ \/ live' = live \cup {"cam"} /\ webcam' = "cam"
     \/ UNCHANGED <<live, webcam>>
  /\ UNCHANGED <<recorderVars, pageVars, stream, mixVars>>

\* By the button, or because the camera's track ended.
CloseWebcam ==
  /\ Here(Watched) /\ webcam # Nothing
  /\ live' = live \ {webcam}
  /\ webcam' = Nothing
  /\ UNCHANGED <<recorderVars, pageVars, stream, asking, mixVars>>

-----------------------------------------------------------------------------
(* After END.                                                               *)

\* Mutant: the pre-flight camera is not part of the clean-up.
MoppedButCam == {"preMic", webcam}

\* The effect on liveEnded.
Mopped == {"preMic", "preCam", webcam}

Mop(r) ==
  IF r = Watched
  THEN live' = live \ Mopped /\ webcam' = Nothing
  ELSE UNCHANGED <<live, webcam>>

\* onComplete, if the component is still there.
ShowDone(r) ==
  /\ Completed(r) \/ ChaptersSaved(r)
  /\ IF status'[r] = "done" /\ Here(r)
     THEN processing' = [processing EXCEPT ![r] = "PROCESSING"] /\ Mop(r)
     ELSE UNCHANGED <<processing, live, webcam>>
  /\ UNCHANGED <<at_page, known, stream, asking, mixVars>>

\* Bound: what follows is of interest in the watched page.
Followed(r) == r = Watched /\ Here(r)

\* reload() after onComplete.
Reload(r) ==
  /\ Followed(r) /\ status[r] = "done" /\ known[r] # row.status
  /\ known' = [known EXCEPT ![r] = row.status]
  /\ processing' = [processing EXCEPT ![r] = IF row.status = "FAILED" THEN "FAILED" ELSE @]
  /\ UNCHANGED <<recorderVars, at_page>>
  /\ Elsewhere

\* Mutant: the poll goes on only while it is told "PROCESSING".
PolledOnce(r) == known[r] = "PROCESSING" /\ processing[r] = "PROCESSING"

\* Every four seconds, once there is something to ask for.
Polled(r) == processing[r] \notin {Nothing, "FAILED"}

Poll(r) ==
  /\ Followed(r) /\ Polled(r)
  /\ processing' = [processing EXCEPT ![r] = row.status]
  /\ UNCHANGED <<recorderVars, at_page, known>>
  /\ Elsewhere

\* The Retry button of a failed recording.
PressRetry(r) ==
  /\ Followed(r) /\ processing[r] = "FAILED"
  /\ Retry
  /\ processing' = [processing EXCEPT ![r] = "PROCESSING"]
  /\ UNCHANGED <<at_page, known>>
  /\ Elsewhere

\* The page is left: Recorder and page stop what their refs hold, and their
\* state goes.  Bound: only the watched page is left.
Leave(r) ==
  /\ r = Watched /\ Here(r)
  /\ Unmount(r)
  /\ PageGoto(r, "left")
  /\ live' = live \ (stream \cup {"preMic", webcam})
  /\ stream' = {} /\ webcam' = Nothing
  /\ mixer' = [ctx |-> FALSE, extra |-> [p \in Stage |-> "out"]]
  /\ onStage' = {} /\ enabled' = FALSE /\ recorded' = Nothing
  /\ known' = [known EXCEPT ![r] = "absent"]
  /\ processing' = [processing EXCEPT ![r] = Nothing]
  /\ UNCHANGED asking

-----------------------------------------------------------------------------
(* The mixer.                                                               *)

\* Mutant: a new source is audible at once.
GainAlways == "heard"

GainNow == IF enabled THEN "heard" ELSE "silent"

\* A participant comes on stage or leaves it: the sources are compared.
StageChanges(p) ==
  /\ Here(Watched) /\ Alone(Staging)
  /\ onStage' = SymDiff(onStage, {p})
  /\ mixer' = IF ~ mixer.ctx THEN mixer
              ELSE [mixer EXCEPT !.extra =
                      [q \in Stage |-> IF q \notin onStage' THEN "out"
                                       ELSE IF @[q] = "out" THEN GainNow ELSE @[q]]]
  /\ UNCHANGED <<recorderVars, pageVars, deviceVars, enabled, recorded>>

\* The button "record participants".
ToggleParticipants ==
  /\ Alone(Staging)
  /\ Shows(Watched) /\ status[Watched] = "recording"
  /\ enabled' = ~ enabled
  /\ mixer' = [mixer EXCEPT !.extra =
                 [q \in Stage |-> IF @[q] = "out" THEN "out"
                                  ELSE IF enabled' THEN "heard" ELSE "silent"]]
  /\ UNCHANGED <<recorderVars, pageVars, deviceVars, onStage, recorded>>

-----------------------------------------------------------------------------
PageStep(r) ==
  \/ Authorize(r) \/ Load(r) \/ Preflight(r)
  \/ StartLive(r) \/ PickScreen(r) \/ GetMic(r) \/ StartFails(r) \/ GoLive(r)
  \/ EndLive(r) \/ RecorderStep(r) \/ Mark(r) \/ ShowDone(r)
  \/ Reload(r) \/ Poll(r) \/ PressRetry(r) \/ Leave(r)

DeviceStep ==
  \/ SharingEnds \/ OpenWebcam \/ CameraAnswers \/ CloseWebcam
  \/ ToggleParticipants
  \/ \E p \in Stage : StageChanges(p)

PipelineStep == Process /\ UNCHANGED <<pageVars, deviceVars, mixVars>>

Next ==
  \/ \E r \in Recorders : PageStep(r)
  \/ \E f \in flights : FlightStep(f)
  \/ DeviceStep
  \/ PipelineStep

Spec == Init /\ [][Next]_vars

\* Timers, promises and intervals of the browser run; requests are answered;
\* the pipeline ends.  Nobody has to press a button.
Fairness ==
  /\ WF_vars(\E f \in flights : FlightStep(f))
  /\ WF_vars(PipelineStep)
  /\ \A r \in Recorders :
       /\ WF_vars(RecorderStep(r))
       /\ WF_vars(ShowDone(r))
       /\ WF_vars(Poll(r))

FairSpec == Spec /\ Fairness

-----------------------------------------------------------------------------
\* Once the live phase is over for a page, none of its devices captures: the
\* screen, either microphone or either camera, over all the takes it began.
\* Not so of what the code lets go of: a screen whose microphone was refused,
\* and a camera that was asked for before the end and granted after it.
NothingCaptures ==
  status[Watched] = "done" /\ LiveEnded(Watched) =>
    live \subseteq {"lostScreen", webcam}

\* No participant is in the recording unless the teacher asks for it, and
\* none who has left the stage.
ParticipantsConsent ==
  \A p \in Stage :
    /\ mixer.extra[p] = "heard" => enabled
    /\ mixer.extra[p] # "out" => p \in onStage

\* Whatever fails or hangs behind it, stop() comes to an end: "done" or
\* "error".
EndSettles ==
  \A r \in Recorders : at[r] \in StopPC ~> at[r] = "idle"

\* A page that saw its recording complete shows how the processing ended.
PageShowsTheEnd ==
  processing[Watched] = "PROCESSING" /\ row.status = "READY"
    ~> processing[Watched] = "READY" \/ ~ Here(Watched)

\* However a take ends, its page comes to rest.
PageSettles == EndSettles /\ PageShowsTheEnd

\* Claimed by Recorder.tsx ("silent recording"): what is recorded carries a
\* microphone that is live.
TeacherIsHeard ==
  Here(Watched) /\ status[Watched] = "recording" /\ recorded = "mixer" => "preMic" \in live
=============================================================================
