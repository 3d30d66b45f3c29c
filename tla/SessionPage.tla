----------------------------- MODULE SessionPage ----------------------------
(***************************************************************************)
(* The page of a session as one viewer has it open: the bootstrap, the two *)
(* pollers, the player with the effects React attaches to it, the access   *)
(* code, the teacher's buttons and summary editor; and the routes behind   *)
(* it: session, playback, verify-code, progress, summary, retry, reset.    *)
(*                                                                         *)
(* An answer is what the server read when it got the request, and it may   *)
(* be on its way while the viewer and the pipeline go on.  Bounds that the *)
(* timing of the page suggests, each far above a request's latency:        *)
(* the bootstrap and every tick are answered before the next tick (5 s and *)
(* 8 s), a save of the position before the next ten seconds are played,    *)
(* and what the page has asked about a recording before the next begins.   *)
(***************************************************************************)
EXTENDS Naturals

CONSTANTS
  Viewers,     \* the roles a viewer may have in the course
  Len,         \* length of the recording, in units of ten seconds
  MaxTakes,    \* recordings started
  MaxRuns,     \* summaries written by the pipeline
  MaxCodes,    \* times the access code is set or removed
  MaxMoves     \* what the viewer does but watch, and what goes wrong

ASSUME SessionPageAssumption ==
  /\ Viewers \subseteq {"TEACHER", "STUDENT"}
  /\ {Len, MaxTakes, MaxRuns, MaxCodes, MaxMoves} \subseteq Nat

VARIABLES
  rec,      \* the recording of the session
  sess,     \* the session
  progress, \* the viewer's SessionProgress
  crowd,    \* as many other sessions as /continue lists were watched since
  viewer,   \* the viewer's role
  page,     \* what the page holds
  video,    \* the player
  stored,   \* the code in sessionStorage
  asked,    \* answers on their way to the two pollers
  act,      \* the request of a button
  put,      \* a save of the position on its way
  used      \* what the bounds count

serverVars == <<rec, sess, progress, crowd>>
pageVars == <<viewer, page, video, stored, asked, act>>
vars == <<serverVars, pageVars, put, used>>

None == "none"   \* a status or a role that is not there
Nil == [nil |-> TRUE]   \* a null
Typed == MaxRuns + 1
\* Texts of a summary: none, what the pipeline wrote, what the teacher typed.
Text == 0..Typed
Codes == 0..MaxCodes
RowStatus == {None, "UPLOADING", "PROCESSING", "READY", "FAILED"}
SessionStatus == {"SCHEDULED", "LIVE", "ENDED"}

Recording ==
  [take : 0..MaxTakes, status : RowStatus, video : BOOLEAN, tr : BOOLEAN,
   auto : 0..MaxRuns, manual : Text]
NoRow == [take |-> 0, status |-> None, video |-> FALSE, tr |-> FALSE, auto |-> 0, manual |-> 0]
Snapshot == [status : SessionStatus, gated : BOOLEAN, take : 0..MaxTakes, rec : RowStatus]
Playback ==
  [ready : BOOLEAN, by : {"boot", "poll", "meta"}, take : 1..MaxTakes, tr : BOOLEAN,
   auto : 0..MaxRuns, manual : Text]
Page ==
  [at : {"closed", "boot", "playback", "continue", "open", "failed"},
   role : Viewers \cup {None}, sess : Snapshot \cup {Nil}, pb : Playback \cup {Nil},
   started : 0..Len, focus : BOOLEAN, last : 0..Len,
   editing : BOOLEAN, draft : Text,
   gaveUp : BOOLEAN,
   \* History: the position was not offered, or the viewer has moved; the focus
   \* button has mounted another player; the only request for the playback came
   \* to nothing; an answer was behind a save.
   anew : BOOLEAN, refocused : BOOLEAN, missed : BOOLEAN, behind : BOOLEAN]
Player == [hears : BOOLEAN, seeks : BOOLEAN, loaded : BOOLEAN, pos : 0..Len]

TypeOK ==
  /\ rec \in Recording
  /\ sess \in [status : SessionStatus, code : Codes]
  /\ progress \in [pos : 0..Len, completed : BOOLEAN] \cup {Nil}
  /\ crowd \in BOOLEAN
  /\ viewer \in Viewers
  /\ page \in Page
  /\ video \in Player
  /\ stored \in Codes
  /\ asked \in [poll : Snapshot \cup Playback \cup {Nil}, meta : Playback \cup {Nil}]
  /\ act \in {Nil} \cup
       [kind : {"retry", "reset", "save"}, step : {"posted", "served", "reload"},
        take : 1..MaxTakes, text : Text]
  /\ put \in [pos : 0..Len, completed : BOOLEAN, anew : BOOLEAN, refocused : BOOLEAN] \cup {Nil}
  /\ used \in [takes : 0..MaxTakes, runs : 0..MaxRuns, codes : 0..MaxCodes, moves : 0..MaxMoves]

ClosedPage ==
  [at |-> "closed", role |-> None, sess |-> Nil, pb |-> Nil, started |-> 0,
   focus |-> FALSE, last |-> 0, editing |-> FALSE, draft |-> 0, gaveUp |-> FALSE,
   anew |-> FALSE, refocused |-> FALSE, missed |-> FALSE, behind |-> FALSE]
NewPage == [ClosedPage EXCEPT !.at = "boot"]
NoVideo == [hears |-> FALSE, seeks |-> FALSE, loaded |-> FALSE, pos |-> 0]

Init ==
  /\ rec = NoRow
  /\ sess = [status |-> "SCHEDULED", code |-> 0]
  /\ progress = Nil
  /\ crowd = FALSE
  /\ viewer \in Viewers
  /\ page = ClosedPage
  /\ video = NoVideo
  /\ stored = 0
  /\ asked = [poll |-> Nil, meta |-> Nil]
  /\ act = Nil
  /\ put = Nil
  /\ used = [takes |-> 0, runs |-> 0, codes |-> 0, moves |-> 0]

Move ==
  /\ used.moves < MaxMoves
  /\ used' = [used EXCEPT !.moves = @ + 1]
Fault == Move
NoFault == UNCHANGED used

-----------------------------------------------------------------------------
(* What the routes answer.                                                  *)

\* GET /sessions/:sessionId.
TheSession == [status |-> sess.status, gated |-> sess.code # 0, take |-> rec.take, rec |-> rec.status]

\* X-Session-Code against the code of the session.
PassesGate == sess.code = 0 \/ stored = sess.code

\* GET /playback: 403 behind the gate, 404 without a recording; a row that is
\* not READY is answered with what there is of it, and no url.
ThePlayback(by) ==
  IF PassesGate /\ rec.take # 0
  THEN [ready |-> rec.status = "READY" /\ rec.video, by |-> by, take |-> rec.take,
        tr |-> rec.tr, auto |-> rec.auto, manual |-> rec.manual]
  ELSE Nil

\* Teacher's text wins, AI is fallback.
Resolved(p) == IF p.manual # 0 THEN p.manual ELSE p.auto

\* GET /progress/continue: sessions in progress, the freshest six of them.
Continued == progress # Nil /\ ~ progress.completed /\ ~ crowd

-----------------------------------------------------------------------------
(* Rendering.  The player exists while the page shows it; its listeners are *)
(* attached by effects that run when what they depend on was set, on the    *)
(* element that is there by then.                                           *)

Loaded(p) == p.at \in {"open", "failed"}
Gated(p) == p.sess # Nil /\ p.sess.gated /\ stored = 0
LiveTakeover(p) == p.sess # Nil /\ p.sess.status = "LIVE" /\ p.role # "TEACHER"
Shown(p) == Loaded(p) /\ p.sess # Nil /\ ~ Gated(p) /\ ~ LiveTakeover(p)
VideoOn(p) == Shown(p) /\ p.pb # Nil /\ p.pb.ready
Card(p) == Shown(p) /\ p.role = "TEACHER" /\ p.sess.take # 0 /\ ~ (p.focus /\ VideoOn(p))
Source(p) == <<p.pb.take, p.pb.by>>

\* Mutant: the effect that seeks does not depend on the position.
RenderedSeekOnPlayback(old, new, playbackSet, startedSet) ==
  LET fresh == ~ VideoOn(old) \/ old.focus # new.focus
      reloads == fresh \/ Source(old) # Source(new)
  IN IF ~ VideoOn(new) THEN NoVideo
     ELSE [hears  |-> playbackSet \/ (video.hears /\ ~ fresh),
           seeks  |-> IF playbackSet THEN new.started # 0 ELSE video.seeks /\ ~ fresh,
           loaded |-> video.loaded /\ ~ reloads,
           pos    |-> IF reloads THEN 0 ELSE video.pos]

\* The position is sought once the metadata is there, by an effect on the
\* playback and the position; it is saved by listeners an effect on the
\* playback alone attaches.
Rendered(old, new, playbackSet, startedSet) ==
  LET fresh == ~ VideoOn(old) \/ old.focus # new.focus
      reloads == fresh \/ Source(old) # Source(new)
  IN IF ~ VideoOn(new) THEN NoVideo
     ELSE [hears  |-> playbackSet \/ (video.hears /\ ~ fresh),
           seeks  |-> IF playbackSet \/ startedSet THEN new.started # 0
                      ELSE video.seeks /\ ~ fresh,
           loaded |-> video.loaded /\ ~ reloads,
           pos    |-> IF reloads THEN 0 ELSE video.pos]

\* The editor of the summary follows the texts until it is opened, and goes
\* with its card.
Draft(new) ==
  IF new.editing /\ Card(new) THEN new
  ELSE [new EXCEPT !.editing = FALSE, !.draft = IF new.pb = Nil THEN 0 ELSE Resolved(new.pb)]

\* What a set of states does to the page on the screen.
Commit(new, playbackSet, startedSet) ==
  /\ page' = Draft(new)
  /\ video' = Rendered(page, page', playbackSet, startedSet)
Renders(new) == Commit(new, FALSE, FALSE)
\* The effect of the second poller runs again, and with it its ten minutes.
SetsPlayback(new) == Commit([new EXCEPT !.gaveUp = FALSE], TRUE, FALSE)

-----------------------------------------------------------------------------
(* Opening and leaving the page, and the bootstrap.                         *)

Open ==
  /\ page.at = "closed"
  /\ Renders(NewPage)
  /\ Move
  /\ UNCHANGED <<serverVars, viewer, stored, asked, act, put>>

\* The pollers stop with the page; a save of the position goes on.
Leave ==
  /\ Loaded(page)
  /\ act = Nil
  /\ Renders(ClosedPage)
  /\ asked' = [poll |-> Nil, meta |-> Nil]
  /\ UNCHANGED <<serverVars, viewer, stored, act, put, used>>

Boot ==
  /\ page.at = "boot"
  /\ \/ Renders([page EXCEPT !.at = "playback", !.sess = TheSession, !.role = viewer]) /\ NoFault
     \/ Renders([page EXCEPT !.at = "failed", !.anew = TRUE]) /\ Fault
  /\ UNCHANGED <<serverVars, viewer, stored, asked, act, put>>

\* A request that fails counts as missed when no poller will make it again.
Missed(p) == p.sess # Nil /\ p.sess.rec = "READY"
BootPlayback ==
  /\ page.at = "playback"
  /\ LET next == [page EXCEPT !.at = "continue"]
         without == [next EXCEPT !.missed = Missed(page)]
     IN \/ /\ ThePlayback("boot") # Nil
           /\ SetsPlayback([next EXCEPT !.pb = ThePlayback("boot")])
           /\ NoFault
        \/ ThePlayback("boot") = Nil /\ Renders(without) /\ NoFault
        \/ Renders(without) /\ Fault
  /\ UNCHANGED <<serverVars, viewer, stored, asked, act, put>>

\* The skeleton goes in the same commit that sets the position.
BootContinue ==
  /\ page.at = "continue"
  /\ LET at(pos, anew) ==
           Commit([page EXCEPT !.at = "open", !.started = pos, !.anew = anew], FALSE, TRUE)
     IN \/ /\ Continued
           /\ at(progress.pos, put # Nil \/ progress.pos = Len)
           /\ NoFault
        \/ ~ Continued /\ at(0, put # Nil \/ progress # Nil) /\ NoFault
        \/ at(0, TRUE) /\ Fault
  /\ UNCHANGED <<serverVars, viewer, stored, asked, act, put>>

-----------------------------------------------------------------------------
(* The pollers.                                                             *)

\* Mutant: the poller runs for a recording in the making only.
AwaitsVideoOfRecording ==
  /\ Loaded(page) /\ page.pb = Nil
  /\ page.sess # Nil /\ page.sess.rec \in {"UPLOADING", "PROCESSING"}

AwaitsVideo == Loaded(page) /\ page.pb = Nil /\ ~ Missed(page)
PollAsks ==
  /\ AwaitsVideo
  /\ asked.poll = Nil
  /\ asked' = [asked EXCEPT !.poll = TheSession]
  /\ UNCHANGED <<serverVars, viewer, page, video, stored, act, put, used>>

\* A recording that is READY is asked for its playback at once.
PollSession ==
  /\ asked.poll \in Snapshot
  /\ LET new == [page EXCEPT !.sess = asked.poll]
         last == [new EXCEPT !.missed = Missed(new)]
     IN \/ /\ asked.poll.rec # "READY"
           /\ Renders(new)
           /\ asked' = [asked EXCEPT !.poll = Nil]
        \/ /\ asked.poll.rec = "READY"
           /\ ThePlayback("poll") # Nil
           /\ Renders(new)
           /\ asked' = [asked EXCEPT !.poll = ThePlayback("poll")]
        \/ /\ asked.poll.rec = "READY"
           /\ ThePlayback("poll") = Nil
           /\ Renders(last)
           /\ asked' = [asked EXCEPT !.poll = Nil]
  /\ UNCHANGED <<serverVars, viewer, stored, act, put, used>>

Behind(answer) == answer.manual # rec.manual
PollPlayback ==
  /\ asked.poll \in Playback
  /\ SetsPlayback([page EXCEPT !.pb = asked.poll, !.behind = Behind(asked.poll)])
  /\ asked' = [asked EXCEPT !.poll = Nil]
  /\ UNCHANGED <<serverVars, viewer, stored, act, put, used>>

PollFails ==
  /\ asked.poll # Nil
  /\ Renders([page EXCEPT !.missed = @ \/ asked.poll \in Playback])
  /\ asked' = [asked EXCEPT !.poll = Nil]
  /\ Fault
  /\ UNCHANGED <<serverVars, viewer, stored, act, put>>

\* What there is to wait for once the playback is there.
Complete(p) == p.tr /\ Resolved(p) # 0
AwaitsTexts == Loaded(page) /\ page.pb # Nil /\ ~ Complete(page.pb) /\ ~ page.gaveUp

MetaAsks ==
  /\ AwaitsTexts
  /\ asked.meta = Nil
  /\ ThePlayback("meta") # Nil
  /\ asked' = [asked EXCEPT !.meta = ThePlayback("meta")]
  /\ UNCHANGED <<serverVars, viewer, page, video, stored, act, put, used>>

\* Give up after 10 minutes, in which every request was refused or failed: an
\* answer sets the playback, and the ten minutes begin again.
MetaGivesUp ==
  /\ AwaitsTexts
  /\ asked.meta = Nil
  /\ (ThePlayback("meta") = Nil /\ NoFault) \/ Fault
  /\ page' = [page EXCEPT !.gaveUp = TRUE]
  /\ UNCHANGED <<serverVars, viewer, video, stored, asked, act, put>>

\* Mutant: the answer replaces the playback, its url with it.
MergedWhole(pb, answer) == answer

\* Only the texts are taken over; the url stays.
Merged(pb, answer) == [pb EXCEPT !.tr = answer.tr, !.auto = answer.auto, !.manual = answer.manual]
MetaAnswered ==
  /\ asked.meta # Nil
  /\ SetsPlayback(
       IF page.pb # Nil
       THEN [page EXCEPT !.pb = Merged(@, asked.meta), !.behind = Behind(asked.meta)]
       ELSE [page EXCEPT !.pb = asked.meta, !.behind = Behind(asked.meta), !.missed = TRUE])
  /\ asked' = [asked EXCEPT !.meta = Nil]
  /\ UNCHANGED <<serverVars, viewer, stored, act, put, used>>

MetaFails ==
  /\ asked.meta # Nil
  /\ asked' = [asked EXCEPT !.meta = Nil]
  /\ Fault
  /\ UNCHANGED <<serverVars, viewer, page, video, stored, act, put>>

-----------------------------------------------------------------------------
(* The player.                                                              *)

Save(pos, completed, p) ==
  [pos |-> pos, completed |-> completed, anew |-> p.anew, refocused |-> p.refocused]

\* The element is at pos: save(false) drops what is less than ten seconds off.
Distance(p, q) == IF p > q THEN p - q ELSE q - p
At(pos, p) ==
  LET saves == video.hears /\ Distance(pos, p.last) >= 1
  IN /\ put = Nil
     /\ video' = [video EXCEPT !.pos = pos, !.loaded = TRUE]
     /\ page' = IF saves THEN [p EXCEPT !.last = pos] ELSE p
     /\ put' = IF saves THEN Save(pos, FALSE, p) ELSE put
     /\ UNCHANGED <<serverVars, viewer, stored, asked, act>>

MetadataLoads ==
  /\ VideoOn(page) /\ ~ video.loaded
  /\ At(IF video.seeks /\ video.pos < 1 /\ page.started < Len THEN page.started ELSE video.pos, page)
  /\ UNCHANGED used

Play ==
  /\ VideoOn(page) /\ video.loaded
  /\ video.pos < Len
  /\ At(video.pos + 1, page)
  /\ UNCHANGED used

\* A chapter, a line of the transcript, the bar of the player.
SeekTo(pos) ==
  /\ VideoOn(page) /\ video.loaded
  /\ pos # video.pos
  /\ At(pos, [page EXCEPT !.anew = TRUE])
  /\ Move

Ended ==
  /\ VideoOn(page) /\ video.loaded /\ video.hears
  /\ video.pos = Len
  /\ put = Nil
  /\ put' = Save(Len, TRUE, page)
  /\ page' = [page EXCEPT !.last = Len]
  /\ UNCHANGED <<serverVars, viewer, video, stored, asked, act, used>>

\* The other layout has a player of its own, at 0, and no effect runs for it: it
\* neither seeks nor saves until the playback is set again.
FocusMode ==
  /\ VideoOn(page)
  /\ Renders([page EXCEPT !.focus = ~ @, !.refocused = TRUE])
  /\ UNCHANGED <<serverVars, viewer, stored, asked, act, put>>
  /\ Move

\* PUT /progress; an error is swallowed.
PutProgress ==
  /\ put # Nil
  /\ \/ progress' = [pos |-> put.pos, completed |-> put.completed] /\ crowd' = FALSE /\ NoFault
     \/ UNCHANGED <<progress, crowd>> /\ Fault
  /\ put' = Nil
  /\ UNCHANGED <<rec, sess, pageVars>>

-----------------------------------------------------------------------------
(* The buttons of the page, one request at a time.                          *)

Press(kind, text) ==
  act' = [kind |-> kind, step |-> "posted", take |-> page.sess.take, text |-> text]

Retry ==
  /\ act = Nil
  /\ Shown(page) /\ page.role = "TEACHER" /\ page.sess.take # 0
  /\ page.sess.rec \in {"FAILED", "PROCESSING"} \/ page.sess.status = "ENDED"
  /\ Press("retry", 0)
  /\ UNCHANGED <<serverVars, viewer, page, video, stored, asked, put>>
  /\ Move

\* The row has not changed for five minutes.
Reset ==
  /\ act = Nil
  /\ Shown(page) /\ page.role = "TEACHER" /\ page.sess.take # 0
  /\ page.sess.rec \in {"PROCESSING", "UPLOADING"}
  /\ Press("reset", 0)
  /\ UNCHANGED <<serverVars, viewer, page, video, stored, asked, put>>
  /\ Move

Edit ==
  /\ Card(page) /\ ~ page.editing
  /\ page' = [page EXCEPT !.editing = TRUE]
  /\ UNCHANGED <<serverVars, viewer, video, stored, asked, act, put>>
  /\ Move

Type ==
  /\ page.editing /\ page.draft # Typed
  /\ page' = [page EXCEPT !.draft = Typed]
  /\ UNCHANGED <<serverVars, viewer, video, stored, asked, act, put, used>>

Cancel ==
  /\ page.editing
  /\ Renders([page EXCEPT !.editing = FALSE])
  /\ UNCHANGED <<serverVars, viewer, stored, asked, act, put, used>>

\* Save, or "Use AI version".
SaveSummary ==
  /\ act = Nil
  /\ page.editing
  /\ \/ Press("save", page.draft)
     \/ page.pb # Nil /\ page.pb.manual # 0 /\ page.pb.auto # 0 /\ Press("save", 0)
  /\ UNCHANGED <<serverVars, viewer, page, video, stored, asked, put, used>>

\* Mutant: a retry starts the row over.
RetryRowPending == [rec EXCEPT !.status = "PENDING", !.auto = 0]

\* The three routes; a recording that is gone answers with an error.
Found == act.take = rec.take /\ (act.kind = "retry" => rec.status # "UPLOADING")
RetryRow == [rec EXCEPT !.status = IF rec.video THEN "READY" ELSE "PROCESSING", !.auto = 0]
Serve ==
  /\ act # Nil /\ act.step = "posted"
  /\ \/ /\ Found
        /\ rec' = CASE act.kind = "retry" -> RetryRow
                    [] act.kind = "reset" -> NoRow
                    [] act.kind = "save" -> [rec EXCEPT !.manual = act.text]
        /\ sess' = IF act.kind = "reset" THEN [sess EXCEPT !.status = "SCHEDULED"] ELSE sess
        /\ act' = [act EXCEPT !.step = IF act.kind = "retry" THEN "reload" ELSE "served"]
     \/ ~ Found /\ act' = Nil /\ UNCHANGED <<rec, sess>>
  /\ UNCHANGED <<progress, crowd, viewer, page, video, stored, asked, put, used>>

\* Mutant: the editor closes over the old text.
SavedClosesOnly(p) == [p EXCEPT !.editing = FALSE]

\* The answer changes the page, but for a retry's; a retry and a reset then ask
\* for the session.  A player that appears with it has missed its effects.
Saved(p) ==
  [p EXCEPT !.editing = FALSE,
            !.pb = IF @ = Nil THEN Nil ELSE [@ EXCEPT !.manual = act.text]]
Answered ==
  /\ act # Nil /\ act.step = "served"
  /\ \/ act.kind = "reset" /\ SetsPlayback([page EXCEPT !.pb = Nil, !.anew = TRUE])
                            /\ act' = [act EXCEPT !.step = "reload"]
     \/ act.kind = "save" /\ SetsPlayback(Saved(page)) /\ act' = Nil
  /\ UNCHANGED <<serverVars, viewer, stored, asked, put, used>>

Reloaded ==
  /\ act # Nil /\ act.step = "reload"
  /\ act' = Nil
  /\ LET new == [page EXCEPT !.sess = TheSession,
                             !.missed = @ \/ (page.pb = Nil /\ rec.status = "READY")]
     IN Renders([new EXCEPT !.anew = @ \/ (VideoOn(new) /\ ~ VideoOn(page))])
  /\ UNCHANGED <<serverVars, viewer, stored, asked, put, used>>

\* The request, or its answer, is lost; the teacher sees a toast.
ActFails ==
  /\ act # Nil
  /\ act' = Nil
  /\ Renders([page EXCEPT !.behind = @ \/ (act.kind = "save" /\ act.step = "served"),
                          !.missed = @ \/ Missed(page)])
  /\ Fault
  /\ UNCHANGED <<serverVars, viewer, stored, asked, put>>

-----------------------------------------------------------------------------
(* The access code, and what goes on outside the page.                      *)

\* The code is kept and the page loads again; without a code to compare with,
\* verify-code accepts any.
EnterCode ==
  /\ Loaded(page) /\ Gated(page)
  /\ stored' \in IF sess.code = 0 THEN Codes \ {0} ELSE {sess.code}
  /\ act = Nil
  /\ page' = NewPage
  /\ video' = NoVideo
  /\ asked' = [poll |-> Nil, meta |-> Nil]
  /\ UNCHANGED <<serverVars, viewer, act, put>>
  /\ Move

World == UNCHANGED <<progress, pageVars, put>>

SetCode ==
  /\ used.moves < MaxMoves
  /\ \/ /\ used.codes < MaxCodes
        /\ sess' = [sess EXCEPT !.code = used.codes + 1]
        /\ used' = [used EXCEPT !.codes = @ + 1, !.moves = @ + 1]
     \/ sess.code # 0 /\ sess' = [sess EXCEPT !.code = 0] /\ Move
  /\ World /\ UNCHANGED <<rec, crowd>>

WatchOthers ==
  /\ progress # Nil /\ ~ crowd
  /\ crowd' = TRUE
  /\ Move
  /\ World /\ UNCHANGED <<rec, sess>>

\* The page of the recorder, on a session that has no recording.
Unhurried ==
  /\ asked.poll # Nil => asked.poll.take = 0
  /\ asked.meta = Nil /\ (act # Nil => act.kind # "reset")
StartRecording ==
  /\ rec.take = 0 /\ Unhurried
  /\ used.takes < MaxTakes
  /\ rec' = [NoRow EXCEPT !.take = used.takes + 1, !.status = "UPLOADING"]
  /\ sess' = [sess EXCEPT !.status = "LIVE"]
  /\ used' = [used EXCEPT !.takes = @ + 1]
  /\ World /\ UNCHANGED crowd

StopRecording ==
  /\ rec.status = "UPLOADING"
  /\ rec' = [rec EXCEPT !.status = "PROCESSING"]
  /\ sess' = [sess EXCEPT !.status = "ENDED"]
  /\ World /\ UNCHANGED <<crowd, used>>

\* The pipeline: the transcript may come before the video and after it.
Transcoded ==
  /\ rec.status = "PROCESSING"
  /\ rec' = [rec EXCEPT !.status = "READY", !.video = TRUE]
  /\ World /\ UNCHANGED <<sess, crowd, used>>

Transcribed ==
  /\ rec.status \in {"PROCESSING", "READY"} /\ ~ rec.tr
  /\ rec' = [rec EXCEPT !.tr = TRUE]
  /\ World /\ UNCHANGED <<sess, crowd, used>>

Summarized ==
  /\ rec.tr /\ rec.auto = 0
  /\ used.runs < MaxRuns
  /\ rec' = [rec EXCEPT !.auto = used.runs + 1]
  /\ used' = [used EXCEPT !.runs = @ + 1]
  /\ World /\ UNCHANGED <<sess, crowd>>

PipelineFails ==
  /\ rec.status = "PROCESSING"
  /\ rec' = [rec EXCEPT !.status = "FAILED"]
  /\ World /\ UNCHANGED <<sess, crowd, used>>

-----------------------------------------------------------------------------
Boots == Boot \/ BootPlayback \/ BootContinue
Pollers == PollAsks \/ PollSession \/ PollPlayback \/ PollFails
           \/ MetaAsks \/ MetaAnswered \/ MetaFails \/ MetaGivesUp
Plays == MetadataLoads \/ Play \/ Ended \/ FocusMode \/ \E pos \in 0..Len : SeekTo(pos)
Buttons == Retry \/ Reset \/ Edit \/ Type \/ Cancel \/ SaveSummary
           \/ Serve \/ Answered \/ Reloaded \/ ActFails
Outside == SetCode \/ WatchOthers \/ StartRecording \/ StopRecording
           \/ Transcoded \/ Transcribed \/ Summarized \/ PipelineFails

Next == Open \/ Leave \/ Boots \/ Pollers \/ Plays \/ PutProgress \/ Buttons \/ EnterCode \/ Outside

\* The intervals tick, and what was asked is answered; of each line, one action
\* at a time is enabled.
Fairness ==
  /\ WF_vars(Boots \/ PollAsks \/ PollSession \/ PollPlayback)
  /\ WF_vars(MetaAsks \/ MetaAnswered)

Spec == Init /\ [][Next]_vars
FairSpec == Spec /\ Fairness

-----------------------------------------------------------------------------
(* Properties.                                                              *)

\* A player that stays on the page keeps its url while metadata arrives,
\* summaries are saved and jobs are retried: a new signed url would reload it.
VideoStays ==
  [][VideoOn(page) /\ VideoOn(page') /\ page.focus = page'.focus
       => Source(page) = Source(page')]_vars

\* The saved position falls only for a viewer who was not offered it, who moved,
\* or who pressed the focus button: the player the page resumes with never
\* writes the beginning over it (the effects that seek and save, and the
\* metadata they wait for, come in any order).  The player the focus button
\* mounts does: it starts at 0, and the next answer has it saved.
PositionHeld ==
  [][progress # Nil /\ progress'.pos < progress.pos => put.anew \/ put.refocused]_vars

\* The page shows the teacher's summary of its recording as it is saved, unless
\* an answer overtaken by the save, or a lost one, left it behind.
SavedSummaryShows ==
  page.pb # Nil /\ page.pb.take = rec.take /\ ~ page.behind /\ (act # Nil => act.kind # "save")
    => page.pb.manual = rec.manual

\* A page that waits without a playback gets the video of a recording that is
\* READY for good, unless its only request for it came to nothing.
VideoAppears ==
  <>[](rec.status = "READY")
    => (Loaded(page) /\ page.pb = Nil
          ~> VideoOn(page) \/ page.missed \/ ~ Loaded(page) \/ Gated(page))

\* A page that has the playback gets the transcript and the summary, unless its
\* poller gave up: the code was set, or the network away, for ten minutes.
MetadataArrives ==
  <>[](rec.tr /\ Resolved(rec) # 0 /\ PassesGate)
    => (Loaded(page) /\ page.pb # Nil
          ~> \/ ~ Loaded(page) \/ page.pb = Nil \/ page.gaveUp
             \/ (page.pb.tr /\ Resolved(page.pb) # 0))

\* What the two pollers wait for arrives.
PageCatchesUp == VideoAppears /\ MetadataArrives

\* What the overlay says of a recording in the making: "this page auto-refreshes".
\* A page that says so gets the video of a recording that is READY for good.
OverlayOn(p) == Shown(p) /\ ~ VideoOn(p) /\ p.sess.rec \in {"UPLOADING", "PROCESSING"}
PageAutoRefreshes ==
  <>[](rec.status = "READY" /\ PassesGate)
    => (OverlayOn(page) ~> VideoOn(page) \/ page.missed \/ ~ Loaded(page))
=============================================================================
