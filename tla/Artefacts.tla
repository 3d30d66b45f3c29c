----------------------------- MODULE Artefacts -----------------------------
(***************************************************************************)
(* What the pipeline promises about one take of a recording, whatever runs *)
(* or crashes behind it: the video appears first, then the audio, then the *)
(* transcript, then the summary.  Nothing that was published goes away,    *)
(* except the summary, which a teacher can have generated again.           *)
(***************************************************************************)
CONSTANT Sessions

VARIABLES video, audio, transcript, summary   \* each a set of sessions

vars == <<video, audio, transcript, summary>>

Init == video = {} /\ audio = {} /\ transcript = {} /\ summary = {}

PublishVideo(s) ==
  /\ video' = video \cup {s}
  /\ UNCHANGED <<audio, transcript, summary>>

PublishAudio(s) ==
  /\ s \in video
  /\ audio' = audio \cup {s}
  /\ UNCHANGED <<video, transcript, summary>>

SaveTranscript(s) ==
  /\ s \in audio
  /\ transcript' = transcript \cup {s}
  /\ UNCHANGED <<video, audio, summary>>

SaveSummary(s) ==
  /\ s \in transcript
  /\ summary' = summary \cup {s}
  /\ UNCHANGED <<video, audio, transcript>>

DropSummary(s) ==
  /\ summary' = summary \ {s}
  /\ UNCHANGED <<video, audio, transcript>>

Next ==
  \E s \in Sessions :
    PublishVideo(s) \/ PublishAudio(s) \/ SaveTranscript(s) \/ SaveSummary(s)
      \/ DropSummary(s)

Spec == Init /\ [][Next]_vars
=============================================================================
