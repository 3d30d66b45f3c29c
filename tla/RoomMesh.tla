------------------------------ MODULE RoomMesh ------------------------------
(***************************************************************************)
(* The pages of a live classroom as RoomServer serves them: useLiveRoom.ts *)
(* (participants, streams, stage), the WebRTC mesh of rtc.ts, the buttons  *)
(* of StudentLive, UsersRail and the record page that drive them, and what *)
(* MeetingGrid makes of it all.  The order in which a page shows           *)
(* participants and streams is left out.                                   *)
(*                                                                         *)
(* A peer connection is abstracted to its signaling state and to which     *)
(* streams its senders carry, its descriptions have agreed on and its      *)
(* remote side has delivered.  Tracks of a stream go together; candidates, *)
(* and the transport they find, are not modelled: what has been agreed on  *)
(* flows.  makingOffer is folded into "offering": an offer that arrives    *)
(* while one is being made is queued behind it by the browser and finds    *)
(* the collision either way.                                               *)
(***************************************************************************)
EXTENDS RoomServer

CONSTANTS
  MaxPresses, \* bound: buttons pressed, pages closed and connections lost
  MaxFaults   \* bound: connections lost

ASSUME MeshAssumption == MaxPresses \in Nat /\ MaxFaults \in Nat

VARIABLES
  page,    \* a page: its connection, what it publishes, who let it on stage
  view,    \* the participants it shows
  peers,   \* its peer connections, by the socket at the other end
  streams, \* the streams it shows, by the socket they came from
  presses,
  faults

pageVars == <<page, view, peers, streams, presses, faults>>
vars == <<serverVars, pageVars>>

NoStream == [of |-> "nobody"]
NoSocket == 0

\* accepted: handAcceptedBy.  asking: permission prompts that are open.
\* main: the stream given to publish.  cams: published beside it.
Page ==
  [at : {"away", "connecting", "on", "dropped", "closed"}, socket : Sockets \cup {NoSocket},
   accepted : Sockets \cup {NoSocket}, asking : Nat, main : Stream \cup {NoStream},
   cams : SUBSET Stream, mic : BOOLEAN, used : Nat]

NewPage ==
  [at |-> "away", socket |-> NoSocket, accepted |-> NoSocket, asking |-> 0,
   main |-> NoStream, cams |-> {}, mic |-> TRUE, used |-> 0]

\* mine: the socket the other end knows this one by.  sends: streams added to
\* it.  mute: those whose senders were given null.  offered: those in the offer
\* that is out.  reply: those in the answer that is being set.  agreed: those the
\* other end has been told of.  heard: those it has told of.  ignored (history):
\* an offer came while an answer was being set, and nothing was offered since.
Peer ==
  [sig : {"none", "stable", "offering", "answered"}, mine : Sockets \cup {NoSocket},
   sends : SUBSET Stream, mute : SUBSET Stream, offered : SUBSET Stream,
   reply : SUBSET Stream, agreed : SUBSET Stream, heard : SUBSET Stream,
   ignored : BOOLEAN]

NoPeer ==
  [sig |-> "none", mine |-> NoSocket, sends |-> {}, mute |-> {}, offered |-> {},
   reply |-> {}, agreed |-> {}, heard |-> {}, ignored |-> FALSE]

TypeOK ==
  /\ owner \in [Sockets -> Pages]
  /\ link \in [Sockets -> {"free", "up", "lost", "down"}]
  /\ room \in SUBSET Sockets
  /\ data \in [Sockets -> [hand : BOOLEAN, mic : BOOLEAN, cam : BOOLEAN, pub : BOOLEAN, joined : BOOLEAN]]
  /\ stale \in {"no", "yes", "torn"}
  /\ page \in [Pages -> Page]
  /\ view \in [Pages -> SUBSET Participant]
  /\ \A p \in Pages : \A x, y \in view[p] : x.id = y.id => x = y
  /\ peers \in [Pages -> [Sockets -> Peer]]
  /\ streams \in [Pages -> [Sockets -> SUBSET Stream]]
  /\ presses \in 0 .. MaxPresses
  /\ faults \in 0 .. MaxFaults

Init ==
  /\ ServerInit
  /\ page = [p \in Pages |-> NewPage]
  /\ view = [p \in Pages |-> {}]
  /\ peers = [p \in Pages |-> [id \in Sockets |-> NoPeer]]
  /\ streams = [p \in Pages |-> [id \in Sockets |-> {}]]
  /\ presses = 0
  /\ faults = 0

-----------------------------------------------------------------------------
(* The mesh (rtc.ts).                                                       *)

Mine(p) == page[p].socket

Connected(p) == page[p].at \in {"connecting", "on"}

\* localStream and extraLocalTracks.
Published(q) == q.cams \cup ({q.main} \ {NoStream})

\* ensurePeerState
Ensured(c, mine) == IF c.sig = "none" THEN [NoPeer EXCEPT !.sig = "stable", !.mine = mine] ELSE c

\* addTrack for whatever no sender carries.
TracksAdded(c, S) ==
  [c EXCEPT !.sends = @ \cup S, !.mute = @ \ S, !.agreed = @ \ (c.mute \cap S)]

\* Mutant: connectTo makes the connection and leaves the tracks to publish().
ConnectedToEmpty(c, q) == Ensured(c, q.socket)

\* connectTo
ConnectedTo(c, q) == TracksAdded(Ensured(c, q.socket), Published(q))

\* connectTo for every socket of ids but its own.
ConnectedToAll(p, ids) ==
  [id \in Sockets |-> IF id \in ids \ {Mine(p)}
                      THEN ConnectedTo(peers[p][id], page[p]) ELSE peers[p][id]]

\* setLocalStream(stream), addLocalTrack: every connection there is gets it.
Publishes(p, stream) ==
  [id \in Sockets |-> IF peers[p][id].sig = "none" THEN NoPeer
                      ELSE TracksAdded(peers[p][id], {stream})]

\* setLocalStream(null): every sender loses its track, the webcam's too.
Silences(p) ==
  [id \in Sockets |-> [peers[p][id] EXCEPT !.mute = peers[p][id].sends]]

\* removeLocalTrack
Removes(p, stream) ==
  [id \in Sockets |-> [peers[p][id] EXCEPT !.mute = @ \cup ({stream} \cap peers[p][id].sends)]]

Needy(c) == c.sig = "stable" /\ c.sends \ c.agreed # {}

Offering(c) == [c EXCEPT !.sig = "offering", !.offered = c.sends, !.ignored = FALSE]

\* onnegotiationneeded, when the state is stable and a stream is not agreed.
Negotiate(p, id) ==
  /\ Connected(p)
  /\ Needy(peers[p][id])
  /\ peers' = [peers EXCEPT ![p][id] = Offering(@)]
  /\ inbox' = Relayed("offer", Mine(p), id, peers[p][id].sends)
  /\ UNCHANGED <<owner, link, room, data, jobs, stale, page, view, streams, presses, faults>>

\* Mutant: nobody gives way.
PoliteNever(p, id) == FALSE

IsPolite(p, id) == Mine(p) > id

\* onRemoteStream, for what had not been heard of: it is shown with the rest.
ShownAfter(shown, S, c) == shown \cup (S \ c.heard)

\* After a reconnection a connection's other end is one nobody holds any
\* more; the browser may refuse the descriptions of the new one.
MayRefuse(p, c) == c.mine # Mine(p)

\* rtc:offer.  While an answer is being set the state is not stable: the offer
\* that comes right behind it is ignored like one that collides.  (A polite
\* page has it applied behind the answer, by the browser.)
OnOffer(p, id, offered) ==
  LET c == Ensured(peers[p][id], Mine(p))
  IN  \/ /\ c.sig \in {"offering", "answered"} /\ ~IsPolite(p, id)
         /\ peers' = [peers EXCEPT ![p][id].ignored = (c.sig = "answered")]
         /\ UNCHANGED streams
         /\ inbox' = [inbox EXCEPT ![Mine(p)] = Tail(@)]
      \/ /\ MayRefuse(p, c)
         /\ UNCHANGED <<peers, streams>>
         /\ inbox' = [inbox EXCEPT ![Mine(p)] = Tail(@)]
      \/ /\ c.sig = "stable" \/ (c.sig = "offering" /\ IsPolite(p, id))
         /\ LET mine == TracksAdded(c, Published(page[p]))
            IN  \E answered \in SUBSET mine.sends :
                  /\ mine.agreed \subseteq answered
                  /\ peers' = [peers EXCEPT ![p][id] =
                        [mine EXCEPT !.sig = "stable", !.mine = Mine(p), !.offered = {},
                                     !.heard = @ \cup offered, !.agreed = answered,
                                     !.ignored = FALSE]]
                  /\ inbox' = [Relayed("answer", Mine(p), id, answered)
                                 EXCEPT ![Mine(p)] = Tail(@)]
         /\ streams' = [streams EXCEPT ![p][id] = ShownAfter(@, offered, c)]

\* rtc:answer, to the offer that is out.  Any other answer is refused.
OnAnswer(p, id, answered) ==
  LET c == peers[p][id]
  IN  /\ \/ /\ c.sig = "offering"
            /\ peers' = [peers EXCEPT ![p][id] =
                  [c EXCEPT !.sig = "answered", !.mine = Mine(p), !.reply = answered]]
         \/ /\ c.sig # "offering" \/ MayRefuse(p, c)
            /\ UNCHANGED peers
      /\ UNCHANGED streams

\* The answer as it is once setRemoteDescription has resolved.
Answered(c) ==
  [c EXCEPT !.sig = "stable", !.offered = {}, !.reply = {},
            !.agreed = @ \cup c.offered, !.heard = @ \cup c.reply]

AnswerSet(p, id) ==
  LET c == peers[p][id]
  IN  /\ c.sig = "answered"
      /\ peers' = [peers EXCEPT ![p][id] = Answered(c)]
      /\ streams' = [streams EXCEPT ![p][id] = ShownAfter(@, c.reply, c)]
      /\ UNCHANGED <<serverVars, page, view, presses, faults>>

\* closePeer
PeerClosed(p, id) ==
  /\ peers' = [peers EXCEPT ![p][id] = NoPeer]
  /\ streams' = [streams EXCEPT ![p][id] = {}]

\* The other end of an established connection has gone: it fails in time.
Orphaned(p, id) ==
  /\ peers[p][id].agreed \cup peers[p][id].heard # {}
  /\ LET other == peers[owner[id]][peers[p][id].mine]
     IN  other.sig = "none" \/ page[owner[id]].at = "closed"

ConnectionFails(p, id) ==
  /\ Orphaned(p, id)
  /\ PeerClosed(p, id)
  /\ UNCHANGED <<serverVars, page, view, presses, faults>>

-----------------------------------------------------------------------------
(* What arrives (useLiveRoom.ts).                                           *)

IdsOf(participants) == {x.id : x \in participants}

Without(shown, id) == {x \in shown : x.id # id}

WithJoined(shown, x) == Without(shown, x.id) \cup {x}

\* Mutant: what is new of somebody is shown beside what was known.
UpdatedBeside(shown, x) == shown \cup {x}

Updated(shown, x) == {IF y.id = x.id THEN x ELSE y : y \in shown}

\* The acknowledgement of room:join, and room:state.
OnState(p, m) ==
  /\ page' = [page EXCEPT ![p].at = IF m.kind = "ack" THEN "on" ELSE @]
  /\ view' = [view EXCEPT ![p] = m.participants]
  /\ peers' = [peers EXCEPT ![p] = ConnectedToAll(p, IdsOf(m.participants))]
  /\ UNCHANGED streams

OnJoined(p, x) ==
  /\ view' = [view EXCEPT ![p] = WithJoined(@, x)]
  /\ peers' = [peers EXCEPT ![p] = ConnectedToAll(p, {x.id})]
  /\ UNCHANGED <<page, streams>>

\* Mutant: the peer connection is left to fail by itself.
OnLeftOpen(p, id) ==
  /\ view' = [view EXCEPT ![p] = Without(@, id)]
  /\ UNCHANGED <<page, peers, streams>>

OnLeft(p, id) ==
  /\ view' = [view EXCEPT ![p] = Without(@, id)]
  /\ PeerClosed(p, id)
  /\ UNCHANGED page

\* hand:accepted sets handAcceptedBy; its effect runs when that is news, and
\* asks for camera and microphone unless the student is on stage already.
OnAccepted(p, from) ==
  /\ page' = [page EXCEPT ![p].accepted = from,
        ![p].asking = IF page[p].accepted # from /\ page[p].main = NoStream THEN @ + 1 ELSE @]
  /\ UNCHANGED <<view, peers, streams>>

OnGone(p, from, stream) ==
  /\ streams' = [streams EXCEPT ![p][from] = @ \ {stream}]
  /\ UNCHANGED <<page, view, peers>>

Deliver(p) ==
  /\ Connected(p)
  /\ inbox[Mine(p)] # <<>>
  /\ LET m == Head(inbox[Mine(p)]) IN
     \/ /\ m.kind = "offer"
        /\ OnOffer(p, m.from, m.sdp)
        /\ UNCHANGED <<page, view>>
     \/ /\ m.kind # "offer"
        /\ inbox' = [inbox EXCEPT ![Mine(p)] = Tail(@)]
        /\ \/ m.kind \in {"ack", "state"} /\ OnState(p, m)
           \/ m.kind = "joined" /\ OnJoined(p, m.about)
           \/ m.kind = "left" /\ OnLeft(p, m.from)
           \/ /\ m.kind = "updated"
              /\ view' = [view EXCEPT ![p] = Updated(@, m.about)]
              /\ UNCHANGED <<page, peers, streams>>
           \/ m.kind = "accepted" /\ OnAccepted(p, m.from)
           \/ /\ m.kind = "rejected"
              /\ page' = [page EXCEPT ![p].accepted = NoSocket]
              /\ UNCHANGED <<view, peers, streams>>
           \/ m.kind = "answer" /\ OnAnswer(p, m.from, m.sdp) /\ UNCHANGED <<page, view>>
           \/ m.kind = "gone" /\ OnGone(p, m.from, m.stream)
  /\ UNCHANGED <<owner, link, room, data, jobs, stale, presses, faults>>

-----------------------------------------------------------------------------
(* Pages that come and go.                                                  *)

\* connectSocket, and room:join as soon as there is a connection.
Connects(p, id) ==
  /\ link[id] = "free"
  /\ link' = [link EXCEPT ![id] = "up"]
  /\ owner' = [owner EXCEPT ![id] = p]
  /\ jobs' = jobs \cup {Job("join", id)}
  /\ page' = [page EXCEPT ![p].at = "connecting", ![p].socket = id]
  /\ UNCHANGED <<room, data, stale, inbox, view, peers, streams, presses, faults>>

\* The first connections have the lower ids, in any order (a bound: a later
\* one could have any).
Visit(p, id) == page[p].at = "away" /\ id <= Cardinality(Pages) /\ Connects(p, id)

\* The same page on a new connection: its mesh and its stage are as they were.
Reconnect(p, id) ==
  /\ page[p].at = "dropped" /\ jobs = {}
  /\ \A k \in Sockets : k <= id <=> (k <= Cardinality(Pages) \/ link[k] # "free" \/ k = id)
  /\ Connects(p, id)

\* A bound: toggles, the opening of the webcam, the closing of a page and a lost
\* connection count for two presses, the closing of a page that joins for three.
Press(n) == presses + n <= MaxPresses /\ presses' = presses + n

\* Everything has arrived.
Quiet ==
  /\ jobs = {}
  /\ \A id \in Sockets : inbox[id] = <<>> /\ link[id] # "lost"
  /\ \A p \in Pages :
       /\ page[p].at \in {"away", "on", "closed"}
       /\ \A id \in Sockets :
            peers[p][id].sig # "answered" /\ ~Needy(peers[p][id]) /\ ~Orphaned(p, id)

\* Nobody waits for anything but a button.
Settled == Quiet /\ \A p \in Pages : page[p].asking = 0

\* Bounds: connections are lost when everything has arrived, missed by the server
\* and opened again when no handler runs; buttons wait until at most one is running,
\* Accept, Reject and LEAVE until none is, and only GO LIVE for nothing.
Unhurried == Cardinality(jobs) <= 1
Idle == jobs = {}

\* The connection breaks; what was on its way is lost.
Drop(p) ==
  /\ Quiet /\ page[p].at = "on"
  /\ Press(2)
  /\ faults < MaxFaults
  /\ faults' = faults + 1
  /\ page' = [page EXCEPT ![p].at = "dropped"]
  /\ link' = [link EXCEPT ![Mine(p)] = "lost"]
  /\ inbox' = [inbox EXCEPT ![Mine(p)] = <<>>]
  /\ UNCHANGED <<owner, room, data, jobs, stale, view, peers, streams>>

\* The page is closed, perhaps while it joins: closeAll, room:leave, disconnect.
Close(p) ==
  /\ Press(IF page[p].at = "on" THEN 2 ELSE 3) /\ Connected(p)
  /\ page' = [page EXCEPT ![p].at = "closed", ![p].main = NoStream, ![p].cams = {}, ![p].asking = 0]
  /\ peers' = [peers EXCEPT ![p] = [id \in Sockets |-> NoPeer]]
  /\ streams' = [streams EXCEPT ![p] = [id \in Sockets |-> {}]]
  /\ link' = [link EXCEPT ![Mine(p)] = "lost"]
  /\ room' = room \ {Mine(p)}
  /\ jobs' = jobs \cup {Job("leave", Mine(p))}
  /\ stale' = Announced(Snapshots, TRUE)
  /\ inbox' = [Sent(inbox, room, LeftMessage(Mine(p))) EXCEPT ![Mine(p)] = <<>>]
  /\ UNCHANGED <<owner, data, view, faults>>

-----------------------------------------------------------------------------
(* Buttons.                                                                 *)

InClass(p) == page[p].at = "on"

Myself(p) == {x \in view[p] : x.id = Mine(p)}

HandShown(p) == \E x \in Myself(p) : x.hand

\* HAND, or CANCEL once the hand is up; LEAVE takes their place on stage.
RaiseHand(p) ==
  /\ Press(1) /\ Unhurried /\ InClass(p) /\ p \notin Teachers
  /\ page[p].main = NoStream
  /\ data' = HandSet(data, Mine(p), ~HandShown(p))
  /\ jobs' = jobs \cup RaiseJobs(Mine(p), ~HandShown(p))
  /\ UNCHANGED <<owner, link, room, stale, inbox, page, view, peers, streams, faults>>

\* Accept and Reject, beside every raised hand.
AnswerHand(p, id, answer) ==
  /\ Press(1) /\ Idle /\ InClass(p) /\ p \in Teachers
  /\ \E x \in view[p] : x.id = id /\ x.hand /\ ~IsTeacher(id)
  /\ jobs' = jobs \cup {[kind |-> answer, id |-> Mine(p), student |-> id]}
  /\ UNCHANGED <<owner, link, room, data, stale, inbox, page, view, peers, streams, faults>>

\* The page of q with stream on stage; a prompt that was open is answered.
Staged(q, stream) ==
  [q EXCEPT !.main = stream, !.used = @ + 1, !.mic = TRUE,
            !.asking = IF @ = 0 THEN 0 ELSE @ - 1]

\* publish(stream), after what was published before.
OnStage(p, stream) ==
  /\ page' = [page EXCEPT ![p] = Staged(@, stream)]
  /\ peers' = [peers EXCEPT ![p] = Publishes(p, stream)]

\* The student is asked, and allows camera and microphone.
Granted(p) ==
  /\ Connected(p) /\ page[p].asking > 0
  /\ OnStage(p, [of |-> p, kind |-> "main", n |-> page[p].used + 1])
  /\ jobs' = jobs \cup ToggleJobs(Mine(p), "on", "on")
  /\ UNCHANGED <<owner, link, room, data, stale, inbox, view, streams, presses, faults>>

Denied(p) ==
  /\ page[p].asking > 0
  /\ page' = [page EXCEPT ![p].asking = @ - 1]
  /\ UNCHANGED <<serverVars, view, peers, streams, presses, faults>>

\* leaveStage: streamGone, raiseHand(false), setMedia(off).
LeaveStage(p) ==
  /\ Press(1) /\ Idle /\ InClass(p) /\ p \notin Teachers
  /\ page[p].main # NoStream
  /\ page' = [page EXCEPT ![p].main = NoStream, ![p].mic = TRUE]
  /\ peers' = [peers EXCEPT ![p] = Silences(p)]
  /\ inbox' = Gone(inbox, Mine(p), page[p].main)
  /\ data' = HandSet(data, Mine(p), FALSE)
  /\ jobs' = jobs \cup RaiseJobs(Mine(p), FALSE) \cup ToggleJobs(Mine(p), "off", "off")
  /\ UNCHANGED <<owner, link, room, stale, view, streams, faults>>

\* toggleMic, of the student on stage and of the teacher that is live.
ToggleMic(p) ==
  /\ Press(2) /\ Unhurried /\ InClass(p)
  /\ page[p].main # NoStream
  /\ page' = [page EXCEPT ![p].mic = ~@]
  /\ jobs' = jobs \cup ToggleJobs(Mine(p), IF page[p].mic THEN "off" ELSE "on", "keep")
  /\ UNCHANGED <<owner, link, room, data, stale, inbox, view, peers, streams, faults>>

\* onStream of the recorder: the screen is published ...
GoLive(p) ==
  /\ Press(1) /\ InClass(p) /\ p \in Teachers
  /\ page[p].main = NoStream
  /\ OnStage(p, [of |-> p, kind |-> "main", n |-> page[p].used + 1])
  /\ UNCHANGED <<serverVars, view, streams, faults>>

\* ... and taken back, when the take ends or cannot begin.
StopLive(p) ==
  /\ Press(1) /\ Unhurried /\ InClass(p) /\ p \in Teachers
  /\ page[p].main # NoStream
  /\ page' = [page EXCEPT ![p].main = NoStream]
  /\ peers' = [peers EXCEPT ![p] = Silences(p)]
  /\ UNCHANGED <<serverVars, view, streams, faults>>

\* The webcam button shows while the teacher is live.
OpenWebcam(p) ==
  /\ Press(2) /\ Unhurried /\ InClass(p) /\ p \in Teachers
  /\ page[p].main # NoStream /\ page[p].cams = {}
  /\ LET cam == [of |-> p, kind |-> "cam", n |-> page[p].used + 1]
     IN  /\ page' = [page EXCEPT ![p] = [@ EXCEPT !.cams = {cam}, !.used = cam.n]]
         /\ peers' = [peers EXCEPT ![p] = Publishes(p, cam)]
  /\ jobs' = jobs \cup ToggleJobs(Mine(p), "keep", "on")
  /\ UNCHANGED <<owner, link, room, data, stale, inbox, view, streams, faults>>

CloseWebcam(p) ==
  /\ Press(1) /\ Unhurried /\ InClass(p)
  /\ \E cam \in page[p].cams :
       /\ page' = [page EXCEPT ![p].cams = {}]
       /\ peers' = [peers EXCEPT ![p] = Removes(p, cam)]
       /\ inbox' = Gone(inbox, Mine(p), cam)
  /\ jobs' = jobs \cup ToggleJobs(Mine(p), "keep", "off")
  /\ UNCHANGED <<owner, link, room, data, stale, view, streams, faults>>

\* The server notices that a connection is gone.
Noticed(id) ==
  /\ Disconnect(id)
  /\ page[owner[id]].at = "closed" \/ jobs = {}
  /\ UNCHANGED pageVars

Button(p) ==
  \/ RaiseHand(p) \/ LeaveStage(p) \/ ToggleMic(p)
  \/ GoLive(p) \/ StopLive(p) \/ OpenWebcam(p) \/ CloseWebcam(p)
  \/ \E id \in Sockets : AnswerHand(p, id, "accept") \/ AnswerHand(p, id, "reject")

Signals(p) ==
  \/ Deliver(p)
  \/ \E id \in Sockets : Negotiate(p, id) \/ AnswerSet(p, id) \/ ConnectionFails(p, id)

PageStep(p) ==
  \/ \E id \in Sockets : Visit(p, id) \/ Reconnect(p, id)
  \/ Drop(p) \/ Close(p) \/ Granted(p) \/ Denied(p)
  \/ Button(p) \/ Signals(p)

Next ==
  \/ (\E j \in jobs : HandlerStep(j)) /\ UNCHANGED pageVars
  \/ \E id \in Sockets : Noticed(id)
  \/ \E p \in Pages : PageStep(p)

Spec == Init /\ [][Next]_vars

-----------------------------------------------------------------------------
(* What the class sees.                                                     *)

Class == {p \in Pages : page[p].at = "on"}

\* Once everything has arrived, and no connection was lost, whatever a page
\* publishes is on every other page of the class, and the stage stream has
\* its picture and sound: whoever joined first, whoever published first, and
\* whatever snapshots said in between; but on a page that ignored the offer of
\* it because it was setting an answer.  (connectTo, setLocalStream,
\* onnegotiationneeded and the offer and answer handlers of rtc.ts.)
MediaReaches ==
  Settled /\ faults = 0 =>
    \A p, q \in Class : p # q =>
       \A m \in Published(page[p]) :
          /\ m.kind = "main" => m \notin peers[p][Mine(q)].mute
          /\ m \in streams[q][Mine(p)] \/ peers[q][Mine(p)].ignored

\* A page of the class waits for an answer for ever only if the other one
\* ignored its offer while it was setting an answer, and has had nothing to offer
\* since; also when both offered at once (the glare rule, rtc.ts:57-65).
NegotiationSettles ==
  Settled /\ faults = 0 =>
    \A p, q \in Class : peers[p][Mine(q)].sig = "offering" => peers[q][Mine(p)].ignored

\* Every page of the class shows those who are in the room, as the server knows
\* them, also after pages closed and connections broke; and if an announcement
\* overtook a snapshot or came too late, again after the next snapshot that
\* nothing overtakes.
ViewsAgree ==
  Settled /\ stale = "no" =>
    \A p \in Class :
       view[p] = {Described(id) : id \in {x \in room : link[x] = "up"}}

\* Nobody is shown with a microphone that no teacher allowed: on stage is who
\* was accepted on this very connection, whatever the page thinks of its
\* stage (the check of media:toggle, and what room:join resets).
ShownMicsAreAllowed ==
  \A p \in Class : \A x \in view[p] : x.mic => data[x.id].pub

\* Once everything has arrived, no page shows a picture of a connection that
\* is gone (room:left closes the peer connection, and nothing that was on its
\* way brings its stream back).
NoPictureOfTheGone ==
  Settled =>
    \A p \in Class, id \in Sockets : streams[p][id] # {} => link[id] = "up"
=============================================================================
