----------------------------- MODULE RoomServer -----------------------------
(***************************************************************************)
(* The presence half of live/server.ts: who is in a classroom's room, what *)
(* is known of each socket (hand, microphone, camera, stage), and what is  *)
(* emitted to whom, in the handlers room:join, room:leave, hand:*,         *)
(* media:*, rtc:* and disconnect.  A handler that awaits the database is a *)
(* job: what it does before its first await happens at once, the rest step *)
(* by step, between the steps of all others.  Attendance rows are in       *)
(* LiveAttendance, chat and questions in RoomFeed.                         *)
(*                                                                         *)
(* An event is handled as soon as it is emitted: a later arrival is a      *)
(* longer first await.  What the server emits waits in the socket's inbox. *)
(***************************************************************************)
EXTENDS Naturals, Sequences, FiniteSets

CONSTANTS
  Pages,    \* browser pages that may join the one classroom
  Teachers, \* those of them whose user teaches the course
  Sockets   \* ids of connections, numbers as socket.io's are strings: ordered

ASSUME ServerAssumption ==
  /\ Pages # {}
  /\ Teachers \subseteq Pages
  /\ Sockets \subseteq Nat \ {0}

VARIABLES
  owner, \* the page a connection belongs to
  link,  \* "free", "up", "lost" (the server does not know yet) or "down"
  room,  \* the sockets in the socket.io room
  data,  \* socket.data
  jobs,  \* handlers that are awaiting something
  stale, \* history: "yes" since something was announced while a snapshot was being
         \* taken, or a hand or an arrival that was no longer so, or somebody went
         \* without a word; "torn" when that befell the snapshot being taken; "no"
         \* again after a snapshot it did not befall
  inbox  \* what was emitted to a socket and has not been handled by its page

serverVars == <<owner, link, room, data, jobs, stale, inbox>>

\* A stage stream ("main", with sound) or a teacher's webcam ("cam").
Stream == [of : Pages, kind : {"main", "cam"}, n : Nat]

Participant == [id : Sockets, hand : BOOLEAN, mic : BOOLEAN, cam : BOOLEAN]

IsTeacher(id) == owner[id] \in Teachers

\* Entering the room, with the microphone on for a teacher.
Entered(id) ==
  [hand |-> FALSE, mic |-> IsTeacher(id), cam |-> FALSE, pub |-> IsTeacher(id), joined |-> TRUE]

Unjoined == [hand |-> FALSE, mic |-> FALSE, cam |-> FALSE, pub |-> FALSE, joined |-> FALSE]

Described(id) ==
  [id |-> id, hand |-> data[id].hand, mic |-> data[id].mic, cam |-> data[id].cam]

ServerInit ==
  /\ owner = [id \in Sockets |-> CHOOSE p \in Pages : TRUE]
  /\ link = [id \in Sockets |-> "free"]
  /\ room = {}
  /\ data = [id \in Sockets |-> Unjoined]
  /\ jobs = {}
  /\ stale = "no"
  /\ inbox = [id \in Sockets |-> <<>>]

-----------------------------------------------------------------------------
(* Emitting.                                                                *)

\* The inboxes after m has been emitted to the sockets of ids.
Sent(box, ids, m) ==
  [id \in Sockets |-> IF id \in ids /\ link[id] = "up" THEN Append(box[id], m) ELSE box[id]]

\* "room:state" or the acknowledgement of room:join.
StateMessage(kind, participants) == [kind |-> kind, participants |-> participants]

\* A message about one socket.
About(kind, participant) == [kind |-> kind, about |-> participant]

LeftMessage(id) == [kind |-> "left", from |-> id]

Job(kind, id) == [kind |-> kind, id |-> id]

\* currentParticipants, from the sockets in the room that are connected: got
\* has been described, rest is still to be read.
Snapshot(id, ack) ==
  [kind |-> "snapshot", id |-> id, ack |-> ack, got |-> {},
   rest |-> {x \in room : link[x] \in {"up", "lost"}}]

Snapshots == {j \in jobs : j.kind = "snapshot"}

\* Job j has done its step, and next goes on for it.
Continues(j, next) ==
  /\ j \in jobs
  /\ jobs' = (jobs \ {j}) \cup next

\* Something is announced, as it is (so) or not, while the snapshots of taking
\* are being taken.
Announced(taking, so) ==
  IF taking # {} THEN "torn" ELSE IF stale = "no" /\ so THEN "no" ELSE "yes"

Announces(j) == stale' = Announced(Snapshots \ {j}, TRUE)

-----------------------------------------------------------------------------
(* room:join.                                                               *)

\* After the checks: what is known of the socket starts anew.  (socket.io lets
\* nobody into a room on a connection that it has closed.)
JoinRoom(j) ==
  /\ j.kind = "join"
  /\ Continues(j, {Job("joined", j.id)})
  /\ data' = [data EXCEPT ![j.id] = Entered(j.id)]
  /\ room' = IF link[j.id] = "down" THEN room ELSE room \cup {j.id}
  /\ UNCHANGED <<owner, link, stale, inbox>>

\* After the attendance row: the others hear of it, and a snapshot is begun.
JoinAnnounced(j) ==
  /\ j.kind = "joined"
  /\ Continues(j, {Snapshot(j.id, TRUE)})
  /\ stale' = Announced(Snapshots, link[j.id] = "up")
  /\ inbox' = Sent(inbox, room \ {j.id}, About("joined", [Described(j.id) EXCEPT !.hand = FALSE]))
  /\ UNCHANGED <<owner, link, room, data>>

\* A snapshot of got has been taken for j: it goes out, and sets right what was
\* stale unless it is so itself.
SnapshotSent(j, got) ==
  /\ Continues(j, {})
  /\ stale' = IF Snapshots \ {j} # {} THEN "torn" ELSE IF stale = "torn" THEN "yes" ELSE "no"
  /\ LET acked == IF j.ack THEN Sent(inbox, {j.id}, StateMessage("ack", got)) ELSE inbox
     IN  inbox' = Sent(acked, room, StateMessage("state", got))

\* One socket's membership has been read: it is described as it is now.
Read(j, x) == [j EXCEPT !.got = @ \cup {Described(x)}, !.rest = @ \ {x}]

\* After the last one the snapshot goes out.  (A socket.io adapter promises no
\* order of the sockets it fetches.)
TakeSnapshot(j) ==
  /\ j.kind = "snapshot"
  /\ \/ j.rest = {} /\ SnapshotSent(j, j.got)
     \/ \E x \in j.rest :
          \/ j.rest = {x} /\ SnapshotSent(j, Read(j, x).got)
          \/ j.rest # {x} /\ Continues(j, {Read(j, x)}) /\ UNCHANGED <<stale, inbox>>
  /\ UNCHANGED <<owner, link, room, data>>

-----------------------------------------------------------------------------
(* Hands and media.                                                         *)

\* hand:raise changes the socket's data before it awaits the membership ...
HandSet(d, id, raised) ==
  IF d[id].joined THEN [d EXCEPT ![id].hand = raised] ELSE d

RaiseJobs(id, raised) ==
  IF data[id].joined THEN {[kind |-> "raise", id |-> id, raised |-> raised]} ELSE {}

\* ... and announces what it was told, with the rest as it is by then.
HandAnnounced(j) ==
  /\ j.kind = "raise"
  /\ Continues(j, {})
  /\ stale' = Announced(Snapshots, data[j.id].hand = j.raised)
  /\ inbox' = Sent(inbox, room, About("updated", [Described(j.id) EXCEPT !.hand = j.raised]))
  /\ UNCHANGED <<owner, link, room, data>>

\* hand:accept puts the student on stage, and the room is told of everyone.
HandAccepted(j) ==
  /\ j.kind = "accept"
  /\ IF ~IsTeacher(j.id)
     THEN Continues(j, {}) /\ UNCHANGED <<data, inbox, stale>>
     ELSE /\ Continues(j, {Snapshot(j.id, FALSE)})
          /\ Announces(j)
          /\ inbox' = Sent(inbox, {j.student}, [kind |-> "accepted", from |-> j.id])
          /\ data' = IF link[j.student] \in {"up", "lost"}
                     THEN [data EXCEPT ![j.student].pub = TRUE, ![j.student].mic = TRUE,
                                       ![j.student].hand = FALSE]
                     ELSE data
  /\ UNCHANGED <<owner, link, room>>

\* hand:reject tells the student, and changes nothing.
HandRejected(j) ==
  /\ j.kind = "reject"
  /\ Continues(j, {})
  /\ inbox' = IF IsTeacher(j.id)
              THEN Sent(inbox, {j.student}, [kind |-> "rejected", from |-> j.id])
              ELSE inbox
  /\ UNCHANGED <<owner, link, room, data, stale>>

Toggle(id, mic, cam) == [kind |-> "toggle", id |-> id, mic |-> mic, cam |-> cam]

ToggleJobs(id, mic, cam) == IF data[id].joined THEN {Toggle(id, mic, cam)} ELSE {}

\* A patch leaves out what it does not set.
Patched(old, new) == IF new = "keep" THEN old ELSE new = "on"

\* Mutant: whoever has a microphone may announce it.
MayToggleAnyone(id) == TRUE

MayToggle(id) == IsTeacher(id) \/ data[id].pub

\* media:toggle, after the membership.
MediaToggled(j) ==
  /\ j.kind = "toggle"
  /\ Continues(j, {})
  /\ IF MayToggle(j.id)
     THEN LET now == [data[j.id] EXCEPT !.mic = Patched(@, j.mic), !.cam = Patched(@, j.cam)]
          IN  /\ Announces(j)
              /\ data' = [data EXCEPT ![j.id] = now]
              /\ inbox' = Sent(inbox, room,
                     About("updated", [id |-> j.id, hand |-> now.hand, mic |-> now.mic, cam |-> now.cam]))
     ELSE UNCHANGED <<data, inbox, stale>>
  /\ UNCHANGED <<owner, link, room>>

\* media:stream-gone and the relays of rtc:offer and rtc:answer await nothing.
Gone(box, id, stream) ==
  IF data[id].joined
  THEN Sent(box, room \ {id}, [kind |-> "gone", from |-> id, stream |-> stream])
  ELSE box

Relayed(kind, from, to, sdp) == Sent(inbox, {to}, [kind |-> kind, from |-> from, sdp |-> sdp])

-----------------------------------------------------------------------------
(* Leaving.                                                                 *)

\* room:leave: out of the room at once, out of the session after an await.
Left(j) ==
  /\ j.kind = "leave"
  /\ Continues(j, {})
  /\ data' = [data EXCEPT ![j.id].joined = FALSE]
  /\ UNCHANGED <<owner, link, room, stale, inbox>>

\* disconnect: socket.io has taken the socket out of its room.  Nobody is told of
\* one that had left, although it may have joined since: a page that was closed
\* while it was joining.
Disconnect(id) ==
  /\ link[id] = "lost"
  /\ link' = [link EXCEPT ![id] = "down"]
  /\ room' = room \ {id}
  /\ jobs' = IF data[id].joined THEN jobs \cup {Job("bye", id)} ELSE jobs
  /\ stale' = IF id \in room /\ ~data[id].joined THEN Announced(Snapshots, FALSE) ELSE stale
  /\ UNCHANGED <<owner, data, inbox>>

\* Mutant: the survivors hear that the socket left, and no more.
ByeForgotten(j) ==
  /\ j.kind = "bye"
  /\ Continues(j, {})
  /\ UNCHANGED <<owner, link, room, data, stale, inbox>>

\* After the attendance row: the survivors hear of it twice.
Bye(j) ==
  /\ j.kind = "bye"
  /\ Continues(j, {Snapshot(j.id, FALSE)})
  /\ Announces(j)
  /\ inbox' = Sent(inbox, room, LeftMessage(j.id))
  /\ UNCHANGED <<owner, link, room, data>>

HandlerStep(j) ==
  \/ JoinRoom(j) \/ JoinAnnounced(j) \/ TakeSnapshot(j)
  \/ HandAnnounced(j) \/ HandAccepted(j) \/ HandRejected(j) \/ MediaToggled(j)
  \/ Left(j) \/ Bye(j)

=============================================================================
