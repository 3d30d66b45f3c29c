--------------------------- MODULE RoomMeshProofs ---------------------------
(***************************************************************************)
(* What is true of a live classroom for any pages, any teachers among      *)
(* them, any number of connections and any number of buttons pressed.      *)
(***************************************************************************)
EXTENDS RoomMesh, SequenceTheorems, TLAPS

-----------------------------------------------------------------------------
(* Types.  Next to TypeOK: what the handlers that await something remember, *)
(* and what is on its way to a page.                                        *)

\* Lists of participants that show nobody twice.
Roster == {S \in SUBSET Participant : \A x, y \in S : x.id = y.id => x = y}

Setting == {"on", "off", "keep"}

PlainJob == [kind : {"join", "joined", "leave", "bye"}, id : Sockets]
SnapshotJob ==
  [kind : {"snapshot"}, id : Sockets, ack : BOOLEAN, got : Roster, rest : SUBSET Sockets]
RaiseJob == [kind : {"raise"}, id : Sockets, raised : BOOLEAN]
AnswerJob == [kind : {"accept", "reject"}, id : Sockets, student : Sockets]
ToggleJob == [kind : {"toggle"}, id : Sockets, mic : Setting, cam : Setting]

Jobs == PlainJob \cup SnapshotJob \cup RaiseJob \cup AnswerJob \cup ToggleJob

ListMessage == [kind : {"ack", "state"}, participants : Roster]
OneMessage == [kind : {"joined", "updated"}, about : Participant]
FromMessage == [kind : {"left", "accepted", "rejected"}, from : Sockets]
Description == [kind : {"offer", "answer"}, from : Sockets, sdp : SUBSET Stream]
GoneMessage == [kind : {"gone"}, from : Sockets, stream : Stream]

Message == ListMessage \cup OneMessage \cup FromMessage \cup Description \cup GoneMessage

DataRow == [hand : BOOLEAN, mic : BOOLEAN, cam : BOOLEAN, pub : BOOLEAN, joined : BOOLEAN]

ServerTypes ==
  /\ owner \in [Sockets -> Pages]
  /\ link \in [Sockets -> {"free", "up", "lost", "down"}]
  /\ room \in SUBSET Sockets
  /\ data \in [Sockets -> DataRow]
  /\ jobs \in SUBSET Jobs
  /\ \A j \in Snapshots, x \in Participant : x \in j.got => x.id \notin j.rest
  /\ stale \in {"no", "yes", "torn"}

MailTypes == inbox \in [Sockets -> Seq(Message)]

PageTypes ==
  /\ page \in [Pages -> Page]
  /\ \A p \in Pages : Connected(p) => Mine(p) \in Sockets
  /\ view \in [Pages -> Roster]
  /\ peers \in [Pages -> [Sockets -> Peer]]
  /\ streams \in [Pages -> [Sockets -> SUBSET Stream]]

Bounds == presses \in 0 .. MaxPresses /\ faults \in 0 .. MaxFaults

TypeInv == ServerTypes /\ MailTypes /\ PageTypes /\ Bounds

LEMMA TypeInvTypes == TypeInv => TypeOK
<1> SUFFICES ASSUME TypeInv PROVE TypeOK
  OBVIOUS
<1>1. view \in [Pages -> SUBSET Participant] /\ \A p \in Pages : \A x, y \in view[p] : x.id = y.id => x = y
  BY DEF TypeInv, PageTypes, Roster
<1> QED
  BY <1>1 DEF TypeInv, TypeOK, ServerTypes, PageTypes, Bounds, DataRow

\* What a job remembers, by its kind.
LEMMA JobFields ==
  ASSUME NEW j \in Jobs
  PROVE  /\ j.id \in Sockets
         /\ j.kind \in {"join", "joined", "leave", "bye"} => j = Job(j.kind, j.id)
         /\ j.kind = "snapshot" => j \in SnapshotJob
         /\ j.kind = "raise" => j.raised \in BOOLEAN
         /\ j.kind \in {"accept", "reject"} => j.student \in Sockets
         /\ j.kind = "toggle" => j.mic \in Setting /\ j.cam \in Setting
<1>1. CASE j \in PlainJob
  BY <1>1 DEF PlainJob, Job
<1>2. CASE j \in SnapshotJob
  BY <1>2 DEF SnapshotJob
<1>3. CASE j \in RaiseJob
  BY <1>3 DEF RaiseJob
<1>4. CASE j \in AnswerJob
  BY <1>4 DEF AnswerJob
<1>5. CASE j \in ToggleJob
  BY <1>5 DEF ToggleJob
<1> QED
  BY <1>1, <1>2, <1>3, <1>4, <1>5 DEF Jobs

LEMMA SnapshotFields ==
  ASSUME NEW j \in Jobs, j.kind = "snapshot"
  PROVE  j.id \in Sockets /\ j.ack \in BOOLEAN /\ j.got \in Roster /\ j.rest \in SUBSET Sockets
BY JobFields DEF SnapshotJob

LEMMA JobsMade ==
  ASSUME NEW id \in Sockets
  PROVE  /\ \A kind \in {"join", "joined", "leave", "bye"} : Job(kind, id) \in Jobs
         /\ \A raised \in BOOLEAN : [kind |-> "raise", id |-> id, raised |-> raised] \in Jobs
         /\ \A kind \in {"accept", "reject"}, student \in Sockets :
              [kind |-> kind, id |-> id, student |-> student] \in Jobs
         /\ \A mic, cam \in Setting : Toggle(id, mic, cam) \in Jobs
BY DEF Jobs, Job, PlainJob, RaiseJob, AnswerJob, ToggleJob, Toggle

LEMMA SnapshotMade ==
  ASSUME ServerTypes, NEW id \in Sockets, NEW ack \in BOOLEAN
  PROVE  /\ Snapshot(id, ack) \in Jobs
         /\ Snapshot(id, ack).kind = "snapshot" /\ Snapshot(id, ack).id = id
         /\ Snapshot(id, ack).ack = ack /\ Snapshot(id, ack).got = {}
         /\ Snapshot(id, ack).rest = {x \in room : link[x] \in {"up", "lost"}}
<1>1. {} \in Roster /\ {x \in room : link[x] \in {"up", "lost"}} \in SUBSET Sockets
  BY DEF Roster, ServerTypes
<1>2. Snapshot(id, ack) \in SnapshotJob
  BY <1>1 DEF Snapshot, SnapshotJob
<1> QED
  BY <1>2 DEF Jobs, Snapshot

\* What a message says, by its kind.
LEMMA MessageFields ==
  ASSUME NEW m \in Message
  PROVE  /\ m.kind \in {"ack", "state", "joined", "updated", "left", "accepted", "rejected",
                        "offer", "answer", "gone"}
         /\ m.kind \in {"ack", "state"} => m.participants \in Roster
         /\ m.kind \in {"joined", "updated"} => m.about \in Participant
         /\ m.kind \in {"left", "accepted", "rejected", "offer", "answer", "gone"} => m.from \in Sockets
         /\ m.kind \in {"offer", "answer"} => m.sdp \in SUBSET Stream
         /\ m.kind = "gone" => m.stream \in Stream
<1>1. CASE m \in ListMessage
  BY <1>1 DEF ListMessage
<1>2. CASE m \in OneMessage
  BY <1>2 DEF OneMessage
<1>3. CASE m \in FromMessage
  BY <1>3 DEF FromMessage
<1>4. CASE m \in Description
  BY <1>4 DEF Description
<1>5. CASE m \in GoneMessage
  BY <1>5 DEF GoneMessage
<1> QED
  BY <1>1, <1>2, <1>3, <1>4, <1>5 DEF Message

LEMMA MessagesMade ==
  /\ \A kind \in {"ack", "state"}, S \in Roster : StateMessage(kind, S) \in Message
  /\ \A kind \in {"joined", "updated"}, x \in Participant : About(kind, x) \in Message
  /\ \A id \in Sockets : LeftMessage(id) \in Message
  /\ \A kind \in {"accepted", "rejected"}, id \in Sockets : [kind |-> kind, from |-> id] \in Message
  /\ \A kind \in {"offer", "answer"}, id \in Sockets, S \in SUBSET Stream :
       [kind |-> kind, from |-> id, sdp |-> S] \in Message
  /\ \A id \in Sockets, stream \in Stream :
       [kind |-> "gone", from |-> id, stream |-> stream] \in Message
<1>1. \A kind \in {"ack", "state"}, S \in Roster : StateMessage(kind, S) \in Message
  BY DEF StateMessage, Message, ListMessage
<1>2. \A kind \in {"joined", "updated"}, x \in Participant : About(kind, x) \in Message
  BY DEF About, Message, OneMessage
<1>3. /\ \A id \in Sockets : LeftMessage(id) \in Message
      /\ \A kind \in {"accepted", "rejected"}, id \in Sockets : [kind |-> kind, from |-> id] \in Message
  BY DEF LeftMessage, Message, FromMessage
<1>4. \A kind \in {"offer", "answer"}, id \in Sockets, S \in SUBSET Stream :
       [kind |-> kind, from |-> id, sdp |-> S] \in Message
  BY DEF Message, Description
<1>5. \A id \in Sockets, stream \in Stream :
       [kind |-> "gone", from |-> id, stream |-> stream] \in Message
  BY DEF Message, GoneMessage
<1> QED
  BY <1>1, <1>2, <1>3, <1>4, <1>5

LEMMA SentTyped ==
  ASSUME NEW box \in [Sockets -> Seq(Message)], NEW ids, NEW m \in Message
  PROVE  Sent(box, ids, m) \in [Sockets -> Seq(Message)]
BY DEF Sent

LEMMA DescribedTyped ==
  ASSUME ServerTypes, NEW id \in Sockets
  PROVE  /\ Described(id) \in Participant /\ Described(id).id = id
         /\ Described(id).hand = data[id].hand /\ Described(id).mic = data[id].mic
         /\ Described(id).cam = data[id].cam
         /\ \A raised \in BOOLEAN :
              /\ [Described(id) EXCEPT !.hand = raised] \in Participant
              /\ [Described(id) EXCEPT !.hand = raised].id = id
              /\ [Described(id) EXCEPT !.hand = raised].hand = raised
              /\ [Described(id) EXCEPT !.hand = raised].mic = data[id].mic
              /\ [Described(id) EXCEPT !.hand = raised].cam = data[id].cam
BY DEF ServerTypes, DataRow, Described, Participant

-----------------------------------------------------------------------------
(* The mesh keeps its types.                                                *)

LEMMA PeerMade ==
  ASSUME NEW c \in Peer, NEW S \in SUBSET Stream, NEW mine \in Sockets \cup {NoSocket}
  PROVE  /\ NoPeer \in Peer
         /\ Ensured(c, mine) \in Peer
         /\ TracksAdded(c, S) \in Peer
<1>1. NoPeer \in Peer
  BY DEF NoPeer, Peer
<1>2. Ensured(c, mine) \in Peer
  BY <1>1 DEF Ensured, Peer, NoPeer
<1>3. TracksAdded(c, S) \in Peer
  BY DEF TracksAdded, Peer
<1> QED
  BY <1>1, <1>2, <1>3

LEMMA PublishedTyped ==
  ASSUME NEW q \in Page
  PROVE  Published(q) \in SUBSET Stream
BY DEF Page, Published

LEMMA ConnectedToTyped ==
  ASSUME NEW c \in Peer, NEW q \in Page
  PROVE  ConnectedTo(c, q) \in Peer
<1>1. q.socket \in Sockets \cup {NoSocket}
  BY DEF Page
<1>2. Ensured(c, q.socket) \in Peer
  BY <1>1, PeerMade
<1> QED
  BY <1>2, PeerMade, PublishedTyped DEF ConnectedTo

LEMMA ConnectedToAllTyped ==
  ASSUME PageTypes, NEW p \in Pages, NEW ids
  PROVE  ConnectedToAll(p, ids) \in [Sockets -> Peer]
BY ConnectedToTyped DEF PageTypes, ConnectedToAll

LEMMA MeshTyped ==
  ASSUME PageTypes, NEW p \in Pages, NEW stream \in Stream
  PROVE  /\ Publishes(p, stream) \in [Sockets -> Peer]
         /\ Silences(p) \in [Sockets -> Peer]
         /\ Removes(p, stream) \in [Sockets -> Peer]
<1>1. Publishes(p, stream) \in [Sockets -> Peer]
  BY PeerMade DEF PageTypes, Publishes
<1>2. ASSUME NEW c \in Peer, NEW S \in SUBSET Stream
      PROVE  [c EXCEPT !.mute = S] \in Peer
  BY DEF Peer
<1>3. \A c \in Peer : c.mute \in SUBSET Stream /\ c.sends \in SUBSET Stream
  BY DEF Peer
<1>4. Silences(p) \in [Sockets -> Peer]
  BY <1>2, <1>3 DEF PageTypes, Silences
<1>5. \A id \in Sockets : peers[p][id] \in Peer
  BY DEF PageTypes
<1>6. ASSUME NEW c \in Peer
      PROVE  [c EXCEPT !.mute = @ \cup ({stream} \cap c.sends)] \in Peer
  <2>1. c.mute \cup ({stream} \cap c.sends) \in SUBSET Stream
    BY <1>3
  <2> QED
    BY <1>2, <2>1
<1>7. Removes(p, stream) \in [Sockets -> Peer]
  BY <1>5, <1>6 DEF Removes
<1> QED
  BY <1>1, <1>4, <1>7

-----------------------------------------------------------------------------
(* Each step keeps the types.                                               *)

LEMMA ContinuesTyped ==
  ASSUME ServerTypes, NEW j, NEW next \in SUBSET Jobs, Continues(j, next),
         \A k \in next, x \in Participant : k.kind = "snapshot" /\ x \in k.got => x.id \notin k.rest
  PROVE  /\ jobs' \in SUBSET Jobs
         /\ \A k \in jobs', x \in Participant :
              k.kind = "snapshot" /\ x \in k.got => x.id \notin k.rest
BY DEF ServerTypes, Continues, Snapshots

LEMMA SnapshotBegun ==
  ASSUME ServerTypes, NEW j \in jobs, NEW id \in Sockets, NEW ack \in BOOLEAN,
         Continues(j, {Snapshot(id, ack)})
  PROVE  /\ jobs' \in SUBSET Jobs
         /\ \A k \in jobs', x \in Participant :
              k.kind = "snapshot" /\ x \in k.got => x.id \notin k.rest
<1>1. {Snapshot(id, ack)} \in SUBSET Jobs /\ Snapshot(id, ack).got = {}
  BY SnapshotMade
<1> QED
  BY <1>1, ContinuesTyped

LEMMA StaleTyped ==
  \A taking : \A so \in BOOLEAN : Announced(taking, so) \in {"no", "yes", "torn"}
BY DEF Announced

LEMMA JoinRoomTypes ==
  ASSUME TypeInv, NEW j \in jobs, JoinRoom(j)
  PROVE  ServerTypes' /\ MailTypes'
<1>1. j.id \in Sockets /\ Job("joined", j.id) \in Jobs
  BY JobFields, JobsMade DEF TypeInv, ServerTypes
<1>2. /\ jobs' \in SUBSET Jobs
      /\ \A k \in jobs', x \in Participant :
              k.kind = "snapshot" /\ x \in k.got => x.id \notin k.rest
  <2>1. Job("joined", j.id).kind # "snapshot"
    BY DEF Job
  <2> QED BY <1>1, <2>1, ContinuesTyped DEF TypeInv, JoinRoom
<1>3. Entered(j.id) \in DataRow
  BY DEF Entered, DataRow, IsTeacher
<1>4. data' \in [Sockets -> DataRow] /\ room' \in SUBSET Sockets
  BY <1>1, <1>3 DEF TypeInv, ServerTypes, JoinRoom
<1> QED
  BY <1>2, <1>4 DEF TypeInv, ServerTypes, MailTypes, JoinRoom, Snapshots

LEMMA JoinAnnouncedTypes ==
  ASSUME TypeInv, NEW j \in jobs, JoinAnnounced(j)
  PROVE  ServerTypes' /\ MailTypes'
<1>1. j.id \in Sockets
  BY JobFields DEF TypeInv, ServerTypes
<1>2. /\ jobs' \in SUBSET Jobs
      /\ \A k \in jobs', x \in Participant :
              k.kind = "snapshot" /\ x \in k.got => x.id \notin k.rest
  BY <1>1, SnapshotBegun DEF TypeInv, JoinAnnounced
<1>3. inbox' \in [Sockets -> Seq(Message)]
  <2>1. [Described(j.id) EXCEPT !.hand = FALSE] \in Participant
    BY <1>1, DescribedTyped DEF TypeInv
  <2>2. About("joined", [Described(j.id) EXCEPT !.hand = FALSE]) \in Message
    BY <2>1, MessagesMade
  <2> QED BY <2>2, SentTyped DEF TypeInv, MailTypes, JoinAnnounced
<1>4. stale' \in {"no", "yes", "torn"}
  BY StaleTyped DEF TypeInv, JoinAnnounced
<1> QED
  BY <1>2, <1>3, <1>4 DEF TypeInv, ServerTypes, MailTypes, JoinAnnounced, Snapshots

LEMMA SnapshotSentTypes ==
  ASSUME TypeInv, NEW j \in jobs, NEW got \in Roster, SnapshotSent(j, got)
  PROVE  /\ jobs' \in SUBSET Jobs
         /\ \A k \in jobs', x \in Participant :
              k.kind = "snapshot" /\ x \in k.got => x.id \notin k.rest
         /\ stale' \in {"no", "yes", "torn"}
         /\ inbox' \in [Sockets -> Seq(Message)]
<1>1. /\ jobs' \in SUBSET Jobs
      /\ \A k \in jobs', x \in Participant :
           k.kind = "snapshot" /\ x \in k.got => x.id \notin k.rest
  BY ContinuesTyped DEF TypeInv, SnapshotSent
<1>2. stale' \in {"no", "yes", "torn"}
  BY DEF SnapshotSent
<1>3. inbox' \in [Sockets -> Seq(Message)]
  <2>1. StateMessage("ack", got) \in Message /\ StateMessage("state", got) \in Message
    BY MessagesMade
  <2>2. PICK acked : /\ acked = IF j.ack THEN Sent(inbox, {j.id}, StateMessage("ack", got)) ELSE inbox
                     /\ inbox' = Sent(acked, room, StateMessage("state", got))
    BY DEF SnapshotSent
  <2>3. acked \in [Sockets -> Seq(Message)]
    BY <2>1, <2>2, SentTyped DEF TypeInv, MailTypes
  <2> QED BY <2>1, <2>2, <2>3, SentTyped
<1> QED
  BY <1>1, <1>2, <1>3

\* What one more description makes of a snapshot.
LEMMA GotMore ==
  ASSUME TypeInv, NEW j \in jobs, j.kind = "snapshot", NEW x \in j.rest
  PROVE  /\ x \in Sockets
         /\ j.got \cup {Described(x)} \in Roster
         /\ \A y \in Participant : y \in j.got \cup {Described(x)} => y.id \notin j.rest \ {x}
<1>1. j \in Jobs /\ j \in Snapshots
  BY DEF TypeInv, ServerTypes, Snapshots
<1>2. j.got \in Roster /\ j.rest \in SUBSET Sockets
  BY <1>1, SnapshotFields
<1>3. x \in Sockets /\ Described(x) \in Participant /\ Described(x).id = x
  BY <1>2, DescribedTyped DEF TypeInv
<1>4. \A y \in Participant : y \in j.got => y.id \notin j.rest
  BY <1>1 DEF TypeInv, ServerTypes
<1>5. \A y \in j.got : y \in Participant /\ y.id # x
  BY <1>2, <1>4 DEF Roster
<1>6. j.got \cup {Described(x)} \in Roster
  BY <1>2, <1>3, <1>5 DEF Roster
<1> QED
  BY <1>3, <1>4, <1>6

LEMMA ReadMore ==
  ASSUME TypeInv, NEW j \in jobs, j.kind = "snapshot", NEW x \in j.rest
  PROVE  /\ Read(j, x) \in Jobs /\ Read(j, x).kind = "snapshot"
         /\ Read(j, x).id = j.id /\ Read(j, x).ack = j.ack
         /\ Read(j, x).got = j.got \cup {Described(x)} /\ Read(j, x).rest = j.rest \ {x}
         /\ Read(j, x).got \in Roster
<1>1. j \in SnapshotJob
  BY JobFields DEF TypeInv, ServerTypes
<1>2. j.got \cup {Described(x)} \in Roster /\ j.rest \ {x} \in SUBSET Sockets
  BY <1>1, GotMore DEF SnapshotJob
<1>3. /\ Read(j, x) \in SnapshotJob /\ Read(j, x).id = j.id /\ Read(j, x).ack = j.ack
      /\ Read(j, x).kind = "snapshot" /\ Read(j, x).got = j.got \cup {Described(x)}
      /\ Read(j, x).rest = j.rest \ {x}
  BY <1>1, <1>2 DEF SnapshotJob, Read
<1> QED
  BY <1>2, <1>3 DEF Jobs

LEMMA TakeSnapshotTypes ==
  ASSUME TypeInv, NEW j \in jobs, TakeSnapshot(j)
  PROVE  ServerTypes' /\ MailTypes'
<1>1. j.kind = "snapshot" /\ j \in Jobs /\ j.got \in Roster
  BY SnapshotFields DEF TakeSnapshot, TypeInv, ServerTypes
<1>2. /\ jobs' \in SUBSET Jobs
      /\ \A k \in jobs', x \in Participant :
              k.kind = "snapshot" /\ x \in k.got => x.id \notin k.rest
      /\ stale' \in {"no", "yes", "torn"}
      /\ inbox' \in [Sockets -> Seq(Message)]
  <2>1. CASE j.rest = {} /\ SnapshotSent(j, j.got)
    BY <1>1, <2>1, SnapshotSentTypes
  <2>2. ASSUME NEW x \in j.rest, SnapshotSent(j, Read(j, x).got)
        PROVE  <1>2!1 /\ <1>2!2 /\ <1>2!3 /\ <1>2!4
    BY <1>1, <2>2, ReadMore, SnapshotSentTypes
  <2>3. ASSUME NEW x \in j.rest, UNCHANGED <<stale, inbox>>, Continues(j, {Read(j, x)})
        PROVE  <1>2!1 /\ <1>2!2 /\ <1>2!3 /\ <1>2!4
    <3>1. \A y \in Participant : y \in Read(j, x).got => y.id \notin Read(j, x).rest
      BY <1>1, ReadMore, GotMore
    <3>2. Read(j, x) \in Jobs
      BY <1>1, ReadMore
    <3> QED
      BY <2>3, <3>1, <3>2, ContinuesTyped DEF TypeInv, ServerTypes, MailTypes
  <2> QED
    BY <2>1, <2>2, <2>3 DEF TakeSnapshot
<1> QED
  BY <1>2 DEF TypeInv, ServerTypes, MailTypes, TakeSnapshot, Snapshots

LEMMA HandAnnouncedTypes ==
  ASSUME TypeInv, NEW j \in jobs, HandAnnounced(j)
  PROVE  ServerTypes' /\ MailTypes'
<1>1. j.id \in Sockets /\ j.raised \in BOOLEAN
  BY JobFields DEF TypeInv, ServerTypes, HandAnnounced
<1>2. /\ jobs' \in SUBSET Jobs
      /\ \A k \in jobs', x \in Participant :
              k.kind = "snapshot" /\ x \in k.got => x.id \notin k.rest
  BY ContinuesTyped DEF TypeInv, HandAnnounced
<1>3. inbox' \in [Sockets -> Seq(Message)]
  <2>1. [Described(j.id) EXCEPT !.hand = j.raised] \in Participant
    BY <1>1, DescribedTyped DEF TypeInv
  <2>2. About("updated", [Described(j.id) EXCEPT !.hand = j.raised]) \in Message
    BY <2>1, MessagesMade
  <2> QED BY <2>2, SentTyped DEF TypeInv, MailTypes, HandAnnounced
<1>4. stale' \in {"no", "yes", "torn"}
  BY StaleTyped DEF TypeInv, HandAnnounced
<1> QED
  BY <1>2, <1>3, <1>4 DEF TypeInv, ServerTypes, MailTypes, HandAnnounced, Snapshots

LEMMA HandAcceptedTypes ==
  ASSUME TypeInv, NEW j \in jobs, HandAccepted(j)
  PROVE  ServerTypes' /\ MailTypes'
<1>1. j.id \in Sockets /\ j.student \in Sockets
  BY JobFields DEF TypeInv, ServerTypes, HandAccepted
<1>2. /\ jobs' \in SUBSET Jobs
      /\ \A k \in jobs', x \in Participant :
              k.kind = "snapshot" /\ x \in k.got => x.id \notin k.rest
  <2>1. CASE IsTeacher(j.id)
    BY <1>1, <2>1, SnapshotBegun DEF TypeInv, HandAccepted
  <2>2. CASE ~IsTeacher(j.id)
    BY <2>2, ContinuesTyped DEF TypeInv, HandAccepted
  <2> QED BY <2>1, <2>2
<1>3. inbox' \in [Sockets -> Seq(Message)]
  <2>1. [kind |-> "accepted", from |-> j.id] \in Message
    BY <1>1, MessagesMade
  <2> QED BY <2>1, SentTyped DEF TypeInv, MailTypes, HandAccepted
<1>4. stale' \in {"no", "yes", "torn"}
  BY StaleTyped DEF TypeInv, ServerTypes, HandAccepted, Announces
<1>5. data' \in [Sockets -> DataRow]
  <2>1. \A d \in DataRow : [d EXCEPT !.pub = TRUE, !.mic = TRUE, !.hand = FALSE] \in DataRow
    BY DEF DataRow
  <2>2. data[j.student] \in DataRow
    BY <1>1 DEF TypeInv, ServerTypes
  <2>3. CASE data' = data
    BY <2>3 DEF TypeInv, ServerTypes
  <2>4. CASE data' = [data EXCEPT ![j.student] =
                        [data[j.student] EXCEPT !.pub = TRUE, !.mic = TRUE, !.hand = FALSE]]
    BY <2>1, <2>2, <2>4 DEF TypeInv, ServerTypes
  <2> QED BY <2>3, <2>4 DEF HandAccepted
<1> QED
  BY <1>2, <1>3, <1>4, <1>5 DEF TypeInv, ServerTypes, MailTypes, HandAccepted, Snapshots

LEMMA HandRejectedTypes ==
  ASSUME TypeInv, NEW j \in jobs, HandRejected(j)
  PROVE  ServerTypes' /\ MailTypes'
<1>1. j.id \in Sockets /\ j.student \in Sockets
  BY JobFields DEF TypeInv, ServerTypes, HandRejected
<1>2. /\ jobs' \in SUBSET Jobs
      /\ \A k \in jobs', x \in Participant :
              k.kind = "snapshot" /\ x \in k.got => x.id \notin k.rest
  BY ContinuesTyped DEF TypeInv, HandRejected
<1>3. inbox' \in [Sockets -> Seq(Message)]
  <2>1. [kind |-> "rejected", from |-> j.id] \in Message
    BY <1>1, MessagesMade
  <2> QED BY <2>1, SentTyped DEF TypeInv, MailTypes, HandRejected
<1> QED
  BY <1>2, <1>3 DEF TypeInv, ServerTypes, MailTypes, HandRejected, Snapshots

\* What media:toggle makes of a socket's data, and what it announces.
LEMMA ToggledTyped ==
  ASSUME TypeInv, NEW j \in jobs, j.kind = "toggle", NEW now,
         now = [data[j.id] EXCEPT !.mic = Patched(@, j.mic), !.cam = Patched(@, j.cam)]
  PROVE  /\ j.id \in Sockets /\ now \in DataRow
         /\ now.hand = data[j.id].hand /\ now.pub = data[j.id].pub /\ now.joined = data[j.id].joined
         /\ [id |-> j.id, hand |-> now.hand, mic |-> now.mic, cam |-> now.cam] \in Participant
<1>1. j.id \in Sockets /\ data[j.id] \in DataRow
  BY JobFields DEF TypeInv, ServerTypes
<1>2. PICK mic : mic = Patched(data[j.id].mic, j.mic)
  OBVIOUS
<1>3. PICK cam : cam = Patched(data[j.id].cam, j.cam)
  OBVIOUS
<1>4. mic \in BOOLEAN /\ cam \in BOOLEAN
  BY <1>1, <1>2, <1>3 DEF Patched, DataRow
<1>5. now = [data[j.id] EXCEPT !.mic = mic, !.cam = cam]
  BY <1>1, <1>2, <1>3 DEF DataRow
<1> QED
  BY <1>1, <1>4, <1>5 DEF DataRow, Participant

LEMMA MediaToggledTypes ==
  ASSUME TypeInv, NEW j \in jobs, MediaToggled(j)
  PROVE  ServerTypes' /\ MailTypes'
<1>1. /\ jobs' \in SUBSET Jobs
      /\ \A k \in jobs', x \in Participant :
              k.kind = "snapshot" /\ x \in k.got => x.id \notin k.rest
  BY ContinuesTyped DEF TypeInv, MediaToggled
<1>2. stale' \in {"no", "yes", "torn"} /\ data' \in [Sockets -> DataRow] /\ inbox' \in [Sockets -> Seq(Message)]
  <2>1. CASE ~MayToggle(j.id)
    BY <2>1 DEF TypeInv, ServerTypes, MailTypes, MediaToggled
  <2>2. CASE MayToggle(j.id)
    <3>1. PICK now :
            /\ now = [data[j.id] EXCEPT !.mic = Patched(@, j.mic), !.cam = Patched(@, j.cam)]
            /\ Announces(j) /\ data' = [data EXCEPT ![j.id] = now]
            /\ inbox' = Sent(inbox, room,
                 About("updated", [id |-> j.id, hand |-> now.hand, mic |-> now.mic, cam |-> now.cam]))
      BY <2>2 DEF MediaToggled
    <3>2. /\ j.id \in Sockets /\ now \in DataRow
          /\ [id |-> j.id, hand |-> now.hand, mic |-> now.mic, cam |-> now.cam] \in Participant
      BY <3>1, ToggledTyped DEF MediaToggled
    <3>3. About("updated", [id |-> j.id, hand |-> now.hand, mic |-> now.mic, cam |-> now.cam]) \in Message
      BY <3>2, MessagesMade
    <3> QED
      BY <3>1, <3>2, <3>3, StaleTyped, SentTyped DEF TypeInv, ServerTypes, MailTypes, Announces
  <2> QED BY <2>1, <2>2
<1> QED
  BY <1>1, <1>2 DEF TypeInv, ServerTypes, MailTypes, MediaToggled, Snapshots

LEMMA LeftTypes ==
  ASSUME TypeInv, NEW j \in jobs, Left(j)
  PROVE  ServerTypes' /\ MailTypes'
<1>1. /\ jobs' \in SUBSET Jobs
      /\ \A k \in jobs', x \in Participant :
              k.kind = "snapshot" /\ x \in k.got => x.id \notin k.rest
  BY ContinuesTyped DEF TypeInv, Left
<1>2. data' \in [Sockets -> DataRow]
  BY DEF TypeInv, ServerTypes, DataRow, Left
<1> QED
  BY <1>1, <1>2 DEF TypeInv, ServerTypes, MailTypes, Left, Snapshots

LEMMA ByeTypes ==
  ASSUME TypeInv, NEW j \in jobs, Bye(j)
  PROVE  ServerTypes' /\ MailTypes'
<1>1. j.id \in Sockets /\ LeftMessage(j.id) \in Message
  BY JobFields, MessagesMade DEF TypeInv, ServerTypes
<1>2. /\ jobs' \in SUBSET Jobs
      /\ \A k \in jobs', x \in Participant :
              k.kind = "snapshot" /\ x \in k.got => x.id \notin k.rest
  BY <1>1, SnapshotBegun DEF TypeInv, Bye
<1>3. stale' \in {"no", "yes", "torn"} /\ inbox' \in [Sockets -> Seq(Message)]
  BY <1>1, StaleTyped, SentTyped DEF TypeInv, MailTypes, Bye, Announces
<1> QED
  BY <1>2, <1>3 DEF TypeInv, ServerTypes, MailTypes, Bye, Snapshots

LEMMA PagesStill ==
  ASSUME PageTypes, Bounds, UNCHANGED pageVars
  PROVE  PageTypes' /\ Bounds'
BY DEF PageTypes, Bounds, pageVars, Mine, Connected

LEMMA HandlerTypes ==
  ASSUME TypeInv, NEW j \in jobs, HandlerStep(j), UNCHANGED pageVars
  PROVE  TypeInv'
<1>1. ServerTypes' /\ MailTypes'
  BY JoinRoomTypes, JoinAnnouncedTypes, TakeSnapshotTypes, HandAnnouncedTypes, HandAcceptedTypes,
     HandRejectedTypes, MediaToggledTypes, LeftTypes, ByeTypes DEF HandlerStep
<1> QED
  BY <1>1, PagesStill DEF TypeInv

\* More jobs, none of them a snapshot.
LEMMA JobsAdded ==
  ASSUME ServerTypes, NEW more \in SUBSET Jobs, jobs' = jobs \cup more,
         \A k \in more : k.kind # "snapshot"
  PROVE  /\ jobs' \in SUBSET Jobs
         /\ Snapshots' = Snapshots
         /\ \A k \in jobs', x \in Participant :
              k.kind = "snapshot" /\ x \in k.got => x.id \notin k.rest
BY DEF ServerTypes, Snapshots

LEMMA NoticedTypes ==
  ASSUME TypeInv, NEW id \in Sockets, Noticed(id)
  PROVE  TypeInv'
<1>1. /\ jobs' \in SUBSET Jobs
      /\ \A k \in jobs', x \in Participant :
              k.kind = "snapshot" /\ x \in k.got => x.id \notin k.rest
  <2>1. PICK more : more = IF data[id].joined THEN {Job("bye", id)} ELSE {}
    OBVIOUS
  <2>2. Job("bye", id) \in Jobs /\ Job("bye", id).kind # "snapshot"
    BY JobsMade DEF Job
  <2>3. more \in SUBSET Jobs /\ \A k \in more : k.kind # "snapshot"
    BY <2>1, <2>2
  <2>4. jobs' = jobs \cup more
    BY <2>1 DEF Noticed, Disconnect
  <2> QED BY <2>3, <2>4, JobsAdded DEF TypeInv
<1>2. ServerTypes'
  <2>1. stale' \in {"no", "yes", "torn"}
    BY StaleTyped DEF Noticed, Disconnect, TypeInv, ServerTypes
  <2> QED BY <1>1, <2>1 DEF TypeInv, ServerTypes, Noticed, Disconnect, Snapshots
<1>3. UNCHANGED <<pageVars, inbox>>
  BY DEF Noticed, Disconnect
<1> QED
  BY <1>2, <1>3, PagesStill DEF TypeInv, MailTypes

\* What is first in a page's inbox.
LEMMA HeadTyped ==
  ASSUME TypeInv, NEW p \in Pages, Connected(p), inbox[Mine(p)] # <<>>
  PROVE  /\ Mine(p) \in Sockets
         /\ Head(inbox[Mine(p)]) \in Message
         /\ \A box \in [Sockets -> Seq(Message)] :
              box[Mine(p)] # <<>> => [box EXCEPT ![Mine(p)] = Tail(@)] \in [Sockets -> Seq(Message)]
         /\ [inbox EXCEPT ![Mine(p)] = Tail(@)] \in [Sockets -> Seq(Message)]
BY DEF TypeInv, MailTypes, PageTypes

LEMMA RosterWays ==
  ASSUME NEW S \in Roster
  PROVE  /\ \A id : Without(S, id) \in Roster
         /\ \A x \in Participant : WithJoined(S, x) \in Roster /\ Updated(S, x) \in Roster
<1>1. \A id : Without(S, id) \in Roster
  BY DEF Without, Roster
<1>2. ASSUME NEW x \in Participant
      PROVE  WithJoined(S, x) \in Roster /\ Updated(S, x) \in Roster
  <2>1. WithJoined(S, x) \in Roster
    BY DEF WithJoined, Without, Roster
  <2>2. Updated(S, x) \in SUBSET Participant
    BY DEF Updated, Roster
  <2>3. \A y, z \in Updated(S, x) : y.id = z.id => y = z
    BY DEF Updated, Roster
  <2> QED BY <2>1, <2>2, <2>3 DEF Roster
<1> QED
  BY <1>1, <1>2

\* Changing a page leaves its type, if the changes do.
LEMMA PageChanged ==
  ASSUME PageTypes, NEW p \in Pages, NEW q \in Page, page' = [page EXCEPT ![p] = q],
         q.at \in {"connecting", "on"} => q.socket \in Sockets
  PROVE  page' \in [Pages -> Page] /\ \A r \in Pages : Connected(r)' => Mine(r)' \in Sockets
BY DEF PageTypes, Connected, Mine

LEMMA OnOfferTypes ==
  ASSUME TypeInv, NEW p \in Pages, Connected(p), inbox[Mine(p)] # <<>>,
         NEW id \in Sockets, NEW offered \in SUBSET Stream, OnOffer(p, id, offered)
  PROVE  /\ peers' \in [Pages -> [Sockets -> Peer]]
         /\ streams' \in [Pages -> [Sockets -> SUBSET Stream]]
         /\ inbox' \in [Sockets -> Seq(Message)]
<1>1. CASE UNCHANGED <<peers, streams>> /\ inbox' = [inbox EXCEPT ![Mine(p)] = Tail(@)]
  BY <1>1, HeadTyped DEF TypeInv, PageTypes
<1>2. ASSUME NEW c, c = Ensured(peers[p][id], Mine(p)), NEW mine, mine = TracksAdded(c, Published(page[p])),
             NEW answered \in SUBSET mine.sends,
             peers' = [peers EXCEPT ![p][id] =
                         [mine EXCEPT !.sig = "stable", !.mine = Mine(p), !.offered = {},
                                      !.heard = @ \cup offered, !.agreed = answered,
                                      !.ignored = FALSE]],
             inbox' = [Relayed("answer", Mine(p), id, answered) EXCEPT ![Mine(p)] = Tail(@)],
             streams' = [streams EXCEPT ![p][id] = ShownAfter(@, offered, c)]
      PROVE  /\ peers' \in [Pages -> [Sockets -> Peer]]
             /\ streams' \in [Pages -> [Sockets -> SUBSET Stream]]
             /\ inbox' \in [Sockets -> Seq(Message)]
  <2>1. Mine(p) \in Sockets /\ peers[p][id] \in Peer /\ page[p] \in Page
    BY HeadTyped DEF TypeInv, PageTypes
  <2>2. c \in Peer /\ mine \in Peer /\ answered \in SUBSET Stream
    <3>1. c \in Peer
      BY <1>2, <2>1, PeerMade
    <3>2. mine \in Peer
      BY <1>2, <2>1, <3>1, PeerMade, PublishedTyped
    <3> QED BY <3>1, <3>2 DEF Peer
  <2>3. [mine EXCEPT !.sig = "stable", !.mine = Mine(p), !.offered = {},
                     !.heard = @ \cup offered, !.agreed = answered, !.ignored = FALSE] \in Peer
    BY <2>1, <2>2 DEF Peer
  <2>4. peers' \in [Pages -> [Sockets -> Peer]]
    BY <1>2, <2>3 DEF TypeInv, PageTypes
  <2>5. streams' \in [Pages -> [Sockets -> SUBSET Stream]]
    BY <1>2 DEF TypeInv, PageTypes, ShownAfter
  <2>6. inbox' \in [Sockets -> Seq(Message)]
    <3>1. PICK m : m = [kind |-> "answer", from |-> Mine(p), sdp |-> answered]
      OBVIOUS
    <3>2. m \in Message
      BY <2>1, <2>2, <3>1, MessagesMade
    <3>3. PICK box : box = Sent(inbox, {id}, m)
      OBVIOUS
    <3>4. box \in [Sockets -> Seq(Message)] /\ box[Mine(p)] # <<>>
      BY <2>1, <3>2, <3>3, SentTyped DEF Sent, TypeInv, MailTypes
    <3>5. inbox' = [box EXCEPT ![Mine(p)] = Tail(@)]
      BY <1>2, <3>1, <3>3 DEF Relayed
    <3> QED BY <3>4, <3>5, HeadTyped
  <2> QED
    BY <2>4, <2>5, <2>6
<1>3. ASSUME NEW behind \in BOOLEAN, peers' = [peers EXCEPT ![p][id].ignored = behind],
             UNCHANGED streams, inbox' = [inbox EXCEPT ![Mine(p)] = Tail(@)]
      PROVE  /\ peers' \in [Pages -> [Sockets -> Peer]]
             /\ streams' \in [Pages -> [Sockets -> SUBSET Stream]]
             /\ inbox' \in [Sockets -> Seq(Message)]
  <2>1. \A c \in Peer : [c EXCEPT !.ignored = behind] \in Peer
    BY DEF Peer
  <2>2. peers' = [peers EXCEPT ![p] = [peers[p] EXCEPT ![id] = [peers[p][id] EXCEPT !.ignored = behind]]]
    BY <1>3
  <2>3. peers' \in [Pages -> [Sockets -> Peer]]
    <3>1. peers[p][id] \in Peer
      BY DEF TypeInv, PageTypes
    <3>2. [peers[p][id] EXCEPT !.ignored = behind] \in Peer
      BY <2>1, <3>1
    <3> QED BY <2>2, <3>2 DEF TypeInv, PageTypes
  <2> QED
    BY <1>3, <2>3, HeadTyped DEF TypeInv, PageTypes
<1>4. \A c : (c.sig = "answered") \in BOOLEAN
  OBVIOUS
<1> QED
  BY <1>1, <1>2, <1>3, <1>4 DEF OnOffer

LEMMA OnAnswerTypes ==
  ASSUME TypeInv, NEW p \in Pages, Connected(p), NEW id \in Sockets,
         NEW answered \in SUBSET Stream, OnAnswer(p, id, answered)
  PROVE  /\ peers' \in [Pages -> [Sockets -> Peer]]
         /\ streams' \in [Pages -> [Sockets -> SUBSET Stream]]
<1>1. CASE UNCHANGED <<peers, streams>>
  BY <1>1 DEF TypeInv, PageTypes
<1>2. ASSUME NEW c, c = peers[p][id], UNCHANGED streams,
             peers' = [peers EXCEPT ![p][id] = [c EXCEPT !.sig = "answered", !.mine = Mine(p), !.reply = answered]]
      PROVE  /\ peers' \in [Pages -> [Sockets -> Peer]]
             /\ streams' \in [Pages -> [Sockets -> SUBSET Stream]]
  <2>1. c \in Peer /\ Mine(p) \in Sockets
    BY <1>2 DEF TypeInv, PageTypes
  <2>2. [c EXCEPT !.sig = "answered", !.mine = Mine(p), !.reply = answered] \in Peer
    BY <2>1 DEF Peer
  <2> QED
    BY <1>2, <2>2 DEF TypeInv, PageTypes
<1> QED
  BY <1>1, <1>2 DEF OnAnswer

LEMMA AnsweredTyped ==
  ASSUME NEW c \in Peer
  PROVE  Answered(c) \in Peer
BY DEF Answered, Peer

LEMMA AnswerSetTypes ==
  ASSUME TypeInv, NEW p \in Pages, NEW id \in Sockets, AnswerSet(p, id)
  PROVE  TypeInv'
<1>1. PICK c \in Peer : c = peers[p][id]
  BY DEF TypeInv, PageTypes
<1>3. Answered(c) \in Peer /\ c.reply \in SUBSET Stream
  BY AnsweredTyped DEF Peer
<1>4. /\ peers' = [peers EXCEPT ![p][id] = Answered(c)]
      /\ streams' = [streams EXCEPT ![p][id] = ShownAfter(@, c.reply, c)]
  BY <1>1 DEF AnswerSet
<1>5. peers' \in [Pages -> [Sockets -> Peer]]
  BY <1>3, <1>4 DEF TypeInv, PageTypes
<1>6. streams' \in [Pages -> [Sockets -> SUBSET Stream]]
  BY <1>3, <1>4 DEF TypeInv, PageTypes, ShownAfter
<1>7. UNCHANGED <<serverVars, page, view, presses, faults>>
  BY DEF AnswerSet
<1> QED
  BY <1>5, <1>6, <1>7 DEF TypeInv, ServerTypes, MailTypes, PageTypes, Bounds, serverVars, Snapshots,
     Connected, Mine

LEMMA PeerClosedTypes ==
  ASSUME PageTypes, NEW p \in Pages, NEW id \in Sockets, PeerClosed(p, id)
  PROVE  /\ peers' \in [Pages -> [Sockets -> Peer]]
         /\ streams' \in [Pages -> [Sockets -> SUBSET Stream]]
<1>1. NoPeer \in Peer
  BY DEF NoPeer, Peer
<1> QED
  BY <1>1 DEF PageTypes, PeerClosed

LEMMA OnStateTypes ==
  ASSUME TypeInv, NEW p \in Pages, Connected(p), NEW m \in Message,
         m.kind \in {"ack", "state"}, OnState(p, m)
  PROVE  PageTypes'
<1>1. m.participants \in Roster
  BY MessageFields
<1>2. view' \in [Pages -> Roster] /\ peers' \in [Pages -> [Sockets -> Peer]]
  BY <1>1, ConnectedToAllTyped DEF TypeInv, PageTypes, OnState
<1>3. PICK at : at = IF m.kind = "ack" THEN "on" ELSE page[p].at
  OBVIOUS
<1>4. PICK q : q = [page[p] EXCEPT !.at = at]
  OBVIOUS
<1>5. at \in {"away", "connecting", "on", "dropped", "closed"} /\ page[p] \in Page
  BY <1>3 DEF TypeInv, PageTypes, Page
<1>6. q \in Page /\ q.socket \in Sockets
  BY <1>4, <1>5 DEF TypeInv, PageTypes, Page, Mine
<1>7. page' = [page EXCEPT ![p] = q]
  BY <1>3, <1>4, <1>5 DEF OnState, TypeInv, PageTypes
<1> QED
  BY <1>2, <1>6, <1>7, PageChanged DEF TypeInv, PageTypes, OnState

LEMMA OnAcceptedTypes ==
  ASSUME TypeInv, NEW p \in Pages, Connected(p), NEW from \in Sockets, OnAccepted(p, from)
  PROVE  PageTypes'
<1>1. PICK asking : asking = IF page[p].accepted # from /\ page[p].main = NoStream
                             THEN page[p].asking + 1 ELSE page[p].asking
  OBVIOUS
<1>2. PICK q : q = [page[p] EXCEPT !.accepted = from, !.asking = asking]
  OBVIOUS
<1>3. asking \in Nat /\ page[p] \in Page
  BY <1>1 DEF TypeInv, PageTypes, Page
<1>4. q \in Page /\ q.socket \in Sockets
  BY <1>2, <1>3 DEF TypeInv, PageTypes, Page, Mine
<1>5. page' = [page EXCEPT ![p] = q]
  BY <1>1, <1>2, <1>3 DEF OnAccepted, TypeInv, PageTypes
<1> QED
  BY <1>4, <1>5, PageChanged DEF TypeInv, PageTypes, OnAccepted

LEMMA DeliverTypes ==
  ASSUME TypeInv, NEW p \in Pages, Deliver(p)
  PROVE  TypeInv'
<1> DEFINE m == Head(inbox[Mine(p)])
<1>1. Connected(p) /\ inbox[Mine(p)] # <<>>
  BY DEF Deliver
<1>2. Mine(p) \in Sockets /\ m \in Message
  BY <1>1, HeadTyped
<1>3. ServerTypes' /\ Bounds'
  BY DEF Deliver, TypeInv, ServerTypes, Bounds, Snapshots
<1> SUFFICES MailTypes' /\ PageTypes'
  BY <1>3 DEF TypeInv
<1> HIDE DEF m
<1>4. CASE m.kind = "offer"
  <2>1. OnOffer(p, m.from, m.sdp) /\ UNCHANGED <<page, view>>
    BY <1>4 DEF Deliver, m
  <2>2. m.from \in Sockets /\ m.sdp \in SUBSET Stream
    BY <1>2, <1>4, MessageFields
  <2> QED
    BY <1>1, <2>1, <2>2, OnOfferTypes DEF TypeInv, MailTypes, PageTypes, Connected, Mine
<1>5. CASE m.kind # "offer"
  <2>1. inbox' = [inbox EXCEPT ![Mine(p)] = Tail(@)]
    BY <1>5 DEF Deliver, m
  <2>2. MailTypes'
    BY <1>1, <2>1, HeadTyped DEF MailTypes
  <2>3. CASE m.kind \in {"ack", "state"} /\ OnState(p, m)
    BY <1>1, <1>2, <2>2, <2>3, OnStateTypes
  <2>4. CASE m.kind = "joined" /\ OnJoined(p, m.about)
    <3>1. m.about \in Participant
      BY <1>2, <2>4, MessageFields
    <3> QED
      BY <2>2, <2>4, <3>1, RosterWays, ConnectedToAllTyped DEF TypeInv, PageTypes, OnJoined, Connected, Mine
  <2>5. CASE m.kind = "left" /\ OnLeft(p, m.from)
    <3>1. m.from \in Sockets
      BY <1>2, <2>5, MessageFields
    <3> QED
      BY <2>2, <2>5, <3>1, RosterWays, PeerClosedTypes DEF TypeInv, PageTypes, OnLeft, Connected, Mine
  <2>6. CASE m.kind = "updated" /\ view' = [view EXCEPT ![p] = Updated(@, m.about)] /\ UNCHANGED <<page, peers, streams>>
    <3>1. m.about \in Participant
      BY <1>2, <2>6, MessageFields
    <3> QED
      BY <2>2, <2>6, <3>1, RosterWays DEF TypeInv, PageTypes, Connected, Mine
  <2>7. CASE m.kind = "accepted" /\ OnAccepted(p, m.from)
    <3>1. m.from \in Sockets
      BY <1>2, <2>7, MessageFields
    <3> QED
      BY <1>1, <2>2, <2>7, <3>1, OnAcceptedTypes
  <2>8. CASE m.kind = "rejected" /\ page' = [page EXCEPT ![p].accepted = NoSocket] /\ UNCHANGED <<view, peers, streams>>
    <3>1. PICK q : q = [page[p] EXCEPT !.accepted = NoSocket]
      OBVIOUS
    <3>2. q \in Page /\ q.socket = Mine(p) /\ q.socket \in Sockets
      BY <1>1, <1>2, <3>1 DEF TypeInv, PageTypes, Page, Mine
    <3>3. page' = [page EXCEPT ![p] = q]
      BY <2>8, <3>1
    <3> QED
      BY <2>2, <2>8, <3>2, <3>3, PageChanged DEF TypeInv, PageTypes
  <2>9. CASE m.kind = "answer" /\ OnAnswer(p, m.from, m.sdp) /\ UNCHANGED <<page, view>>
    <3>1. m.from \in Sockets /\ m.sdp \in SUBSET Stream
      BY <1>2, <2>9, MessageFields
    <3> QED
      BY <1>1, <2>2, <2>9, <3>1, OnAnswerTypes DEF TypeInv, PageTypes, Connected, Mine
  <2>10. CASE m.kind = "gone" /\ OnGone(p, m.from, m.stream)
    BY <2>2, <2>10 DEF TypeInv, PageTypes, OnGone, Connected, Mine
  <2> QED
    BY <1>5, <2>3, <2>4, <2>5, <2>6, <2>7, <2>8, <2>9, <2>10 DEF Deliver, m
<1> QED
  BY <1>4, <1>5

LEMMA ConnectsTypes ==
  ASSUME TypeInv, NEW p \in Pages, NEW id \in Sockets, Connects(p, id)
  PROVE  TypeInv'
<1>1. Job("join", id) \in Jobs /\ Job("join", id).kind # "snapshot"
  BY JobsMade DEF Job
<1>2. /\ jobs' \in SUBSET Jobs
      /\ \A k \in jobs', x \in Participant :
              k.kind = "snapshot" /\ x \in k.got => x.id \notin k.rest
  <2>1. {Job("join", id)} \in SUBSET Jobs /\ \A k \in {Job("join", id)} : k.kind # "snapshot"
    BY <1>1
  <2> QED BY <2>1, JobsAdded DEF TypeInv, Connects
<1>3. ServerTypes'
  BY <1>2 DEF TypeInv, ServerTypes, Connects, Snapshots
<1>4. PICK q : q = [page[p] EXCEPT !.at = "connecting", !.socket = id]
  OBVIOUS
<1>5. q \in Page /\ q.socket \in Sockets
  BY <1>4 DEF TypeInv, PageTypes, Page
<1>6. page' = [page EXCEPT ![p] = q]
  BY <1>4 DEF Connects
<1>7. PageTypes'
  BY <1>5, <1>6, PageChanged DEF TypeInv, PageTypes, Connects
<1> QED
  BY <1>3, <1>7 DEF TypeInv, MailTypes, Bounds, Connects

LEMMA PressBound ==
  ASSUME Bounds, NEW n \in {1, 2, 3}, Press(n), UNCHANGED faults
  PROVE  Bounds'
BY MeshAssumption DEF Bounds, Press

LEMMA DropTypes ==
  ASSUME TypeInv, NEW p \in Pages, Drop(p)
  PROVE  TypeInv'
<1>1. Mine(p) \in Sockets
  BY DEF TypeInv, PageTypes, Connected, Drop
<1>2. ServerTypes' /\ MailTypes'
  BY <1>1 DEF TypeInv, ServerTypes, MailTypes, Drop, Snapshots
<1>3. PICK q : q = [page[p] EXCEPT !.at = "dropped"]
  OBVIOUS
<1>4. q \in Page /\ q.at = "dropped"
  BY <1>3 DEF TypeInv, PageTypes, Page
<1>5. page' = [page EXCEPT ![p] = q]
  BY <1>3 DEF Drop
<1>6. PageTypes'
  BY <1>4, <1>5, PageChanged DEF TypeInv, PageTypes, Drop
<1>7. Bounds'
  BY MeshAssumption DEF TypeInv, Bounds, Drop, Press
<1> QED
  BY <1>2, <1>6, <1>7 DEF TypeInv

LEMMA CloseTypes ==
  ASSUME TypeInv, NEW p \in Pages, Close(p)
  PROVE  TypeInv'
<1>1. Mine(p) \in Sockets
  BY DEF TypeInv, PageTypes, Connected, Close
<1>2. Job("leave", Mine(p)) \in Jobs /\ Job("leave", Mine(p)).kind # "snapshot"
  BY <1>1, JobsMade DEF Job
<1>3. /\ jobs' \in SUBSET Jobs
      /\ \A k \in jobs', x \in Participant :
              k.kind = "snapshot" /\ x \in k.got => x.id \notin k.rest
  <2>1. {Job("leave", Mine(p))} \in SUBSET Jobs /\ \A k \in {Job("leave", Mine(p))} : k.kind # "snapshot"
    BY <1>2
  <2> QED BY <2>1, JobsAdded DEF TypeInv, Close
<1>4. ServerTypes'
  <2>1. stale' \in {"no", "yes", "torn"}
    BY StaleTyped DEF Close
  <2> QED BY <1>1, <1>3, <2>1 DEF TypeInv, ServerTypes, Close, Snapshots
<1>5. MailTypes'
  <2>1. LeftMessage(Mine(p)) \in Message
    BY <1>1, MessagesMade
  <2>2. PICK box : box = Sent(inbox, room, LeftMessage(Mine(p)))
    OBVIOUS
  <2>3. box \in [Sockets -> Seq(Message)] /\ inbox' = [box EXCEPT ![Mine(p)] = <<>>]
    BY <2>1, <2>2, SentTyped DEF TypeInv, MailTypes, Close
  <2> QED BY <1>1, <2>3 DEF MailTypes
<1>6. PICK q : q = [page[p] EXCEPT !.at = "closed", !.main = NoStream, !.cams = {}, !.asking = 0]
  OBVIOUS
<1>7. q \in Page /\ q.at = "closed"
  BY <1>6 DEF TypeInv, PageTypes, Page
<1>8. page' = [page EXCEPT ![p] = q]
  BY <1>6 DEF Close
<1>9. NoPeer \in Peer
  BY DEF NoPeer, Peer
<1>10. PageTypes'
  BY <1>7, <1>8, <1>9, PageChanged DEF TypeInv, PageTypes, Close
<1>11. Bounds'
  BY PressBound DEF TypeInv, Close
<1> QED
  BY <1>4, <1>5, <1>10, <1>11 DEF TypeInv

-----------------------------------------------------------------------------
(* The buttons keep them.                                                   *)

\* Hands and toggles, as the server first sees them.
LEMMA RaiseTyped ==
  ASSUME ServerTypes, NEW id \in Sockets, NEW raised \in BOOLEAN
  PROVE  /\ HandSet(data, id, raised) \in [Sockets -> DataRow]
         /\ RaiseJobs(id, raised) \in SUBSET Jobs
         /\ \A k \in RaiseJobs(id, raised) : k.kind = "raise" /\ k.id = id
BY JobsMade DEF ServerTypes, DataRow, HandSet, RaiseJobs

LEMMA ToggleTyped ==
  ASSUME ServerTypes, NEW id \in Sockets, NEW mic \in Setting, NEW cam \in Setting
  PROVE  /\ ToggleJobs(id, mic, cam) \in SUBSET Jobs
         /\ \A k \in ToggleJobs(id, mic, cam) : k.kind = "toggle" /\ k.id = id
<1>1. Toggle(id, mic, cam) \in Jobs
  BY JobsMade
<1> QED
  BY <1>1 DEF ToggleJobs, Toggle

LEMMA GoneTyped ==
  ASSUME TypeInv, NEW id \in Sockets, NEW stream \in Stream
  PROVE  Gone(inbox, id, stream) \in [Sockets -> Seq(Message)]
<1>1. [kind |-> "gone", from |-> id, stream |-> stream] \in Message
  BY MessagesMade
<1> QED
  BY <1>1, SentTyped DEF Gone, TypeInv, MailTypes

LEMMA RaiseHandTypes ==
  ASSUME TypeInv, NEW p \in Pages, RaiseHand(p)
  PROVE  TypeInv'
<1>1. Mine(p) \in Sockets
  BY DEF TypeInv, PageTypes, Connected, RaiseHand, InClass
<1>2. PICK raised \in BOOLEAN : raised = ~HandShown(p)
  BY DEF HandShown
<1>3. /\ data' = HandSet(data, Mine(p), raised)
      /\ jobs' = jobs \cup RaiseJobs(Mine(p), raised)
  BY <1>2 DEF RaiseHand
<1>4. ServerTypes'
  <2>1. \A k \in RaiseJobs(Mine(p), raised) : k.kind # "snapshot"
    BY <1>1, RaiseTyped DEF TypeInv
  <2>2. /\ jobs' \in SUBSET Jobs
        /\ \A k \in jobs', x \in Participant :
              k.kind = "snapshot" /\ x \in k.got => x.id \notin k.rest
    BY <1>1, <1>3, <2>1, RaiseTyped, JobsAdded DEF TypeInv
  <2> QED BY <1>1, <1>3, <2>2, RaiseTyped DEF TypeInv, ServerTypes, RaiseHand, Snapshots
<1> QED
  BY <1>4, PressBound DEF TypeInv, MailTypes, PageTypes, RaiseHand, Connected, Mine

LEMMA AnswerHandTypes ==
  ASSUME TypeInv, NEW p \in Pages, NEW id \in Sockets, NEW answer \in {"accept", "reject"},
         AnswerHand(p, id, answer)
  PROVE  TypeInv'
<1>1. Mine(p) \in Sockets
  BY DEF TypeInv, PageTypes, Connected, AnswerHand, InClass
<1>2. PICK k : k = [kind |-> answer, id |-> Mine(p), student |-> id]
  OBVIOUS
<1>3. k \in Jobs /\ k.kind # "snapshot"
  BY <1>1, <1>2, JobsMade
<1>4. ServerTypes'
  <2>1. /\ jobs' \in SUBSET Jobs
        /\ \A j \in jobs', x \in Participant :
              j.kind = "snapshot" /\ x \in j.got => x.id \notin j.rest
    <3>1. {k} \in SUBSET Jobs /\ \A j \in {k} : j.kind # "snapshot"
      BY <1>3
    <3>2. jobs' = jobs \cup {k}
      BY <1>2 DEF AnswerHand
    <3> QED BY <3>1, <3>2, JobsAdded DEF TypeInv
  <2> QED BY <2>1 DEF TypeInv, ServerTypes, AnswerHand, Snapshots
<1> QED
  BY <1>4, PressBound DEF TypeInv, MailTypes, PageTypes, AnswerHand, Connected, Mine

LEMMA OnStageTypes ==
  ASSUME PageTypes, NEW p \in Pages, NEW stream \in Stream, OnStage(p, stream), UNCHANGED <<view, streams>>
  PROVE  PageTypes'
<1>1. PICK asking : asking = IF page[p].asking = 0 THEN 0 ELSE page[p].asking - 1
  OBVIOUS
<1>2. PICK used : used = page[p].used + 1
  OBVIOUS
<1>3. PICK q : q = Staged(page[p], stream)
  OBVIOUS
<1>4. asking \in Nat /\ used \in Nat /\ page[p] \in Page
  <2>1. page[p] \in Page
    BY DEF PageTypes
  <2>2. page[p].asking \in Nat /\ page[p].used \in Nat
    BY <2>1 DEF Page
  <2> QED BY <1>1, <1>2, <2>1, <2>2
<1>5. q \in Page /\ q.at = page[p].at /\ q.socket = page[p].socket
  <2>1. q = [page[p] EXCEPT !.main = stream, !.used = page[p].used + 1, !.mic = TRUE,
                            !.asking = IF page[p].asking = 0 THEN 0 ELSE page[p].asking - 1]
    BY <1>3, <1>4 DEF Staged, Page
  <2>2. q = [page[p] EXCEPT !.main = stream, !.used = used, !.mic = TRUE, !.asking = asking]
    BY <1>1, <1>2, <2>1
  <2> QED BY <1>4, <2>2 DEF Page
<1>6. page' = [page EXCEPT ![p] = q]
  BY <1>3 DEF OnStage, PageTypes
<1>7. q.at \in {"connecting", "on"} => q.socket \in Sockets
  BY <1>5 DEF PageTypes, Connected, Mine
<1>8. peers' \in [Pages -> [Sockets -> Peer]]
  BY MeshTyped DEF PageTypes, OnStage
<1> QED
  BY <1>5, <1>6, <1>7, <1>8, PageChanged DEF PageTypes

\* The next stream of a page.
LEMMA NextStream ==
  ASSUME PageTypes, NEW p \in Pages, NEW kind \in {"main", "cam"}
  PROVE  [of |-> p, kind |-> kind, n |-> page[p].used + 1] \in Stream
BY DEF PageTypes, Page, Stream

LEMMA GrantedTypes ==
  ASSUME TypeInv, NEW p \in Pages, Granted(p)
  PROVE  TypeInv'
<1>1. Mine(p) \in Sockets
  BY DEF TypeInv, PageTypes, Granted
<1>2. PageTypes'
  BY NextStream, OnStageTypes DEF TypeInv, Granted
<1>3. ServerTypes'
  <2>1. /\ ToggleJobs(Mine(p), "on", "on") \in SUBSET Jobs
        /\ \A k \in ToggleJobs(Mine(p), "on", "on") : k.kind # "snapshot"
    BY <1>1, ToggleTyped DEF TypeInv, Setting
  <2>2. /\ jobs' \in SUBSET Jobs
        /\ \A j \in jobs', x \in Participant :
              j.kind = "snapshot" /\ x \in j.got => x.id \notin j.rest
    BY <2>1, JobsAdded DEF TypeInv, Granted
  <2> QED BY <2>2 DEF TypeInv, ServerTypes, Granted, Snapshots
<1> QED
  BY <1>2, <1>3 DEF TypeInv, MailTypes, Bounds, Granted

LEMMA DeniedTypes ==
  ASSUME TypeInv, NEW p \in Pages, Denied(p)
  PROVE  TypeInv'
<1>1. PICK asking : asking = page[p].asking - 1
  OBVIOUS
<1>2. PICK q : q = [page[p] EXCEPT !.asking = asking]
  OBVIOUS
<1>3. asking \in Nat /\ page[p] \in Page
  BY <1>1 DEF TypeInv, PageTypes, Page, Denied
<1>4. q \in Page /\ q.at = page[p].at /\ q.socket = page[p].socket
  BY <1>2, <1>3 DEF Page
<1>5. page' = [page EXCEPT ![p] = q]
  BY <1>1, <1>2, <1>3 DEF Denied, TypeInv, PageTypes
<1>6. PageTypes'
  BY <1>4, <1>5, PageChanged DEF TypeInv, PageTypes, Denied, Connected, Mine
<1> QED
  BY <1>6 DEF TypeInv, ServerTypes, MailTypes, Bounds, Denied, serverVars, Snapshots

LEMMA LeaveStageTypes ==
  ASSUME TypeInv, NEW p \in Pages, LeaveStage(p)
  PROVE  TypeInv'
<1>1. Mine(p) \in Sockets /\ page[p].main \in Stream
  BY DEF TypeInv, PageTypes, Page, Connected, LeaveStage, InClass
<1>2. ServerTypes'
  <2>1. /\ RaiseJobs(Mine(p), FALSE) \cup ToggleJobs(Mine(p), "off", "off") \in SUBSET Jobs
        /\ \A k \in RaiseJobs(Mine(p), FALSE) \cup ToggleJobs(Mine(p), "off", "off") :
             k.kind # "snapshot"
    BY <1>1, RaiseTyped, ToggleTyped DEF TypeInv, Setting
  <2>2. jobs' = jobs \cup (RaiseJobs(Mine(p), FALSE) \cup ToggleJobs(Mine(p), "off", "off"))
    BY DEF LeaveStage
  <2>3. /\ jobs' \in SUBSET Jobs
        /\ \A j \in jobs', x \in Participant :
              j.kind = "snapshot" /\ x \in j.got => x.id \notin j.rest
    BY <2>1, <2>2, JobsAdded DEF TypeInv
  <2>4. data' \in [Sockets -> DataRow]
    BY <1>1, RaiseTyped DEF TypeInv, LeaveStage
  <2> QED BY <2>3, <2>4 DEF TypeInv, ServerTypes, LeaveStage, Snapshots
<1>3. MailTypes'
  BY <1>1, GoneTyped DEF MailTypes, LeaveStage
<1>4. PICK q : q = [page[p] EXCEPT !.main = NoStream, !.mic = TRUE]
  OBVIOUS
<1>5. q \in Page /\ q.at = page[p].at /\ q.socket = page[p].socket
  BY <1>4 DEF TypeInv, PageTypes, Page
<1>6. page' = [page EXCEPT ![p] = q]
  BY <1>4 DEF LeaveStage
<1>7. peers' \in [Pages -> [Sockets -> Peer]]
  BY <1>1, MeshTyped DEF TypeInv, PageTypes, LeaveStage
<1>8. PageTypes'
  BY <1>5, <1>6, <1>7, PageChanged DEF TypeInv, PageTypes, LeaveStage, Connected, Mine
<1> QED
  BY <1>2, <1>3, <1>8, PressBound DEF TypeInv, LeaveStage

LEMMA ToggleMicTypes ==
  ASSUME TypeInv, NEW p \in Pages, ToggleMic(p)
  PROVE  TypeInv'
<1>1. Mine(p) \in Sockets
  BY DEF TypeInv, PageTypes, Connected, ToggleMic, InClass
<1>2. PICK mic \in Setting : mic = IF page[p].mic THEN "off" ELSE "on"
  BY DEF Setting
<1>3. ServerTypes'
  <2>1. /\ ToggleJobs(Mine(p), mic, "keep") \in SUBSET Jobs
        /\ \A k \in ToggleJobs(Mine(p), mic, "keep") : k.kind # "snapshot"
    BY <1>1, ToggleTyped DEF TypeInv, Setting
  <2>2. /\ jobs' \in SUBSET Jobs
        /\ \A j \in jobs', x \in Participant :
              j.kind = "snapshot" /\ x \in j.got => x.id \notin j.rest
    BY <1>2, <2>1, JobsAdded DEF TypeInv, ToggleMic
  <2> QED BY <2>2 DEF TypeInv, ServerTypes, ToggleMic, Snapshots
<1>4. PICK b \in BOOLEAN : b = ~page[p].mic
  OBVIOUS
<1>5. PICK q : q = [page[p] EXCEPT !.mic = b]
  OBVIOUS
<1>6. q \in Page /\ q.at = page[p].at /\ q.socket = page[p].socket
  BY <1>5 DEF TypeInv, PageTypes, Page
<1>7. page' = [page EXCEPT ![p] = q]
  BY <1>4, <1>5 DEF ToggleMic, TypeInv, PageTypes
<1>8. PageTypes'
  BY <1>6, <1>7, PageChanged DEF TypeInv, PageTypes, ToggleMic, Connected, Mine
<1> QED
  BY <1>3, <1>8, PressBound DEF TypeInv, MailTypes, ToggleMic

LEMMA GoLiveTypes ==
  ASSUME TypeInv, NEW p \in Pages, GoLive(p)
  PROVE  TypeInv'
<1>1. PageTypes'
  BY NextStream, OnStageTypes DEF TypeInv, GoLive
<1> QED
  BY <1>1, PressBound DEF TypeInv, ServerTypes, MailTypes, GoLive, serverVars, Snapshots

LEMMA StopLiveTypes ==
  ASSUME TypeInv, NEW p \in Pages, StopLive(p)
  PROVE  TypeInv'
<1>1. page[p].main \in Stream /\ page[p] \in Page
  BY DEF TypeInv, PageTypes, Page, StopLive
<1>2. PICK q : q = [page[p] EXCEPT !.main = NoStream]
  OBVIOUS
<1>3. q \in Page /\ q.at = page[p].at /\ q.socket = page[p].socket
  BY <1>1, <1>2 DEF Page
<1>4. page' = [page EXCEPT ![p] = q]
  BY <1>2 DEF StopLive
<1>5. peers' \in [Pages -> [Sockets -> Peer]]
  BY <1>1, MeshTyped DEF TypeInv, PageTypes, StopLive
<1>6. PageTypes'
  BY <1>3, <1>4, <1>5, PageChanged DEF TypeInv, PageTypes, StopLive, Connected, Mine
<1> QED
  BY <1>6, PressBound DEF TypeInv, ServerTypes, MailTypes, StopLive, serverVars, Snapshots

LEMMA OpenWebcamTypes ==
  ASSUME TypeInv, NEW p \in Pages, OpenWebcam(p)
  PROVE  TypeInv'
<1>1. Mine(p) \in Sockets /\ page[p] \in Page
  BY DEF TypeInv, PageTypes, Connected, OpenWebcam, InClass
<1>2. ServerTypes'
  <2>1. /\ ToggleJobs(Mine(p), "keep", "on") \in SUBSET Jobs
        /\ \A k \in ToggleJobs(Mine(p), "keep", "on") : k.kind # "snapshot"
    BY <1>1, ToggleTyped DEF TypeInv, Setting
  <2>2. /\ jobs' \in SUBSET Jobs
        /\ \A j \in jobs', x \in Participant :
              j.kind = "snapshot" /\ x \in j.got => x.id \notin j.rest
    BY <2>1, JobsAdded DEF TypeInv, OpenWebcam
  <2> QED BY <2>2 DEF TypeInv, ServerTypes, OpenWebcam, Snapshots
<1>3. PICK cam : cam = [of |-> p, kind |-> "cam", n |-> page[p].used + 1]
  OBVIOUS
<1>4. cam \in Stream
  BY <1>3, NextStream DEF TypeInv
<1>5. cam.n \in Nat
  BY <1>4 DEF Stream
<1>6. PICK q : q = [page[p] EXCEPT !.cams = {cam}, !.used = cam.n]
  OBVIOUS
<1>7. q \in Page /\ q.at = page[p].at /\ q.socket = page[p].socket
  BY <1>1, <1>4, <1>5, <1>6 DEF Page
<1>8. page' = [page EXCEPT ![p] = q] /\ peers' = [peers EXCEPT ![p] = Publishes(p, cam)]
  BY <1>3, <1>6 DEF OpenWebcam, TypeInv, PageTypes
<1>9. peers' \in [Pages -> [Sockets -> Peer]]
  BY <1>4, <1>8, MeshTyped DEF TypeInv, PageTypes
<1>10. PageTypes'
  BY <1>7, <1>8, <1>9, PageChanged DEF TypeInv, PageTypes, OpenWebcam, Connected, Mine
<1> QED
  BY <1>2, <1>10, PressBound DEF TypeInv, MailTypes, OpenWebcam

LEMMA CloseWebcamTypes ==
  ASSUME TypeInv, NEW p \in Pages, CloseWebcam(p)
  PROVE  TypeInv'
<1>1. Mine(p) \in Sockets /\ page[p] \in Page
  BY DEF TypeInv, PageTypes, Connected, CloseWebcam, InClass
<1>2. ServerTypes'
  <2>1. /\ ToggleJobs(Mine(p), "keep", "off") \in SUBSET Jobs
        /\ \A k \in ToggleJobs(Mine(p), "keep", "off") : k.kind # "snapshot"
    BY <1>1, ToggleTyped DEF TypeInv, Setting
  <2>2. /\ jobs' \in SUBSET Jobs
        /\ \A j \in jobs', x \in Participant :
              j.kind = "snapshot" /\ x \in j.got => x.id \notin j.rest
    BY <2>1, JobsAdded DEF TypeInv, CloseWebcam
  <2> QED BY <2>2 DEF TypeInv, ServerTypes, CloseWebcam, Snapshots
<1>3. PICK cam \in page[p].cams : /\ page' = [page EXCEPT ![p].cams = {}]
                                  /\ peers' = [peers EXCEPT ![p] = Removes(p, cam)]
                                  /\ inbox' = Gone(inbox, Mine(p), cam)
  BY DEF CloseWebcam
<1>4. cam \in Stream
  BY <1>1 DEF Page
<1>5. MailTypes'
  BY <1>1, <1>3, <1>4, GoneTyped DEF MailTypes
<1>6. PICK q : q = [page[p] EXCEPT !.cams = {}]
  OBVIOUS
<1>7. q \in Page /\ q.at = page[p].at /\ q.socket = page[p].socket
  BY <1>1, <1>6 DEF Page
<1>8. page' = [page EXCEPT ![p] = q]
  BY <1>3, <1>6
<1>9. peers' \in [Pages -> [Sockets -> Peer]]
  BY <1>3, <1>4, MeshTyped DEF TypeInv, PageTypes
<1>10. PageTypes'
  BY <1>7, <1>8, <1>9, PageChanged DEF TypeInv, PageTypes, CloseWebcam, Connected, Mine
<1> QED
  BY <1>2, <1>5, <1>10, PressBound DEF TypeInv, CloseWebcam

LEMMA NegotiateTypes ==
  ASSUME TypeInv, NEW p \in Pages, NEW id \in Sockets, Negotiate(p, id)
  PROVE  TypeInv'
<1>1. Mine(p) \in Sockets /\ peers[p][id] \in Peer
  BY DEF TypeInv, PageTypes, Negotiate
<1>2. peers[p][id].sends \in SUBSET Stream
  BY <1>1 DEF Peer
<1>3. PICK c : c = Offering(peers[p][id])
  OBVIOUS
<1>4. c \in Peer
  BY <1>1, <1>2, <1>3 DEF Peer, Offering
<1>5. peers' = [peers EXCEPT ![p][id] = c]
  BY <1>3 DEF Negotiate, TypeInv, PageTypes
<1>6. PageTypes'
  BY <1>4, <1>5 DEF TypeInv, PageTypes, Negotiate, Connected, Mine
<1>7. [kind |-> "offer", from |-> Mine(p), sdp |-> peers[p][id].sends] \in Message
  BY <1>1, <1>2, MessagesMade
<1>8. MailTypes'
  BY <1>7, SentTyped DEF TypeInv, MailTypes, Negotiate, Relayed
<1> QED
  BY <1>6, <1>8 DEF TypeInv, ServerTypes, Bounds, Negotiate, Snapshots

LEMMA ConnectionFailsTypes ==
  ASSUME TypeInv, NEW p \in Pages, NEW id \in Sockets, ConnectionFails(p, id)
  PROVE  TypeInv'
BY PeerClosedTypes
   DEF TypeInv, ServerTypes, MailTypes, PageTypes, Bounds, ConnectionFails, serverVars, Snapshots,
       Connected, Mine

LEMMA PageStepTypes ==
  ASSUME TypeInv, NEW p \in Pages, PageStep(p)
  PROVE  TypeInv'
<1>1. CASE \E id \in Sockets : Visit(p, id) \/ Reconnect(p, id)
  BY <1>1, ConnectsTypes DEF Visit, Reconnect
<1>2. CASE Drop(p) \/ Close(p) \/ Granted(p) \/ Denied(p)
  BY <1>2, DropTypes, CloseTypes, GrantedTypes, DeniedTypes
<1>3. CASE Button(p)
  BY <1>3, RaiseHandTypes, LeaveStageTypes, ToggleMicTypes, GoLiveTypes, StopLiveTypes,
     OpenWebcamTypes, CloseWebcamTypes, AnswerHandTypes DEF Button
<1>4. CASE Signals(p)
  BY <1>4, DeliverTypes, NegotiateTypes, AnswerSetTypes, ConnectionFailsTypes DEF Signals
<1> QED
  BY <1>1, <1>2, <1>3, <1>4 DEF PageStep

LEMMA InitTypes == Init => TypeInv
<1> SUFFICES ASSUME Init PROVE TypeInv
  OBVIOUS
<1>1. NewPage \in Page /\ NewPage.at = "away" /\ NoPeer \in Peer /\ Unjoined \in DataRow /\ {} \in Roster
  BY DEF NewPage, Page, NoPeer, Peer, Unjoined, DataRow, Roster
<1>2. (CHOOSE p \in Pages : TRUE) \in Pages
  BY ServerAssumption
<1>3. ServerTypes
  BY <1>1, <1>2 DEF Init, ServerInit, ServerTypes, Snapshots
<1>4. MailTypes
  BY DEF Init, ServerInit, MailTypes
<1>5. PageTypes
  BY <1>1 DEF Init, PageTypes, Connected, Mine
<1>6. Bounds
  BY MeshAssumption DEF Init, Bounds
<1> QED
  BY <1>3, <1>4, <1>5, <1>6 DEF TypeInv

LEMMA NextTypes == TypeInv /\ [Next]_vars => TypeInv'
<1> SUFFICES ASSUME TypeInv, [Next]_vars PROVE TypeInv'
  OBVIOUS
<1>1. CASE UNCHANGED vars
  BY <1>1 DEF TypeInv, ServerTypes, MailTypes, PageTypes, Bounds, vars, serverVars, pageVars,
              Snapshots, Connected, Mine
<1>2. CASE Next
  BY <1>2, HandlerTypes, NoticedTypes, PageStepTypes DEF Next
<1> QED
  BY <1>1, <1>2

LEMMA TypeInvAlways == Spec => []TypeInv
<1> QED BY InitTypes, NextTypes, PTL DEF Spec

\* Every variable of the classroom has its type, in every reachable state: no
\* page ever shows somebody twice, whatever room:joined, room:updated and the
\* lists that overtake each other say (useLiveRoom.ts).
THEOREM TypeCorrect == Spec => []TypeOK
<1> QED BY TypeInvAlways, TypeInvTypes, PTL

-----------------------------------------------------------------------------
(* Admission.  A socket is admitted once room:join has entered it in the    *)
(* room; nothing is said of it, and nothing done for it, before.            *)

Admitted(id) == link[id] # "free" /\ Job("join", id) \notin jobs

\* What waits in a queue.
MailOf(queue) == {queue[i] : i \in DOMAIN queue}

\* What waits for a socket.
MailTo(box, id) == MailOf(box[id])

\* The participants a message tells of.
Told(m) ==
  IF m.kind \in {"ack", "state"} THEN m.participants
  ELSE IF m.kind \in {"joined", "updated"} THEN {m.about} ELSE {}

JobAdmitted(j) ==
  /\ link[j.id] # "free"
  /\ j.kind \notin {"join", "leave"} => Admitted(j.id)
  /\ j.kind \in {"accept", "reject"} => Admitted(j.student)
  /\ j.kind = "snapshot" => \A x \in j.rest : Admitted(x)

JobsAdmitted == \A j \in jobs : JobAdmitted(j)

AdmissionInv ==
  /\ JobsAdmitted
  /\ \A id \in room : Admitted(id)
  /\ \A id \in Sockets : data[id].pub \/ data[id].joined => Admitted(id)
  /\ \A id \in Sockets : \A m \in MailTo(inbox, id) : m.kind = "ack" => Admitted(id)
  /\ \A p \in Pages : page[p].at = "on" => Admitted(Mine(p))
  /\ \A p \in Pages : Connected(p) => link[Mine(p)] # "free"

\* What is said of a socket is said of one that was admitted, and with a
\* microphone only if it may publish.
Fair(x) == Admitted(x.id) /\ (x.mic => data[x.id].pub)

MicsInv ==
  /\ \A id \in Sockets : data[id].mic => data[id].pub
  /\ \A id \in Sockets : Admitted(id) /\ IsTeacher(id) => data[id].pub
  /\ \A p \in Pages : \A x \in view[p] : Fair(x)
  /\ \A id \in Sockets : \A m \in MailTo(inbox, id) : \A x \in Told(m) : Fair(x)
  /\ \A j \in jobs : j.kind = "snapshot" => \A x \in j.got : Fair(x)

\* What emitting and handling do to a queue.
\* Only who is connected is sent anything.
Online(id) == link[id] = "up"

LEMMA MailSent ==
  ASSUME NEW box \in [Sockets -> Seq(Message)], NEW ids, NEW m, NEW k \in Sockets
  PROVE  \A x : x \in MailTo(Sent(box, ids, m), k) <=>
                  x \in MailTo(box, k) \/ (x = m /\ k \in ids /\ Online(k))
<1>1. Sent(box, ids, m)[k] = IF k \in ids /\ link[k] = "up" THEN Append(box[k], m) ELSE box[k]
  BY DEF Sent
<1>2. ASSUME NEW s \in Seq(Message), NEW x
      PROVE  x \in MailOf(Append(s, m)) <=> x \in MailOf(s) \/ x = m
  <2>1. /\ DOMAIN Append(s, m) = DOMAIN s \cup {Len(s) + 1}
        /\ \A i \in DOMAIN s : Append(s, m)[i] = s[i]
        /\ Append(s, m)[Len(s) + 1] = m
    <3>1. Append(s, m) \in Seq(Message \cup {m}) /\ s \in Seq(Message \cup {m})
      OBVIOUS
    <3>2. /\ Len(Append(s, m)) = Len(s) + 1 /\ Len(s) \in Nat
          /\ \A i \in 1..Len(s) : Append(s, m)[i] = s[i]
          /\ Append(s, m)[Len(s) + 1] = m
      BY <3>1, AppendProperties
    <3>3. DOMAIN s = 1..Len(s) /\ DOMAIN Append(s, m) = 1..Len(Append(s, m))
      BY <3>1, LenProperties
    <3> QED BY <3>2, <3>3
  <2>2. Len(s) + 1 \notin DOMAIN s
    OBVIOUS
  <2> QED BY <2>1, <2>2 DEF MailOf
<1>3. CASE k \in ids /\ link[k] = "up"
  <2>1. Sent(box, ids, m)[k] = Append(box[k], m) /\ box[k] \in Seq(Message)
    BY <1>1, <1>3
  <2> QED BY <1>2, <1>3, <2>1 DEF MailTo, Online
<1>4. CASE ~(k \in ids /\ link[k] = "up")
  BY <1>1, <1>4 DEF MailTo, Online
<1> QED
  BY <1>3, <1>4

LEMMA MailTail ==
  ASSUME NEW s \in Seq(Message), s # <<>>
  PROVE  /\ \A x : x \in MailOf(s) <=> x \in MailOf(Tail(s)) \/ x = Head(s)
         /\ Head(s) \in Message
<1>1. /\ Head(s) = s[1] /\ Head(s) \in Message /\ Len(s) \in Nat \ {0}
      /\ Len(Tail(s)) = Len(s) - 1 /\ \A i \in 1 .. Len(Tail(s)) : Tail(s)[i] = s[i + 1]
      /\ DOMAIN s = 1..Len(s) /\ DOMAIN Tail(s) = 1..Len(Tail(s))
  BY HeadTailProperties, LenProperties
<1>2. ASSUME NEW i \in DOMAIN s PROVE s[i] \in MailOf(Tail(s)) \/ s[i] = Head(s)
  <2>1. CASE i = 1
    BY <1>1, <2>1
  <2>2. CASE i # 1
    <3>1. i - 1 \in DOMAIN Tail(s) /\ Tail(s)[i - 1] = s[i]
      BY <1>1, <2>2
    <3> QED BY <3>1 DEF MailOf
  <2> QED BY <2>1, <2>2
<1>3. ASSUME NEW i \in DOMAIN Tail(s) PROVE Tail(s)[i] \in MailOf(s)
  <2>1. i + 1 \in DOMAIN s /\ Tail(s)[i] = s[i + 1]
    BY <1>1
  <2> QED BY <2>1 DEF MailOf
<1>4. Head(s) \in MailOf(s)
  BY <1>1 DEF MailOf
<1>5. ASSUME NEW x \in MailOf(s) PROVE x \in MailOf(Tail(s)) \/ x = Head(s)
  <2>1. PICK i \in DOMAIN s : x = s[i]
    BY DEF MailOf
  <2> QED BY <1>2, <2>1
<1>6. ASSUME NEW x \in MailOf(Tail(s)) PROVE x \in MailOf(s)
  <2>1. PICK i \in DOMAIN Tail(s) : x = Tail(s)[i]
    BY DEF MailOf
  <2> QED BY <1>3, <2>1
<1> QED
  BY <1>1, <1>4, <1>5, <1>6

LEMMA MailTyped ==
  ASSUME MailTypes, NEW k \in Sockets, NEW m \in MailTo(inbox, k)
  PROVE  m \in Message
<1>1. PICK s \in Seq(Message) : s = inbox[k]
  BY DEF MailTypes
<1>2. PICK i \in DOMAIN s : m = s[i]
  BY <1>1 DEF MailTo, MailOf
<1> QED
  BY <1>2

LEMMA SentOnly ==
  ASSUME NEW box \in [Sockets -> Seq(Message)], NEW ids, NEW m, NEW next, next = Sent(box, ids, m),
         NEW k \in Sockets, NEW x \in MailTo(next, k)
  PROVE  x \in MailTo(box, k) \/ (x = m /\ k \in ids /\ Online(k))
BY MailSent

LEMMA TakenOnly ==
  ASSUME NEW box \in [Sockets -> Seq(Message)], NEW id \in Sockets, box[id] # <<>>,
         NEW next, next = [box EXCEPT ![id] = Tail(@)], NEW k \in Sockets, NEW x \in MailTo(next, k)
  PROVE  x \in MailTo(box, k)
<1>1. CASE k = id
  <2>1. PICK s \in Seq(Message) : s = box[id]
    OBVIOUS
  <2>2. next[k] = Tail(s) /\ s # <<>>
    BY <1>1, <2>1
  <2> QED BY <1>1, <2>1, <2>2, MailTail DEF MailTo
<1>2. CASE k # id
  <2>1. next[k] = box[k]
    BY <1>2
  <2> QED BY <2>1 DEF MailTo
<1> QED
  BY <1>1, <1>2

\* The message a page is about to handle.
LEMMA FirstMail ==
  ASSUME MailTypes, NEW k \in Sockets, inbox[k] # <<>>, NEW m, m = Head(inbox[k])
  PROVE  m \in MailTo(inbox, k) /\ m \in Message
<1>1. PICK s \in Seq(Message) : s = inbox[k]
  BY DEF MailTypes
<1>2. m \in MailOf(s) /\ m \in Message
  BY <1>1, MailTail
<1> QED
  BY <1>1, <1>2 DEF MailTo

LEMMA SentNotEmpty ==
  ASSUME NEW box \in [Sockets -> Seq(Message)], NEW ids, NEW m, NEW k \in Sockets, box[k] # <<>>
  PROVE  Sent(box, ids, m)[k] # <<>>
<1>1. box[k] \in Seq(Message \cup {m})
  OBVIOUS
<1>2. Append(box[k], m) # <<>>
  BY <1>1, AppendProperties
<1> QED
  BY <1>2 DEF Sent

-----------------------------------------------------------------------------
(* Every socket that was admitted stays so, and may publish for good once   *)
(* it may.                                                                  *)

Forward(id) ==
  /\ link[id] # "free" => link'[id] # "free" /\ owner'[id] = owner[id]
  /\ Admitted(id) => Admitted(id)' /\ (data[id].pub => data'[id].pub)

LEMMA HandlerForward ==
  ASSUME TypeInv, JobsAdmitted, NEW j \in jobs, HandlerStep(j), NEW id \in Sockets
  PROVE  Forward(id)
<1> USE DEF Forward, Admitted
<1>1. j \in Jobs /\ j.id \in Sockets /\ link[j.id] # "free"
  BY JobFields DEF TypeInv, ServerTypes, JobsAdmitted, JobAdmitted
<1>2. UNCHANGED <<owner, link>>
  BY DEF HandlerStep, JoinRoom, JoinAnnounced, TakeSnapshot, HandAnnounced, HandAccepted, HandRejected,
         MediaToggled, Left, Bye
<1>3. Job("join", id) \in jobs' => Job("join", id) \in jobs /\ Job("join", id) # j
  <2>1. \A k \in jobs' : (k \in jobs /\ k # j) \/ k.kind # "join"
    <3>1. CASE JoinRoom(j)
      BY <3>1 DEF JoinRoom, Continues, Job
    <3>2. CASE JoinAnnounced(j)
      BY <3>2 DEF JoinAnnounced, Continues, Snapshot
    <3>3. CASE Bye(j)
      BY <3>3 DEF Bye, Continues, Snapshot
    <3>4. CASE TakeSnapshot(j)
      <4>1. \A x \in j.rest : Read(j, x).kind # "join"
        BY <3>4, ReadMore DEF TakeSnapshot
      <4> QED BY <3>4, <4>1 DEF TakeSnapshot, SnapshotSent, Continues
    <3>5. CASE HandAccepted(j)
      BY <3>5 DEF HandAccepted, Continues, Snapshot
    <3>6. CASE HandAnnounced(j) \/ HandRejected(j) \/ MediaToggled(j) \/ Left(j)
      BY <3>6 DEF HandAnnounced, HandRejected, MediaToggled, Left, Continues
    <3> QED BY <3>1, <3>2, <3>3, <3>4, <3>5, <3>6 DEF HandlerStep
  <2> QED BY <2>1 DEF Job
<1>4. ASSUME Admitted(id), data[id].pub PROVE data'[id].pub
  <2>1. CASE JoinRoom(j)
    <3>1. j = Job("join", j.id)
      BY <1>1, <2>1, JobFields DEF JoinRoom
    <3>2. id # j.id
      BY <1>4, <3>1
    <3> QED BY <1>1, <1>4, <2>1, <3>2 DEF JoinRoom, TypeInv, ServerTypes
  <2>2. CASE HandAccepted(j)
    BY <1>4, <2>2, JobFields DEF HandAccepted, TypeInv, ServerTypes, DataRow
  <2>3. CASE MediaToggled(j)
    <3>1. CASE MayToggle(j.id)
      <4>1. PICK now :
              /\ now = [data[j.id] EXCEPT !.mic = Patched(@, j.mic), !.cam = Patched(@, j.cam)]
              /\ data' = [data EXCEPT ![j.id] = now]
        BY <2>3, <3>1 DEF MediaToggled
      <4>2. now.pub = data[j.id].pub
        BY <2>3, <4>1, ToggledTyped DEF MediaToggled
      <4> QED BY <1>1, <1>4, <4>1, <4>2 DEF TypeInv, ServerTypes
    <3>2. CASE ~MayToggle(j.id)
      BY <1>4, <2>3, <3>2 DEF MediaToggled
    <3> QED BY <3>1, <3>2
  <2>4. CASE Left(j)
    BY <1>1, <1>4, <2>4 DEF Left, TypeInv, ServerTypes, DataRow
  <2>5. CASE UNCHANGED data
    BY <1>4, <2>5
  <2> QED BY <2>1, <2>2, <2>3, <2>4, <2>5
          DEF HandlerStep, JoinAnnounced, TakeSnapshot, HandAnnounced, HandRejected, Bye
<1> QED
  BY <1>2, <1>3, <1>4

LEMMA NoticedForward ==
  ASSUME TypeInv, NEW gone \in Sockets, Noticed(gone), NEW id \in Sockets
  PROVE  Forward(id)
<1>1. \A k \in jobs' : k \in jobs \/ k.kind # "join"
  BY DEF Noticed, Disconnect, Job
<1>2. Job("join", id) \in jobs' => Job("join", id) \in jobs
  BY <1>1 DEF Job
<1> QED
  BY <1>2 DEF Forward, Admitted, Noticed, Disconnect, TypeInv, ServerTypes

LEMMA PageStepForward ==
  ASSUME TypeInv, NEW p \in Pages, PageStep(p), NEW id \in Sockets
  PROVE  Forward(id)
<1> USE DEF Forward, Admitted
<1>1. ASSUME NEW new \in Sockets, Connects(p, new) PROVE Forward(id)
  <2>1. Job("join", id) \in jobs' => Job("join", id) \in jobs \/ id = new
    BY <1>1 DEF Connects, Job
  <2> QED BY <1>1, <2>1 DEF Connects, TypeInv, ServerTypes
<1>2. CASE Drop(p) \/ Close(p)
  <2>1. Mine(p) \in Sockets
    BY <1>2 DEF TypeInv, PageTypes, Connected, Drop, Close
  <2>2. link' = [link EXCEPT ![Mine(p)] = "lost"] /\ UNCHANGED <<owner, data>>
    BY <1>2 DEF Drop, Close
  <2>3. Job("join", id) \in jobs' => Job("join", id) \in jobs
    <3>1. Job("leave", Mine(p)) # Job("join", id)
      BY DEF Job
    <3> QED BY <1>2, <3>1 DEF Drop, Close
  <2> QED BY <2>1, <2>2, <2>3 DEF TypeInv, ServerTypes
<1>3. ASSUME UNCHANGED <<owner, link>>, \A k \in jobs' : k \in jobs \/ k.kind # "join",
             data[id].pub => data'[id].pub
      PROVE  Forward(id)
  BY <1>3 DEF Job
<1>4. \A m \in Sockets : \A raised : HandSet(data, m, raised)[id].pub = data[id].pub
  BY DEF HandSet, TypeInv, ServerTypes, DataRow
<1>5. \A m, a, b : /\ \A k \in ToggleJobs(m, a, b) : k.kind # "join"
                   /\ \A k \in RaiseJobs(m, a) : k.kind # "join"
  BY DEF ToggleJobs, Toggle, RaiseJobs
<1>6. CASE RaiseHand(p) \/ LeaveStage(p)
  <2>1. Mine(p) \in Sockets
    BY <1>6 DEF TypeInv, PageTypes, Connected, RaiseHand, LeaveStage, InClass
  <2>2. UNCHANGED <<owner, link>> /\ \A k \in jobs' : k \in jobs \/ k.kind # "join"
    BY <1>5, <1>6 DEF RaiseHand, LeaveStage
  <2>3. data'[id].pub = data[id].pub
    BY <1>4, <1>6, <2>1 DEF RaiseHand, LeaveStage
  <2> QED BY <1>3, <2>2, <2>3
<1>7. CASE Granted(p) \/ Denied(p) \/ ToggleMic(p) \/ GoLive(p) \/ StopLive(p) \/ OpenWebcam(p) \/ CloseWebcam(p)
  <2>1. UNCHANGED <<owner, link, data>> /\ \A k \in jobs' : k \in jobs \/ k.kind # "join"
    BY <1>5, <1>7 DEF Granted, Denied, ToggleMic, GoLive, StopLive, OpenWebcam, CloseWebcam, serverVars
  <2> QED BY <1>3, <2>1
<1>8. CASE Signals(p)
  <2>1. UNCHANGED <<owner, link, data, jobs>>
    BY <1>8 DEF Signals, Deliver, Negotiate, AnswerSet, ConnectionFails, serverVars
  <2> QED BY <2>1
<1>9. ASSUME NEW other \in Sockets, NEW answer \in {"accept", "reject"}, AnswerHand(p, other, answer)
      PROVE  Forward(id)
  BY <1>3, <1>9 DEF AnswerHand
<1> QED
  BY <1>1, <1>2, <1>6, <1>7, <1>8, <1>9 DEF PageStep, Button, Visit, Reconnect

\* What a step may do to what has been said: it stays fair.
LEMMA StaysFair ==
  ASSUME \A id \in Sockets : Forward(id)
  PROVE  /\ \A id \in Sockets : Admitted(id) => Admitted(id)'
         /\ \A x \in Participant : Fair(x) => Fair(x)'
BY DEF Forward, Fair, Participant

LEMMA JobStaysAdmitted ==
  ASSUME NEW j \in Jobs, JobAdmitted(j), \A id \in Sockets : Forward(id)
  PROVE  JobAdmitted(j)'
<1>1. CASE j.kind = "snapshot"
  BY <1>1, SnapshotFields DEF JobAdmitted, Forward
<1>2. CASE j.kind # "snapshot"
  BY <1>2, JobFields DEF JobAdmitted, Forward
<1> QED
  BY <1>1, <1>2

LEMMA JobsStayAdmitted ==
  ASSUME TypeInv, JobsAdmitted, \A id \in Sockets : Forward(id),
         \A k \in jobs' : k \in jobs \/ JobAdmitted(k)'
  PROVE  JobsAdmitted'
BY JobStaysAdmitted DEF TypeInv, ServerTypes, JobsAdmitted

-----------------------------------------------------------------------------
(* Only sockets that were admitted are spoken of.                           *)

LEMMA SnapshotAdmitted ==
  ASSUME TypeInv, AdmissionInv, NEW id \in Sockets, Admitted(id), NEW ack \in BOOLEAN,
         \A x \in Sockets : Forward(x), NEW s, s = Snapshot(id, ack)
  PROVE  JobAdmitted(s)'
<1>1. /\ s.id = id /\ s.kind = "snapshot" /\ s.rest \subseteq room /\ s \in Jobs
  BY SnapshotMade DEF TypeInv
<1>2. JobAdmitted(s)
  BY <1>1 DEF JobAdmitted, AdmissionInv, Admitted
<1> QED
  BY <1>1, <1>2, JobStaysAdmitted

-----------------------------------------------------------------------------
(* What is emitted, and to whom.                                            *)

LEMMA SnapshotMail ==
  ASSUME TypeInv, NEW j \in jobs, NEW got \in Roster, SnapshotSent(j, got),
         NEW k \in Sockets, NEW m \in MailTo(inbox', k)
  PROVE  \/ m \in MailTo(inbox, k)
         \/ /\ m.kind \in {"ack", "state"} /\ m.participants = got /\ (m.kind = "ack" => k = j.id)
            /\ Online(k)
<1>0. inbox \in [Sockets -> Seq(Message)]
  BY DEF TypeInv, MailTypes
<1>1. PICK acked : /\ acked = IF j.ack THEN Sent(inbox, {j.id}, StateMessage("ack", got)) ELSE inbox
                   /\ inbox' = Sent(acked, room, StateMessage("state", got))
  BY DEF SnapshotSent
<1>2. acked \in [Sockets -> Seq(Message)]
  BY <1>1, MessagesMade, SentTyped DEF TypeInv, MailTypes
<1>3. m \in MailTo(acked, k) \/ (m = StateMessage("state", got) /\ Online(k))
  <2>1. PICK state : state = StateMessage("state", got)
    OBVIOUS
  <2>2. inbox' = Sent(acked, room, state)
    BY <1>1, <2>1
  <2>3. m \in MailTo(acked, k) \/ (m = state /\ k \in room /\ Online(k))
    BY <1>2, <2>2, SentOnly
  <2> QED BY <2>1, <2>3
<1>4. CASE m \in MailTo(acked, k)
  <2>1. m \in MailTo(inbox, k) \/ (m = StateMessage("ack", got) /\ k = j.id /\ Online(k))
    <3>1. PICK ack : ack = StateMessage("ack", got)
      OBVIOUS
    <3>2. CASE acked = Sent(inbox, {j.id}, ack)
      <4>1. m \in MailTo(inbox, k) \/ (m = ack /\ k \in {j.id} /\ Online(k))
        BY <1>0, <1>4, <3>2, SentOnly
      <4> QED BY <3>1, <4>1
    <3>3. CASE acked = inbox
      BY <1>4, <3>3
    <3> QED BY <1>1, <3>1, <3>2, <3>3
  <2> QED BY <2>1 DEF StateMessage
<1> QED
  BY <1>3, <1>4 DEF StateMessage

\* Whom a snapshot has described when it goes out: those it had, and the last.
LEMMA TakeSnapshotMail ==
  ASSUME TypeInv, NEW j \in jobs, TakeSnapshot(j), NEW k \in Sockets, NEW m \in MailTo(inbox', k)
  PROVE  \/ m \in MailTo(inbox, k)
         \/ /\ m.kind \in {"ack", "state"}
            /\ \A x \in m.participants : x \in j.got \/ \E y \in j.rest : x = Described(y)
            /\ m.kind = "ack" => k = j.id
            /\ Online(k)
<1>1. j.kind = "snapshot" /\ j.got \in Roster
  BY SnapshotFields DEF TakeSnapshot, TypeInv, ServerTypes
<1>2. CASE j.rest = {} /\ SnapshotSent(j, j.got)
  BY <1>1, <1>2, SnapshotMail
<1>3. ASSUME NEW y \in j.rest, SnapshotSent(j, Read(j, y).got)
      PROVE  \/ m \in MailTo(inbox, k)
             \/ /\ m.kind \in {"ack", "state"}
                /\ \A x \in m.participants : x \in j.got \/ \E z \in j.rest : x = Described(z)
                /\ m.kind = "ack" => k = j.id
                /\ Online(k)
  <2>1. PICK got : got = Read(j, y).got
    OBVIOUS
  <2>2. got \in Roster /\ got = j.got \cup {Described(y)}
    BY <1>1, <2>1, ReadMore
  <2>3. \/ m \in MailTo(inbox, k)
        \/ /\ m.kind \in {"ack", "state"} /\ m.participants = got /\ (m.kind = "ack" => k = j.id)
           /\ Online(k)
    BY <1>3, <2>1, <2>2, SnapshotMail
  <2> QED BY <2>2, <2>3
<1>4. CASE UNCHANGED inbox
  BY <1>4
<1> QED
  BY <1>2, <1>3, <1>4 DEF TakeSnapshot

\* What a handler may have emitted to a socket.
LEMMA HandlerMail ==
  ASSUME TypeInv, NEW j \in jobs, HandlerStep(j), NEW k \in Sockets, NEW m \in MailTo(inbox', k),
         m \notin MailTo(inbox, k)
  PROVE  /\ Online(k)
         /\ \/ m.kind \in {"accepted", "rejected"}
            \/ m = LeftMessage(j.id) /\ j.kind = "bye" /\ k \in room
            \/ /\ m.kind \in {"joined", "updated"} /\ j.kind # "join"
               /\ m.about.id = j.id /\ m.about.mic = data'[j.id].mic
            \/ /\ j.kind = "snapshot" /\ m.kind \in {"ack", "state"}
               /\ \A x \in m.participants : x \in j.got \/ \E y \in j.rest : x = Described(y)
               /\ m.kind = "ack" => k = j.id
<1>1. j.id \in Sockets /\ inbox \in [Sockets -> Seq(Message)]
  BY JobFields DEF TypeInv, ServerTypes, MailTypes
<1>2. CASE JoinAnnounced(j)
  <2>1. PICK x : x = [Described(j.id) EXCEPT !.hand = FALSE]
    OBVIOUS
  <2>2. x.id = j.id /\ x.mic = data[j.id].mic
    BY <1>1, <2>1, DescribedTyped DEF TypeInv
  <2>3. inbox' = Sent(inbox, room \ {j.id}, About("joined", x))
    BY <1>2, <2>1 DEF JoinAnnounced
  <2>4. m = About("joined", x) /\ Online(k)
    BY <1>1, <2>3, SentOnly
  <2> QED BY <1>2, <2>2, <2>4 DEF JoinAnnounced, About
<1>3. CASE TakeSnapshot(j)
  <2>1. j.kind = "snapshot"
    BY <1>3 DEF TakeSnapshot
  <2> QED BY <1>3, <2>1, TakeSnapshotMail
<1>4. CASE HandAnnounced(j)
  <2>1. PICK x : x = [Described(j.id) EXCEPT !.hand = j.raised]
    OBVIOUS
  <2>2. x.id = j.id /\ x.mic = data[j.id].mic
    BY <1>1, <1>4, <2>1, JobFields, DescribedTyped DEF TypeInv, ServerTypes, HandAnnounced
  <2>3. inbox' = Sent(inbox, room, About("updated", x))
    BY <1>4, <2>1 DEF HandAnnounced
  <2>4. m = About("updated", x) /\ Online(k)
    BY <1>1, <2>3, SentOnly
  <2> QED BY <1>4, <2>2, <2>4 DEF HandAnnounced, About
<1>5. CASE HandAccepted(j)
  <2>1. inbox' = inbox \/ inbox' = Sent(inbox, {j.student}, [kind |-> "accepted", from |-> j.id])
    BY <1>5 DEF HandAccepted
  <2>2. m = [kind |-> "accepted", from |-> j.id] /\ Online(k)
    BY <1>1, <2>1, SentOnly
  <2> QED BY <2>2
<1>6. CASE HandRejected(j)
  <2>1. inbox' = inbox \/ inbox' = Sent(inbox, {j.student}, [kind |-> "rejected", from |-> j.id])
    BY <1>6 DEF HandRejected
  <2>2. m = [kind |-> "rejected", from |-> j.id] /\ Online(k)
    BY <1>1, <2>1, SentOnly
  <2> QED BY <2>2
<1>7. CASE MediaToggled(j)
  <2>1. MayToggle(j.id)
    BY <1>7 DEF MediaToggled
  <2>2. PICK now :
          /\ now = [data[j.id] EXCEPT !.mic = Patched(@, j.mic), !.cam = Patched(@, j.cam)]
          /\ data' = [data EXCEPT ![j.id] = now]
          /\ inbox' = Sent(inbox, room,
               About("updated", [id |-> j.id, hand |-> now.hand, mic |-> now.mic, cam |-> now.cam]))
    BY <1>7, <2>1 DEF MediaToggled
  <2>3. data'[j.id].mic = now.mic
    BY <1>1, <2>2 DEF TypeInv, ServerTypes
  <2>4. /\ m = About("updated", [id |-> j.id, hand |-> now.hand, mic |-> now.mic, cam |-> now.cam])
        /\ Online(k)
    BY <1>1, <2>2, SentOnly
  <2> QED BY <1>7, <2>3, <2>4 DEF MediaToggled, About
<1>8. CASE Bye(j)
  <2>1. m = LeftMessage(j.id) /\ k \in room /\ Online(k)
    BY <1>1, <1>8, SentOnly DEF Bye
  <2> QED BY <1>8, <2>1 DEF Bye
<1>9. CASE UNCHANGED inbox
  BY <1>9
<1> QED
  BY <1>2, <1>3, <1>4, <1>5, <1>6, <1>7, <1>8, <1>9 DEF HandlerStep, JoinRoom, Left

\* What a page may have relayed, or the server announced for it at once.
PageSays(p, k, m) ==
  /\ Online(k)
  /\ \/ /\ m.kind \in {"offer", "answer"} /\ m.from = Mine(p) /\ Connected(p)
        /\ \/ peers[p][k].sig # "none"
           \/ \E x \in MailTo(inbox, Mine(p)) : x.kind = "offer" /\ x.from = k
     \/ m = LeftMessage(Mine(p)) /\ Close(p)
     \/ m.kind = "gone" /\ m.from = Mine(p)

\* An offer that is ignored: all that becomes of the connection is that it is
\* remembered if an answer was being set.
IgnoresOffer(p, id, c, next) ==
  /\ c.sig \in {"offering", "answered"} /\ ~IsPolite(p, id)
  /\ peers' = [peers EXCEPT ![p][id] = next]
  /\ next.sig = c.sig /\ next.mine = c.mine /\ next.offered = c.offered /\ next.reply = c.reply
  /\ next.sends = c.sends /\ next.mute = c.mute /\ next.heard = c.heard /\ next.agreed = c.agreed
  /\ next.ignored = (c.sig = "answered")
  /\ inbox' = [inbox EXCEPT ![Mine(p)] = Tail(@)]
  /\ UNCHANGED streams

\* An offer that is answered: c is the connection it finds, next what it
\* makes of it, and the answer goes out before the offer is taken off the queue.
AnswersOffer(p, id, offered, c, next, answered, box) ==
  /\ c.sig = "stable" \/ (c.sig = "offering" /\ IsPolite(p, id))
  /\ peers' = [peers EXCEPT ![p][id] = next]
  /\ next.sig = "stable" /\ next.mine = Mine(p) /\ next.offered = {}
  /\ next.sends = c.sends \cup Published(page[p]) /\ next.mute = c.mute \ Published(page[p])
  /\ next.heard = c.heard \cup offered /\ next.agreed = answered
  /\ next.reply = c.reply /\ next.ignored = FALSE
  /\ answered \subseteq next.sends
  /\ c.agreed \ (c.mute \cap Published(page[p])) \subseteq answered
  /\ box = Sent(inbox, {id}, [kind |-> "answer", from |-> Mine(p), sdp |-> answered])
  /\ inbox' = [box EXCEPT ![Mine(p)] = Tail(@)]
  /\ streams' = [streams EXCEPT ![p][id] = ShownAfter(@, offered, c)]

LEMMA OnOfferWays ==
  ASSUME TypeInv, NEW p \in Pages, Connected(p), NEW id \in Sockets, NEW offered \in SUBSET Stream,
         OnOffer(p, id, offered)
  PROVE  \E c, next \in Peer, answered \in SUBSET Stream, box \in [Sockets -> Seq(Message)] :
           /\ c = Ensured(peers[p][id], Mine(p))
           /\ \/ /\ UNCHANGED <<peers, streams>> /\ inbox' = [inbox EXCEPT ![Mine(p)] = Tail(@)]
                 /\ MayRefuse(p, c)
              \/ IgnoresOffer(p, id, c, next)
              \/ AnswersOffer(p, id, offered, c, next, answered, box)
<1>1. PICK c : c = Ensured(peers[p][id], Mine(p))
  OBVIOUS
<1>2. Mine(p) \in Sockets /\ peers[p][id] \in Peer /\ page[p] \in Page /\ inbox \in [Sockets -> Seq(Message)]
  BY DEF TypeInv, PageTypes, MailTypes
<1>3. c \in Peer
  BY <1>1, <1>2, PeerMade
<1>4. CASE /\ UNCHANGED <<peers, streams>> /\ inbox' = [inbox EXCEPT ![Mine(p)] = Tail(@)]
           /\ MayRefuse(p, c)
  BY <1>1, <1>2, <1>3, <1>4
<1>6. CASE /\ c.sig \in {"offering", "answered"} /\ ~IsPolite(p, id)
           /\ peers' = [peers EXCEPT ![p][id].ignored = (c.sig = "answered")]
           /\ UNCHANGED streams
           /\ inbox' = [inbox EXCEPT ![Mine(p)] = Tail(@)]
  <2>1. c = peers[p][id]
    BY <1>1, <1>6 DEF Ensured
  <2>2. PICK next : next = [c EXCEPT !.ignored = (c.sig = "answered")]
    OBVIOUS
  <2>3. /\ next \in Peer /\ next.sig = c.sig /\ next.mine = c.mine /\ next.offered = c.offered
        /\ next.reply = c.reply /\ next.sends = c.sends /\ next.mute = c.mute /\ next.heard = c.heard
        /\ next.agreed = c.agreed /\ next.ignored = (c.sig = "answered")
    BY <1>3, <2>2 DEF Peer
  <2>4. peers' = [peers EXCEPT ![p][id] = next]
    BY <1>6, <2>1, <2>2
  <2>5. IgnoresOffer(p, id, c, next)
    BY <1>6, <2>3, <2>4 DEF IgnoresOffer
  <2> QED BY <1>1, <1>2, <1>3, <2>3, <2>5
<1>5. ASSUME c.sig = "stable" \/ (c.sig = "offering" /\ IsPolite(p, id)), NEW mine, mine = TracksAdded(c, Published(page[p])),
             NEW answered \in SUBSET mine.sends, mine.agreed \subseteq answered,
             peers' = [peers EXCEPT ![p][id] =
                         [mine EXCEPT !.sig = "stable", !.mine = Mine(p), !.offered = {},
                                      !.heard = @ \cup offered, !.agreed = answered,
                                      !.ignored = FALSE]],
             inbox' = [Relayed("answer", Mine(p), id, answered) EXCEPT ![Mine(p)] = Tail(@)],
             streams' = [streams EXCEPT ![p][id] = ShownAfter(@, offered, c)]
      PROVE  \E next \in Peer, a \in SUBSET Stream, box \in [Sockets -> Seq(Message)] :
               AnswersOffer(p, id, offered, c, next, a, box)
  <2>1. /\ mine \in Peer /\ mine.sends = c.sends \cup Published(page[p])
        /\ mine.mute = c.mute \ Published(page[p]) /\ mine.heard = c.heard
        /\ mine.agreed = c.agreed \ (c.mute \cap Published(page[p])) /\ mine.reply = c.reply
    <3>1. mine \in Peer
      BY <1>2, <1>3, <1>5, PeerMade, PublishedTyped
    <3> QED BY <1>3, <1>5, <3>1 DEF TracksAdded, Peer
  <2>2. answered \in SUBSET Stream
    BY <2>1, <1>5 DEF Peer
  <2>3. PICK next : next = [mine EXCEPT !.sig = "stable", !.mine = Mine(p), !.offered = {},
                                        !.heard = @ \cup offered, !.agreed = answered,
                                        !.ignored = FALSE]
    OBVIOUS
  <2>4. /\ next \in Peer /\ next.sig = "stable" /\ next.mine = Mine(p) /\ next.offered = {}
        /\ next.sends = mine.sends /\ next.mute = mine.mute
        /\ next.heard = mine.heard \cup offered /\ next.agreed = answered
        /\ next.reply = mine.reply /\ next.ignored = FALSE
    BY <1>2, <2>1, <2>2, <2>3 DEF Peer
  <2>5. PICK a : a = [kind |-> "answer", from |-> Mine(p), sdp |-> answered]
    OBVIOUS
  <2>6. PICK box : box = Sent(inbox, {id}, a)
    OBVIOUS
  <2>7. a \in Message
    BY <1>2, <2>2, <2>5, MessagesMade
  <2>8. box \in [Sockets -> Seq(Message)] /\ inbox' = [box EXCEPT ![Mine(p)] = Tail(@)]
    BY <1>2, <1>5, <2>5, <2>6, <2>7, SentTyped DEF Relayed
  <2>9. peers' = [peers EXCEPT ![p][id] = next]
    BY <1>5, <2>3
  <2>10. AnswersOffer(p, id, offered, c, next, answered, box)
    BY <1>5, <2>1, <2>4, <2>5, <2>6, <2>8, <2>9 DEF AnswersOffer
  <2> QED BY <2>2, <2>4, <2>8, <2>10
<1> QED
  BY <1>1, <1>3, <1>4, <1>5, <1>6 DEF OnOffer

LEMMA OnOfferMail ==
  ASSUME TypeInv, NEW p \in Pages, Connected(p), inbox[Mine(p)] # <<>>, NEW offer,
         offer = Head(inbox[Mine(p)]), offer.kind = "offer", OnOffer(p, offer.from, offer.sdp),
         NEW k \in Sockets, NEW m \in MailTo(inbox', k), m \notin MailTo(inbox, k)
  PROVE  PageSays(p, k, m)
<1>1. Mine(p) \in Sockets /\ inbox \in [Sockets -> Seq(Message)] /\ inbox[Mine(p)] \in Seq(Message)
  BY DEF TypeInv, PageTypes, MailTypes, Connected
<1>2. offer \in MailTo(inbox, Mine(p)) /\ offer \in Message
  BY <1>1, FirstMail DEF TypeInv
<1>3. offer.from \in Sockets /\ offer.sdp \in SUBSET Stream
  BY <1>2, MessageFields
<1>4. CASE inbox' = [inbox EXCEPT ![Mine(p)] = Tail(@)]
  BY <1>1, <1>4, TakenOnly
<1>6. ASSUME NEW c, NEW next, IgnoresOffer(p, offer.from, c, next) PROVE PageSays(p, k, m)
  BY <1>4, <1>6 DEF IgnoresOffer
<1>5. ASSUME NEW c, NEW next, NEW answered, NEW box \in [Sockets -> Seq(Message)],
             AnswersOffer(p, offer.from, offer.sdp, c, next, answered, box)
      PROVE  PageSays(p, k, m)
  <2>1. PICK a : a = [kind |-> "answer", from |-> Mine(p), sdp |-> answered]
    OBVIOUS
  <2>2. box = Sent(inbox, {offer.from}, a) /\ inbox' = [box EXCEPT ![Mine(p)] = Tail(@)]
    BY <1>5, <2>1 DEF AnswersOffer
  <2>3. box[Mine(p)] # <<>>
    BY <1>1, <2>2, SentNotEmpty
  <2>4. m \in MailTo(box, k)
    BY <1>1, <2>2, <2>3, TakenOnly
  <2>5. m \in MailTo(inbox, k) \/ (m = a /\ k \in {offer.from} /\ Online(k))
    <3>1. box = Sent(inbox, {offer.from}, a)
      BY <2>2
    <3> QED BY <1>1, <2>4, <3>1, SentOnly
  <2> QED BY <1>2, <2>1, <2>5 DEF PageSays
<1> QED
  BY <1>3, <1>4, <1>5, <1>6, OnOfferWays

LEMMA GoneMail ==
  ASSUME TypeInv, NEW p \in Pages, NEW stream, inbox' = Gone(inbox, Mine(p), stream),
         NEW k \in Sockets, NEW m \in MailTo(inbox', k), m \notin MailTo(inbox, k)
  PROVE  PageSays(p, k, m)
<1>1. inbox \in [Sockets -> Seq(Message)] /\ data[Mine(p)].joined
  BY DEF Gone, TypeInv, MailTypes
<1>2. PICK gone : gone = [kind |-> "gone", from |-> Mine(p), stream |-> stream]
  OBVIOUS
<1>3. PICK ids : ids = room \ {Mine(p)}
  OBVIOUS
<1>4. inbox' = Sent(inbox, ids, gone)
  BY <1>1, <1>2, <1>3 DEF Gone
<1>5. m = gone /\ Online(k)
  BY <1>1, <1>4, SentOnly
<1> QED
  BY <1>2, <1>5 DEF PageSays

LEMMA PageStepMail ==
  ASSUME TypeInv, NEW p \in Pages, PageStep(p), NEW k \in Sockets, NEW m \in MailTo(inbox', k),
         m \notin MailTo(inbox, k)
  PROVE  PageSays(p, k, m)
<1>1. inbox \in [Sockets -> Seq(Message)]
  BY DEF TypeInv, MailTypes
<1>2. ASSUME NEW id \in Sockets, Negotiate(p, id) PROVE PageSays(p, k, m)
  <2>1. PICK offer : offer = [kind |-> "offer", from |-> Mine(p), sdp |-> peers[p][id].sends]
    OBVIOUS
  <2>2. inbox' = Sent(inbox, {id}, offer)
    BY <1>2, <2>1 DEF Negotiate, Relayed
  <2>3. m \in MailTo(inbox, k) \/ (m = offer /\ k \in {id} /\ Online(k))
    BY <1>1, <2>2, SentOnly
  <2> QED BY <1>2, <2>1, <2>3 DEF Negotiate, Needy, PageSays
<1>3. CASE Deliver(p)
  <2>1. Connected(p) /\ inbox[Mine(p)] # <<>> /\ Mine(p) \in Sockets
    BY <1>3 DEF Deliver, TypeInv, PageTypes
  <2>2. PICK head : head = Head(inbox[Mine(p)])
    OBVIOUS
  <2>3. CASE head.kind = "offer" /\ OnOffer(p, head.from, head.sdp)
    BY <2>1, <2>2, <2>3, OnOfferMail
  <2>4. CASE inbox' = [inbox EXCEPT ![Mine(p)] = Tail(@)]
    BY <1>1, <2>1, <2>4, TakenOnly
  <2> QED BY <1>3, <2>2, <2>3, <2>4 DEF Deliver
<1>4. CASE Close(p)
  <2>1. Mine(p) \in Sockets
    BY <1>4 DEF TypeInv, PageTypes, Connected, Close
  <2>2. PICK left : left = LeftMessage(Mine(p))
    OBVIOUS
  <2>3. PICK box : box = Sent(inbox, room, left)
    OBVIOUS
  <2>4. inbox' = [box EXCEPT ![Mine(p)] = <<>>] /\ DOMAIN box = Sockets
    BY <1>4, <2>2, <2>3 DEF Close, Sent
  <2>5. k # Mine(p)
    BY <2>1, <2>4 DEF MailTo, MailOf
  <2>6. m \in MailTo(box, k)
    BY <2>4, <2>5 DEF MailTo
  <2>7. m \in MailTo(inbox, k) \/ (m = left /\ k \in room /\ Online(k))
    BY <1>1, <2>3, <2>6, SentOnly
  <2> QED BY <1>4, <2>2, <2>7 DEF PageSays
<1>5. CASE Drop(p)
  <2>1. inbox' = [inbox EXCEPT ![Mine(p)] = <<>>]
    BY <1>5 DEF Drop
  <2>2. inbox'[k] = inbox[k] \/ inbox'[k] = <<>>
    BY <1>1, <2>1
  <2> QED BY <2>2 DEF MailTo, MailOf
<1>6. CASE LeaveStage(p)
  BY <1>6, GoneMail DEF LeaveStage
<1>7. CASE CloseWebcam(p)
  BY <1>7, GoneMail DEF CloseWebcam
<1>8. CASE UNCHANGED inbox
  BY <1>8
<1> QED
  BY <1>2, <1>3, <1>4, <1>5, <1>6, <1>7, <1>8
     DEF PageStep, Button, Signals, Visit, Reconnect, Connects, Granted, Denied, RaiseHand, ToggleMic,
         GoLive, StopLive, OpenWebcam, AnswerHand, AnswerSet, ConnectionFails, serverVars

\* Whom a handler serves is admitted once it has made its step, but for one
\* that only leaves.
LEMMA HandlerAdmits ==
  ASSUME TypeInv, JobsAdmitted, NEW j \in jobs, HandlerStep(j), j.kind # "leave"
  PROVE  Admitted(j.id)'
<1>1. j \in Jobs /\ j.id \in Sockets /\ JobAdmitted(j)
  BY JobFields DEF TypeInv, ServerTypes, JobsAdmitted
<1>2. CASE j.kind # "join"
  BY <1>1, <1>2, HandlerForward DEF JobAdmitted, Forward
<1>3. CASE j.kind = "join"
  <2>1. JoinRoom(j)
    BY <1>3 DEF HandlerStep, JoinRoom, JoinAnnounced, TakeSnapshot, HandAnnounced, HandAccepted,
                HandRejected, MediaToggled, Left, Bye
  <2>2. j = Job("join", j.id)
    BY <1>1, <1>3, JobFields
  <2>3. Job("join", j.id) \notin jobs'
    BY <2>1, <2>2 DEF JoinRoom, Continues, Job
  <2> QED BY <1>1, <2>1, <2>3 DEF JobAdmitted, Admitted, JoinRoom
<1> QED
  BY <1>2, <1>3

LEMMA HandlerJobsAdmitted ==
  ASSUME TypeInv, AdmissionInv, NEW j \in jobs, HandlerStep(j)
  PROVE  JobsAdmitted'
<1>1. /\ j \in Jobs /\ j.id \in Sockets /\ JobAdmitted(j)
      /\ \A x \in Sockets : Forward(x)
  BY JobFields, HandlerForward DEF TypeInv, ServerTypes, AdmissionInv, JobsAdmitted
<1>2. j.kind # "leave" => Admitted(j.id)'
  BY HandlerAdmits DEF AdmissionInv
<1>3. ASSUME j.kind \notin {"join", "leave"}, NEW ack \in BOOLEAN, Continues(j, {Snapshot(j.id, ack)})
      PROVE  \A k \in jobs' : k \in jobs \/ JobAdmitted(k)'
  <2>1. PICK s : s = Snapshot(j.id, ack)
    OBVIOUS
  <2>2. JobAdmitted(s)'
    BY <1>1, <1>3, <2>1, SnapshotAdmitted DEF JobAdmitted
  <2>3. jobs' = (jobs \ {j}) \cup {s}
    BY <1>3, <2>1 DEF Continues
  <2> QED BY <2>2, <2>3
<1>4. \A k \in jobs' : k \in jobs \/ JobAdmitted(k)'
  <2>1. CASE JoinRoom(j)
    <3>1. PICK next : next = Job("joined", j.id)
      OBVIOUS
    <3>2. next.id = j.id /\ next.kind = "joined"
      BY <3>1 DEF Job
    <3>3. JobAdmitted(next)'
      BY <1>2, <2>1, <3>2 DEF JobAdmitted, Admitted, JoinRoom
    <3> QED BY <2>1, <3>1, <3>3 DEF JoinRoom, Continues
  <2>2. CASE JoinAnnounced(j)
    BY <1>3, <2>2 DEF JoinAnnounced
  <2>3. CASE TakeSnapshot(j)
    <3>1. ASSUME NEW x \in j.rest, NEW next, next = Read(j, x) PROVE JobAdmitted(next)'
      <4>1. next \in Jobs /\ next.kind = "snapshot" /\ next.id = j.id /\ next.rest = j.rest \ {x}
        BY <2>3, <3>1, ReadMore DEF TakeSnapshot
      <4>2. JobAdmitted(next)
        BY <1>1, <2>3, <4>1 DEF JobAdmitted, TakeSnapshot
      <4> QED BY <1>1, <4>1, <4>2, JobStaysAdmitted
    <3> QED BY <2>3, <3>1 DEF TakeSnapshot, SnapshotSent, Continues
  <2>4. CASE HandAccepted(j)
    <3>1. CASE IsTeacher(j.id)
      BY <1>3, <2>4, <3>1 DEF HandAccepted
    <3>2. CASE ~IsTeacher(j.id)
      BY <2>4, <3>2 DEF HandAccepted, Continues
    <3> QED BY <3>1, <3>2
  <2>5. CASE Bye(j)
    BY <1>3, <2>5 DEF Bye
  <2>6. CASE HandAnnounced(j) \/ HandRejected(j) \/ MediaToggled(j) \/ Left(j)
    BY <2>6 DEF HandAnnounced, HandRejected, MediaToggled, Left, Continues
  <2> QED BY <2>1, <2>2, <2>3, <2>4, <2>5, <2>6 DEF HandlerStep
<1> QED
  BY <1>1, <1>4, JobsStayAdmitted DEF AdmissionInv

LEMMA HandlerAdmission ==
  ASSUME TypeInv, AdmissionInv, NEW j \in jobs, HandlerStep(j), UNCHANGED pageVars
  PROVE  AdmissionInv'
<1>1. /\ j \in Jobs /\ j.id \in Sockets /\ JobAdmitted(j)
      /\ \A x \in Sockets : Forward(x)
  BY JobFields, HandlerForward DEF TypeInv, ServerTypes, AdmissionInv, JobsAdmitted
<1>2. JobsAdmitted' /\ (j.kind # "leave" => Admitted(j.id)')
  BY HandlerJobsAdmitted, HandlerAdmits DEF AdmissionInv
<1>3. \A x \in Sockets : Admitted(x) => Admitted(x)'
  BY <1>1 DEF Forward
<1>4. ASSUME NEW id \in room' PROVE Admitted(id)'
  <2>1. id \in room \/ (id = j.id /\ j.kind = "join")
    BY DEF HandlerStep, JoinRoom, JoinAnnounced, TakeSnapshot, HandAnnounced, HandAccepted,
           HandRejected, MediaToggled, Left, Bye
  <2> QED BY <1>2, <1>3, <2>1 DEF AdmissionInv, TypeInv, ServerTypes
<1>5. ASSUME NEW id \in Sockets, data'[id].pub \/ data'[id].joined PROVE Admitted(id)'
  <2>1. CASE JoinRoom(j)
    BY <1>2, <1>3, <1>5, <2>1 DEF JoinRoom, TypeInv, ServerTypes, AdmissionInv
  <2>2. CASE HandAccepted(j)
    <3>1. Admitted(j.student) /\ j.student \in Sockets
      BY <1>1, <2>2, JobFields DEF HandAccepted, JobAdmitted
    <3> QED BY <1>3, <1>5, <2>2, <3>1 DEF HandAccepted, TypeInv, ServerTypes, AdmissionInv
  <2>3. CASE MediaToggled(j)
    <3>1. id # j.id => data'[id] = data[id]
      BY <1>1, <2>3 DEF MediaToggled, TypeInv, ServerTypes
    <3> QED BY <1>2, <1>3, <1>5, <2>3, <3>1 DEF AdmissionInv, MediaToggled
  <2>5. CASE Left(j)
    <3>1. data[id].pub \/ data[id].joined
      BY <1>1, <1>5, <2>5 DEF Left, TypeInv, ServerTypes, DataRow
    <3> QED BY <1>3, <3>1 DEF AdmissionInv
  <2>4. CASE UNCHANGED data
    BY <1>3, <1>5, <2>4 DEF AdmissionInv
  <2> QED BY <2>1, <2>2, <2>3, <2>4, <2>5
          DEF HandlerStep, JoinAnnounced, TakeSnapshot, HandAnnounced, HandRejected, Bye
<1>6. ASSUME NEW k \in Sockets, NEW m \in MailTo(inbox', k), m.kind = "ack" PROVE Admitted(k)'
  <2>1. CASE m \in MailTo(inbox, k)
    BY <1>3, <1>6, <2>1 DEF AdmissionInv
  <2>2. CASE m \notin MailTo(inbox, k)
    BY <1>2, <1>6, <2>2, HandlerMail DEF LeftMessage
  <2> QED BY <2>1, <2>2
<1>7. ASSUME NEW p \in Pages, page'[p].at = "on" PROVE Admitted(Mine(p))'
  <2>1. page' = page
    BY DEF pageVars
  <2>2. Mine(p) \in Sockets /\ Admitted(Mine(p))
    BY <1>7, <2>1 DEF TypeInv, PageTypes, Connected, AdmissionInv
  <2>3. PICK x : x = Mine(p)
    OBVIOUS
  <2>4. Admitted(x)' /\ x = Mine(p)'
    BY <1>3, <2>1, <2>2, <2>3 DEF Mine
  <2> QED BY <2>4
<1>8. ASSUME NEW p \in Pages, Connected(p)' PROVE link'[Mine(p)'] # "free"
  <2>1. PICK x \in Sockets : x = Mine(p) /\ x = Mine(p)' /\ link[x] # "free"
    BY <1>8 DEF TypeInv, PageTypes, Connected, AdmissionInv, Mine, pageVars
  <2>2. link'[x] # "free"
    BY <1>1, <2>1 DEF Forward
  <2> QED BY <2>1, <2>2
<1> QED
  BY <1>2, <1>4, <1>5, <1>6, <1>7, <1>8 DEF AdmissionInv

LEMMA NoticedAdmission ==
  ASSUME TypeInv, AdmissionInv, NEW gone \in Sockets, Noticed(gone)
  PROVE  AdmissionInv'
<1>1. (\A x \in Sockets : Forward(x)) /\ \A x \in Sockets : Admitted(x) => Admitted(x)'
  BY NoticedForward DEF Forward
<1>2. /\ UNCHANGED <<owner, data, inbox, page>> /\ room' \subseteq room /\ link' = [link EXCEPT ![gone] = "down"]
      /\ jobs' = IF data[gone].joined THEN jobs \cup {Job("bye", gone)} ELSE jobs
  BY DEF Noticed, Disconnect, pageVars
<1>3. \A k \in jobs' : k \in jobs \/ JobAdmitted(k)'
  <2>1. ASSUME data[gone].joined, NEW bye, bye = Job("bye", gone) PROVE JobAdmitted(bye)'
    <3>1. Admitted(gone)'
      BY <1>1, <2>1 DEF AdmissionInv
    <3>2. bye.id = gone /\ bye.kind = "bye"
      BY <2>1 DEF Job
    <3> QED BY <3>1, <3>2 DEF JobAdmitted, Admitted
  <2> QED BY <1>2, <2>1
<1>4. JobsAdmitted'
  BY <1>1, <1>3, JobsStayAdmitted DEF AdmissionInv
<1>5. \A id \in room' : Admitted(id)'
  BY <1>1, <1>2 DEF AdmissionInv, TypeInv, ServerTypes
<1>6. ASSUME NEW p \in Pages, page[p].at = "on" PROVE Admitted(Mine(p))'
  <2>1. PICK x \in Sockets : x = Mine(p) /\ x = Mine(p)' /\ Admitted(x)
    BY <1>2, <1>6 DEF TypeInv, PageTypes, Connected, AdmissionInv, Mine
  <2>2. Admitted(x)'
    BY <1>1, <2>1
  <2> QED BY <2>1, <2>2
<1>7. ASSUME NEW p \in Pages, Connected(p)' PROVE link'[Mine(p)'] # "free"
  <2>1. PICK x \in Sockets : x = Mine(p) /\ x = Mine(p)' /\ link[x] # "free"
    BY <1>2, <1>7 DEF TypeInv, PageTypes, Connected, AdmissionInv, Mine
  <2>2. link'[x] # "free"
    BY <1>1, <2>1 DEF Forward
  <2> QED BY <2>1, <2>2
<1> QED
  BY <1>1, <1>2, <1>4, <1>5, <1>6, <1>7 DEF AdmissionInv

-----------------------------------------------------------------------------
(* What a page's step makes of the server's state and of the pages.         *)

\* Only hands are set by a page itself.
LEMMA PageStepData ==
  ASSUME TypeInv, NEW p \in Pages, PageStep(p), NEW id \in Sockets
  PROVE  data'[id].pub = data[id].pub /\ data'[id].joined = data[id].joined /\ data'[id].mic = data[id].mic
<1>1. \A m \in Sockets : \A raised :
        /\ HandSet(data, m, raised)[id].pub = data[id].pub /\ HandSet(data, m, raised)[id].mic = data[id].mic
        /\ HandSet(data, m, raised)[id].joined = data[id].joined
  BY DEF HandSet, TypeInv, ServerTypes, DataRow
<1>2. CASE RaiseHand(p) \/ LeaveStage(p)
  <2>1. Mine(p) \in Sockets
    BY <1>2 DEF TypeInv, PageTypes, Connected, RaiseHand, LeaveStage, InClass
  <2>2. PICK raised : data' = HandSet(data, Mine(p), raised)
    BY <1>2 DEF RaiseHand, LeaveStage
  <2> QED BY <1>1, <2>1, <2>2
<1>3. CASE UNCHANGED data
  BY <1>3
<1> QED
  BY <1>2, <1>3
     DEF PageStep, Button, Signals, Visit, Reconnect, Connects, Drop, Close, Granted, Denied, ToggleMic,
         GoLive, StopLive, OpenWebcam, CloseWebcam, AnswerHand, Deliver, Negotiate, AnswerSet, ConnectionFails, serverVars

LEMMA PageStepRoom ==
  ASSUME NEW p \in Pages, PageStep(p)
  PROVE  room' \subseteq room
BY DEF PageStep, Button, Signals, Visit, Reconnect, Connects, Drop, Close, Granted, Denied, RaiseHand,
       LeaveStage, ToggleMic, GoLive, StopLive, OpenWebcam, CloseWebcam, AnswerHand, Deliver, Negotiate,
       AnswerSet, ConnectionFails, serverVars

\* The handlers a page's step may start.
Starts(p, k) ==
  \/ \E id \in Sockets : Connects(p, id) /\ k = Job("join", id)
  \/ Close(p) /\ k = Job("leave", Mine(p))
  \/ k.kind \in {"raise", "toggle"} /\ k.id = Mine(p) /\ data[Mine(p)].joined
  \/ /\ k.kind \in {"accept", "reject"} /\ k.id = Mine(p) /\ page[p].at = "on"
     /\ k.student \in Sockets /\ \E x \in view[p] : x.id = k.student

LEMMA PageStepJobs ==
  ASSUME TypeInv, NEW p \in Pages, PageStep(p), NEW k \in jobs', k \notin jobs
  PROVE  Starts(p, k)
<1>1. \A a, b : /\ \A j \in ToggleJobs(Mine(p), a, b) : j.kind = "toggle" /\ j.id = Mine(p) /\ data[Mine(p)].joined
                /\ \A j \in RaiseJobs(Mine(p), a) : j.kind = "raise" /\ j.id = Mine(p) /\ data[Mine(p)].joined
  BY DEF ToggleJobs, Toggle, RaiseJobs
<1>2. CASE RaiseHand(p) \/ LeaveStage(p) \/ Granted(p) \/ ToggleMic(p) \/ OpenWebcam(p) \/ CloseWebcam(p)
  BY <1>1, <1>2 DEF RaiseHand, LeaveStage, Granted, ToggleMic, OpenWebcam, CloseWebcam, Starts
<1>3. ASSUME NEW id \in Sockets, Connects(p, id) PROVE Starts(p, k)
  BY <1>3 DEF Connects, Starts
<1>4. CASE Close(p)
  BY <1>4 DEF Close, Starts
<1>5. ASSUME NEW id \in Sockets, NEW answer \in {"accept", "reject"}, AnswerHand(p, id, answer)
      PROVE  Starts(p, k)
  <2>1. k = [kind |-> answer, id |-> Mine(p), student |-> id]
    BY <1>5 DEF AnswerHand
  <2> QED BY <1>5, <2>1 DEF AnswerHand, InClass, Starts
<1>6. CASE UNCHANGED jobs
  BY <1>6
<1> QED
  BY <1>2, <1>3, <1>4, <1>5, <1>6
     DEF PageStep, Button, Signals, Visit, Reconnect, Drop, Denied, GoLive, StopLive, Deliver, Negotiate,
         AnswerSet, ConnectionFails, serverVars

\* Where a page is, and on which connection, after a page's step.  Who comes
\* into the class does so on the acknowledgement, and on the connection it
\* asked with.
LEMMA PageStepWays ==
  ASSUME TypeInv, NEW p \in Pages, PageStep(p), NEW q \in Pages
  PROVE  \/ page'[q].at = page[q].at /\ page'[q].socket = Mine(q)
         \/ /\ q = p /\ page'[q].socket = Mine(q) /\ Connected(p) /\ page'[q].at = "on"
            /\ inbox[Mine(p)] # <<>> /\ Head(inbox[Mine(p)]).kind = "ack"
         \/ q = p /\ page'[q].at = "connecting" /\ page'[q].socket \in Sockets /\ Connects(p, page'[q].socket)
         \/ q = p /\ page'[q].at = "dropped" /\ page'[q].socket = Mine(q) /\ Drop(p)
         \/ q = p /\ page'[q].at = "closed" /\ page'[q].socket = Mine(q) /\ Close(p)
<1>1. page \in [Pages -> Page] /\ page[p] \in Page
  BY DEF TypeInv, PageTypes
<1>2. ASSUME NEW next, page' = [page EXCEPT ![p] = next], next.at = page[p].at, next.socket = Mine(p)
      PROVE  page'[q].at = page[q].at /\ page'[q].socket = Mine(q)
  BY <1>1, <1>2 DEF Mine
<1>3. ASSUME NEW id \in Sockets, Connects(p, id)
      PROVE  \/ page'[q].at = page[q].at /\ page'[q].socket = Mine(q)
             \/ /\ q = p /\ page'[q].at = "connecting" /\ page'[q].socket \in Sockets
                /\ Connects(p, page'[q].socket)
  <2>1. PICK next : next = [page[p] EXCEPT !.at = "connecting", !.socket = id]
    OBVIOUS
  <2>2. next.at = "connecting" /\ next.socket = id
    BY <1>1, <2>1 DEF Page
  <2>3. page' = [page EXCEPT ![p] = next]
    BY <1>3, <2>1 DEF Connects
  <2>4. CASE q = p
    BY <1>1, <1>3, <2>2, <2>3, <2>4
  <2>5. CASE q # p
    BY <1>1, <2>3, <2>5 DEF Mine
  <2> QED BY <2>4, <2>5
<1>4. CASE Drop(p) \/ Close(p)
  <2>1. CASE Drop(p)
    <3>1. PICK next : next = [page[p] EXCEPT !.at = "dropped"]
      OBVIOUS
    <3>2. next.at = "dropped" /\ next.socket = Mine(p) /\ page' = [page EXCEPT ![p] = next]
      BY <1>1, <2>1, <3>1 DEF Page, Mine, Drop
    <3> QED BY <1>1, <2>1, <3>2 DEF Mine
  <2>2. CASE Close(p)
    <3>1. PICK next : next = [page[p] EXCEPT !.at = "closed", !.main = NoStream, !.cams = {}, !.asking = 0]
      OBVIOUS
    <3>2. next.at = "closed" /\ next.socket = Mine(p) /\ page' = [page EXCEPT ![p] = next]
      BY <1>1, <2>2, <3>1 DEF Page, Mine, Close
    <3> QED BY <1>1, <2>2, <3>2 DEF Mine
  <2> QED BY <1>4, <2>1, <2>2
<1>5. ASSUME NEW stream \in Stream, OnStage(p, stream)
      PROVE  page'[q].at = page[q].at /\ page'[q].socket = Mine(q)
  <2>1. PICK next : next = Staged(page[p], stream)
    OBVIOUS
  <2>2. next.at = page[p].at /\ next.socket = Mine(p)
    BY <1>1, <2>1 DEF Staged, Page, Mine
  <2>3. page' = [page EXCEPT ![p] = next]
    BY <1>1, <1>5, <2>1 DEF OnStage
  <2> QED BY <1>2, <2>2, <2>3
<1>6. CASE Granted(p) \/ GoLive(p)
  BY <1>5, <1>6, NextStream DEF Granted, GoLive, TypeInv
<1>7. CASE Denied(p)
  <2>1. PICK asking : asking = page[p].asking - 1
    OBVIOUS
  <2>2. PICK next : next = [page[p] EXCEPT !.asking = asking]
    OBVIOUS
  <2>3. next.at = page[p].at /\ next.socket = Mine(p)
    BY <1>1, <2>2 DEF Page, Mine
  <2>4. page' = [page EXCEPT ![p] = next]
    BY <1>1, <1>7, <2>1, <2>2 DEF Denied
  <2> QED BY <1>2, <2>3, <2>4
<1>8. CASE LeaveStage(p) \/ StopLive(p)
  <2>1. PICK mic : \/ page' = [page EXCEPT ![p] = [page[p] EXCEPT !.main = NoStream, !.mic = mic]]
                   \/ page' = [page EXCEPT ![p] = [page[p] EXCEPT !.main = NoStream]]
    BY <1>8 DEF LeaveStage, StopLive
  <2>2. PICK next : /\ page' = [page EXCEPT ![p] = next]
                    /\ \/ next = [page[p] EXCEPT !.main = NoStream, !.mic = mic]
                       \/ next = [page[p] EXCEPT !.main = NoStream]
    BY <2>1
  <2>3. next.at = page[p].at /\ next.socket = Mine(p)
    BY <1>1, <2>2 DEF Page, Mine
  <2> QED BY <1>2, <2>2, <2>3
<1>9. CASE ToggleMic(p)
  <2>1. PICK mic : mic = ~page[p].mic
    OBVIOUS
  <2>2. PICK next : next = [page[p] EXCEPT !.mic = mic]
    OBVIOUS
  <2>3. next.at = page[p].at /\ next.socket = Mine(p)
    BY <1>1, <2>2 DEF Page, Mine
  <2>4. page' = [page EXCEPT ![p] = next]
    BY <1>1, <1>9, <2>1, <2>2 DEF ToggleMic
  <2> QED BY <1>2, <2>3, <2>4
<1>10. CASE OpenWebcam(p) \/ CloseWebcam(p)
  <2>1. PICK cams, used : \/ page' = [page EXCEPT ![p] = [@ EXCEPT !.cams = cams, !.used = used]]
                          \/ page' = [page EXCEPT ![p].cams = cams]
    BY <1>10 DEF OpenWebcam, CloseWebcam
  <2>2. PICK next : /\ page' = [page EXCEPT ![p] = next]
                    /\ \/ next = [page[p] EXCEPT !.cams = cams, !.used = used]
                       \/ next = [page[p] EXCEPT !.cams = cams]
    BY <1>1, <2>1
  <2>3. next.at = page[p].at /\ next.socket = Mine(p)
    BY <1>1, <2>2 DEF Page, Mine
  <2> QED BY <1>2, <2>2, <2>3
<1>11. CASE Deliver(p)
  <2>1. PICK m : m = Head(inbox[Mine(p)])
    OBVIOUS
  <2>2. Connected(p) /\ inbox[Mine(p)] # <<>>
    BY <1>11 DEF Deliver
  <2>3. ASSUME OnState(p, m)
        PROVE  \/ page'[q].at = page[q].at /\ page'[q].socket = Mine(q)
               \/ q = p /\ page'[q].socket = Mine(q) /\ page'[q].at = "on" /\ m.kind = "ack"
    <3>1. PICK at : at = IF m.kind = "ack" THEN "on" ELSE page[p].at
      OBVIOUS
    <3>2. PICK next : next = [page[p] EXCEPT !.at = at]
      OBVIOUS
    <3>3. next.at = at /\ next.socket = Mine(p)
      BY <1>1, <3>2 DEF Page, Mine
    <3>4. page' = [page EXCEPT ![p] = next]
      BY <1>1, <2>3, <3>1, <3>2 DEF OnState
    <3> QED BY <1>1, <3>1, <3>3, <3>4 DEF Mine
  <2>4. CASE OnAccepted(p, m.from)
    <3>1. PICK asking : page' = [page EXCEPT ![p].accepted = m.from, ![p].asking = asking]
      <4>1. PICK asking : asking = IF page[p].accepted # m.from /\ page[p].main = NoStream
                                   THEN page[p].asking + 1 ELSE page[p].asking
        OBVIOUS
      <4> QED BY <1>1, <2>4, <4>1 DEF OnAccepted, Page
    <3>2. PICK next : next = [page[p] EXCEPT !.accepted = m.from, !.asking = asking]
      OBVIOUS
    <3>3. next.at = page[p].at /\ next.socket = Mine(p)
      BY <1>1, <3>2 DEF Page, Mine
    <3>4. page' = [page EXCEPT ![p] = next]
      BY <1>1, <3>1, <3>2
    <3> QED BY <1>2, <3>3, <3>4
  <2>5. CASE page' = [page EXCEPT ![p].accepted = NoSocket]
    <3>1. PICK next : next = [page[p] EXCEPT !.accepted = NoSocket]
      OBVIOUS
    <3>2. next.at = page[p].at /\ next.socket = Mine(p)
      BY <1>1, <3>1 DEF Page, Mine
    <3>3. page' = [page EXCEPT ![p] = next]
      BY <1>1, <2>5, <3>1
    <3> QED BY <1>2, <3>2, <3>3
  <2>6. CASE UNCHANGED page
    BY <2>6 DEF Mine
  <2>7. \/ OnState(p, m) \/ OnAccepted(p, m.from) \/ UNCHANGED page
        \/ page' = [page EXCEPT ![p].accepted = NoSocket]
    BY <1>11, <2>1 DEF Deliver, OnJoined, OnLeft, OnGone
  <2> QED BY <2>1, <2>2, <2>3, <2>4, <2>5, <2>6, <2>7
<1>12. CASE UNCHANGED page
  BY <1>12 DEF Mine
<1> QED
  BY <1>3, <1>4, <1>6, <1>7, <1>8, <1>9, <1>10, <1>11, <1>12
     DEF PageStep, Button, Signals, Visit, Reconnect, RaiseHand, AnswerHand, Negotiate, AnswerSet, ConnectionFails

LEMMA PageStepBack ==
  ASSUME TypeInv, AdmissionInv, NEW p \in Pages, PageStep(p), NEW id \in Sockets, Admitted(id)'
  PROVE  Admitted(id) /\ owner'[id] = owner[id]
<1>1. jobs \subseteq jobs'
  BY DEF PageStep, Button, Signals, Visit, Reconnect, Connects, Drop, Close, Granted, Denied, RaiseHand,
         LeaveStage, ToggleMic, GoLive, StopLive, OpenWebcam, CloseWebcam, AnswerHand, Deliver, Negotiate,
         AnswerSet, ConnectionFails, serverVars
<1>2. link[id] # "free"
  <2>1. ASSUME NEW new \in Sockets, Connects(p, new) PROVE link[id] # "free"
    <3>1. id # new
      BY <2>1 DEF Connects, Admitted
    <3> QED BY <2>1, <3>1 DEF Connects, Admitted, TypeInv, ServerTypes
  <2>2. CASE Drop(p) \/ Close(p)
    <3>1. Connected(p)
      BY <2>2 DEF Drop, Close, Connected
    <3>2. link' = [link EXCEPT ![Mine(p)] = "lost"] /\ Mine(p) \in Sockets
      BY <2>2, <3>1 DEF Drop, Close, TypeInv, PageTypes
    <3>3. Mine(p) = id => link[id] # "free"
      BY <3>1 DEF AdmissionInv
    <3> QED BY <3>2, <3>3 DEF Admitted, TypeInv, ServerTypes
  <2>3. CASE UNCHANGED link
    BY <2>3 DEF Admitted
  <2> QED BY <2>1, <2>2, <2>3
          DEF PageStep, Button, Signals, Visit, Reconnect, Granted, Denied, RaiseHand, LeaveStage, ToggleMic,
              GoLive, StopLive, OpenWebcam, CloseWebcam, AnswerHand, Deliver, Negotiate, AnswerSet, ConnectionFails, serverVars
<1> QED
  BY <1>1, <1>2, PageStepForward DEF Admitted, Forward

\* What a page shows it showed before or has just been told.
LEMMA PageStepView ==
  ASSUME TypeInv, NEW p \in Pages, PageStep(p), NEW q \in Pages, NEW x \in view'[q]
  PROVE  x \in view[q] \/ (q = p /\ \E m \in MailTo(inbox, Mine(p)) : x \in Told(m))
<1>1. CASE Deliver(p)
  <2>1. PICK m : m = Head(inbox[Mine(p)])
    OBVIOUS
  <2>2. Connected(p) /\ inbox[Mine(p)] # <<>> /\ Mine(p) \in Sockets
    BY <1>1 DEF Deliver, TypeInv, PageTypes
  <2>3. m \in MailTo(inbox, Mine(p))
    BY <2>1, <2>2, FirstMail DEF TypeInv
  <2>4. \/ m.kind \in {"ack", "state"} /\ view' = [view EXCEPT ![p] = m.participants]
        \/ m.kind = "joined" /\ view' = [view EXCEPT ![p] = WithJoined(@, m.about)]
        \/ view' = [view EXCEPT ![p] = Without(@, m.from)]
        \/ m.kind = "updated" /\ view' = [view EXCEPT ![p] = Updated(@, m.about)]
        \/ view' = view
    BY <1>1, <2>1 DEF Deliver, OnState, OnJoined, OnLeft, OnGone, OnAccepted
  <2>5. /\ \A S, id, y : y \in Without(S, id) => y \in S
        /\ \A S, z, y : y \in WithJoined(S, z) \/ y \in Updated(S, z) => y \in S \/ y = z
    BY DEF Without, WithJoined, Updated
  <2>6. x \in view[q] \/ (q = p /\ x \in Told(m))
    BY <2>4, <2>5 DEF Told, TypeInv, PageTypes
  <2> QED BY <2>3, <2>6
<1>2. CASE UNCHANGED view
  BY <1>2
<1> QED
  BY <1>1, <1>2
     DEF PageStep, Button, Signals, Visit, Reconnect, Connects, Drop, Close, Granted, Denied, RaiseHand,
         LeaveStage, ToggleMic, GoLive, StopLive, OpenWebcam, CloseWebcam, AnswerHand, Negotiate, AnswerSet, ConnectionFails

LEMMA PageStepAdmission ==
  ASSUME TypeInv, AdmissionInv, MicsInv, NEW p \in Pages, PageStep(p)
  PROVE  AdmissionInv'
<1>1. (\A x \in Sockets : Forward(x)) /\ \A x \in Sockets : Admitted(x) => Admitted(x)'
  BY PageStepForward DEF Forward
<1>2. page[p].at = "on" => Mine(p) \in Sockets /\ Admitted(Mine(p))
  BY DEF TypeInv, PageTypes, Connected, AdmissionInv
<1>3. ASSUME NEW k \in jobs', k \notin jobs PROVE JobAdmitted(k)'
  <2>1. Starts(p, k)
    BY <1>3, PageStepJobs
  <2>2. ASSUME NEW id \in Sockets, Connects(p, id), k = Job("join", id) PROVE JobAdmitted(k)'
    BY <2>2 DEF JobAdmitted, Job, Connects, TypeInv, ServerTypes
  <2>3. CASE Close(p) /\ k = Job("leave", Mine(p))
    <3>1. k.id = Mine(p) /\ k.kind = "leave" /\ Connected(p)
      BY <2>3 DEF Job, Close
    <3>2. Mine(p) \in Sockets /\ link'[Mine(p)] # "free"
      BY <1>1, <3>1 DEF TypeInv, PageTypes, AdmissionInv, Forward
    <3> QED BY <3>1, <3>2 DEF JobAdmitted
  <2>4. CASE k.kind \in {"raise", "toggle"} /\ k.id = Mine(p) /\ data[Mine(p)].joined
    <3>1. k.id \in Sockets
      BY <1>3, JobFields, PageStepTypes DEF TypeInv, ServerTypes
    <3>2. Admitted(k.id)'
      BY <1>1, <2>4, <3>1 DEF AdmissionInv
    <3> QED BY <2>4, <3>2 DEF JobAdmitted, Admitted
  <2>5. CASE /\ k.kind \in {"accept", "reject"} /\ k.id = Mine(p) /\ page[p].at = "on"
             /\ k.student \in Sockets /\ \E x \in view[p] : x.id = k.student
    <3>1. Admitted(k.id)' /\ Admitted(k.student)'
      BY <1>1, <1>2, <2>5 DEF MicsInv, Fair
    <3> QED BY <2>5, <3>1 DEF JobAdmitted, Admitted
  <2> QED BY <2>1, <2>2, <2>3, <2>4, <2>5 DEF Starts
<1>4. JobsAdmitted'
  BY <1>1, <1>3, JobsStayAdmitted DEF AdmissionInv
<1>5. \A id \in room' : Admitted(id)'
  BY <1>1, PageStepRoom DEF AdmissionInv, TypeInv, ServerTypes
<1>6. ASSUME NEW id \in Sockets, data'[id].pub \/ data'[id].joined PROVE Admitted(id)'
  BY <1>1, <1>6, PageStepData DEF AdmissionInv
<1>7. ASSUME NEW k \in Sockets, NEW m \in MailTo(inbox', k), m.kind = "ack" PROVE Admitted(k)'
  <2>1. CASE m \in MailTo(inbox, k)
    BY <1>1, <1>7, <2>1 DEF AdmissionInv
  <2>2. CASE m \notin MailTo(inbox, k)
    BY <1>7, <2>2, PageStepMail DEF PageSays, LeftMessage
  <2> QED BY <2>1, <2>2
<1>8. ASSUME NEW q \in Pages, page'[q].at = "on" PROVE Admitted(Mine(q))'
  <2>1. \/ page[q].at = "on" /\ page'[q].socket = Mine(q)
        \/ /\ q = p /\ page'[q].socket = Mine(q) /\ Connected(p)
           /\ inbox[Mine(p)] # <<>> /\ Head(inbox[Mine(p)]).kind = "ack"
    BY <1>8, PageStepWays DEF Connected
  <2>2. Mine(q) \in Sockets /\ Admitted(Mine(q))
    <3>1. CASE page[q].at = "on"
      BY <3>1 DEF TypeInv, PageTypes, Connected, AdmissionInv
    <3>2. CASE /\ q = p /\ Connected(p)
               /\ inbox[Mine(p)] # <<>> /\ Head(inbox[Mine(p)]).kind = "ack"
      <4>1. PICK m : m = Head(inbox[Mine(p)])
        OBVIOUS
      <4>2. Mine(p) \in Sockets /\ m \in MailTo(inbox, Mine(p)) /\ m.kind = "ack"
        BY <3>2, <4>1, FirstMail DEF TypeInv, PageTypes
      <4> QED BY <3>2, <4>2 DEF AdmissionInv
    <3> QED BY <2>1, <3>1, <3>2
  <2>3. PICK x \in Sockets : x = Mine(q) /\ x = Mine(q)' /\ Admitted(x)
    BY <2>1, <2>2 DEF Mine
  <2>4. Admitted(x)'
    BY <1>1, <2>3
  <2> QED BY <2>3, <2>4
<1>9. ASSUME NEW q \in Pages, Connected(q)' PROVE link'[Mine(q)'] # "free"
  <2>1. CASE Connected(q) /\ page'[q].socket = Mine(q)
    <3>1. PICK x \in Sockets : x = Mine(q) /\ x = Mine(q)' /\ link[x] # "free"
      BY <2>1 DEF TypeInv, PageTypes, AdmissionInv, Mine
    <3>2. link'[x] # "free"
      BY <1>1, <3>1 DEF Forward
    <3> QED BY <3>1, <3>2
  <2>2. CASE page'[q].socket \in Sockets /\ Connects(p, page'[q].socket)
    BY <2>2 DEF Connects, Mine, TypeInv, ServerTypes
  <2> QED BY <1>9, <2>1, <2>2, PageStepWays DEF Connected
<1> QED
  BY <1>4, <1>5, <1>6, <1>7, <1>8, <1>9 DEF AdmissionInv

-----------------------------------------------------------------------------
(* Microphones.                                                             *)

LEMMA FairTold ==
  ASSUME MailTypes, NEW k \in Sockets, NEW m \in MailTo(inbox, k), NEW x \in Told(m)
  PROVE  x \in Participant
<1>1. m \in Message
  BY MailTyped
<1> QED
  BY <1>1, MessageFields DEF Told, Roster

\* Whoever is described is described fairly.
LEMMA DescribedFair ==
  ASSUME TypeInv, MicsInv, NEW id \in Sockets, Admitted(id), NEW x, x = Described(id)
  PROVE  x \in Participant /\ Fair(x)
<1>1. x \in Participant /\ x.id = id /\ x.mic = data[id].mic
  BY DescribedTyped DEF TypeInv
<1> QED
  BY <1>1 DEF Fair, MicsInv

LEMMA HandlerPubs ==
  ASSUME TypeInv, AdmissionInv, MicsInv, NEW j \in jobs, HandlerStep(j), NEW id \in Sockets
  PROVE  data'[id].mic => data'[id].pub
<1>1. j \in Jobs /\ j.id \in Sockets /\ JobAdmitted(j)
  BY JobFields DEF TypeInv, ServerTypes, AdmissionInv, JobsAdmitted
<1>2. data[id].mic => data[id].pub
  BY DEF MicsInv
<1>3. CASE JoinRoom(j)
  BY <1>1, <1>2, <1>3 DEF JoinRoom, TypeInv, ServerTypes, Entered
<1>4. CASE HandAccepted(j)
  BY <1>1, <1>2, <1>4, JobFields DEF HandAccepted, TypeInv, ServerTypes, DataRow
<1>5. CASE MediaToggled(j)
  <2>1. CASE MayToggle(j.id)
    <3>1. data[j.id].pub
      BY <1>1, <1>5, <2>1 DEF MediaToggled, MayToggle, MicsInv, JobAdmitted
    <3>2. PICK now :
            /\ now = [data[j.id] EXCEPT !.mic = Patched(@, j.mic), !.cam = Patched(@, j.cam)]
            /\ data' = [data EXCEPT ![j.id] = now]
      BY <1>5, <2>1 DEF MediaToggled
    <3>3. now.pub = data[j.id].pub
      BY <1>5, <3>2, ToggledTyped DEF MediaToggled
    <3> QED BY <1>1, <1>2, <3>1, <3>2, <3>3 DEF TypeInv, ServerTypes
  <2>2. CASE ~MayToggle(j.id)
    BY <1>2, <1>5, <2>2 DEF MediaToggled
  <2> QED BY <2>1, <2>2
<1>6. CASE Left(j)
  BY <1>1, <1>2, <1>6 DEF Left, TypeInv, ServerTypes, DataRow
<1>7. CASE UNCHANGED data
  BY <1>2, <1>7
<1> QED
  BY <1>3, <1>4, <1>5, <1>6, <1>7
     DEF HandlerStep, JoinAnnounced, TakeSnapshot, HandAnnounced, HandRejected, Bye

LEMMA HandlerTeachers ==
  ASSUME TypeInv, AdmissionInv, MicsInv, NEW j \in jobs, HandlerStep(j), NEW id \in Sockets,
         Admitted(id)', IsTeacher(id)'
  PROVE  data'[id].pub
<1>1. j \in Jobs /\ j.id \in Sockets /\ Forward(id)
  BY JobFields, HandlerForward DEF TypeInv, ServerTypes, AdmissionInv
<1>2. UNCHANGED <<owner, link>>
  BY DEF HandlerStep, JoinRoom, JoinAnnounced, TakeSnapshot, HandAnnounced, HandAccepted, HandRejected,
         MediaToggled, Left, Bye
<1>3. CASE Admitted(id)
  BY <1>1, <1>2, <1>3 DEF Forward, MicsInv, IsTeacher
<1>4. CASE ~Admitted(id)
  <2>1. Job("join", id) \in jobs /\ Job("join", id) \notin jobs'
    BY <1>2, <1>4 DEF Admitted
  <2>2. j = Job("join", id)
    BY <2>1 DEF HandlerStep, JoinRoom, JoinAnnounced, TakeSnapshot, SnapshotSent, HandAnnounced, HandAccepted,
                HandRejected, MediaToggled, Left, Bye, Continues
  <2>3. JoinRoom(j) /\ j.id = id
    BY <2>2 DEF HandlerStep, JoinRoom, JoinAnnounced, TakeSnapshot, HandAnnounced, HandAccepted,
                HandRejected, MediaToggled, Left, Bye, Job
  <2> QED BY <1>2, <2>3 DEF JoinRoom, Entered, IsTeacher, TypeInv, ServerTypes
<1> QED
  BY <1>3, <1>4

LEMMA HandlerMics ==
  ASSUME TypeInv, AdmissionInv, MicsInv, NEW j \in jobs, HandlerStep(j), UNCHANGED pageVars
  PROVE  MicsInv'
<1>1. /\ j \in Jobs /\ j.id \in Sockets /\ JobAdmitted(j)
      /\ \A x \in Sockets : Forward(x)
  BY JobFields, HandlerForward DEF TypeInv, ServerTypes, AdmissionInv, JobsAdmitted
<1>2. /\ j.kind # "leave" => Admitted(j.id)'
      /\ \A id \in Sockets : data'[id].mic => data'[id].pub
  BY HandlerAdmits, HandlerPubs DEF AdmissionInv
<1>3. \A x \in Participant : Fair(x) => Fair(x)'
  BY <1>1, StaysFair
<1>4. \A k \in jobs : k.kind = "snapshot" => \A x \in k.got : x \in Participant /\ Fair(x)'
  BY <1>3, SnapshotFields DEF MicsInv, TypeInv, ServerTypes, Roster
<1>5. ASSUME j.kind = "snapshot", NEW y \in j.rest, NEW x, x = Described(y) PROVE Fair(x)'
  <2>1. y \in Sockets /\ Admitted(y)
    BY <1>1, <1>5, SnapshotFields DEF JobAdmitted
  <2> QED BY <1>3, <1>5, <2>1, DescribedFair
<1>6. ASSUME NEW k \in jobs', k.kind = "snapshot", NEW x \in k.got PROVE Fair(x)'
  <2>1. CASE k \in jobs
    BY <1>4, <1>6, <2>1
  <2>2. CASE TakeSnapshot(j) /\ k \notin jobs
    <3>1. PICK y \in j.rest : k = Read(j, y)
      BY <2>2 DEF TakeSnapshot, SnapshotSent, Continues
    <3>2. j.kind = "snapshot" /\ k.got = j.got \cup {Described(y)}
      BY <2>2, <3>1, ReadMore DEF TakeSnapshot
    <3>3. x \in j.got \/ x = Described(y)
      BY <1>6, <3>2
    <3> QED BY <1>4, <1>5, <3>2, <3>3
  <2>3. CASE k \notin jobs /\ ~TakeSnapshot(j)
    <3>1. k.got = {}
      BY <1>6, <2>3 DEF HandlerStep, JoinRoom, JoinAnnounced, HandAnnounced, HandAccepted, HandRejected,
                MediaToggled, Left, Bye, Continues, Snapshot, Job
    <3> QED BY <1>6, <3>1
  <2> QED BY <2>1, <2>2, <2>3
<1>7. ASSUME NEW k \in Sockets, NEW m \in MailTo(inbox', k), NEW x \in Told(m) PROVE Fair(x)'
  <2>1. CASE m \in MailTo(inbox, k)
    <3>1. x \in Participant /\ Fair(x)
      BY <1>7, <2>1, FairTold DEF TypeInv, MicsInv
    <3> QED BY <1>3, <3>1
  <2>2. CASE m \notin MailTo(inbox, k)
    <3>1. \/ m.kind \in {"accepted", "rejected"}
          \/ m = LeftMessage(j.id)
          \/ m.kind \in {"joined", "updated"} /\ m.about.id = j.id /\ m.about.mic = data'[j.id].mic
          \/ /\ j.kind = "snapshot" /\ m.kind \in {"ack", "state"}
             /\ \A y \in m.participants : y \in j.got \/ \E z \in j.rest : y = Described(z)
      BY <2>2, HandlerMail
    <3>2. CASE m.kind \in {"joined", "updated"} /\ m.about.id = j.id /\ m.about.mic = data'[j.id].mic
      <4>1. x.id = j.id /\ x.mic = data'[j.id].mic
        BY <1>7, <3>2 DEF Told
      <4>2. j.kind # "leave"
        BY <2>2 DEF HandlerStep, JoinRoom, JoinAnnounced, TakeSnapshot, HandAnnounced, HandAccepted,
                    HandRejected, MediaToggled, Left, Bye
      <4> QED BY <1>1, <1>2, <4>1, <4>2 DEF Fair
    <3>3. CASE /\ j.kind = "snapshot" /\ m.kind \in {"ack", "state"}
               /\ \A y \in m.participants : y \in j.got \/ \E z \in j.rest : y = Described(z)
      <4>1. x \in j.got \/ \E z \in j.rest : x = Described(z)
        BY <1>7, <3>3 DEF Told
      <4> QED BY <1>4, <1>5, <3>3, <4>1
    <3>4. CASE m.kind \in {"accepted", "rejected"} \/ m = LeftMessage(j.id)
      BY <1>7, <3>4 DEF Told, LeftMessage
    <3> QED BY <3>1, <3>2, <3>3, <3>4
  <2> QED BY <2>1, <2>2
<1>8. ASSUME NEW p \in Pages, NEW x \in view'[p] PROVE Fair(x)'
  <2>1. x \in view[p] /\ x \in Participant
    BY <1>8 DEF pageVars, TypeInv, PageTypes, Roster
  <2> QED BY <1>3, <2>1 DEF MicsInv
<1>9. \A id \in Sockets : Admitted(id)' /\ IsTeacher(id)' => data'[id].pub
  BY HandlerTeachers
<1> QED
  BY <1>2, <1>6, <1>7, <1>8, <1>9 DEF MicsInv

LEMMA NoticedMics ==
  ASSUME TypeInv, MicsInv, NEW gone \in Sockets, Noticed(gone)
  PROVE  MicsInv'
<1>1. \A x \in Participant : Fair(x) => Fair(x)'
  BY NoticedForward, StaysFair
<1>2. /\ UNCHANGED <<owner, data, inbox, view>> /\ \A k \in jobs' : k \in jobs \/ k.kind = "bye"
      /\ \A id \in Sockets : Admitted(id)' => Admitted(id)
  BY DEF Noticed, Disconnect, pageVars, Job, Admitted, TypeInv, ServerTypes
<1>3. \A p \in Pages : \A x \in view'[p] : Fair(x)'
  BY <1>1, <1>2 DEF MicsInv, TypeInv, PageTypes, Roster
<1>4. ASSUME NEW id \in Sockets, NEW m \in MailTo(inbox', id), NEW x \in Told(m) PROVE Fair(x)'
  <2>1. x \in Participant /\ Fair(x)
    BY <1>2, <1>4, FairTold DEF MicsInv, TypeInv
  <2> QED BY <1>1, <2>1
<1>5. ASSUME NEW k \in jobs', k.kind = "snapshot", NEW x \in k.got PROVE Fair(x)'
  BY <1>1, <1>2, <1>5, SnapshotFields DEF MicsInv, TypeInv, ServerTypes, Roster
<1>6. \A id \in Sockets : Admitted(id)' /\ IsTeacher(id)' => data'[id].pub
  BY <1>2 DEF MicsInv, IsTeacher
<1> QED
  BY <1>2, <1>3, <1>4, <1>5, <1>6 DEF MicsInv

LEMMA PageStepMics ==
  ASSUME TypeInv, AdmissionInv, MicsInv, NEW p \in Pages, PageStep(p)
  PROVE  MicsInv'
<1>1. \A x \in Participant : Fair(x) => Fair(x)'
  BY PageStepForward, StaysFair
<1>2. \A id \in Sockets : data'[id].mic => data'[id].pub
  BY PageStepData DEF MicsInv
<1>3. \A id \in Sockets : Admitted(id)' /\ IsTeacher(id)' => data'[id].pub
  BY PageStepBack, PageStepData DEF MicsInv, IsTeacher
<1>4. ASSUME NEW k \in Sockets, NEW m \in MailTo(inbox, k), NEW x \in Told(m) PROVE Fair(x)'
  <2>1. x \in Participant /\ Fair(x)
    BY <1>4, FairTold DEF MicsInv, TypeInv
  <2> QED BY <1>1, <2>1
<1>5. ASSUME NEW q \in Pages, NEW x \in view'[q] PROVE Fair(x)'
  <2>1. CASE x \in view[q]
    BY <1>1, <2>1 DEF MicsInv, TypeInv, PageTypes, Roster
  <2>2. CASE x \notin view[q]
    <3>1. PICK m \in MailTo(inbox, Mine(p)) : x \in Told(m)
      BY <2>2, PageStepView
    <3>2. Mine(p) \in Sockets
      <4>1. Deliver(p)
        BY <2>2 DEF PageStep, Button, Signals, Visit, Reconnect, Connects, Drop, Close, Granted, Denied,
                    RaiseHand, LeaveStage, ToggleMic, GoLive, StopLive, OpenWebcam, CloseWebcam, AnswerHand,
                    Negotiate, AnswerSet, ConnectionFails
      <4> QED BY <4>1 DEF Deliver, TypeInv, PageTypes
    <3> QED BY <1>4, <3>1, <3>2
  <2> QED BY <2>1, <2>2
<1>6. ASSUME NEW k \in Sockets, NEW m \in MailTo(inbox', k), NEW x \in Told(m) PROVE Fair(x)'
  <2>1. CASE m \in MailTo(inbox, k)
    BY <1>4, <1>6, <2>1
  <2>2. CASE m \notin MailTo(inbox, k)
    BY <1>6, <2>2, PageStepMail DEF PageSays, Told, LeftMessage
  <2> QED BY <2>1, <2>2
<1>7. ASSUME NEW k \in jobs', k.kind = "snapshot", NEW x \in k.got PROVE Fair(x)'
  <2>1. k \in jobs
    BY <1>7, PageStepJobs DEF Starts, Job
  <2> QED BY <1>1, <1>7, <2>1, SnapshotFields DEF MicsInv, TypeInv, ServerTypes, Roster
<1> QED
  BY <1>2, <1>3, <1>5, <1>6, <1>7 DEF MicsInv

LEMMA NextMics ==
  TypeInv /\ AdmissionInv /\ MicsInv /\ [Next]_vars => (AdmissionInv /\ MicsInv)'
<1> SUFFICES ASSUME TypeInv, AdmissionInv, MicsInv, [Next]_vars PROVE (AdmissionInv /\ MicsInv)'
  OBVIOUS
<1>1. ASSUME NEW j \in jobs, HandlerStep(j), UNCHANGED pageVars PROVE (AdmissionInv /\ MicsInv)'
  BY <1>1, HandlerAdmission, HandlerMics
<1>2. ASSUME NEW id \in Sockets, Noticed(id) PROVE (AdmissionInv /\ MicsInv)'
  BY <1>2, NoticedAdmission, NoticedMics
<1>3. ASSUME NEW p \in Pages, PageStep(p) PROVE (AdmissionInv /\ MicsInv)'
  BY <1>3, PageStepAdmission, PageStepMics
<1>4. CASE UNCHANGED vars
  BY <1>4 DEF vars, serverVars, pageVars, AdmissionInv, JobsAdmitted, JobAdmitted, Admitted, MicsInv, Fair,
              IsTeacher, Mine, Connected
<1> QED
  BY <1>1, <1>2, <1>3, <1>4 DEF Next

LEMMA InitMics == Init => AdmissionInv /\ MicsInv
<1> SUFFICES ASSUME Init PROVE AdmissionInv /\ MicsInv
  OBVIOUS
<1>1. jobs = {} /\ room = {} /\ link = [id \in Sockets |-> "free"] /\ data = [id \in Sockets |-> Unjoined]
  BY DEF Init, ServerInit
<1>2. \A k \in Sockets : MailTo(inbox, k) = {}
  BY DEF Init, ServerInit, MailTo, MailOf
<1>3. \A p \in Pages : page[p].at = "away" /\ view[p] = {}
  BY DEF Init, NewPage
<1> QED
  BY <1>1, <1>2, <1>3 DEF AdmissionInv, JobsAdmitted, Admitted, MicsInv, Unjoined, Connected

LEMMA MicsAlways == Spec => [](AdmissionInv /\ MicsInv)
BY InitMics, NextMics, TypeInvAlways, PTL DEF Spec

\* No page of the class ever shows somebody with a microphone that no teacher
\* allowed on that very connection: whatever the page believes of its stage,
\* media:toggle checks the server's copy, and room:join resets it.
THEOREM MicsAllowed == Spec => []ShownMicsAreAllowed
<1>1. MicsInv => ShownMicsAreAllowed
  BY DEF MicsInv, Fair, ShownMicsAreAllowed, Class
<1> QED
  BY <1>1, MicsAlways, PTL

-----------------------------------------------------------------------------
(* Presence: which connection a page is on, and what the server knows of    *)
(* those that are.                                                          *)

GoneFor(id) == page[owner[id]].at = "closed"

PresenceInv ==
  /\ \A p \in Pages : Connected(p) => link[Mine(p)] = "up" /\ owner[Mine(p)] = p
  /\ \A id \in Sockets : link[id] = "up" => Connected(owner[id]) /\ Mine(owner[id]) = id
  /\ \A id \in Sockets :
       link[id] # "up" => MailTo(inbox, id) = {} /\ (Job("join", id) \in jobs => GoneFor(id))
  /\ \A id \in Sockets : Job("leave", id) \in jobs => link[id] # "up" /\ GoneFor(id)
  /\ \A id \in Sockets :
       link[id] \in {"up", "lost"} /\ ~GoneFor(id) /\ Admitted(id) => data[id].joined /\ id \in room

\* No handler makes a join or a leave of its own.
LEMMA HandlerComings ==
  ASSUME TypeInv, NEW j \in jobs, HandlerStep(j), NEW k \in jobs', k.kind \in {"join", "leave"}
  PROVE  k \in jobs
<1>1. CASE TakeSnapshot(j)
  <2>1. \A x \in j.rest : Read(j, x).kind = "snapshot"
    BY <1>1, ReadMore DEF TakeSnapshot
  <2> QED BY <1>1, <2>1 DEF TakeSnapshot, SnapshotSent, Continues
<1>2. CASE ~TakeSnapshot(j)
  BY <1>2 DEF HandlerStep, JoinRoom, JoinAnnounced, HandAnnounced, HandAccepted, HandRejected,
              MediaToggled, Left, Bye, Continues, Snapshot, Job
<1> QED
  BY <1>1, <1>2

\* What has joined stays so in a handler, but for the one of room:leave.
LEMMA HandlerJoined ==
  ASSUME TypeInv, NEW j \in jobs, HandlerStep(j), NEW id \in Sockets, data[id].joined
  PROVE  data'[id].joined \/ (Left(j) /\ id = j.id)
<1>1. j \in Jobs /\ j.id \in Sockets
  BY JobFields DEF TypeInv, ServerTypes
<1>2. CASE JoinRoom(j)
  BY <1>1, <1>2 DEF JoinRoom, Entered, TypeInv, ServerTypes
<1>3. CASE HandAccepted(j)
  BY <1>1, <1>3, JobFields DEF HandAccepted, TypeInv, ServerTypes, DataRow
<1>4. CASE MediaToggled(j)
  <2>1. CASE MayToggle(j.id)
    <3>1. PICK now :
            /\ now = [data[j.id] EXCEPT !.mic = Patched(@, j.mic), !.cam = Patched(@, j.cam)]
            /\ data' = [data EXCEPT ![j.id] = now]
      BY <1>4, <2>1 DEF MediaToggled
    <3>2. now.joined = data[j.id].joined
      BY <1>4, <3>1, ToggledTyped DEF MediaToggled
    <3> QED BY <1>1, <3>1, <3>2 DEF TypeInv, ServerTypes
  <2>2. CASE ~MayToggle(j.id)
    BY <1>4, <2>2 DEF MediaToggled
  <2> QED BY <2>1, <2>2
<1>5. CASE Left(j)
  BY <1>1, <1>5 DEF Left, TypeInv, ServerTypes, DataRow
<1>6. CASE UNCHANGED data
  BY <1>6
<1> QED
  BY <1>2, <1>3, <1>4, <1>5, <1>6
     DEF HandlerStep, JoinAnnounced, TakeSnapshot, HandAnnounced, HandRejected, Bye

LEMMA HandlerPresence ==
  ASSUME TypeInv, AdmissionInv, PresenceInv, NEW j \in jobs, HandlerStep(j), UNCHANGED pageVars
  PROVE  PresenceInv'
<1>1. j \in Jobs /\ j.id \in Sockets /\ JobAdmitted(j)
  BY JobFields DEF TypeInv, ServerTypes, AdmissionInv, JobsAdmitted
<1>2. UNCHANGED <<owner, link, page>>
  BY DEF HandlerStep, JoinRoom, JoinAnnounced, TakeSnapshot, HandAnnounced, HandAccepted, HandRejected,
         MediaToggled, Left, Bye, pageVars
<1>3. room \subseteq room'
  BY DEF HandlerStep, JoinRoom, JoinAnnounced, TakeSnapshot, HandAnnounced, HandAccepted, HandRejected,
         MediaToggled, Left, Bye
<1>4. \A id \in Sockets : /\ Job("join", id) \in jobs' => Job("join", id) \in jobs
                          /\ Job("leave", id) \in jobs' => Job("leave", id) \in jobs
  <2>1. \A id : Job("join", id).kind = "join" /\ Job("leave", id).kind = "leave"
    BY DEF Job
  <2> QED BY <2>1, HandlerComings
<1>5. ASSUME NEW id \in Sockets, link[id] # "up" PROVE MailTo(inbox', id) = {}
  BY <1>5, HandlerMail DEF Online, PresenceInv
<1>6. ASSUME NEW id \in Sockets, data[id].joined PROVE data'[id].joined \/ (Left(j) /\ id = j.id)
  BY <1>6, HandlerJoined
<1>7. ASSUME NEW id \in Sockets, link[id] \in {"up", "lost"}, ~GoneFor(id), Admitted(id)'
      PROVE  data'[id].joined /\ id \in room'
  <2>1. CASE Admitted(id)
    <3>1. data[id].joined /\ id \in room
      BY <1>7, <2>1 DEF PresenceInv
    <3>2. ~(Left(j) /\ id = j.id)
      <4>1. ASSUME Left(j), id = j.id PROVE FALSE
        <5>1. j = Job("leave", id)
          BY <1>1, <4>1, JobFields DEF Left
        <5> QED BY <1>7, <5>1 DEF PresenceInv
      <4> QED BY <4>1
    <3> QED BY <1>3, <1>6, <3>1, <3>2
  <2>2. CASE ~Admitted(id)
    <3>1. Job("join", id) \in jobs /\ Job("join", id) \notin jobs'
      BY <1>2, <1>7, <2>2 DEF Admitted
    <3>2. j = Job("join", id)
      BY <3>1 DEF HandlerStep, JoinRoom, JoinAnnounced, TakeSnapshot, SnapshotSent, HandAnnounced, HandAccepted,
                  HandRejected, MediaToggled, Left, Bye, Continues
    <3>3. JoinRoom(j) /\ j.id = id
      BY <3>2 DEF HandlerStep, JoinRoom, JoinAnnounced, TakeSnapshot, HandAnnounced, HandAccepted,
                  HandRejected, MediaToggled, Left, Bye, Job
    <3> QED BY <1>7, <3>3 DEF JoinRoom, Entered, TypeInv, ServerTypes
  <2> QED BY <2>1, <2>2
<1>8. \A p \in Pages : Connected(p)' => link'[Mine(p)'] = "up" /\ owner'[Mine(p)'] = p
  BY <1>2 DEF PresenceInv, Connected, Mine
<1>9. \A id \in Sockets : link'[id] = "up" => page'[owner'[id]].at \in {"connecting", "on"} /\ page'[owner'[id]].socket = id
  BY <1>2 DEF PresenceInv, Connected, Mine
<1> QED
  BY <1>2, <1>4, <1>5, <1>7, <1>8, <1>9 DEF PresenceInv, GoneFor, Connected, Mine

LEMMA NoticedPresence ==
  ASSUME TypeInv, AdmissionInv, PresenceInv, NEW gone \in Sockets, Noticed(gone)
  PROVE  PresenceInv'
<1>1. /\ UNCHANGED <<owner, data, inbox, page>> /\ room' = room \ {gone}
      /\ link[gone] = "lost" /\ link' = [link EXCEPT ![gone] = "down"]
      /\ \A k \in jobs' : k \in jobs \/ k.kind = "bye"
  BY DEF Noticed, Disconnect, pageVars, Job
<1>2. \A id \in Sockets : link'[id] = IF id = gone THEN "down" ELSE link[id]
  BY <1>1 DEF TypeInv, ServerTypes
<1>3. \A id \in Sockets : /\ Job("join", id) \in jobs' => Job("join", id) \in jobs
                          /\ Job("leave", id) \in jobs' => Job("leave", id) \in jobs
                          /\ Admitted(id)' /\ id # gone => Admitted(id)
  <2>1. \A id : Job("join", id).kind = "join" /\ Job("leave", id).kind = "leave"
    BY DEF Job
  <2>2. jobs \subseteq jobs'
    BY DEF Noticed, Disconnect
  <2> QED BY <1>1, <1>2, <2>1, <2>2 DEF Admitted
<1>4. ASSUME NEW p \in Pages, Connected(p) PROVE link'[Mine(p)] = "up"
  BY <1>1, <1>2, <1>4 DEF PresenceInv, TypeInv, PageTypes
<1> QED
  BY <1>1, <1>2, <1>3, <1>4 DEF PresenceInv, GoneFor, Connected, Mine

\* Every step of a page but those that open, lose or end a connection.
Steady(p) ==
  /\ PageStep(p)
  /\ ~Drop(p) /\ ~Close(p) /\ \A id \in Sockets : ~Visit(p, id) /\ ~Reconnect(p, id)

LEMMA SteadyLinks ==
  ASSUME NEW p \in Pages, Steady(p)
  PROVE  UNCHANGED <<owner, link, room>> /\ jobs \subseteq jobs'
BY DEF Steady, PageStep, Button, Signals, Granted, Denied, RaiseHand, LeaveStage, ToggleMic, GoLive,
       StopLive, OpenWebcam, CloseWebcam, AnswerHand, Deliver, Negotiate, AnswerSet, ConnectionFails, serverVars

LEMMA SteadyPages ==
  ASSUME TypeInv, PresenceInv, NEW p \in Pages, Steady(p), NEW q \in Pages
  PROVE  /\ page'[q].socket = Mine(q)
         /\ Connected(q)' <=> Connected(q)
         /\ page'[q].at = "closed" <=> page[q].at = "closed"
         /\ page[q].at = "on" => page'[q].at = "on"
         /\ \/ page'[q].at = page[q].at
            \/ /\ q = p /\ page[q].at = "connecting" /\ page'[q].at = "on"
               /\ inbox[Mine(p)] # <<>> /\ Head(inbox[Mine(p)]).kind = "ack"
<1>1. \A id \in Sockets : ~Connects(p, id)
  <2>1. ASSUME NEW id \in Sockets, Connects(p, id) PROVE FALSE
    <3>1. UNCHANGED link
      BY SteadyLinks
    <3> QED BY <2>1, <3>1 DEF Connects, TypeInv, ServerTypes
  <2> QED BY <2>1
<1>2. \/ page'[q].at = page[q].at /\ page'[q].socket = Mine(q)
      \/ /\ q = p /\ page'[q].socket = Mine(q) /\ Connected(p) /\ page'[q].at = "on"
         /\ inbox[Mine(p)] # <<>> /\ Head(inbox[Mine(p)]).kind = "ack"
  BY <1>1, PageStepWays DEF Steady
<1> QED
  BY <1>2 DEF Connected

LEMMA SteadyJobs ==
  ASSUME TypeInv, NEW p \in Pages, Steady(p), NEW k \in jobs', k.kind \in {"join", "leave", "bye"}
  PROVE  k \in jobs
<1>1. ASSUME k \notin jobs PROVE FALSE
  <2>1. Starts(p, k)
    BY <1>1, PageStepJobs DEF Steady
  <2>2. ASSUME NEW id \in Sockets, Connects(p, id) PROVE FALSE
    <3>1. UNCHANGED link
      BY SteadyLinks
    <3> QED BY <2>2, <3>1 DEF Connects, TypeInv, ServerTypes
  <2> QED BY <2>1, <2>2 DEF Starts, Steady
<1> QED
  BY <1>1

LEMMA SteadyPresence ==
  ASSUME TypeInv, AdmissionInv, PresenceInv, NEW p \in Pages, Steady(p)
  PROVE  PresenceInv'
<1>1. UNCHANGED <<owner, link, room>>
  BY SteadyLinks
<1>2. \A q \in Pages : /\ page'[q].socket = Mine(q)
                       /\ Connected(q)' <=> Connected(q)
                       /\ page'[q].at = "closed" <=> page[q].at = "closed"
  BY SteadyPages
<1>3. \A id \in Sockets : /\ Job("join", id) \in jobs' => Job("join", id) \in jobs
                          /\ Job("leave", id) \in jobs' => Job("leave", id) \in jobs
  <2>1. \A id : Job("join", id).kind = "join" /\ Job("leave", id).kind = "leave"
    BY DEF Job
  <2> QED BY <2>1, SteadyJobs
<1>4. ASSUME NEW id \in Sockets, link[id] # "up" PROVE MailTo(inbox', id) = {}
  BY <1>4, PageStepMail DEF PageSays, Online, PresenceInv, Steady
<1>5. \A id \in Sockets : (Admitted(id)' => Admitted(id)) /\ data'[id].joined = data[id].joined
  BY PageStepBack, PageStepData DEF Steady
<1>6. \A id \in Sockets : owner[id] \in Pages
  BY DEF TypeInv, ServerTypes
<1>7. ASSUME NEW q \in Pages, Connected(q)' PROVE link'[Mine(q)'] = "up" /\ owner'[Mine(q)'] = q
  BY <1>1, <1>2, <1>7 DEF PresenceInv, Mine
<1>8. ASSUME NEW id \in Sockets, link'[id] = "up" PROVE Connected(owner[id])' /\ Mine(owner[id])' = id
  BY <1>1, <1>2, <1>6, <1>8 DEF PresenceInv, Mine, Connected
<1>9. \A id \in Sockets : GoneFor(id)' <=> GoneFor(id)
  BY <1>1, <1>2, <1>6 DEF GoneFor
<1> QED
  BY <1>1, <1>3, <1>4, <1>5, <1>7, <1>8, <1>9 DEF PresenceInv

LEMMA ConnectsPresence ==
  ASSUME TypeInv, AdmissionInv, PresenceInv, NEW p \in Pages, ~Connected(p), page[p].at # "closed",
         NEW new \in Sockets, Connects(p, new)
  PROVE  PresenceInv'
<1>1. /\ link[new] = "free" /\ link' = [link EXCEPT ![new] = "up"] /\ owner' = [owner EXCEPT ![new] = p]
      /\ jobs' = jobs \cup {Job("join", new)} /\ UNCHANGED <<room, data, inbox>>
      /\ link \in [Sockets -> {"free", "up", "lost", "down"}] /\ owner \in [Sockets -> Pages]
  BY DEF Connects, TypeInv, ServerTypes
<1>2. \A q \in Pages : /\ q # p => page'[q].at = page[q].at /\ page'[q].socket = Mine(q)
                       /\ page'[p].at = "connecting" /\ page'[p].socket = new
  <2>1. PICK next : next = [page[p] EXCEPT !.at = "connecting", !.socket = new]
    OBVIOUS
  <2>2. page \in [Pages -> Page] /\ page[p] \in Page
    BY DEF TypeInv, PageTypes
  <2>3. next.at = "connecting" /\ next.socket = new
    BY <2>1, <2>2 DEF Page
  <2>4. page' = [page EXCEPT ![p] = next]
    BY <2>1, <2>2 DEF Connects
  <2> QED BY <2>2, <2>3, <2>4 DEF Mine
<1>3. \A id \in Sockets : /\ Job("join", id) \in jobs' => Job("join", id) \in jobs \/ id = new
                          /\ Job("leave", id) \in jobs' => Job("leave", id) \in jobs
  BY <1>1 DEF Job
<1>4. Job("leave", new) \notin jobs
  <2>1. Job("leave", new).id = new
    BY DEF Job
  <2> QED BY <1>1, <2>1 DEF AdmissionInv, JobsAdmitted, JobAdmitted
<1>5. \A id \in Sockets : /\ id # new => link'[id] = link[id] /\ owner'[id] = owner[id]
                          /\ link'[new] = "up" /\ owner'[new] = p
  BY <1>1
<1>6. ASSUME NEW id \in Sockets, id # new PROVE GoneFor(id)' <=> GoneFor(id)
  <2>1. owner[id] \in Pages /\ owner'[id] = owner[id]
    BY <1>1, <1>5, <1>6
  <2> QED BY <1>2, <2>1 DEF GoneFor
<1>7. ~Admitted(new)'
  BY <1>1 DEF Admitted
<1>8. ASSUME NEW q \in Pages, Connected(q)' PROVE link'[Mine(q)'] = "up" /\ owner'[Mine(q)'] = q
  <2>1. CASE q = p
    BY <1>2, <1>5, <2>1 DEF Mine
  <2>2. CASE q # p
    <3>1. Connected(q) /\ Mine(q)' = Mine(q) /\ Mine(q) \in Sockets
      BY <1>2, <1>8, <2>2 DEF Connected, Mine, TypeInv, PageTypes
    <3>2. link[Mine(q)] = "up" /\ owner[Mine(q)] = q
      BY <3>1 DEF PresenceInv
    <3> QED BY <1>1, <1>5, <3>1, <3>2
  <2> QED BY <2>1, <2>2
<1>9. ASSUME NEW id \in Sockets, link'[id] = "up"
      PROVE  page'[owner'[id]].at \in {"connecting", "on"} /\ page'[owner'[id]].socket = id
  <2>1. CASE id = new
    BY <1>2, <1>5, <2>1
  <2>2. CASE id # new
    <3>1. link[id] = "up" /\ owner'[id] = owner[id] /\ owner[id] \in Pages
      BY <1>1, <1>5, <1>9, <2>2
    <3>2. Connected(owner[id]) /\ Mine(owner[id]) = id
      BY <3>1 DEF PresenceInv
    <3>3. owner[id] # p
      BY <3>2
    <3> QED BY <1>2, <3>1, <3>2, <3>3 DEF Connected
  <2> QED BY <2>1, <2>2
<1>10. \A id \in Sockets : link'[id] # "up" =>
          MailTo(inbox', id) = {} /\ (Job("join", id) \in jobs' => GoneFor(id)')
  BY <1>1, <1>3, <1>5, <1>6 DEF PresenceInv
<1>11. \A id \in Sockets : Job("leave", id) \in jobs' => link'[id] # "up" /\ GoneFor(id)'
  BY <1>3, <1>4, <1>5, <1>6 DEF PresenceInv
<1>12. \A id \in Sockets : link'[id] \in {"up", "lost"} /\ ~GoneFor(id)' /\ Admitted(id)' =>
          data'[id].joined /\ id \in room'
  BY <1>1, <1>5, <1>6, <1>7 DEF PresenceInv, Admitted
<1> QED
  BY <1>8, <1>9, <1>10, <1>11, <1>12 DEF PresenceInv, Connected, Mine

\* A page that loses or ends its connection.
LEMMA BreakingPresence ==
  ASSUME TypeInv, AdmissionInv, PresenceInv, NEW p \in Pages, Drop(p) \/ Close(p)
  PROVE  PresenceInv'
<1>1. Connected(p) /\ Mine(p) \in Sockets /\ owner[Mine(p)] = p /\ link[Mine(p)] = "up"
  BY DEF Drop, Close, Connected, TypeInv, PageTypes, PresenceInv
<1>2. /\ link' = [link EXCEPT ![Mine(p)] = "lost"] /\ UNCHANGED <<owner, data>>
      /\ link \in [Sockets -> {"free", "up", "lost", "down"}] /\ owner \in [Sockets -> Pages]
      /\ inbox \in [Sockets -> Seq(Message)]
  BY DEF Drop, Close, TypeInv, ServerTypes, MailTypes
<1>3. \A q \in Pages : /\ q # p => page'[q].at = page[q].at
                       /\ page'[q].socket = Mine(q)
  <2>1. page[p].at # "away" /\ link[Mine(p)] # "free" /\ PageStep(p)
    BY <1>1 DEF PageStep, Connected
  <2>2. \A id \in Sockets : ~Connects(p, id)
    <3>1. ASSUME NEW id \in Sockets, Connects(p, id) PROVE FALSE
      <4>1. link[id] = "free" /\ link'[id] = "up"
        BY <1>2, <3>1 DEF Connects
      <4> QED BY <1>1, <1>2, <4>1
    <3> QED BY <3>1
  <2> QED BY <2>1, <2>2, PageStepWays
<1>4. \A id \in Sockets : /\ id # Mine(p) => link'[id] = link[id]
                          /\ link'[Mine(p)] = "lost"
  BY <1>1, <1>2
<1>5. MailTo(inbox', Mine(p)) = {}
  <2>1. inbox'[Mine(p)] = <<>>
    BY <1>1, <1>2 DEF Drop, Close, Sent
  <2> QED BY <2>1 DEF MailTo, MailOf
<1>6. \A id \in Sockets : link[id] # "up" => MailTo(inbox', id) = {}
  BY PageStepMail DEF PageSays, Online, PresenceInv, PageStep
<1>7. \A id \in Sockets : Admitted(id)' => Admitted(id)
  BY PageStepBack DEF PageStep
<1>9. ASSUME NEW id \in Sockets, link'[id] = "up"
      PROVE  page'[owner'[id]].at \in {"connecting", "on"} /\ page'[owner'[id]].socket = id
  <2>1. id # Mine(p) /\ link[id] = "up" /\ owner[id] \in Pages
    BY <1>1, <1>2, <1>4, <1>9
  <2>2. Connected(owner[id]) /\ Mine(owner[id]) = id
    BY <2>1 DEF PresenceInv
  <2>3. owner[id] # p
    BY <2>1, <2>2
  <2> QED BY <1>2, <1>3, <2>1, <2>2, <2>3 DEF Connected
<1>10. CASE Drop(p)
  <2>1. jobs = {} /\ jobs' = {} /\ room' = room
    BY <1>10 DEF Drop, Quiet
  <2>2. page'[p].at = "dropped"
    BY <1>10, PageStepWays DEF Drop, TypeInv, PageTypes, Page
  <2>3. ASSUME NEW q \in Pages, Connected(q)' PROVE link'[Mine(q)'] = "up" /\ owner'[Mine(q)'] = q
    <3>1. q # p /\ Connected(q) /\ Mine(q)' = Mine(q) /\ Mine(q) \in Sockets
      BY <1>3, <2>2, <2>3 DEF Connected, Mine, TypeInv, PageTypes
    <3>2. link[Mine(q)] = "up" /\ owner[Mine(q)] = q
      BY <3>1 DEF PresenceInv
    <3> QED BY <1>1, <1>2, <1>4, <3>1, <3>2
  <2>4. ASSUME NEW id \in Sockets, ~GoneFor(id)' PROVE ~GoneFor(id)
    BY <1>1, <1>2, <1>3, <2>4 DEF GoneFor, Connected
  <2>5. ASSUME NEW id \in Sockets, link'[id] \in {"up", "lost"}, ~GoneFor(id)', Admitted(id)'
        PROVE  data'[id].joined /\ id \in room'
    BY <1>1, <1>2, <1>4, <1>7, <2>1, <2>4, <2>5 DEF PresenceInv
  <2> QED BY <1>4, <1>5, <1>6, <1>9, <2>1, <2>3, <2>5 DEF PresenceInv, Connected, Mine
<1>11. CASE Close(p)
  <2>1. jobs' = jobs \cup {Job("leave", Mine(p))} /\ room' = room \ {Mine(p)}
    BY <1>11 DEF Close
  <2>2. page'[p].at = "closed"
    <3>1. PICK next : next = [page[p] EXCEPT !.at = "closed", !.main = NoStream, !.cams = {}, !.asking = 0]
      OBVIOUS
    <3>2. page \in [Pages -> Page] /\ page[p] \in Page
      BY DEF TypeInv, PageTypes
    <3>3. next.at = "closed" /\ page' = [page EXCEPT ![p] = next]
      BY <1>11, <3>1, <3>2 DEF Page, Close
    <3> QED BY <3>2, <3>3
  <2>3. ASSUME NEW q \in Pages, Connected(q)' PROVE link'[Mine(q)'] = "up" /\ owner'[Mine(q)'] = q
    <3>1. q # p /\ Connected(q) /\ Mine(q)' = Mine(q) /\ Mine(q) \in Sockets
      BY <1>3, <2>2, <2>3 DEF Connected, Mine, TypeInv, PageTypes
    <3>2. link[Mine(q)] = "up" /\ owner[Mine(q)] = q
      BY <3>1 DEF PresenceInv
    <3> QED BY <1>1, <1>2, <1>4, <3>1, <3>2
  <2>4. ASSUME NEW id \in Sockets
        PROVE  (GoneFor(id) => GoneFor(id)') /\ (owner[id] = p => GoneFor(id)')
    BY <1>2, <1>3, <2>2 DEF GoneFor
  <2>5. \A id \in Sockets : /\ Job("join", id) \in jobs' => Job("join", id) \in jobs
                            /\ Job("leave", id) \in jobs' => Job("leave", id) \in jobs \/ id = Mine(p)
    BY <2>1 DEF Job
  <2>6. ASSUME NEW id \in Sockets, link'[id] \in {"up", "lost"}, ~GoneFor(id)', Admitted(id)'
        PROVE  data'[id].joined /\ id \in room'
    <3>1. id # Mine(p)
      BY <1>1, <2>4, <2>6
    <3> QED BY <1>2, <1>4, <1>7, <2>1, <2>4, <2>6, <3>1 DEF PresenceInv
  <2>7. \A id \in Sockets : link'[id] # "up" =>
           MailTo(inbox', id) = {} /\ (Job("join", id) \in jobs' => GoneFor(id)')
    BY <1>1, <1>4, <1>5, <1>6, <2>4, <2>5 DEF PresenceInv
  <2>8. \A id \in Sockets : Job("leave", id) \in jobs' => link'[id] # "up" /\ GoneFor(id)'
    BY <1>1, <1>4, <2>4, <2>5 DEF PresenceInv
  <2> QED BY <1>9, <2>3, <2>6, <2>7, <2>8 DEF PresenceInv, Connected, Mine
<1> QED
  BY <1>10, <1>11

LEMMA PageStepPresence ==
  ASSUME TypeInv, AdmissionInv, PresenceInv, NEW p \in Pages, PageStep(p)
  PROVE  PresenceInv'
<1>1. ASSUME NEW id \in Sockets, Visit(p, id) \/ Reconnect(p, id) PROVE PresenceInv'
  BY <1>1, ConnectsPresence DEF Visit, Reconnect, Connected
<1>2. CASE Steady(p)
  BY <1>2, SteadyPresence
<1> QED
  BY <1>1, <1>2, BreakingPresence DEF Steady

LEMMA InitPresence == Init => PresenceInv
<1> SUFFICES ASSUME Init PROVE PresenceInv
  OBVIOUS
<1>1. /\ \A p \in Pages : page[p].at = "away"
      /\ \A id \in Sockets : link[id] = "free" /\ inbox[id] = <<>>
      /\ jobs = {}
  BY DEF Init, ServerInit, NewPage
<1> QED
  BY <1>1 DEF PresenceInv, Connected, MailTo, MailOf, Admitted

LEMMA NextPresence == TypeInv /\ AdmissionInv /\ PresenceInv /\ [Next]_vars => PresenceInv'
<1> SUFFICES ASSUME TypeInv, AdmissionInv, PresenceInv, [Next]_vars PROVE PresenceInv'
  OBVIOUS
<1>1. CASE UNCHANGED vars
  BY <1>1 DEF vars, serverVars, pageVars, PresenceInv, Connected, Mine, GoneFor, MailTo, Admitted
<1> QED
  BY <1>1, HandlerPresence, NoticedPresence, PageStepPresence DEF Next

LEMMA PresenceAlways == Spec => [](TypeInv /\ AdmissionInv /\ MicsInv /\ PresenceInv)
<1>1. Init => TypeInv /\ AdmissionInv /\ MicsInv /\ PresenceInv
  BY InitTypes, InitMics, InitPresence
<1>2. TypeInv /\ AdmissionInv /\ MicsInv /\ PresenceInv /\ [Next]_vars =>
        (TypeInv /\ AdmissionInv /\ MicsInv /\ PresenceInv)'
  BY NextTypes, NextMics, NextPresence
<1> QED
  BY <1>1, <1>2, PTL DEF Spec

-----------------------------------------------------------------------------
(* Peer connections, and the pictures they brought.                         *)

LEMMA MeshSet ==
  ASSUME NEW mesh \in [Pages -> [Sockets -> Peer]], NEW p \in Pages, NEW other \in Sockets, NEW next,
         NEW after, after = [mesh EXCEPT ![p][other] = next], NEW q \in Pages, NEW id \in Sockets
  PROVE  after[q][id] = IF q = p /\ id = other THEN next ELSE mesh[q][id]
<1>1. CASE q = p
  BY <1>1
<1>2. CASE q # p
  BY <1>2
<1> QED
  BY <1>1, <1>2

LEMMA StageSet ==
  ASSUME NEW stage \in [Pages -> [Sockets -> SUBSET Stream]], NEW p \in Pages, NEW other \in Sockets, NEW next,
         NEW after, after = [stage EXCEPT ![p][other] = next], NEW q \in Pages, NEW id \in Sockets
  PROVE  after[q][id] = IF q = p /\ id = other THEN next ELSE stage[q][id]
<1>1. CASE q = p
  BY <1>1
<1>2. CASE q # p
  BY <1>2
<1> QED
  BY <1>1, <1>2

\* A connection that is not there has no history.
Blank == \A p \in Pages, id \in Sockets : peers[p][id].sig = "none" => peers[p][id] = NoPeer

\* What a page's step makes of a connection and of what it shows of it.
PeerStays(q, id, next, shown) ==
  /\ next.sig = peers[q][id].sig /\ next.mine = peers[q][id].mine /\ next.heard = peers[q][id].heard
  /\ next.reply = peers[q][id].reply
  /\ next.sig = "none" => next = NoPeer
  /\ shown \subseteq streams[q][id]

PeerBegins(p, id, next, shown) ==
  /\ Connected(p) /\ id # Mine(p)
  /\ \E m \in MailTo(inbox, Mine(p)) : \E x \in Told(m) : x.id = id
  /\ peers[p][id].sig = "none" /\ next.sig = "stable" /\ next.mine = Mine(p) /\ next.heard = {}
  /\ shown = streams[p][id]

PeerOffers(p, id, next, shown) ==
  /\ Negotiate(p, id)
  /\ next = Offering(peers[p][id]) /\ next.sig = "offering"
  /\ next.mine = peers[p][id].mine /\ next.heard = peers[p][id].heard
  /\ shown = streams[p][id]

PeerHears(p, id, next, shown, m) ==
  /\ Connected(p) /\ inbox[Mine(p)] # <<>> /\ m = Head(inbox[Mine(p)])
  /\ m.kind = "offer" /\ m.from = id
  /\ next.sig = "stable" /\ next.mine = Mine(p) /\ next.heard = peers[p][id].heard \cup m.sdp
  /\ shown \subseteq streams[p][id] \cup m.sdp

PeerAnswers(p, id, next, shown, m) ==
  /\ Connected(p) /\ inbox[Mine(p)] # <<>> /\ m = Head(inbox[Mine(p)])
  /\ m.kind = "answer" /\ m.from = id
  /\ peers[p][id].sig = "offering" /\ next.sig = "answered" /\ next.mine = Mine(p)
  /\ next.heard = peers[p][id].heard /\ next.reply = m.sdp
  /\ shown = streams[p][id]

PeerAnswered(p, id, next, shown) ==
  /\ peers[p][id].sig = "answered" /\ next.sig = "stable" /\ next.mine = peers[p][id].mine
  /\ next.heard = peers[p][id].heard \cup peers[p][id].reply
  /\ shown \subseteq streams[p][id] \cup peers[p][id].reply

\* Why a page closes a connection.
PeerCloses(p, id) ==
  \/ Close(p) \/ ConnectionFails(p, id)
  \/ \E m \in MailTo(inbox, Mine(p)) : m.kind = "left" /\ m.from = id

PeerWays(p, q, id, next, shown) ==
  \/ PeerStays(q, id, next, shown)
  \/ q = p /\ next = NoPeer /\ shown = {} /\ PeerCloses(p, id)
  \/ q = p /\ PeerBegins(p, id, next, shown)
  \/ q = p /\ PeerOffers(p, id, next, shown)
  \/ q = p /\ \E m \in MailTo(inbox, Mine(p)) : PeerHears(p, id, next, shown, m)
  \/ q = p /\ \E m \in MailTo(inbox, Mine(p)) : PeerAnswers(p, id, next, shown, m)
  \/ q = p /\ PeerAnswered(p, id, next, shown)

LEMMA PeerUnchanged ==
  ASSUME Blank, NEW p \in Pages, NEW q \in Pages, NEW id \in Sockets, NEW next, NEW shown,
         next = peers[q][id], shown \subseteq streams[q][id]
  PROVE  PeerWays(p, q, id, next, shown)
BY DEF Blank, PeerWays, PeerStays

\* Adding tracks and taking them off the senders is no change of its state.
LEMMA TracksKeep ==
  ASSUME Blank, TypeInv, NEW p \in Pages, NEW id \in Sockets, NEW c, c = peers[p][id]
  PROVE  /\ c \in Peer
         /\ \A S : /\ TracksAdded(c, S).sig = c.sig /\ TracksAdded(c, S).mine = c.mine
                   /\ TracksAdded(c, S).heard = c.heard /\ TracksAdded(c, S).reply = c.reply
         /\ \A S : LET n == [c EXCEPT !.mute = S]
                   IN  n.sig = c.sig /\ n.mine = c.mine /\ n.heard = c.heard /\ n.reply = c.reply
         /\ c.sig = "none" => c = NoPeer /\ c.sends = {} /\ c.mute = {}
<1>1. c \in Peer
  BY DEF TypeInv, PageTypes
<1>2. c.sig = "none" => c = NoPeer
  BY DEF Blank
<1>3. NoPeer.sends = {} /\ NoPeer.mute = {}
  BY DEF NoPeer
<1> QED
  BY <1>1, <1>2, <1>3 DEF TracksAdded, Peer

LEMMA PublishPeers ==
  ASSUME Blank, TypeInv, NEW p \in Pages, NEW stream, NEW q \in Pages, NEW id \in Sockets,
         peers' = [peers EXCEPT ![p] = Publishes(p, stream)], UNCHANGED streams
  PROVE  PeerWays(p, q, id, peers'[q][id], streams'[q][id])
<1>1. CASE q # p
  BY <1>1, PeerUnchanged DEF TypeInv, PageTypes
<1>2. CASE q = p
  <2>1. peers'[q][id] = IF peers[p][id].sig = "none" THEN NoPeer ELSE TracksAdded(peers[p][id], {stream})
    BY <1>2 DEF TypeInv, PageTypes, Publishes
  <2>2. CASE peers[p][id].sig = "none"
    BY <1>2, <2>1, <2>2, PeerUnchanged DEF Blank
  <2>3. CASE peers[p][id].sig # "none"
    BY <1>2, <2>1, <2>3, TracksKeep DEF PeerWays, PeerStays
  <2> QED BY <2>2, <2>3
<1> QED
  BY <1>1, <1>2

LEMMA MutePeers ==
  ASSUME Blank, TypeInv, NEW p \in Pages, NEW stream, NEW q \in Pages, NEW id \in Sockets,
         \/ peers' = [peers EXCEPT ![p] = Silences(p)]
         \/ peers' = [peers EXCEPT ![p] = Removes(p, stream)],
         UNCHANGED streams
  PROVE  PeerWays(p, q, id, peers'[q][id], streams'[q][id])
<1>1. CASE q # p
  BY <1>1, PeerUnchanged DEF TypeInv, PageTypes
<1>2. CASE q = p
  <2>1. PICK c : c = peers[p][id]
    OBVIOUS
  <2>2. PICK mute : /\ mute = c.sends \/ mute = c.mute \cup ({stream} \cap c.sends)
                    /\ peers'[q][id] = [c EXCEPT !.mute = mute]
    <3>1. CASE peers' = [peers EXCEPT ![p] = Silences(p)]
      BY <1>2, <2>1, <3>1 DEF TypeInv, PageTypes, Silences
    <3>2. CASE peers' = [peers EXCEPT ![p] = Removes(p, stream)]
      <4>1. peers'[q][id] = [c EXCEPT !.mute = @ \cup ({stream} \cap c.sends)]
        BY <1>2, <2>1, <3>2 DEF TypeInv, PageTypes, Removes
      <4>2. c \in Peer
        BY <2>1, TracksKeep
      <4> QED BY <4>1, <4>2 DEF Peer
    <3> QED BY <3>1, <3>2
  <2>3. CASE c.sig = "none"
    <3>1. c = NoPeer /\ mute = {}
      BY <2>1, <2>2, <2>3, TracksKeep
    <3>2. peers'[q][id] = c
      BY <2>2, <3>1 DEF NoPeer
    <3> QED BY <1>2, <2>1, <3>2, PeerUnchanged
  <2>4. CASE c.sig # "none"
    <3>1. PICK n : n = [c EXCEPT !.mute = mute]
      OBVIOUS
    <3>2. n.sig = c.sig /\ n.mine = c.mine /\ n.heard = c.heard /\ n.reply = c.reply
      BY <2>1, <3>1, TracksKeep
    <3> QED BY <1>2, <2>1, <2>2, <2>4, <3>1, <3>2 DEF PeerWays, PeerStays
  <2> QED BY <2>3, <2>4
<1> QED
  BY <1>1, <1>2

LEMMA AddedFields ==
  ASSUME NEW c \in Peer, NEW S, NEW n, n = TracksAdded(c, S)
  PROVE  /\ n.sig = c.sig /\ n.mine = c.mine /\ n.heard = c.heard /\ n.offered = c.offered
         /\ n.reply = c.reply /\ n.ignored = c.ignored
         /\ n.sends = c.sends \cup S /\ n.mute = c.mute \ S /\ n.agreed = c.agreed \ (c.mute \cap S)
BY DEF TracksAdded, Peer

LEMMA EnsuredFields ==
  ASSUME NEW c \in Peer, NEW mine \in Sockets, NEW n, n = Ensured(c, mine)
  PROVE  /\ n \in Peer /\ n.sig # "none"
         /\ c.sig # "none" => n = c
         /\ c.sig = "none" => /\ n.sig = "stable" /\ n.mine = mine /\ n.heard = {} /\ n.sends = {}
                              /\ n.mute = {} /\ n.agreed = {} /\ n.offered = {} /\ n.reply = {}
<1>1. n \in Peer
  BY PeerMade
<1>2. CASE c.sig = "none"
  BY <1>1, <1>2 DEF Ensured, NoPeer
<1>3. CASE c.sig # "none"
  BY <1>1, <1>3 DEF Ensured
<1> QED
  BY <1>1, <1>2, <1>3

LEMMA RosterPeers ==
  ASSUME Blank, TypeInv, NEW p \in Pages, Connected(p), NEW m \in MailTo(inbox, Mine(p)), NEW ids,
         \A x \in ids : \E y \in Told(m) : y.id = x,
         peers' = [peers EXCEPT ![p] = ConnectedToAll(p, ids)], UNCHANGED streams,
         NEW q \in Pages, NEW id \in Sockets
  PROVE  PeerWays(p, q, id, peers'[q][id], streams'[q][id])
<1>1. CASE q # p
  BY <1>1, PeerUnchanged DEF TypeInv, PageTypes
<1>2. CASE q = p
  <2>1. PICK c \in Peer : c = peers[p][id]
    BY DEF TypeInv, PageTypes
  <2>2. peers'[q][id] = IF id \in ids \ {Mine(p)} THEN ConnectedTo(c, page[p]) ELSE c
    BY <1>2, <2>1 DEF TypeInv, PageTypes, ConnectedToAll
  <2>3. CASE id \notin ids \ {Mine(p)}
    BY <1>2, <2>1, <2>2, <2>3, PeerUnchanged
  <2>4. CASE id \in ids \ {Mine(p)}
    <3>1. PICK e : e = Ensured(c, Mine(p))
      OBVIOUS
    <3>2. PICK n : n = TracksAdded(e, Published(page[p]))
      OBVIOUS
    <3>3. peers'[q][id] = n /\ Mine(p) \in Sockets
      BY <2>2, <2>4, <3>1, <3>2 DEF ConnectedTo, Mine, TypeInv, PageTypes
    <3>4. /\ e \in Peer /\ e.sig # "none" /\ (c.sig # "none" => e = c)
          /\ c.sig = "none" => e.sig = "stable" /\ e.mine = Mine(p) /\ e.heard = {}
      BY <3>1, <3>3, EnsuredFields
    <3>5. n.sig = e.sig /\ n.mine = e.mine /\ n.heard = e.heard /\ n.reply = e.reply
      BY <3>2, <3>4, AddedFields
    <3>6. CASE c.sig = "none"
      <4>1. PeerBegins(p, id, n, streams'[q][id])
        BY <1>2, <2>1, <2>4, <3>4, <3>5, <3>6 DEF PeerBegins
      <4> QED BY <1>2, <3>3, <4>1 DEF PeerWays
    <3>7. CASE c.sig # "none"
      <4>1. PeerStays(q, id, n, streams'[q][id])
        BY <1>2, <2>1, <3>4, <3>5, <3>7 DEF PeerStays
      <4> QED BY <3>3, <4>1 DEF PeerWays
    <3> QED BY <3>6, <3>7
  <2> QED BY <2>3, <2>4
<1> QED
  BY <1>1, <1>2

LEMMA OnOfferPeers ==
  ASSUME Blank, TypeInv, NEW p \in Pages, Connected(p), inbox[Mine(p)] # <<>>, NEW m,
         m = Head(inbox[Mine(p)]), m.kind = "offer", OnOffer(p, m.from, m.sdp),
         NEW q \in Pages, NEW id \in Sockets
  PROVE  PeerWays(p, q, id, peers'[q][id], streams'[q][id])
<1>1. Mine(p) \in Sockets /\ m \in MailTo(inbox, Mine(p)) /\ m \in Message
  BY FirstMail DEF TypeInv, PageTypes
<1>2. m.from \in Sockets /\ m.sdp \in SUBSET Stream
  BY <1>1, MessageFields
<1>3. CASE UNCHANGED <<peers, streams>>
  BY <1>3, PeerUnchanged
<1>5. ASSUME NEW c \in Peer, c = Ensured(peers[p][m.from], Mine(p)), NEW next, IgnoresOffer(p, m.from, c, next)
      PROVE  PeerWays(p, q, id, peers'[q][id], streams'[q][id])
  <2>1. c = peers[p][m.from]
    BY <1>5 DEF Ensured, IgnoresOffer, NoPeer
  <2>2. /\ peers'[q][id] = IF q = p /\ id = m.from THEN next ELSE peers[q][id]
        /\ streams' = streams
    BY <1>2, <1>5, MeshSet DEF IgnoresOffer, TypeInv, PageTypes
  <2>3. CASE q = p /\ id = m.from
    BY <1>5, <2>1, <2>2, <2>3 DEF IgnoresOffer, PeerWays, PeerStays
  <2>4. CASE ~(q = p /\ id = m.from)
    BY <2>2, <2>4, PeerUnchanged
  <2> QED BY <2>3, <2>4
<1>4. ASSUME NEW c \in Peer, c = Ensured(peers[p][m.from], Mine(p)), NEW next \in Peer, NEW answered, NEW box,
             AnswersOffer(p, m.from, m.sdp, c, next, answered, box)
      PROVE  PeerWays(p, q, id, peers'[q][id], streams'[q][id])
  <2>1. PICK shown : shown = ShownAfter(streams[p][m.from], m.sdp, c)
    OBVIOUS
  <2>2. /\ peers' = [peers EXCEPT ![p][m.from] = next]
        /\ streams' = [streams EXCEPT ![p][m.from] = shown]
        /\ next.sig = "stable" /\ next.mine = Mine(p) /\ next.heard = c.heard \cup m.sdp
    BY <1>2, <1>4, <2>1 DEF AnswersOffer, TypeInv, PageTypes
  <2>3. /\ peers'[q][id] = IF q = p /\ id = m.from THEN next ELSE peers[q][id]
        /\ streams'[q][id] = IF q = p /\ id = m.from THEN shown ELSE streams[q][id]
    BY <1>2, <2>2, MeshSet, StageSet DEF TypeInv, PageTypes
  <2>4. CASE q = p /\ id = m.from
    <3>1. c.heard = peers[p][m.from].heard
      <4>1. PICK was \in Peer : was = peers[p][m.from]
        BY <1>2 DEF TypeInv, PageTypes
      <4>2. was.sig = "none" => was.heard = {}
        <5>1. NoPeer.heard = {} /\ (was.sig = "none" => was = NoPeer)
          BY <1>2, <4>1 DEF Blank, NoPeer
        <5> QED BY <5>1
      <4>3. c = Ensured(was, Mine(p))
        BY <1>4, <4>1
      <4>4. (was.sig # "none" => c = was) /\ (was.sig = "none" => c.heard = {})
        BY <1>1, <4>3, EnsuredFields
      <4> QED BY <4>1, <4>2, <4>4
    <3>2. shown \subseteq streams[p][m.from] \cup m.sdp
      BY <2>1 DEF ShownAfter
    <3>3. PeerHears(p, id, next, shown, m)
      BY <2>2, <2>4, <3>1, <3>2 DEF PeerHears
    <3> QED BY <1>1, <2>3, <2>4, <3>3 DEF PeerWays
  <2>5. CASE ~(q = p /\ id = m.from)
    BY <2>3, <2>5, PeerUnchanged
  <2> QED BY <2>4, <2>5
<1> QED
  BY <1>2, <1>3, <1>4, <1>5, OnOfferWays

LEMMA OnAnswerPeers ==
  ASSUME Blank, TypeInv, NEW p \in Pages, Connected(p), inbox[Mine(p)] # <<>>, NEW m,
         m = Head(inbox[Mine(p)]), m.kind = "answer", OnAnswer(p, m.from, m.sdp),
         NEW q \in Pages, NEW id \in Sockets
  PROVE  PeerWays(p, q, id, peers'[q][id], streams'[q][id])
<1>1. Mine(p) \in Sockets /\ m \in MailTo(inbox, Mine(p)) /\ m \in Message
  BY FirstMail DEF TypeInv, PageTypes
<1>2. m.from \in Sockets /\ m.sdp \in SUBSET Stream
  BY <1>1, MessageFields
<1>3. CASE UNCHANGED <<peers, streams>>
  BY <1>3, PeerUnchanged
<1>4. CASE ~UNCHANGED <<peers, streams>>
  <2>1. PICK c \in Peer : c = peers[p][m.from]
    BY <1>2 DEF TypeInv, PageTypes
  <2>2. PICK next : next = [c EXCEPT !.sig = "answered", !.mine = Mine(p), !.reply = m.sdp]
    OBVIOUS
  <2>3. c.sig = "offering" /\ peers' = [peers EXCEPT ![p][m.from] = next] /\ streams' = streams
    BY <1>2, <1>4, <2>1, <2>2 DEF OnAnswer
  <2>4. next.sig = "answered" /\ next.mine = Mine(p) /\ next.heard = c.heard /\ next.reply = m.sdp
    BY <2>2 DEF Peer
  <2>5. peers'[q][id] = IF q = p /\ id = m.from THEN next ELSE peers[q][id]
    BY <1>2, <2>3, MeshSet DEF TypeInv, PageTypes
  <2>6. CASE q = p /\ id = m.from
    <3>1. PeerAnswers(p, id, next, streams'[q][id], m)
      BY <2>1, <2>3, <2>4, <2>6 DEF PeerAnswers
    <3> QED BY <1>1, <2>5, <2>6, <3>1 DEF PeerWays
  <2>7. CASE ~(q = p /\ id = m.from)
    BY <2>3, <2>5, <2>7, PeerUnchanged
  <2> QED BY <2>6, <2>7
<1> QED
  BY <1>3, <1>4

LEMMA AnswerSetPeers ==
  ASSUME Blank, TypeInv, NEW p \in Pages, NEW other \in Sockets, AnswerSet(p, other),
         NEW q \in Pages, NEW id \in Sockets
  PROVE  PeerWays(p, q, id, peers'[q][id], streams'[q][id])
<1>1. PICK c \in Peer : c = peers[p][other]
  BY DEF TypeInv, PageTypes
<1>2. PICK next, shown : next = Answered(c) /\ shown = ShownAfter(streams[p][other], c.reply, c)
  OBVIOUS
<1>3. /\ c.sig = "answered" /\ peers' = [peers EXCEPT ![p][other] = next]
      /\ streams' = [streams EXCEPT ![p][other] = shown]
  BY <1>1, <1>2 DEF AnswerSet, TypeInv, PageTypes
<1>4. next.sig = "stable" /\ next.mine = c.mine /\ next.heard = c.heard \cup c.reply
  BY <1>2 DEF Answered, Peer
<1>5. shown \subseteq streams[p][other] \cup c.reply
  BY <1>2 DEF ShownAfter
<1>6. /\ peers'[q][id] = IF q = p /\ id = other THEN next ELSE peers[q][id]
      /\ streams'[q][id] = IF q = p /\ id = other THEN shown ELSE streams[q][id]
  BY <1>3, MeshSet, StageSet DEF TypeInv, PageTypes
<1>7. CASE q = p /\ id = other
  <2>1. PeerAnswered(p, id, next, shown)
    BY <1>1, <1>3, <1>4, <1>5, <1>7 DEF PeerAnswered
  <2> QED BY <1>6, <1>7, <2>1 DEF PeerWays
<1>8. CASE ~(q = p /\ id = other)
  BY <1>6, <1>8, PeerUnchanged
<1> QED
  BY <1>7, <1>8

LEMMA PeerClosedPeers ==
  ASSUME Blank, TypeInv, NEW p \in Pages, NEW other \in Sockets, PeerClosed(p, other), PeerCloses(p, other),
         NEW q \in Pages, NEW id \in Sockets
  PROVE  PeerWays(p, q, id, peers'[q][id], streams'[q][id])
<1>1. /\ peers'[q][id] = IF q = p /\ id = other THEN NoPeer ELSE peers[q][id]
      /\ streams'[q][id] = IF q = p /\ id = other THEN {} ELSE streams[q][id]
  BY MeshSet, StageSet DEF PeerClosed, TypeInv, PageTypes
<1>2. CASE q = p /\ id = other
  BY <1>1, <1>2 DEF PeerWays
<1>3. CASE ~(q = p /\ id = other)
  BY <1>1, <1>3, PeerUnchanged
<1> QED
  BY <1>2, <1>3

LEMMA DeliverPeers ==
  ASSUME Blank, TypeInv, NEW p \in Pages, Deliver(p), NEW q \in Pages, NEW id \in Sockets
  PROVE  PeerWays(p, q, id, peers'[q][id], streams'[q][id])
<1>1. PICK m : m = Head(inbox[Mine(p)])
  OBVIOUS
<1>2. Connected(p) /\ inbox[Mine(p)] # <<>> /\ Mine(p) \in Sockets
  BY DEF Deliver, TypeInv, PageTypes
<1>3. m \in MailTo(inbox, Mine(p)) /\ m \in Message
  BY <1>1, <1>2, FirstMail DEF TypeInv
<1>4. CASE m.kind = "offer" /\ OnOffer(p, m.from, m.sdp)
  BY <1>1, <1>2, <1>4, OnOfferPeers
<1>5. CASE m.kind = "answer" /\ OnAnswer(p, m.from, m.sdp)
  BY <1>1, <1>2, <1>5, OnAnswerPeers
<1>6. CASE m.kind \in {"ack", "state"} /\ OnState(p, m)
  <2>1. PICK ids : ids = IdsOf(m.participants)
    OBVIOUS
  <2>2. peers' = [peers EXCEPT ![p] = ConnectedToAll(p, ids)] /\ UNCHANGED streams
    BY <1>6, <2>1 DEF OnState
  <2>3. \A x \in ids : \E y \in Told(m) : y.id = x
    BY <1>6, <2>1 DEF IdsOf, Told
  <2> QED BY <1>2, <1>3, <2>2, <2>3, RosterPeers
<1>7. CASE m.kind = "joined" /\ OnJoined(p, m.about)
  <2>1. PICK ids : ids = {m.about.id}
    OBVIOUS
  <2>2. peers' = [peers EXCEPT ![p] = ConnectedToAll(p, ids)] /\ UNCHANGED streams
    BY <1>7, <2>1 DEF OnJoined
  <2>3. \A x \in ids : \E y \in Told(m) : y.id = x
    BY <1>7, <2>1 DEF Told
  <2> QED BY <1>2, <1>3, <2>2, <2>3, RosterPeers
<1>8. CASE m.kind = "left" /\ OnLeft(p, m.from)
  BY <1>3, <1>8, MessageFields, PeerClosedPeers DEF OnLeft, PeerCloses
<1>9. CASE m.kind = "gone" /\ OnGone(p, m.from, m.stream)
  <2>1. m.from \in Sockets
    BY <1>3, <1>9, MessageFields
  <2>2. streams'[q][id] = IF q = p /\ id = m.from THEN streams[p][m.from] \ {m.stream} ELSE streams[q][id]
    BY <1>9, <2>1, StageSet DEF OnGone, TypeInv, PageTypes
  <2>3. streams'[q][id] \subseteq streams[q][id] /\ peers'[q][id] = peers[q][id]
    BY <1>9, <2>2 DEF OnGone
  <2> QED BY <2>3, PeerUnchanged
<1>10. CASE UNCHANGED <<peers, streams>>
  BY <1>10, PeerUnchanged
<1> QED
  BY <1>1, <1>4, <1>5, <1>6, <1>7, <1>8, <1>9, <1>10 DEF Deliver, OnAccepted

LEMMA PageStepPeers ==
  ASSUME Blank, TypeInv, NEW p \in Pages, PageStep(p), NEW q \in Pages, NEW id \in Sockets
  PROVE  PeerWays(p, q, id, peers'[q][id], streams'[q][id])
<1>1. CASE Deliver(p)
  BY <1>1, DeliverPeers
<1>2. ASSUME NEW other \in Sockets, Negotiate(p, other)
      PROVE  PeerWays(p, q, id, peers'[q][id], streams'[q][id])
  <2>1. PICK next : next = Offering(peers[p][other])
    OBVIOUS
  <2>2. peers' = [peers EXCEPT ![p][other] = next] /\ UNCHANGED streams
    BY <1>2, <2>1 DEF Negotiate, TypeInv, PageTypes
  <2>3. peers'[q][id] = IF q = p /\ id = other THEN next ELSE peers[q][id]
    BY <2>2, MeshSet DEF TypeInv, PageTypes
  <2>4. CASE q = p /\ id = other
    <3>1. PICK c \in Peer : c = peers[p][other]
      BY DEF TypeInv, PageTypes
    <3>2. next = Offering(c)
      BY <2>1, <3>1
    <3>3. next.sig = "offering" /\ next.mine = c.mine /\ next.heard = c.heard
      BY <3>1, <3>2 DEF Offering, Peer
    <3>4. PeerOffers(p, id, next, streams'[q][id])
      BY <1>2, <2>1, <2>2, <2>4, <3>1, <3>3 DEF PeerOffers
    <3> QED BY <2>3, <2>4, <3>4 DEF PeerWays
  <2>5. CASE ~(q = p /\ id = other)
    BY <2>2, <2>3, <2>5, PeerUnchanged
  <2> QED BY <2>4, <2>5
<1>3. ASSUME NEW other \in Sockets, ConnectionFails(p, other)
      PROVE  PeerWays(p, q, id, peers'[q][id], streams'[q][id])
  BY <1>3, PeerClosedPeers DEF ConnectionFails, PeerCloses
<1>4. CASE Close(p)
  <2>1. CASE q = p
    <3>1. peers'[q][id] = NoPeer /\ streams'[q][id] = {}
      BY <1>4, <2>1 DEF Close, TypeInv, PageTypes
    <3> QED BY <1>4, <2>1, <3>1 DEF PeerWays, PeerCloses
  <2>2. CASE q # p
    <3>1. peers'[q][id] = peers[q][id] /\ streams'[q][id] = streams[q][id]
      BY <1>4, <2>2 DEF Close, TypeInv, PageTypes
    <3> QED BY <3>1, PeerUnchanged
  <2> QED BY <2>1, <2>2
<1>5. CASE Granted(p) \/ GoLive(p) \/ OpenWebcam(p)
  <2>1. PICK stream : peers' = [peers EXCEPT ![p] = Publishes(p, stream)]
    BY <1>5 DEF Granted, GoLive, OpenWebcam, OnStage
  <2>2. UNCHANGED streams
    BY <1>5 DEF Granted, GoLive, OpenWebcam
  <2> QED BY <2>1, <2>2, PublishPeers
<1>6. CASE LeaveStage(p) \/ StopLive(p) \/ CloseWebcam(p)
  <2>1. PICK stream : \/ peers' = [peers EXCEPT ![p] = Silences(p)]
                      \/ peers' = [peers EXCEPT ![p] = Removes(p, stream)]
    BY <1>6 DEF LeaveStage, StopLive, CloseWebcam
  <2>2. UNCHANGED streams
    BY <1>6 DEF LeaveStage, StopLive, CloseWebcam
  <2> QED BY <2>1, <2>2, MutePeers
<1>7. CASE UNCHANGED <<peers, streams>>
  BY <1>7, PeerUnchanged
<1>8. ASSUME NEW other \in Sockets, AnswerSet(p, other)
      PROVE  PeerWays(p, q, id, peers'[q][id], streams'[q][id])
  BY <1>8, AnswerSetPeers
<1> QED
  BY <1>1, <1>2, <1>3, <1>4, <1>5, <1>6, <1>7, <1>8
     DEF PageStep, Button, Signals, Visit, Reconnect, Connects, Drop, Denied, RaiseHand, ToggleMic, AnswerHand

-----------------------------------------------------------------------------
(* What is on its way stays so until its page handles it.                   *)

LEMMA SentKeeps ==
  ASSUME NEW box \in [Sockets -> Seq(Message)], NEW ids, NEW m, NEW next, next = Sent(box, ids, m),
         NEW k \in Sockets, NEW x \in MailTo(box, k)
  PROVE  x \in MailTo(next, k)
BY MailSent

LEMMA SnapshotKeeps ==
  ASSUME TypeInv, NEW j \in jobs, NEW got \in Roster, SnapshotSent(j, got),
         NEW k \in Sockets, NEW m \in MailTo(inbox, k)
  PROVE  m \in MailTo(inbox', k)
<1>1. PICK acked : /\ acked = IF j.ack THEN Sent(inbox, {j.id}, StateMessage("ack", got)) ELSE inbox
                   /\ inbox' = Sent(acked, room, StateMessage("state", got))
  BY DEF SnapshotSent
<1>2. acked \in [Sockets -> Seq(Message)] /\ inbox \in [Sockets -> Seq(Message)]
  BY <1>1, MessagesMade, SentTyped DEF TypeInv, MailTypes
<1>3. m \in MailTo(acked, k)
  <2>1. PICK ack : ack = StateMessage("ack", got)
    OBVIOUS
  <2>2. acked = Sent(inbox, {j.id}, ack) \/ acked = inbox
    BY <1>1, <2>1
  <2> QED BY <1>2, <2>2, SentKeeps
<1>4. PICK state : state = StateMessage("state", got)
  OBVIOUS
<1>5. inbox' = Sent(acked, room, state)
  BY <1>1, <1>4
<1> QED
  BY <1>2, <1>3, <1>5, SentKeeps

LEMMA HandlerKeeps ==
  ASSUME TypeInv, NEW j \in jobs, HandlerStep(j), NEW k \in Sockets, NEW m \in MailTo(inbox, k)
  PROVE  m \in MailTo(inbox', k)
<1>1. inbox \in [Sockets -> Seq(Message)]
  BY DEF TypeInv, MailTypes
<1>2. CASE TakeSnapshot(j)
  <2>1. j.kind = "snapshot" /\ j.got \in Roster
    BY <1>2, SnapshotFields DEF TakeSnapshot, TypeInv, ServerTypes
  <2>2. ASSUME NEW y \in j.rest, SnapshotSent(j, Read(j, y).got) PROVE m \in MailTo(inbox', k)
    <3>1. PICK got \in Roster : got = Read(j, y).got
      BY <2>1, ReadMore
    <3> QED BY <2>2, <3>1, SnapshotKeeps
  <2> QED BY <1>2, <2>1, <2>2, SnapshotKeeps DEF TakeSnapshot
<1>3. CASE ~TakeSnapshot(j)
  <2>1. UNCHANGED inbox \/ \E ids, x : inbox' = Sent(inbox, ids, x)
    BY <1>3 DEF HandlerStep, JoinRoom, JoinAnnounced, HandAnnounced, HandAccepted, HandRejected,
                MediaToggled, Left, Bye
  <2> QED BY <1>1, <2>1, SentKeeps
<1> QED
  BY <1>2, <1>3

\* What is first in a queue, and the queues once it has been taken off.
First(box, id) == Head(box[id])
Taken(box, id) == [box EXCEPT ![id] = Tail(@)]

LEMMA TakenKeeps ==
  ASSUME NEW box \in [Sockets -> Seq(Message)], NEW id \in Sockets, box[id] # <<>>,
         NEW k \in Sockets, NEW x \in MailTo(box, k)
  PROVE  x \in MailTo(Taken(box, id), k) \/ (k = id /\ x = First(box, id))
<1>1. CASE k = id
  <2>1. PICK s \in Seq(Message) : s = box[id]
    OBVIOUS
  <2>2. Taken(box, id)[k] = Tail(s) /\ s # <<>>
    BY <1>1, <2>1 DEF Taken
  <2> QED BY <1>1, <2>1, <2>2, MailTail DEF MailTo, First
<1>2. CASE k # id
  <2>1. Taken(box, id)[k] = box[k]
    BY <1>2 DEF Taken
  <2> QED BY <2>1 DEF MailTo
<1> QED
  BY <1>1, <1>2

LEMMA SentFirst ==
  ASSUME NEW box \in [Sockets -> Seq(Message)], NEW me \in Sockets, box[me] # <<>>, NEW ids, NEW a
  PROVE  First(Sent(box, ids, a), me) = First(box, me)
<1>1. Sent(box, ids, a)[me] = box[me] \/ Sent(box, ids, a)[me] = Append(box[me], a)
  BY DEF Sent
<1>2. PICK s \in Seq(Message \cup {a}) : s = box[me] /\ s # <<>>
  OBVIOUS
<1>3. PICK t : t = Append(s, a)
  OBVIOUS
<1>4. t \in Seq(Message \cup {a})
  BY <1>2, <1>3
<1>5. Len(t) = Len(s) + 1 /\ Len(s) \in Nat \ {0} /\ \A i \in 1 .. Len(s) : t[i] = s[i]
  BY <1>2, <1>3, AppendProperties
<1>6. t # <<>> /\ t[1] = s[1]
  BY <1>4, <1>5
<1>7. Head(s) = s[1] /\ Head(t) = t[1]
  BY <1>2, <1>4, <1>6
<1>8. Head(t) = Head(s)
  BY <1>6, <1>7
<1> QED
  BY <1>1, <1>2, <1>3, <1>8 DEF First

LEMMA SteadyKeeps ==
  ASSUME TypeInv, NEW p \in Pages, Steady(p), NEW k \in Sockets, NEW m \in MailTo(inbox, k)
  PROVE  m \in MailTo(inbox', k) \/ (Deliver(p) /\ k = Mine(p) /\ m = Head(inbox[Mine(p)]))
<1>1. inbox \in [Sockets -> Seq(Message)]
  BY DEF TypeInv, MailTypes
<1>2. CASE Deliver(p)
  <2>1. Connected(p) /\ inbox[Mine(p)] # <<>> /\ Mine(p) \in Sockets
    BY <1>2 DEF Deliver, TypeInv, PageTypes
  <2>2. CASE inbox' = [inbox EXCEPT ![Mine(p)] = Tail(@)]
    <3>1. inbox' = Taken(inbox, Mine(p))
      BY <2>2 DEF Taken
    <3>2. m \in MailTo(Taken(inbox, Mine(p)), k) \/ (k = Mine(p) /\ m = First(inbox, Mine(p)))
      BY <1>1, <2>1, TakenKeeps
    <3> QED BY <1>2, <3>1, <3>2 DEF First
  <2>3. PICK head : head = Head(inbox[Mine(p)])
    OBVIOUS
  <2>4. CASE head.kind = "offer" /\ OnOffer(p, head.from, head.sdp)
    <3>1. head.from \in Sockets /\ head.sdp \in SUBSET Stream
      BY <2>1, <2>3, <2>4, FirstMail, MessageFields DEF TypeInv
    <3>2. ASSUME NEW c, NEW next, NEW answered, NEW box \in [Sockets -> Seq(Message)],
                 AnswersOffer(p, head.from, head.sdp, c, next, answered, box)
          PROVE  m \in MailTo(inbox', k) \/ (k = Mine(p) /\ m = Head(inbox[Mine(p)]))
      <4>1. PICK a : a = [kind |-> "answer", from |-> Mine(p), sdp |-> answered]
        OBVIOUS
      <4>2. box = Sent(inbox, {head.from}, a) /\ inbox' = [box EXCEPT ![Mine(p)] = Tail(@)]
        BY <3>2, <4>1 DEF AnswersOffer
      <4>3. inbox' = Taken(box, Mine(p))
        BY <4>2 DEF Taken
      <4>4. m \in MailTo(box, k) /\ box[Mine(p)] # <<>> /\ First(box, Mine(p)) = First(inbox, Mine(p))
        <5>1. m \in MailTo(box, k)
          <6>1. PICK ids : box = Sent(inbox, ids, a)
            BY <4>2
          <6> QED BY <1>1, <6>1, SentKeeps
        <5>2. box[Mine(p)] # <<>>
          BY <1>1, <2>1, <4>2, SentNotEmpty
        <5>3. First(Sent(inbox, {head.from}, a), Mine(p)) = First(inbox, Mine(p))
          BY <1>1, <2>1, SentFirst
        <5> QED BY <4>2, <5>1, <5>2, <5>3
      <4>5. m \in MailTo(Taken(box, Mine(p)), k) \/ (k = Mine(p) /\ m = First(box, Mine(p)))
        BY <1>1, <2>1, <4>4, TakenKeeps
      <4> QED BY <4>3, <4>4, <4>5 DEF First
    <3> QED BY <1>2, <2>1, <2>2, <2>4, <3>1, <3>2, OnOfferWays DEF IgnoresOffer
  <2> QED BY <1>2, <2>2, <2>3, <2>4 DEF Deliver
<1>3. ASSUME NEW stream, inbox' = Gone(inbox, Mine(p), stream) PROVE m \in MailTo(inbox', k)
  <2>1. UNCHANGED inbox \/ \E ids, x : inbox' = Sent(inbox, ids, x)
    BY <1>3 DEF Gone
  <2> QED BY <1>1, <2>1, SentKeeps
<1>4. ASSUME NEW id \in Sockets, Negotiate(p, id) PROVE m \in MailTo(inbox', k)
  <2>1. \E ids, x : inbox' = Sent(inbox, ids, x)
    BY <1>4 DEF Negotiate, Relayed
  <2> QED BY <1>1, <2>1, SentKeeps
<1>5. CASE LeaveStage(p) \/ CloseWebcam(p)
  BY <1>3, <1>5 DEF LeaveStage, CloseWebcam
<1>6. CASE UNCHANGED inbox
  BY <1>6
<1> QED
  BY <1>2, <1>4, <1>5, <1>6
     DEF Steady, PageStep, Button, Signals, Granted, Denied, RaiseHand, ToggleMic, GoLive, StopLive,
         OpenWebcam, AnswerHand, AnswerSet, ConnectionFails, serverVars

-----------------------------------------------------------------------------
(* Pictures of those that have gone: who still shows one is about to be     *)
(* told, or will find its connection dead.                                  *)

Explained(p, id) ==
  \/ link[id] = "up" \/ GoneFor(id)
  \/ page[p].at = "on" /\ Mine(p) \in room /\ (link[id] = "lost" \/ Job("bye", id) \in jobs)
  \/ page[p].at = "on" /\ LeftMessage(id) \in MailTo(inbox, Mine(p))

\* An offer or an answer comes from another page, and from one that is there
\* unless it was closed.
Foreign(k, m) ==
  /\ m.from \in Sockets /\ owner[m.from] # owner[k] /\ link[m.from] # "free"
  /\ link[m.from] = "up" \/ GoneFor(m.from)

Pictured(p, id) ==
  /\ peers[p][id].heard # {} /\ owner[id] # p /\ link[id] # "free"
  /\ page[p].at \notin {"away", "closed"}
  /\ Explained(p, id)

\* Whose answer is being set.
Answering(p, id) == Connected(p) /\ owner[id] # p /\ (link[id] = "up" \/ GoneFor(id))

PictureInv ==
  /\ Blank
  /\ \A p \in Pages, id \in Sockets : peers[p][id].sig = "answered" => Answering(p, id)
  /\ \A p \in Pages, id \in Sockets : peers[p][id].sig # "none" => link[id] # "free"
  /\ \A p \in Pages : Connected(p) => peers[p][Mine(p)].sig = "none"
  /\ \A k \in Sockets : \A m \in MailTo(inbox, k) : m.kind \in {"offer", "answer"} => Foreign(k, m)
  /\ \A p \in Pages, id \in Sockets : streams[p][id] # {} => Pictured(p, id)

\* A class page is in the room.
LEMMA InTheRoom ==
  ASSUME TypeInv, AdmissionInv, PresenceInv, NEW p \in Pages, page[p].at = "on"
  PROVE  Mine(p) \in Sockets /\ Mine(p) \in room /\ link[Mine(p)] = "up" /\ owner[Mine(p)] = p
<1>1. Connected(p)
  BY DEF Connected
<1>2. Mine(p) \in Sockets /\ link[Mine(p)] = "up" /\ owner[Mine(p)] = p
  BY <1>1 DEF TypeInv, PageTypes, PresenceInv
<1>3. ~GoneFor(Mine(p)) /\ Admitted(Mine(p))
  BY <1>2 DEF GoneFor, AdmissionInv
<1> QED
  BY <1>2, <1>3 DEF PresenceInv

\* A handler goes on but for the one that made its step.
LEMMA HandlerGoesOn ==
  ASSUME NEW j \in jobs, HandlerStep(j), NEW k \in jobs, k # j
  PROVE  k \in jobs'
BY DEF HandlerStep, JoinRoom, JoinAnnounced, TakeSnapshot, SnapshotSent, HandAnnounced, HandAccepted,
       HandRejected, MediaToggled, Left, Bye, Continues

LEMMA HandlerPicture ==
  ASSUME TypeInv, AdmissionInv, PresenceInv, PictureInv, NEW j \in jobs, HandlerStep(j), UNCHANGED pageVars
  PROVE  PictureInv'
<1>1. /\ UNCHANGED <<owner, link, page, peers, streams>> /\ room \subseteq room'
      /\ inbox \in [Sockets -> Seq(Message)]
  BY DEF HandlerStep, JoinRoom, JoinAnnounced, TakeSnapshot, HandAnnounced, HandAccepted, HandRejected,
         MediaToggled, Left, Bye, pageVars, TypeInv, MailTypes
<1>2. \A p : page[p].at = page'[p].at /\ Mine(p)' = Mine(p)
  BY <1>1 DEF Mine
<1>3. \A id : GoneFor(id)' <=> GoneFor(id)
  BY <1>1 DEF GoneFor
<1>4. ASSUME NEW k \in Sockets, NEW m \in MailTo(inbox', k), m.kind \in {"offer", "answer"}
      PROVE  Foreign(k, m)'
  <2>1. m \in MailTo(inbox, k)
    BY <1>4, HandlerMail DEF LeftMessage
  <2> QED BY <1>1, <1>3, <1>4, <2>1 DEF PictureInv, Foreign
<1>5. ASSUME NEW p \in Pages, NEW id \in Sockets, streams[p][id] # {} PROVE Explained(p, id)'
  <2>1. Explained(p, id)
    BY <1>5 DEF PictureInv, Pictured
  <2>2. CASE page[p].at = "on" /\ LeftMessage(id) \in MailTo(inbox, Mine(p))
    <3>1. Mine(p) \in Sockets /\ Mine(p)' = Mine(p)
      BY <1>2, <2>2, InTheRoom
    <3>2. PICK m : m = LeftMessage(id)
      OBVIOUS
    <3>3. m \in MailTo(inbox', Mine(p))
      BY <2>2, <3>1, <3>2, HandlerKeeps
    <3> QED BY <1>2, <2>2, <3>1, <3>2, <3>3 DEF Explained, LeftMessage
  <2>3. CASE page[p].at = "on" /\ Mine(p) \in room /\ Job("bye", id) \in jobs
    <3>1. CASE Job("bye", id) = j
      <4>1. Bye(j) /\ j.id = id
        BY <3>1 DEF HandlerStep, JoinRoom, JoinAnnounced, TakeSnapshot, HandAnnounced, HandAccepted,
                    HandRejected, MediaToggled, Left, Bye, Job
      <4>2. PICK m : m = LeftMessage(id)
        OBVIOUS
      <4>3. inbox' = Sent(inbox, room, m)
        BY <4>1, <4>2 DEF Bye
      <4>4. Mine(p) \in Sockets /\ Online(Mine(p))
        BY <2>3, InTheRoom DEF Online
      <4>5. m \in MailTo(inbox', Mine(p))
        <5>1. m \in MailTo(Sent(inbox, room, m), Mine(p))
          BY <1>1, <2>3, <4>4, MailSent
        <5> QED BY <4>3, <5>1
      <4> QED BY <1>2, <2>3, <4>2, <4>5 DEF Explained, LeftMessage
    <3>2. CASE Job("bye", id) # j
      <4>1. Job("bye", id) \in jobs'
        BY <2>3, <3>2, HandlerGoesOn
      <4> QED BY <1>1, <1>2, <2>3, <4>1 DEF Explained, Job
    <3> QED BY <3>1, <3>2
  <2> QED BY <1>1, <1>2, <1>3, <2>1, <2>2, <2>3 DEF Explained
<1>6. \A p \in Pages, id \in Sockets : peers'[p][id].sig = "answered" => Answering(p, id)'
  BY <1>1, <1>3 DEF PictureInv, Answering, Connected
<1> QED
  BY <1>1, <1>2, <1>4, <1>5, <1>6 DEF PictureInv, Pictured, Blank, Connected

LEMMA NoticedPicture ==
  ASSUME TypeInv, AdmissionInv, PresenceInv, PictureInv, NEW gone \in Sockets, Noticed(gone)
  PROVE  PictureInv'
<1>1. /\ UNCHANGED <<owner, data, inbox, page, peers, streams>> /\ room' = room \ {gone}
      /\ link[gone] = "lost" /\ link' = [link EXCEPT ![gone] = "down"]
      /\ jobs \subseteq jobs' /\ (data[gone].joined => Job("bye", gone) \in jobs')
      /\ link \in [Sockets -> {"free", "up", "lost", "down"}]
  BY DEF Noticed, Disconnect, pageVars, TypeInv, ServerTypes
<1>2. \A id \in Sockets : link'[id] = IF id = gone THEN "down" ELSE link[id]
  BY <1>1
<1>3. \A id : GoneFor(id)' <=> GoneFor(id)
  BY <1>1 DEF GoneFor
<1>4. ASSUME NEW k \in Sockets, NEW m \in MailTo(inbox, k), m.kind \in {"offer", "answer"}
      PROVE  Foreign(k, m)'
  <2>1. m.from \in Sockets /\ Foreign(k, m)
    <3>1. m \in Message
      BY MailTyped DEF TypeInv
    <3> QED BY <1>4, <3>1, MessageFields DEF PictureInv
  <2> QED BY <1>1, <1>2, <1>3, <2>1 DEF Foreign
<1>5. ASSUME NEW p \in Pages, NEW id \in Sockets, streams[p][id] # {} PROVE Explained(p, id)'
  <2>1. Explained(p, id)
    BY <1>5 DEF PictureInv, Pictured
  <2>2. page[p].at = "on" /\ Mine(p) \in room => Mine(p) \in room'
    BY <1>1, InTheRoom
  <2>3. CASE id = gone /\ page[p].at = "on" /\ Mine(p) \in room /\ ~GoneFor(id)
    <3>1. Admitted(id)
      BY <1>1, <2>3 DEF Admitted, PresenceInv
    <3>2. data[id].joined
      BY <1>1, <2>3, <3>1 DEF PresenceInv
    <3> QED BY <1>1, <2>2, <2>3, <3>2 DEF Explained, Mine, Job
  <2>4. CASE id # gone \/ GoneFor(id) \/ ~(page[p].at = "on" /\ Mine(p) \in room)
    BY <1>1, <1>2, <1>3, <2>1, <2>2, <2>4 DEF Explained, Mine, Job, LeftMessage
  <2> QED BY <2>3, <2>4
<1>6. \A p \in Pages, id \in Sockets : peers'[p][id].sig = "answered" => Answering(p, id)'
  BY <1>1, <1>2, <1>3 DEF PictureInv, Answering, Connected
<1> QED
  BY <1>1, <1>2, <1>4, <1>5, <1>6 DEF PictureInv, Pictured, Blank, Connected, Mine

LEMMA SteadyForeign ==
  ASSUME TypeInv, AdmissionInv, PresenceInv, PictureInv, NEW p \in Pages, Steady(p),
         NEW k \in Sockets, NEW m \in MailTo(inbox', k), m.kind \in {"offer", "answer"}
  PROVE  Foreign(k, m)
<1>1. CASE m \in MailTo(inbox, k)
  BY <1>1 DEF PictureInv
<1>2. CASE m \notin MailTo(inbox, k)
  <2>1. PageSays(p, k, m)
    BY <1>2, PageStepMail DEF Steady
  <2>2. /\ Online(k) /\ m.from = Mine(p) /\ Connected(p)
        /\ \/ peers[p][k].sig # "none"
           \/ \E x \in MailTo(inbox, Mine(p)) : x.kind = "offer" /\ x.from = k
    BY <2>1 DEF PageSays, LeftMessage
  <2>3. Mine(p) \in Sockets /\ link[Mine(p)] = "up" /\ owner[Mine(p)] = p
    BY <2>2 DEF TypeInv, PageTypes, PresenceInv
  <2>4. owner[k] # p
    <3>1. CASE peers[p][k].sig # "none"
      <4>1. k # Mine(p)
        BY <2>2, <3>1 DEF PictureInv
      <4> QED BY <2>2, <4>1 DEF PresenceInv, Online
    <3>2. ASSUME NEW x \in MailTo(inbox, Mine(p)), x.kind = "offer", x.from = k PROVE owner[k] # p
      <4>1. Foreign(Mine(p), x)
        BY <2>3, <3>2 DEF PictureInv
      <4> QED BY <2>3, <3>2, <4>1 DEF Foreign
    <3> QED BY <2>2, <3>1, <3>2
  <2> QED BY <2>2, <2>3, <2>4 DEF Foreign
<1> QED
  BY <1>1, <1>2

LEMMA SteadyExplained ==
  ASSUME TypeInv, AdmissionInv, PresenceInv, PictureInv, NEW p \in Pages, Steady(p),
         NEW q \in Pages, NEW id \in Sockets, streams[q][id] # {}, streams'[q][id] # {}
  PROVE  Explained(q, id)'
<1>1. UNCHANGED <<owner, link, room>> /\ jobs \subseteq jobs'
  BY SteadyLinks
<1>2. /\ page'[q].socket = Mine(q) /\ (page[q].at = "on" => page'[q].at = "on")
      /\ \A r \in Pages : page'[r].at = "closed" <=> page[r].at = "closed"
  BY SteadyPages
<1>3. GoneFor(id) => GoneFor(id)'
  BY <1>1, <1>2 DEF GoneFor, TypeInv, ServerTypes
<1>4. Explained(q, id)
  BY DEF PictureInv, Pictured
<1>5. CASE page[q].at = "on" /\ LeftMessage(id) \in MailTo(inbox, Mine(q))
  <2>1. Mine(q) \in Sockets /\ owner[Mine(q)] = q
    BY <1>5, InTheRoom
  <2>2. PICK m : m = LeftMessage(id)
    OBVIOUS
  <2>3. m.kind = "left" /\ m.from = id
    BY <2>2 DEF LeftMessage
  <2>4. CASE m \in MailTo(inbox', Mine(q))
    BY <1>2, <1>5, <2>2, <2>4 DEF Explained, LeftMessage, Mine
  <2>5. CASE Deliver(p) /\ Mine(q) = Mine(p) /\ m = Head(inbox[Mine(p)])
    <3>1. p = q
      BY <2>1, <2>5 DEF PresenceInv, Deliver
    <3>2. OnLeft(p, m.from)
      BY <2>3, <2>5 DEF Deliver
    <3>3. streams'[q][id] = {}
      BY <2>3, <3>1, <3>2, StageSet DEF OnLeft, PeerClosed, TypeInv, PageTypes
    <3> QED BY <3>3
  <2> QED BY <1>5, <2>1, <2>2, <2>4, <2>5, SteadyKeeps
<1> QED
  BY <1>1, <1>2, <1>3, <1>4, <1>5 DEF Explained, Mine, Job

LEMMA SteadyPicture ==
  ASSUME TypeInv, AdmissionInv, MicsInv, PresenceInv, PictureInv, NEW p \in Pages, Steady(p)
  PROVE  PictureInv'
<1>1. UNCHANGED <<owner, link, room>>
  BY SteadyLinks
<1>2. \A q \in Pages : /\ page'[q].socket = Mine(q)
                       /\ Connected(q)' <=> Connected(q)
                       /\ page'[q].at = "closed" <=> page[q].at = "closed"
                       /\ page'[q].at = "away" => page[q].at = "away"
  BY SteadyPages
<1>3. \A id \in Sockets : GoneFor(id)' <=> GoneFor(id)
  BY <1>1, <1>2 DEF GoneFor, TypeInv, ServerTypes
<1>4. \A q \in Pages, id \in Sockets : PeerWays(p, q, id, peers'[q][id], streams'[q][id])
  BY PageStepPeers DEF PictureInv, Steady
<1>5. ASSUME NEW m \in MailTo(inbox, Mine(p)), Connected(p), m.kind \in {"offer", "answer"}
      PROVE  /\ Mine(p) \in Sockets /\ owner[m.from] # p /\ m.from # Mine(p) /\ m.from \in Sockets
             /\ link[m.from] # "free" /\ (link[m.from] = "up" \/ GoneFor(m.from))
  <2>1. Mine(p) \in Sockets /\ owner[Mine(p)] = p
    BY <1>5 DEF TypeInv, PageTypes, PresenceInv
  <2>2. Foreign(Mine(p), m)
    BY <1>5, <2>1 DEF PictureInv
  <2>3. m.from \in Sockets
    BY <1>5, <2>1, MailTyped, MessageFields DEF TypeInv
  <2> QED BY <2>1, <2>2, <2>3 DEF Foreign
<1>6. ASSUME NEW m \in MailTo(inbox, Mine(p)), Connected(p), NEW x \in Told(m)
      PROVE  link[x.id] # "free"
  <2>1. Mine(p) \in Sockets
    BY <1>6 DEF TypeInv, PageTypes
  <2> QED BY <1>6, <2>1 DEF MicsInv, Fair, Admitted
<1>7. ASSUME NEW q \in Pages, NEW id \in Sockets
      PROVE  /\ peers'[q][id].sig = "none" => peers'[q][id] = NoPeer
             /\ peers'[q][id].sig # "none" => link[id] # "free"
             /\ Connected(q) /\ id = Mine(q) => peers'[q][id].sig = "none"
             /\ streams'[q][id] # {} =>
                  /\ peers'[q][id].heard # {} /\ owner[id] # q /\ link[id] # "free"
                  /\ page[q].at \notin {"away", "closed"}
             /\ streams'[q][id] # {} => streams[q][id] # {} \/ link[id] = "up" \/ GoneFor(id)
             /\ peers'[q][id].sig = "answered" => Answering(q, id)
  <2>1. PICK next, shown : next = peers'[q][id] /\ shown = streams'[q][id] /\ PeerWays(p, q, id, next, shown)
    BY <1>4
  <2>2. CASE PeerStays(q, id, next, shown)
    BY <2>1, <2>2 DEF PeerStays, PictureInv, Pictured
  <2>3. CASE next = NoPeer /\ shown = {}
    BY <2>1, <2>3 DEF NoPeer
  <2>4. CASE q = p /\ PeerBegins(p, id, next, shown)
    <3>1. streams[p][id] = {}
      <4>1. NoPeer.heard = {}
        BY DEF NoPeer
      <4> QED BY <2>4, <4>1 DEF PeerBegins, PictureInv, Pictured, Blank
    <3>2. link[id] # "free"
      BY <1>6, <2>4 DEF PeerBegins
    <3> QED BY <2>1, <2>4, <3>1, <3>2 DEF PeerBegins
  <2>5. CASE q = p /\ PeerOffers(p, id, next, shown)
    <3>1. peers[p][id].sig # "none" /\ next.heard = peers[p][id].heard /\ shown = streams[p][id]
      BY <2>5 DEF PeerOffers, Negotiate, Needy
    <3>2. Connected(p) /\ next.sig = "offering"
      BY <2>5 DEF PeerOffers, Negotiate
    <3> QED BY <2>1, <2>5, <3>1, <3>2 DEF PictureInv, Pictured
  <2>6. ASSUME q = p, NEW m \in MailTo(inbox, Mine(p)), PeerHears(p, id, next, shown, m)
        PROVE  /\ next.sig # "none" /\ link[id] # "free" /\ id # Mine(p)
               /\ shown # {} => next.heard # {} /\ owner[id] # p /\ page[p].at \notin {"away", "closed"}
               /\ link[id] = "up" \/ GoneFor(id)
    <3>1. /\ owner[id] # p /\ id # Mine(p) /\ link[id] # "free" /\ Connected(p)
          /\ link[id] = "up" \/ GoneFor(id)
      BY <1>5, <2>6 DEF PeerHears
    <3>2. shown # {} => next.heard # {}
      BY <2>6 DEF PeerHears, PictureInv, Pictured
    <3>3. next.sig = "stable"
      BY <2>6 DEF PeerHears
    <3> QED BY <3>1, <3>2, <3>3 DEF Connected
  <2>7. CASE q = p /\ \E m \in MailTo(inbox, Mine(p)) : PeerHears(p, id, next, shown, m)
    <3>1. next.sig = "stable"
      BY <2>7 DEF PeerHears
    <3> QED BY <2>1, <2>6, <2>7, <3>1
  <2>8. ASSUME q = p, NEW m \in MailTo(inbox, Mine(p)), PeerAnswers(p, id, next, shown, m)
        PROVE  /\ next.sig = "answered" /\ link[id] # "free" /\ id # Mine(p) /\ Answering(p, id)
               /\ shown = streams[p][id] /\ next.heard = peers[p][id].heard
    BY <1>5, <2>8 DEF PeerAnswers, Answering
  <2>9. CASE q = p /\ \E m \in MailTo(inbox, Mine(p)) : PeerAnswers(p, id, next, shown, m)
    BY <2>1, <2>8, <2>9 DEF PictureInv, Pictured
  <2>10. CASE q = p /\ PeerAnswered(p, id, next, shown)
    <3>1. Answering(p, id) /\ link[id] # "free" /\ id # Mine(p) /\ page[p].at \notin {"away", "closed"}
      BY <2>10 DEF PeerAnswered, PictureInv, Answering, Connected
    <3>2. next.sig = "stable" /\ (shown # {} => next.heard # {})
      BY <2>10 DEF PeerAnswered, PictureInv, Pictured
    <3> QED BY <2>1, <2>10, <3>1, <3>2 DEF Answering
  <2> QED BY <2>1, <2>2, <2>3, <2>4, <2>5, <2>7, <2>9, <2>10 DEF PeerWays
<1>8. ASSUME NEW k \in Sockets, NEW m \in MailTo(inbox', k), m.kind \in {"offer", "answer"}
      PROVE  Foreign(k, m)'
  <2>1. Foreign(k, m)
    BY <1>8, SteadyForeign
  <2> QED BY <1>1, <1>3, <2>1 DEF Foreign
<1>9. ASSUME NEW q \in Pages, NEW id \in Sockets, streams'[q][id] # {} PROVE Explained(q, id)'
  <2>1. CASE streams[q][id] # {}
    BY <1>9, <2>1, SteadyExplained
  <2>2. CASE link[id] = "up" \/ GoneFor(id)
    BY <1>1, <1>3, <2>2 DEF Explained
  <2> QED BY <1>7, <1>9, <2>1, <2>2
<1>10. \A q \in Pages : Connected(q)' => peers'[q][Mine(q)'].sig = "none"
  BY <1>2, <1>7 DEF Mine, TypeInv, PageTypes
<1>11. ASSUME NEW q \in Pages, NEW id \in Sockets, peers'[q][id].sig = "answered" PROVE Answering(q, id)'
  <2>1. Answering(q, id)
    BY <1>7, <1>11
  <2> QED BY <1>1, <1>2, <1>3, <2>1 DEF Answering
<1> QED
  BY <1>1, <1>2, <1>7, <1>8, <1>9, <1>10, <1>11 DEF PictureInv, Pictured, Blank

LEMMA ConnectsPicture ==
  ASSUME TypeInv, AdmissionInv, PresenceInv, PictureInv, NEW p \in Pages, ~Connected(p),
         page[p].at # "closed", NEW new \in Sockets, Connects(p, new)
  PROVE  PictureInv'
<1>1. /\ link[new] = "free" /\ link' = [link EXCEPT ![new] = "up"] /\ owner' = [owner EXCEPT ![new] = p]
      /\ jobs' = jobs \cup {Job("join", new)} /\ UNCHANGED <<room, data, inbox, peers, streams>>
      /\ link \in [Sockets -> {"free", "up", "lost", "down"}] /\ owner \in [Sockets -> Pages]
  BY DEF Connects, TypeInv, ServerTypes
<1>2. \A q \in Pages : /\ q # p => page'[q].at = page[q].at /\ page'[q].socket = Mine(q)
                       /\ page'[p].at = "connecting" /\ page'[p].socket = new
  <2>1. PICK next : next = [page[p] EXCEPT !.at = "connecting", !.socket = new]
    OBVIOUS
  <2>2. page \in [Pages -> Page] /\ page[p] \in Page
    BY DEF TypeInv, PageTypes
  <2>3. next.at = "connecting" /\ next.socket = new
    BY <2>1, <2>2 DEF Page
  <2>4. page' = [page EXCEPT ![p] = next]
    BY <2>1, <2>2 DEF Connects
  <2> QED BY <2>2, <2>3, <2>4 DEF Mine
<1>3. \A id \in Sockets : link[id] # "free" => link'[id] = link[id] /\ owner'[id] = owner[id]
  BY <1>1
<1>4. ASSUME NEW id \in Sockets, link[id] # "free" PROVE GoneFor(id)' <=> GoneFor(id)
  <2>1. owner[id] \in Pages /\ owner'[id] = owner[id]
    BY <1>1, <1>3, <1>4
  <2> QED BY <1>2, <2>1 DEF GoneFor
<1>5. ASSUME NEW q \in Pages, NEW id \in Sockets, peers[q][id].sig # "none" PROVE link'[id] # "free"
  BY <1>3, <1>5 DEF PictureInv
<1>6. ASSUME NEW q \in Pages, Connected(q)' PROVE peers[q][Mine(q)'].sig = "none"
  <2>1. CASE q = p
    BY <1>1, <1>2, <2>1 DEF PictureInv, Mine
  <2>2. CASE q # p
    BY <1>2, <1>6, <2>2 DEF PictureInv, Connected, Mine
  <2> QED BY <2>1, <2>2
<1>7. ASSUME NEW k \in Sockets, NEW m \in MailTo(inbox, k), m.kind \in {"offer", "answer"}
      PROVE  Foreign(k, m)'
  <2>1. Foreign(k, m)
    BY <1>7 DEF PictureInv
  <2>2. link[k] # "free" /\ m.from \in Sockets /\ link[m.from] # "free"
    BY <1>7, <2>1 DEF PresenceInv, Foreign
  <2> QED BY <1>3, <1>4, <2>1, <2>2 DEF Foreign
<1>8. ASSUME NEW q \in Pages, NEW id \in Sockets, streams[q][id] # {} PROVE Pictured(q, id)'
  <2>1. Pictured(q, id)
    BY <1>8 DEF PictureInv
  <2>2. link[id] # "free"
    BY <2>1 DEF Pictured
  <2>3. page[q].at = "on" => page'[q].at = "on" /\ page'[q].socket = Mine(q)
    BY <1>2 DEF Connected
  <2>4. Explained(q, id)'
    BY <1>1, <1>3, <1>4, <2>1, <2>2, <2>3 DEF Pictured, Explained, Mine, Job, LeftMessage
  <2> QED BY <1>1, <1>2, <1>3, <2>1, <2>2, <2>4 DEF Pictured
<1>9. ASSUME NEW q \in Pages, NEW id \in Sockets, peers[q][id].sig = "answered" PROVE Answering(q, id)'
  <2>1. Answering(q, id) /\ link[id] # "free"
    BY <1>9 DEF PictureInv
  <2> QED BY <1>2, <1>3, <1>4, <2>1 DEF Answering, Connected
<1> QED
  BY <1>1, <1>5, <1>6, <1>7, <1>8, <1>9 DEF PictureInv, Blank

\* A connection that breaks in a class that has settled: all that are in the
\* class are in the room, and will be told once the server notices.
LEMMA DropPicture ==
  ASSUME TypeInv, AdmissionInv, PresenceInv, PictureInv, NEW p \in Pages, Drop(p)
  PROVE  PictureInv'
<1>1. Connected(p) /\ Mine(p) \in Sockets /\ owner[Mine(p)] = p /\ link[Mine(p)] = "up"
  BY DEF Drop, Connected, TypeInv, PageTypes, PresenceInv
<1>2. /\ link' = [link EXCEPT ![Mine(p)] = "lost"] /\ UNCHANGED <<owner, room, jobs, peers, streams>>
      /\ link \in [Sockets -> {"free", "up", "lost", "down"}] /\ owner \in [Sockets -> Pages]
      /\ jobs = {} /\ \A id \in Sockets : inbox[id] = <<>> /\ link[id] # "lost"
      /\ \A q \in Pages : page[q].at \in {"away", "on", "closed"}
      /\ \A q \in Pages, id \in Sockets : peers[q][id].sig # "answered"
      /\ inbox' = [inbox EXCEPT ![Mine(p)] = <<>>] /\ inbox \in [Sockets -> Seq(Message)]
  BY DEF Drop, Quiet, TypeInv, ServerTypes, MailTypes
<1>3. \A q \in Pages : /\ q # p => page'[q].at = page[q].at
                       /\ page'[q].socket = Mine(q)
                       /\ page'[p].at = "dropped"
  <2>1. PICK next : next = [page[p] EXCEPT !.at = "dropped"]
    OBVIOUS
  <2>2. page \in [Pages -> Page] /\ page[p] \in Page
    BY DEF TypeInv, PageTypes
  <2>3. next.at = "dropped" /\ next.socket = Mine(p)
    BY <2>1, <2>2 DEF Page, Mine
  <2>4. page' = [page EXCEPT ![p] = next]
    BY <2>1, <2>2 DEF Drop
  <2> QED BY <2>2, <2>3, <2>4 DEF Mine
<1>4. \A id \in Sockets : link'[id] = IF id = Mine(p) THEN "lost" ELSE link[id]
  BY <1>1, <1>2
<1>5. \A id \in Sockets : GoneFor(id)' <=> GoneFor(id)
  BY <1>1, <1>2, <1>3 DEF GoneFor, Connected
<1>6. \A k \in Sockets : MailTo(inbox, k) = {} /\ MailTo(inbox', k) = {}
  BY <1>2 DEF MailTo, MailOf
<1>7. ASSUME NEW q \in Pages, Connected(q)' PROVE peers[q][Mine(q)'].sig = "none"
  <2>1. Connected(q) /\ Mine(q)' = Mine(q)
    BY <1>3, <1>7 DEF Connected, Mine
  <2> QED BY <2>1 DEF PictureInv
<1>8. ASSUME NEW q \in Pages, NEW id \in Sockets, streams[q][id] # {} PROVE Pictured(q, id)'
  <2>1. Pictured(q, id)
    BY <1>8 DEF PictureInv
  <2>2. link[id] = "up" \/ GoneFor(id)
    <3>1. page[q].at = "on" => Mine(q) \in Sockets
      BY InTheRoom
    <3> QED BY <1>2, <1>6, <2>1, <3>1 DEF Pictured, Explained
  <2>3. CASE id = Mine(p)
    <3>1. q # p /\ page[q].at = "on"
      BY <1>1, <1>2, <2>1, <2>3 DEF Pictured
    <3>2. Mine(q) \in room
      BY <3>1, InTheRoom
    <3>3. page'[q].at = "on" /\ page'[q].socket = Mine(q) /\ link'[id] = "lost"
      BY <1>1, <1>3, <1>4, <2>3, <3>1
    <3>4. Explained(q, id)'
      BY <1>2, <3>2, <3>3 DEF Explained, Mine
    <3> QED BY <1>2, <2>1, <3>3, <3>4 DEF Pictured
  <2>4. CASE id # Mine(p)
    <3>1. Explained(q, id)' /\ link'[id] = link[id]
      BY <1>4, <1>5, <2>2, <2>4 DEF Explained
    <3> QED BY <1>2, <1>3, <2>1, <3>1 DEF Pictured
  <2> QED BY <2>3, <2>4
<1>9. \A q \in Pages, id \in Sockets : peers[q][id].sig # "none" => link'[id] # "free"
  BY <1>4 DEF PictureInv
<1> QED
  BY <1>2, <1>6, <1>7, <1>8, <1>9 DEF PictureInv, Blank

LEMMA ClosePicture ==
  ASSUME TypeInv, AdmissionInv, PresenceInv, PictureInv, NEW p \in Pages, Close(p)
  PROVE  PictureInv'
<1>1. Connected(p) /\ Mine(p) \in Sockets /\ owner[Mine(p)] = p /\ link[Mine(p)] = "up"
  BY DEF Close, Connected, TypeInv, PageTypes, PresenceInv
<1>2. /\ link' = [link EXCEPT ![Mine(p)] = "lost"] /\ UNCHANGED owner
      /\ link \in [Sockets -> {"free", "up", "lost", "down"}] /\ owner \in [Sockets -> Pages]
      /\ jobs \subseteq jobs' /\ room' = room \ {Mine(p)} /\ inbox \in [Sockets -> Seq(Message)]
  BY DEF Close, TypeInv, ServerTypes, MailTypes
<1>3. \A q \in Pages : /\ q # p => page'[q].at = page[q].at
                       /\ page'[q].socket = Mine(q)
                       /\ page'[p].at = "closed"
  <2>1. PICK next : next = [page[p] EXCEPT !.at = "closed", !.main = NoStream, !.cams = {}, !.asking = 0]
    OBVIOUS
  <2>2. page \in [Pages -> Page] /\ page[p] \in Page
    BY DEF TypeInv, PageTypes
  <2>3. next.at = "closed" /\ next.socket = Mine(p)
    BY <2>1, <2>2 DEF Page, Mine
  <2>4. page' = [page EXCEPT ![p] = next]
    BY <2>1, <2>2 DEF Close
  <2> QED BY <2>2, <2>3, <2>4 DEF Mine
<1>4. \A id \in Sockets : link'[id] = IF id = Mine(p) THEN "lost" ELSE link[id]
  BY <1>1, <1>2
<1>5. \A id \in Sockets : (GoneFor(id) => GoneFor(id)') /\ (owner[id] = p => GoneFor(id)')
  BY <1>2, <1>3 DEF GoneFor
<1>6. /\ \A q \in Pages, id \in Sockets : q # p => peers'[q][id] = peers[q][id] /\ streams'[q][id] = streams[q][id]
      /\ \A id \in Sockets : peers'[p][id] = NoPeer /\ streams'[p][id] = {}
  BY DEF Close, TypeInv, PageTypes
<1>7. ASSUME NEW q \in Pages, Connected(q)' PROVE peers'[q][Mine(q)'].sig = "none"
  <2>1. q # p /\ Connected(q) /\ Mine(q)' = Mine(q) /\ Mine(q) \in Sockets
    BY <1>3, <1>7 DEF Connected, Mine, TypeInv, PageTypes
  <2> QED BY <1>6, <2>1 DEF PictureInv
<1>8. ASSUME NEW k \in Sockets, NEW m \in MailTo(inbox', k), m.kind \in {"offer", "answer"}
      PROVE  Foreign(k, m)'
  <2>1. m \in MailTo(inbox, k)
    <3>1. ASSUME m \notin MailTo(inbox, k) PROVE FALSE
      <4>1. PageSays(p, k, m) /\ m.from = Mine(p)
        BY <1>8, <3>1, PageStepMail DEF PageStep, PageSays, LeftMessage
      <4>2. PICK box : box = Sent(inbox, room, LeftMessage(Mine(p)))
        OBVIOUS
      <4>3. inbox' = [box EXCEPT ![Mine(p)] = <<>>] /\ DOMAIN box = Sockets
        BY <4>2 DEF Close, Sent
      <4>4. k # Mine(p)
        BY <1>1, <1>8, <4>3 DEF MailTo, MailOf
      <4>5. m \in MailTo(box, k)
        BY <1>8, <4>3, <4>4 DEF MailTo
      <4>6. m \in MailTo(inbox, k) \/ m = LeftMessage(Mine(p))
        <5>1. PICK left : left = LeftMessage(Mine(p))
          OBVIOUS
        <5>2. box = Sent(inbox, room, left)
          BY <4>2, <5>1
        <5> QED BY <1>2, <4>5, <5>1, <5>2, SentOnly
      <4> QED BY <1>8, <3>1, <4>6 DEF LeftMessage
    <3> QED BY <3>1
  <2>2. Foreign(k, m)
    BY <1>8, <2>1 DEF PictureInv
  <2> QED BY <1>1, <1>2, <1>4, <1>5, <2>2 DEF Foreign
<1>9. ASSUME NEW q \in Pages, NEW id \in Sockets, streams'[q][id] # {} PROVE Pictured(q, id)'
  <2>1. q # p /\ Pictured(q, id)
    BY <1>6, <1>9 DEF PictureInv
  <2>2. Explained(q, id)'
    <3>1. CASE owner[id] = p
      BY <1>5, <3>1 DEF Explained
    <3>2. CASE owner[id] # p /\ ~(page[q].at = "on" /\ LeftMessage(id) \in MailTo(inbox, Mine(q)))
      <4>1. link'[id] = link[id]
        BY <1>1, <1>4, <3>2
      <4>2. page[q].at = "on" => Mine(q) \in Sockets /\ owner[Mine(q)] = q
        BY InTheRoom
      <4>3. page[q].at = "on" /\ Mine(q) \in room => Mine(q) \in room'
        BY <1>1, <1>2, <2>1, <4>2
      <4>4. page'[q].at = page[q].at /\ page'[q].socket = Mine(q)
        BY <1>3, <2>1
      <4>5. Job("bye", id) \in jobs => Job("bye", id) \in jobs'
        BY <1>2
      <4> QED BY <1>5, <2>1, <3>2, <4>1, <4>3, <4>4, <4>5 DEF Pictured, Explained, Mine, Job
    <3>3. CASE page[q].at = "on" /\ LeftMessage(id) \in MailTo(inbox, Mine(q))
      <4>1. PICK m : m = LeftMessage(id)
        OBVIOUS
      <4>2. Mine(q) \in Sockets /\ Mine(q) # Mine(p)
        BY <1>1, <2>1, <3>3, InTheRoom
      <4>3. PICK left, box : left = LeftMessage(Mine(p)) /\ box = Sent(inbox, room, left)
        OBVIOUS
      <4>4. inbox' = [box EXCEPT ![Mine(p)] = <<>>] /\ DOMAIN box = Sockets
        BY <4>3 DEF Close, Sent
      <4>5. m \in MailTo(box, Mine(q))
        BY <1>2, <3>3, <4>1, <4>2, <4>3, SentKeeps
      <4>6. m \in MailTo(inbox', Mine(q))
        BY <4>2, <4>4, <4>5 DEF MailTo
      <4>7. page'[q].at = "on" /\ page'[q].socket = Mine(q)
        BY <1>3, <2>1, <3>3
      <4> QED BY <4>1, <4>6, <4>7 DEF Explained, Mine, LeftMessage
    <3> QED BY <3>1, <3>2, <3>3
  <2>3. link'[id] # "free"
    BY <1>4, <2>1 DEF Pictured
  <2> QED BY <1>2, <1>3, <1>6, <2>1, <2>2, <2>3 DEF Pictured
<1>10. ASSUME NEW q \in Pages, NEW id \in Sockets
       PROVE  /\ peers'[q][id].sig # "none" => link'[id] # "free"
              /\ peers'[q][id].sig = "none" => peers'[q][id] = NoPeer
  <2>1. CASE q = p
    <3>1. NoPeer.sig = "none"
      BY DEF NoPeer
    <3> QED BY <1>6, <2>1, <3>1
  <2>2. CASE q # p
    BY <1>4, <1>6, <2>2 DEF PictureInv, Blank
  <2> QED BY <2>1, <2>2
<1>11. ASSUME NEW q \in Pages, NEW id \in Sockets, peers'[q][id].sig = "answered" PROVE Answering(q, id)'
  <2>1. q # p /\ Answering(q, id)
    BY <1>6, <1>11 DEF PictureInv, NoPeer
  <2>2. Connected(q)'
    BY <1>3, <2>1 DEF Answering, Connected
  <2>3. link'[id] = "up" \/ GoneFor(id)'
    BY <1>4, <1>5, <1>1, <2>1 DEF Answering
  <2> QED BY <1>2, <2>1, <2>2, <2>3 DEF Answering
<1> QED
  BY <1>7, <1>8, <1>9, <1>10, <1>11 DEF PictureInv, Blank

LEMMA PageStepPicture ==
  ASSUME TypeInv, AdmissionInv, MicsInv, PresenceInv, PictureInv, NEW p \in Pages, PageStep(p)
  PROVE  PictureInv'
<1>1. ASSUME NEW id \in Sockets, Visit(p, id) \/ Reconnect(p, id) PROVE PictureInv'
  BY <1>1, ConnectsPicture DEF Visit, Reconnect, Connected
<1> QED
  BY <1>1, SteadyPicture, DropPicture, ClosePicture DEF Steady

LEMMA InitPicture == Init => PictureInv
<1> SUFFICES ASSUME Init PROVE PictureInv
  OBVIOUS
<1>1. /\ \A p \in Pages, id \in Sockets : peers[p][id] = NoPeer /\ streams[p][id] = {}
      /\ \A p \in Pages : page[p].at = "away"
      /\ \A id \in Sockets : inbox[id] = <<>>
  BY DEF Init, ServerInit, NewPage
<1>2. NoPeer.sig = "none"
  BY DEF NoPeer
<1>3. \A id \in Sockets : MailTo(inbox, id) = {}
  BY <1>1 DEF MailTo, MailOf
<1> QED
  BY <1>1, <1>2, <1>3 DEF PictureInv, Blank, Connected

LEMMA NextPicture ==
  TypeInv /\ AdmissionInv /\ MicsInv /\ PresenceInv /\ PictureInv /\ [Next]_vars => PictureInv'
<1> SUFFICES ASSUME TypeInv, AdmissionInv, MicsInv, PresenceInv, PictureInv, [Next]_vars
             PROVE  PictureInv'
  OBVIOUS
<1>1. CASE UNCHANGED vars
  BY <1>1
     DEF vars, serverVars, pageVars, PictureInv, Blank, Pictured, Explained, Answering, Foreign, GoneFor,
         Connected, Mine, MailTo
<1> QED
  BY <1>1, HandlerPicture, NoticedPicture, PageStepPicture DEF Next

LEMMA PicturesAlways == Spec => [](TypeInv /\ AdmissionInv /\ MicsInv /\ PresenceInv /\ PictureInv)
<1>1. Init => TypeInv /\ AdmissionInv /\ MicsInv /\ PresenceInv /\ PictureInv
  BY InitTypes, InitMics, InitPresence, InitPicture
<1>2. TypeInv /\ AdmissionInv /\ MicsInv /\ PresenceInv /\ PictureInv /\ [Next]_vars =>
        (TypeInv /\ AdmissionInv /\ MicsInv /\ PresenceInv /\ PictureInv)'
  BY NextTypes, NextMics, NextPresence, NextPicture
<1> QED
  BY <1>1, <1>2, PTL DEF Spec

\* Once everything has arrived, no page shows a picture of a connection that
\* is gone: room:left closes the peer connection (useLiveRoom.ts), nothing that
\* was on its way brings its stream back, and the peer connection to a page
\* that was closed fails, however little the others were told.
THEOREM PicturesGo == Spec => []NoPictureOfTheGone
<1>1. TypeInv /\ AdmissionInv /\ PresenceInv /\ PictureInv => NoPictureOfTheGone
  <2> SUFFICES ASSUME TypeInv, AdmissionInv, PresenceInv, PictureInv, Settled, NEW p \in Class,
                      NEW id \in Sockets, streams[p][id] # {}
               PROVE  link[id] = "up"
    BY DEF NoPictureOfTheGone
  <2>1. p \in Pages /\ page[p].at = "on"
    BY DEF Class
  <2>2. Pictured(p, id)
    BY <2>1 DEF PictureInv
  <2>3. jobs = {} /\ inbox[Mine(p)] = <<>> /\ link[id] # "lost" /\ ~Orphaned(p, id)
    BY <2>1, InTheRoom DEF Settled, Quiet
  <2>4. ~GoneFor(id)
    BY <2>2, <2>3 DEF Pictured, GoneFor, Orphaned
  <2>5. MailTo(inbox, Mine(p)) = {}
    BY <2>3 DEF MailTo, MailOf
  <2> QED BY <2>2, <2>3, <2>4, <2>5 DEF Pictured, Explained
<1> QED
  BY <1>1, PicturesAlways, PTL

-----------------------------------------------------------------------------
(* What is said of one that has gone, and which offers were ignored.        *)

\* The page of a connection has lost or left it.
Past(id) == link[id] \in {"lost", "down"}

DepartureInv ==
  /\ \A id \in Sockets : Job("bye", id) \in jobs => Past(id)
  /\ \A k \in Sockets : \A m \in MailTo(inbox, k) : m.kind = "left" => Past(m.from)

LEMMA NextPast ==
  ASSUME TypeInv, [Next]_vars, NEW id \in Sockets, Past(id)
  PROVE  Past(id)'
<1>1. UNCHANGED link \/ \E k \in Sockets : \/ link[k] = "free" /\ link' = [link EXCEPT ![k] = "up"]
                                           \/ link' = [link EXCEPT ![k] = "lost"]
                                           \/ link' = [link EXCEPT ![k] = "down"]
  <2>1. ASSUME NEW j \in jobs, HandlerStep(j) PROVE UNCHANGED link
    BY <2>1 DEF HandlerStep, JoinRoom, JoinAnnounced, TakeSnapshot, HandAnnounced, HandAccepted,
                HandRejected, MediaToggled, Left, Bye
  <2>2. ASSUME NEW k \in Sockets, Noticed(k) PROVE link' = [link EXCEPT ![k] = "down"]
    BY <2>2 DEF Noticed, Disconnect
  <2>3. ASSUME NEW p \in Pages, PageStep(p)
        PROVE  UNCHANGED link \/ \E k \in Sockets : \/ link[k] = "free" /\ link' = [link EXCEPT ![k] = "up"]
                                                    \/ link' = [link EXCEPT ![k] = "lost"]
    <3>1. CASE Steady(p)
      BY <3>1, SteadyLinks
    <3>2. ASSUME NEW k \in Sockets, Connects(p, k) PROVE link[k] = "free" /\ link' = [link EXCEPT ![k] = "up"]
      BY <3>2 DEF Connects
    <3>3. CASE Drop(p)
      <4>1. Mine(p) \in Sockets /\ link' = [link EXCEPT ![Mine(p)] = "lost"]
        BY <3>3 DEF Drop, Connected, TypeInv, PageTypes
      <4> QED BY <4>1
    <3>4. CASE Close(p)
      <4>1. Mine(p) \in Sockets /\ link' = [link EXCEPT ![Mine(p)] = "lost"]
        BY <3>4 DEF Close, Connected, TypeInv, PageTypes
      <4> QED BY <4>1
    <3> QED BY <2>3, <3>1, <3>2, <3>3, <3>4 DEF Steady, Visit, Reconnect
  <2>4. CASE UNCHANGED vars
    BY <2>4 DEF vars, serverVars
  <2> QED BY <2>1, <2>2, <2>3, <2>4 DEF Next
<1> QED
  BY <1>1 DEF Past, TypeInv, ServerTypes

LEMMA NextDeparture ==
  TypeInv /\ PresenceInv /\ DepartureInv /\ [Next]_vars => DepartureInv'
<1> SUFFICES ASSUME TypeInv, PresenceInv, DepartureInv, [Next]_vars PROVE DepartureInv'
  OBVIOUS
<1>1. \A kind, id : Job(kind, id).kind = kind /\ Job(kind, id).id = id
  BY DEF Job
<1>2. ASSUME NEW id \in Sockets, Job("bye", id) \in jobs' PROVE Past(id)'
  <2>1. CASE Job("bye", id) \in jobs
    BY <2>1, NextPast DEF DepartureInv
  <2>2. ASSUME NEW j \in jobs, HandlerStep(j) PROVE Job("bye", id) \in jobs
    <3>1. PICK yes, no : /\ yes = Snapshot(j.id, TRUE) /\ no = Snapshot(j.id, FALSE)
                         /\ yes.kind = "snapshot" /\ no.kind = "snapshot"
      <4>1. Snapshot(j.id, TRUE).kind = "snapshot" /\ Snapshot(j.id, FALSE).kind = "snapshot"
        BY DEF Snapshot
      <4> QED BY <4>1
    <3>2. ASSUME NEW x \in j.rest, j.kind = "snapshot" PROVE Read(j, x).kind = "snapshot"
      <4>1. j \in Jobs
        BY <2>2 DEF TypeInv, ServerTypes
      <4> QED BY <3>2, <4>1, ReadMore
    <3>3. \A k \in jobs' : k \in jobs \/ k.kind \in {"joined", "snapshot"}
      <4>1. CASE TakeSnapshot(j)
        BY <2>2, <3>2, <4>1 DEF TakeSnapshot, SnapshotSent, Continues
      <4>2. CASE JoinRoom(j)
        BY <1>1, <4>2 DEF JoinRoom, Continues
      <4>3. CASE JoinAnnounced(j) \/ Bye(j)
        BY <3>1, <4>3 DEF JoinAnnounced, Bye, Continues
      <4>4. CASE HandAccepted(j)
        BY <3>1, <4>4 DEF HandAccepted, Continues
      <4>5. CASE HandAnnounced(j) \/ HandRejected(j) \/ MediaToggled(j) \/ Left(j)
        BY <4>5 DEF HandAnnounced, HandRejected, MediaToggled, Left, Continues
      <4> QED BY <2>2, <4>1, <4>2, <4>3, <4>4, <4>5 DEF HandlerStep
    <3> QED BY <1>1, <1>2, <3>3
  <2>3. ASSUME NEW k \in Sockets, Noticed(k), Job("bye", id) \notin jobs PROVE Past(id)'
    <3>1. id = k
      BY <1>1, <1>2, <2>3 DEF Noticed, Disconnect, Job
    <3>2. link' = [link EXCEPT ![k] = "down"]
      BY <2>3 DEF Noticed, Disconnect
    <3> QED BY <3>1, <3>2 DEF Past, TypeInv, ServerTypes
  <2>4. ASSUME NEW p \in Pages, PageStep(p) PROVE Job("bye", id) \in jobs
    <3>1. ASSUME Job("bye", id) \notin jobs PROVE FALSE
      <4>1. Starts(p, Job("bye", id))
        BY <1>2, <2>4, <3>1, PageStepJobs
      <4> QED BY <1>1, <4>1 DEF Starts
    <3> QED BY <3>1
  <2>5. CASE UNCHANGED vars
    BY <1>2, <2>1, <2>5 DEF vars, serverVars
  <2> QED BY <2>1, <2>2, <2>3, <2>4, <2>5 DEF Next
<1>3. ASSUME NEW k \in Sockets, NEW m \in MailTo(inbox', k), m.kind = "left" PROVE Past(m.from)'
  <2>0. \A id : LeftMessage(id).kind = "left" /\ LeftMessage(id).from = id
    BY DEF LeftMessage
  <2>1. CASE m \in MailTo(inbox, k)
    <3>1. m.from \in Sockets /\ Past(m.from)
      BY <1>3, <2>1, MailTyped, MessageFields DEF DepartureInv, TypeInv
    <3>2. PICK id \in Sockets : id = m.from
      BY <3>1
    <3>3. Past(id)'
      BY <3>1, <3>2, NextPast
    <3> QED BY <3>2, <3>3 DEF Past
  <2>2. ASSUME NEW j \in jobs, HandlerStep(j), m \notin MailTo(inbox, k) PROVE Past(m.from)'
    <3>1. m = LeftMessage(j.id) /\ j.kind = "bye"
      BY <1>3, <2>2, HandlerMail
    <3>2. j.id \in Sockets /\ j = Job("bye", j.id)
      BY <2>2, <3>1, JobFields DEF TypeInv, ServerTypes
    <3>3. Past(j.id)
      BY <2>2, <3>2 DEF DepartureInv
    <3>4. PICK id \in Sockets : id = m.from /\ Past(id)
      BY <2>0, <3>1, <3>2, <3>3
    <3>5. Past(id)'
      BY <3>4, NextPast
    <3> QED BY <3>4, <3>5 DEF Past
  <2>3. ASSUME NEW j \in Sockets, Noticed(j) PROVE m \in MailTo(inbox, k)
    BY <1>3, <2>3 DEF Noticed, Disconnect, MailTo
  <2>4. ASSUME NEW p \in Pages, PageStep(p), m \notin MailTo(inbox, k) PROVE Past(m.from)'
    <3>1. m = LeftMessage(Mine(p)) /\ Close(p)
      BY <1>3, <2>4, PageStepMail DEF PageSays
    <3>2. Mine(p) \in Sockets /\ link' = [link EXCEPT ![Mine(p)] = "lost"]
      BY <3>1 DEF Close, Connected, TypeInv, PageTypes
    <3>3. m.from = Mine(p)
      BY <2>0, <3>1
    <3> QED BY <3>2, <3>3 DEF Past, TypeInv, ServerTypes
  <2>5. ASSUME UNCHANGED vars PROVE m \in MailTo(inbox, k)
    BY <1>3, <2>5 DEF vars, serverVars, MailTo
  <2> QED BY <2>1, <2>2, <2>3, <2>4, <2>5 DEF Next
<1> QED
  BY <1>2, <1>3 DEF DepartureInv

LEMMA InitDeparture == Init => DepartureInv
BY DEF Init, ServerInit, DepartureInv, MailTo, MailOf

\* The offer that p handles is one of id.
TakesOffer(p, id) ==
  /\ Deliver(p) /\ First(inbox, Mine(p)).kind = "offer" /\ First(inbox, Mine(p)).from = id

\* What a page's step makes of the memory of an ignored offer.
IgnoredWays(p, q, id) ==
  /\ peers'[q][id].ignored =>
       peers[q][id].ignored \/ (q = p /\ TakesOffer(p, id) /\ peers[p][id].sig = "answered" /\ ~IsPolite(p, id))
  /\ peers[q][id].ignored =>
       \/ peers'[q][id].ignored
       \/ q = p /\ (Negotiate(p, id) \/ TakesOffer(p, id) \/ peers'[q][id].sig = "none")

\* Adding tracks and taking them off the senders leaves it alone.
LEMMA IgnoredStays ==
  ASSUME NEW c \in Peer, NEW S
  PROVE  /\ TracksAdded(c, S).ignored = c.ignored
         /\ [c EXCEPT !.mute = S].ignored = c.ignored
<1>1. TracksAdded(c, S).ignored = c.ignored
  <2>1. PICK n : n = TracksAdded(c, S)
    OBVIOUS
  <2> QED BY <2>1, AddedFields
<1> QED
  BY <1>1 DEF Peer

LEMMA EnsuredIgnores ==
  ASSUME NEW c, NEW mine
  PROVE  Ensured(c, mine).ignored => c.ignored
BY DEF Ensured, NoPeer

LEMMA DeliverIgnores ==
  ASSUME Blank, TypeInv, NEW p \in Pages, Deliver(p), NEW q \in Pages, NEW id \in Sockets
  PROVE  IgnoredWays(p, q, id)
<1>1. PICK m : m = First(inbox, Mine(p)) /\ m = Head(inbox[Mine(p)])
  BY DEF First
<1>2. Connected(p) /\ inbox[Mine(p)] # <<>> /\ Mine(p) \in Sockets
  BY DEF Deliver, TypeInv, PageTypes
<1>3. m \in Message
  BY <1>1, <1>2, FirstMail DEF TypeInv
<1>4. CASE UNCHANGED peers
  BY <1>4 DEF IgnoredWays
<1>5. ASSUME NEW next, NEW other, peers' = [peers EXCEPT ![p][other] = next], other \in Sockets, ~(q = p /\ id = other)
      PROVE  IgnoredWays(p, q, id)
  <2>1. peers'[q][id] = peers[q][id]
    BY <1>5, MeshSet DEF TypeInv, PageTypes
  <2> QED BY <2>1 DEF IgnoredWays
<1>6. CASE m.kind = "offer" /\ OnOffer(p, m.from, m.sdp)
  <2>1. m.from \in Sockets /\ m.sdp \in SUBSET Stream
    BY <1>3, <1>6, MessageFields
  <2>2. PICK c, next \in Peer, answered \in SUBSET Stream, box \in [Sockets -> Seq(Message)] :
           /\ c = Ensured(peers[p][m.from], Mine(p))
           /\ \/ /\ UNCHANGED <<peers, streams>> /\ inbox' = [inbox EXCEPT ![Mine(p)] = Tail(@)]
                 /\ MayRefuse(p, c)
              \/ IgnoresOffer(p, m.from, c, next)
              \/ AnswersOffer(p, m.from, m.sdp, c, next, answered, box)
    BY <1>2, <1>6, <2>1, OnOfferWays
  <2>3. CASE IgnoresOffer(p, m.from, c, next)
    <3>1. peers' = [peers EXCEPT ![p][m.from] = next] /\ next.ignored = (c.sig = "answered") /\ ~IsPolite(p, m.from)
      BY <2>3 DEF IgnoresOffer
    <3>2. CASE q = p /\ id = m.from
      <4>1. TakesOffer(p, id)
        BY <1>1, <1>6, <3>2 DEF TakesOffer
      <4>2. peers'[q][id] = next
        BY <2>1, <3>1, <3>2, MeshSet DEF TypeInv, PageTypes
      <4>3. c.sig = "answered" => peers[p][id].sig = "answered"
        BY <2>2, <3>2 DEF Ensured, NoPeer
      <4> QED BY <3>1, <3>2, <4>1, <4>2, <4>3 DEF IgnoredWays
    <3> QED BY <1>5, <2>1, <3>1, <3>2
  <2>4. CASE AnswersOffer(p, m.from, m.sdp, c, next, answered, box)
    <3>1. peers' = [peers EXCEPT ![p][m.from] = next] /\ next.ignored = FALSE
      BY <2>4 DEF AnswersOffer
    <3>2. CASE q = p /\ id = m.from
      <4>1. TakesOffer(p, id)
        BY <1>1, <1>6, <3>2 DEF TakesOffer
      <4>2. peers'[q][id] = next
        BY <2>1, <3>1, <3>2, MeshSet DEF TypeInv, PageTypes
      <4> QED BY <3>1, <3>2, <4>1, <4>2 DEF IgnoredWays
    <3> QED BY <1>5, <2>1, <3>1, <3>2
  <2> QED BY <1>4, <2>2, <2>3, <2>4
<1>7. CASE m.kind = "answer" /\ OnAnswer(p, m.from, m.sdp)
  <2>1. m.from \in Sockets
    BY <1>3, <1>7, MessageFields
  <2>2. PICK c \in Peer : c = peers[p][m.from]
    BY <2>1 DEF TypeInv, PageTypes
  <2>3. PICK next : next = [c EXCEPT !.sig = "answered", !.mine = Mine(p), !.reply = m.sdp]
    OBVIOUS
  <2>4. UNCHANGED peers \/ peers' = [peers EXCEPT ![p][m.from] = next]
    BY <1>7, <2>1, <2>2, <2>3 DEF OnAnswer
  <2>5. next.ignored = c.ignored
    BY <2>3 DEF Peer
  <2>6. CASE peers' = [peers EXCEPT ![p][m.from] = next] /\ q = p /\ id = m.from
    <3>1. peers'[q][id] = next
      BY <2>1, <2>6, MeshSet DEF TypeInv, PageTypes
    <3> QED BY <2>2, <2>5, <2>6, <3>1 DEF IgnoredWays
  <2> QED BY <1>4, <1>5, <2>1, <2>4, <2>6
<1>8. ASSUME NEW ids, peers' = [peers EXCEPT ![p] = ConnectedToAll(p, ids)] PROVE IgnoredWays(p, q, id)
  <2>1. CASE q # p
    <3>1. peers'[q][id] = peers[q][id]
      BY <1>8, <2>1 DEF TypeInv, PageTypes
    <3> QED BY <3>1 DEF IgnoredWays
  <2>2. CASE q = p
    <3>1. PICK c \in Peer : c = peers[p][id]
      BY DEF TypeInv, PageTypes
    <3>2. PICK e : e = Ensured(c, Mine(p))
      OBVIOUS
    <3>3. peers'[q][id] = TracksAdded(e, Published(page[p])) \/ peers'[q][id] = c
      BY <1>8, <2>2, <3>1, <3>2 DEF TypeInv, PageTypes, ConnectedToAll, ConnectedTo, Mine
    <3>4. e \in Peer /\ (e.ignored => c.ignored)
      BY <1>2, <3>1, <3>2, EnsuredFields, EnsuredIgnores
    <3>5. c.ignored => e.ignored
      <4>1. c.sig = "none" => ~c.ignored
        BY <3>1 DEF Blank, NoPeer
      <4> QED BY <3>2, <4>1 DEF Ensured
    <3>6. TracksAdded(e, Published(page[p])).ignored = e.ignored
      BY <3>4, IgnoredStays
    <3> QED BY <2>2, <3>1, <3>3, <3>4, <3>5, <3>6 DEF IgnoredWays
  <2> QED BY <2>1, <2>2
<1>9. ASSUME NEW other \in Sockets, PeerClosed(p, other) PROVE IgnoredWays(p, q, id)
  <2>1. peers'[q][id] = IF q = p /\ id = other THEN NoPeer ELSE peers[q][id]
    BY <1>9, MeshSet DEF PeerClosed, TypeInv, PageTypes
  <2>2. NoPeer.sig = "none" /\ ~NoPeer.ignored
    BY DEF NoPeer
  <2> QED BY <2>1, <2>2 DEF IgnoredWays
<1>10. CASE m.kind = "left" /\ OnLeft(p, m.from)
  BY <1>3, <1>9, <1>10, MessageFields DEF OnLeft
<1>11. CASE OnState(p, m) \/ OnJoined(p, m.about)
  BY <1>8, <1>11 DEF OnState, OnJoined
<1> QED
  BY <1>1, <1>4, <1>6, <1>7, <1>10, <1>11 DEF Deliver, OnAccepted, OnGone

LEMMA PageStepIgnores ==
  ASSUME Blank, TypeInv, NEW p \in Pages, Steady(p), NEW q \in Pages, NEW id \in Sockets
  PROVE  IgnoredWays(p, q, id)
<1>0. PICK c \in Peer : c = peers[q][id]
  BY DEF TypeInv, PageTypes
<1>1. CASE Deliver(p)
  BY <1>1, DeliverIgnores
<1>2. ASSUME peers'[q][id].ignored = c.ignored PROVE IgnoredWays(p, q, id)
  BY <1>0, <1>2 DEF IgnoredWays
<1>3. CASE UNCHANGED peers
  BY <1>0, <1>2, <1>3
<1>4. ASSUME NEW other \in Sockets, NEW next, peers' = [peers EXCEPT ![p][other] = next],
             q = p /\ id = other => IgnoredWays(p, q, id)
      PROVE  IgnoredWays(p, q, id)
  <2>1. peers'[q][id] = IF q = p /\ id = other THEN next ELSE peers[q][id]
    BY <1>4, MeshSet DEF TypeInv, PageTypes
  <2> QED BY <1>0, <1>2, <1>4, <2>1
<1>5. ASSUME NEW other \in Sockets, NEW next, peers' = [peers EXCEPT ![p][other] = next]
      PROVE  q = p /\ id = other => peers'[q][id] = next
  BY <1>5, MeshSet DEF TypeInv, PageTypes
<1>6. ASSUME NEW other \in Sockets, Negotiate(p, other) PROVE IgnoredWays(p, q, id)
  <2>1. PICK d \in Peer : d = peers[p][other]
    BY DEF TypeInv, PageTypes
  <2>2. PICK next : next = Offering(d)
    OBVIOUS
  <2>3. peers' = [peers EXCEPT ![p][other] = next]
    BY <1>6, <2>1, <2>2 DEF Negotiate, TypeInv, PageTypes
  <2>4. next.ignored = FALSE
    BY <2>1, <2>2 DEF Offering, Peer
  <2>5. q = p /\ id = other => IgnoredWays(p, q, id)
    BY <1>5, <1>6, <2>3, <2>4 DEF IgnoredWays
  <2> QED BY <1>4, <2>3, <2>5
<1>7. ASSUME NEW other \in Sockets, AnswerSet(p, other) PROVE IgnoredWays(p, q, id)
  <2>1. PICK d \in Peer : d = peers[p][other]
    BY DEF TypeInv, PageTypes
  <2>2. PICK next : next = Answered(d)
    OBVIOUS
  <2>3. peers' = [peers EXCEPT ![p][other] = next]
    BY <1>7, <2>1, <2>2 DEF AnswerSet, TypeInv, PageTypes
  <2>4. next.ignored = d.ignored
    BY <2>1, <2>2 DEF Answered, Peer
  <2>5. q = p /\ id = other => IgnoredWays(p, q, id)
    BY <1>0, <1>2, <1>5, <2>1, <2>3, <2>4
  <2> QED BY <1>4, <2>3, <2>5
<1>8. ASSUME NEW other \in Sockets, ConnectionFails(p, other) PROVE IgnoredWays(p, q, id)
  <2>1. PICK next : next = NoPeer
    OBVIOUS
  <2>2. peers' = [peers EXCEPT ![p][other] = next]
    BY <1>8, <2>1 DEF ConnectionFails, PeerClosed
  <2>3. next.sig = "none" /\ ~next.ignored
    BY <2>1 DEF NoPeer
  <2>4. q = p /\ id = other => IgnoredWays(p, q, id)
    BY <1>5, <2>2, <2>3 DEF IgnoredWays
  <2> QED BY <1>4, <2>2, <2>4
<1>9. ASSUME q # p, NEW mesh, peers' = [peers EXCEPT ![p] = mesh] PROVE IgnoredWays(p, q, id)
  <2>1. peers'[q][id] = peers[q][id]
    BY <1>9 DEF TypeInv, PageTypes
  <2> QED BY <1>0, <1>2, <2>1
<1>10. ASSUME NEW stream, peers' = [peers EXCEPT ![p] = Publishes(p, stream)] PROVE IgnoredWays(p, q, id)
  <2>1. CASE q = p
    <3>1. peers'[q][id] = IF c.sig = "none" THEN NoPeer ELSE TracksAdded(c, {stream})
      BY <1>0, <1>10, <2>1 DEF Publishes, TypeInv, PageTypes
    <3>2. c.sig = "none" => c = NoPeer
      BY <1>0 DEF Blank
    <3>3. TracksAdded(c, {stream}).ignored = c.ignored
      BY IgnoredStays
    <3> QED BY <1>2, <3>1, <3>2, <3>3
  <2> QED BY <1>9, <1>10, <2>1
<1>11. ASSUME NEW stream, \/ peers' = [peers EXCEPT ![p] = Silences(p)]
                          \/ peers' = [peers EXCEPT ![p] = Removes(p, stream)]
       PROVE  IgnoredWays(p, q, id)
  <2>1. CASE q = p
    <3>1. peers'[q][id] = [c EXCEPT !.mute = c.sends] \/ peers'[q][id] = [c EXCEPT !.mute = c.mute \cup ({stream} \cap c.sends)]
      <4>1. CASE peers' = [peers EXCEPT ![p] = Silences(p)]
        BY <1>0, <2>1, <4>1 DEF Silences, TypeInv, PageTypes
      <4>2. CASE peers' = [peers EXCEPT ![p] = Removes(p, stream)]
        <5>1. peers'[q][id] = [c EXCEPT !.mute = @ \cup ({stream} \cap c.sends)]
          BY <1>0, <2>1, <4>2 DEF Removes, TypeInv, PageTypes
        <5> QED BY <5>1 DEF Peer
      <4> QED BY <1>11, <4>1, <4>2
    <3>2. PICK mute : peers'[q][id] = [c EXCEPT !.mute = mute]
      BY <3>1
    <3>3. [c EXCEPT !.mute = mute].ignored = c.ignored
      BY IgnoredStays
    <3> QED BY <1>2, <3>2, <3>3
  <2> QED BY <1>9, <1>11, <2>1
<1>12. CASE Granted(p) \/ GoLive(p) \/ OpenWebcam(p)
  BY <1>10, <1>12 DEF Granted, GoLive, OpenWebcam, OnStage
<1>13. CASE LeaveStage(p) \/ StopLive(p) \/ CloseWebcam(p)
  BY <1>11, <1>13 DEF LeaveStage, StopLive, CloseWebcam
<1> QED
  BY <1>1, <1>3, <1>6, <1>7, <1>8, <1>12, <1>13
     DEF Steady, PageStep, Button, Signals, Denied, RaiseHand, ToggleMic, AnswerHand

-----------------------------------------------------------------------------
(* Offers and answers: who waits for an answer will get one, or an offer to *)
(* give way to.                                                             *)

\* After every answer of x there is an offer of x on the queue.
OrderedFor(queue, x) ==
  \A i \in DOMAIN queue : queue[i].kind = "answer" /\ queue[i].from = x =>
     \E j \in DOMAIN queue : j > i /\ queue[j].kind = "offer" /\ queue[j].from = x

OfferLast(box, k, x) == OrderedFor(box[k], x)

\* A message of this kind from x is on its way to k.
Says(box, x, kind, k) == \E m \in MailTo(box, k) : m.kind = kind /\ m.from = x

LEMMA AppendFields ==
  ASSUME NEW s \in Seq(Message), NEW m
  PROVE  /\ Len(s) \in Nat /\ DOMAIN s = 1 .. Len(s)
         /\ DOMAIN Append(s, m) = 1 .. (Len(s) + 1)
         /\ \A i \in 1 .. Len(s) : Append(s, m)[i] = s[i]
         /\ Append(s, m)[Len(s) + 1] = m
<1>1. Append(s, m) \in Seq(Message \cup {m}) /\ s \in Seq(Message \cup {m})
  OBVIOUS
<1>2. /\ Len(Append(s, m)) = Len(s) + 1 /\ Len(s) \in Nat
      /\ \A i \in 1..Len(s) : Append(s, m)[i] = s[i]
      /\ Append(s, m)[Len(s) + 1] = m
  BY <1>1, AppendProperties
<1>3. DOMAIN s = 1..Len(s) /\ DOMAIN Append(s, m) = 1..Len(Append(s, m))
  BY <1>1, LenProperties
<1> QED
  BY <1>2, <1>3

LEMMA OrderedAppend ==
  ASSUME NEW s \in Seq(Message), NEW m, NEW x, OrderedFor(s, x), ~(m.kind = "answer" /\ m.from = x)
  PROVE  OrderedFor(Append(s, m), x)
<1>0. PICK t : t = Append(s, m)
  OBVIOUS
<1>1. PICK n \in Nat : n = Len(s) /\ t = Append(s, m)
  BY <1>0, AppendFields
<1>2. /\ DOMAIN s = 1 .. n /\ DOMAIN t = 1 .. (n + 1) /\ t[n + 1] = m
      /\ \A i \in 1 .. n : t[i] = s[i]
  BY <1>1, AppendFields
<1>3. ASSUME NEW i \in DOMAIN t, t[i].kind = "answer", t[i].from = x
      PROVE  \E j \in DOMAIN t : j > i /\ t[j].kind = "offer" /\ t[j].from = x
  <2>1. i \in DOMAIN s /\ t[i] = s[i]
    BY <1>2, <1>3
  <2>2. PICK j \in DOMAIN s : j > i /\ s[j].kind = "offer" /\ s[j].from = x
    BY <1>3, <2>1 DEF OrderedFor
  <2>3. j \in DOMAIN t /\ t[j] = s[j]
    BY <1>2, <2>2
  <2> QED BY <2>2, <2>3
<1> QED
  BY <1>1, <1>3 DEF OrderedFor

LEMMA OfferAppended ==
  ASSUME NEW s \in Seq(Message), NEW m, NEW x, m.kind = "offer", m.from = x
  PROVE  OrderedFor(Append(s, m), x)
<1>0. PICK t : t = Append(s, m)
  OBVIOUS
<1>1. PICK n \in Nat : n = Len(s) /\ t = Append(s, m)
  BY <1>0, AppendFields
<1>2. /\ DOMAIN s = 1 .. n /\ DOMAIN t = 1 .. (n + 1) /\ t[n + 1] = m
      /\ \A i \in 1 .. n : t[i] = s[i]
  BY <1>1, AppendFields
<1>3. ASSUME NEW i \in DOMAIN t, t[i].kind = "answer", t[i].from = x
      PROVE  \E j \in DOMAIN t : j > i /\ t[j].kind = "offer" /\ t[j].from = x
  <2>1. i # n + 1
    BY <1>2, <1>3
  <2>2. n + 1 \in DOMAIN t /\ n + 1 > i
    BY <1>2, <1>3, <2>1
  <2> QED BY <1>2, <2>2
<1> QED
  BY <1>1, <1>3 DEF OrderedFor

LEMMA OrderedTail ==
  ASSUME NEW s \in Seq(Message), s # <<>>, NEW x, OrderedFor(s, x)
  PROVE  /\ OrderedFor(Tail(s), x)
         /\ Head(s).kind = "offer" /\ (\E m \in MailOf(s) : m.kind = "answer" /\ m.from = x) =>
               \E m \in MailOf(Tail(s)) : m.kind = "offer" /\ m.from = x
<1>0. PICK t : t = Tail(s)
  OBVIOUS
<1>1. PICK n \in Nat : n = Len(Tail(s)) /\ t = Tail(s)
  <2>1. Tail(s) \in Seq(Message)
    OBVIOUS
  <2> QED BY <1>0, <2>1, LenProperties
<1>2. /\ DOMAIN s = 1 .. (n + 1) /\ DOMAIN t = 1 .. n /\ Head(s) = s[1]
      /\ \A i \in 1 .. n : t[i] = s[i + 1]
  <2>1. /\ Head(s) = s[1] /\ Len(s) \in Nat \ {0}
        /\ Len(Tail(s)) = Len(s) - 1 /\ \A i \in 1 .. Len(Tail(s)) : Tail(s)[i] = s[i + 1]
        /\ DOMAIN s = 1..Len(s) /\ DOMAIN Tail(s) = 1..Len(Tail(s))
    BY HeadTailProperties, LenProperties
  <2>2. Len(s) = n + 1
    BY <1>1, <2>1
  <2> QED BY <1>1, <2>1, <2>2
<1>3. ASSUME NEW i \in DOMAIN s, i > 1, s[i].kind = "answer", s[i].from = x
      PROVE  \E j \in DOMAIN t : j + 1 > i /\ t[j].kind = "offer" /\ t[j].from = x
  <2>1. PICK j \in DOMAIN s : j > i /\ s[j].kind = "offer" /\ s[j].from = x
    BY <1>3 DEF OrderedFor
  <2>2. j - 1 \in DOMAIN t /\ t[j - 1] = s[j] /\ (j - 1) + 1 > i
    BY <1>2, <1>3, <2>1
  <2> QED BY <2>1, <2>2
<1>4. ASSUME NEW i \in DOMAIN t, t[i].kind = "answer", t[i].from = x
      PROVE  \E j \in DOMAIN t : j > i /\ t[j].kind = "offer" /\ t[j].from = x
  <2>1. i + 1 \in DOMAIN s /\ i + 1 > 1 /\ s[i + 1] = t[i]
    BY <1>2, <1>4
  <2>2. PICK j \in DOMAIN t : j + 1 > i + 1 /\ t[j].kind = "offer" /\ t[j].from = x
    BY <1>3, <1>4, <2>1
  <2>3. j > i
    BY <1>2, <2>2
  <2> QED BY <2>2, <2>3
<1>5. ASSUME Head(s).kind = "offer", NEW m \in MailOf(s), m.kind = "answer", m.from = x
      PROVE  \E o \in MailOf(t) : o.kind = "offer" /\ o.from = x
  <2>1. PICK i \in DOMAIN s : m = s[i]
    BY <1>5 DEF MailOf
  <2>2. i # 1
    BY <1>2, <1>5, <2>1
  <2>3. i > 1
    BY <1>2, <2>1, <2>2
  <2>4. PICK j \in DOMAIN t : t[j].kind = "offer" /\ t[j].from = x
    BY <1>3, <1>5, <2>1, <2>3
  <2> QED BY <2>4 DEF MailOf
<1> QED
  BY <1>1, <1>4, <1>5 DEF OrderedFor

LEMMA SentOrdered ==
  ASSUME NEW box \in [Sockets -> Seq(Message)], NEW ids, NEW m, NEW next, next = Sent(box, ids, m),
         NEW k \in Sockets, NEW x, OfferLast(box, k, x), ~(m.kind = "answer" /\ m.from = x)
  PROVE  OfferLast(next, k, x)
<1>1. PICK s \in Seq(Message) : s = box[k]
  OBVIOUS
<1>2. next[k] = s \/ next[k] = Append(s, m)
  BY <1>1 DEF Sent
<1>3. OrderedFor(s, x)
  BY <1>1 DEF OfferLast
<1> QED
  BY <1>2, <1>3, OrderedAppend DEF OfferLast

LEMMA SentOffer ==
  ASSUME NEW box \in [Sockets -> Seq(Message)], NEW ids, NEW m, NEW next, next = Sent(box, ids, m),
         NEW k \in Sockets, k \in ids, Online(k), m.kind = "offer"
  PROVE  OfferLast(next, k, m.from)
<1>1. PICK s \in Seq(Message) : s = box[k]
  OBVIOUS
<1>2. next[k] = Append(s, m)
  BY <1>1 DEF Sent, Online
<1> QED
  BY <1>2, OfferAppended DEF OfferLast

LEMMA TakenOrdered ==
  ASSUME NEW box \in [Sockets -> Seq(Message)], NEW id \in Sockets, box[id] # <<>>, NEW k \in Sockets, NEW x,
         OfferLast(box, k, x)
  PROVE  /\ OfferLast(Taken(box, id), k, x)
         /\ k = id /\ First(box, id).kind = "offer" /\ Says(box, x, "answer", k) =>
               Says(Taken(box, id), x, "offer", k)
<1>1. CASE k = id
  <2>1. PICK s \in Seq(Message) : s = box[id]
    OBVIOUS
  <2>2. Taken(box, id)[k] = Tail(s) /\ s # <<>> /\ First(box, id) = Head(s) /\ OrderedFor(s, x)
    BY <1>1, <2>1 DEF Taken, First, OfferLast
  <2> QED BY <1>1, <2>1, <2>2, OrderedTail DEF MailTo, OfferLast, Says
<1>2. CASE k # id
  <2>1. Taken(box, id)[k] = box[k]
    BY <1>2 DEF Taken
  <2> QED BY <1>2, <2>1 DEF OfferLast
<1> QED
  BY <1>1, <1>2

\* The offer that is first on the queue is answered with m: out are the queues
\* before it is taken off.
AnswersFirst(p, to, m, out) ==
  /\ First(inbox, Mine(p)).kind = "offer" /\ First(inbox, Mine(p)).from = to
  /\ m.kind = "answer" /\ m.from = Mine(p)
  /\ out \in [Sockets -> Seq(Message)] /\ out = Sent(inbox, {to}, m)
  /\ inbox' = Taken(out, Mine(p))
  /\ peers'[p][to].sig = "stable"

\* How a page's step changes the queues.
SteadyMail(p) ==
  \/ UNCHANGED inbox
  \/ \E id \in Sockets : \E m : /\ Negotiate(p, id) /\ m.kind = "offer" /\ m.from = Mine(p)
                                 /\ inbox' = Sent(inbox, {id}, m)
  \/ \E ids, m : m.kind = "gone" /\ inbox' = Sent(inbox, ids, m)
  \/ Deliver(p) /\ inbox' = Taken(inbox, Mine(p))
  \/ Deliver(p) /\ \E to \in Sockets : \E m, out : AnswersFirst(p, to, m, out)

\* The offer of to is ignored: in a glare, or while an answer is being set,
\* which is remembered.
Ignores(p, to) ==
  /\ peers[p][to].sig \in {"offering", "answered"} /\ ~IsPolite(p, to)
  /\ peers[p][to].sig = "answered" => peers'[p][to].ignored
  /\ inbox' = Taken(inbox, Mine(p))

\* What becomes of an offer: it is ignored by the impolite side, may be refused
\* by a connection from before, and is answered otherwise.
LEMMA OfferHandled ==
  ASSUME TypeInv, NEW p \in Pages, Deliver(p), NEW to, to = First(inbox, Mine(p)).from,
         First(inbox, Mine(p)).kind = "offer"
  PROVE  /\ to \in Sockets
         /\ \/ Ignores(p, to)
            \/ /\ peers[p][to].sig # "none" /\ peers[p][to].mine # Mine(p)
               /\ inbox' = Taken(inbox, Mine(p))
            \/ \E m, out : AnswersFirst(p, to, m, out)
<1>1. Connected(p) /\ inbox[Mine(p)] # <<>> /\ Mine(p) \in Sockets
  BY DEF Deliver, TypeInv, PageTypes
<1>2. PICK head : head = First(inbox, Mine(p)) /\ head = Head(inbox[Mine(p)])
  BY DEF First
<1>3. head.kind = "offer" /\ head.from = to /\ OnOffer(p, to, head.sdp)
  BY <1>2 DEF Deliver
<1>4. to \in Sockets /\ head.sdp \in SUBSET Stream
  BY <1>1, <1>2, <1>3, FirstMail, MessageFields DEF TypeInv
<1>5. PICK was \in Peer : was = peers[p][to]
  BY <1>4 DEF TypeInv, PageTypes
<1>6. ASSUME NEW c, c = Ensured(peers[p][to], Mine(p)), inbox' = [inbox EXCEPT ![Mine(p)] = Tail(@)],
             MayRefuse(p, c)
      PROVE  /\ peers[p][to].sig # "none" /\ peers[p][to].mine # Mine(p)
             /\ inbox' = Taken(inbox, Mine(p))
  <2>1. /\ was.sig # "none" => c = was
        /\ was.sig = "none" => c.sig = "stable" /\ c.mine = Mine(p)
    BY <1>1, <1>5, <1>6, EnsuredFields
  <2>2. inbox' = Taken(inbox, Mine(p))
    BY <1>6 DEF Taken
  <2> QED BY <1>5, <1>6, <2>1, <2>2 DEF MayRefuse
<1>8. ASSUME NEW c, c = Ensured(peers[p][to], Mine(p)), NEW next, IgnoresOffer(p, to, c, next)
      PROVE  Ignores(p, to)
  <2>1. c = was
    BY <1>5, <1>8 DEF IgnoresOffer, Ensured, NoPeer
  <2>2. inbox' = Taken(inbox, Mine(p))
    BY <1>8 DEF IgnoresOffer, Taken
  <2>3. /\ peers' = [peers EXCEPT ![p][to] = next] /\ next.ignored = (c.sig = "answered")
        /\ c.sig \in {"offering", "answered"} /\ ~IsPolite(p, to)
    BY <1>8 DEF IgnoresOffer
  <2>4. peers'[p][to] = next
    BY <1>4, <2>3, MeshSet DEF TypeInv, PageTypes
  <2> QED BY <1>5, <2>1, <2>2, <2>3, <2>4 DEF Ignores
<1>7. ASSUME NEW c, NEW next, NEW answered, NEW box \in [Sockets -> Seq(Message)],
             AnswersOffer(p, to, head.sdp, c, next, answered, box)
      PROVE  \E m, out : AnswersFirst(p, to, m, out)
  <2>1. PICK m : m = [kind |-> "answer", from |-> Mine(p), sdp |-> answered]
    OBVIOUS
  <2>2. m.kind = "answer" /\ m.from = Mine(p)
    BY <2>1
  <2>3. box = Sent(inbox, {to}, m) /\ inbox' = Taken(box, Mine(p))
    BY <1>7, <2>1 DEF AnswersOffer, Taken
  <2>4. peers' = [peers EXCEPT ![p][to] = next] /\ next.sig = "stable"
    BY <1>7 DEF AnswersOffer
  <2>5. peers'[p][to] = next
    BY <1>4, <2>4, MeshSet DEF TypeInv, PageTypes
  <2>6. AnswersFirst(p, to, m, box)
    BY <1>2, <1>3, <2>2, <2>3, <2>4, <2>5 DEF AnswersFirst
  <2> QED BY <2>6
<1> QED
  BY <1>1, <1>3, <1>4, <1>6, <1>7, <1>8, OnOfferWays

LEMMA SteadyInbox ==
  ASSUME TypeInv, NEW p \in Pages, Steady(p)
  PROVE  SteadyMail(p)
<1>1. CASE Deliver(p)
  <2>1. CASE inbox' = [inbox EXCEPT ![Mine(p)] = Tail(@)]
    BY <1>1, <2>1 DEF SteadyMail, Taken
  <2>2. CASE First(inbox, Mine(p)).kind = "offer"
    <3>1. PICK to : to = First(inbox, Mine(p)).from
      OBVIOUS
    <3> QED BY <1>1, <2>2, <3>1, OfferHandled DEF SteadyMail, Ignores
  <2> QED BY <1>1, <2>1, <2>2 DEF Deliver, First
<1>2. ASSUME NEW stream, inbox' = Gone(inbox, Mine(p), stream) PROVE SteadyMail(p)
  <2>1. CASE data[Mine(p)].joined
    <3>1. PICK m : m = [kind |-> "gone", from |-> Mine(p), stream |-> stream]
      OBVIOUS
    <3>2. m.kind = "gone" /\ inbox' = Sent(inbox, room \ {Mine(p)}, m)
      BY <1>2, <2>1, <3>1 DEF Gone
    <3> QED BY <3>2 DEF SteadyMail
  <2>2. CASE ~data[Mine(p)].joined
    BY <1>2, <2>2 DEF Gone, SteadyMail
  <2> QED BY <2>1, <2>2
<1>3. ASSUME NEW id \in Sockets, Negotiate(p, id) PROVE SteadyMail(p)
  <2>1. PICK m : m = [kind |-> "offer", from |-> Mine(p), sdp |-> peers[p][id].sends]
    OBVIOUS
  <2>2. m.kind = "offer" /\ m.from = Mine(p) /\ inbox' = Sent(inbox, {id}, m)
    BY <1>3, <2>1 DEF Negotiate, Relayed
  <2> QED BY <1>3, <2>2 DEF SteadyMail
<1>4. CASE LeaveStage(p) \/ CloseWebcam(p)
  BY <1>2, <1>4 DEF LeaveStage, CloseWebcam
<1>5. CASE UNCHANGED inbox
  BY <1>5 DEF SteadyMail
<1> QED
  BY <1>1, <1>3, <1>4, <1>5
     DEF Steady, PageStep, Button, Signals, Granted, Denied, RaiseHand, ToggleMic, GoLive, StopLive,
         OpenWebcam, AnswerHand, AnswerSet, ConnectionFails, serverVars

\* The order is disturbed only by the answer to an offer, which leaves the
\* page without an offer of its own.
LEMMA SteadyOrdered ==
  ASSUME TypeInv, PresenceInv, PictureInv, NEW p \in Pages, Steady(p), NEW k \in Sockets,
         NEW x, OfferLast(inbox, k, x)
  PROVE  OfferLast(inbox', k, x) \/ (x = Mine(p) /\ Connected(p) /\ peers'[p][k].sig = "stable")
<1>1. inbox \in [Sockets -> Seq(Message)]
  BY DEF TypeInv, MailTypes
<1>2. ASSUME NEW id \in Sockets, NEW m, m.kind = "offer", m.from = Mine(p), inbox' = Sent(inbox, {id}, m)
      PROVE  OfferLast(inbox', k, x)
  <2>1. PICK ids : inbox' = Sent(inbox, ids, m)
    BY <1>2
  <2> QED BY <1>1, <1>2, <2>1, SentOrdered
<1>3. ASSUME NEW ids, NEW m, m.kind = "gone", inbox' = Sent(inbox, ids, m)
      PROVE  OfferLast(inbox', k, x)
  BY <1>1, <1>3, SentOrdered
<1>4. CASE Deliver(p) /\ inbox' = Taken(inbox, Mine(p))
  <2>1. inbox[Mine(p)] # <<>> /\ Mine(p) \in Sockets
    BY <1>4 DEF Deliver, TypeInv, PageTypes
  <2> QED BY <1>1, <1>4, <2>1, TakenOrdered
<1>5. ASSUME Deliver(p), NEW to \in Sockets, NEW m, NEW out, AnswersFirst(p, to, m, out)
      PROVE  OfferLast(inbox', k, x) \/ (x = Mine(p) /\ Connected(p) /\ peers'[p][k].sig = "stable")
  <2>1. inbox[Mine(p)] # <<>> /\ Mine(p) \in Sockets /\ Connected(p)
    BY <1>5 DEF Deliver, TypeInv, PageTypes
  <2>2. PICK ids : /\ out = Sent(inbox, ids, m) /\ ids = {to} /\ out \in [Sockets -> Seq(Message)]
                   /\ inbox' = Taken(out, Mine(p)) /\ m.kind = "answer" /\ m.from = Mine(p)
    BY <1>5 DEF AnswersFirst
  <2>3. out[Mine(p)] # <<>>
    BY <1>1, <2>1, <2>2, SentNotEmpty
  <2>4. CASE k = to /\ x = Mine(p)
    BY <1>5, <2>1, <2>4 DEF AnswersFirst
  <2>5. CASE x # Mine(p)
    <3>1. OfferLast(out, k, x)
      BY <1>1, <2>2, <2>5, SentOrdered
    <3> QED BY <2>1, <2>2, <2>3, <3>1, TakenOrdered
  <2>6. CASE k # to
    <3>1. out[k] = inbox[k]
      BY <1>1, <2>2, <2>6 DEF Sent
    <3>2. OfferLast(out, k, x)
      BY <3>1 DEF OfferLast
    <3> QED BY <2>1, <2>2, <2>3, <3>2, TakenOrdered
  <2> QED BY <2>4, <2>5, <2>6
<1> QED
  BY <1>2, <1>3, <1>4, <1>5, SteadyInbox DEF SteadyMail

\* A page waits for the answer of a connection that is there.
Waits(p, id) == Connected(p) /\ peers[p][id].sig = "offering" /\ link[id] = "up"

\* Its offer is on its way, or the answer to it, or the offer of the other
\* side, to which it will give way.
AnswerComes(p, id) ==
  \/ Says(inbox, Mine(p), "offer", id)
  \/ Says(inbox, id, "answer", Mine(p))
  \/ Says(inbox, id, "offer", Mine(p)) /\ IsPolite(p, id)

Belongs(p) ==
  /\ page[p].at # "dropped"
  /\ \A id \in Sockets :
       /\ page[p].at = "away" => peers[p][id].sig = "none"
       /\ Connected(p) /\ peers[p][id].sig # "none" => peers[p][id].mine = Mine(p)
       /\ peers[p][id].ignored => peers[p][id].sig \in {"answered", "stable"} /\ ~IsPolite(p, id)

\* The page at the other end ignored its offer, and has offered nothing since.
Missed(p, id) == peers[owner[id]][Mine(p)].ignored

\* As long as no connection was lost.
GlareInv ==
  faults = 0 =>
    /\ \A p \in Pages : Belongs(p)
    /\ \A p \in Pages, id \in Sockets :
         Waits(p, id) => (AnswerComes(p, id) \/ Missed(p, id)) /\ OfferLast(inbox, id, Mine(p))

\* AnswerComes, when its parts stay.
LEMMA StaysAnswered ==
  ASSUME NEW p \in Pages, NEW id \in Sockets, Mine(p)' = Mine(p), AnswerComes(p, id),
         Says(inbox, Mine(p), "offer", id) => Says(inbox', Mine(p), "offer", id),
         Says(inbox, id, "answer", Mine(p)) => Says(inbox', id, "answer", Mine(p)),
         Says(inbox, id, "offer", Mine(p)) => Says(inbox', id, "offer", Mine(p))
  PROVE  AnswerComes(p, id)'
<1>1. PICK me : me = Mine(p)
  OBVIOUS
<1>2. Mine(p)' = me
  BY <1>1
<1> QED
  BY <1>1, <1>2 DEF AnswerComes, IsPolite, Says

\* Who waits after a step of a page waited before, or has just made its offer.
LEMMA SteadyWaits ==
  ASSUME TypeInv, PresenceInv, PictureInv, NEW a \in Pages, Steady(a), NEW p \in Pages, NEW id \in Sockets,
         Waits(p, id)'
  PROVE  Waits(p, id) \/ (p = a /\ Negotiate(a, id))
<1>1. Connected(p) /\ link[id] = "up" /\ peers'[p][id].sig = "offering"
  BY SteadyLinks, SteadyPages DEF Waits
<1>2. PeerWays(a, p, id, peers'[p][id], streams'[p][id])
  BY PageStepPeers DEF Steady, PictureInv
<1>3. NoPeer.sig # "offering"
  BY DEF NoPeer
<1> QED
  BY <1>1, <1>2, <1>3
     DEF PeerWays, PeerStays, PeerBegins, PeerOffers, PeerHears, PeerAnswers, PeerAnswered, Waits

LEMMA SteadyBelongs ==
  ASSUME TypeInv, PresenceInv, PictureInv, NEW a \in Pages, Steady(a), NEW p \in Pages, Belongs(p)
  PROVE  Belongs(p)'
<1>1. page'[p].at # "dropped" /\ (page'[p].at = "away" => page[p].at = "away")
  BY SteadyPages DEF Belongs
<1>2. page'[p].socket = Mine(p) /\ (Connected(p)' <=> Connected(p))
  BY SteadyPages
<1>3. ASSUME NEW id \in Sockets
      PROVE  /\ page[p].at = "away" => peers'[p][id].sig = "none"
             /\ Connected(p) /\ peers'[p][id].sig # "none" => peers'[p][id].mine = Mine(p)
  <2>1. PeerWays(a, p, id, peers'[p][id], streams'[p][id])
    BY PageStepPeers DEF Steady, PictureInv
  <2>2. NoPeer.sig = "none"
    BY DEF NoPeer
  <2>3. page[p].at = "away" => ~Connected(p)
    BY DEF Connected
  <2>4. PeerOffers(a, id, peers'[p][id], streams'[p][id]) => Connected(a) /\ peers[a][id].sig # "none"
    BY DEF PeerOffers, Negotiate, Needy
  <2> QED BY <2>1, <2>2, <2>3, <2>4
             DEF PeerWays, PeerStays, PeerBegins, PeerOffers, PeerHears, PeerAnswers, PeerAnswered, Belongs
<1>4. ASSUME NEW id \in Sockets, peers'[p][id].ignored
      PROVE  peers'[p][id].sig \in {"answered", "stable"} /\ ~IsPolite(p, id)
  <2>1. PeerWays(a, p, id, peers'[p][id], streams'[p][id])
    BY PageStepPeers DEF Steady, PictureInv
  <2>2. PICK c, n : c = peers[p][id] /\ n = peers'[p][id] /\ n.ignored
    BY <1>4
  <2>3. /\ c.sig \in {"answered", "stable"} /\ ~IsPolite(p, id)
        /\ c.sig = "answered" \/ c.ignored
    <3>1. IgnoredWays(a, p, id)
      BY PageStepIgnores DEF PictureInv
    <3> QED BY <1>4, <2>2, <3>1 DEF IgnoredWays, Belongs
  <2>4. n # NoPeer
    BY <2>2 DEF NoPeer
  <2>5. ~(p = a /\ PeerOffers(a, id, n, streams'[p][id]))
    <3>1. ASSUME PeerOffers(a, id, n, streams'[p][id]), p = a PROVE FALSE
      <4>1. PICK d \in Peer : d = peers[a][id]
        BY DEF TypeInv, PageTypes
      <4>2. n = Offering(d)
        BY <3>1, <4>1 DEF PeerOffers
      <4> QED BY <2>2, <4>1, <4>2 DEF Offering, Peer
    <3> QED BY <3>1
  <2> QED BY <2>1, <2>2, <2>3, <2>4, <2>5
             DEF PeerWays, PeerStays, PeerBegins, PeerHears, PeerAnswers, PeerAnswered
<1> QED
  BY <1>1, <1>2, <1>3, <1>4 DEF Belongs, Mine, IsPolite

\* A message of somebody that is gone from a queue was handled.
LEMMA SteadySays ==
  ASSUME TypeInv, NEW a \in Pages, Steady(a), NEW k \in Sockets, NEW x, NEW kind, Says(inbox, x, kind, k)
  PROVE  \/ Says(inbox', x, kind, k)
         \/ /\ Deliver(a) /\ k = Mine(a)
            /\ First(inbox, Mine(a)).kind = kind /\ First(inbox, Mine(a)).from = x
<1>1. PICK m \in MailTo(inbox, k) : m.kind = kind /\ m.from = x
  BY DEF Says
<1>2. m \in MailTo(inbox', k) \/ (Deliver(a) /\ k = Mine(a) /\ m = Head(inbox[Mine(a)]))
  BY SteadyKeeps
<1> QED
  BY <1>1, <1>2 DEF Says, First

\* The answer that is sent arrives.
LEMMA AnswerSays ==
  ASSUME TypeInv, NEW a \in Pages, Deliver(a), NEW to \in Sockets, NEW m, NEW out, AnswersFirst(a, to, m, out),
         Online(to), to # Mine(a)
  PROVE  Says(inbox', Mine(a), "answer", to)
<1>1. inbox \in [Sockets -> Seq(Message)] /\ Mine(a) \in Sockets /\ inbox[Mine(a)] # <<>>
  BY DEF Deliver, TypeInv, PageTypes, MailTypes
<1>2. PICK ids : /\ out = Sent(inbox, ids, m) /\ ids = {to} /\ out \in [Sockets -> Seq(Message)]
                 /\ inbox' = Taken(out, Mine(a)) /\ m.kind = "answer" /\ m.from = Mine(a)
  BY DEF AnswersFirst
<1>3. m \in MailTo(out, to)
  BY <1>1, <1>2, MailSent
<1>4. out[Mine(a)] # <<>>
  BY <1>1, <1>2, SentNotEmpty
<1>5. m \in MailTo(Taken(out, Mine(a)), to)
  BY <1>1, <1>2, <1>3, <1>4, TakenKeeps
<1> QED
  BY <1>2, <1>5 DEF Says

\* Two pages that have each other's offers: one of them gives way.
LEMMA Glare ==
  ASSUME TypeInv, PresenceInv, PictureInv, GlareInv, faults = 0, NEW p \in Pages, NEW a \in Pages,
         Waits(p, Mine(a)), Deliver(a),
         First(inbox, Mine(a)).kind = "offer", First(inbox, Mine(a)).from = Mine(p),
         peers[a][Mine(p)].sig = "offering", Ignores(a, Mine(p))
  PROVE  \/ Says(inbox', Mine(p), "offer", Mine(a))
         \/ Says(inbox', Mine(a), "offer", Mine(p)) /\ IsPolite(p, Mine(a))
<1>1. /\ inbox \in [Sockets -> Seq(Message)] /\ inbox[Mine(a)] # <<>> /\ Connected(a) /\ Connected(p)
      /\ Mine(a) \in Sockets /\ Mine(p) \in Sockets /\ ~IsPolite(a, Mine(p)) /\ inbox' = Taken(inbox, Mine(a))
  BY DEF Deliver, Waits, TypeInv, PageTypes, MailTypes, Ignores
<1>2. Mine(p) # Mine(a) /\ Online(Mine(p)) /\ owner[Mine(p)] = p
  BY <1>1 DEF PictureInv, PresenceInv, Online
<1>3. Waits(a, Mine(p))
  BY <1>1, <1>2 DEF Waits, Online
<1>4. AnswerComes(a, Mine(p)) /\ OfferLast(inbox, Mine(a), Mine(p))
  <2>1. AnswerComes(a, Mine(p)) \/ Missed(a, Mine(p))
    BY <1>1, <1>3 DEF GlareInv
  <2>2. ~Missed(a, Mine(p))
    <3>1. Belongs(p) /\ peers[p][Mine(a)].sig = "offering"
      BY DEF GlareInv, Waits
    <3> QED BY <1>1, <1>2, <3>1 DEF Belongs, Missed
  <2>3. OfferLast(inbox, Mine(p), Mine(a)) /\ OfferLast(inbox, Mine(a), Mine(p))
    BY <1>1, <1>3 DEF GlareInv
  <2> QED BY <2>1, <2>2, <2>3
<1>5. CASE Says(inbox, Mine(a), "offer", Mine(p))
  <2>1. PICK m \in MailTo(inbox, Mine(p)) : m.kind = "offer" /\ m.from = Mine(a)
    BY <1>5 DEF Says
  <2>2. m \in MailTo(Taken(inbox, Mine(a)), Mine(p))
    BY <1>1, <1>2, <2>1, TakenKeeps
  <2>3. IsPolite(p, Mine(a))
    <3>1. PICK x \in Nat, y \in Nat : x = Mine(a) /\ y = Mine(p)
      BY <1>1, ServerAssumption
    <3>2. x # y /\ ~(x > y)
      BY <1>1, <1>2, <3>1 DEF IsPolite
    <3> QED BY <3>1, <3>2 DEF IsPolite
  <2> QED BY <1>1, <2>1, <2>2, <2>3 DEF Says
<1>6. CASE Says(inbox, Mine(p), "answer", Mine(a))
  BY <1>1, <1>4, <1>6, TakenOrdered
<1> QED
  BY <1>1, <1>4, <1>5, <1>6 DEF AnswerComes

\* What a page waits for stays on its way, or comes about, or is ignored, in a
\* page's step.
LEMMA OfferTaken ==
  ASSUME TypeInv, PresenceInv, PictureInv, GlareInv, faults = 0, NEW a \in Pages, NEW p \in Pages,
         NEW id \in Sockets, Waits(p, id), id = Mine(a), TakesOffer(a, Mine(p)), Mine(p)' = Mine(p),
         owner'[id] = owner[id]
  PROVE  AnswerComes(p, id)' \/ Missed(p, id)'
<1>1. /\ Connected(p) /\ Mine(p) \in Sockets /\ owner[Mine(p)] = p /\ link[Mine(p)] = "up"
      /\ link[id] = "up" /\ peers[p][id].sig = "offering"
  BY DEF Waits, PresenceInv, TypeInv, ServerTypes, PageTypes
<1>2. id # Mine(p)
  BY <1>1 DEF PictureInv
<1>3. PICK to : to = First(inbox, Mine(a)).from
  OBVIOUS
<1>4. to = Mine(p) /\ Belongs(a) /\ Connected(a) /\ Deliver(a) /\ First(inbox, Mine(a)).kind = "offer"
  BY <1>3 DEF GlareInv, Deliver, TakesOffer
<1>5. owner[id] = a
  BY <1>4 DEF PresenceInv
<1>6. \/ Ignores(a, to)
      \/ peers[a][to].sig # "none" /\ peers[a][to].mine # Mine(a)
      \/ \E m, out : AnswersFirst(a, to, m, out)
  BY <1>3, <1>4, OfferHandled
<1>7. ~(peers[a][to].sig # "none" /\ peers[a][to].mine # Mine(a))
  BY <1>1, <1>4 DEF Belongs
<1>8. CASE Ignores(a, to) /\ peers[a][to].sig = "offering"
  <2>1. \/ Says(inbox', Mine(p), "offer", Mine(a))
        \/ Says(inbox', Mine(a), "offer", Mine(p)) /\ IsPolite(p, Mine(a))
    BY <1>3, <1>4, <1>8, Glare
  <2> QED BY <2>1 DEF AnswerComes, IsPolite, Says
<1>9. CASE Ignores(a, to) /\ peers[a][to].sig = "answered"
  <2>1. peers'[a][to].ignored
    BY <1>9 DEF Ignores
  <2> QED BY <1>4, <1>5, <2>1 DEF Missed
<1>10. ASSUME NEW m, NEW out, AnswersFirst(a, to, m, out) PROVE AnswerComes(p, id)'
  <2>1. Says(inbox', Mine(a), "answer", Mine(p))
    BY <1>1, <1>2, <1>4, <1>10, AnswerSays DEF Online
  <2> QED BY <2>1 DEF AnswerComes, Says
<1> QED
  BY <1>6, <1>7, <1>8, <1>9, <1>10 DEF Ignores

\* An offer that was ignored is remembered until there is another one.
LEMMA SteadyMissed ==
  ASSUME TypeInv, PresenceInv, DepartureInv, PictureInv, GlareInv, faults = 0, NEW a \in Pages, Steady(a),
         NEW p \in Pages, NEW id \in Sockets, Waits(p, id), Missed(p, id)
  PROVE  AnswerComes(p, id)' \/ Missed(p, id)'
<1>1. /\ Connected(p) /\ Mine(p) \in Sockets /\ owner[Mine(p)] = p /\ link[Mine(p)] = "up"
      /\ link[id] = "up" /\ owner[id] \in Pages /\ Connected(owner[id]) /\ Mine(owner[id]) = id
      /\ peers[p][id].sig = "offering"
  BY DEF Waits, PresenceInv, TypeInv, ServerTypes, PageTypes
<1>2. Mine(p)' = Mine(p) /\ UNCHANGED <<owner, link>>
  BY SteadyPages, SteadyLinks DEF Mine
<1>3. PICK q \in Pages : q = owner[id] /\ Connected(q) /\ Mine(q) = id
  BY <1>1
<1>4. PICK k \in Sockets : k = Mine(p) /\ owner[k] = p /\ link[k] = "up" /\ k # id
  BY <1>1 DEF PictureInv
<1>5. peers[q][k].ignored /\ Belongs(q)
  BY <1>3, <1>4 DEF Missed, GlareInv
<1>6. peers[q][k].sig # "none" /\ peers[q][k].mine = id /\ ~IsPolite(q, k)
  BY <1>3, <1>5 DEF Belongs
<1>7. IsPolite(p, id)
  <2>1. PICK x \in Nat, y \in Nat : x = id /\ y = k
    BY ServerAssumption
  <2> QED BY <1>3, <1>4, <1>6, <2>1 DEF IsPolite
<1>8. IgnoredWays(a, q, k)
  BY PageStepIgnores DEF PictureInv
<1>9. CASE peers'[q][k].ignored
  BY <1>2, <1>3, <1>4, <1>9 DEF Missed
<1>10. CASE q = a /\ Negotiate(a, k)
  <2>1. PICK m : m = [kind |-> "offer", from |-> id, sdp |-> peers[a][k].sends]
    OBVIOUS
  <2>2. PICK ids : m.kind = "offer" /\ m.from = id /\ ids = {k} /\ inbox' = Sent(inbox, ids, m)
    BY <1>3, <1>10, <2>1 DEF Negotiate, Relayed
  <2>3. inbox \in [Sockets -> Seq(Message)] /\ Online(k)
    BY <1>4 DEF TypeInv, MailTypes, Online
  <2>4. m \in MailTo(inbox', k)
    BY <2>2, <2>3, MailSent
  <2> QED BY <1>2, <1>4, <1>7, <2>2, <2>4 DEF AnswerComes, Says, IsPolite
<1>11. CASE q = a /\ TakesOffer(a, k)
  BY <1>2, <1>3, <1>4, <1>11, OfferTaken
<1>12. CASE q = a /\ peers'[q][k].sig = "none"
  <2>1. PICK was, now \in Peer : was = peers[q][k] /\ now = peers'[q][k] /\ was.sig # "none" /\ now.sig = "none"
    <3>1. TypeInv'
      BY NextTypes DEF Steady, Next
    <3> QED BY <1>6, <1>12, <3>1 DEF TypeInv, PageTypes
  <2>2. PeerCloses(a, k)
    <3>1. PeerWays(a, a, k, now, streams'[a][k])
      BY <1>12, <2>1, PageStepPeers DEF Steady, PictureInv
    <3> QED BY <1>12, <2>1, <3>1
               DEF PeerWays, PeerStays, PeerBegins, PeerOffers, PeerHears, PeerAnswers, PeerAnswered
  <2>3. ~Past(k)
    BY <1>4 DEF Past
  <2>4. ~ConnectionFails(a, k)
    <3>1. peers[owner[k]][peers[a][k].mine].sig = "offering" /\ page[owner[k]].at # "closed"
      BY <1>1, <1>4, <1>6, <1>12 DEF Connected
    <3> QED BY <3>1 DEF ConnectionFails, Orphaned
  <2>5. ~(\E m \in MailTo(inbox, Mine(a)) : m.kind = "left" /\ m.from = k)
    BY <1>3, <1>12, <2>3 DEF DepartureInv
  <2> QED BY <2>2, <2>4, <2>5 DEF PeerCloses, Steady
<1> QED
  BY <1>5, <1>8, <1>9, <1>10, <1>11, <1>12 DEF IgnoredWays

LEMMA SteadyAnswered ==
  ASSUME TypeInv, PresenceInv, DepartureInv, PictureInv, GlareInv, faults = 0, NEW a \in Pages, Steady(a),
         NEW p \in Pages, NEW id \in Sockets, Waits(p, id), Waits(p, id)', AnswerComes(p, id)
  PROVE  AnswerComes(p, id)' \/ Missed(p, id)'
<1>1. /\ Connected(p) /\ Mine(p) \in Sockets /\ owner[Mine(p)] = p /\ link[Mine(p)] = "up"
      /\ link[id] = "up" /\ owner[id] \in Pages /\ Connected(owner[id]) /\ Mine(owner[id]) = id
  BY DEF Waits, PresenceInv, TypeInv, ServerTypes, PageTypes
<1>2. Mine(p)' = Mine(p) /\ peers'[p][id].sig = "offering" /\ peers[p][id].sig = "offering"
  BY SteadyPages DEF Waits, Mine
<1>3. id # Mine(p)
  BY <1>1, <1>2 DEF PictureInv
<1>4. Belongs(p)
  BY DEF GlareInv
<1>5. peers[p][id].mine = Mine(p)
  BY <1>1, <1>2, <1>4 DEF Belongs
<1>6. ASSUME Deliver(a), id = Mine(a), First(inbox, Mine(a)).kind = "offer",
             First(inbox, Mine(a)).from = Mine(p)
      PROVE  AnswerComes(p, id)' \/ Missed(p, id)'
  BY <1>2, <1>6, SteadyLinks, OfferTaken DEF TakesOffer
<1>7. ASSUME Deliver(a), Mine(p) = Mine(a) PROVE a = p
  BY <1>1, <1>7 DEF Deliver, PresenceInv
<1>8. ~(Deliver(a) /\ Mine(p) = Mine(a) /\ First(inbox, Mine(a)).kind = "answer" /\ First(inbox, Mine(a)).from = id)
  <2> SUFFICES ASSUME Deliver(a), Mine(p) = Mine(a), First(inbox, Mine(a)).kind = "answer",
                      First(inbox, Mine(a)).from = id
               PROVE  FALSE
    OBVIOUS
  <2>1. a = p
    BY <1>7
  <2>2. PICK sdp : OnAnswer(p, id, sdp)
    BY <2>1 DEF Deliver, First
  <2>3. PICK c \in Peer : c = peers[p][id]
    BY DEF TypeInv, PageTypes
  <2>4. PICK next : /\ next = [c EXCEPT !.sig = "answered", !.mine = Mine(p), !.reply = sdp]
                    /\ peers' = [peers EXCEPT ![p][id] = next]
    BY <1>2, <1>5, <2>2, <2>3 DEF OnAnswer, MayRefuse
  <2>5. next.sig = "answered"
    BY <2>3, <2>4 DEF Peer
  <2>6. peers'[p][id] = next
    BY <2>4, MeshSet DEF TypeInv, PageTypes
  <2> QED BY <1>2, <2>5, <2>6
<1>9. ~(Deliver(a) /\ Mine(p) = Mine(a) /\ First(inbox, Mine(a)).kind = "offer" /\ First(inbox, Mine(a)).from = id
        /\ IsPolite(p, id))
  <2> SUFFICES ASSUME Deliver(a), Mine(p) = Mine(a), First(inbox, Mine(a)).kind = "offer",
                      First(inbox, Mine(a)).from = id, IsPolite(p, id)
               PROVE  FALSE
    OBVIOUS
  <2>1. a = p
    BY <1>7
  <2>2. PICK to : to = First(inbox, Mine(a)).from
    OBVIOUS
  <2>3. \/ Ignores(a, to)
        \/ peers[a][to].sig # "none" /\ peers[a][to].mine # Mine(a)
        \/ \E m, out : AnswersFirst(a, to, m, out)
    BY <2>2, OfferHandled
  <2> QED BY <1>2, <1>5, <2>1, <2>2, <2>3 DEF AnswersFirst, Ignores
<1>10. \/ Says(inbox, Mine(p), "offer", id) => Says(inbox', Mine(p), "offer", id)
       \/ AnswerComes(p, id)' \/ Missed(p, id)'
  BY <1>6, SteadySays
<1>11. Says(inbox, id, "answer", Mine(p)) => Says(inbox', id, "answer", Mine(p))
  BY <1>1, <1>8, SteadySays
<1>12. IsPolite(p, id) /\ Says(inbox, id, "offer", Mine(p)) => Says(inbox', id, "offer", Mine(p))
  BY <1>1, <1>9, SteadySays
<1> QED
  <2>1. PICK me : me = Mine(p)
    OBVIOUS
  <2>2. Mine(p)' = me
    BY <1>2, <2>1
  <2> QED BY <1>10, <1>11, <1>12, <2>1, <2>2 DEF AnswerComes, IsPolite, Says

LEMMA SteadyGlare ==
  ASSUME TypeInv, PresenceInv, DepartureInv, PictureInv, GlareInv, NEW a \in Pages, Steady(a)
  PROVE  GlareInv'
<1>1. UNCHANGED faults
  BY DEF Steady, PageStep, Button, Signals, Granted, Denied, RaiseHand, LeaveStage, ToggleMic, GoLive,
         StopLive, OpenWebcam, CloseWebcam, AnswerHand, Deliver, Negotiate, AnswerSet, ConnectionFails
<1> SUFFICES ASSUME faults = 0 PROVE GlareInv'
  BY <1>1 DEF GlareInv
<1>2. \A p \in Pages : Belongs(p)'
  BY SteadyBelongs DEF GlareInv
<1>3. ASSUME NEW p \in Pages, NEW id \in Sockets, Waits(p, id)'
      PROVE  (AnswerComes(p, id)' \/ Missed(p, id)') /\ OfferLast(inbox', id, Mine(p)')
  <2>1. Mine(p)' = Mine(p) /\ peers'[p][id].sig = "offering" /\ Connected(p) /\ link[id] = "up"
    BY <1>3, SteadyPages, SteadyLinks DEF Waits, Mine
  <2>2. CASE Waits(p, id)
    <3>1. AnswerComes(p, id)' \/ Missed(p, id)'
      BY <1>3, <2>2, SteadyAnswered, SteadyMissed DEF GlareInv
    <3>2. OfferLast(inbox, id, Mine(p))
      BY <2>2 DEF GlareInv
    <3>3. OfferLast(inbox', id, Mine(p)) \/ (Mine(p) = Mine(a) /\ Connected(a) /\ peers'[a][id].sig = "stable")
      BY <3>2, SteadyOrdered
    <3>4. Mine(p) = Mine(a) /\ Connected(a) => p = a
      BY <2>1 DEF PresenceInv
    <3> QED BY <2>1, <3>1, <3>3, <3>4
  <2>3. CASE p = a /\ Negotiate(a, id)
    <3>1. PICK m : m = [kind |-> "offer", from |-> Mine(p), sdp |-> peers[p][id].sends]
      OBVIOUS
    <3>2. PICK ids : m.kind = "offer" /\ m.from = Mine(p) /\ ids = {id} /\ inbox' = Sent(inbox, ids, m)
      BY <2>3, <3>1 DEF Negotiate, Relayed
    <3>3. inbox \in [Sockets -> Seq(Message)] /\ Online(id)
      BY <2>1 DEF TypeInv, MailTypes, Online
    <3>4. m \in MailTo(inbox', id) /\ OfferLast(inbox', id, m.from)
      BY <3>2, <3>3, MailSent, SentOffer
    <3>5. Says(inbox', Mine(p), "offer", id)
      BY <3>2, <3>4 DEF Says
    <3> QED BY <2>1, <3>2, <3>4, <3>5 DEF AnswerComes, Says
  <2> QED BY <1>3, <2>2, <2>3, SteadyWaits
<1> QED
  BY <1>2, <1>3 DEF GlareInv

LEMMA OtherSaysKept ==
  ASSUME NEW p \in Pages, NEW id \in Sockets, Connected(p), TypeInv, Mine(p)' = Mine(p), AnswerComes(p, id),
         \A k \in Sockets : \A m \in MailTo(inbox, k) :
            k \in {id, Mine(p)} => m \in MailTo(inbox', k)
  PROVE  AnswerComes(p, id)'
<1>1. Mine(p) \in Sockets
  BY DEF TypeInv, PageTypes
<1>2. \A x, kind : (Says(inbox, x, kind, id) => Says(inbox', x, kind, id))
                   /\ (Says(inbox, x, kind, Mine(p)) => Says(inbox', x, kind, Mine(p)))
  BY <1>1 DEF Says
<1> QED
  BY <1>2, StaysAnswered

\* What a handler says is no offer and no answer.
LEMMA HandlerOrdered ==
  ASSUME TypeInv, NEW j \in jobs, HandlerStep(j), NEW k \in Sockets, NEW x, OfferLast(inbox, k, x)
  PROVE  OfferLast(inbox', k, x)
<1>1. inbox \in [Sockets -> Seq(Message)]
  BY DEF TypeInv, MailTypes
<1>2. CASE TakeSnapshot(j)
  <2>1. j.kind = "snapshot" /\ j.got \in Roster
    BY <1>2, SnapshotFields DEF TakeSnapshot, TypeInv, ServerTypes
  <2>2. ASSUME NEW got \in Roster, SnapshotSent(j, got) PROVE OfferLast(inbox', k, x)
    <3>1. PICK ack, state : /\ ack = StateMessage("ack", got) /\ state = StateMessage("state", got)
                            /\ ack.kind = "ack" /\ state.kind = "state"
      <4>1. \A kind : StateMessage(kind, got).kind = kind
        BY DEF StateMessage
      <4> QED BY <4>1
    <3>2. PICK acked : /\ acked = IF j.ack THEN Sent(inbox, {j.id}, ack) ELSE inbox
                       /\ inbox' = Sent(acked, room, state)
      BY <2>2, <3>1 DEF SnapshotSent
    <3>3. ack \in Message
      BY <3>1, MessagesMade
    <3>4. acked \in [Sockets -> Seq(Message)]
      BY <1>1, <3>2, <3>3, SentTyped
    <3>5. PICK ids : acked = Sent(inbox, ids, ack) \/ acked = inbox
      BY <3>2
    <3>6. OfferLast(acked, k, x)
      BY <1>1, <3>1, <3>5, SentOrdered
    <3> QED BY <3>1, <3>2, <3>4, <3>6, SentOrdered
  <2>3. ASSUME NEW y \in j.rest, SnapshotSent(j, Read(j, y).got) PROVE OfferLast(inbox', k, x)
    <3>1. PICK got \in Roster : got = Read(j, y).got
      BY <2>1, ReadMore
    <3> QED BY <2>2, <2>3, <3>1
  <2> QED BY <1>2, <2>1, <2>2, <2>3 DEF TakeSnapshot
<1>3. CASE ~TakeSnapshot(j)
  <2>1. UNCHANGED inbox \/ \E ids, m : m.kind \notin {"offer", "answer"} /\ inbox' = Sent(inbox, ids, m)
    <3>1. CASE JoinAnnounced(j) \/ HandAnnounced(j) \/ MediaToggled(j)
      <4>1. UNCHANGED inbox \/ \E ids, kind, y : kind \in {"joined", "updated"} /\ inbox' = Sent(inbox, ids, About(kind, y))
        BY <3>1 DEF JoinAnnounced, HandAnnounced, MediaToggled
      <4>2. \A kind, y : About(kind, y).kind = kind
        BY DEF About
      <4> QED BY <4>1, <4>2
    <3>2. CASE Bye(j)
      <4>1. PICK m : m = LeftMessage(j.id)
        OBVIOUS
      <4>2. m.kind = "left" /\ inbox' = Sent(inbox, room, m)
        BY <3>2, <4>1 DEF Bye, LeftMessage
      <4> QED BY <4>2
    <3>3. CASE HandAccepted(j) \/ HandRejected(j)
      <4>1. PICK yes, no : yes = [kind |-> "accepted", from |-> j.id] /\ no = [kind |-> "rejected", from |-> j.id]
        OBVIOUS
      <4>2. yes.kind = "accepted" /\ no.kind = "rejected"
        BY <4>1
      <4>3. UNCHANGED inbox \/ (\E ids : inbox' = Sent(inbox, ids, yes)) \/ (\E ids : inbox' = Sent(inbox, ids, no))
        BY <3>3, <4>1 DEF HandAccepted, HandRejected
      <4> QED BY <4>2, <4>3
    <3> QED BY <1>3, <3>1, <3>2, <3>3 DEF HandlerStep, JoinRoom, Left
  <2> QED BY <1>1, <2>1, SentOrdered
<1> QED
  BY <1>2, <1>3

LEMMA HandlerGlare ==
  ASSUME TypeInv, GlareInv, NEW j \in jobs, HandlerStep(j), UNCHANGED pageVars
  PROVE  GlareInv'
<1>1. UNCHANGED <<owner, link, page, peers, faults>>
  BY DEF HandlerStep, JoinRoom, JoinAnnounced, TakeSnapshot, HandAnnounced, HandAccepted, HandRejected,
         MediaToggled, Left, Bye, pageVars
<1> SUFFICES ASSUME faults = 0 PROVE GlareInv'
  BY <1>1 DEF GlareInv
<1>2. \A p \in Pages : Belongs(p)'
  BY <1>1 DEF GlareInv, Belongs, Connected, Mine, IsPolite
<1>3. ASSUME NEW p \in Pages, NEW id \in Sockets, Waits(p, id)'
      PROVE  (AnswerComes(p, id)' \/ Missed(p, id)') /\ OfferLast(inbox', id, Mine(p)')
  <2>1. Waits(p, id) /\ Connected(p) /\ Mine(p)' = Mine(p)
    BY <1>1, <1>3 DEF Waits, Connected, Mine
  <2>2. (AnswerComes(p, id) \/ Missed(p, id)) /\ OfferLast(inbox, id, Mine(p))
    BY <2>1 DEF GlareInv
  <2>3. AnswerComes(p, id)' \/ Missed(p, id)'
    <3>1. CASE AnswerComes(p, id)
      BY <2>1, <3>1, HandlerKeeps, OtherSaysKept
    <3>2. CASE Missed(p, id)
      BY <1>1, <3>2 DEF Missed, Mine
    <3> QED BY <2>2, <3>1, <3>2
  <2>4. OfferLast(inbox', id, Mine(p))
    BY <2>2, HandlerOrdered
  <2> QED BY <2>1, <2>3, <2>4
<1> QED
  BY <1>2, <1>3 DEF GlareInv

LEMMA NoticedGlare ==
  ASSUME TypeInv, GlareInv, NEW gone \in Sockets, Noticed(gone)
  PROVE  GlareInv'
<1>1. /\ UNCHANGED <<owner, inbox, page, peers, faults>>
      /\ link[gone] = "lost" /\ link' = [link EXCEPT ![gone] = "down"]
  BY DEF Noticed, Disconnect, pageVars
<1> SUFFICES ASSUME faults = 0 PROVE GlareInv'
  BY <1>1 DEF GlareInv
<1>2. \A id \in Sockets : link'[id] = "up" => link[id] = "up"
  BY <1>1 DEF TypeInv, ServerTypes
<1>3. \A p \in Pages : Belongs(p)'
  BY <1>1 DEF GlareInv, Belongs, Connected, Mine, IsPolite
<1>4. ASSUME NEW p \in Pages, NEW id \in Sockets, Waits(p, id)'
      PROVE  (AnswerComes(p, id)' \/ Missed(p, id)') /\ OfferLast(inbox', id, Mine(p)')
  <2>1. Waits(p, id) /\ Mine(p)' = Mine(p)
    BY <1>1, <1>2, <1>4 DEF Waits, Connected, Mine
  <2>2. (AnswerComes(p, id) \/ Missed(p, id)) /\ OfferLast(inbox, id, Mine(p))
    BY <2>1 DEF GlareInv
  <2>3. Missed(p, id) => Missed(p, id)'
    BY <1>1 DEF Missed, Mine
  <2>4. AnswerComes(p, id) => AnswerComes(p, id)'
    BY <1>1, <2>1, StaysAnswered
  <2> QED BY <1>1, <2>1, <2>2, <2>3, <2>4
<1> QED
  BY <1>3, <1>4 DEF GlareInv

\* A page that comes has no connections, and nobody has one to it.
LEMMA VisitGlare ==
  ASSUME TypeInv, PresenceInv, PictureInv, GlareInv, NEW a \in Pages, NEW new \in Sockets, Visit(a, new)
  PROVE  GlareInv'
<1>1. /\ UNCHANGED <<inbox, peers, faults>> /\ link[new] = "free" /\ link' = [link EXCEPT ![new] = "up"]
      /\ page[a].at = "away" /\ owner' = [owner EXCEPT ![new] = a]
  BY DEF Visit, Connects
<1> SUFFICES ASSUME faults = 0 PROVE GlareInv'
  BY <1>1 DEF GlareInv
<1>2. \A q \in Pages : (q # a => page'[q] = page[q]) /\ page'[a].at = "connecting"
  BY DEF Visit, Connects, TypeInv, PageTypes, Page
<1>3. \A id \in Sockets : peers[a][id].sig = "none" /\ \A q \in Pages : peers[q][new].sig = "none"
  BY <1>1 DEF GlareInv, Belongs, PictureInv
<1>4. \A p \in Pages : Belongs(p)'
  <2>1. Belongs(a)'
    <3>1. \A id \in Sockets : ~peers[a][id].ignored
      BY <1>3 DEF GlareInv, Belongs
    <3> QED BY <1>1, <1>2, <1>3, <3>1 DEF Belongs
  <2>2. ASSUME NEW p \in Pages, p # a PROVE Belongs(p)'
    BY <1>1, <1>2, <2>2 DEF GlareInv, Belongs, Connected, Mine, IsPolite
  <2> QED BY <2>1, <2>2
<1>5. ASSUME NEW p \in Pages, NEW id \in Sockets, Waits(p, id)'
      PROVE  (AnswerComes(p, id)' \/ Missed(p, id)') /\ OfferLast(inbox', id, Mine(p)')
  <2>1. peers[p][id].sig = "offering" /\ link'[id] = "up" /\ Connected(p)'
    BY <1>1, <1>5 DEF Waits
  <2>2. p # a /\ id # new
    BY <1>3, <2>1
  <2>3. Waits(p, id) /\ Mine(p)' = Mine(p)
    BY <1>1, <1>2, <2>1, <2>2 DEF Waits, Connected, Mine, TypeInv, ServerTypes
  <2>4. (AnswerComes(p, id) \/ Missed(p, id)) /\ OfferLast(inbox, id, Mine(p))
    BY <2>3 DEF GlareInv
  <2>5. Missed(p, id) => Missed(p, id)'
    BY <1>1, <2>2, <2>3 DEF Missed, Mine, TypeInv, ServerTypes
  <2>6. AnswerComes(p, id) => AnswerComes(p, id)'
    BY <1>1, <2>3, StaysAnswered
  <2> QED BY <1>1, <2>3, <2>4, <2>5, <2>6
<1> QED
  BY <1>4, <1>5 DEF GlareInv

\* A page that is closed waits no more, and nobody waits for it.
LEMMA CloseGlare ==
  ASSUME TypeInv, PresenceInv, GlareInv, NEW a \in Pages, Close(a)
  PROVE  GlareInv'
<1>1. /\ UNCHANGED <<owner, faults>> /\ link' = [link EXCEPT ![Mine(a)] = "lost"]
      /\ inbox \in [Sockets -> Seq(Message)]
      /\ Connected(a) /\ Mine(a) \in Sockets /\ owner[Mine(a)] = a
  BY DEF Close, TypeInv, MailTypes, PageTypes, Connected, PresenceInv
<1> SUFFICES ASSUME faults = 0 PROVE GlareInv'
  BY <1>1 DEF GlareInv
<1>2. \A q \in Pages : (q # a => page'[q] = page[q] /\ peers'[q] = peers[q]) /\ page'[a].at = "closed"
  BY DEF Close, TypeInv, PageTypes, Page
<1>3. \A id \in Sockets : peers'[a][id].sig = "none" /\ ~peers'[a][id].ignored
  BY DEF Close, TypeInv, PageTypes, NoPeer
<1>4. \A p \in Pages : Belongs(p)'
  <2>1. Belongs(a)'
    BY <1>2, <1>3 DEF Belongs
  <2>2. ASSUME NEW p \in Pages, p # a PROVE Belongs(p)'
    BY <1>2, <2>2 DEF GlareInv, Belongs, Connected, Mine, IsPolite
  <2> QED BY <2>1, <2>2
<1>5. PICK left, box : left = LeftMessage(Mine(a)) /\ box = Sent(inbox, room, left)
  OBVIOUS
<1>6. left.kind = "left" /\ inbox' = [box EXCEPT ![Mine(a)] = <<>>] /\ DOMAIN box = Sockets
  BY <1>5 DEF Close, Sent, LeftMessage
<1>7. ASSUME NEW p \in Pages, NEW id \in Sockets, Waits(p, id)'
      PROVE  (AnswerComes(p, id)' \/ Missed(p, id)') /\ OfferLast(inbox', id, Mine(p)')
  <2>1. p # a /\ id # Mine(a)
    BY <1>1, <1>2, <1>3, <1>7 DEF Waits, Connected, TypeInv, ServerTypes
  <2>2. Waits(p, id) /\ Mine(p)' = Mine(p) /\ Connected(p)
    BY <1>1, <1>2, <1>7, <2>1 DEF Waits, Connected, Mine, TypeInv, ServerTypes
  <2>3. Mine(p) # Mine(a)
    BY <1>1, <2>1, <2>2 DEF PresenceInv
  <2>4. (AnswerComes(p, id) \/ Missed(p, id)) /\ OfferLast(inbox, id, Mine(p))
    BY <2>2 DEF GlareInv
  <2>5. ASSUME NEW k \in Sockets, k # Mine(a) PROVE inbox'[k] = box[k]
    BY <1>6, <2>5
  <2>6. ASSUME NEW k \in Sockets, NEW m \in MailTo(inbox, k), k \in {id, Mine(p)} PROVE m \in MailTo(inbox', k)
    <3>1. m \in MailTo(box, k)
      BY <1>1, <1>5, <2>6, SentKeeps
    <3> QED BY <2>1, <2>3, <2>5, <2>6, <3>1 DEF MailTo
  <2>7. AnswerComes(p, id)' \/ Missed(p, id)'
    <3>1. AnswerComes(p, id) => AnswerComes(p, id)'
      BY <2>2, <2>6, OtherSaysKept
    <3>2. PICK q \in Pages : q = owner[id] /\ Mine(q) = id
      BY <2>2 DEF Waits, PresenceInv, TypeInv, ServerTypes
    <3>3. q # a
      BY <2>1, <3>2
    <3>4. Missed(p, id) => Missed(p, id)'
      BY <1>1, <1>2, <2>2, <3>2, <3>3 DEF Missed
    <3> QED BY <2>4, <3>1, <3>4
  <2>8. OfferLast(box, id, Mine(p))
    BY <1>1, <1>5, <1>6, <2>4, SentOrdered
  <2>9. OfferLast(inbox', id, Mine(p))
    BY <2>1, <2>5, <2>8 DEF OfferLast
  <2> QED BY <2>2, <2>7, <2>9
<1> QED
  BY <1>4, <1>7 DEF GlareInv

LEMMA PageStepGlare ==
  ASSUME TypeInv, PresenceInv, DepartureInv, PictureInv, GlareInv, NEW a \in Pages, PageStep(a)
  PROVE  GlareInv'
<1>1. CASE Drop(a)
  <2>1. faults' = faults + 1 /\ faults \in Nat
    BY <1>1, MeshAssumption DEF Drop, TypeInv, Bounds
  <2> QED BY <2>1 DEF GlareInv
<1>2. ASSUME NEW id \in Sockets, Reconnect(a, id) PROVE GlareInv'
  <2>1. page[a].at = "dropped" /\ UNCHANGED faults
    BY <1>2 DEF Reconnect, Connects
  <2> QED BY <2>1 DEF GlareInv, Belongs
<1> QED
  BY <1>1, <1>2, SteadyGlare, VisitGlare, CloseGlare DEF Steady

LEMMA InitGlare == Init => GlareInv
<1> SUFFICES ASSUME Init PROVE GlareInv
  OBVIOUS
<1>1. \A p \in Pages : page[p].at = "away"
  BY DEF Init, NewPage
<1>2. \A p \in Pages, id \in Sockets : peers[p][id].sig = "none" /\ ~peers[p][id].ignored
  BY DEF Init, NoPeer
<1> QED
  BY <1>1, <1>2 DEF GlareInv, Belongs, Waits, Connected

LEMMA NextGlare ==
  TypeInv /\ PresenceInv /\ DepartureInv /\ PictureInv /\ GlareInv /\ [Next]_vars => GlareInv'
<1> SUFFICES ASSUME TypeInv, PresenceInv, DepartureInv, PictureInv, GlareInv, [Next]_vars
             PROVE  GlareInv'
  OBVIOUS
<1>1. CASE UNCHANGED vars
  BY <1>1
     DEF vars, serverVars, pageVars, GlareInv, Belongs, Waits, AnswerComes, Missed, Says, IsPolite, OfferLast, Connected,
         Mine, MailTo
<1> QED
  BY <1>1, HandlerGlare, NoticedGlare, PageStepGlare DEF Next

LEMMA GlareAlways ==
  Spec => [](TypeInv /\ AdmissionInv /\ MicsInv /\ PresenceInv /\ DepartureInv /\ PictureInv /\ GlareInv)
<1>1. Init => TypeInv /\ AdmissionInv /\ MicsInv /\ PresenceInv /\ DepartureInv /\ PictureInv /\ GlareInv
  BY InitTypes, InitMics, InitPresence, InitDeparture, InitPicture, InitGlare
<1>2. ASSUME TypeInv, AdmissionInv, MicsInv, PresenceInv, DepartureInv, PictureInv, GlareInv, [Next]_vars
      PROVE  (TypeInv /\ AdmissionInv /\ MicsInv /\ PresenceInv /\ DepartureInv /\ PictureInv /\ GlareInv)'
  <2>1. TypeInv'
    BY <1>2, NextTypes
  <2>2. AdmissionInv' /\ MicsInv' /\ PresenceInv' /\ DepartureInv'
    BY <1>2, NextMics, NextPresence, NextDeparture
  <2>3. PictureInv' /\ GlareInv'
    BY <1>2, NextPicture, NextGlare
  <2> QED BY <2>1, <2>2, <2>3
<1> QED
  BY <1>1, <1>2, PTL DEF Spec

\* Once everything has arrived, and no connection was lost, a page of the class
\* still waits for an answer only if the other one ignored its offer because it
\* was setting an answer (rtc.ts:57-65, 99-108); when both offered at once the
\* polite side gives way, and its answer is the last thing the other waits for.
THEOREM GlaresSettle == Spec => []NegotiationSettles
<1>1. TypeInv /\ AdmissionInv /\ PresenceInv /\ PictureInv /\ GlareInv => NegotiationSettles
  <2> SUFFICES ASSUME TypeInv, AdmissionInv, PresenceInv, PictureInv, GlareInv, Settled, faults = 0,
                      NEW p \in Class, NEW q \in Class, peers[p][Mine(q)].sig = "offering"
               PROVE  peers[q][Mine(p)].ignored
    BY DEF NegotiationSettles
  <2>1. p \in Pages /\ q \in Pages /\ page[p].at = "on" /\ page[q].at = "on"
    BY DEF Class
  <2>2. /\ Mine(p) \in Sockets /\ Mine(q) \in Sockets /\ link[Mine(q)] = "up" /\ Connected(p)
        /\ owner[Mine(q)] = q
    BY <2>1, InTheRoom DEF Connected
  <2>3. AnswerComes(p, Mine(q)) \/ Missed(p, Mine(q))
    BY <2>1, <2>2 DEF GlareInv, Waits
  <2>4. inbox[Mine(p)] = <<>> /\ inbox[Mine(q)] = <<>>
    BY <2>2 DEF Settled, Quiet
  <2>5. MailTo(inbox, Mine(p)) = {} /\ MailTo(inbox, Mine(q)) = {}
    BY <2>4 DEF MailTo, MailOf
  <2> QED BY <2>2, <2>3, <2>5 DEF AnswerComes, Missed, Says
<1> QED
  BY <1>1, GlareAlways, PTL

-----------------------------------------------------------------------------
(* What a page will show once it has handled what waits for it.  Whether    *)
(* somebody is shown is settled by the last list, arrival or departure that *)
(* tells of them, and how by the last message that mentions them.           *)

Latest(queue, about, good) ==
  \E i \in DOMAIN queue : queue[i] \in good /\ \A j \in DOMAIN queue : j > i => queue[j] \notin about

Silent(queue, about) == \A j \in DOMAIN queue : queue[j] \notin about

Settling(id) ==
  {m \in Message : \/ m.kind \in {"ack", "state"}
                   \/ m.kind = "joined" /\ m.about.id = id
                   \/ m.kind = "left" /\ m.from = id}

Mentioning(id) == {m \in Message : m \in Settling(id) \/ (m.kind = "updated" /\ m.about.id = id)}

Bringing(id) == {m \in Settling(id) : \E x \in Told(m) : x.id = id}

Removing(id) == {m \in Settling(id) : \A x \in Told(m) : x.id # id}

Telling(id, d) == {m \in Mentioning(id) : \A x \in Told(m) : x.id = id => x = d}

Showing(S, id) == \E x \in S : x.id = id

Missing(S, id) == \A x \in S : x.id # id

Matching(S, id, d) == \A x \in S : x.id = id => x = d

WillShow(queue, shown, id) ==
  Latest(queue, Settling(id), Bringing(id)) \/ (Silent(queue, Settling(id)) /\ Showing(shown, id))

WillMiss(queue, shown, id) ==
  Latest(queue, Settling(id), Removing(id)) \/ (Silent(queue, Settling(id)) /\ Missing(shown, id))

WillMatch(queue, shown, id, d) ==
  Latest(queue, Mentioning(id), Telling(id, d)) \/ (Silent(queue, Mentioning(id)) /\ Matching(shown, id, d))

LEMMA LatestAppend ==
  ASSUME NEW s \in Seq(Message), NEW m, NEW about, NEW good
  PROVE  /\ m \in good => Latest(Append(s, m), about, good)
         /\ m \notin about /\ Latest(s, about, good) => Latest(Append(s, m), about, good)
         /\ m \notin about /\ Silent(s, about) => Silent(Append(s, m), about)
<1>0. PICK t : t = Append(s, m)
  OBVIOUS
<1>1. PICK n \in Nat : n = Len(s) /\ t = Append(s, m)
  BY <1>0, AppendFields
<1>2. /\ DOMAIN s = 1 .. n /\ DOMAIN t = 1 .. (n + 1) /\ t[n + 1] = m
      /\ \A i \in 1 .. n : t[i] = s[i]
  BY <1>1, AppendFields
<1>3. ASSUME m \in good PROVE Latest(t, about, good)
  <2>1. n + 1 \in DOMAIN t /\ \A j \in DOMAIN t : ~(j > n + 1)
    BY <1>2
  <2> QED BY <1>2, <1>3, <2>1 DEF Latest
<1>4. ASSUME m \notin about, Latest(s, about, good) PROVE Latest(t, about, good)
  <2>1. PICK i \in DOMAIN s : s[i] \in good /\ \A j \in DOMAIN s : j > i => s[j] \notin about
    BY <1>4 DEF Latest
  <2>2. i \in DOMAIN t /\ t[i] \in good
    BY <1>2, <2>1
  <2>3. \A j \in DOMAIN t : j > i => t[j] \notin about
    BY <1>2, <1>4, <2>1
  <2> QED BY <2>2, <2>3 DEF Latest
<1>5. ASSUME m \notin about, Silent(s, about) PROVE Silent(t, about)
  BY <1>2, <1>5 DEF Silent
<1> QED
  BY <1>1, <1>3, <1>4, <1>5

LEMMA LatestTail ==
  ASSUME NEW s \in Seq(Message), s # <<>>, NEW about, NEW good
  PROVE  /\ Latest(s, about, good) =>
              Latest(Tail(s), about, good) \/ (Silent(Tail(s), about) /\ Head(s) \in good)
         /\ Silent(s, about) => Silent(Tail(s), about) /\ Head(s) \notin about
<1>0. PICK t : t = Tail(s)
  OBVIOUS
<1>1. PICK n \in Nat : n = Len(Tail(s)) /\ t = Tail(s)
  <2>1. Tail(s) \in Seq(Message)
    OBVIOUS
  <2> QED BY <1>0, <2>1, LenProperties
<1>2. /\ DOMAIN s = 1 .. (n + 1) /\ DOMAIN t = 1 .. n /\ Head(s) = s[1]
      /\ \A i \in 1 .. n : t[i] = s[i + 1]
  <2>1. /\ Head(s) = s[1] /\ Len(s) \in Nat \ {0}
        /\ Len(Tail(s)) = Len(s) - 1 /\ \A i \in 1 .. Len(Tail(s)) : Tail(s)[i] = s[i + 1]
        /\ DOMAIN s = 1..Len(s) /\ DOMAIN Tail(s) = 1..Len(Tail(s))
    BY HeadTailProperties, LenProperties
  <2>2. Len(s) = n + 1
    BY <1>1, <2>1
  <2> QED BY <1>1, <2>1, <2>2
<1>3. ASSUME NEW i \in DOMAIN s, s[i] \in good, \A j \in DOMAIN s : j > i => s[j] \notin about
      PROVE  Latest(t, about, good) \/ (Silent(t, about) /\ s[1] \in good)
  <2>1. \A j \in DOMAIN t : j + 1 \in DOMAIN s /\ (j + 1 > i => t[j] \notin about)
    BY <1>2, <1>3
  <2>2. CASE i = 1
    BY <1>2, <1>3, <2>1, <2>2 DEF Silent
  <2>3. CASE i # 1
    <3>1. PICK k \in DOMAIN t : k + 1 = i
      <4>1. i \in 1 .. (n + 1) /\ DOMAIN t = 1 .. n
        BY <1>2, <1>3
      <4>2. i - 1 \in DOMAIN t /\ (i - 1) + 1 = i
        BY <2>3, <4>1
      <4> QED BY <4>2
    <3>2. t[k] \in good /\ \A j \in DOMAIN t : j > k => j + 1 > i
      BY <1>2, <1>3, <3>1
    <3> QED BY <2>1, <3>2 DEF Latest
  <2> QED BY <2>2, <2>3
<1>4. ASSUME Silent(s, about) PROVE Silent(t, about) /\ s[1] \notin about
  <2>1. \A j \in DOMAIN t : j + 1 \in DOMAIN s /\ t[j] = s[j + 1]
    BY <1>2
  <2>2. 1 \in DOMAIN s
    BY <1>2
  <2> QED BY <1>4, <2>1, <2>2 DEF Silent
<1> QED
  BY <1>1, <1>2, <1>3, <1>4 DEF Latest

\* What handling m makes of what was shown.
Handles(m, shown, next) ==
  \/ m.kind \in {"ack", "state"} /\ next = m.participants
  \/ m.kind = "joined" /\ next = WithJoined(shown, m.about)
  \/ m.kind = "left" /\ next = Without(shown, m.from)
  \/ m.kind = "updated" /\ next = Updated(shown, m.about)
  \/ m.kind \notin {"ack", "state", "joined", "left", "updated"} /\ next = shown

LEMMA HandledView ==
  ASSUME NEW m \in Message, NEW shown, NEW next, Handles(m, shown, next), NEW id, NEW d
  PROVE  /\ m \in Bringing(id) => Showing(next, id)
         /\ m \notin Settling(id) /\ Showing(shown, id) => Showing(next, id)
         /\ m \in Removing(id) => Missing(next, id)
         /\ m \notin Settling(id) /\ Missing(shown, id) => Missing(next, id)
         /\ m \in Telling(id, d) => Matching(next, id, d)
         /\ m \notin Mentioning(id) /\ Matching(shown, id, d) => Matching(next, id, d)
<1>1. CASE m.kind \in {"ack", "state"}
  <2>1. next = m.participants /\ m \in Settling(id) /\ m \in Mentioning(id) /\ Told(m) = m.participants
    BY <1>1 DEF Handles, Settling, Mentioning, Told
  <2> QED BY <2>1 DEF Bringing, Removing, Telling, Showing, Missing, Matching
<1>2. CASE m.kind = "joined"
  <2>1. /\ \A x : x \in next <=> (x \in shown /\ x.id # m.about.id) \/ x = m.about
        /\ Told(m) = {m.about}
    BY <1>2 DEF Handles, WithJoined, Without, Told
  <2>2. CASE m.about.id = id
    <3>1. m \in Settling(id) /\ m \in Mentioning(id)
      BY <1>2, <2>2 DEF Settling, Mentioning
    <3> QED BY <2>1, <2>2, <3>1 DEF Bringing, Removing, Telling, Showing, Missing, Matching
  <2>3. CASE m.about.id # id
    <3>1. m \notin Settling(id) /\ m \notin Mentioning(id)
      BY <1>2, <2>3 DEF Settling, Mentioning
    <3>2. \A x : x.id = id => (x \in next <=> x \in shown)
      BY <2>1, <2>3
    <3> QED BY <3>1, <3>2 DEF Bringing, Removing, Telling, Showing, Missing, Matching
  <2> QED BY <2>2, <2>3
<1>3. CASE m.kind = "left"
  <2>1. (\A x : x \in next <=> x \in shown /\ x.id # m.from) /\ Told(m) = {}
    BY <1>3 DEF Handles, Without, Told
  <2>2. CASE m.from = id
    <3>1. m \in Settling(id) /\ m \in Mentioning(id)
      BY <1>3, <2>2 DEF Settling, Mentioning
    <3> QED BY <2>1, <2>2, <3>1 DEF Bringing, Removing, Telling, Showing, Missing, Matching
  <2>3. CASE m.from # id
    <3>1. m \notin Settling(id) /\ m \notin Mentioning(id)
      BY <1>3, <2>3 DEF Settling, Mentioning
    <3>2. \A x : x.id = id => (x \in next <=> x \in shown)
      BY <2>1, <2>3
    <3> QED BY <3>1, <3>2 DEF Bringing, Removing, Telling, Showing, Missing, Matching
  <2> QED BY <2>2, <2>3
<1>4. CASE m.kind = "updated"
  <2>1. /\ \A x \in next : x \in shown \/ x = m.about
        /\ \A y \in shown : IF y.id = m.about.id THEN m.about \in next ELSE y \in next
        /\ \A x \in next : \E y \in shown : x.id = y.id
        /\ \A x \in next : x.id = m.about.id => x = m.about
    BY <1>4 DEF Handles, Updated
  <2>2. Told(m) = {m.about} /\ m \notin Settling(id) /\ (m \in Mentioning(id) <=> m.about.id = id)
    BY <1>4 DEF Settling, Mentioning, Told
  <2> QED BY <2>1, <2>2 DEF Bringing, Removing, Telling, Showing, Missing, Matching
<1>5. CASE m.kind \notin {"ack", "state", "joined", "left", "updated"}
  <2>1. next = shown /\ m \notin Settling(id) /\ m \notin Mentioning(id)
    BY <1>5 DEF Handles, Settling, Mentioning
  <2> QED BY <2>1 DEF Bringing, Removing, Telling
<1> QED
  BY <1>1, <1>2, <1>3, <1>4, <1>5

LEMMA WillTail ==
  ASSUME NEW s \in Seq(Message), s # <<>>, NEW shown, NEW next, Handles(Head(s), shown, next), NEW id, NEW d
  PROVE  /\ WillShow(s, shown, id) => WillShow(Tail(s), next, id)
         /\ WillMiss(s, shown, id) => WillMiss(Tail(s), next, id)
         /\ WillMatch(s, shown, id, d) => WillMatch(Tail(s), next, id, d)
<1>1. PICK m : m = Head(s) /\ m \in Message
  BY HeadTailProperties
<1>2. /\ m \in Bringing(id) => Showing(next, id)
      /\ m \notin Settling(id) /\ Showing(shown, id) => Showing(next, id)
      /\ m \in Removing(id) => Missing(next, id)
      /\ m \notin Settling(id) /\ Missing(shown, id) => Missing(next, id)
      /\ m \in Telling(id, d) => Matching(next, id, d)
      /\ m \notin Mentioning(id) /\ Matching(shown, id, d) => Matching(next, id, d)
  BY <1>1, HandledView
<1>3. WillShow(s, shown, id) => WillShow(Tail(s), next, id)
  BY <1>1, <1>2, LatestTail DEF WillShow
<1>4. WillMiss(s, shown, id) => WillMiss(Tail(s), next, id)
  BY <1>1, <1>2, LatestTail DEF WillMiss
<1>5. WillMatch(s, shown, id, d) => WillMatch(Tail(s), next, id, d)
  BY <1>1, <1>2, LatestTail DEF WillMatch
<1> QED
  BY <1>3, <1>4, <1>5

LEMMA WillAppend ==
  ASSUME NEW s \in Seq(Message), NEW m, NEW shown, NEW id, NEW d
  PROVE  /\ m \in Bringing(id) => WillShow(Append(s, m), shown, id)
         /\ m \notin Settling(id) /\ WillShow(s, shown, id) => WillShow(Append(s, m), shown, id)
         /\ m \in Removing(id) => WillMiss(Append(s, m), shown, id)
         /\ m \notin Settling(id) /\ WillMiss(s, shown, id) => WillMiss(Append(s, m), shown, id)
         /\ m \in Telling(id, d) => WillMatch(Append(s, m), shown, id, d)
         /\ m \notin Mentioning(id) /\ WillMatch(s, shown, id, d) => WillMatch(Append(s, m), shown, id, d)
<1>1. /\ m \in Bringing(id) => WillShow(Append(s, m), shown, id)
      /\ m \notin Settling(id) /\ WillShow(s, shown, id) => WillShow(Append(s, m), shown, id)
  BY LatestAppend DEF WillShow
<1>2. /\ m \in Removing(id) => WillMiss(Append(s, m), shown, id)
      /\ m \notin Settling(id) /\ WillMiss(s, shown, id) => WillMiss(Append(s, m), shown, id)
  BY LatestAppend DEF WillMiss
<1>3. /\ m \in Telling(id, d) => WillMatch(Append(s, m), shown, id, d)
      /\ m \notin Mentioning(id) /\ WillMatch(s, shown, id, d) => WillMatch(Append(s, m), shown, id, d)
  BY LatestAppend DEF WillMatch
<1> QED
  BY <1>1, <1>2, <1>3

-----------------------------------------------------------------------------
(* The class as the server knows it, and as the pages will show it.         *)

\* Who is in the room is connected, or was until just now.
RoomInv == \A id \in room : link[id] \in {"up", "lost"}

\* What is still to be announced of a socket.
Joining(id) == Job("joined", id) \in jobs

Leaving(id) == Job("bye", id) \in jobs

Raising(id) == \E j \in jobs : j.kind = "raise" /\ j.id = id

\* A page that hears what the room is told.
Listens(p) == Connected(p) /\ Mine(p) \in room /\ ~Joining(Mine(p))

\* What a page will show of a socket is what the server knows of it, but for
\* what is still to be announced.
RightFor(queue, shown, id) ==
  /\ id \in room /\ ~Joining(id) => WillShow(queue, shown, id)
  /\ id \notin room /\ ~Leaving(id) => WillMiss(queue, shown, id)
  /\ ~Joining(id) /\ ~Raising(id) => WillMatch(queue, shown, id, Described(id))

Accurate(p) == \A id \in Sockets : RightFor(inbox[Mine(p)], view[p], id)

\* So is what a snapshot has read and has still to read.
SnapshotRightFor(j, id) ==
  /\ id \in room /\ ~Joining(id) => id \in j.rest \/ Showing(j.got, id)
  /\ id \notin room /\ ~Leaving(id) => id \notin j.rest /\ Missing(j.got, id)
  /\ ~Joining(id) /\ ~Raising(id) => Matching(j.got, id, Described(id))

\* As long as no announcement overtook it, what a snapshot holds is right, also
\* when the pages are not: every page is about to be sent it.  While none is being
\* taken, the pages are, unless something came too late.
ViewInv ==
  /\ stale # "torn" => \A j \in Snapshots, id \in Sockets : SnapshotRightFor(j, id)
  /\ stale = "no" /\ Snapshots = {} => \A p \in Pages : Listens(p) => Accurate(p)

LEMMA HandlerRoom ==
  ASSUME TypeInv, AdmissionInv, RoomInv, NEW j \in jobs, HandlerStep(j)
  PROVE  RoomInv'
<1>1. UNCHANGED link
  BY DEF HandlerStep, JoinRoom, JoinAnnounced, TakeSnapshot, HandAnnounced, HandAccepted, HandRejected,
         MediaToggled, Left, Bye
<1>2. CASE room' = room
  BY <1>1, <1>2 DEF RoomInv
<1>3. CASE JoinRoom(j)
  <2>1. j.id \in Sockets /\ link[j.id] \in {"free", "up", "lost", "down"}
    BY JobFields DEF TypeInv, ServerTypes
  <2>2. link[j.id] # "free"
    BY DEF AdmissionInv, JobsAdmitted, JobAdmitted
  <2> QED BY <1>1, <1>3, <2>1, <2>2 DEF JoinRoom, RoomInv
<1> QED
  BY <1>2, <1>3
     DEF HandlerStep, JoinAnnounced, TakeSnapshot, HandAnnounced, HandAccepted, HandRejected, MediaToggled,
         Left, Bye

LEMMA NoticedRoom ==
  ASSUME TypeInv, RoomInv, NEW gone \in Sockets, Noticed(gone)
  PROVE  RoomInv'
<1>1. room' = room \ {gone} /\ link' = [link EXCEPT ![gone] = "down"]
  BY DEF Noticed, Disconnect
<1> QED
  BY <1>1 DEF RoomInv, TypeInv, ServerTypes

LEMMA PageStepRoomInv ==
  ASSUME TypeInv, RoomInv, NEW p \in Pages, PageStep(p)
  PROVE  RoomInv'
<1>1. room' \subseteq room
  BY PageStepRoom
<1>2. CASE Steady(p)
  BY <1>1, <1>2, SteadyLinks DEF RoomInv
<1>3. ASSUME NEW new \in Sockets, Connects(p, new) PROVE RoomInv'
  BY <1>1, <1>3 DEF Connects, RoomInv, TypeInv, ServerTypes
<1>4. CASE Drop(p)
  BY <1>1, <1>4 DEF Drop, RoomInv, TypeInv, ServerTypes
<1>5. CASE Close(p)
  BY <1>1, <1>5 DEF Close, RoomInv, TypeInv, ServerTypes
<1> QED
  BY <1>2, <1>3, <1>4, <1>5 DEF Steady, Visit, Reconnect

LEMMA RoomAlways == Spec => [](TypeInv /\ AdmissionInv /\ MicsInv /\ PresenceInv /\ RoomInv)
<1>1. Init => RoomInv
  BY DEF Init, ServerInit, RoomInv
<1>2. TypeInv /\ AdmissionInv /\ RoomInv /\ [Next]_vars => RoomInv'
  <2> SUFFICES ASSUME TypeInv, AdmissionInv, RoomInv, [Next]_vars PROVE RoomInv'
    OBVIOUS
  <2>1. CASE UNCHANGED vars
    BY <2>1 DEF vars, serverVars, RoomInv
  <2> QED BY <2>1, HandlerRoom, NoticedRoom, PageStepRoomInv DEF Next
<1> QED
  BY <1>1, <1>2, PresenceAlways, PTL DEF Spec

\* What a step leaves as it was of a socket, but for what it leaves to be announced.
Unmoved(id) ==
  /\ id \in room' /\ ~Joining(id)' => id \in room /\ ~Joining(id)
  /\ id \notin room' /\ ~Leaving(id)' => id \notin room /\ ~Leaving(id)
  /\ ~Joining(id)' /\ ~Raising(id)' => ~Joining(id) /\ ~Raising(id) /\ Described(id)' = Described(id)

LEMMA UnmovedSnapshot ==
  ASSUME NEW j, NEW id, Unmoved(id), SnapshotRightFor(j, id)
  PROVE  SnapshotRightFor(j, id)'
<1>1. PICK d : d = Described(id)
  OBVIOUS
<1>2. ~Joining(id)' /\ ~Raising(id)' => Matching(j.got, id, d) /\ Described(id)' = d
  BY <1>1 DEF Unmoved, SnapshotRightFor
<1>3. ~Joining(id)' /\ ~Raising(id)' => Matching(j.got, id, Described(id)')
  BY <1>2
<1> QED
  BY <1>3 DEF Unmoved, SnapshotRightFor, Matching, Showing, Missing

LEMMA UnmovedRight ==
  ASSUME NEW queue, NEW after, NEW shown, NEW next, NEW id, Unmoved(id), RightFor(queue, shown, id),
         WillShow(queue, shown, id) => WillShow(after, next, id),
         WillMiss(queue, shown, id) => WillMiss(after, next, id),
         \A d : WillMatch(queue, shown, id, d) => WillMatch(after, next, id, d)
  PROVE  RightFor(after, next, id)'
<1>1. PICK d : d = Described(id)
  OBVIOUS
<1>2. ~Joining(id)' /\ ~Raising(id)' => WillMatch(after, next, id, d) /\ Described(id)' = d
  BY <1>1 DEF Unmoved, RightFor
<1>3. ~Joining(id)' /\ ~Raising(id)' => WillMatch(after, next, id, Described(id)')
  BY <1>2
<1>4. id \in room' /\ ~Joining(id)' => WillShow(after, next, id)
  BY DEF Unmoved, RightFor
<1>5. id \notin room' /\ ~Leaving(id)' => WillMiss(after, next, id)
  BY DEF Unmoved, RightFor
<1> QED
  BY <1>3, <1>4, <1>5 DEF RightFor

\* A page will show after a step what it would have shown before.
Hears(p, queue, after, next) ==
  /\ queue = inbox[Mine(p)] /\ after = inbox'[Mine(p)] /\ next = view'[p]
  /\ \A id \in Sockets :
       /\ WillShow(queue, view[p], id) => WillShow(after, next, id)
       /\ WillMiss(queue, view[p], id) => WillMiss(after, next, id)
       /\ \A d : WillMatch(queue, view[p], id, d) => WillMatch(after, next, id, d)

Unaffected(p) == Listens(p) /\ Mine(p)' = Mine(p) /\ \E queue, after, next : Hears(p, queue, after, next)

LEMMA UnmovedViews ==
  ASSUME ViewInv, stale' = stale, Snapshots' = Snapshots, \A id \in Sockets : Unmoved(id),
         \A p \in Pages : Listens(p)' => Unaffected(p)
  PROVE  ViewInv'
<1>1. ASSUME stale' # "torn", NEW j \in Snapshots', NEW id \in Sockets PROVE SnapshotRightFor(j, id)'
  <2>1. SnapshotRightFor(j, id)
    BY <1>1 DEF ViewInv
  <2> QED BY <2>1, UnmovedSnapshot
<1>2. ASSUME stale' = "no", Snapshots' = {}, NEW p \in Pages, Listens(p)' PROVE Accurate(p)'
  <2>1. PICK queue, after, next : Hears(p, queue, after, next)
    BY <1>2 DEF Unaffected
  <2>2. Accurate(p) /\ Mine(p)' = Mine(p)
    BY <1>2 DEF Unaffected, ViewInv
  <2>3. PICK shown : shown = view[p]
    OBVIOUS
  <2>4. ASSUME NEW id \in Sockets PROVE RightFor(after, next, id)'
    <3>1. RightFor(queue, shown, id)
      BY <2>1, <2>2, <2>3 DEF Hears, Accurate
    <3>2. /\ WillShow(queue, shown, id) => WillShow(after, next, id)
          /\ WillMiss(queue, shown, id) => WillMiss(after, next, id)
          /\ \A d : WillMatch(queue, shown, id, d) => WillMatch(after, next, id, d)
      BY <2>1, <2>3 DEF Hears
    <3>3. Unmoved(id)
      OBVIOUS
    <3> QED BY <3>1, <3>2, <3>3, UnmovedRight
  <2>5. after = inbox'[Mine(p)'] /\ next = view'[p]
    BY <2>1, <2>2 DEF Hears
  <2> QED BY <2>4, <2>5 DEF Accurate
<1> QED
  BY <1>1, <1>2 DEF ViewInv

LEMMA HearsNothing ==
  ASSUME NEW p \in Pages, Listens(p), Mine(p)' = Mine(p), inbox'[Mine(p)] = inbox[Mine(p)], view'[p] = view[p]
  PROVE  Unaffected(p)
<1>1. PICK queue, next : queue = inbox[Mine(p)] /\ next = view[p]
  OBVIOUS
<1>2. Hears(p, queue, queue, next)
  BY <1>1 DEF Hears
<1> QED
  BY <1>2 DEF Unaffected

LEMMA HearsAside ==
  ASSUME TypeInv, NEW p \in Pages, Listens(p), Mine(p)' = Mine(p), view'[p] = view[p],
         NEW ids, NEW m, inbox' = Sent(inbox, ids, m),
         m.kind \notin {"ack", "state", "joined", "left", "updated"}
  PROVE  Unaffected(p)
<1>1. Mine(p) \in Sockets /\ inbox \in [Sockets -> Seq(Message)]
  BY DEF Listens, TypeInv, MailTypes, PageTypes
<1>0. PICK after, next : after = inbox'[Mine(p)] /\ next = view[p]
  OBVIOUS
<1>2. PICK queue \in Seq(Message) : queue = inbox[Mine(p)] /\ after = inbox'[Mine(p)] /\ next = view[p]
  BY <1>0, <1>1
<1>3. after = queue \/ after = Append(queue, m)
  BY <1>1, <1>2 DEF Sent
<1>4. \A id \in Sockets : m \notin Settling(id) /\ m \notin Mentioning(id)
  BY DEF Settling, Mentioning
<1>5. Hears(p, queue, after, next)
  BY <1>2, <1>3, <1>4, WillAppend DEF Hears
<1> QED
  BY <1>5 DEF Unaffected

\* A new snapshot is right: nothing has been read.
LEMMA FreshViews ==
  ASSUME TypeInv, RoomInv, NEW j \in jobs, j.kind # "snapshot", NEW id \in Sockets, NEW ack \in BOOLEAN,
         Continues(j, {Snapshot(id, ack)}), UNCHANGED room, stale' # "torn" => Snapshots = {}
  PROVE  ViewInv'
<1>1. PICK s : s = Snapshot(id, ack)
  OBVIOUS
<1>2. s.kind = "snapshot" /\ s.got = {} /\ s.rest = room
  BY <1>1 DEF Snapshot, RoomInv
<1>3. s \in Snapshots' /\ (stale' # "torn" => Snapshots' = {s})
  BY <1>1, <1>2 DEF Continues, Snapshots
<1>4. \A k \in Sockets : SnapshotRightFor(s, k)'
  BY <1>2 DEF SnapshotRightFor, Missing, Matching
<1> QED
  BY <1>3, <1>4 DEF ViewInv

\* A snapshot that is right is right for all that are sent it.
LEMMA SentViews ==
  ASSUME TypeInv, AdmissionInv, PresenceInv, RoomInv, NEW j \in jobs, j.kind = "snapshot", NEW got \in Roster,
         SnapshotSent(j, got), UNCHANGED <<owner, link, room, data, page, view>>,
         stale # "torn" =>
           \A id \in Sockets : /\ id \in room /\ ~Joining(id) => Showing(got, id)
                               /\ id \notin room /\ ~Leaving(id) => Missing(got, id)
                               /\ ~Joining(id) /\ ~Raising(id) => Matching(got, id, Described(id))
  PROVE  ViewInv'
<1>0. CASE Snapshots \ {j} # {}
  <2>1. stale' = "torn" /\ jobs' = jobs \ {j}
    BY <1>0 DEF SnapshotSent, Continues
  <2> QED BY <2>1 DEF ViewInv
<1> SUFFICES ASSUME Snapshots \ {j} = {} PROVE ViewInv'
  BY <1>0
<1>1. jobs' = jobs \ {j} /\ (stale' = "no" => stale # "torn")
  BY DEF SnapshotSent, Continues
<1>2. Snapshots' = {}
  BY <1>1 DEF Snapshots
<1>3. PICK ack, state : ack = StateMessage("ack", got) /\ state = StateMessage("state", got)
  OBVIOUS
<1>4. ack \in Message /\ state \in Message /\ state.kind = "state" /\ state.participants = got
  BY <1>3, MessagesMade DEF StateMessage
<1>5. PICK acked : /\ acked = IF j.ack THEN Sent(inbox, {j.id}, ack) ELSE inbox
                   /\ inbox' = Sent(acked, room, state)
  BY <1>3 DEF SnapshotSent
<1>6. acked \in [Sockets -> Seq(Message)]
  BY <1>4, <1>5, SentTyped DEF TypeInv, MailTypes
<1>7. \A id \in Sockets : (Joining(id)' <=> Joining(id)) /\ (Leaving(id)' <=> Leaving(id))
                          /\ (Raising(id)' <=> Raising(id)) /\ Described(id)' = Described(id)
  <2>1. \A id : Job("joined", id) # j /\ Job("bye", id) # j
    <3>1. \A kind, id : Job(kind, id).kind = kind
      BY DEF Job
    <3> QED BY <3>1
  <2>2. \A id \in Sockets : (Joining(id)' <=> Joining(id)) /\ (Leaving(id)' <=> Leaving(id))
    BY <1>1, <2>1 DEF Joining, Leaving, Job
  <2>3. \A id \in Sockets : Raising(id)' <=> Raising(id)
    BY <1>1 DEF Raising
  <2>4. \A id \in Sockets : Described(id)' = Described(id)
    BY DEF Described
  <2> QED BY <2>2, <2>3, <2>4
<1>8. \A id, d : /\ Showing(got, id) => state \in Bringing(id)
                 /\ Missing(got, id) => state \in Removing(id)
                 /\ Matching(got, id, d) => state \in Telling(id, d)
  BY <1>4 DEF Bringing, Removing, Telling, Settling, Mentioning, Showing, Missing, Matching, Told
<1>9. ASSUME stale' = "no", NEW p \in Pages, Listens(p)' PROVE Accurate(p)'
  <2>1. Listens(p) /\ Mine(p)' = Mine(p) /\ Mine(p) \in Sockets
    BY <1>7, <1>9 DEF Listens, Connected, Mine, TypeInv, PageTypes
  <2>2. Mine(p) \in room /\ link[Mine(p)] = "up"
    BY <2>1 DEF Listens, PresenceInv
  <2>0. PICK after, shown : after = inbox'[Mine(p)] /\ shown = view[p]
    OBVIOUS
  <2>3. PICK queue \in Seq(Message) : queue = acked[Mine(p)] /\ after = inbox'[Mine(p)] /\ shown = view[p]
    BY <2>0, <1>6, <2>1
  <2>4. after = Append(queue, state)
    BY <1>5, <2>1, <2>2, <2>3 DEF Sent
  <2>5. ASSUME NEW id \in Sockets PROVE RightFor(after, shown, id)'
    <3>1. PICK d : d = Described(id) /\ d = Described(id)'
      BY <1>7
    <3>2. /\ id \in room /\ ~Joining(id) => WillShow(after, shown, id)
          /\ id \notin room /\ ~Leaving(id) => WillMiss(after, shown, id)
          /\ ~Joining(id) /\ ~Raising(id) => WillMatch(after, shown, id, d)
      BY <1>1, <1>8, <1>9, <2>4, <3>1, WillAppend
    <3>3. ~Joining(id)' /\ ~Raising(id)' => WillMatch(after, shown, id, Described(id)')
      BY <1>7, <3>1, <3>2
    <3> QED BY <1>7, <3>2, <3>3 DEF RightFor
  <2> QED BY <2>1, <2>3, <2>5 DEF Accurate
<1> QED
  BY <1>2, <1>9 DEF ViewInv

LEMMA SnapshotViews ==
  ASSUME TypeInv, AdmissionInv, PresenceInv, RoomInv, ViewInv, NEW j \in jobs, TakeSnapshot(j), UNCHANGED pageVars
  PROVE  ViewInv'
<1>1. /\ j.kind = "snapshot" /\ j.got \in Roster /\ UNCHANGED <<owner, link, room, data, page, view>>
  BY SnapshotFields DEF TakeSnapshot, TypeInv, ServerTypes, pageVars
<1>2. stale # "torn" => \A id \in Sockets : SnapshotRightFor(j, id)
  BY <1>1 DEF ViewInv, Snapshots
<1>3. CASE j.rest = {} /\ SnapshotSent(j, j.got)
  <2>1. stale # "torn" =>
          \A id \in Sockets : /\ id \in room /\ ~Joining(id) => Showing(j.got, id)
                              /\ id \notin room /\ ~Leaving(id) => Missing(j.got, id)
                              /\ ~Joining(id) /\ ~Raising(id) => Matching(j.got, id, Described(id))
    BY <1>2, <1>3 DEF SnapshotRightFor
  <2> QED BY <1>1, <1>3, <2>1, SentViews
<1>4. ASSUME NEW x \in j.rest, NEW r, r = Read(j, x)
      PROVE  /\ r.got \in Roster /\ r.kind = "snapshot" /\ r.rest = j.rest \ {x}
             /\ stale # "torn" => \A id \in Sockets : SnapshotRightFor(r, id)
  <2>1. /\ r.kind = "snapshot" /\ r.got = j.got \cup {Described(x)} /\ r.rest = j.rest \ {x} /\ r.got \in Roster
    BY <1>1, <1>4, ReadMore
  <2>2. x \in Sockets
    BY <1>1, SnapshotFields DEF TypeInv, ServerTypes
  <2>3. PICK d : d = Described(x) /\ d.id = x
    BY <2>2, DescribedTyped DEF TypeInv
  <2>4. \A y : y \in r.got <=> y \in j.got \/ y = d
    BY <2>1, <2>3
  <2>5. ASSUME stale # "torn", NEW id \in Sockets PROVE SnapshotRightFor(r, id)
    <3>1. SnapshotRightFor(j, id)
      BY <1>2, <2>5
    <3>2. id \in room /\ ~Joining(id) => id \in r.rest \/ Showing(r.got, id)
      BY <2>1, <2>3, <2>4, <3>1 DEF SnapshotRightFor, Showing
    <3>3. id \notin room /\ ~Leaving(id) => id \notin r.rest /\ Missing(r.got, id)
      BY <2>1, <2>3, <2>4, <3>1 DEF SnapshotRightFor, Missing
    <3>4. ASSUME ~Joining(id), ~Raising(id) PROVE Matching(r.got, id, Described(id))
      <4>1. PICK e : e = Described(id)
        OBVIOUS
      <4>2. Matching(j.got, id, e) /\ (id = x => d = e)
        BY <2>3, <3>1, <3>4, <4>1 DEF SnapshotRightFor
      <4>3. Matching(r.got, id, e)
        BY <2>3, <2>4, <4>2 DEF Matching
      <4> QED BY <4>1, <4>3
    <3> QED BY <3>2, <3>3, <3>4 DEF SnapshotRightFor
  <2> QED BY <2>1, <2>5
<1>5. ASSUME NEW x \in j.rest, j.rest = {x}, SnapshotSent(j, Read(j, x).got) PROVE ViewInv'
  <2>1. PICK r : r = Read(j, x)
    OBVIOUS
  <2>2. r.got \in Roster /\ r.rest = {} /\ (stale # "torn" => \A id \in Sockets : SnapshotRightFor(r, id))
    BY <1>4, <1>5, <2>1
  <2>3. PICK got \in Roster : got = r.got
    BY <2>2
  <2>4. stale # "torn" =>
          \A id \in Sockets : /\ id \in room /\ ~Joining(id) => Showing(got, id)
                              /\ id \notin room /\ ~Leaving(id) => Missing(got, id)
                              /\ ~Joining(id) /\ ~Raising(id) => Matching(got, id, Described(id))
    BY <2>2, <2>3 DEF SnapshotRightFor
  <2>5. SnapshotSent(j, got)
    BY <1>5, <2>1, <2>3
  <2> QED BY <1>1, <2>4, <2>5, SentViews
<1>6. ASSUME NEW x \in j.rest, Continues(j, {Read(j, x)}), UNCHANGED <<stale, inbox>> PROVE ViewInv'
  <2>1. PICK r : r = Read(j, x)
    OBVIOUS
  <2>2. r.kind = "snapshot" /\ jobs' = (jobs \ {j}) \cup {r}
    BY <1>4, <1>6, <2>1 DEF Continues
  <2>3. stale # "torn" => \A id \in Sockets : SnapshotRightFor(r, id)
    BY <1>4, <2>1
  <2>4. Snapshots' = (Snapshots \ {j}) \cup {r}
    BY <1>1, <2>2 DEF Snapshots
  <2>5. ASSUME NEW id \in Sockets PROVE Unmoved(id)
    <3>1. \A kind : Job(kind, id).kind = kind
      BY DEF Job
    <3>2. (Joining(id)' <=> Joining(id)) /\ (Leaving(id)' <=> Leaving(id))
      BY <1>1, <2>2, <3>1 DEF Joining, Leaving, Job
    <3>3. Raising(id) => Raising(id)'
      BY <1>1, <2>2 DEF Raising
    <3>4. Described(id)' = Described(id)
      BY <1>1 DEF Described
    <3> QED BY <1>1, <3>2, <3>3, <3>4 DEF Unmoved
  <2>6. ASSUME stale # "torn", NEW k \in Snapshots', NEW id \in Sockets PROVE SnapshotRightFor(k, id)'
    <3>1. SnapshotRightFor(k, id)
      BY <2>3, <2>4, <2>6 DEF ViewInv
    <3> QED BY <2>5, <3>1, UnmovedSnapshot
  <2>7. Snapshots' # {}
    BY <2>4
  <2> QED BY <1>6, <2>6, <2>7 DEF ViewInv
<1> QED
  BY <1>3, <1>5, <1>6 DEF TakeSnapshot

\* One socket's data is announced as it is now.
LEMMA UpdatedViews ==
  ASSUME TypeInv, AdmissionInv, PresenceInv, RoomInv, ViewInv, NEW j \in jobs, j.kind # "snapshot",
         j.kind \notin {"joined", "bye"},
         Continues(j, {}), stale' # "torn" => Snapshots = {}, stale' = "no" => stale = "no",
         UNCHANGED <<owner, link, room, page, view>>,
         NEW x \in Participant, x.id = j.id, stale' = "no" => x = Described(j.id)', inbox' = Sent(inbox, room, About("updated", x)),
         \A id \in Sockets : id # j.id => data'[id] = data[id]
  PROVE  ViewInv'
<1>0. Snapshots' = Snapshots
  BY DEF Continues, Snapshots
<1> SUFFICES ASSUME stale' = "no" PROVE ViewInv'
  BY <1>0 DEF ViewInv
<1>1. jobs' = jobs \ {j} /\ stale = "no" /\ Snapshots = {} /\ x = Described(j.id)'
  BY DEF Continues
<1>2. Snapshots' = {}
  BY <1>1 DEF Snapshots
<1>3. PICK m : m = About("updated", x) /\ m.kind = "updated" /\ m.about = x /\ m \in Message
  BY MessagesMade DEF About
<1>4. \A id \in Sockets : m \notin Settling(id)
  BY <1>3 DEF Settling
<1>5. \A id \in Sockets : id # j.id => m \notin Mentioning(id)
  BY <1>3 DEF Mentioning, Settling
<1>6. m \in Telling(j.id, x)
  BY <1>3 DEF Telling, Mentioning, Told
<1>7. \A id \in Sockets : /\ Joining(id)' <=> Joining(id)
                          /\ Leaving(id)' <=> Leaving(id)
                          /\ id # j.id => (Raising(id) => Raising(id)') /\ Described(id)' = Described(id)
  <2>1. \A id : Job("joined", id) # j /\ Job("bye", id) # j
    <3>1. \A kind, id : Job(kind, id).kind = kind
      BY DEF Job
    <3> QED BY <3>1
  <2>2. \A id \in Sockets : (Joining(id)' <=> Joining(id)) /\ (Leaving(id)' <=> Leaving(id))
    BY <1>1, <2>1 DEF Joining, Leaving, Job
  <2>3. \A id \in Sockets : id # j.id => (Raising(id) => Raising(id)')
    BY <1>1 DEF Raising
  <2>4. \A id \in Sockets : id # j.id => Described(id)' = Described(id)
    BY DEF Described
  <2> QED BY <2>2, <2>3, <2>4
<1>8. ASSUME NEW p \in Pages, Listens(p)' PROVE Accurate(p)'
  <2>1. Listens(p) /\ Mine(p)' = Mine(p) /\ Mine(p) \in Sockets /\ inbox \in [Sockets -> Seq(Message)]
    BY <1>7, <1>8 DEF Listens, Connected, Mine, TypeInv, PageTypes, MailTypes
  <2>2. Mine(p) \in room /\ link[Mine(p)] = "up" /\ Accurate(p)
    BY <1>1, <2>1 DEF Listens, PresenceInv, ViewInv
  <2>0. PICK after, shown : after = inbox'[Mine(p)] /\ shown = view[p]
    OBVIOUS
  <2>3. PICK queue \in Seq(Message) : queue = inbox[Mine(p)] /\ after = inbox'[Mine(p)] /\ shown = view[p]
    BY <2>0, <2>1
  <2>4. after = Append(queue, m)
    BY <1>3, <2>1, <2>2, <2>3 DEF Sent
  <2>5. ASSUME NEW id \in Sockets PROVE RightFor(after, shown, id)'
    <3>1. RightFor(queue, shown, id)
      BY <2>2, <2>3 DEF Accurate
    <3>2. /\ id \in room /\ ~Joining(id) => WillShow(after, shown, id)
          /\ id \notin room /\ ~Leaving(id) => WillMiss(after, shown, id)
      BY <1>4, <2>4, <3>1, WillAppend DEF RightFor
    <3>3. CASE id = j.id
      <4>1. WillMatch(after, shown, id, x)
        BY <1>6, <2>4, <3>3, WillAppend
      <4>2. WillMatch(after, shown, id, Described(id)')
        BY <1>1, <3>3, <4>1
      <4> QED BY <1>7, <3>2, <4>2 DEF RightFor
    <3>4. CASE id # j.id
      <4>1. PICK d : d = Described(id) /\ d = Described(id)'
        BY <1>7, <3>4
      <4>2. ~Joining(id) /\ ~Raising(id) => WillMatch(after, shown, id, d)
        BY <1>5, <2>4, <3>1, <3>4, <4>1, WillAppend DEF RightFor
      <4>3. ~Joining(id)' /\ ~Raising(id)' => WillMatch(after, shown, id, Described(id)')
        BY <1>7, <3>4, <4>1, <4>2
      <4> QED BY <1>7, <3>2, <4>3 DEF RightFor
    <3> QED BY <3>3, <3>4
  <2> QED BY <2>1, <2>3, <2>5 DEF Accurate
<1> QED
  BY <1>2, <1>8 DEF ViewInv

LEMMA HandlerUnmoved ==
  ASSUME TypeInv, NEW j \in jobs, NEW id \in Sockets,
         \/ JoinRoom(j) \/ HandRejected(j) \/ Left(j)
         \/ HandAccepted(j) /\ ~IsTeacher(j.id)
         \/ MediaToggled(j) /\ ~MayToggle(j.id)
  PROVE  Unmoved(id) /\ Snapshots' = Snapshots /\ stale' = stale
<1>1. j \in Jobs /\ j.id \in Sockets
  BY JobFields DEF TypeInv, ServerTypes
<1>2. \A kind, k : Job(kind, k).kind = kind /\ Job(kind, k).id = k
  BY DEF Job
<1>3. j.kind \in {"join", "reject", "leave", "accept", "toggle"} /\ stale' = stale
  BY DEF JoinRoom, HandRejected, Left, HandAccepted, MediaToggled
<1>4. CASE JoinRoom(j)
  <2>1. /\ jobs' = (jobs \ {j}) \cup {Job("joined", j.id)} /\ (room' = room \/ room' = room \cup {j.id})
        /\ data' = [data EXCEPT ![j.id] = Entered(j.id)]
    BY <1>4 DEF JoinRoom, Continues
  <2>2. Snapshots' = Snapshots
    BY <1>2, <1>3, <2>1 DEF Snapshots
  <2>3. CASE id = j.id
    <3>1. Joining(id)' /\ (id \notin room' => id \notin room)
      BY <2>1, <2>3 DEF Joining, Job
    <3>2. Leaving(id) => Leaving(id)'
      BY <1>2, <1>3, <2>1 DEF Leaving, Job
    <3> QED BY <1>3, <2>2, <3>1, <3>2 DEF Unmoved
  <2>4. CASE id # j.id
    <3>1. Joining(id) => Joining(id)'
      BY <1>2, <1>3, <2>1 DEF Joining, Job
    <3>2. Leaving(id) => Leaving(id)'
      BY <1>2, <1>3, <2>1 DEF Leaving, Job
    <3>3. Raising(id) => Raising(id)'
      BY <1>3, <2>1 DEF Raising
    <3>4. Described(id)' = Described(id)
      BY <1>1, <2>1, <2>4 DEF Described, TypeInv, ServerTypes
    <3>5. (Joining(id)' => Joining(id)) /\ (id \in room' <=> id \in room)
      BY <1>2, <2>1, <2>4 DEF Joining, Job
    <3> QED BY <1>3, <2>2, <3>1, <3>2, <3>3, <3>4, <3>5 DEF Unmoved
  <2> QED BY <2>3, <2>4
<1>5. CASE ~JoinRoom(j)
  <2>1. jobs' = jobs \ {j} /\ room' = room
    BY <1>5 DEF HandRejected, Left, HandAccepted, MediaToggled, Continues
  <2>2. Snapshots' = Snapshots
    BY <1>3, <2>1 DEF Snapshots
  <2>3. (Joining(id) <=> Joining(id)') /\ (Leaving(id) <=> Leaving(id)')
    BY <1>2, <1>3, <2>1 DEF Joining, Leaving, Job
  <2>4. Raising(id) => Raising(id)'
    BY <1>3, <2>1 DEF Raising
  <2>5. Described(id)' = Described(id)
    <3>1. CASE Left(j)
      <4>1. data' = [data EXCEPT ![j.id].joined = FALSE] /\ data \in [Sockets -> DataRow]
        BY <3>1 DEF Left, TypeInv, ServerTypes
      <4>2. data'[id].hand = data[id].hand /\ data'[id].mic = data[id].mic /\ data'[id].cam = data[id].cam
        BY <1>1, <4>1 DEF DataRow
      <4> QED BY <4>2 DEF Described
    <3>2. CASE UNCHANGED data
      BY <3>2 DEF Described
    <3> QED BY <1>5, <3>1, <3>2 DEF HandRejected, HandAccepted, MediaToggled
  <2> QED BY <1>3, <2>1, <2>2, <2>3, <2>4, <2>5 DEF Unmoved
<1> QED
  BY <1>4, <1>5

LEMMA HandlerViews ==
  ASSUME TypeInv, AdmissionInv, PresenceInv, RoomInv, ViewInv, NEW j \in jobs, HandlerStep(j), UNCHANGED pageVars
  PROVE  ViewInv'
<1>1. j \in Jobs /\ j.id \in Sockets /\ UNCHANGED <<owner, link, page, view>>
  BY JobFields
     DEF TypeInv, ServerTypes, HandlerStep, JoinRoom, JoinAnnounced, TakeSnapshot, HandAnnounced, HandAccepted,
         HandRejected, MediaToggled, Left, Bye, pageVars
<1>2. CASE TakeSnapshot(j)
  BY <1>2, SnapshotViews
<1>3. CASE JoinAnnounced(j) \/ Bye(j) \/ (HandAccepted(j) /\ IsTeacher(j.id))
  <2>1. PICK ack \in BOOLEAN : Continues(j, {Snapshot(j.id, ack)})
    BY <1>3 DEF JoinAnnounced, Bye, HandAccepted
  <2>2. j.kind \in {"joined", "bye", "accept"} /\ UNCHANGED room
    BY <1>3 DEF JoinAnnounced, Bye, HandAccepted
  <2>3. stale' # "torn" => Snapshots = {}
    <3>1. j \notin Snapshots
      BY <2>2 DEF Snapshots
    <3> QED BY <1>3, <3>1 DEF JoinAnnounced, Bye, HandAccepted, Announces, Announced
  <2> QED BY <1>1, <2>1, <2>2, <2>3, FreshViews
<1>4. CASE \/ JoinRoom(j) \/ HandRejected(j) \/ Left(j)
           \/ HandAccepted(j) /\ ~IsTeacher(j.id)
           \/ MediaToggled(j) /\ ~MayToggle(j.id)
  <2>1. (\A id \in Sockets : Unmoved(id)) /\ Snapshots' = Snapshots /\ stale' = stale
    BY <1>1, <1>4, HandlerUnmoved
  <2>2. ASSUME NEW p \in Pages, Listens(p)' PROVE Unaffected(p)
    <3>1. Connected(p) /\ Mine(p)' = Mine(p) /\ Mine(p) \in Sockets
      BY <1>1, <2>2 DEF Listens, Connected, Mine, TypeInv, PageTypes
    <3>2. Mine(p) \in room /\ ~Joining(Mine(p))
      <4>1. PICK k \in Sockets : k = Mine(p)
        BY <3>1
      <4>2. k \in room' /\ ~Joining(k)'
        BY <2>2, <3>1, <4>1 DEF Listens, Joining
      <4> QED BY <2>1, <4>1, <4>2 DEF Unmoved
    <3>3. Listens(p)
      BY <3>1, <3>2 DEF Listens
    <3>4. CASE UNCHANGED inbox
      BY <1>1, <3>1, <3>3, <3>4, HearsNothing
    <3>5. CASE HandRejected(j) /\ IsTeacher(j.id)
      <4>1. PICK m : m = [kind |-> "rejected", from |-> j.id]
        OBVIOUS
      <4>2. m.kind = "rejected" /\ inbox' = Sent(inbox, {j.student}, m)
        BY <3>5, <4>1 DEF HandRejected
      <4>3. PICK ids : inbox' = Sent(inbox, ids, m)
        BY <4>2
      <4> QED BY <1>1, <3>1, <3>3, <4>2, <4>3, HearsAside
    <3> QED BY <1>4, <3>4, <3>5 DEF JoinRoom, HandRejected, Left, HandAccepted, MediaToggled
  <2> QED BY <2>1, <2>2, UnmovedViews
<1>5. CASE HandAnnounced(j)
  <2>1. PICK x : x = [Described(j.id) EXCEPT !.hand = j.raised]
    OBVIOUS
  <2>2. j.kind = "raise" /\ j.raised \in BOOLEAN
    BY <1>1, <1>5, JobFields DEF HandAnnounced
  <2>3. /\ x \in Participant /\ x.id = j.id /\ x.hand = j.raised
        /\ x.mic = data[j.id].mic /\ x.cam = data[j.id].cam
    BY <1>1, <2>1, <2>2, DescribedTyped DEF TypeInv
  <2>4. /\ stale' # "torn" => Snapshots = {}
        /\ stale' = "no" => stale = "no" /\ x = Described(j.id)'
    <3>1. /\ stale' # "torn" => Snapshots = {}
          /\ stale' = "no" => data[j.id].hand = j.raised /\ stale = "no" /\ UNCHANGED data
      BY <1>5 DEF HandAnnounced, Announced
    <3>2. x = [id |-> j.id, hand |-> x.hand, mic |-> x.mic, cam |-> x.cam]
      BY <2>3 DEF Participant
    <3> QED BY <2>3, <3>1, <3>2 DEF Described
  <2>5. Continues(j, {}) /\ inbox' = Sent(inbox, room, About("updated", x)) /\ UNCHANGED <<room, data>>
    BY <1>5, <2>1 DEF HandAnnounced
  <2> QED BY <1>1, <2>2, <2>3, <2>4, <2>5, UpdatedViews
<1>6. CASE MediaToggled(j) /\ MayToggle(j.id)
  <2>1. PICK now :
          /\ now = [data[j.id] EXCEPT !.mic = Patched(@, j.mic), !.cam = Patched(@, j.cam)]
          /\ data' = [data EXCEPT ![j.id] = now]
          /\ inbox' = Sent(inbox, room,
                 About("updated", [id |-> j.id, hand |-> now.hand, mic |-> now.mic, cam |-> now.cam]))
    BY <1>6 DEF MediaToggled
  <2>2. PICK x : x = [id |-> j.id, hand |-> now.hand, mic |-> now.mic, cam |-> now.cam]
    OBVIOUS
  <2>3. j.kind = "toggle" /\ x \in Participant /\ x.id = j.id
    BY <1>6, <2>1, <2>2, ToggledTyped DEF MediaToggled
  <2>4. data'[j.id] = now /\ \A id \in Sockets : id # j.id => data'[id] = data[id]
    BY <1>1, <2>1 DEF TypeInv, ServerTypes
  <2>5. x = Described(j.id)'
    BY <2>2, <2>4 DEF Described
  <2>6. /\ Continues(j, {}) /\ UNCHANGED room
        /\ (stale' # "torn" => Snapshots = {}) /\ (stale' = "no" => stale = "no")
    BY <1>6, <2>3 DEF MediaToggled, Announces, Announced, Snapshots
  <2>7. inbox' = Sent(inbox, room, About("updated", x))
    BY <2>1, <2>2
  <2> QED BY <1>1, <2>3, <2>4, <2>5, <2>6, <2>7, UpdatedViews
<1> QED
  BY <1>2, <1>3, <1>4, <1>5, <1>6 DEF HandlerStep

LEMMA NoticedViews ==
  ASSUME TypeInv, PresenceInv, RoomInv, ViewInv, NEW gone \in Sockets, Noticed(gone)
  PROVE  ViewInv'
<1>1. /\ UNCHANGED <<owner, data, inbox, page, view>> /\ room' = room \ {gone}
      /\ jobs' = IF data[gone].joined THEN jobs \cup {Job("bye", gone)} ELSE jobs
      /\ stale' = IF gone \in room /\ ~data[gone].joined THEN Announced(Snapshots, FALSE) ELSE stale
  BY DEF Noticed, Disconnect, pageVars
<1>2. \A kind, k : Job(kind, k).kind = kind
  BY DEF Job
<1>3. Snapshots' = Snapshots
  BY <1>1, <1>2 DEF Snapshots
<1>0. CASE gone \in room /\ ~data[gone].joined
  BY <1>0, <1>1, <1>3 DEF Announced, ViewInv
<1> SUFFICES ASSUME ~(gone \in room /\ ~data[gone].joined) PROVE ViewInv'
  BY <1>0
<1>4. ASSUME NEW id \in Sockets PROVE Unmoved(id)
  <2>1. (Joining(id)' <=> Joining(id)) /\ (Leaving(id) => Leaving(id)')
    BY <1>1, <1>2 DEF Joining, Leaving, Job
  <2>2. (Raising(id) => Raising(id)') /\ Described(id)' = Described(id)
    BY <1>1 DEF Raising, Described
  <2>3. id \in room /\ id \notin room' => Leaving(id)'
    BY <1>1 DEF Leaving, Job
  <2> QED BY <1>1, <2>1, <2>2, <2>3 DEF Unmoved
<1>5. ASSUME NEW p \in Pages, Listens(p)' PROVE Unaffected(p)
  <2>1. Mine(p)' = Mine(p) /\ Connected(p) /\ Mine(p) \in room
    BY <1>1, <1>5 DEF Listens, Connected, Mine
  <2>2. ~Joining(Mine(p))
    BY <1>1, <1>5, <2>1 DEF Listens, Joining
  <2>3. Listens(p)
    BY <2>1, <2>2 DEF Listens
  <2> QED BY <1>1, <2>1, <2>3, HearsNothing
<1> QED
  BY <1>1, <1>3, <1>4, <1>5, UnmovedViews

LEMMA SteadyStarts ==
  ASSUME TypeInv, NEW p \in Pages, Steady(p), NEW k \in jobs'
  PROVE  k \in jobs \/ k.kind \in {"raise", "toggle", "accept", "reject"}
<1>1. ASSUME k \notin jobs PROVE k.kind \in {"raise", "toggle", "accept", "reject"}
  <2>1. Starts(p, k)
    BY <1>1, PageStepJobs DEF Steady
  <2>2. ASSUME NEW id \in Sockets, Connects(p, id) PROVE FALSE
    <3>1. UNCHANGED link
      BY SteadyLinks
    <3> QED BY <2>2, <3>1 DEF Connects, TypeInv, ServerTypes
  <2> QED BY <2>1, <2>2 DEF Starts, Steady
<1> QED
  BY <1>1

\* A page changes what is known of its socket only where that is about to be
\* announced: its hand.
LEMMA SteadyUnmoved ==
  ASSUME TypeInv, NEW p \in Pages, Steady(p)
  PROVE  (\A id \in Sockets : Unmoved(id)) /\ Snapshots' = Snapshots /\ stale' = stale
<1>1. UNCHANGED room /\ jobs \subseteq jobs' /\ stale' = stale
  <2>1. stale' = stale
    BY DEF Steady, PageStep, Button, Signals, Granted, Denied, RaiseHand, LeaveStage, ToggleMic, GoLive,
           StopLive, OpenWebcam, CloseWebcam, AnswerHand, Deliver, Negotiate, AnswerSet, ConnectionFails, serverVars
  <2> QED BY <2>1, SteadyLinks
<1>2. Snapshots' = Snapshots
  <2>1. \A k \in jobs' : k.kind = "snapshot" => k \in jobs
    BY SteadyStarts
  <2> QED BY <1>1, <2>1 DEF Snapshots
<1>3. ASSUME NEW id \in Sockets PROVE (Joining(id)' <=> Joining(id)) /\ (Leaving(id) => Leaving(id)')
  <2>1. Job("joined", id).kind = "joined"
    BY DEF Job
  <2>2. Job("joined", id) \in jobs' => Job("joined", id) \in jobs
    BY <2>1, SteadyStarts
  <2> QED BY <1>1, <2>2 DEF Joining, Leaving, Job
<1>4. \A id \in Sockets : Raising(id) => Raising(id)'
  BY <1>1 DEF Raising
<1>5. CASE RaiseHand(p) \/ LeaveStage(p)
  <2>1. PICK k \in Sockets, raised \in BOOLEAN :
          data' = HandSet(data, k, raised) /\ RaiseJobs(k, raised) \subseteq jobs'
    <3>1. Connected(p) /\ Mine(p) \in Sockets
      BY <1>5 DEF RaiseHand, LeaveStage, InClass, Connected, TypeInv, PageTypes
    <3>2. PICK raised : /\ raised = (~HandShown(p))
                        /\ RaiseHand(p) => data' = HandSet(data, Mine(p), raised)
                                           /\ RaiseJobs(Mine(p), raised) \subseteq jobs'
      BY DEF RaiseHand
    <3>3. raised \in BOOLEAN
      BY <3>2 DEF HandShown
    <3> QED BY <1>5, <3>1, <3>2, <3>3 DEF LeaveStage
  <2>2. ASSUME NEW id \in Sockets PROVE Raising(id)' \/ Described(id)' = Described(id)
    <3>1. CASE data[k].joined /\ id = k
      <4>1. PICK r : r = [kind |-> "raise", id |-> k, raised |-> raised]
        OBVIOUS
      <4>2. r \in jobs' /\ r.kind = "raise" /\ r.id = k
        BY <2>1, <3>1, <4>1 DEF RaiseJobs
      <4> QED BY <3>1, <4>2 DEF Raising
    <3>2. CASE ~(data[k].joined /\ id = k)
      <4>1. data'[id] = data[id]
        BY <2>1, <3>2 DEF HandSet, TypeInv, ServerTypes
      <4> QED BY <4>1 DEF Described
    <3> QED BY <3>1, <3>2
  <2> QED BY <1>1, <1>2, <1>3, <1>4, <2>2 DEF Unmoved
<1>6. CASE UNCHANGED data
  <2>1. \A id \in Sockets : Described(id)' = Described(id)
    BY <1>6 DEF Described
  <2> QED BY <1>1, <1>2, <1>3, <1>4, <2>1 DEF Unmoved
<1> QED
  BY <1>5, <1>6
     DEF Steady, PageStep, Button, Signals, Granted, Denied, ToggleMic, GoLive, StopLive, OpenWebcam,
         CloseWebcam, AnswerHand, Deliver, Negotiate, AnswerSet, ConnectionFails, serverVars

LEMMA DeliverHandles ==
  ASSUME TypeInv, NEW p \in Pages, Deliver(p)
  PROVE  /\ Handles(First(inbox, Mine(p)), view[p], view'[p])
         /\ \A q \in Pages : q # p => view'[q] = view[q]
<1>1. PICK m : m = First(inbox, Mine(p)) /\ m = Head(inbox[Mine(p)])
  BY DEF First
<1>2. view \in [Pages -> Roster]
  BY DEF TypeInv, PageTypes
<1>3. CASE m.kind \in {"ack", "state"}
  <2>1. view' = [view EXCEPT ![p] = m.participants]
    BY <1>1, <1>3 DEF Deliver, OnState
  <2> QED BY <1>1, <1>2, <1>3, <2>1 DEF Handles
<1>4. CASE m.kind = "joined"
  <2>1. view' = [view EXCEPT ![p] = WithJoined(@, m.about)]
    BY <1>1, <1>4 DEF Deliver, OnJoined
  <2> QED BY <1>1, <1>2, <1>4, <2>1 DEF Handles
<1>5. CASE m.kind = "left"
  <2>1. view' = [view EXCEPT ![p] = Without(@, m.from)]
    BY <1>1, <1>5 DEF Deliver, OnLeft
  <2> QED BY <1>1, <1>2, <1>5, <2>1 DEF Handles
<1>6. CASE m.kind = "updated"
  <2>1. view' = [view EXCEPT ![p] = Updated(@, m.about)]
    BY <1>1, <1>6 DEF Deliver
  <2> QED BY <1>1, <1>2, <1>6, <2>1 DEF Handles
<1>7. CASE m.kind \notin {"ack", "state", "joined", "left", "updated"}
  <2>1. UNCHANGED view
    BY <1>1, <1>7 DEF Deliver, OnAccepted, OnGone
  <2> QED BY <1>1, <1>7, <2>1 DEF Handles
<1> QED
  BY <1>3, <1>4, <1>5, <1>6, <1>7

LEMMA TakenUnaffected ==
  ASSUME TypeInv, NEW p \in Pages, Deliver(p), Listens(p), Mine(p)' = Mine(p),
         NEW out \in [Sockets -> Seq(Message)], NEW ids, NEW m,
         out = inbox \/ (out = Sent(inbox, ids, m) /\ m.kind = "answer"),
         inbox' = Taken(out, Mine(p))
  PROVE  Unaffected(p)
<1>1. inbox \in [Sockets -> Seq(Message)] /\ inbox[Mine(p)] # <<>> /\ Mine(p) \in Sockets
  BY DEF Deliver, TypeInv, PageTypes, MailTypes
<1>0. PICK after, shown, next : after = inbox'[Mine(p)] /\ shown = view[p] /\ next = view'[p]
  OBVIOUS
<1>2. PICK queue \in Seq(Message), mid \in Seq(Message) :
        /\ queue = inbox[Mine(p)] /\ mid = out[Mine(p)] /\ after = inbox'[Mine(p)]
        /\ shown = view[p] /\ next = view'[p]
  BY <1>0, <1>1
<1>3. after = Tail(mid)
  BY <1>1, <1>2 DEF Taken
<1>4. (mid = queue \/ (mid = Append(queue, m) /\ m.kind = "answer")) /\ mid # <<>>
  <2>1. mid = queue \/ (mid = Append(queue, m) /\ m.kind = "answer")
    <3>1. CASE out = inbox
      BY <1>2, <3>1
    <3>2. CASE out = Sent(inbox, ids, m) /\ m.kind = "answer"
      BY <1>1, <1>2, <3>2 DEF Sent
    <3> QED BY <3>1, <3>2
  <2>2. out[Mine(p)] # <<>>
    BY <1>1, SentNotEmpty
  <2> QED BY <1>2, <2>1, <2>2
<1>5. Head(mid) = First(inbox, Mine(p))
  <2>1. First(out, Mine(p)) = First(inbox, Mine(p))
    <3>1. First(Sent(inbox, ids, m), Mine(p)) = First(inbox, Mine(p))
      BY <1>1, SentFirst
    <3> QED BY <3>1
  <2> QED BY <1>2, <2>1 DEF First
<1>6. Handles(Head(mid), shown, next)
  <2>1. Handles(First(inbox, Mine(p)), view[p], view'[p])
    BY DeliverHandles
  <2> QED BY <1>2, <1>5, <2>1
<1>7. m.kind = "answer" => \A id \in Sockets : m \notin Settling(id) /\ m \notin Mentioning(id)
  BY DEF Settling, Mentioning
<1>8. ASSUME NEW id \in Sockets, NEW d
      PROVE  /\ WillShow(queue, shown, id) => WillShow(after, next, id)
             /\ WillMiss(queue, shown, id) => WillMiss(after, next, id)
             /\ WillMatch(queue, shown, id, d) => WillMatch(after, next, id, d)
  <2>1. /\ WillShow(queue, shown, id) => WillShow(mid, shown, id)
        /\ WillMiss(queue, shown, id) => WillMiss(mid, shown, id)
        /\ WillMatch(queue, shown, id, d) => WillMatch(mid, shown, id, d)
    <3>1. CASE mid = queue
      BY <3>1
    <3>2. CASE mid = Append(queue, m) /\ m.kind = "answer"
      <4>1. m \notin Settling(id) /\ m \notin Mentioning(id)
        BY <1>7, <3>2
      <4> QED BY <3>2, <4>1, WillAppend
    <3> QED BY <1>4, <3>1, <3>2
  <2>2. /\ WillShow(mid, shown, id) => WillShow(Tail(mid), next, id)
        /\ WillMiss(mid, shown, id) => WillMiss(Tail(mid), next, id)
        /\ WillMatch(mid, shown, id, d) => WillMatch(Tail(mid), next, id, d)
    BY <1>4, <1>6, WillTail
  <2> QED BY <1>3, <2>1, <2>2
<1>9. Hears(p, queue, after, next)
  BY <1>2, <1>8 DEF Hears
<1> QED
  BY <1>9 DEF Unaffected

LEMMA SteadyUnaffected ==
  ASSUME TypeInv, PresenceInv, NEW p \in Pages, Steady(p), NEW q \in Pages, Listens(q)
  PROVE  Unaffected(q)
<1>1. Mine(q)' = Mine(q) /\ Mine(q) \in Sockets /\ owner[Mine(q)] = q /\ inbox \in [Sockets -> Seq(Message)]
  BY SteadyPages DEF Mine, Listens, PresenceInv, TypeInv, PageTypes, MailTypes
<1>2. CASE ~Deliver(p)
  <2>1. UNCHANGED view
    BY <1>2
       DEF Steady, PageStep, Button, Signals, Granted, Denied, RaiseHand, LeaveStage, ToggleMic, GoLive,
           StopLive, OpenWebcam, CloseWebcam, AnswerHand, Negotiate, AnswerSet, ConnectionFails
  <2>2. UNCHANGED inbox \/ \E ids, m : m.kind \in {"offer", "gone"} /\ inbox' = Sent(inbox, ids, m)
    <3>1. ASSUME NEW id \in Sockets, Negotiate(p, id) PROVE \E ids, m : m.kind \in {"offer", "gone"} /\ inbox' = Sent(inbox, ids, m)
      <4>1. PICK m : m = [kind |-> "offer", from |-> Mine(p), sdp |-> peers[p][id].sends]
        OBVIOUS
      <4>2. m.kind = "offer" /\ inbox' = Sent(inbox, {id}, m)
        BY <3>1, <4>1 DEF Negotiate, Relayed
      <4> QED BY <4>2
    <3>2. SteadyMail(p)
      BY SteadyInbox
    <3>3. ASSUME NEW ids, NEW m, m.kind = "gone", inbox' = Sent(inbox, ids, m)
          PROVE  \E some, a : a.kind \in {"offer", "gone"} /\ inbox' = Sent(inbox, some, a)
      BY <3>3
    <3> QED BY <1>2, <3>1, <3>2, <3>3, Zenon DEF SteadyMail
  <2>3. CASE UNCHANGED inbox
    BY <1>1, <2>1, <2>3, HearsNothing
  <2>4. ASSUME NEW ids, NEW m, m.kind \in {"offer", "gone"}, inbox' = Sent(inbox, ids, m) PROVE Unaffected(q)
    BY <1>1, <2>1, <2>4, HearsAside
  <2> QED BY <2>2, <2>3, <2>4
<1>3. CASE Deliver(p)
  <2>1. PICK out, ids, m :
          /\ out \in [Sockets -> Seq(Message)]
          /\ out = inbox \/ (out = Sent(inbox, ids, m) /\ m.kind = "answer")
          /\ inbox' = Taken(out, Mine(p))
    <3>1. inbox' = Taken(inbox, Mine(p)) \/ \E to \in Sockets : \E m, out : AnswersFirst(p, to, m, out)
      <4>1. CASE First(inbox, Mine(p)).kind = "offer"
        <5>1. PICK to : to = First(inbox, Mine(p)).from
          OBVIOUS
        <5> QED BY <1>3, <4>1, <5>1, OfferHandled DEF Ignores
      <4>2. CASE First(inbox, Mine(p)).kind # "offer"
        BY <1>3, <4>2 DEF Deliver, First, Taken
      <4> QED BY <4>1, <4>2
    <3>2. ASSUME NEW to \in Sockets, NEW m, NEW out, AnswersFirst(p, to, m, out)
          PROVE  /\ out \in [Sockets -> Seq(Message)] /\ inbox' = Taken(out, Mine(p)) /\ m.kind = "answer"
                 /\ \E ids : out = Sent(inbox, ids, m)
      BY <3>2 DEF AnswersFirst
    <3> QED BY <1>1, <3>1, <3>2
  <2>2. Connected(p) /\ Mine(p) \in Sockets /\ owner[Mine(p)] = p
    BY <1>3 DEF Deliver, PresenceInv, TypeInv, PageTypes
  <2>3. CASE q = p
    BY <1>1, <1>3, <2>1, <2>3, TakenUnaffected
  <2>4. CASE q # p
    <3>1. view'[q] = view[q] /\ Mine(q) # Mine(p)
      BY <1>1, <1>3, <2>2, <2>4, DeliverHandles
    <3>0. PICK after, next : after = inbox'[Mine(q)] /\ next = view[q]
      OBVIOUS
    <3>2. PICK queue \in Seq(Message) : queue = inbox[Mine(q)] /\ after = inbox'[Mine(q)] /\ next = view[q]
      BY <1>1, <3>0
    <3>3. after = queue \/ (after = Append(queue, m) /\ m.kind = "answer")
      BY <1>1, <2>1, <3>1, <3>2 DEF Taken, Sent
    <3>4. m.kind = "answer" => \A id \in Sockets : m \notin Settling(id) /\ m \notin Mentioning(id)
      BY DEF Settling, Mentioning
    <3>5. Hears(q, queue, after, next)
      <4>1. CASE after = queue
        BY <3>1, <3>2, <4>1 DEF Hears
      <4>2. CASE after = Append(queue, m) /\ m.kind = "answer"
        <5>1. \A id \in Sockets : m \notin Settling(id) /\ m \notin Mentioning(id)
          BY <3>4, <4>2
        <5>2. \A id \in Sockets :
                /\ WillShow(queue, next, id) => WillShow(after, next, id)
                /\ WillMiss(queue, next, id) => WillMiss(after, next, id)
                /\ \A d : WillMatch(queue, next, id, d) => WillMatch(after, next, id, d)
          <6> SUFFICES ASSUME NEW id \in Sockets, NEW d
                       PROVE  /\ WillShow(queue, next, id) => WillShow(after, next, id)
                              /\ WillMiss(queue, next, id) => WillMiss(after, next, id)
                              /\ WillMatch(queue, next, id, d) => WillMatch(after, next, id, d)
            OBVIOUS
          <6>1. queue \in Seq(Message) /\ after = Append(queue, m) /\ m \notin Settling(id) /\ m \notin Mentioning(id)
            BY <3>2, <4>2, <5>1
          <6> QED BY <6>1, WillAppend
        <5> QED BY <3>1, <3>2, <5>2 DEF Hears
      <4> QED BY <3>3, <4>1, <4>2
    <3> QED BY <1>1, <3>5 DEF Unaffected
  <2> QED BY <2>3, <2>4
<1> QED
  BY <1>2, <1>3

LEMMA SteadyViews ==
  ASSUME TypeInv, PresenceInv, ViewInv, NEW p \in Pages, Steady(p)
  PROVE  ViewInv'
<1>1. (\A id \in Sockets : Unmoved(id)) /\ Snapshots' = Snapshots /\ stale' = stale
  BY SteadyUnmoved
<1>2. ASSUME NEW q \in Pages, Listens(q)' PROVE Unaffected(q)
  <2>1. PICK k : k = Mine(q) /\ k = Mine(q)'
    BY SteadyPages DEF Mine
  <2>2. Connected(q) /\ k \in room /\ UNCHANGED room
    BY <1>2, <2>1, SteadyPages, SteadyLinks DEF Listens
  <2>3. ~Joining(k)
    <3>1. k \in Sockets /\ ~Joining(k)'
      BY <1>2, <2>1, <2>2 DEF Listens, TypeInv, ServerTypes
    <3> QED BY <1>1, <2>2, <3>1 DEF Unmoved
  <2> QED BY <2>1, <2>2, <2>3, SteadyUnaffected DEF Listens
<1> QED
  BY <1>1, <1>2, UnmovedViews

\* A new connection hears nothing before it has joined.
LEMMA ConnectsViews ==
  ASSUME TypeInv, RoomInv, ViewInv, NEW p \in Pages, NEW new \in Sockets, Connects(p, new)
  PROVE  ViewInv'
<1>1. /\ UNCHANGED <<room, data, stale, inbox, view>> /\ jobs' = jobs \cup {Job("join", new)}
      /\ new \notin room /\ page' = [page EXCEPT ![p].at = "connecting", ![p].socket = new]
  BY DEF Connects, RoomInv
<1>2. \A kind, k : Job(kind, k).kind = kind
  BY DEF Job
<1>3. Snapshots' = Snapshots
  BY <1>1, <1>2 DEF Snapshots
<1>4. ASSUME NEW id \in Sockets PROVE Unmoved(id) /\ (Joining(id)' <=> Joining(id))
  <2>1. Joining(id)' <=> Joining(id)
    <3>1. Job("joined", id) # Job("join", new)
      BY <1>2
    <3> QED BY <1>1, <3>1 DEF Joining, Job
  <2>2. Leaving(id) => Leaving(id)'
    BY <1>1 DEF Leaving, Job
  <2>3. (Raising(id) => Raising(id)') /\ Described(id)' = Described(id)
    BY <1>1 DEF Raising, Described
  <2> QED BY <1>1, <2>1, <2>2, <2>3 DEF Unmoved
<1>5. ASSUME NEW q \in Pages, Listens(q)' PROVE Unaffected(q)
  <2>1. q # p
    <3>1. Mine(p)' = new
      BY <1>1 DEF Mine, TypeInv, PageTypes, Page
    <3> QED BY <1>1, <1>5, <3>1 DEF Listens
  <2>2. Mine(q)' = Mine(q) /\ (Connected(q)' <=> Connected(q))
    BY <1>1, <2>1 DEF Mine, Connected, TypeInv, PageTypes
  <2>3. PICK k : k = Mine(q) /\ k = Mine(q)'
    BY <2>2
  <2>4. k \in room /\ ~Joining(k)'
    BY <1>1, <1>5, <2>3 DEF Listens
  <2>5. Listens(q)
    BY <1>4, <1>5, <2>2, <2>3, <2>4 DEF Listens, TypeInv, ServerTypes
  <2> QED BY <1>1, <2>2, <2>5, HearsNothing
<1> QED
  BY <1>1, <1>3, <1>4, <1>5, UnmovedViews

LEMMA DropViews ==
  ASSUME TypeInv, PresenceInv, ViewInv, NEW p \in Pages, Drop(p)
  PROVE  ViewInv'
<1>1. /\ UNCHANGED <<room, data, jobs, stale, view>> /\ page[p].at = "on"
      /\ page' = [page EXCEPT ![p].at = "dropped"]
      /\ inbox' = [inbox EXCEPT ![Mine(p)] = <<>>]
  BY DEF Drop
<1>2. Snapshots' = Snapshots
  BY <1>1 DEF Snapshots
<1>3. ASSUME NEW id \in Sockets PROVE Unmoved(id)
  BY <1>1 DEF Unmoved, Joining, Leaving, Raising, Described
<1>4. ASSUME NEW q \in Pages, Listens(q)' PROVE Unaffected(q)
  <2>1. q # p
    <3>1. page'[p].at = "dropped"
      BY <1>1 DEF TypeInv, PageTypes, Page
    <3> QED BY <1>4, <3>1 DEF Listens, Connected
  <2>2. Mine(q)' = Mine(q) /\ (Connected(q)' <=> Connected(q))
    BY <1>1, <2>1 DEF Mine, Connected, TypeInv, PageTypes
  <2>3. PICK k : k = Mine(q) /\ k = Mine(q)'
    BY <2>2
  <2>4. Listens(q)
    BY <1>1, <1>4, <2>2, <2>3 DEF Listens, Joining
  <2>5. owner[Mine(q)] = q /\ owner[Mine(p)] = p /\ Mine(q) \in Sockets
    BY <1>1, <2>4 DEF Listens, Connected, PresenceInv, TypeInv, PageTypes
  <2>6. inbox'[Mine(q)] = inbox[Mine(q)]
    BY <1>1, <2>1, <2>5 DEF TypeInv, MailTypes
  <2> QED BY <1>1, <2>2, <2>4, <2>6, HearsNothing
<1> QED
  BY <1>1, <1>2, <1>3, <1>4, UnmovedViews

\* room:leave tells the room at once.
LEMMA CloseViews ==
  ASSUME TypeInv, PresenceInv, ViewInv, NEW p \in Pages, Close(p)
  PROVE  ViewInv'
<1>0. jobs' = jobs \cup {Job("leave", Mine(p))} /\ stale' = Announced(Snapshots, TRUE)
  BY DEF Close
<1>8. Snapshots' = Snapshots
  BY <1>0 DEF Snapshots, Job
<1> SUFFICES ASSUME stale' = "no" PROVE ViewInv'
  BY <1>0, <1>8 DEF Announced, ViewInv
<1>1. PICK gone : gone = Mine(p) /\ gone \in Sockets /\ owner[gone] = p
  BY DEF Close, Connected, PresenceInv, TypeInv, PageTypes
<1>2. PICK m : m = LeftMessage(gone) /\ m \in Message /\ m.kind = "left" /\ m.from = gone
  <2>1. LeftMessage(gone) \in Message
    BY <1>1, MessagesMade
  <2>2. LeftMessage(gone).kind = "left" /\ LeftMessage(gone).from = gone
    BY DEF LeftMessage
  <2> QED BY <2>1, <2>2
<1>3. /\ UNCHANGED <<owner, data, view>> /\ room' = room \ {gone} /\ jobs' = jobs \cup {Job("leave", gone)}
      /\ stale = "no" /\ Snapshots = {}
      /\ inbox' = [Sent(inbox, room, m) EXCEPT ![gone] = <<>>]
  BY <1>0, <1>1, <1>2 DEF Close, Announced
<1>4. \A kind, k : Job(kind, k).kind = kind
  BY DEF Job
<1>5. Snapshots' = {}
  BY <1>3, <1>4 DEF Snapshots
<1>6. ASSUME NEW id \in Sockets, id # gone PROVE Unmoved(id)
  <2>1. Joining(id)' <=> Joining(id)
    <3>1. Job("joined", id) # Job("leave", gone)
      BY <1>4
    <3> QED BY <1>3, <3>1 DEF Joining, Job
  <2>2. Leaving(id) => Leaving(id)'
    BY <1>3 DEF Leaving, Job
  <2>3. (Raising(id) => Raising(id)') /\ Described(id)' = Described(id)
    BY <1>3 DEF Raising, Described
  <2> QED BY <1>3, <1>6, <2>1, <2>2, <2>3 DEF Unmoved
<1>7. ASSUME NEW q \in Pages, Listens(q)' PROVE Accurate(q)'
  <2>1. q # p
    <3>1. page'[p].at = "closed"
      BY DEF Close, TypeInv, PageTypes, Page
    <3> QED BY <1>7, <3>1 DEF Listens, Connected
  <2>2. Mine(q)' = Mine(q) /\ (Connected(q)' <=> Connected(q))
    BY <2>1 DEF Close, Mine, Connected, TypeInv, PageTypes
  <2>3. PICK k : k = Mine(q) /\ k = Mine(q)'
    BY <2>2
  <2>4. Connected(q) /\ k \in Sockets /\ k # gone /\ k \in room /\ link[k] = "up"
    BY <1>1, <1>3, <1>7, <2>1, <2>2, <2>3 DEF Listens, PresenceInv, TypeInv, PageTypes
  <2>5. ~Joining(k)
    <3>1. ~Joining(k)'
      BY <1>7, <2>3 DEF Listens
    <3> QED BY <1>3, <2>3, <3>1 DEF Joining, Job
  <2>6. Accurate(q)
    BY <1>3, <2>3, <2>4, <2>5 DEF ViewInv, Listens
  <2>7. inbox \in [Sockets -> Seq(Message)]
    BY DEF TypeInv, MailTypes
  <2>8. PICK after, shown : after = inbox'[k] /\ shown = view[q]
    OBVIOUS
  <2>9. PICK queue \in Seq(Message) : queue = inbox[k] /\ after = inbox'[k] /\ shown = view[q]
    BY <2>4, <2>7, <2>8
  <2>10. after = Append(queue, m)
    BY <1>3, <2>4, <2>7, <2>9 DEF Sent
  <2>11. ASSUME NEW id \in Sockets PROVE RightFor(after, shown, id)'
    <3>1. CASE id # gone
      <4>1. m \notin Settling(id) /\ m \notin Mentioning(id)
        BY <1>2, <3>1 DEF Settling, Mentioning
      <4>2. /\ WillShow(queue, shown, id) => WillShow(after, shown, id)
            /\ WillMiss(queue, shown, id) => WillMiss(after, shown, id)
        BY <2>10, <4>1, WillAppend
      <4>3. \A d : WillMatch(queue, shown, id, d) => WillMatch(after, shown, id, d)
        BY <2>10, <4>1, WillAppend
      <4>4. RightFor(queue, shown, id) /\ Unmoved(id)
        BY <1>6, <2>3, <2>6, <2>9, <3>1 DEF Accurate
      <4> QED BY <4>2, <4>3, <4>4, UnmovedRight
    <3>2. CASE id = gone
      <4>1. m \in Removing(id) /\ \A d : m \in Telling(id, d)
        BY <1>2, <3>2 DEF Removing, Telling, Settling, Mentioning, Told
      <4>2. WillMiss(after, shown, id)
        BY <2>10, <4>1, WillAppend
      <4>3. \A d : WillMatch(after, shown, id, d)
        BY <2>10, <4>1, WillAppend
      <4>4. WillMatch(after, shown, id, Described(id)')
        BY <4>3
      <4> QED BY <1>3, <3>2, <4>2, <4>4 DEF RightFor
    <3> QED BY <3>1, <3>2
  <2> QED BY <1>3, <2>3, <2>9, <2>11 DEF Accurate
<1> QED
  BY <1>5, <1>7 DEF ViewInv

LEMMA PageStepViews ==
  ASSUME TypeInv, PresenceInv, RoomInv, ViewInv, NEW p \in Pages, PageStep(p)
  PROVE  ViewInv'
BY SteadyViews, ConnectsViews, DropViews, CloseViews DEF Steady, Visit, Reconnect

LEMMA InitViews == Init => ViewInv
<1> SUFFICES ASSUME Init PROVE ViewInv
  OBVIOUS
<1>1. Snapshots = {} /\ \A p \in Pages : page[p].at = "away"
  BY DEF Init, ServerInit, Snapshots, NewPage
<1> QED
  BY <1>1 DEF ViewInv, Listens, Connected

LEMMA NextViews ==
  TypeInv /\ AdmissionInv /\ PresenceInv /\ RoomInv /\ ViewInv /\ [Next]_vars => ViewInv'
<1> SUFFICES ASSUME TypeInv, AdmissionInv, PresenceInv, RoomInv, ViewInv, [Next]_vars PROVE ViewInv'
  OBVIOUS
<1>1. CASE UNCHANGED vars
  BY <1>1 DEF vars, serverVars, pageVars, ViewInv, Snapshots, SnapshotRightFor, Listens, Accurate, RightFor,
              Joining, Leaving, Raising, Described, Connected, Mine
<1>2. ASSUME NEW j \in jobs, HandlerStep(j), UNCHANGED pageVars PROVE ViewInv'
  BY <1>2, HandlerViews
<1>3. ASSUME NEW id \in Sockets, Noticed(id) PROVE ViewInv'
  BY <1>3, NoticedViews
<1>4. ASSUME NEW p \in Pages, PageStep(p) PROVE ViewInv'
  BY <1>4, PageStepViews
<1> QED
  BY <1>1, <1>2, <1>3, <1>4 DEF Next

LEMMA ViewsAlways ==
  Spec => [](TypeInv /\ AdmissionInv /\ PresenceInv /\ RoomInv /\ ViewInv)
<1>1. TypeInv /\ AdmissionInv /\ PresenceInv /\ RoomInv /\ ViewInv /\ [Next]_vars => ViewInv'
  BY NextViews
<1> QED
  BY <1>1, InitViews, RoomAlways, PTL DEF Spec

\* Once everything has arrived, every page of the class shows those who are in
\* the room, as the server knows them, whatever joined, left, was closed or lost
\* its connection; where an announcement overtook a snapshot or came too late,
\* from the next snapshot on that no announcement overtook (room:join, disconnect
\* and emitState of server.ts, the room:* handlers of useLiveRoom.ts).
THEOREM ViewsMeet == Spec => []ViewsAgree
<1>1. TypeInv /\ AdmissionInv /\ PresenceInv /\ RoomInv /\ ViewInv => ViewsAgree
  <2> SUFFICES ASSUME TypeInv, AdmissionInv, PresenceInv, RoomInv, ViewInv, Settled, stale = "no", NEW p \in Class
               PROVE  view[p] = {Described(id) : id \in {x \in room : link[x] = "up"}}
    BY DEF ViewsAgree
  <2>1. p \in Pages /\ page[p].at = "on" /\ Mine(p) \in Sockets /\ Mine(p) \in room
    BY InTheRoom DEF Class
  <2>2. /\ jobs = {} /\ inbox[Mine(p)] = <<>> /\ room \subseteq Sockets
        /\ \A id \in room : link[id] = "up"
    BY <2>1 DEF Settled, Quiet, RoomInv, TypeInv, ServerTypes
  <2>3. Snapshots = {} /\ \A id : ~Joining(id) /\ ~Leaving(id) /\ ~Raising(id)
    BY <2>2 DEF Snapshots, Joining, Leaving, Raising
  <2>4. Accurate(p)
    BY <2>1, <2>3 DEF ViewInv, Listens, Connected
  <2>5. \A about, good : ~Latest(<<>>, about, good)
    BY DEF Latest
  <2>6. ASSUME NEW id \in Sockets
        PROVE  /\ id \in room => Showing(view[p], id)
               /\ id \notin room => Missing(view[p], id)
               /\ Matching(view[p], id, Described(id))
    <3>1. RightFor(<<>>, view[p], id)
      BY <2>2, <2>4 DEF Accurate
    <3> QED BY <2>3, <2>5, <3>1 DEF RightFor, WillShow, WillMiss, WillMatch
  <2>7. view[p] \subseteq Participant
    BY <2>1 DEF TypeInv, PageTypes, Roster
  <2>8. ASSUME NEW x \in view[p] PROVE x.id \in room /\ x = Described(x.id)
    <3>1. x.id \in Sockets
      BY <2>7 DEF Participant
    <3> QED BY <2>6, <3>1 DEF Missing, Matching
  <2>9. ASSUME NEW id \in room PROVE Described(id) \in view[p]
    BY <2>2, <2>6 DEF Showing, Matching
  <2> QED BY <2>2, <2>8, <2>9
<1> QED
  BY <1>1, ViewsAlways, PTL

=============================================================================
