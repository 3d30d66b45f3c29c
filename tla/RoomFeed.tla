------------------------------ MODULE RoomFeed ------------------------------
(***************************************************************************)
(* The questions of a live classroom: the handlers of live/server.ts that  *)
(* save and announce them, and the list each browser builds from what it   *)
(* is told (useLiveRoom.ts).  A browser hears of a question up to four     *)
(* times: from the announcement, the announcement of an answer, the        *)
(* backlog it is sent after joining, and the history it fetches over HTTP. *)
(* Questions asked on the session's page are saved over HTTP and announced *)
(* to nobody.                                                              *)
(*                                                                         *)
(* The chat goes the same way, with messages that are never answered.      *)
(***************************************************************************)
EXTENDS Naturals, Sequences, FiniteSets

CONSTANTS
  Viewers,      \* browsers, each with the room's page open
  Items,        \* ids of question rows, numbered in order of createdAt
  MaxAnswers,   \* bound: how often one question is answered
  HistoryLimit, \* "take" of the backlog and history queries
  MaxFaults     \* bound on lost connections, restarts and failing queries

ASSUME FeedAssumption ==
  /\ IsFiniteSet(Items) /\ Items = 1 .. Cardinality(Items)
  /\ MaxAnswers \in Nat
  /\ HistoryLimit \in Nat
  /\ MaxFaults \in Nat

VARIABLES
  rows,    \* table "SessionQuestion": 0 is no row, 1 asked, n + 1 answered n times
  posted,  \* history: the questions saved over HTTP
  asks,    \* question:ask handlers between the insert and the emit
  answers, \* question:answer handlers between the update and the emit
  seat,    \* where the server is with a viewer's socket
  backlog, \* the rows a room:join handler has read
  rest,    \* the viewer's GET of the history
  inbox,   \* what was emitted to the viewer's socket and has not arrived
  list,    \* the questions the viewer's browser shows
  faults

vars == <<rows, posted, asks, answers, seat, backlog, rest, inbox, list, faults>>

\* What is sent and shown of a question: its id, and how often it was
\* answered by then.
Question == [id : Items, version : 1 .. MaxAnswers + 1]
Message == [kind : {"new", "answered", "history"}, questions : Seq(Question)]

\* "off": no connection.  "entered": in the socket.io room, backlog not yet
\* read.  "unserved": the backlog query failed.
Seat == {"off", "entered", "read", "seated", "unserved"}

TypeOK ==
  /\ rows \in [Items -> 0 .. MaxAnswers + 1]
  /\ posted \subseteq Items
  /\ asks \subseteq Items \ posted
  /\ answers \subseteq [id : Items, version : 2 .. MaxAnswers + 1]
  /\ seat \in [Viewers -> Seat]
  /\ backlog \in [Viewers -> Seq(Question)]
  /\ rest \in [Viewers -> [pc : {"new", "answered", "done"}, questions : Seq(Question)]]
  /\ inbox \in [Viewers -> Seq(Message)]
  /\ list \in [Viewers -> Seq(Question)]
  /\ faults \in Nat

Init ==
  /\ rows = [i \in Items |-> 0]
  /\ posted = {}
  /\ asks = {}
  /\ answers = {}
  /\ seat = [v \in Viewers |-> "off"]
  /\ backlog = [v \in Viewers |-> <<>>]
  /\ rest = [v \in Viewers |-> [pc |-> "new", questions |-> <<>>]]
  /\ inbox = [v \in Viewers |-> <<>>]
  /\ list = [v \in Viewers |-> <<>>]
  /\ faults = 0

Fault == faults < MaxFaults /\ faults' = faults + 1

-----------------------------------------------------------------------------
(* The server.                                                              *)

\* Mutant: the room is entered once the backlog has been sent.
InRoomLate(v) == seat[v] = "seated"

InRoom(v) == seat[v] # "off"

\* io.to(room).emit
Broadcast(kind, question) ==
  inbox' = [v \in Viewers |->
              IF InRoom(v)
              THEN Append(inbox[v], [kind |-> kind, questions |-> <<question>>])
              ELSE inbox[v]]

\* createdAt: the row is younger than all others.
Youngest(i) ==
  /\ rows[i] = 0
  /\ \A j \in Items : j < i => rows[j] # 0

\* question:ask saves the question ...
Ask(i) ==
  /\ Youngest(i)
  /\ rows' = [rows EXCEPT ![i] = 1]
  /\ asks' = asks \cup {i}
  /\ UNCHANGED <<posted, answers, seat, backlog, rest, inbox, list, faults>>

\* ... and announces it once the insert has returned.
Announce(i) ==
  /\ i \in asks
  /\ Broadcast("new", [id |-> i, version |-> 1])
  /\ asks' = asks \ {i}
  /\ UNCHANGED <<rows, posted, answers, seat, backlog, rest, list, faults>>

\* POST .../questions: saved, and that is all.
Post(i) ==
  /\ Youngest(i)
  /\ rows' = [rows EXCEPT ![i] = 1]
  /\ posted' = posted \cup {i}
  /\ UNCHANGED <<asks, answers, seat, backlog, rest, inbox, list, faults>>

\* Mutant: the update of a row that is not there is not an error.
AnswerUnasked(i) ==
  /\ rows[i] <= MaxAnswers
  /\ rows' = [rows EXCEPT ![i] = @ + 1]
  /\ answers' = answers \cup {[id |-> i, version |-> rows[i] + 1]}
  /\ UNCHANGED <<posted, asks, seat, backlog, rest, inbox, list, faults>>

\* question:answer overwrites the answer of the row ...
Answer(i) ==
  /\ rows[i] \in 1 .. MaxAnswers
  /\ rows' = [rows EXCEPT ![i] = @ + 1]
  /\ answers' = answers \cup {[id |-> i, version |-> rows[i] + 1]}
  /\ UNCHANGED <<posted, asks, seat, backlog, rest, inbox, list, faults>>

\* ... and announces the row the update returned.
AnnounceAnswer(a) ==
  /\ a \in answers
  /\ Broadcast("answered", a)
  /\ answers' = answers \ {a}
  /\ UNCHANGED <<rows, posted, asks, seat, backlog, rest, list, faults>>

\* orderBy createdAt asc, take HistoryLimit: the oldest rows.
Oldest ==
  LET known == {i \in Items : rows[i] # 0 /\ i <= HistoryLimit}
  IN [i \in 1 .. Cardinality(known) |-> [id |-> i, version |-> rows[i]]]

\* room:join up to socket.join: from here on the socket gets what is
\* broadcast to the room.  (A browser the join refuses is no viewer.)
Enter(v) ==
  /\ seat[v] = "off"
  /\ seat' = [seat EXCEPT ![v] = "entered"]
  /\ UNCHANGED <<rows, posted, asks, answers, backlog, rest, inbox, list, faults>>

\* Mutant: the backlog is for browsers that show nothing yet.
ReadBacklogOnce(v) ==
  /\ seat[v] = "entered"
  /\ list[v] = <<>>
  /\ backlog' = [backlog EXCEPT ![v] = Oldest]
  /\ seat' = [seat EXCEPT ![v] = "read"]
  /\ UNCHANGED <<rows, posted, asks, answers, rest, inbox, list, faults>>

ReadBacklog(v) ==
  /\ seat[v] = "entered"
  /\ backlog' = [backlog EXCEPT ![v] = Oldest]
  /\ seat' = [seat EXCEPT ![v] = "read"]
  /\ UNCHANGED <<rows, posted, asks, answers, rest, inbox, list, faults>>

\* A failing query is logged and leaves the joiner without a backlog.
BacklogFails(v) ==
  /\ seat[v] = "entered"
  /\ Fault
  /\ seat' = [seat EXCEPT ![v] = "unserved"]
  /\ UNCHANGED <<rows, posted, asks, answers, backlog, rest, inbox, list>>

\* socket.emit("question:history")
PushBacklog(v) ==
  /\ seat[v] = "read"
  /\ inbox' = [inbox EXCEPT ![v] = Append(@, [kind |-> "history", questions |-> backlog[v]])]
  /\ backlog' = [backlog EXCEPT ![v] = <<>>]
  /\ seat' = [seat EXCEPT ![v] = "seated"]
  /\ UNCHANGED <<rows, posted, asks, answers, rest, list, faults>>

\* GET .../questions is answered.
RestRead(v) ==
  /\ rest[v].pc = "new"
  /\ rest' = [rest EXCEPT ![v] = [pc |-> "answered", questions |-> Oldest]]
  /\ UNCHANGED <<rows, posted, asks, answers, seat, backlog, inbox, list, faults>>

\* The connection breaks: what was under way on it is lost, the page stays.
Drop(v) ==
  /\ InRoom(v)
  /\ Fault
  /\ seat' = [seat EXCEPT ![v] = "off"]
  /\ backlog' = [backlog EXCEPT ![v] = <<>>]
  /\ inbox' = [inbox EXCEPT ![v] = <<>>]
  /\ UNCHANGED <<rows, posted, asks, answers, rest, list>>

\* The process dies with its handlers and sockets and is started again.
Restart ==
  /\ Fault
  /\ asks' = {}
  /\ answers' = {}
  /\ seat' = [v \in Viewers |-> "off"]
  /\ backlog' = [v \in Viewers |-> <<>>]
  /\ inbox' = [v \in Viewers |-> <<>>]
  /\ UNCHANGED <<rows, posted, rest, list>>

-----------------------------------------------------------------------------
(* The browser.                                                             *)

Ids(questions) == {questions[k].id : k \in DOMAIN questions}

\* Of a list what is at places, in its order.
Before(k, places) == Cardinality({j \in places : j < k})
Pick(places, questions) ==
  [n \in 1 .. Cardinality(places) |->
     questions[CHOOSE k \in places : Before(k, places) = n - 1]]

\* mergeById: what comes in, then what is left of what was there.
MergeById(incoming, existing) ==
  LET left == {k \in DOMAIN existing : existing[k].id \notin Ids(incoming)}
  IN incoming \o Pick(left, existing)

\* question:new
Add(question, shown) ==
  IF question.id \in Ids(shown) THEN shown ELSE Append(shown, question)

\* question:answered
Update(question, shown) ==
  IF question.id \in Ids(shown)
  THEN [k \in DOMAIN shown |-> IF shown[k].id = question.id THEN question ELSE shown[k]]
  ELSE Append(shown, question)

Receive(v) ==
  /\ inbox[v] # <<>>
  /\ LET m == Head(inbox[v])
     IN list' = [list EXCEPT ![v] =
                   CASE m.kind = "history"  -> MergeById(m.questions, @)
                     [] m.kind = "new"      -> Add(Head(m.questions), @)
                     [] m.kind = "answered" -> Update(Head(m.questions), @)]
  /\ inbox' = [inbox EXCEPT ![v] = Tail(@)]
  /\ UNCHANGED <<rows, posted, asks, answers, seat, backlog, rest, faults>>

RestArrives(v) ==
  /\ rest[v].pc = "answered"
  /\ list' = [list EXCEPT ![v] = MergeById(rest[v].questions, @)]
  /\ rest' = [rest EXCEPT ![v] = [pc |-> "done", questions |-> <<>>]]
  /\ UNCHANGED <<rows, posted, asks, answers, seat, backlog, inbox, faults>>

\* The request fails, or its answer is lost: "non-fatal".
RestFails(v) ==
  /\ rest[v].pc # "done"
  /\ rest' = [rest EXCEPT ![v] = [pc |-> "done", questions |-> <<>>]]
  /\ UNCHANGED <<rows, posted, asks, answers, seat, backlog, inbox, list, faults>>

-----------------------------------------------------------------------------
ServerStep ==
  \/ \E i \in Items : Ask(i) \/ Post(i) \/ Announce(i) \/ Answer(i)
  \/ \E a \in answers : AnnounceAnswer(a)
  \/ Restart

ViewerStep(v) ==
  \/ Enter(v) \/ ReadBacklog(v) \/ BacklogFails(v) \/ PushBacklog(v) \/ Drop(v)
  \/ RestRead(v) \/ RestArrives(v) \/ RestFails(v) \/ Receive(v)

Next == ServerStep \/ \E v \in Viewers : ViewerStep(v)

Spec == Init /\ [][Next]_vars

\* A handler that has begun goes on, the connections deliver, and a browser
\* whose connection is lost connects again ("reconnection: true").
Fairness ==
  /\ WF_vars(\E i \in Items : Announce(i))
  /\ WF_vars(\E a \in answers : AnnounceAnswer(a))
  /\ \A v \in Viewers :
       WF_vars(Enter(v)) /\ WF_vars(ReadBacklog(v)) /\ WF_vars(PushBacklog(v))
         /\ WF_vars(Receive(v))

FairSpec == Spec /\ Fairness

-----------------------------------------------------------------------------
\* A browser shows no question twice, whichever of the four ways brought it.
NoDuplicates ==
  \A v \in Viewers : Cardinality(Ids(list[v])) = Len(list[v])

\* Nothing is missed: when all that was announced has arrived, a viewer
\* whose join went through shows every question asked in the room, also those
\* from before it joined, while it was joining, and while its connection
\* was lost.  (The room is entered before the backlog is read.)
NothingMissed ==
  \A v \in Viewers :
    seat[v] = "seated" /\ inbox[v] = <<>> /\ asks = {} =>
      \A i \in Items \ posted : rows[i] # 0 => i \in Ids(list[v])

\* The list has every question it should, and once.
ListIsWhole == NoDuplicates /\ NothingMissed

\* Every question asked in the room reaches every viewer whose backlog query did not fail.
EveryoneSees ==
  \A v \in Viewers, i \in Items :
    rows[i] # 0 /\ i \notin posted ~> i \in Ids(list[v]) \/ seat[v] = "unserved"
=============================================================================
