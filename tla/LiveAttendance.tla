--------------------------- MODULE LiveAttendance ---------------------------
(***************************************************************************)
(* The attendance rows of the live classroom: what room:join, room:leave   *)
(* and disconnect of live/server.ts write, in handlers of one socket that  *)
(* interleave wherever they await, and the recovery at boot, which is not  *)
(* awaited and so runs beside the first joins.                             *)
(*                                                                         *)
(* A socket is one connection: a browser that connects again is another    *)
(* one.  The client emits room:join once it is connected, and again only   *)
(* for another session when the join before was acknowledged; it emits     *)
(* room:leave at most once and then disconnects.  So <<s, x>> names the    *)
(* row that socket s opens for session x.                                  *)
(***************************************************************************)
EXTENDS Naturals

CONSTANTS
  Sockets,
  Sessions,
  Row,      \* which sessions a socket's browser visits: the rows there can be
  MaxFaults \* bound on process deaths and failing writes

None == "none"

ASSUME AttendanceAssumption ==
  /\ MaxFaults \in Nat
  /\ None \notin Sessions
  /\ Row \subseteq Sockets \X Sessions

VARIABLES
  rows,     \* table "SessionAttendance": of a row, only what leftAt says
  conn,     \* the connections
  joined,   \* socket.data.joinedSessionId
  att,      \* socket.data.attendanceId, by the session of the row
  join,     \* the room:join handler of a socket, at one of its awaits
  leave,    \* the room:leave handler
  bye,      \* the disconnect handler
  dead,     \* history: sockets whose process died
  lost,     \* history: rows whose closing was missed
  recovery, \* recoverOpenAttendance of this process
  faults

data == <<joined, att>>
handlers == <<join, leave, bye>>
history == <<dead, lost>>
vars == <<rows, conn, data, handlers, history, recovery, faults>>

\* "zero": leftAt = joinedAt, a stint of no length.
LeftAt == {"absent", "open", "left", "zero"}

JoinPC == {"idle", "checking", "switching", "switched", "inserting", "inserted"}
EndPC == {"unsent", "closing", "closed", "done"}
Ending == [pc : EndPC, of : Sessions \cup {None}]

TypeOK ==
  /\ rows \in [Row -> LeftAt]
  /\ conn \in [Sockets -> {"new", "up", "gone"}]
  /\ joined \in [Sockets -> Sessions \cup {None}]
  /\ att \in [Sockets -> Sessions \cup {None}]
  /\ join \in [Sockets -> [pc : JoinPC, to : Sessions \cup {None}, of : Sessions \cup {None}]]
  /\ leave \in [Sockets -> Ending]
  /\ bye \in [Sockets -> Ending]
  /\ dead \subseteq Sockets
  /\ lost \subseteq Row
  /\ recovery \in {"running", "done"}
  /\ faults \in Nat

Init ==
  /\ rows = [r \in Row |-> "absent"]
  /\ conn = [s \in Sockets |-> "new"]
  /\ joined = [s \in Sockets |-> None]
  /\ att = [s \in Sockets |-> None]
  /\ join = [s \in Sockets |-> [pc |-> "idle", to |-> None, of |-> None]]
  /\ leave = [s \in Sockets |-> [pc |-> "unsent", of |-> None]]
  /\ bye = [s \in Sockets |-> [pc |-> "unsent", of |-> None]]
  /\ dead = {}
  /\ lost = {}
  /\ recovery = "running"
  /\ faults = 0

Fault == faults < MaxFaults /\ faults' = faults + 1

JoinAt(s, pc) == join[s].pc = pc
JoinGoto(s, pc) == join' = [join EXCEPT ![s].pc = pc]
JoinInFlight(s) == ~ JoinAt(s, "idle")

-----------------------------------------------------------------------------
(* closeAttendance: the update looks at the id alone, and a failing one is  *)
(* logged and forgotten.                                                    *)

\* Mutant: an end that is there is not overwritten.
CloseWritesOnce(s, x) ==
  /\ rows' = [rows EXCEPT ![<<s, x>>] = IF @ = "open" THEN "left" ELSE @]
  /\ UNCHANGED <<lost, faults>>

CloseWrites(s, x) ==
  /\ rows' = [rows EXCEPT ![<<s, x>>] = "left"]
  /\ UNCHANGED <<lost, faults>>

CloseFails(s, x) ==
  /\ Fault
  /\ lost' = lost \cup {<<s, x>>}
  /\ UNCHANGED rows

Close(s, x) == CloseWrites(s, x) \/ CloseFails(s, x)

-----------------------------------------------------------------------------
(* room:join.                                                               *)

\* The client joins as soon as it is connected.
Join(s, x) ==
  /\ conn[s] # "gone"
  /\ JoinAt(s, "idle")
  /\ leave[s].pc = "unsent"
  /\ <<s, x>> \in Row
  /\ join[s].to # x
  /\ rows[<<s, x>>] = "absent"
  /\ conn' = [conn EXCEPT ![s] = "up"]
  /\ join' = [join EXCEPT ![s] = [pc |-> "checking", to |-> x, of |-> None]]
  /\ UNCHANGED <<rows, data, leave, bye, history, recovery, faults>>

\* Not a member, or not the session's code.
JoinRefused(s) ==
  /\ JoinAt(s, "checking")
  /\ JoinGoto(s, "idle")
  /\ UNCHANGED <<rows, conn, data, leave, bye, history, recovery, faults>>

\* joinedSessionId, then on to the insert.
Seat(s) ==
  /\ joined' = [joined EXCEPT ![s] = join[s].to]
  /\ JoinGoto(s, "inserting")

\* Mutant: the row of the session before is left to the disconnect.
JoinChecksOnly(s) ==
  /\ JoinAt(s, "checking")
  /\ Seat(s)
  /\ UNCHANGED <<rows, conn, att, leave, bye, history, recovery, faults>>

\* Coming from another session, that one's row is closed first: its id is
\* taken here, and a leave that clears it meanwhile does not stop the update.
JoinChecks(s) ==
  /\ JoinAt(s, "checking")
  /\ IF joined[s] \notin {None, join[s].to} /\ att[s] # None
     THEN /\ join' = [join EXCEPT ![s].pc = "switching", ![s].of = att[s]]
          /\ UNCHANGED data
     ELSE Seat(s) /\ UNCHANGED att
  /\ UNCHANGED <<rows, conn, leave, bye, history, recovery, faults>>

JoinCloses(s) ==
  /\ JoinAt(s, "switching")
  /\ JoinGoto(s, "switched")
  /\ Close(s, join[s].of)
  /\ UNCHANGED <<conn, data, leave, bye, dead, recovery>>

JoinSwitches(s) ==
  /\ JoinAt(s, "switched")
  /\ att' = [att EXCEPT ![s] = None]
  /\ Seat(s)
  /\ UNCHANGED <<rows, conn, leave, bye, history, recovery, faults>>

\* The insert has happened; the handler has not heard of it.
JoinInserts(s) ==
  /\ JoinAt(s, "inserting")
  /\ rows' = [rows EXCEPT ![<<s, join[s].to>>] = "open"]
  /\ JoinGoto(s, "inserted")
  /\ UNCHANGED <<conn, data, leave, bye, history, recovery, faults>>

JoinInsertFails(s) ==
  /\ JoinAt(s, "inserting")
  /\ Fault
  /\ JoinGoto(s, "idle")
  /\ UNCHANGED <<rows, conn, data, leave, bye, history, recovery>>

JoinDone(s) ==
  /\ JoinAt(s, "inserted")
  /\ att' = [att EXCEPT ![s] = join[s].to]
  /\ JoinGoto(s, "idle")
  /\ UNCHANGED <<rows, conn, joined, leave, bye, history, recovery, faults>>

-----------------------------------------------------------------------------
(* room:leave and disconnect.                                               *)

\* Mutant: closeAttendance without its early return.
TakenBlindly(s) == [pc |-> "closing", of |-> att[s]]

\* Both take the row's id before they await, and clear it after; without
\* one they do not wait for anything.
Taken(s) == [pc |-> IF att[s] = None THEN "done" ELSE "closing", of |-> att[s]]

\* joinedSessionId after room:leave of the session the browser shows.
Left(s) == IF joined[s] = join[s].to THEN None ELSE joined[s]

Leave(s) ==
  /\ conn[s] = "up"
  /\ leave[s].pc = "unsent"
  /\ leave' = [leave EXCEPT ![s] = Taken(s)]
  /\ joined' = [joined EXCEPT ![s] = IF att[s] = None THEN Left(s) ELSE @]
  /\ UNCHANGED <<rows, conn, att, join, bye, history, recovery, faults>>

LeaveCloses(s) ==
  /\ leave[s].pc = "closing"
  /\ leave' = [leave EXCEPT ![s].pc = "closed"]
  /\ Close(s, leave[s].of)
  /\ UNCHANGED <<conn, data, join, bye, dead, recovery>>

\* The id is cleared, also when it has become that of another row.
LeaveDone(s) ==
  /\ leave[s].pc = "closed"
  /\ leave' = [leave EXCEPT ![s].pc = "done"]
  /\ att' = [att EXCEPT ![s] = None]
  /\ joined' = [joined EXCEPT ![s] = Left(s)]
  /\ lost' = IF att[s] \in {None, leave[s].of} THEN lost ELSE lost \cup {<<s, att[s]>>}
  /\ UNCHANGED <<rows, conn, join, bye, dead, recovery, faults>>

\* The tab is closed, the page left, or the network lost.  A join still under
\* way will open its row after this.
Disconnect(s) ==
  /\ conn[s] = "up"
  /\ conn' = [conn EXCEPT ![s] = "gone"]
  /\ bye' = [bye EXCEPT ![s] = Taken(s)]
  /\ lost' = IF JoinInFlight(s) THEN lost \cup {<<s, join[s].to>>} ELSE lost
  /\ UNCHANGED <<rows, data, join, leave, dead, recovery, faults>>

\* Mutant: a row that room:leave is closing is left to it.
ByeClosesUnlessLeft(s) ==
  /\ bye[s].pc = "closing"
  /\ bye' = [bye EXCEPT ![s].pc = "closed"]
  /\ IF leave[s].pc = "unsent" THEN Close(s, bye[s].of) ELSE UNCHANGED <<rows, lost, faults>>
  /\ UNCHANGED <<conn, data, join, leave, dead, recovery>>

ByeCloses(s) ==
  /\ bye[s].pc = "closing"
  /\ bye' = [bye EXCEPT ![s].pc = "closed"]
  /\ Close(s, bye[s].of)
  /\ UNCHANGED <<conn, data, join, leave, dead, recovery>>

ByeDone(s) ==
  /\ bye[s].pc = "closed"
  /\ bye' = [bye EXCEPT ![s].pc = "done"]
  /\ att' = [att EXCEPT ![s] = None]
  /\ UNCHANGED <<rows, conn, joined, join, leave, history, recovery, faults>>

-----------------------------------------------------------------------------
(* The process.                                                             *)

\* The sockets of the process die with it, and its handlers.
Crash ==
  /\ Fault
  /\ LET died == {s \in Sockets : conn[s] # "new"}
         Stopped(h, pc) == [s \in Sockets |-> IF s \in died THEN [h[s] EXCEPT !.pc = pc] ELSE h[s]]
     IN /\ dead' = dead \cup died
        /\ conn' = [s \in Sockets |-> IF s \in died THEN "gone" ELSE "new"]
        /\ join' = Stopped(join, "idle")
        /\ leave' = Stopped(leave, "done")
        /\ bye' = Stopped(bye, "done")
  /\ recovery' = "running"
  /\ UNCHANGED <<rows, data, lost>>

\* Mutant: not while anybody is connected.
RecoverAlone ==
  /\ recovery = "running"
  /\ \A s \in Sockets : conn[s] # "up"
  /\ rows' = [r \in Row |-> IF rows[r] = "open" THEN "zero" ELSE rows[r]]
  /\ recovery' = "done"
  /\ UNCHANGED <<conn, data, handlers, history, faults>>

\* UPDATE ... SET "leftAt" = "joinedAt" WHERE "leftAt" IS NULL, which takes
\* the rows of sockets that have joined since for rows left behind.
Recover ==
  /\ recovery = "running"
  /\ rows' = [r \in Row |-> IF rows[r] = "open" THEN "zero" ELSE rows[r]]
  /\ recovery' = "done"
  /\ UNCHANGED <<conn, data, handlers, history, faults>>

RecoverFails ==
  /\ recovery = "running"
  /\ Fault
  /\ recovery' = "done"
  /\ lost' = lost \cup {r \in Row : r[1] \in dead}
  /\ UNCHANGED <<rows, conn, data, handlers, dead>>

-----------------------------------------------------------------------------
JoinStep(s) ==
  \/ JoinRefused(s) \/ JoinChecks(s) \/ JoinCloses(s) \/ JoinSwitches(s)
  \/ JoinInserts(s) \/ JoinInsertFails(s) \/ JoinDone(s)

EndStep(s) == LeaveCloses(s) \/ LeaveDone(s) \/ ByeCloses(s) \/ ByeDone(s)

SocketStep(s) ==
  \/ \E x \in Sessions : Join(s, x)
  \/ Leave(s) \/ Disconnect(s)
  \/ JoinStep(s) \/ EndStep(s)

Next == (\E s \in Sockets : SocketStep(s)) \/ Crash \/ Recover \/ RecoverFails

Spec == Init /\ [][Next]_vars

\* The event loop goes on with a handler whose await is over, and every
\* query returns or throws.
Fairness ==
  /\ WF_vars(Recover)
  /\ \A s \in Sockets : WF_vars(JoinStep(s)) /\ WF_vars(EndStep(s))

FairSpec == Spec /\ Fairness

-----------------------------------------------------------------------------
(* The properties.                                                          *)

\* The row is in somebody's hands: the socket's until its disconnect handler
\* is through, a handler's that will write to it, or the recovery's.
InHand(s, x) ==
  \/ att[s] = x /\ bye[s].pc # "done"
  \/ JoinAt(s, "inserted") /\ join[s].to = x
  \/ \E e \in {leave[s], bye[s]} : e.pc = "closing" /\ e.of = x
  \/ s \in dead /\ recovery = "running"

\* An open row has somebody who will close it, in every interleaving of a
\* socket's handlers, but for a join overtaken by a leave or the end of its
\* connection and for writes that failed.
OpenRowsAreInHand ==
  \A r \in Row : rows[r] = "open" => InHand(r[1], r[2]) \/ r \in lost

\* A stint ended by its own socket has its real end, even if the recovery at
\* boot took it for one left behind.
StintsKeepTheirEnd ==
  \A r \in Row \ lost :
    bye[r[1]].pc = "done" /\ r[1] \notin dead => rows[r] \in {"absent", "left"}

\* A socket is counted in one session at a time.
OneStintAtATime ==
  \A q, r \in Row \ lost :
    q[1] = r[1] /\ rows[q] = "open" /\ rows[r] = "open" => q = r

\* The row of a connection that is gone is closed, by its handlers or at the
\* next boot, unless its closing was missed.
RowsGetClosed ==
  \A r \in Row :
    conn[r[1]] = "gone" /\ rows[r] = "open" ~> rows[r] # "open" \/ r \in lost
=============================================================================
