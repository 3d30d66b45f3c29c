------------------------ MODULE LiveAttendanceProofs ------------------------
(***************************************************************************)
(* The properties of the attendance rows, for any sockets, sessions and    *)
(* rows, and any number of faults.                                         *)
(*                                                                         *)
(* None of them is inductive.  What carries them is said of one socket at  *)
(* a time: where its handlers are, which rows they have taken, and that a  *)
(* row that has not got its real end is held by the socket itself.         *)
(***************************************************************************)
EXTENDS LiveAttendance, TLAPS

\* A row that is open, or that the recovery has closed as of no length.
Unended(r) == rows[r] \in {"open", "zero"} /\ r \notin lost

Opened(r) == r \in Row /\ rows[r] # "absent"

Lifecycle(s) ==
  /\ conn[s] = "gone" <=> bye[s].pc # "unsent"
  /\ s \in dead => /\ conn[s] = "gone" /\ join[s].pc = "idle"
                   /\ leave[s].pc = "done" /\ bye[s].pc = "done"

\* The row of a join is not there until it has inserted it; the rows that
\* handlers have taken to close are.
RowsAreThere(s) ==
  /\ join[s].pc \in {"checking", "switching", "switched", "inserting"} =>
       <<s, join[s].to>> \in Row /\ rows[<<s, join[s].to>>] = "absent"
  /\ join[s].pc = "inserted" => Opened(<<s, join[s].to>>)
  /\ join[s].pc \in {"switching", "switched"} => Opened(<<s, join[s].of>>)
  /\ att[s] # None => Opened(<<s, att[s]>>)
  /\ leave[s].pc \in {"closing", "closed"} => Opened(<<s, leave[s].of>>)
  /\ bye[s].pc \in {"closing", "closed"} => Opened(<<s, bye[s].of>>)

\* What a join knows of attendanceId and joinedSessionId between its awaits.
JoinKnows(s) ==
  /\ join[s].pc \in {"inserting", "inserted"} =>
       att[s] = None /\ (joined[s] = join[s].to \/ leave[s].pc # "unsent")
  /\ join[s].pc \in {"switching", "switched"} => att[s] \in {None, join[s].of}
  /\ join[s].pc = "checking" => att[s] \in {None, joined[s]}
  /\ join[s].pc = "idle" => att[s] \in {None, joined[s]} \/ leave[s].pc # "unsent"

\* A handler that has closed a row leaves it with its end, or the write failed.
EndsAreWritten(s) ==
  /\ join[s].pc = "switched" => ~Unended(<<s, join[s].of>>)
  /\ leave[s].pc = "closed" => ~Unended(<<s, leave[s].of>>)
  /\ bye[s].pc = "closed" => ~Unended(<<s, bye[s].of>>)

\* A row that comes after the disconnect has begun is missed by it.
LateRowsAreLost(s) ==
  /\ bye[s].pc # "unsent" /\ join[s].pc # "idle" => <<s, join[s].to>> \in lost
  /\ bye[s].pc \in {"closing", "closed"} =>
       att[s] \in {None, bye[s].of} \/ <<s, att[s]>> \in lost

\* A row without its real end is the socket's, or that of its join.
UnendedIsHeld(s) ==
  s \notin dead =>
    \A x \in Sessions :
      <<s, x>> \in Row /\ Unended(<<s, x>>) =>
        \/ att[s] = x /\ bye[s].pc # "done"
        \/ join[s].pc = "inserted" /\ join[s].to = x

SocketInv(s) ==
  /\ Lifecycle(s) /\ RowsAreThere(s) /\ JoinKnows(s)
  /\ EndsAreWritten(s) /\ LateRowsAreLost(s) /\ UnendedIsHeld(s)

\* What the dead have left open is the recovery's.
LeftToRecovery ==
  recovery = "done" => \A r \in Row : r[1] \in dead /\ rows[r] = "open" => r \in lost

AttendanceInv ==
  /\ TypeOK
  /\ \A s \in Sockets : SocketInv(s)
  /\ LeftToRecovery
  /\ OneStintAtATime

-----------------------------------------------------------------------------
(* Rows.                                                                    *)

LEMMA RowsArePairs ==
  /\ \A r \in Row : r[1] \in Sockets /\ r[2] \in Sessions /\ r = <<r[1], r[2]>>
  /\ \A s, x : <<s, x>> \in Row => s \in Sockets /\ x \in Sessions /\ x # None
BY AttendanceAssumption

\* What a step that inserts nothing for a socket does to its rows: none appears
\* or goes, and none that has its end is opened again.
RowsGoOn(s) ==
  /\ \A x \in Sessions :
       <<s, x>> \in Row => /\ rows'[<<s, x>>] = "absent" <=> rows[<<s, x>>] = "absent"
                           /\ Unended(<<s, x>>)' => Unended(<<s, x>>)
                           /\ rows'[<<s, x>>] = "open" => rows[<<s, x>>] = "open"
  /\ lost \subseteq lost'

LEMMA Closes ==
  ASSUME TypeOK, NEW s \in Sockets, NEW x, Opened(<<s, x>>), Close(s, x)
  PROVE  /\ rows' \in [Row -> LeftAt] /\ lost' \subseteq Row /\ faults' \in Nat
         /\ RowsGoOn(s) /\ ~Unended(<<s, x>>)'
         /\ \A q \in Row : q # <<s, x>> => rows'[q] = rows[q]
         /\ \A q \in Row : rows'[q] = "open" => rows[q] = "open"
         /\ lost' \subseteq lost \cup {<<s, x>>}
<1> DEFINE r == <<s, x>>
<1>1. /\ rows \in [Row -> LeftAt] /\ lost \subseteq Row /\ faults \in Nat /\ MaxFaults \in Nat
      /\ r \in Row /\ rows[r] # "absent"
  BY AttendanceAssumption DEF TypeOK, Opened
<1>2. CASE CloseWrites(s, x)
  <2>1. rows' = [rows EXCEPT ![r] = "left"] /\ lost' = lost /\ faults' = faults
    BY <1>2 DEF CloseWrites
  <2> HIDE DEF r
  <2>2. rows'[r] = "left" /\ \A q \in Row : q # r => rows'[q] = rows[q]
    BY <1>1, <2>1
  <2>3. rows' \in [Row -> LeftAt]
    BY <1>1, <2>1 DEF LeftAt
  <2>4. \A q \in Row : rows'[q] = "open" => rows[q] = "open"
    BY <2>2
  <2>5. \A q \in Row : /\ rows'[q] = "absent" <=> rows[q] = "absent"
                       /\ Unended(q)' => Unended(q)
    BY <1>1, <2>1, <2>2 DEF Unended
  <2>6. ~Unended(r)'
    BY <2>2 DEF Unended
  <2> QED
    BY <1>1, <2>1, <2>2, <2>3, <2>4, <2>5, <2>6 DEF RowsGoOn, r
<1>3. CASE CloseFails(s, x)
  BY <1>1, <1>3 DEF CloseFails, Fault, RowsGoOn, Unended
<1> QED
  BY <1>2, <1>3 DEF Close

LEMMA RowsStay ==
  ASSUME UNCHANGED rows, lost \subseteq lost', NEW s \in Sockets
  PROVE  RowsGoOn(s)
BY DEF RowsGoOn, Unended

\* What the parts of a socket's invariant say of its rows, carried on.
LEMMA RowsCarried ==
  ASSUME NEW s \in Sockets, RowsGoOn(s)
  PROVE  /\ \A x : Opened(<<s, x>>)' <=> Opened(<<s, x>>)
         /\ \A x : <<s, x>> \in Row /\ Unended(<<s, x>>)' => Unended(<<s, x>>)
         /\ \A x : <<s, x>> \in Row => (rows'[<<s, x>>] = "absent" <=> rows[<<s, x>>] = "absent")
BY RowsArePairs DEF RowsGoOn, Opened

\* A socket that nothing happens to.
LEMMA SocketStays ==
  ASSUME NEW s \in Sockets, SocketInv(s), RowsGoOn(s),
         conn'[s] = conn[s], joined'[s] = joined[s], att'[s] = att[s], join'[s] = join[s],
         leave'[s] = leave[s], bye'[s] = bye[s], s \in dead <=> s \in dead'
  PROVE  SocketInv(s)'
<1>1. Lifecycle(s)'
  BY DEF SocketInv, Lifecycle
<1>2. RowsAreThere(s)'
  BY RowsCarried DEF SocketInv, RowsAreThere
<1>3. JoinKnows(s)'
  BY DEF SocketInv, JoinKnows
<1>4. EndsAreWritten(s)'
  BY RowsCarried DEF SocketInv, EndsAreWritten, RowsAreThere, Opened
<1>5. LateRowsAreLost(s)'
  BY DEF SocketInv, LateRowsAreLost, RowsGoOn
<1>6. UnendedIsHeld(s)'
  BY RowsCarried DEF SocketInv, UnendedIsHeld
<1> QED
  BY <1>1, <1>2, <1>3, <1>4, <1>5, <1>6 DEF SocketInv

LEMMA Gotos ==
  ASSUME TypeOK, NEW s \in Sockets, NEW pc \in JoinPC, JoinGoto(s, pc)
  PROVE  /\ join' \in [Sockets -> [pc : JoinPC, to : Sessions \cup {None}, of : Sessions \cup {None}]]
         /\ join'[s].pc = pc /\ join'[s].to = join[s].to /\ join'[s].of = join[s].of
         /\ \A t \in Sockets : t # s => join'[t] = join[t]
BY DEF TypeOK, JoinGoto

-----------------------------------------------------------------------------
(* room:join.                                                               *)

LEMMA JoinStarts ==
  ASSUME TypeOK, NEW s \in Sockets, SocketInv(s), NEW x \in Sessions, Join(s, x)
  PROVE  TypeOK' /\ SocketInv(s)'
<1>1. /\ join'[s] = [pc |-> "checking", to |-> x, of |-> None]
      /\ conn'[s] = "up" /\ conn[s] # "gone" /\ join[s].pc = "idle" /\ leave[s].pc = "unsent"
      /\ <<s, x>> \in Row /\ rows[<<s, x>>] = "absent"
      /\ UNCHANGED <<rows, joined, att, leave, bye, dead, lost, recovery, faults>>
  BY DEF Join, JoinAt, TypeOK, data, history
<1>2. TypeOK'
  BY <1>1 DEF Join, TypeOK, JoinPC
<1>3. Lifecycle(s)'
  BY <1>1 DEF SocketInv, Lifecycle
<1>4. RowsAreThere(s)'
  BY <1>1 DEF SocketInv, RowsAreThere, Opened
<1>5. JoinKnows(s)'
  BY <1>1 DEF SocketInv, JoinKnows
<1>6. EndsAreWritten(s)'
  BY <1>1 DEF SocketInv, EndsAreWritten, Unended
<1>7. LateRowsAreLost(s)'
  BY <1>1 DEF SocketInv, LateRowsAreLost, Lifecycle
<1>8. UnendedIsHeld(s)'
  BY <1>1 DEF SocketInv, UnendedIsHeld, Unended
<1> QED
  BY <1>2, <1>3, <1>4, <1>5, <1>6, <1>7, <1>8 DEF SocketInv

LEMMA JoinRefusals ==
  ASSUME TypeOK, NEW s \in Sockets, SocketInv(s), JoinRefused(s) \/ JoinInsertFails(s)
  PROVE  TypeOK' /\ SocketInv(s)'
<1>1. /\ join[s].pc \in {"checking", "inserting"} /\ join'[s].pc = "idle"
      /\ join' \in [Sockets -> [pc : JoinPC, to : Sessions \cup {None}, of : Sessions \cup {None}]]
      /\ UNCHANGED <<rows, conn, joined, att, leave, bye, dead, lost, recovery>>
  BY Gotos DEF JoinRefused, JoinInsertFails, JoinAt, JoinPC, data, history
<1>2. faults' \in Nat
  BY AttendanceAssumption DEF JoinRefused, JoinInsertFails, Fault, TypeOK
<1>3. TypeOK'
  BY <1>1, <1>2 DEF TypeOK
<1>4. Lifecycle(s)' /\ RowsAreThere(s)' /\ JoinKnows(s)'
  BY <1>1 DEF SocketInv, Lifecycle, RowsAreThere, JoinKnows, Opened
<1>5. EndsAreWritten(s)' /\ LateRowsAreLost(s)' /\ UnendedIsHeld(s)'
  BY <1>1 DEF SocketInv, EndsAreWritten, LateRowsAreLost, UnendedIsHeld, Unended
<1> QED
  BY <1>3, <1>4, <1>5 DEF SocketInv

LEMMA JoinSeats ==
  ASSUME TypeOK, NEW s \in Sockets, SocketInv(s), JoinChecks(s)
  PROVE  TypeOK' /\ SocketInv(s)'
<1>1. /\ join[s].pc = "checking" /\ join'[s].to = join[s].to
      /\ join' \in [Sockets -> [pc : JoinPC, to : Sessions \cup {None}, of : Sessions \cup {None}]]
      /\ UNCHANGED <<rows, conn, att, leave, bye, dead, lost, recovery, faults>>
      /\ \/ join'[s].pc = "switching" /\ join'[s].of = att[s] /\ att[s] # None /\ joined' = joined
         \/ join'[s].pc = "inserting" /\ joined' = [joined EXCEPT ![s] = join[s].to]
            /\ (joined[s] \in {None, join[s].to} \/ att[s] = None)
  <2>1. join[s].pc = "checking" /\ UNCHANGED <<rows, conn, att, leave, bye, dead, lost, recovery, faults>>
    BY DEF JoinChecks, JoinAt, data, history
  <2>2. CASE /\ join' = [join EXCEPT ![s].pc = "switching", ![s].of = att[s]]
             /\ att[s] # None /\ joined' = joined
    BY <2>1, <2>2 DEF TypeOK, JoinPC
  <2>3. CASE Seat(s) /\ (joined[s] \in {None, join[s].to} \/ att[s] = None)
    <3>1. JoinGoto(s, "inserting") /\ "inserting" \in JoinPC
      BY <2>3 DEF Seat, JoinPC
    <3> QED
      BY <2>1, <2>3, <3>1, Gotos DEF Seat
  <2> QED
    BY <2>2, <2>3 DEF JoinChecks, data
<1>2. join'[s].pc = "inserting" => att[s] = None /\ joined'[s] = join[s].to
  BY <1>1 DEF SocketInv, JoinKnows, RowsAreThere, Opened, TypeOK
<1>3. TypeOK'
  BY <1>1 DEF TypeOK
<1>4. Lifecycle(s)' /\ RowsAreThere(s)'
  BY <1>1 DEF SocketInv, Lifecycle, RowsAreThere, Opened
<1>5. JoinKnows(s)'
  BY <1>1, <1>2 DEF JoinKnows
<1>6. EndsAreWritten(s)' /\ LateRowsAreLost(s)' /\ UnendedIsHeld(s)'
  BY <1>1 DEF SocketInv, EndsAreWritten, LateRowsAreLost, UnendedIsHeld, Unended
<1> QED
  BY <1>3, <1>4, <1>5, <1>6 DEF SocketInv

LEMMA JoinSwitching ==
  ASSUME TypeOK, NEW s \in Sockets, SocketInv(s), JoinCloses(s)
  PROVE  TypeOK' /\ SocketInv(s)'
<1>1. /\ join[s].pc = "switching" /\ join'[s].pc = "switched"
      /\ join'[s].to = join[s].to /\ join'[s].of = join[s].of
      /\ join' \in [Sockets -> [pc : JoinPC, to : Sessions \cup {None}, of : Sessions \cup {None}]]
      /\ UNCHANGED <<conn, joined, att, leave, bye, dead, recovery>>
  BY Gotos DEF JoinCloses, JoinAt, JoinPC, data
<1>2. /\ rows' \in [Row -> LeftAt] /\ lost' \subseteq Row /\ faults' \in Nat
      /\ RowsGoOn(s) /\ ~Unended(<<s, join[s].of>>)'
  BY <1>1, Closes DEF JoinCloses, SocketInv, RowsAreThere
<1>3. TypeOK'
  BY <1>1, <1>2 DEF TypeOK
<1>4. Lifecycle(s)' /\ JoinKnows(s)'
  BY <1>1 DEF SocketInv, Lifecycle, JoinKnows
<1>5. RowsAreThere(s)'
  BY <1>1, <1>2, RowsCarried DEF SocketInv, RowsAreThere
<1>6. EndsAreWritten(s)'
  BY <1>1, <1>2, RowsCarried DEF SocketInv, EndsAreWritten, RowsAreThere, Opened
<1>7. LateRowsAreLost(s)' /\ UnendedIsHeld(s)'
  BY <1>1, <1>2, RowsCarried DEF SocketInv, LateRowsAreLost, UnendedIsHeld, RowsGoOn
<1> QED
  BY <1>3, <1>4, <1>5, <1>6, <1>7 DEF SocketInv

LEMMA JoinSwitched ==
  ASSUME TypeOK, NEW s \in Sockets, SocketInv(s), JoinSwitches(s)
  PROVE  TypeOK' /\ SocketInv(s)'
<1>1. /\ join[s].pc = "switched" /\ join'[s].pc = "inserting" /\ join'[s].to = join[s].to
      /\ join' \in [Sockets -> [pc : JoinPC, to : Sessions \cup {None}, of : Sessions \cup {None}]]
      /\ joined' = [joined EXCEPT ![s] = join[s].to] /\ att' = [att EXCEPT ![s] = None]
      /\ UNCHANGED <<rows, conn, leave, bye, dead, lost, recovery, faults>>
  BY Gotos DEF JoinSwitches, Seat, JoinAt, JoinPC, history
<1>2. att'[s] = None /\ joined'[s] = join[s].to
  BY <1>1 DEF TypeOK
<1>3. TypeOK'
  BY <1>1 DEF TypeOK
<1>4. Lifecycle(s)' /\ RowsAreThere(s)' /\ JoinKnows(s)'
  BY <1>1, <1>2 DEF SocketInv, Lifecycle, RowsAreThere, JoinKnows, Opened
<1>5. EndsAreWritten(s)' /\ LateRowsAreLost(s)'
  BY <1>1, <1>2 DEF SocketInv, EndsAreWritten, LateRowsAreLost, Unended
<1>6. \* Its row before has been closed.
      UnendedIsHeld(s)'
  BY <1>1, <1>2, AttendanceAssumption
     DEF SocketInv, JoinKnows, EndsAreWritten, UnendedIsHeld, Unended
<1> QED
  BY <1>3, <1>4, <1>5, <1>6 DEF SocketInv

LEMMA JoinOpens ==
  ASSUME TypeOK, NEW s \in Sockets, SocketInv(s), JoinInserts(s)
  PROVE  /\ TypeOK' /\ SocketInv(s)'
         /\ \A q \in Row : q # <<s, join[s].to>> => rows'[q] = rows[q]
<1> DEFINE r == <<s, join[s].to>>
<1>1. /\ join[s].pc = "inserting" /\ join'[s].pc = "inserted"
      /\ join'[s].to = join[s].to /\ join'[s].of = join[s].of
      /\ join' \in [Sockets -> [pc : JoinPC, to : Sessions \cup {None}, of : Sessions \cup {None}]]
      /\ rows' = [rows EXCEPT ![r] = "open"]
      /\ UNCHANGED <<conn, joined, att, leave, bye, dead, lost, recovery, faults>>
  BY Gotos DEF JoinInserts, JoinAt, JoinPC, data, history
<1>2. r \in Row /\ rows[r] = "absent" /\ att[s] = None
  BY <1>1 DEF SocketInv, RowsAreThere, JoinKnows
<1> HIDE DEF r
<1>3. /\ rows' \in [Row -> LeftAt] /\ rows'[r] = "open"
      /\ \A q \in Row : q # r => rows'[q] = rows[q]
  BY <1>1, <1>2 DEF TypeOK, LeftAt
<1>4. TypeOK'
  BY <1>1, <1>3 DEF TypeOK
<1>5. \A q \in Row : Opened(q) => Opened(q)' /\ q # r
  BY <1>2, <1>3 DEF Opened
<1>6. Opened(r)'
  <2>1. r' = r
    BY <1>1 DEF r
  <2> QED
    BY <1>2, <1>3, <2>1 DEF Opened
<1>7. Lifecycle(s)' /\ JoinKnows(s)' /\ LateRowsAreLost(s)'
  BY <1>1 DEF SocketInv, Lifecycle, JoinKnows, LateRowsAreLost
<1>8. RowsAreThere(s)'
  <2>1. \A q : Opened(q) => Opened(q)'
    BY <1>5 DEF Opened
  <2> QED
    BY <1>1, <1>6, <2>1 DEF SocketInv, RowsAreThere, r
<1>9. EndsAreWritten(s)'
  <2>1. \A q \in Row : Opened(q) /\ ~Unended(q) => ~Unended(q)'
    BY <1>1, <1>3, <1>5 DEF Unended
  <2>2. \A q : Opened(q) => q \in Row
    BY DEF Opened
  <2> QED
    BY <1>1, <2>1, <2>2 DEF SocketInv, EndsAreWritten, RowsAreThere
<1>10. UnendedIsHeld(s)'
  <2>1. \A q \in Row : Unended(q)' => Unended(q) \/ q = r
    BY <1>1, <1>3 DEF Unended
  <2>2. \A x : <<s, x>> = r => x = join[s].to
    BY DEF r
  <2> QED
    BY <1>1, <1>2, <2>1, <2>2, AttendanceAssumption DEF SocketInv, UnendedIsHeld
<1> QED
  BY <1>3, <1>4, <1>7, <1>8, <1>9, <1>10 DEF SocketInv, r

LEMMA JoinEnds ==
  ASSUME TypeOK, NEW s \in Sockets, SocketInv(s), JoinDone(s)
  PROVE  TypeOK' /\ SocketInv(s)'
<1>1. /\ join[s].pc = "inserted" /\ join'[s].pc = "idle" /\ join'[s].to = join[s].to
      /\ join' \in [Sockets -> [pc : JoinPC, to : Sessions \cup {None}, of : Sessions \cup {None}]]
      /\ att' = [att EXCEPT ![s] = join[s].to]
      /\ UNCHANGED <<rows, conn, joined, leave, bye, dead, lost, recovery, faults>>
  BY Gotos DEF JoinDone, JoinAt, JoinPC, history
<1>2. att'[s] = join[s].to /\ att[s] = None
  BY <1>1 DEF TypeOK, SocketInv, JoinKnows
<1>3. TypeOK'
  BY <1>1 DEF TypeOK
<1>4. Lifecycle(s)' /\ RowsAreThere(s)' /\ JoinKnows(s)'
  BY <1>1, <1>2 DEF SocketInv, Lifecycle, RowsAreThere, JoinKnows, Opened
<1>5. EndsAreWritten(s)' /\ LateRowsAreLost(s)'
  BY <1>1, <1>2 DEF SocketInv, EndsAreWritten, LateRowsAreLost, Unended
<1>6. \* A row that is late for the disconnect is lost already.
      UnendedIsHeld(s)'
  BY <1>1, <1>2, AttendanceAssumption DEF SocketInv, LateRowsAreLost, UnendedIsHeld, Unended
<1> QED
  BY <1>3, <1>4, <1>5, <1>6 DEF SocketInv

-----------------------------------------------------------------------------
(* room:leave and disconnect.                                               *)

LEMMA Takes ==
  ASSUME TypeOK, NEW s \in Sockets
  PROVE  /\ Taken(s) \in Ending /\ Taken(s).of = att[s]
         /\ Taken(s).pc = IF att[s] = None THEN "done" ELSE "closing"
         /\ Left(s) \in Sessions \cup {None}
BY DEF TypeOK, Taken, Ending, EndPC, Left

LEMMA LeaveStarts ==
  ASSUME TypeOK, NEW s \in Sockets, SocketInv(s), Leave(s)
  PROVE  TypeOK' /\ SocketInv(s)'
<1>1. /\ conn[s] = "up" /\ leave[s].pc = "unsent" /\ leave'[s] = Taken(s)
      /\ joined'[s] = IF att[s] = None THEN Left(s) ELSE joined[s]
      /\ UNCHANGED <<rows, conn, att, join, bye, dead, lost, recovery, faults>>
  BY DEF Leave, TypeOK, history
<1>2. TypeOK'
  BY <1>1, Takes DEF Leave, TypeOK
<1>3. Lifecycle(s)' /\ RowsAreThere(s)' /\ JoinKnows(s)'
  BY <1>1, Takes DEF SocketInv, Lifecycle, RowsAreThere, JoinKnows, Opened
<1>4. EndsAreWritten(s)' /\ LateRowsAreLost(s)' /\ UnendedIsHeld(s)'
  BY <1>1, Takes DEF SocketInv, EndsAreWritten, LateRowsAreLost, UnendedIsHeld, Unended
<1> QED
  BY <1>2, <1>3, <1>4 DEF SocketInv

LEMMA LeaveClosing ==
  ASSUME TypeOK, NEW s \in Sockets, SocketInv(s), LeaveCloses(s)
  PROVE  TypeOK' /\ SocketInv(s)'
<1>1. /\ leave[s].pc = "closing" /\ leave'[s].pc = "closed" /\ leave'[s].of = leave[s].of
      /\ leave' \in [Sockets -> Ending]
      /\ UNCHANGED <<conn, joined, att, join, bye, dead, recovery>>
  BY DEF LeaveCloses, TypeOK, Ending, EndPC, data
<1>2. /\ rows' \in [Row -> LeftAt] /\ lost' \subseteq Row /\ faults' \in Nat
      /\ RowsGoOn(s) /\ ~Unended(<<s, leave[s].of>>)'
  BY <1>1, Closes DEF LeaveCloses, SocketInv, RowsAreThere
<1>3. TypeOK'
  BY <1>1, <1>2 DEF TypeOK
<1>4. Lifecycle(s)' /\ JoinKnows(s)'
  BY <1>1 DEF SocketInv, Lifecycle, JoinKnows
<1>5. RowsAreThere(s)'
  BY <1>1, <1>2, RowsCarried DEF SocketInv, RowsAreThere
<1>6. EndsAreWritten(s)'
  BY <1>1, <1>2, RowsCarried DEF SocketInv, EndsAreWritten, RowsAreThere, Opened
<1>7. LateRowsAreLost(s)' /\ UnendedIsHeld(s)'
  BY <1>1, <1>2, RowsCarried DEF SocketInv, LateRowsAreLost, UnendedIsHeld, RowsGoOn
<1> QED
  BY <1>3, <1>4, <1>5, <1>6, <1>7 DEF SocketInv

\* attendanceId is cleared: of the row that has been closed, or of one that is lost.
LEMMA LeaveEnds ==
  ASSUME TypeOK, NEW s \in Sockets, SocketInv(s), LeaveDone(s)
  PROVE  TypeOK' /\ SocketInv(s)'
<1>1. /\ leave[s].pc = "closed" /\ leave'[s].pc = "done" /\ leave' \in [Sockets -> Ending]
      /\ att' = [att EXCEPT ![s] = None] /\ joined' = [joined EXCEPT ![s] = Left(s)]
      /\ lost' = IF att[s] \in {None, leave[s].of} THEN lost ELSE lost \cup {<<s, att[s]>>}
      /\ UNCHANGED <<rows, conn, join, bye, dead, recovery, faults>>
  BY DEF LeaveDone, TypeOK, Ending, EndPC
<1>2. att'[s] = None
  BY <1>1 DEF TypeOK
<1>3. lost \subseteq lost' /\ lost' \subseteq Row
  BY <1>1 DEF TypeOK, SocketInv, RowsAreThere, Opened
<1>4. RowsGoOn(s)
  BY <1>1, <1>3, RowsStay
<1>5. TypeOK'
  BY <1>1, <1>3, Takes DEF TypeOK
<1>6. Lifecycle(s)' /\ RowsAreThere(s)'
  BY <1>1, <1>2, <1>4, RowsCarried DEF SocketInv, Lifecycle, RowsAreThere
<1>7. JoinKnows(s)'
  <2>1. joined'[s] \in {None, joined[s]}
    BY <1>1 DEF TypeOK, Left
  <2> QED
    BY <1>1, <1>2, <2>1 DEF SocketInv, JoinKnows
<1>8. EndsAreWritten(s)'
  BY <1>1, <1>4, RowsCarried DEF SocketInv, EndsAreWritten, RowsAreThere, Opened
<1>9. LateRowsAreLost(s)'
  BY <1>1, <1>2, <1>3 DEF SocketInv, LateRowsAreLost
<1>10. UnendedIsHeld(s)'
  <2>1. \A x \in Sessions : att[s] = x => ~Unended(<<s, x>>)'
    BY <1>1, AttendanceAssumption DEF SocketInv, EndsAreWritten, Unended
  <2> QED
    BY <1>1, <1>2, <1>4, <2>1, RowsCarried, AttendanceAssumption DEF SocketInv, UnendedIsHeld
<1> QED
  BY <1>5, <1>6, <1>7, <1>8, <1>9, <1>10 DEF SocketInv

LEMMA ByeStarts ==
  ASSUME TypeOK, NEW s \in Sockets, SocketInv(s), Disconnect(s)
  PROVE  TypeOK' /\ SocketInv(s)'
<1>1. /\ conn[s] = "up" /\ conn'[s] = "gone" /\ bye'[s] = Taken(s)
      /\ lost' = IF join[s].pc # "idle" THEN lost \cup {<<s, join[s].to>>} ELSE lost
      /\ UNCHANGED <<rows, joined, att, join, leave, dead, recovery, faults>>
  BY DEF Disconnect, TypeOK, data, JoinInFlight, JoinAt
<1>2. lost \subseteq lost' /\ lost' \subseteq Row
  BY <1>1 DEF TypeOK, SocketInv, RowsAreThere, Opened, JoinPC
<1>3. RowsGoOn(s)
  BY <1>1, <1>2, RowsStay
<1>4. TypeOK'
  BY <1>1, <1>2, Takes DEF Disconnect, TypeOK
<1>5. Lifecycle(s)' /\ RowsAreThere(s)' /\ JoinKnows(s)'
  BY <1>1, <1>3, Takes, RowsCarried DEF SocketInv, Lifecycle, RowsAreThere, JoinKnows
<1>6. EndsAreWritten(s)'
  BY <1>1, <1>3, Takes, RowsCarried DEF SocketInv, EndsAreWritten, RowsAreThere, Opened
<1>7. LateRowsAreLost(s)'
  BY <1>1, <1>2, Takes DEF LateRowsAreLost
<1>8. UnendedIsHeld(s)'
  BY <1>1, <1>3, Takes, RowsCarried, AttendanceAssumption DEF SocketInv, UnendedIsHeld
<1> QED
  BY <1>4, <1>5, <1>6, <1>7, <1>8 DEF SocketInv

LEMMA ByeClosing ==
  ASSUME TypeOK, NEW s \in Sockets, SocketInv(s), ByeCloses(s)
  PROVE  TypeOK' /\ SocketInv(s)'
<1>1. /\ bye[s].pc = "closing" /\ bye'[s].pc = "closed" /\ bye'[s].of = bye[s].of
      /\ bye' \in [Sockets -> Ending]
      /\ UNCHANGED <<conn, joined, att, join, leave, dead, recovery>>
  BY DEF ByeCloses, TypeOK, Ending, EndPC, data
<1>2. /\ rows' \in [Row -> LeftAt] /\ lost' \subseteq Row /\ faults' \in Nat
      /\ RowsGoOn(s) /\ ~Unended(<<s, bye[s].of>>)'
  BY <1>1, Closes DEF ByeCloses, SocketInv, RowsAreThere
<1>3. TypeOK'
  BY <1>1, <1>2 DEF TypeOK
<1>4. Lifecycle(s)' /\ JoinKnows(s)'
  BY <1>1 DEF SocketInv, Lifecycle, JoinKnows
<1>5. RowsAreThere(s)'
  BY <1>1, <1>2, RowsCarried DEF SocketInv, RowsAreThere
<1>6. EndsAreWritten(s)'
  BY <1>1, <1>2, RowsCarried DEF SocketInv, EndsAreWritten, RowsAreThere, Opened
<1>7. LateRowsAreLost(s)' /\ UnendedIsHeld(s)'
  BY <1>1, <1>2, RowsCarried DEF SocketInv, LateRowsAreLost, UnendedIsHeld, RowsGoOn
<1> QED
  BY <1>3, <1>4, <1>5, <1>6, <1>7 DEF SocketInv

LEMMA ByeEnds ==
  ASSUME TypeOK, NEW s \in Sockets, SocketInv(s), ByeDone(s)
  PROVE  TypeOK' /\ SocketInv(s)'
<1>1. /\ bye[s].pc = "closed" /\ bye'[s].pc = "done" /\ bye' \in [Sockets -> Ending]
      /\ att' = [att EXCEPT ![s] = None]
      /\ UNCHANGED <<rows, conn, joined, join, leave, dead, lost, recovery, faults>>
  BY DEF ByeDone, TypeOK, Ending, EndPC, history
<1>2. att'[s] = None
  BY <1>1 DEF TypeOK
<1>3. TypeOK'
  BY <1>1 DEF TypeOK
<1>4. Lifecycle(s)' /\ RowsAreThere(s)' /\ JoinKnows(s)'
  BY <1>1, <1>2 DEF SocketInv, Lifecycle, RowsAreThere, JoinKnows, Opened
<1>5. EndsAreWritten(s)' /\ LateRowsAreLost(s)'
  BY <1>1, <1>2 DEF SocketInv, EndsAreWritten, LateRowsAreLost, Unended
<1>6. UnendedIsHeld(s)'
  <2>1. att[s] # None => ~Unended(<<s, att[s]>>)
    BY <1>1 DEF SocketInv, LateRowsAreLost, EndsAreWritten, Unended
  <2> QED
    BY <1>1, <1>2, <2>1, AttendanceAssumption DEF SocketInv, UnendedIsHeld, Unended
<1> QED
  BY <1>3, <1>4, <1>5, <1>6 DEF SocketInv

LEMMA SocketKeeps ==
  ASSUME TypeOK, NEW s \in Sockets, SocketInv(s), SocketStep(s)
  PROVE  TypeOK' /\ SocketInv(s)'
BY JoinStarts, JoinRefusals, JoinSeats, JoinSwitching, JoinSwitched, JoinOpens, JoinEnds,
   LeaveStarts, LeaveClosing, LeaveEnds, ByeStarts, ByeClosing, ByeEnds
   DEF SocketStep, JoinStep, EndStep

\* The handlers of one socket do not touch another, nor its rows.
LEMMA OthersStay ==
  ASSUME TypeOK, NEW s \in Sockets, SocketInv(s), SocketStep(s),
         NEW t \in Sockets, t # s, SocketInv(t)
  PROVE  SocketInv(t)' /\ RowsGoOn(t)
<1>1. /\ conn'[t] = conn[t] /\ joined'[t] = joined[t] /\ att'[t] = att[t] /\ join'[t] = join[t]
      /\ leave'[t] = leave[t] /\ bye'[t] = bye[t] /\ UNCHANGED dead
  <2>1. ASSUME NEW x \in Sessions, Join(s, x) PROVE <1>1!:
    BY <2>1 DEF Join, TypeOK, data, history
  <2>2. CASE JoinRefused(s) \/ JoinInsertFails(s) \/ JoinInserts(s) \/ JoinCloses(s)
    BY <2>2 DEF JoinRefused, JoinInsertFails, JoinInserts, JoinCloses, JoinGoto, TypeOK, data, history
  <2>3. CASE JoinChecks(s) \/ JoinSwitches(s) \/ JoinDone(s)
    BY <2>3 DEF JoinChecks, JoinSwitches, JoinDone, Seat, JoinGoto, TypeOK, data, history
  <2>4. CASE Leave(s) \/ LeaveCloses(s) \/ LeaveDone(s)
    BY <2>4 DEF Leave, LeaveCloses, LeaveDone, TypeOK, data, history
  <2>5. CASE Disconnect(s) \/ ByeCloses(s) \/ ByeDone(s)
    BY <2>5 DEF Disconnect, ByeCloses, ByeDone, TypeOK, data, history
  <2> QED
    BY <2>1, <2>2, <2>3, <2>4, <2>5 DEF SocketStep, JoinStep, EndStep
<1>2. RowsGoOn(t)
  <2>1. ASSUME NEW x, Opened(<<s, x>>), Close(s, x) PROVE RowsGoOn(t)
    <3>1. /\ \A y : <<t, y>> \in Row => rows'[<<t, y>>] = rows[<<t, y>>]
          /\ lost \subseteq lost'
      BY <2>1, Closes DEF RowsGoOn
    <3> QED
      BY <3>1 DEF RowsGoOn, Unended
  <2>2. CASE JoinCloses(s) \/ LeaveCloses(s) \/ ByeCloses(s)
    BY <2>1, <2>2 DEF JoinCloses, LeaveCloses, ByeCloses, JoinAt, SocketInv, RowsAreThere
  <2>3. CASE JoinInserts(s)
    <3>1. /\ \A y : <<t, y>> \in Row => rows'[<<t, y>>] = rows[<<t, y>>]
          /\ lost' = lost
      BY <2>3, JoinOpens DEF JoinInserts, history
    <3> QED
      BY <3>1 DEF RowsGoOn, Unended
  <2>4. ASSUME UNCHANGED rows, lost \subseteq lost' PROVE RowsGoOn(t)
    BY <2>4, RowsStay
  <2>5. ASSUME NEW x \in Sessions, Join(s, x) PROVE RowsGoOn(t)
    BY <2>4, <2>5 DEF Join, history
  <2>6. CASE JoinRefused(s) \/ JoinInsertFails(s) \/ JoinChecks(s) \/ JoinSwitches(s) \/ JoinDone(s)
    BY <2>4, <2>6 DEF JoinRefused, JoinInsertFails, JoinChecks, JoinSwitches, JoinDone, history
  <2>7. CASE Leave(s) \/ LeaveDone(s) \/ Disconnect(s) \/ ByeDone(s)
    BY <2>4, <2>7 DEF Leave, LeaveDone, Disconnect, ByeDone, history
  <2> QED
    BY <2>2, <2>3, <2>5, <2>6, <2>7 DEF SocketStep, JoinStep, EndStep
<1> QED
  BY <1>1, <1>2, SocketStays

-----------------------------------------------------------------------------
(* The process.                                                             *)

LEMMA CrashKeeps ==
  ASSUME TypeOK, Crash, \A s \in Sockets : SocketInv(s)
  PROVE  TypeOK' /\ \A s \in Sockets : SocketInv(s)'
<1>1. UNCHANGED <<rows, joined, att, lost>> /\ recovery' = "running" /\ faults' \in Nat
  BY AttendanceAssumption DEF Crash, Fault, TypeOK, data
<1>2. /\ conn' \in [Sockets -> {"new", "up", "gone"}] /\ dead' \subseteq Sockets
      /\ join' \in [Sockets -> [pc : JoinPC, to : Sessions \cup {None}, of : Sessions \cup {None}]]
      /\ leave' \in [Sockets -> Ending] /\ bye' \in [Sockets -> Ending]
  BY DEF Crash, TypeOK, JoinPC, Ending, EndPC
<1>3. TypeOK'
  BY <1>1, <1>2 DEF TypeOK
<1>4. ASSUME NEW s \in Sockets PROVE SocketInv(s)'
  <2>1. RowsGoOn(s)
    BY <1>1, RowsStay
  <2>2. CASE conn[s] = "new"
    <3>1. /\ conn'[s] = conn[s] /\ join'[s] = join[s] /\ leave'[s] = leave[s] /\ bye'[s] = bye[s]
          /\ s \in dead <=> s \in dead'
      BY <2>2 DEF Crash, TypeOK
    <3> QED
      BY <1>1, <2>1, <3>1, SocketStays
  <2>3. CASE conn[s] # "new"
    <3>1. /\ conn'[s] = "gone" /\ s \in dead'
          /\ join'[s].pc = "idle" /\ leave'[s].pc = "done" /\ bye'[s].pc = "done"
      BY <2>3 DEF Crash, TypeOK, Ending
    <3>2. Lifecycle(s)' /\ JoinKnows(s)' /\ EndsAreWritten(s)' /\ LateRowsAreLost(s)' /\ UnendedIsHeld(s)'
      BY <3>1 DEF Lifecycle, JoinKnows, EndsAreWritten, LateRowsAreLost, UnendedIsHeld
    <3>3. RowsAreThere(s)'
      BY <1>1, <3>1 DEF SocketInv, RowsAreThere, Opened
    <3> QED
      BY <3>2, <3>3 DEF SocketInv
  <2> QED
    BY <2>2, <2>3
<1> QED
  BY <1>3, <1>4

\* The recovery takes open rows of anybody: they stay without their real end.
LEMMA RecoveryKeeps ==
  ASSUME TypeOK, Recover \/ RecoverFails, \A s \in Sockets : SocketInv(s)
  PROVE  /\ TypeOK' /\ \A s \in Sockets : SocketInv(s)'
         /\ \A r \in Row : rows'[r] = "open" => rows[r] = "open"
<1>1. /\ UNCHANGED <<conn, joined, att, join, leave, bye, dead>>
      /\ recovery' = "done" /\ faults' \in Nat
      /\ lost \subseteq lost' /\ lost' \subseteq Row
      /\ rows' \in [Row -> LeftAt]
      /\ \A r \in Row : rows'[r] = IF Recover /\ rows[r] = "open" THEN "zero" ELSE rows[r]
  <2>1. CASE Recover
    BY <2>1 DEF Recover, TypeOK, LeftAt, data, handlers, history
  <2>2. CASE RecoverFails /\ ~Recover
    BY <2>2, AttendanceAssumption DEF RecoverFails, Fault, TypeOK, data, handlers
  <2> QED
    BY <2>1, <2>2
<1>2. TypeOK'
  BY <1>1 DEF TypeOK
<1>3. \A s \in Sockets : RowsGoOn(s)
  BY <1>1 DEF RowsGoOn, Unended
<1>4. \A s \in Sockets : SocketInv(s)'
  BY <1>1, <1>3, SocketStays
<1> QED
  BY <1>1, <1>2, <1>4

-----------------------------------------------------------------------------
(* The invariant, and what it says.                                         *)

LEMMA AttendanceInit == Init => AttendanceInv
<1> SUFFICES ASSUME Init PROVE AttendanceInv
  OBVIOUS
<1>1. TypeOK
  BY DEF Init, TypeOK, LeftAt, JoinPC, EndPC, Ending
<1>2. \A s \in Sockets : SocketInv(s)
  BY DEF Init, SocketInv, Lifecycle, RowsAreThere, JoinKnows, EndsAreWritten, LateRowsAreLost,
         UnendedIsHeld, Unended
<1>3. LeftToRecovery /\ OneStintAtATime
  BY DEF Init, LeftToRecovery, OneStintAtATime
<1> QED
  BY <1>1, <1>2, <1>3 DEF AttendanceInv

\* Of a living socket's rows at most one has not got its end; of a dead one's
\* none is opened any more.
LEMMA OneStintKept ==
  ASSUME AttendanceInv, TypeOK', \A s \in Sockets : SocketInv(s)',
         dead \subseteq dead', lost \subseteq lost',
         \A r \in Row : r[1] \in dead' /\ rows'[r] = "open" => rows[r] = "open"
  PROVE  OneStintAtATime'
<1> SUFFICES ASSUME NEW q \in Row, NEW r \in Row, q \notin lost', r \notin lost', q[1] = r[1],
                    rows'[q] = "open", rows'[r] = "open"
             PROVE  q = r
  BY DEF OneStintAtATime
<1>1. CASE q[1] \in dead'
  BY <1>1 DEF AttendanceInv, OneStintAtATime
<1>2. CASE q[1] \notin dead'
  <2>1. PICK s \in Sockets, x \in Sessions, y \in Sessions : q = <<s, x>> /\ r = <<s, y>>
    BY RowsArePairs
  <2>2. UnendedIsHeld(s)' /\ JoinKnows(s)' /\ s \notin dead'
    BY <1>2, <2>1 DEF SocketInv
  <2>3. Unended(<<s, x>>)' /\ Unended(<<s, y>>)'
    BY <2>1 DEF Unended
  <2>4. x = y
    BY <2>1, <2>2, <2>3, AttendanceAssumption DEF UnendedIsHeld, JoinKnows
  <2> QED
    BY <2>1, <2>4
<1> QED
  BY <1>1, <1>2

LEMMA AttendanceStep == AttendanceInv /\ [Next]_vars => AttendanceInv'
<1> SUFFICES ASSUME AttendanceInv, [Next]_vars PROVE AttendanceInv'
  OBVIOUS
<1>1. TypeOK /\ \A s \in Sockets : SocketInv(s)
  BY DEF AttendanceInv
<1>2. ASSUME NEW s \in Sockets, SocketStep(s) PROVE AttendanceInv'
  <2>1. TypeOK' /\ SocketInv(s)'
    BY <1>1, <1>2, SocketKeeps
  <2>2. \A t \in Sockets : t # s => SocketInv(t)' /\ RowsGoOn(t)
    BY <1>1, <1>2, OthersStay
  <2>3. UNCHANGED <<dead, recovery>>
    BY <1>2 DEF SocketStep, Join, Leave, Disconnect, JoinStep, JoinRefused, JoinChecks, JoinCloses,
       JoinSwitches, JoinInserts, JoinInsertFails, JoinDone, EndStep, LeaveCloses, LeaveDone,
       ByeCloses, ByeDone, history
  <2>4. s \notin dead
    BY <1>1, <1>2 DEF SocketInv, Lifecycle, SocketStep, Join, Leave, Disconnect, JoinStep,
       JoinRefused, JoinChecks, JoinCloses, JoinSwitches, JoinInserts, JoinInsertFails, JoinDone,
       JoinAt, EndStep, LeaveCloses, LeaveDone, ByeCloses, ByeDone
  <2>5. lost \subseteq lost'
    <3>1. \A x : Close(s, x) => lost \subseteq lost'
      BY DEF Close, CloseWrites, CloseFails
    <3> QED
      BY <1>2, <3>1 DEF SocketStep, Join, Leave, Disconnect, JoinStep, JoinRefused, JoinChecks,
         JoinCloses, JoinSwitches, JoinInserts, JoinInsertFails, JoinDone, EndStep, LeaveCloses,
         LeaveDone, ByeCloses, ByeDone, history
  <2>6. \A r \in Row : r[1] \in dead' /\ rows'[r] = "open" => rows[r] = "open"
    BY <2>2, <2>3, <2>4, RowsArePairs DEF RowsGoOn
  <2>7. LeftToRecovery'
    BY <2>3, <2>5, <2>6 DEF AttendanceInv, LeftToRecovery
  <2>8. OneStintAtATime'
    BY <2>1, <2>2, <2>3, <2>5, <2>6, OneStintKept
  <2> QED
    BY <2>1, <2>2, <2>7, <2>8 DEF AttendanceInv
<1>3. CASE Crash
  <2>1. TypeOK' /\ \A s \in Sockets : SocketInv(s)'
    BY <1>1, <1>3, CrashKeeps
  <2>2. UNCHANGED <<rows, lost>> /\ dead \subseteq dead' /\ recovery' = "running"
    BY <1>3 DEF Crash
  <2> QED
    BY <2>1, <2>2, OneStintKept DEF AttendanceInv, LeftToRecovery
<1>4. CASE Recover \/ RecoverFails
  <2>1. /\ TypeOK' /\ \A s \in Sockets : SocketInv(s)'
        /\ \A r \in Row : rows'[r] = "open" => rows[r] = "open"
    BY <1>1, <1>4, RecoveryKeeps
  <2>2. UNCHANGED dead /\ lost \subseteq lost'
    BY <1>4 DEF Recover, RecoverFails, history
  <2>3. LeftToRecovery'
    <3>1. CASE Recover
      <4>1. \A r \in Row : rows'[r] # "open"
        BY <3>1 DEF Recover
      <4> QED
        BY <4>1 DEF LeftToRecovery
    <3>2. CASE RecoverFails
      BY <3>2 DEF RecoverFails, LeftToRecovery
    <3> QED
      BY <1>4, <3>1, <3>2
  <2> QED
    BY <2>1, <2>2, <2>3, OneStintKept DEF AttendanceInv
<1>5. CASE UNCHANGED vars
  <2>1. UNCHANGED <<rows, conn, joined, att, join, leave, bye, dead, lost, recovery, faults>>
    BY <1>5 DEF vars, data, handlers, history
  <2>2. TypeOK'
    BY <1>1, <2>1 DEF TypeOK
  <2>3. \A s \in Sockets : SocketInv(s)'
    BY <1>1, <2>1, RowsStay, SocketStays
  <2> QED
    BY <2>1, <2>2, <2>3 DEF AttendanceInv, LeftToRecovery, OneStintAtATime
<1> QED
  BY <1>2, <1>3, <1>4, <1>5 DEF Next

LEMMA AttendanceAlways == Spec => []AttendanceInv
BY AttendanceInit, AttendanceStep, PTL DEF Spec

\* The rows, the connections and what the handlers hold keep their types.
THEOREM TypeCorrect == Spec => []TypeOK
<1>1. AttendanceInv => TypeOK
  BY DEF AttendanceInv
<1> QED
  BY <1>1, AttendanceAlways, PTL

\* Every open row of the attendance is in the hands of somebody who will close
\* it: the socket, one of its handlers, or the recovery at boot; or it is among
\* the rows whose closing was missed.
THEOREM OpenRowsAreInHandAlways == Spec => []OpenRowsAreInHand
<1>1. AttendanceInv => OpenRowsAreInHand
  <2> SUFFICES ASSUME AttendanceInv, NEW r \in Row, rows[r] = "open", r \notin lost
               PROVE  InHand(r[1], r[2])
    BY DEF OpenRowsAreInHand
  <2>1. PICK s \in Sockets, x \in Sessions : r = <<s, x>>
    BY RowsArePairs
  <2>2. CASE s \in dead
    <3>1. recovery # "done"
      BY <2>1, <2>2 DEF AttendanceInv, LeftToRecovery
    <3>2. recovery = "running"
      BY <3>1 DEF AttendanceInv, TypeOK
    <3> QED
      BY <2>1, <2>2, <3>2 DEF InHand
  <2>3. CASE s \notin dead
    BY <2>1, <2>3 DEF AttendanceInv, SocketInv, UnendedIsHeld, Unended, InHand, JoinAt
  <2> QED
    BY <2>2, <2>3
<1> QED
  BY <1>1, AttendanceAlways, PTL

\* A stint whose disconnect handler is through has its real end, whatever the
\* recovery made of it meanwhile.
THEOREM StintsKeepTheirEndAlways == Spec => []StintsKeepTheirEnd
<1>1. AttendanceInv => StintsKeepTheirEnd
  <2> SUFFICES ASSUME AttendanceInv, NEW r \in Row, r \notin lost,
                      bye[r[1]].pc = "done", r[1] \notin dead, rows[r] \notin {"absent", "left"}
               PROVE  FALSE
    BY DEF StintsKeepTheirEnd
  <2>1. PICK s \in Sockets, x \in Sessions : r = <<s, x>>
    BY RowsArePairs
  <2>2. Unended(<<s, x>>)
    BY <2>1 DEF AttendanceInv, TypeOK, LeftAt, Unended
  <2>3. join[s].pc = "inserted" /\ join[s].to = x
    BY <2>1, <2>2 DEF AttendanceInv, SocketInv, UnendedIsHeld
  <2>4. <<s, x>> \in lost
    BY <2>1, <2>3 DEF AttendanceInv, SocketInv, LateRowsAreLost
  <2> QED
    BY <2>1, <2>4
<1> QED
  BY <1>1, AttendanceAlways, PTL

\* A socket is counted in one session at a time, however often its browser
\* switches and whatever overtakes the switch.
THEOREM OneStintAtATimeAlways == Spec => []OneStintAtATime
<1>1. AttendanceInv => OneStintAtATime
  BY DEF AttendanceInv
<1> QED
  BY <1>1, AttendanceAlways, PTL

=============================================================================
