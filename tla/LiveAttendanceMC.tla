-------------------------- MODULE LiveAttendanceMC --------------------------
(***************************************************************************)
(* Model values for model checking LiveAttendance.                         *)
(***************************************************************************)
EXTENDS LiveAttendance

CONSTANTS s1, s2, x1, x2

TwoSockets == {s1, s2}
TwoSessions == {x1, x2}

\* One browser goes from the first session to the second, or the other way.
OneMoves == {<<s1, x1>>, <<s1, x2>>, <<s2, x1>>}
OneVisit == {<<s1, x1>>}
=============================================================================
