---------------------------- MODULE SessionPageMC ---------------------------
(* The instance TLC checks.                                                 *)
EXTENDS SessionPage

\* One viewer of each role, one at a time.
BothRoles == {"TEACHER", "STUDENT"}
Student == {"STUDENT"}
=============================================================================
