----------------------------- MODULE RoomMeshMC -----------------------------
(* The instances of RoomMesh that TLC checks.                               *)
EXTENDS RoomMesh

CONSTANTS t, s

TeacherAndStudent == {t, s}
TheTeacher == {t}
TwoSockets == {1, 2}
ThreeSockets == {1, 2, 3}

=============================================================================
