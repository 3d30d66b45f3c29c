--------------------------- MODULE CourseAccessMC ---------------------------
(* The instance TLC checks.                                                 *)
EXTENDS CourseAccess

CONSTANTS Teacher, Student, Guest, Slides, Playback

ThreePeople == {Teacher, Student, Guest}
OneGuest == {Guest}
OneFile == {Slides}
=============================================================================
