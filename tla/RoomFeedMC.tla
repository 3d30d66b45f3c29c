----------------------------- MODULE RoomFeedMC -----------------------------
(***************************************************************************)
(* Model values for model checking RoomFeed.                               *)
(***************************************************************************)
EXTENDS RoomFeed, TLC

CONSTANTS v1, v2

OneViewer == {v1}
TwoViewers == {v1, v2}
TwoItems == 1 .. 2
OneItem == {1}
=============================================================================
