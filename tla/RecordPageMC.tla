---------------------------- MODULE RecordPageMC ----------------------------
(***************************************************************************)
(* A teacher's page with its devices and one participant, and a second     *)
(* page on the same session: takes of three slices and of one, two of      *)
(* which make a part, two uploads, one fault.                              *)
(***************************************************************************)
EXTENDS RecordPage

CONSTANTS r1, r2, p1

TwoPages == {r1, r2}
OneParticipant == {p1}
ThreeAndOne == [r \in TwoPages |-> IF r = r1 THEN 3 ELSE 1]
=============================================================================
