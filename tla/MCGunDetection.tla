--------------------------- MODULE MCGunDetection ---------------------------
(* A person over both edges, one inside the frame, and one of whom only a  *)
(* pixel is in it; the right gun leaves the frame.                         *)
EXTENDS GunDetection

Person(left, width) == [left |-> left, width |-> width]

MCPeople == {Person(-1, 12), Person(4, 3), Person(9, 3)}

ASSUME GunsApartHere == GunsApart
ASSUME GunsLeave == \E pan0 \in Pans, gun \in Guns : gun + pan0 \notin 0..Width - 1
=============================================================================
