-------------------------- MODULE MCNotifications --------------------------
(* Notifications for TLC: health events belong to one pool, those of a      *)
(* rotation to both, notices to one and tests to none.                      *)
EXTENDS Notifications

CONSTANTS p1, p2, c1, c2

MCPoolsOf == [health |-> {p1}, rotation |-> {p1, p2}, notice |-> {p1}, test |-> {}]
=============================================================================
