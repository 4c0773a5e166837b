--------------------------- MODULE MCPublication ---------------------------
(***************************************************************************)
(* Two slots of one pool, one of which may rotate twice.                   *)
(***************************************************************************)
EXTENDS Publication

MCAddresses == <<2, 2>>
=============================================================================
