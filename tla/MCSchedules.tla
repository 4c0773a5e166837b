---------------------------- MODULE MCSchedules ----------------------------
(***************************************************************************)
(* Three incidents: one that is linked, one that another trigger begins    *)
(* before the scan sees the end of the first, and a scheduled one.         *)
(***************************************************************************)
EXTENDS Schedules
=============================================================================
