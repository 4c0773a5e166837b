---------------------------- MODULE MCLifecycle ----------------------------
(***************************************************************************)
(* Two workers and two operations: one that is processed twice, and one    *)
(* that meets what the first has left.                                     *)
(***************************************************************************)
EXTENDS Lifecycle
=============================================================================
