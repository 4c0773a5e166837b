------------------------------ MODULE MCProbes ------------------------------
(***************************************************************************)
(* One remote probe, and the worker where the policy is mixed; any failure *)
(* that is reported decides.                                               *)
(***************************************************************************)
EXTENDS Probes, TLC

MCConsensus == [mode |-> "any", minimumValid |-> 1, failureVotes |-> 1, specified |-> Local]

Alike == Permutations(Value)
=============================================================================
