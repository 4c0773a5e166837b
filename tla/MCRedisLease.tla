---------------------------- MODULE MCRedisLease ----------------------------
(***************************************************************************)
(* RedisLease for TLC: a late command of one call meets the key of another *)
(* one, with every timer able to run out before and after the answer.      *)
(***************************************************************************)
EXTENDS RedisLease, TLC

CallSymmetry == Permutations(Session)

=============================================================================
