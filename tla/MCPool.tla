------------------------------- MODULE MCPool -------------------------------
(***************************************************************************)
(* A pool of two endpoints and one name.                                   *)
(***************************************************************************)
EXTENDS Pool

Single == [strategy |-> "assignment_pool", selection |-> "round_robin", recovery |-> "automatic"]
Set == [strategy |-> "healthy_set", selection |-> "ordered", recovery |-> "keep_current"]

MCSettings == {Single, Set}
\* A pool of one endpoint per name becomes a healthy set, and one again.
BothWays == {<<Single, Set>>, <<Set, Single>>}
Begin(present, setting, start, spent) ==
  [present |-> present, setting |-> setting, start |-> [b \in Binding |-> start],
   spent |-> spent]
MCBeginnings ==
  {Begin({1, 2}, Single, "published", 1), Begin({1, 2}, Set, "published", 1),
   Begin({1}, Set, "clean", 0), Begin({1}, Single, "foreign", 1)}
MCVersions == <<2, 1>>
\* Both thresholds are 1: an address is never degraded or recovering.
MCReached == {"unknown", "healthy", "unhealthy"}
=============================================================================
