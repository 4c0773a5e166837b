---------------------------- MODULE MCOperations ----------------------------
(* Operations for TLC: the steps of each kind of operation.                *)
EXTENDS Operations, TLC

CONSTANTS b1, w1, w2, r1, r2

OneBinding == [k \in StepNo |-> b1]

Planned(kind, actions) ==
  {[kind |-> kind, action |-> a] : a \in {f \in [StepNo -> Action] :
      \A k \in StepNo : f[k] \in actions[k]}}

\* A publication that creates or changes a record and removes another one,
\* the deletion of a binding, and a creation by a user.
AllPlans ==
  Planned("pool", [k \in StepNo |-> IF k = 1 THEN {"create", "update"} ELSE {"delete"}])
  \cup Planned("binding", [k \in StepNo |-> {"delete"}])
  \cup Planned("record", [k \in StepNo |-> {"create"}])
=============================================================================
