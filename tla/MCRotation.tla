----------------------------- MODULE MCRotation -----------------------------
(***************************************************************************)
(* Two incidents of one instance and two workers, within either of two     *)
(* bounds: one incident alone with the whole of its plan, its attempts and *)
(* the claims they need, or rivals that make one attempt each.             *)
(***************************************************************************)
EXTENDS Rotation, TLC

\* The incidents and the workers are interchangeable.
RotationSymmetry == Permutations(Incident) \cup Permutations(Job)

Started == {i \in Incident : inc[i].phase # "none"}

\* A termination withdraws the authorization as well (rotation-termination.ts:32).
Changes(i) == IF inc[i].terminated /\ revision[i] > 0 THEN revision[i] - 1 ELSE revision[i]

\* One incident, run by one worker at a time: with four claims, two out of a
\* recovery, a change of the authorization and a new segment of the budget; with
\* five, one of them.
Alone ==
  /\ Cardinality(Started) <= 1
  /\ \A i \in Started : inc[i].recoveries + Changes(i) + inc[i].segments
                          <= IF lease.revision <= 4 THEN 3 ELSE 2
  /\ \A i \in Incident \ Started :
       revision[i] = 0 /\ (slot[i].candidate => slot[i].version > 1)
  /\ \E j \in Job : /\ \A k \in Job \ {j} : job[k] = IdleJob
                    /\ \A f \in Fence : write[f].by \in {None, j}

\* Both incidents are there before the first of three claims: one of them asks for
\* the instance while the call of the other is open or late.
Rivals ==
  /\ Started # Incident => lease.revision = 0
  /\ lease.revision <= 3
  /\ \A i \in Incident :
       /\ inc[i].attempts <= 1 /\ inc[i].segments <= 1
       /\ inc[i].recoveries = 0 /\ Changes(i) = 0

Bounds == Alone \/ Rivals

BoundedSpec == Init /\ [][Next /\ Bounds']_vars
=============================================================================
