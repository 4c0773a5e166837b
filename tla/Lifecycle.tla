----------------------------- MODULE Lifecycle -----------------------------
(***************************************************************************)
(* The power of one physical cloud instance: its rows of                   *)
(* cloud_lifecycle_operations, cloud_instance_controls and                 *)
(* cloud_traffic_stop_policies under the API (cloud-lifecycle.service.ts), *)
(* the two lanes of each worker (cloud-lifecycle.service.ts of the worker) *)
(* and the lease it shares with address rotation (rotation_leases).        *)
(*                                                                         *)
(* A write to the cloud is open from its dispatch; it takes effect, late   *)
(* or after the death of its worker, or it is lost.  The fence of a check  *)
(* says that the revision of the lease is the one that the check has read. *)
(*                                                                         *)
(* A claim of 120 seconds may run out while its worker is slow, and then   *)
(* another worker claims it.  A lease that has run out is a free one to    *)
(* everybody who looks at it.                                              *)
(***************************************************************************)
EXTENDS Integers

CONSTANTS
  Worker,       \* operation lanes
  Checker,      \* policy lanes
  NoWorker,
  Rotation,     \* holder of the lease that is not an operation
  NoHolder,
  MaxOps,       \* bound: operations of the instance
  MaxEvents     \* bound: requests, changes outside, crashes and lost results

ASSUME LifecycleAssumption ==
  /\ MaxOps \in Nat \ {0} /\ MaxEvents \in Nat
  /\ NoWorker \notin Worker \cup Checker
  /\ {Rotation, NoHolder} \cap (1 .. MaxOps) = {} /\ Rotation # NoHolder

Op == 1 .. MaxOps

VARIABLES
  op,         \* cloud_lifecycle_operations, in the order of creation
  call,       \* the write of an operation at the provider
  job,        \* the operation that a worker processes
  policy,     \* cloud_traffic_stop_policies
  check,      \* the check of the policy that a worker makes
  hold,       \* cloud_instance_controls.power_hold
  lease,      \* holder of rotation_leases while its time has not run out
  rotation,   \* none, an incident that is not complete, an unresolved step
  cloud,      \* power and traffic of the instance
  allowed,    \* the authorization of the actor and of the instance
  bound,      \* a binding, a DNS record or a cleanup refers to its addresses
  events

vars == <<op, call, job, policy, check, hold, lease, rotation, cloud, allowed, bound, events>>

Power == {"running", "stopped", "stopped_allocated", "deleted"}
Usage == {"under", "over"}
Active == {"queued", "in_flight", "unknown"}
Dispatched == {"in_flight", "unknown"}

IsActive(o) == op[o].status \in Active
Target(action) == CASE action = "start" -> "running"
                    [] action = "stop" -> "stopped"
                    [] action = "delete" -> "deleted"

OpRow ==
  [action : {"start", "stop", "delete"}, source : {"user", "traffic"}, revision : Nat,
   status : Active \cup {"none", "succeeded", "failed", "cancelled"},
   holder : Worker \cup {NoWorker}]
JobState ==
  [stage : {"idle", "claimed", "read", "sent"}, op : Op, observing : BOOLEAN,
   reached : BOOLEAN, use : Usage \cup {"unknown"}, rule : Nat]
CheckState ==
  [stage : {"idle", "fenced", "looked"}, revision : Nat, fence : BOOLEAN, seen : Power]

TypeOK ==
  /\ op \in [Op -> OpRow]
  /\ call \in [Op -> {"none", "open", "accepted", "done", "lost"}]
  /\ job \in [Worker -> JobState]
  /\ policy \in [enabled : BOOLEAN, revision : Nat, holder : Checker \cup {NoWorker}]
  /\ check \in [Checker -> CheckState]
  /\ hold \in {"none", "manual_stop", "traffic_limit", "deleted"}
  /\ lease \in Op \cup {Rotation, NoHolder}
  /\ rotation \in {"none", "incident", "step"}
  /\ cloud \in [power : Power, usage : Usage]
  /\ allowed \in BOOLEAN /\ bound \in BOOLEAN /\ events \in 0 .. MaxEvents

NewOp == [action |-> "stop", source |-> "user", revision |-> 0, status |-> "none",
          holder |-> NoWorker]
NoPolicy == [enabled |-> FALSE, revision |-> 0, holder |-> NoWorker]
Idle == [stage |-> "idle", op |-> 1, observing |-> FALSE, reached |-> FALSE,
         use |-> "unknown", rule |-> 0]
NoCheck == [stage |-> "idle", revision |-> 0, fence |-> FALSE,
            seen |-> "stopped"]

Init ==
  /\ op = [o \in Op |-> NewOp] /\ call = [o \in Op |-> "none"]
  /\ job = [w \in Worker |-> Idle] /\ check = [k \in Checker |-> NoCheck]
  /\ policy \in {NoPolicy, [NoPolicy EXCEPT !.enabled = TRUE, !.revision = 1]}
  /\ cloud \in [power : {"running", "stopped"}, usage : {"under", "over"}]
  /\ hold = IF cloud.power = "stopped" THEN "manual_stop" ELSE "none"
  /\ lease = NoHolder
  /\ rotation = "none" /\ allowed = TRUE /\ bound = FALSE /\ events = 0

Event == events < MaxEvents /\ events' = events + 1

\* A revision of the lease makes every check that has read the one before stale.
Unfenced == [k \in Checker |-> [check[k] EXCEPT !.fence = FALSE]]

\* instanceLifecycleBlocksRotation
BlocksRotation == hold # "none" \/ \E o \in Op : IsActive(o)

\* lifecycleAuthorizationError: deleted rows are marked as not present.
Authorized == allowed /\ hold # "deleted"

\* lifecycleDeleteProtection, without the lease of an operation's own dispatch.
Protected == bound \/ rotation # "none" \/ lease # NoHolder

-----------------------------------------------------------------------------
(* Requests of users.                                                      *)

\* An operation takes the first free row.
Inserts(row) ==
  \E o \in Op :
    /\ op[o].status = "none" /\ \A p \in Op : p < o => op[p].status # "none"
    /\ op' = [op EXCEPT ![o] = row]

Request(action) ==
  /\ Event
  /\ Authorized /\ cloud.power # "deleted"
  /\ \A o \in Op : ~IsActive(o)
  /\ action = "start" /\ policy.enabled => cloud.usage = "under"
  /\ action = "delete" => ~Protected
  /\ Inserts([NewOp EXCEPT !.action = action, !.status = "queued"])
  /\ UNCHANGED <<call, job, policy, check, hold, lease, rotation, cloud, allowed, bound>>

\* PUT of the policy; another threshold may change what the usage means.
SetPolicy(on, usage) ==
  /\ Event
  /\ on => Authorized /\ cloud.power # "deleted"
  /\ ~on => usage = cloud.usage
  /\ policy' = [enabled |-> on, revision |-> policy.revision + 1, holder |-> NoWorker]
  /\ op' = [o \in Op |->
             IF op[o].source = "traffic" /\ op[o].status = "queued"
               THEN [op[o] EXCEPT !.status = "cancelled"] ELSE op[o]]
  /\ cloud' = [cloud EXCEPT !.usage = usage]
  /\ UNCHANGED <<call, job, check, hold, lease, rotation, allowed, bound>>

\* The account is removed and imported again: what it has queued is gone.
RemoveAccount ==
  /\ Event
  /\ \A o \in Op : op[o].status \notin Dispatched
  /\ rotation # "step"
  /\ op' = [o \in Op |-> IF op[o].status = "queued"
                           THEN [op[o] EXCEPT !.status = "cancelled", !.holder = NoWorker]
                           ELSE op[o]]
  /\ policy' = NoPolicy /\ check' = [k \in Checker |-> NoCheck]
  /\ lease' = NoHolder
  /\ rotation' = "none" /\ allowed' = FALSE
  /\ UNCHANGED <<call, job, hold, cloud, bound>>

\* An address gets or loses a reference; a delete that is active keeps it free.
Refer ==
  /\ Event
  /\ ~bound => ~\E o \in Op : IsActive(o) /\ op[o].action = "delete"
  /\ bound' = ~bound
  /\ UNCHANGED <<op, call, job, policy, check, hold, lease, rotation, cloud, allowed>>

Authorize ==
  /\ Event
  /\ allowed' = ~allowed
  /\ UNCHANGED <<op, call, job, policy, check, hold, lease, rotation, cloud, bound>>

\* The console of the provider, and the month.
Outside(power, usage) ==
  /\ Event
  /\ cloud.power # "deleted" /\ power # "deleted"
  /\ cloud' = [power |-> power, usage |-> usage] /\ cloud' # cloud
  /\ UNCHANGED <<op, call, job, policy, check, hold, lease, rotation, allowed, bound>>

-----------------------------------------------------------------------------
(* The operation lane of a worker.                                         *)

Working(o) == \E w \in Worker :
                op[o].holder = w /\ job[w].stage # "idle" /\ job[w].op = o

\* Mutant of Claimable: a claim does not run out.
ClaimableOnce(o) == op[o].holder = NoWorker /\ UNCHANGED events

\* The claim of a worker that has crashed runs out; that of a slow one may.
Claimable(o) == IF Working(o) THEN Event ELSE UNCHANGED events

\* Mutant of Observes: an operation in flight is dispatched again.
ObservesUnknown(o) == op[o].status = "unknown"

Observes(o) == op[o].status # "queued"

ClaimOperation(w) ==
  /\ job[w].stage = "idle"
  /\ \E o \in Op :
       /\ IsActive(o) /\ Claimable(o)
       /\ op' = [op EXCEPT ![o].holder = w]
       /\ job' = [job EXCEPT ![w] = [Idle EXCEPT !.stage = "claimed", !.op = o,
                                                 !.observing = Observes(o)]]
  /\ UNCHANGED <<call, policy, check, hold, lease, rotation, cloud, allowed, bound>>

\* The traffic is read for an automatic stop, and for a start that a policy limits.
Read(w) ==
  LET o == job[w].op
      asks == /\ ~job[w].observing /\ policy.enabled
              /\ op[o].source = "traffic" \/ op[o].action = "start"
  IN  /\ job[w].stage = "claimed"
      /\ job[w].observing \/ cloud.power # "deleted"
      /\ job' = [job EXCEPT ![w].stage = "read",
                            ![w].reached = cloud.power = Target(op[o].action),
                            ![w].rule = IF asks THEN policy.revision ELSE 0,
                            ![w].use = IF asks THEN cloud.usage ELSE "unknown"]
      /\ UNCHANGED <<op, call, policy, check, hold, lease, rotation, cloud, allowed, bound, events>>

Ends(w) == job' = [job EXCEPT ![w] = Idle]
Mine(w) == op[job[w].op].holder = w

Released(row, status) == [row EXCEPT !.status = status, !.holder = NoWorker]

\* defer
Deferred(w, status) ==
  op' = IF Mine(w) THEN [op EXCEPT ![job[w].op] = Released(@, status)] ELSE op

HoldAfter(o) == CASE op[o].action = "start" -> "none"
                  [] op[o].action = "delete" -> "deleted"
                  [] op[o].action = "stop" -> IF op[o].source = "traffic" THEN "traffic_limit"
                                                                           ELSE "manual_stop"

\* finish
Finished(w, status) ==
  LET o == job[w].op
      success == status = "succeeded"
  IN  IF ~Mine(w) THEN UNCHANGED <<op, hold, policy, check, lease>>
      ELSE /\ op' = [op EXCEPT ![o] = Released(@, status)]
           /\ hold' = IF success THEN HoldAfter(o) ELSE hold
           /\ policy' = IF success /\ op[o].action = "delete"
                          THEN [policy EXCEPT !.enabled = FALSE] ELSE policy
           /\ check' = IF success THEN Unfenced ELSE check
           /\ lease' = IF lease = o THEN NoHolder ELSE lease

\* A read or the transaction of the dispatch fails.
Fails(w) ==
  /\ job[w].stage \in {"claimed", "read"}
  /\ Event
  /\ IF job[w].observing THEN Deferred(w, "unknown") /\ UNCHANGED <<hold, policy, check, lease>>
                         ELSE Finished(w, "failed")
  /\ Ends(w)
  /\ UNCHANGED <<call, rotation, cloud, allowed, bound>>

\* The instance is gone before the dispatch.
Missing(w) ==
  /\ job[w].stage = "claimed" /\ ~job[w].observing /\ cloud.power = "deleted"
  /\ Finished(w, "failed")
  /\ Ends(w)
  /\ UNCHANGED <<call, rotation, cloud, allowed, bound, events>>

Current(w) == Mine(w) /\ IsActive(job[w].op)
Reached(w) == job[w].reached

Stale(w) ==
  /\ job[w].stage = "read" /\ ~Current(w)
  /\ Ends(w)
  /\ UNCHANGED <<op, call, policy, check, hold, lease, rotation, cloud, allowed, bound, events>>

Observe(w) ==
  /\ job[w].stage = "read" /\ Current(w) /\ job[w].observing
  /\ \/ Reached(w) /\ Finished(w, "succeeded")
     \/ /\ ~Reached(w)
        /\ \E status \in {op[job[w].op].status, "unknown"} : Deferred(w, status)
        /\ UNCHANGED <<hold, policy, check, lease>>
  /\ Ends(w)
  /\ UNCHANGED <<call, rotation, cloud, allowed, bound, events>>

\* The conditions of the dispatch in their order.
Dispatching(w) == job[w].stage = "read" /\ Current(w) /\ ~job[w].observing

Revoked(w) ==
  LET o == job[w].op IN
  \/ ~Authorized
  \/ /\ op[o].source = "traffic"
     /\ \/ ~policy.enabled \/ policy.revision # op[o].revision
        \/ policy.revision # job[w].rule \/ job[w].use # "over"
  \/ op[o].action = "start" /\ policy.enabled
     /\ (policy.revision # job[w].rule \/ job[w].use # "under")

\* Mutant of LeaseIsBusy: a step that is not confirmed does not keep the instance.
LeaseIsHeld(o) == lease \notin {NoHolder, o}

LeaseIsBusy(o) == rotation = "step" \/ lease \notin {NoHolder, o}

Cancel(w) ==
  /\ Dispatching(w)
  /\ Revoked(w) \/ (op[job[w].op].action = "delete" /\ ~LeaseIsBusy(job[w].op) /\ Protected)
  /\ Finished(w, "cancelled")
  /\ Ends(w)
  /\ UNCHANGED <<call, rotation, cloud, allowed, bound, events>>

Admissible(w) ==
  /\ Dispatching(w) /\ ~Revoked(w) /\ ~LeaseIsBusy(job[w].op)
  /\ op[job[w].op].action = "delete" => ~Protected

\* Postponed: the instance is busy, or the account is at its limit.
Postpone(w) ==
  /\ Deferred(w, "queued") /\ Ends(w)
  /\ UNCHANGED <<call, policy, check, hold, lease, rotation, cloud, allowed, bound>>
DeferBusy(w) ==
  /\ Dispatching(w) /\ ~Revoked(w) /\ LeaseIsBusy(job[w].op)
  /\ Postpone(w) /\ UNCHANGED events
DeferLimited(w) == Admissible(w) /\ ~Reached(w) /\ Event /\ Postpone(w)

FindReached(w) ==
  /\ Admissible(w) /\ Reached(w)
  /\ Finished(w, "succeeded")
  /\ Ends(w)
  /\ UNCHANGED <<call, rotation, cloud, allowed, bound, events>>

Dispatch(w) ==
  LET o == job[w].op IN
  /\ Admissible(w) /\ ~Reached(w)
  /\ op' = [op EXCEPT ![o].status = "in_flight"]
  /\ lease' = o /\ check' = Unfenced
  /\ call' = [call EXCEPT ![o] = "open"]
  /\ job' = [job EXCEPT ![w].stage = "sent"]
  /\ UNCHANGED <<policy, hold, rotation, cloud, allowed, bound, events>>

\* The provider has answered, or the time of the call has run out.
Answer(w) ==
  LET o == job[w].op IN
  /\ job[w].stage = "sent"
  /\ \/ /\ call[o] \in {"open", "done"}
        /\ call' = [call EXCEPT ![o] = IF @ = "open" THEN "accepted" ELSE @]
        /\ Deferred(w, "in_flight")
     \/ Deferred(w, "unknown") /\ UNCHANGED call
  /\ Ends(w)
  /\ UNCHANGED <<policy, check, hold, lease, rotation, cloud, allowed, bound, events>>

Throttled(w) ==
  LET o == job[w].op IN
  /\ job[w].stage = "sent" /\ call[o] = "open" /\ Event
  /\ call' = [call EXCEPT ![o] = "none"]
  /\ Deferred(w, "queued")
  /\ lease' = IF lease = o THEN NoHolder ELSE lease
  /\ Ends(w)
  /\ UNCHANGED <<policy, check, hold, rotation, cloud, allowed, bound>>

Refused(w) ==
  /\ job[w].stage = "sent" /\ call[job[w].op] = "open" /\ Event
  /\ call' = [call EXCEPT ![job[w].op] = "lost"]
  /\ Finished(w, "failed")
  /\ Ends(w)
  /\ UNCHANGED <<rotation, cloud, allowed, bound>>

\* Neither transaction that keeps the result commits, the last one does.
ResultLost(w) ==
  /\ job[w].stage = "sent" /\ Event
  /\ Finished(w, "failed")
  /\ Ends(w)
  /\ UNCHANGED <<call, rotation, cloud, allowed, bound>>

Crash(w) ==
  /\ job[w].stage # "idle" /\ Event
  /\ Ends(w)
  /\ UNCHANGED <<op, call, policy, check, hold, lease, rotation, cloud, allowed, bound>>

-----------------------------------------------------------------------------
(* The policy lane of a worker.                                            *)

\* The claim, and the revision of the lease before the look at the instance.
ClaimPolicy(k) ==
  /\ check[k].stage = "idle"
  /\ policy.enabled /\ Authorized
  /\ policy' = [policy EXCEPT !.holder = k]
  /\ check' = [check EXCEPT ![k] = [NoCheck EXCEPT !.stage = "fenced", !.fence = TRUE,
                                                  !.revision = policy.revision]]
  /\ UNCHANGED <<op, call, job, hold, lease, rotation, cloud, allowed, bound, events>>

\* The traffic is found over its threshold.  A look that fails or finds less
\* ends as CheckEnds does.
Look(k) ==
  /\ check[k].stage = "fenced" /\ cloud.usage = "over"
  /\ check' = [check EXCEPT ![k].stage = "looked", ![k].seen = cloud.power]
  /\ UNCHANGED <<op, call, job, policy, hold, lease, rotation, cloud, allowed, bound, events>>

Owns(k) == policy.enabled /\ policy.revision = check[k].revision /\ policy.holder = k

\* In vain, or the worker dies and its claim runs out.
CheckEnds(k) ==
  /\ check[k].stage # "idle"
  /\ check' = [check EXCEPT ![k] = NoCheck]
  /\ policy' = IF Owns(k) THEN [policy EXCEPT !.holder = NoWorker] ELSE policy
  /\ UNCHANGED <<op, call, job, hold, lease, rotation, cloud, allowed, bound, events>>

Valid(k) == Owns(k) /\ check[k].fence /\ Authorized

Holds(k) == check[k].seen = "stopped"
Stops(k) == check[k].seen \in {"running", "stopped_allocated"}

Commit(k) ==
  LET acts == Valid(k) /\ ~\E o \in Op : IsActive(o)
  IN  /\ check[k].stage = "looked"
      /\ check' = [check EXCEPT ![k] = NoCheck]
      /\ policy' = IF Owns(k) THEN [policy EXCEPT !.holder = NoWorker] ELSE policy
      /\ hold' = IF acts /\ Holds(k) THEN "traffic_limit" ELSE hold
      /\ IF acts /\ Stops(k)
           THEN Inserts([NewOp EXCEPT !.source = "traffic", !.status = "queued",
                                      !.revision = policy.revision])
           ELSE UNCHANGED op
      /\ UNCHANGED <<call, job, lease, rotation, cloud, allowed, bound, events>>

-----------------------------------------------------------------------------
(* The provider and the rotation of addresses.                             *)

TakeEffect(o) ==
  /\ call[o] \in {"open", "accepted"}
  /\ call' = [call EXCEPT ![o] = "done"]
  /\ cloud' = IF cloud.power = "deleted" THEN cloud
                                         ELSE [cloud EXCEPT !.power = Target(op[o].action)]
  /\ UNCHANGED <<op, job, policy, check, hold, lease, rotation, allowed, bound, events>>

Vanish(o) ==
  /\ call[o] = "open" /\ Event
  /\ call' = [call EXCEPT ![o] = "lost"]
  /\ UNCHANGED <<op, job, policy, check, hold, lease, rotation, cloud, allowed, bound>>

\* createRotationIncident, and its completion.
Incident ==
  /\ \/ rotation = "none" /\ Authorized /\ ~BlocksRotation /\ rotation' = "incident"
     \/ rotation = "incident" /\ rotation' = "none"
  /\ UNCHANGED <<op, call, job, policy, check, hold, lease, cloud, allowed, bound, events>>

\* acquireRotationLease
AcquireLease ==
  /\ rotation # "none" /\ Event
  /\ lease = NoHolder
  /\ lease' = Rotation /\ check' = Unfenced
  /\ UNCHANGED <<op, call, job, policy, hold, rotation, cloud, allowed, bound>>

StepIsAdmitted == lease = Rotation /\ Authorized /\ ~BlocksRotation

\* A step is dispatched; its result is kept whoever holds the lease then.
Step ==
  /\ \/ rotation = "incident" /\ StepIsAdmitted /\ rotation' = "step"
     \/ rotation = "step" /\ rotation' = "incident"
  /\ UNCHANGED <<op, call, job, policy, check, hold, lease, cloud, allowed, bound, events>>

\* finish and releaseRotationLease, or the time of the lease runs out.
FreeLease ==
  /\ lease # NoHolder /\ lease' = NoHolder
  /\ UNCHANGED <<op, call, job, policy, check, hold, rotation, cloud, allowed, bound, events>>

-----------------------------------------------------------------------------
Process(w) == \/ Read(w) \/ Missing(w) \/ Stale(w) \/ Observe(w) \/ Cancel(w)
              \/ DeferBusy(w) \/ FindReached(w) \/ Dispatch(w) \/ Answer(w)
Fault(w) == Fails(w) \/ DeferLimited(w) \/ Throttled(w) \/ Refused(w) \/ ResultLost(w)
              \/ Crash(w)

OperationLane(w) == ClaimOperation(w) \/ Process(w) \/ Fault(w)
PolicyLane(k) == ClaimPolicy(k) \/ Look(k) \/ Commit(k) \/ CheckEnds(k)

Next ==
  \/ \E action \in {"start", "stop", "delete"} : Request(action)
  \/ \E on \in BOOLEAN, usage \in Usage : SetPolicy(on, usage)
  \/ RemoveAccount \/ Refer \/ Authorize
  \/ \E power \in Power, usage \in Usage : Outside(power, usage)
  \/ \E w \in Worker : OperationLane(w)
  \/ \E k \in Checker : PolicyLane(k)
  \/ \E o \in Op : TakeEffect(o) \/ Vanish(o)
  \/ Incident \/ AcquireLease \/ Step \/ FreeLease

\* The timer of the lanes, the clock, the provider, and the jobs of a rotation.
Fairness ==
  /\ \A w \in Worker : WF_vars(ClaimOperation(w)) /\ WF_vars(Process(w))
  /\ \A o \in Op : WF_vars(TakeEffect(o))
  /\ WF_vars(FreeLease) /\ WF_vars(rotation = "step" /\ Step)

Spec == Init /\ [][Next]_vars /\ Fairness

-----------------------------------------------------------------------------
\* While the write of an operation is dispatched and not confirmed, no step of
\* a rotation is, and nothing refers to the addresses of a machine that is
\* being deleted (dispatch transaction, instanceLifecycleBlocksRotation,
\* instanceLifecycleAddressDeleting).
DispatchedIsAlone ==
  \A o \in Op : op[o].status \in Dispatched =>
    rotation # "step" /\ (op[o].action = "delete" => ~bound)

\* A worker sends the write of an operation only when none has been sent that
\* the provider has not refused: after a crash or a time-out it observes
\* ("Never repeat an uncertain write").
WritesAreNotRepeated ==
  [][\A w \in Worker : job'[w].stage = "sent" /\ job[w].stage # "sent"
       => call[job[w].op] = "none"]_vars

\* The write was lost, or somebody else has changed what it has made.
Unanswerable(o) ==
  /\ op[o].status \in Dispatched
  /\ call[o] \in {"none", "lost"} \/ (call[o] = "done" /\ cloud.power # Target(op[o].action))

\* An operation ends, through crashes, time-outs and refusals, unless it is
\* unanswerable: then it is observed for ever (cloud-lifecycle.service.ts:177).
OperationsEnd == \A o \in Op : IsActive(o) ~> (~IsActive(o) \/ Unanswerable(o))

=============================================================================
