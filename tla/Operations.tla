----------------------------- MODULE Operations -----------------------------
(***************************************************************************)
(* The execution of one DNS operation by the operation workers:            *)
(* apps/worker/src/operations/operation.processor.ts, with everything else *)
(* that writes the rows of the operation: the retry of                     *)
(* apps/api/src/modules/operations/operations.service.ts, the retry by the *)
(* rotation publication, the cancellations by termination, reset and       *)
(* account deletion, and the deletion of a domain binding.                 *)
(*                                                                         *)
(* An operation is a sequence of steps, each a change of a DNS record at a *)
(* provider.  A job of the operations queue runs the steps that are left,  *)
(* under the Redis lease of the operation, and each step under the lease   *)
(* of its DNS zone (module RedisLease).  A job that has lost a lease does  *)
(* not notice before its next assertOwned.  The provider is called inside  *)
(* a database transaction that holds the pool lock and the rows of the     *)
(* operation and of the step.                                              *)
(*                                                                         *)
(* Every action is one transaction or one answer that the code awaits.     *)
(***************************************************************************)
EXTENDS Integers, FiniteSets

CONSTANTS Worker,       \* jobs that can run at a time
          Request,      \* retries, by users and by the publication
          Binding,      \* domain bindings
          None,         \* nobody
          StepCount,    \* number of steps of the operation
          BindingOf,    \* the binding a step is for
          Plans,        \* the kinds of operations, and their steps, to start with
          MaxFaults     \* bound on failures, crashes and lost leases

StepNo == 1 .. StepCount
Action == {"create", "update", "delete"}

\* "pool": planned by a reconcile, valid for one decision of the pool;
\* "binding": the deletion of a binding; "record": a change by a user.
Plan == [kind : {"pool", "binding", "record"}, action : [StepNo -> Action]]

ASSUME OperationsAssumption ==
  /\ None \notin Worker
  /\ StepCount \in Nat \ {0} /\ MaxFaults \in Nat
  /\ BindingOf \in [StepNo -> Binding]
  /\ Plans \subseteq Plan
  /\ \A p \in Plans : p.kind = "binding" =>
       /\ p.action = [k \in StepNo |-> "delete"]
       /\ \A k, m \in StepNo : BindingOf[k] = BindingOf[m]

VARIABLES
  plan,      \* operations.resource_type, operation_steps.action
  status,    \* operations.status
  steps,     \* operation_steps
  binding,   \* domain_bindings
  current,   \* which revisions of the pool are still those of the operation
  owner,     \* the holder of the Redis lease of the operation
  zone,      \* the holder of the Redis lease of the zone of a step
  tx,        \* the job whose executeStep transaction is open
  job,       \* OperationProcessor.processLocked in each worker
  provider,  \* what the calls for a step did at the provider
  request,   \* OperationsService.retry
  faults     \* number of faults so far

\* What the transactions of the operation write, what the pool has, and the
\* rest of the world.
rows == <<status, steps>>
pool == <<plan, binding, current>>
leases == <<owner, zone>>
outside == <<provider, request, faults>>

vars == <<rows, pool, leases, tx, job, outside>>

-----------------------------------------------------------------------------
OperationStatus == {"pending", "running", "succeeded", "partial", "failed",
                    "superseded"}

StepRow == [status : {"pending", "running", "succeeded", "failed", "skipped"},
            tried : BOOLEAN]   \* attempts > 0

\* endpoint_pools.policy_revision and decision_revision.
Revision == {"policy", "decision"}

\* "deleting": a deletion of the binding is planned, running or has failed.
BindingState == {"switching", "healthy", "failed", "deleting", "gone"}

JobState ==
  [pc : {"idle", "started", "claiming", "stepping", "preparing", "prepared",
         "looking", "waiting", "verifying", "failing", "superseding",
         "finalizing"},
   step : 1 .. StepCount + 1,
   tried : BOOLEAN,                     \* attempts > 0 when the step was read
   final : BOOLEAN,                     \* finalAttempt
   call : {"none", "open", "landed"}]   \* the call the job waits for

\* done: how often the change was made; late: calls nobody waits for that may
\* still have an effect; lateDone: how many of those had one.
ProviderState == [done : Nat, late : Nat, lateDone : Nat]

TypeOK ==
  /\ plan \in Plans
  /\ status \in OperationStatus
  /\ steps \in [StepNo -> StepRow]
  /\ binding \in [Binding -> BindingState]
  /\ current \subseteq Revision
  /\ owner \in Worker \cup {None}
  /\ zone \in [StepNo -> Worker \cup {None}]
  /\ tx \in Worker \cup {None}
  /\ job \in [Worker -> JobState]
  /\ provider \in [StepNo -> ProviderState]
  /\ request \in [Request -> {"idle", "read", "done"}]
  /\ faults \in 0 .. MaxFaults

IdleJob == [pc |-> "idle", step |-> 1, tried |-> FALSE, final |-> FALSE,
            call |-> "none"]

Init ==
  /\ plan \in Plans
  /\ status = "pending"
  /\ steps = [k \in StepNo |-> [status |-> "pending", tried |-> FALSE]]
  /\ binding = [b \in Binding |-> "switching"]
  /\ current = Revision
  /\ owner = None
  /\ zone = [k \in StepNo |-> None]
  /\ tx = None
  /\ job = [w \in Worker |-> IdleJob]
  /\ provider = [k \in StepNo |-> [done |-> 0, late |-> 0, lateDone |-> 0]]
  /\ request = [r \in Request |-> "idle"]
  /\ faults = 0

-----------------------------------------------------------------------------
\* isTerminalOperationStatus, and the check of lockActiveOperation.
Terminal(s) == s \in {"succeeded", "partial", "failed", "superseded"}
Active == ~Terminal(status)

Unfinished == {"pending", "running"}
Settled == {"succeeded", "skipped"}

\* isOperationDecisionCurrent, where the operation has a decision.
Stale == plan.kind = "pool" /\ current # Revision

\* A transaction that locks the pool or the operation waits for the one that
\* has called the provider.  An edit of the policy and the end of a deletion
\* lock neither.
Unlocked == tx = None

Fault == faults < MaxFaults /\ faults' = faults + 1

Goes(w, pc) == job' = [job EXCEPT ![w].pc = pc]

\* The job goes on with the next step.
GoesOn(w) ==
  job' = [job EXCEPT ![w] = [IdleJob EXCEPT !.pc = "stepping",
                                            !.step = job[w].step + 1]]

\* The job is over, by its result or an error, and gives the lease back.
Ends(w) ==
  /\ job' = [job EXCEPT ![w] = IdleJob]
  /\ owner' = IF owner = w THEN None ELSE owner

\* withDnsZoneLock is over.
LeavesZone(w) ==
  LET k == job[w].step IN
  zone' = IF zone[k] = w THEN [zone EXCEPT ![k] = None] ELSE zone

Failed(k) == steps[k].status = "failed"

StepsOf(b) == {k \in StepNo : BindingOf[k] = b}

SkipUnfinished ==
  steps' = [k \in StepNo |->
    IF steps[k].status \in Unfinished THEN [steps[k] EXCEPT !.status = "skipped"]
    ELSE steps[k]]

-----------------------------------------------------------------------------
(* processLocked *)

\* A job of the queue, first or again, or one made by recoverPending.
Start(w) ==
  /\ job[w].pc = "idle" /\ owner = None
  /\ owner' = w
  /\ Goes(w, "started")
  /\ UNCHANGED <<rows, pool, zone, tx, outside>>

\* The operation, and the revisions of the pool, as they are now.
ReadOperation(w) ==
  /\ job[w].pc = "started"
  /\ \/ (Terminal(status) \/ owner # w) /\ Ends(w)
     \/ /\ ~Terminal(status) /\ owner = w
        /\ Goes(w, IF Stale THEN "superseding" ELSE "claiming")
        /\ UNCHANGED owner
  /\ UNCHANGED <<rows, pool, zone, tx, outside>>

\* Mutant of Claim: an operation that a crashed job has claimed is not claimed
\* again.
ClaimPending(w) ==
  /\ job[w].pc = "claiming" /\ Unlocked
  /\ IF status = "pending"
     THEN status' = "running" /\ Goes(w, "stepping") /\ UNCHANGED owner
     ELSE Ends(w) /\ UNCHANGED status
  /\ UNCHANGED <<steps, pool, zone, tx, outside>>

Claim(w) ==
  /\ job[w].pc = "claiming" /\ Unlocked
  /\ IF status \in Unfinished
     THEN status' = "running" /\ Goes(w, "stepping") /\ UNCHANGED owner
     ELSE Ends(w) /\ UNCHANGED status
  /\ UNCHANGED <<steps, pool, zone, tx, outside>>

LastStepDone(w) ==
  /\ job[w].pc = "stepping" /\ owner = w
  /\ job[w].step = StepCount + 1
  /\ Goes(w, "finalizing")
  /\ UNCHANGED <<rows, pool, leases, tx, outside>>

\* Under the lease of the zone the step is read again; one that was finished
\* in the meantime is passed over.
EnterStep(w) ==
  LET k == job[w].step IN
  /\ job[w].pc = "stepping" /\ owner = w
  /\ k \in StepNo
  /\ \/ /\ steps[k].status \notin Unfinished
        /\ GoesOn(w) /\ UNCHANGED zone
     \/ /\ steps[k].status \in Unfinished /\ zone[k] = None
        /\ zone' = [zone EXCEPT ![k] = w]
        /\ job' = [job EXCEPT ![w].pc = "preparing", ![w].tried = steps[k].tried]
  /\ UNCHANGED <<rows, pool, owner, tx, outside>>

\* operationLease.assertOwned throws, between two steps or once the job has the
\* lease of the zone, where it counts as a failure of the step.
NoticesLoss(w) ==
  /\ job[w].pc = "stepping" /\ owner # w
  /\ \/ Ends(w)
     \/ /\ job[w].step \in StepNo
        /\ job' = [job EXCEPT ![w].pc = "failing", ![w].final = FALSE]
        /\ UNCHANGED owner
  /\ UNCHANGED <<rows, pool, zone, tx, outside>>

\* The attempt is recorded before anything is sent to the provider.
PrepareStep(w) ==
  LET k == job[w].step IN
  /\ job[w].pc = "preparing" /\ Unlocked
  /\ IF ~Stale /\ Active /\ steps[k].status \in Unfinished
     THEN /\ steps' = [steps EXCEPT ![k] = [status |-> "running", tried |-> TRUE]]
          /\ Goes(w, "prepared") /\ UNCHANGED zone
     ELSE Goes(w, "superseding") /\ LeavesZone(w) /\ UNCHANGED steps
  /\ UNCHANGED <<status, pool, owner, tx, outside>>

-----------------------------------------------------------------------------
(* executeStep: its transaction, from the locks to the commit.             *)

BindingLeft(k) == binding[BindingOf[k]] \in {"deleting", "gone"}

\* The step publishes a binding that is being deleted.
Fenced(k) == plan.kind = "pool" /\ plan.action[k] # "delete" /\ BindingLeft(k)

\* Mutant of MayWrite: the row of the operation is not locked and read again.
MayWriteUnlocked(k) == steps[k].status = "running"

MayWrite(k) == Active /\ steps[k].status = "running"

SkipsStep(k) == steps' = [steps EXCEPT ![k].status = "skipped"]

\* The checks under the locks.  The step of a stale decision is skipped, and
\* so is one whose binding is being deleted, or (rrset_now_managed) the
\* change of a user to a record that a pool has taken over.
BeginWrite(w) ==
  LET k == job[w].step IN
  /\ job[w].pc = "prepared" /\ Unlocked
  /\ \/ /\ Stale /\ SkipsStep(k)
        /\ Goes(w, "superseding") /\ LeavesZone(w) /\ UNCHANGED tx
     \/ /\ ~Stale /\ ~MayWrite(k)
        /\ Goes(w, "superseding") /\ LeavesZone(w) /\ UNCHANGED <<steps, tx>>
     \/ /\ ~Stale /\ MayWrite(k) /\ Fenced(k) /\ SkipsStep(k)
        /\ GoesOn(w) /\ LeavesZone(w) /\ UNCHANGED tx
     \/ /\ MayWrite(k) /\ zone[k] = w /\ plan.kind = "record" /\ SkipsStep(k)
        /\ Goes(w, "superseding") /\ LeavesZone(w) /\ UNCHANGED tx
     \/ /\ ~Stale /\ MayWrite(k) /\ ~Fenced(k) /\ zone[k] = w
        /\ Goes(w, "looking") /\ tx' = w /\ UNCHANGED <<steps, zone>>
  /\ UNCHANGED <<status, pool, owner, outside>>

\* Mutant of NeedsCall: a create does not look for the record of an earlier try.
NeedsCallAlways(w, k) == provider[k].done = 0 \/ plan.action[k] # "delete"

\* A create looks for the record of an earlier try only when there was one; an
\* update may have been read before the transaction.
NeedsCall(w, k) ==
  \/ provider[k].done = 0
  \/ plan.action[k] = "create" /\ ~job[w].tried
  \/ plan.action[k] = "update"

Call(w) ==
  LET k == job[w].step IN
  /\ job[w].pc = "looking"
  /\ \/ /\ NeedsCall(w, k)
        /\ job' = [job EXCEPT ![w].pc = "waiting", ![w].call = "open"]
     \/ /\ provider[k].done > 0
        /\ plan.action[k] = "create" => job[w].tried
        /\ Goes(w, "verifying")
  /\ UNCHANGED <<rows, pool, leases, tx, outside>>

CallLands(w) ==
  /\ job[w].call = "open"
  /\ job' = [job EXCEPT ![w].call = "landed"]
  /\ provider' = [provider EXCEPT ![job[w].step].done = @ + 1]
  /\ UNCHANGED <<rows, pool, leases, tx, request, faults>>

LateCallLands(k) ==
  /\ provider[k].late > 0
  /\ provider' = [provider EXCEPT ![k] =
       [done |-> @.done + 1, late |-> @.late - 1, lateDone |-> @.lateDone + 1]]
  /\ UNCHANGED <<rows, pool, leases, tx, job, request, faults>>

CallAnswered(w) ==
  /\ job[w].pc = "waiting" /\ job[w].call = "landed"
  /\ job' = [job EXCEPT ![w].pc = "verifying", ![w].call = "none"]
  /\ UNCHANGED <<rows, pool, leases, tx, outside>>

\* Mutant of CommitStep: the write is taken for done without being read back.
CommitUnverified(w) ==
  /\ job[w].pc \in {"waiting", "verifying"}
  /\ zone[job[w].step] = w
  /\ steps' = [steps EXCEPT ![job[w].step].status = "succeeded"]
  /\ tx' = None
  /\ GoesOn(w) /\ LeavesZone(w)
  /\ UNCHANGED <<status, pool, owner, outside>>

\* The record read back is the desired one: the assignments and the result of
\* the step are committed.
CommitStep(w) ==
  LET k == job[w].step IN
  /\ job[w].pc = "verifying" /\ provider[k].done > 0 /\ zone[k] = w
  /\ steps' = [steps EXCEPT ![k].status = "succeeded"]
  /\ tx' = None
  /\ GoesOn(w) /\ LeavesZone(w)
  /\ UNCHANGED <<status, pool, owner, outside>>

Rollback(w) == tx' = IF tx = w THEN None ELSE tx

\* The call a job gives up may still have its effect.
Abandons(w) ==
  provider' = IF job[w].call = "open"
              THEN [provider EXCEPT ![job[w].step].late = @ + 1] ELSE provider

\* A lock is not obtained in time; an account, a check, the provider or the
\* database fails.  The transaction is rolled back.
StepThrows(w) ==
  /\ job[w].pc \in {"stepping", "preparing", "prepared", "looking", "waiting",
                    "verifying"}
  /\ job[w].step \in StepNo
  /\ Fault
  /\ \E final \in BOOLEAN :
       job' = [job EXCEPT ![w].pc = "failing", ![w].final = final,
                          ![w].call = "none"]
  /\ UNCHANGED provider \/ Abandons(w)
  /\ Rollback(w) /\ LeavesZone(w)
  /\ UNCHANGED <<rows, pool, owner, request>>

\* lease.assertOwned throws, before the call or before the commit.
ZoneLost(w) ==
  /\ job[w].pc \in {"prepared", "verifying"} /\ zone[job[w].step] # w
  /\ job' = [job EXCEPT ![w].pc = "failing", ![w].final = FALSE]
  /\ Rollback(w)
  /\ UNCHANGED <<rows, pool, leases, outside>>

-----------------------------------------------------------------------------
(* The results.                                                            *)

\* The catch block of the loop.  finalAttempt is what
\* shouldFinalizeOperationStepFailure says of the error, of the number of the
\* attempt of the job, and of the account.
RecordFailure(w) ==
  LET k == job[w].step IN
  /\ job[w].pc = "failing" /\ Unlocked
  /\ IF Active /\ steps[k].status \in Unfinished
     THEN /\ steps' = [steps EXCEPT ![k] =
               [status |-> IF job[w].final THEN "failed" ELSE "pending",
                tried |-> TRUE]]
          /\ IF job[w].final THEN GoesOn(w) /\ UNCHANGED owner ELSE Ends(w)
     ELSE Ends(w) /\ UNCHANGED steps
  /\ UNCHANGED <<status, pool, zone, tx, outside>>

SupersedeOperation(w) ==
  /\ job[w].pc = "superseding" /\ Unlocked
  /\ IF status \in Unfinished \cup {"superseded"}
     THEN status' = "superseded" /\ SkipUnfinished
     ELSE UNCHANGED rows
  /\ Ends(w)
  /\ UNCHANGED <<pool, zone, tx, outside>>

FinalStatus ==
  IF \A k \in StepNo : ~Failed(k) THEN "succeeded"
  ELSE IF \E k \in StepNo : steps[k].status \in Settled THEN "partial"
  ELSE "failed"

\* The bindings whose state the end of the operation sets.
Decided(b) ==
  /\ plan.kind # "record" /\ StepsOf(b) # {} /\ binding[b] # "gone"
  /\ binding[b] = "deleting" => plan.kind = "binding"

\* Mutant of FinalBinding: a binding without failed steps is healthy.
FinalBindingUnfailed(b) ==
  IF ~Decided(b) THEN binding[b]
  ELSE IF \E k \in StepsOf(b) : Failed(k) THEN "failed"
  ELSE IF plan.kind = "binding" THEN "gone" ELSE "healthy"

\* A deletion that is done removes its binding.
FinalBinding(b) ==
  IF ~Decided(b) THEN binding[b]
  ELSE IF \E k \in StepsOf(b) : Failed(k) THEN "failed"
  ELSE IF \E k \in StepsOf(b) : steps[k].status \in Unfinished THEN "switching"
  ELSE IF plan.kind = "binding" THEN "gone" ELSE "healthy"

\* The notification that follows is left out.
Finalize(w) ==
  /\ job[w].pc = "finalizing" /\ Unlocked
  /\ IF ~Active THEN UNCHANGED <<rows, binding>>
     ELSE IF Stale
     THEN status' = "superseded" /\ SkipUnfinished /\ UNCHANGED binding
     ELSE /\ status' = FinalStatus
          /\ binding' = [b \in Binding |-> FinalBinding(b)]
          /\ UNCHANGED steps
  /\ Ends(w)
  /\ UNCHANGED <<plan, current, zone, tx, outside>>

-----------------------------------------------------------------------------
(* Crashes and leases.                                                     *)

\* The worker process stops: the database rolls its transaction back, Redis
\* keeps its leases for a while.
Crash(w) ==
  /\ job[w].pc # "idle" /\ Fault
  /\ job' = [job EXCEPT ![w] = IdleJob]
  /\ Rollback(w) /\ Abandons(w)
  /\ UNCHANGED <<rows, pool, leases, request>>

\* A lease runs out; that of a worker that is up, because it is not renewed.
OperationLeaseExpires ==
  /\ owner # None
  /\ \/ job[owner].pc = "idle" /\ UNCHANGED faults
     \/ job[owner].pc # "idle" /\ Fault
  /\ owner' = None
  /\ UNCHANGED <<rows, pool, zone, tx, job, provider, request>>

InZone(w, k) ==
  /\ job[w].step = k
  /\ job[w].pc \in {"preparing", "prepared", "looking", "waiting", "verifying"}

ZoneLeaseExpires(k) ==
  /\ zone[k] # None
  /\ \/ ~InZone(zone[k], k) /\ UNCHANGED faults
     \/ InZone(zone[k], k) /\ Fault
  /\ zone' = [zone EXCEPT ![k] = None]
  /\ UNCHANGED <<rows, pool, owner, tx, job, provider, request>>

-----------------------------------------------------------------------------
(* The other writers of the rows.                                          *)

Retryable == status \in {"failed", "partial"}

Revive ==
  /\ steps' = [k \in StepNo |->
       IF Failed(k) THEN [steps[k] EXCEPT !.status = "pending"] ELSE steps[k]]
  /\ status' = "pending"

\* OperationsService.retry reads the operation before its transaction ...
RetryReads(r) ==
  /\ request[r] = "idle" /\ Retryable
  /\ request' = [request EXCEPT ![r] = "read"]
  /\ UNCHANGED <<rows, pool, leases, tx, job, provider, faults>>

\* ... which looks at the decision and at the bindings only.
RetryRefused == Stale \/ \E k \in StepNo : Failed(k) /\ Fenced(k)

RetryCommits(r) ==
  /\ request[r] = "read" /\ Unlocked
  /\ request' = [request EXCEPT ![r] = "done"]
  /\ IF RetryRefused THEN UNCHANGED rows ELSE Revive
  /\ UNCHANGED <<pool, leases, tx, job, provider, faults>>

\* RotationPublicationService.observe.
PublicationRetries(r) ==
  /\ request[r] = "idle" /\ Retryable /\ Unlocked
  /\ plan.kind = "pool" /\ ~Stale
  /\ request' = [request EXCEPT ![r] = "done"]
  /\ Revive
  /\ UNCHANGED <<pool, leases, tx, job, provider, faults>>

\* terminateRotationIncident leaves a running step alone;
\* resetCloudInstanceState and the deletion of the account do not.
Cancel ==
  /\ plan.kind = "pool" /\ Unlocked
  /\ status \in {"pending", "running", "partial", "failed"}
  /\ status' = "superseded"
  /\ \E skipped \in {{"pending", "failed"}, {"pending", "running", "failed"}} :
       steps' = [k \in StepNo |->
         IF steps[k].status \in skipped
         THEN [steps[k] EXCEPT !.status = "skipped"] ELSE steps[k]]
  /\ UNCHANGED <<pool, leases, tx, job, outside>>

\* A new decision of the pool: enqueueReconcile, as every other writer of the
\* decision's revision, has the lock of the pool.
NewDecision ==
  /\ plan.kind = "pool" /\ "decision" \in current /\ Unlocked
  /\ current' = current \ {"decision"}
  /\ UNCHANGED <<rows, plan, binding, leases, tx, job, outside>>

\* recordPolicyChange has not, and executeStep does not lock the row of the
\* pool: an edit is committed while a provider is being called.
PolicyChange ==
  /\ plan.kind = "pool" /\ "policy" \in current
  /\ current' = current \ {"policy"}
  /\ UNCHANGED <<rows, plan, binding, leases, tx, job, outside>>

\* PoolsService.deleteBinding, when this operation is another one: it waits
\* until no step for the binding is left; without records to delete, it
\* removes the binding at once.
DeleteBinding(b) ==
  /\ plan.kind = "pool" /\ Unlocked
  /\ binding[b] \notin {"deleting", "gone"}
  /\ \A k \in StepsOf(b) : steps[k].status \notin Unfinished
  /\ \/ binding' = [binding EXCEPT ![b] = "deleting"] /\ UNCHANGED current
     \/ binding' = [binding EXCEPT ![b] = "gone"] /\ current' = current \ {"policy"}
  /\ UNCHANGED <<rows, plan, leases, tx, job, outside>>

\* The operation of the deletion has succeeded: its end locks itself only.
BindingDeleted(b) ==
  /\ binding[b] = "deleting"
  /\ binding' = [binding EXCEPT ![b] = "gone"]
  /\ current' = current \ {"policy"}
  /\ UNCHANGED <<rows, plan, leases, tx, job, outside>>

-----------------------------------------------------------------------------
Execute(w) ==
  \/ Start(w) \/ ReadOperation(w) \/ Claim(w) \/ EnterStep(w)
  \/ LastStepDone(w) \/ NoticesLoss(w)
  \/ PrepareStep(w) \/ BeginWrite(w) \/ Call(w) \/ CallAnswered(w)
  \/ CommitStep(w) \/ ZoneLost(w)
  \/ RecordFailure(w) \/ SupersedeOperation(w) \/ Finalize(w)

Environment ==
  \/ \E r \in Request : RetryReads(r) \/ RetryCommits(r) \/ PublicationRetries(r)
  \/ Cancel \/ NewDecision \/ PolicyChange
  \/ \E b \in Binding : DeleteBinding(b) \/ BindingDeleted(b)

Next ==
  \/ \E w \in Worker : Execute(w) \/ StepThrows(w) \/ CallLands(w) \/ Crash(w)
  \/ \E k \in StepNo : LateCallLands(k) \/ ZoneLeaseExpires(k)
  \/ OperationLeaseExpires
  \/ Environment

Spec == Init /\ [][Next]_vars

\* A worker that is up runs its jobs, recoverPending makes new ones every 30
\* seconds, a provider answers in the end, and Redis drops the lease of a
\* worker that is down.
Fairness ==
  /\ \A w \in Worker : WF_vars(Execute(w)) /\ WF_vars(CallLands(w))
  /\ WF_vars(OperationLeaseExpires)
  /\ \A k \in StepNo : WF_vars(ZoneLeaseExpires(k))

FairSpec == Spec /\ Fairness

-----------------------------------------------------------------------------
(* Properties.                                                             *)

\* A call a job waits for is still wanted: the operation has not ended and was
\* not cancelled, the pool has made no newer decision, the step is the running
\* one, and the binding it publishes is neither deleted nor being deleted
\* (executeStep).  It may be one for an older policy: an edit of the pool, or the
\* end of another binding's deletion, does not wait for the call.
WritesAreWanted ==
  \A w \in Worker :
    job[w].pc = "waiting" =>
      LET k == job[w].step IN
      /\ Active
      /\ plan.kind = "pool" => "decision" \in current
      /\ steps[k].status = "running"
      /\ plan.kind = "pool" /\ plan.action[k] # "delete" => ~BindingLeft(k)

\* Crashes, retries and lost leases create no record twice: there is one more
\* record than the one wanted only for each call that took effect after its
\* job had given it up.
CreatedOnce ==
  \A k \in StepNo :
    plan.action[k] = "create" => provider[k].done <= 1 + provider[k].lateDone

\* A step is reported as succeeded only when the provider has made its change.
SucceededIsMade ==
  \A k \in StepNo : steps[k].status = "succeeded" => provider[k].done > 0

\* A binding becomes healthy, or is removed by its deletion, only when none of
\* its steps is left to do or has failed (finalizeOperation).
BindingFollowsSteps ==
  \A b \in Binding :
    \/ binding[b] = "healthy"
    \/ binding[b] = "gone" /\ plan.kind = "binding"
    => \A k \in StepsOf(b) : steps[k].status \in Settled

\* A step that is done is never run again, by no retry, late job or recovery.
DoneStaysDone ==
  [][\A k \in StepNo :
       steps[k].status \in Settled => steps'[k].status \in Settled]_vars

\* No job, however late, changes an operation that has ended: only a retry
\* starts it again, only a cancellation supersedes it.
OnlyRetryRevives ==
  [][Terminal(status) /\ status' # status =>
       \/ status' = "pending" /\ request' # request
       \/ status' = "superseded" /\ job' = job]_vars

\* Every operation ends, whatever fails, crashes or is lost on the way.
OperationEnds == status \in Unfinished ~> Terminal(status)

=============================================================================
