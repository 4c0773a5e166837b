------------------------------ MODULE Rotation ------------------------------
(***************************************************************************)
(* The execution of address rotations on one physical cloud instance:      *)
(* apps/worker/src/rotation (rotation-store, rotation.processor,           *)
(* rotation-lock, rotation-retry, rotation-cloud-call), the decision       *)
(* function packages/automation/src/rotation-machine.ts, and the           *)
(* transactions of packages/db that start, resume, terminate and reset     *)
(* incidents.                                                              *)
(*                                                                         *)
(* An incident rotates the address of one slot.  Its attempts are cloud    *)
(* plans of Steps steps; a step is dispatched in one transaction, executed *)
(* outside of any transaction, and its effect is read back by later jobs.  *)
(* The incidents of all slots of the instance compete for one row of       *)
(* rotation_leases.  Every action below is one database transaction (they  *)
(* lock the account, the instance and the slot first), one event of the    *)
(* cloud, or the passing of a deadline.                                    *)
(*                                                                         *)
(* Times are abstracted: a deadline that a claim, a cooldown or a retry    *)
(* waits for may pass at any moment, except the recovery delay of an       *)
(* incident, which decides what read() does.  The error codes are reduced  *)
(* to the classes the code tells apart.                                    *)
(***************************************************************************)
EXTENDS Integers, FiniteSets

CONSTANTS Incident,       \* rotations, each of a slot of its own
          Job,            \* worker processes, each running one job at a time
          None,           \* no incident, no step
          Steps,          \* number of steps of a cloud plan
          MaxAttempts,    \* rotation_policies.max_attempts
          MaxRecoveries,  \* rotation_policies.max_recovery_retries
          \* The bounds of the model:
          MaxRevision,    \* of the revision of the lease, hence of the claims
          MaxChanges,     \* of the revision of authorization and policy
          MaxRows,        \* of the attempts of an incident
          MaxSegments     \* of the budget segments of an incident

ASSUME RotationAssumption ==
  /\ None \notin Incident \cup Incident \X Nat \X Nat
  /\ Steps \in Nat \ {0}
  /\ MaxAttempts \in Nat \ {0}
  /\ MaxRecoveries \in Nat
  /\ {MaxRevision, MaxChanges, MaxRows, MaxSegments} \subseteq Nat
  /\ MaxRows > 0 /\ MaxSegments > 0

VARIABLES
  inc,       \* rotation_incidents
  attempts,  \* rotation_attempts of an incident, in the order of sequence
  steps,     \* rotation_steps of its current attempt
  budget,    \* rotation_budget_segments of an incident
  lease,     \* the row of rotation_leases
  slot,      \* the address version of the slot of an incident
  revision,  \* the revision of the authorization and the policy of the slot
  job,       \* the run of RotationProcessor in each worker
  write      \* the calls made to the cloud, by the fence they were made under

vars == <<inc, attempts, steps, budget, lease, slot, revision, job, write>>

-----------------------------------------------------------------------------
(* Types.                                                                  *)

Fence == 1 .. MaxRevision
StepNo == 1 .. Steps
StepId == Incident \X Nat \X StepNo

\* What a pause code, or the error_code of an incident, means to the code:
\* "recoverable" and "throttled" are in recoveryErrors, "attempts" is
\* attempts_exhausted, "other" is any other code or none.
Code == {"recoverable", "throttled", "attempts", "other"}

IncidentRow ==
  [phase : {"none", "cloud", "candidate", "publish", "complete"},
   status : {"none", "active", "paused", "exhausted", "complete"},
   manual : BOOLEAN,         \* trigger
   terminated : BOOLEAN,     \* terminated_at
   userPaused : BOOLEAN,     \* paused_by_user_id
   error : {"none", "recoverable", "recoveries_exhausted", "reset"},
   retry : {"none", "waiting", "due"},  \* recovery_retry_at
   recoveries : Nat,         \* recovery_retries
   attempts : Nat,           \* the number of its rows in rotation_attempts
   attempt : Nat,            \* current_attempt_id, 0 for null
   segments : Nat,           \* the number of its budget segments
   segment : Nat,            \* current_segment_id
   pending : Nat,            \* pending_segment_id, 0 for null
   expects : Nat,            \* authorization and policy revision
   version : Nat]            \* address_version

AttemptRow == [segment : Nat, charged : BOOLEAN]

StepStatus == {"prepared", "in_flight", "pending", "applied", "not_applied",
               "rejected", "ambiguous", "abandoned"}

\* "rejected" is rejected_no_effect; fence 0 stands for null.
StepRow == [status : StepStatus, fence : Nat, receipt : BOOLEAN,
            throttled : BOOLEAN]

SegmentRow == [used : Int, max : Nat, exhausted : BOOLEAN]

\* held: holder is set and expires_at has not passed.
LeaseRow == [revision : Nat, held : BOOLEAN, incident : Incident \cup {None},
             unresolved : StepId \cup {None}]

JobState ==
  [pc : {"idle", "claimed", "observing", "observed", "inspecting",
         "dispatching", "executing", "settling", "pausing"},
   inc : Incident \cup {None}, fence : Nat,
   attempt : Nat, step : Nat, stepFence : Nat,
   result : {"none", "pending", "applied", "not_applied", "ambiguous"},
   code : Code]

\* late: the job gave up on the call, its lateResult callback did not.
WriteState ==
  [inc : Incident \cup {None}, attempt : Nat, step : Nat,
   effect : {"none", "open", "applied"}, late : BOOLEAN,
   by : Job \cup {None}]

TypeOK ==
  /\ inc \in [Incident -> IncidentRow]
  /\ attempts \in [Incident -> [1 .. MaxRows -> AttemptRow]]
  /\ steps \in [Incident -> [StepNo -> StepRow]]
  /\ budget \in [Incident -> [1 .. MaxSegments -> SegmentRow]]
  /\ lease \in LeaseRow
  /\ slot \in [Incident -> [version : Nat, candidate : BOOLEAN]]
  /\ revision \in [Incident -> Nat]
  /\ job \in [Job -> JobState]
  /\ write \in [Fence -> WriteState]

NoAttempt == [segment |-> 0, charged |-> FALSE]
NoSegment == [used |-> 0, max |-> 0, exhausted |-> FALSE]
NewStep == [status |-> "prepared", fence |-> 0, receipt |-> FALSE,
            throttled |-> FALSE]
NoWrite == [inc |-> None, attempt |-> 0, step |-> 0, effect |-> "none",
            late |-> FALSE, by |-> None]
IdleJob == [pc |-> "idle", inc |-> None, fence |-> 0, attempt |-> 0,
            step |-> 0, stepFence |-> 0, result |-> "none", code |-> "other"]
NoIncident ==
  [phase |-> "none", status |-> "none", manual |-> FALSE,
   terminated |-> FALSE, userPaused |-> FALSE, error |-> "none",
   retry |-> "none", recoveries |-> 0, attempts |-> 0, attempt |-> 0,
   segments |-> 0, segment |-> 0, pending |-> 0, expects |-> 0,
   version |-> 0]

Init ==
  /\ inc = [i \in Incident |-> NoIncident]
  /\ attempts = [i \in Incident |-> [n \in 1 .. MaxRows |-> NoAttempt]]
  /\ steps = [i \in Incident |-> [k \in StepNo |-> NewStep]]
  /\ budget = [i \in Incident |-> [b \in 1 .. MaxSegments |-> NoSegment]]
  /\ lease = [revision |-> 0, held |-> FALSE, incident |-> None,
              unresolved |-> None]
  /\ slot \in [Incident -> [version : {1}, candidate : BOOLEAN]]
  /\ revision = [i \in Incident |-> 0]
  /\ job = [j \in Job |-> IdleJob]
  /\ write = [f \in Fence |-> NoWrite]

-----------------------------------------------------------------------------
(* nextRotationAction under the overrides of snapshot(), for the row r and *)
(* the plan p of incident i as job j reads them.  The evidence of the      *)
(* probes is that of the moment: "success", "failure" or neither.          *)

Evidence == {"success", "failure", "insufficient"}

Ongoing(i) == inc[i].status \notin {"none", "complete"}
HasAttempt(r) == r.attempt # 0
Charged(i, r) == HasAttempt(r) /\ attempts[i][r.attempt].charged
StepIdOf(i, k) == <<i, inc[i].attempt, k>>

\* verifyRotationLease: the lease is this job's and has not expired.
Holds(j) == lease.held /\ lease.revision = job[j].fence

\* Step k is the first step of the plan that is not applied.
IsNext(r, p, k) ==
  /\ r.phase = "cloud" /\ HasAttempt(r)
  /\ p[k].status # "applied"
  /\ \A m \in 1 .. k - 1 : p[m].status = "applied"

Unanswered(p, k) == p[k].status \in {"in_flight", "pending"}

\* The overrides of snapshot() that turn every action but an observation
\* into a wait.
Stopped(r) ==
  \/ r.terminated \/ r.userPaused
  \/ r.error = "recoveries_exhausted"
  \/ r.status = "paused" /\ r.phase = "cloud"

\* writeGate without the lease: what was authorized is still what holds.
Authorized(i, r) ==
  r.expects = revision[i] /\ r.version = slot[i].version

BudgetSpent(i, r) ==
  LET b == budget[i][r.segment] IN b.exhausted \/ b.used >= b.max

\* A dispatched step is read back whatever happened to the authorization,
\* to the lease and to the pauses.
ObserveDue(r, p, k) ==
  /\ ~r.terminated /\ r.retry # "waiting"
  /\ IsNext(r, p, k) /\ Unanswered(p, k)

Admitted(j, i, r) == ~Stopped(r) /\ Authorized(i, r) /\ Holds(j)

WantsAttempt(j, i, r, evidence) ==
  /\ Admitted(j, i, r) /\ ~BudgetSpent(i, r)
  /\ \/ r.phase = "cloud" /\ ~HasAttempt(r)
     \/ r.phase = "candidate" /\ slot[i].candidate
        /\ evidence = "failure" /\ Charged(i, r)

WantsStep(j, i, r, p, k) ==
  /\ Admitted(j, i, r)
  /\ IsNext(r, p, k)
  /\ attempts[i][r.attempt].segment = r.segment
  /\ \/ p[k].status = "prepared"
     \/ p[k].status = "rejected" /\ p[k].throttled
  /\ Charged(i, r) \/ ~BudgetSpent(i, r)

WantsWrite(j, i, r, p, evidence) ==
  \/ WantsAttempt(j, i, r, evidence)
  \/ \E k \in StepNo : WantsStep(j, i, r, p, k)

\* The address works again before the first cloud write of the attempt.
Recovered(i, r, evidence) ==
  /\ ~r.manual /\ evidence = "success"
  /\ ~Charged(i, r) /\ lease.unresolved = None

PrepareDue(j, i, r, evidence) ==
  /\ WantsAttempt(j, i, r, evidence)
  /\ ~Recovered(i, r, evidence) /\ r.retry # "waiting"

ExecuteDue(j, i, r, p, k, evidence) ==
  /\ WantsStep(j, i, r, p, k)
  /\ ~Recovered(i, r, evidence) /\ r.retry # "waiting"

PublishDue(j, i, r, p, evidence) ==
  /\ slot[i].candidate /\ evidence = "success"
  /\ \/ r.phase = "candidate" /\ Admitted(j, i, r)
     \/ WantsWrite(j, i, r, p, evidence) /\ Recovered(i, r, evidence)

CompleteDue(j, i, r, p, evidence) ==
  /\ ~slot[i].candidate
  /\ WantsWrite(j, i, r, p, evidence) /\ Recovered(i, r, evidence)

\* The code nextRotationAction pauses the incident with.
PauseDue(j, i, r, p, evidence, code) ==
  /\ ~Stopped(r)
  /\ \A k \in StepNo : ~(IsNext(r, p, k) /\ Unanswered(p, k))
  /\ \/ ~Authorized(i, r) /\ code = "other"
     \/ /\ Admitted(j, i, r)
        /\ \/ \E k \in StepNo :
                /\ IsNext(r, p, k)
                /\ \/ p[k].status = "ambiguous" /\ code = "other"
                   \/ p[k].status = "not_applied" /\ code = "recoverable"
                   \/ p[k].status = "rejected" /\ ~p[k].throttled
                      /\ code = "other"
                   \/ p[k].status \in {"prepared", "rejected"}
                      /\ (p[k].status = "rejected" => p[k].throttled)
                      /\ ~Charged(i, r) /\ BudgetSpent(i, r)
                      /\ code = "attempts"
           \/ /\ r.phase = "cloud" /\ ~HasAttempt(r)
              /\ BudgetSpent(i, r) /\ code = "attempts"
           \/ /\ r.phase = "candidate" /\ evidence # "success"
              /\ BudgetSpent(i, r) /\ code = "attempts"
           \/ /\ r.phase = "publish" /\ slot[i].candidate
              /\ evidence = "failure" /\ code = "other"

-----------------------------------------------------------------------------
(* Writing the incident.                                                   *)

ErrorOf(code) ==
  IF code \in {"recoverable", "throttled"} THEN "recoverable" ELSE "none"

\* scheduleRotationRecovery on the row r.
ScheduleRecovery(r, code) ==
  IF \/ r.status = "complete" \/ r.terminated \/ r.userPaused
     \/ r.error = "recoveries_exhausted" \/ r.retry = "waiting"
  THEN r
  ELSE IF r.recoveries >= MaxRecoveries
  THEN [r EXCEPT !.status = "exhausted", !.error = "recoveries_exhausted",
                 !.retry = "none"]
  ELSE [r EXCEPT !.status = "active", !.recoveries = @ + 1,
                 !.retry = "waiting",
                 !.error = IF code = "throttled" THEN "none"
                           ELSE "recoverable"]

\* Mutant: the pause of an incident that has ended.
PauseAnyIn(r, code) ==
  [r EXCEPT !.status = IF code = "attempts" THEN "exhausted" ELSE "paused",
            !.error = ErrorOf(code)]

\* pauseIn on the row r.
PauseIn(r, code) ==
  IF r.status = "complete" \/ r.terminated \/ r.error = "recoveries_exhausted"
  THEN r
  ELSE IF r.phase \in {"cloud", "publish"} /\ ErrorOf(code) = "recoverable"
  THEN ScheduleRecovery(r, code)
  ELSE [r EXCEPT !.status = IF code = "attempts" THEN "exhausted"
                            ELSE "paused",
                 !.error = ErrorOf(code)]

Released(l, f) == [l EXCEPT !.held = l.held /\ l.revision # f]

\* The job ends.  Its finally block releases the lease, unless the worker
\* stops before it does.
Ends(j, l) ==
  /\ job' = [job EXCEPT ![j] = IdleJob]
  /\ lease' \in {l, Released(l, job[j].fence)}

\* The catch block of run(): one more transaction pauses the incident.
GoPause(j, code) ==
  job' = [job EXCEPT ![j].pc = "pausing", ![j].code = code]

-----------------------------------------------------------------------------
(* What users and the environment do.                                      *)

\* createCrossCloudRotationIncident and createManualRotationIncident.  The
\* manual one refuses a candidate that is not the current address; the model
\* does not compare the two, and lets it start anyway.
Start(i, manual) ==
  /\ inc[i].phase = "none"
  /\ inc' = [inc EXCEPT ![i] =
       [NoIncident EXCEPT !.phase = "cloud", !.status = "active",
                          !.manual = manual, !.segments = 1, !.segment = 1,
                          !.expects = revision[i],
                          !.version = slot[i].version]]
  /\ budget' = [budget EXCEPT ![i][1] =
       [used |-> 0, max |-> IF manual THEN 1 ELSE MaxAttempts,
        exhausted |-> FALSE]]
  /\ UNCHANGED <<attempts, steps, lease, slot, revision, job, write>>

\* RotationService.pause.
Pause(i) ==
  /\ Ongoing(i)
  /\ inc' = [inc EXCEPT ![i].status = "paused", ![i].userPaused = TRUE,
                        ![i].error = "none"]
  /\ UNCHANGED <<attempts, steps, budget, lease, slot, revision, job, write>>

\* A plan whose allocation was charged is continued, any other is abandoned.
Continuing(i) == inc[i].phase = "cloud" /\ Charged(i, inc[i])

Reprepared(s) == [s EXCEPT !.status = "prepared", !.throttled = FALSE]

\* resumeRotationIncident.
Resume(i) ==
  /\ Ongoing(i) /\ inc[i].status # "active"
  /\ lease.unresolved = None
  /\ inc[i].phase = "cloud" /\ inc[i].attempt # 0 =>
       \A k \in StepNo : steps[i][k].status \in
         {"prepared", "rejected", "not_applied", "applied"}
  /\ ~inc[i].manual => inc[i].segments < MaxSegments
  /\ steps' = IF Continuing(i)
              THEN [steps EXCEPT ![i] = [k \in StepNo |->
                      IF steps[i][k].status \in {"rejected", "not_applied"}
                      THEN Reprepared(steps[i][k]) ELSE steps[i][k]]]
              ELSE steps
  /\ LET new == inc[i].segments + 1
         r == [inc[i] EXCEPT
                 !.status = "active", !.userPaused = FALSE, !.error = "none",
                 !.recoveries = 0, !.retry = "none",
                 !.attempt = IF inc[i].phase = "cloud" /\ ~Continuing(i)
                             THEN 0 ELSE @,
                 !.expects = revision[i], !.version = slot[i].version,
                 !.pending = 0]
     IN IF inc[i].manual
        THEN inc' = [inc EXCEPT ![i] = r] /\ UNCHANGED budget
        ELSE /\ inc' = [inc EXCEPT ![i] =
                  IF Continuing(i)
                  THEN [r EXCEPT !.segments = new, !.pending = new]
                  ELSE [r EXCEPT !.segments = new, !.segment = new]]
             /\ budget' = [budget EXCEPT ![i][new] =
                  [used |-> 0, max |-> MaxAttempts, exhausted |-> FALSE]]
  /\ UNCHANGED <<attempts, lease, slot, revision, job, write>>

\* Mutant: the update of the lease is not limited to the incident.
TerminateAnyOwner(i) ==
  /\ Ongoing(i)
  /\ lease.revision < MaxRevision
  /\ inc' = [inc EXCEPT ![i].status = "complete", ![i].terminated = TRUE,
                        ![i].userPaused = TRUE, ![i].error = "none"]
  /\ lease' = [lease EXCEPT !.revision = @ + 1, !.held = FALSE,
       !.incident = IF lease.unresolved = None THEN None ELSE @]
  /\ revision' = [revision EXCEPT ![i] = @ + 1]
  /\ UNCHANGED <<attempts, steps, budget, slot, job, write>>

\* Mutant of Terminate: the instance is given up with its unresolved step.
TerminateForgets(i) ==
  /\ Ongoing(i)
  /\ lease.revision < MaxRevision
  /\ inc' = [inc EXCEPT ![i].status = "complete", ![i].terminated = TRUE,
                        ![i].userPaused = TRUE, ![i].error = "none"]
  /\ lease' = IF lease.incident = i
              THEN [revision |-> lease.revision + 1, held |-> FALSE,
                    incident |-> None, unresolved |-> None]
              ELSE lease
  /\ revision' = [revision EXCEPT ![i] = @ + 1]
  /\ UNCHANGED <<attempts, steps, budget, slot, job, write>>

\* terminateRotationIncident: jobs that claimed the lease are fenced off, an
\* unresolved step keeps the instance.
Terminate(i) ==
  /\ Ongoing(i)
  /\ lease.revision < MaxRevision
  /\ inc' = [inc EXCEPT ![i].status = "complete", ![i].terminated = TRUE,
                        ![i].userPaused = TRUE, ![i].error = "none"]
  /\ lease' = IF lease.incident = i
              THEN [revision |-> lease.revision + 1, held |-> FALSE,
                    incident |-> IF lease.unresolved = None THEN None ELSE i,
                    unresolved |-> lease.unresolved]
              ELSE lease
  /\ revision' = [revision EXCEPT ![i] = @ + 1]
  /\ UNCHANGED <<attempts, steps, budget, slot, job, write>>

\* resetCloudInstanceState: the local state of the instance is given up.
Reset ==
  /\ \E i \in Incident : inc[i].phase # "none" /\ inc[i].error # "reset"
  /\ lease.revision < MaxRevision
  /\ inc' = [i \in Incident |->
       IF inc[i].phase = "none" THEN inc[i]
       ELSE [inc[i] EXCEPT !.status = "complete", !.terminated = TRUE,
                           !.error = "reset", !.retry = "none"]]
  /\ steps' = [i \in Incident |-> [k \in StepNo |->
       IF inc[i].phase = "none" \/ steps[i][k].status = "applied"
       THEN steps[i][k]
       ELSE [steps[i][k] EXCEPT !.status = "abandoned"]]]
  /\ lease' = [revision |-> lease.revision + 1, held |-> FALSE,
               incident |-> None, unresolved |-> None]
  /\ slot' = [i \in Incident |->
       [version |-> slot[i].version + 1, candidate |-> TRUE]]
  /\ UNCHANGED <<attempts, budget, revision, job, write>>

\* Any change, withdrawal or renewal of the authorization or the policy.
AuthorizationChanges(i) ==
  /\ revision[i] < MaxChanges
  /\ revision' = [revision EXCEPT ![i] = @ + 1]
  /\ UNCHANGED <<inc, attempts, steps, budget, lease, slot, job, write>>

LeaseExpires ==
  /\ lease.held
  /\ lease' = [lease EXCEPT !.held = FALSE]
  /\ UNCHANGED <<inc, attempts, steps, budget, slot, revision, job, write>>

RetryFallsDue(i) ==
  /\ inc[i].retry = "waiting"
  /\ inc' = [inc EXCEPT ![i].retry = "due"]
  /\ UNCHANGED <<attempts, steps, budget, lease, slot, revision, job, write>>

\* RotationPublicationService.publishSlot: the candidate becomes the current
\* address.  The service claims the lease for it and gives it back.
Promote(i) ==
  /\ inc[i].phase = "publish" /\ slot[i].candidate
  /\ inc[i].status = "active" /\ ~inc[i].userPaused
  /\ inc[i].retry # "waiting" /\ Authorized(i, inc[i])
  /\ ~lease.held /\ lease.revision < MaxRevision
  /\ lease.unresolved = None /\ lease.incident \in {None, i}
  /\ lease' = [lease EXCEPT !.revision = @ + 1]
  /\ slot' = [slot EXCEPT ![i].candidate = FALSE]
  /\ inc' = [inc EXCEPT ![i].error = "none", ![i].retry = "none"]
  /\ UNCHANGED <<attempts, steps, budget, revision, job, write>>

\* The live address could not be inspected.
PublicationFails(i) ==
  /\ inc[i].phase = "publish" /\ slot[i].candidate /\ Ongoing(i)
  /\ \E code \in {"recoverable", "throttled"} :
       inc' = [inc EXCEPT ![i] = ScheduleRecovery(@, code)]
  /\ UNCHANGED <<attempts, steps, budget, lease, slot, revision, job, write>>

\* RotationCleanupService.complete, once the DNS records and the old
\* resources are settled.  The phase "cleanup" of the code, which begins when
\* the records are, is the publication of a promoted candidate here.
CompleteIncident(i) ==
  /\ inc[i].phase = "publish" /\ ~slot[i].candidate
  /\ Ongoing(i) /\ lease.unresolved = None
  /\ inc' = [inc EXCEPT ![i].phase = "complete", ![i].status = "complete",
                        ![i].error = "none"]
  /\ lease' = IF lease.incident = i THEN [lease EXCEPT !.incident = None]
              ELSE lease
  /\ UNCHANGED <<attempts, steps, budget, slot, revision, job, write>>

-----------------------------------------------------------------------------
(* RotationProcessor.run.                                                  *)

Claim(j, i) ==
  /\ job[j].pc = "idle" /\ Ongoing(i)
  /\ ~lease.held /\ lease.revision < MaxRevision
  /\ lease.incident \in {None, i}
  /\ lease' = [lease EXCEPT !.revision = @ + 1, !.held = TRUE]
  /\ job' = [job EXCEPT ![j] = [IdleJob EXCEPT
       !.pc = "claimed", !.inc = i, !.fence = lease.revision + 1]]
  /\ UNCHANGED <<inc, attempts, steps, budget, slot, revision, write>>

\* The plan of another incident owns the instance: claim() gives the lease
\* back in the same transaction.
ClaimForeign(i) ==
  /\ Ongoing(i)
  /\ ~lease.held /\ lease.revision < MaxRevision
  /\ lease.incident \notin {None, i}
  /\ lease' = [lease EXCEPT !.revision = @ + 1]
  /\ UNCHANGED <<inc, attempts, steps, budget, slot, revision, job, write>>

\* The recovery part of read(): the row and the plan it leaves.
MayRecover(j, r) ==
  /\ ~r.terminated /\ ~r.userPaused /\ Holds(j)
  /\ r.phase \in {"cloud", "publish"}

Rescheduled(j, r) ==
  MayRecover(j, r) /\ r.status = "paused" /\ r.error = "recoverable"

RetryDue(j, r) ==
  /\ MayRecover(j, r) /\ ~Rescheduled(j, r)
  /\ r.phase = "cloud" /\ r.status = "active" /\ r.retry = "due"

ReadRow(j, r) ==
  IF Rescheduled(j, r) THEN ScheduleRecovery(r, "recoverable")
  ELSE IF RetryDue(j, r) THEN [r EXCEPT !.retry = "none", !.error = "none"]
  ELSE r

ReadPlan(j, r, p) ==
  IF RetryDue(j, r) /\ HasAttempt(r)
  THEN [k \in StepNo |->
          IF \/ p[k].status = "not_applied"
             \/ p[k].status = "rejected" /\ p[k].throttled
          THEN Reprepared(p[k]) ELSE p[k]]
  ELSE p

GoTo(j, pc, n, k, f) ==
  job' = [job EXCEPT ![j].pc = pc, ![j].attempt = n, ![j].step = k,
                     ![j].stepFence = f]

\* A terminated incident, and one in publication that is paused, waits or is
\* left to the publication and cleanup services, ends the job.
NothingToDo(r) ==
  \/ r.terminated
  \/ r.phase = "publish" /\ (r.manual \/ Stopped(r) \/ r.status = "paused"
                              \/ r.retry = "waiting")

Read(j) ==
  LET i == job[j].inc
      r == ReadRow(j, inc[i])
      p == ReadPlan(j, inc[i], steps[i])
  IN /\ job[j].pc = "claimed"
     /\ inc' = [inc EXCEPT ![i] = r]
     /\ steps' = [steps EXCEPT ![i] = p]
     /\ \/ NothingToDo(r) /\ Ends(j, lease)
        \/ /\ ~NothingToDo(r)
           /\ \E k \in StepNo : /\ ObserveDue(r, p, k)
                                /\ GoTo(j, "observing", r.attempt, k, p[k].fence)
           /\ UNCHANGED lease
        \/ /\ ~NothingToDo(r)
           /\ \E e \in Evidence : PrepareDue(j, i, r, e)
           /\ GoTo(j, "inspecting", r.attempt, 0, 0)
           /\ UNCHANGED lease
        \/ /\ ~NothingToDo(r)
           /\ \E e \in Evidence, k \in StepNo :
                /\ ExecuteDue(j, i, r, p, k, e)
                /\ GoTo(j, "dispatching", r.attempt, k, 0)
           /\ UNCHANGED lease
        \/ /\ ~NothingToDo(r)
           /\ \A k \in StepNo : ~ObserveDue(r, p, k)
           /\ \E e \in Evidence :
                /\ ~PrepareDue(j, i, r, e)
                /\ \A k \in StepNo : ~ExecuteDue(j, i, r, p, k, e)
           /\ GoTo(j, "settling", r.attempt, 0, 0)
           /\ UNCHANGED lease
     /\ UNCHANGED <<attempts, budget, slot, revision, write>>

\* settle(): what the snapshot says now decides.
Settle(j) ==
  LET i == job[j].inc
      r == inc[i]
      p == steps[i]
  IN /\ job[j].pc = "settling"
     /\ \E e \in Evidence :
          \/ /\ PublishDue(j, i, r, p, e)
             /\ inc' = [inc EXCEPT ![i].phase = "publish",
                          ![i].status = "active", ![i].error = "none"]
             /\ Ends(j, lease) /\ UNCHANGED budget
          \/ /\ CompleteDue(j, i, r, p, e)
             /\ inc' = [inc EXCEPT ![i].phase = "complete",
                          ![i].status = "complete", ![i].error = "none"]
             /\ Ends(j, IF lease.incident = i
                        THEN [lease EXCEPT !.incident = None] ELSE lease)
             /\ UNCHANGED budget
          \/ \E code \in Code :
               /\ PauseDue(j, i, r, p, e, code)
               /\ inc' = [inc EXCEPT ![i] = PauseIn(r, code)]
               /\ budget' = IF code = "attempts"
                            THEN [budget EXCEPT ![i][r.segment].exhausted = TRUE]
                            ELSE budget
               /\ Ends(j, lease)
          \/ /\ ~PublishDue(j, i, r, p, e) /\ ~CompleteDue(j, i, r, p, e)
             /\ \A code \in Code : ~PauseDue(j, i, r, p, e, code)
             /\ Ends(j, lease) /\ UNCHANGED <<inc, budget>>
     /\ UNCHANGED <<attempts, steps, slot, revision, write>>

\* prepare(), with the inventory the adapter has answered.
Prepare(j) ==
  LET i == job[j].inc
      n == inc[i].attempts + 1
  IN /\ job[j].pc = "inspecting"
     /\ \E e \in Evidence :
          /\ PrepareDue(j, i, inc[i], e)
          /\ lease.unresolved = None /\ lease.incident \in {None, i}
     /\ inc[i].attempts < MaxRows
     /\ inc' = [inc EXCEPT ![i].phase = "cloud", ![i].status = "active",
                           ![i].error = "none", ![i].attempts = n,
                           ![i].attempt = n]
     /\ attempts' = [attempts EXCEPT ![i][n] =
          [segment |-> inc[i].segment, charged |-> FALSE]]
     /\ steps' = [steps EXCEPT ![i] = [k \in StepNo |-> NewStep]]
     /\ Ends(j, [lease EXCEPT !.incident = i])
     /\ UNCHANGED <<budget, slot, revision, write>>

PrepareRefused(j) ==
  LET i == job[j].inc
  IN /\ job[j].pc = "inspecting"
     /\ \/ \E e \in Evidence : ~PrepareDue(j, i, inc[i], e)
        \/ lease.unresolved # None \/ lease.incident \notin {None, i}
        \/ inc[i].attempts = MaxRows
     /\ Ends(j, lease)
     /\ UNCHANGED <<inc, attempts, steps, budget, slot, revision, write>>

\* dispatch(): the intent, the charge and the fence are stored before the
\* call is made.
MayDispatch(j, e) ==
  LET i == job[j].inc IN
  /\ inc[i].attempt = job[j].attempt
  /\ ExecuteDue(j, i, inc[i], steps[i], job[j].step, e)
  /\ lease.unresolved = None /\ lease.incident = i

Dispatch(j) ==
  LET i == job[j].inc
      n == job[j].attempt
      k == job[j].step
      f == job[j].fence
  IN /\ job[j].pc = "dispatching"
     /\ \E e \in Evidence : MayDispatch(j, e)
     /\ IF attempts[i][n].charged THEN UNCHANGED <<attempts, budget>>
        ELSE /\ attempts' = [attempts EXCEPT ![i][n].charged = TRUE]
             /\ budget' = [budget EXCEPT ![i][inc[i].segment].used = @ + 1]
     /\ steps' = [steps EXCEPT ![i][k] =
          [status |-> "in_flight", fence |-> f, receipt |-> FALSE,
           throttled |-> FALSE]]
     /\ inc' = [inc EXCEPT ![i].error = "none"]
     /\ lease' = [lease EXCEPT !.unresolved = StepIdOf(i, k)]
     /\ write' = [write EXCEPT ![f] =
          [inc |-> i, attempt |-> n, step |-> k, effect |-> "open",
           late |-> FALSE, by |-> j]]
     /\ job' = [job EXCEPT ![j].pc = "executing"]
     /\ UNCHANGED <<slot, revision>>

\* The snapshot has changed, or the rate limits of the account put the
\* write off (rotation_rate_limited).
DispatchRefused(j) ==
  /\ job[j].pc = "dispatching"
  /\ \/ /\ \E e \in Evidence : ~MayDispatch(j, e)
        /\ UNCHANGED inc
     \/ /\ \E e \in Evidence : MayDispatch(j, e)
        /\ inc' = [inc EXCEPT ![job[j].inc].error = "none"]
  /\ Ends(j, lease)
  /\ UNCHANGED <<attempts, steps, budget, slot, revision, write>>

\* An adapter call or a transaction before the cloud call throws, or the
\* receipt cannot be stored.
Throws(j) ==
  /\ job[j].pc \in {"claimed", "inspecting", "dispatching", "settling",
                    "executing"}
  /\ \E code \in {"recoverable", "throttled", "other"} : GoPause(j, code)
  /\ UNCHANGED <<inc, attempts, steps, budget, lease, slot, revision, write>>

PauseAfterError(j) ==
  /\ job[j].pc = "pausing"
  /\ inc' = [inc EXCEPT ![job[j].inc] = PauseIn(@, job[j].code)]
  /\ Ends(j, lease)
  /\ UNCHANGED <<attempts, steps, budget, slot, revision, write>>

-----------------------------------------------------------------------------
(* saveReceipt and reject.                                                 *)

\* Only the history keeps the receipt.
ReceiptIgnored(i, k, f) ==
  \/ steps[i][k].status \in {"abandoned", "not_applied", "rejected"}
  \/ inc[i].error = "reset"
  \/ steps[i][k].fence # f

ReceiptStatus(s, result, conflict) ==
  IF conflict \/ s.status = "ambiguous" THEN "ambiguous"
  ELSE IF s.status = "applied" THEN "applied" ELSE result

Resolved(l, i, k) ==
  IF l.incident = i /\ l.unresolved = StepIdOf(i, k)
  THEN [l EXCEPT !.unresolved = None] ELSE l

\* The row after a receipt with that status, before the candidate.
ReceiptRow(r, status) ==
  IF status = "applied" /\ ~r.userPaused /\ r.error = "recoverable"
  THEN [r EXCEPT !.status = "active", !.error = "none", !.retry = "none"]
  ELSE IF status = "ambiguous" THEN PauseIn(r, "other") ELSE r

\* installCandidate on the row r.
Installed(i, r) ==
  [r EXCEPT !.phase = IF r.manual THEN "publish" ELSE "candidate",
            !.segment = IF r.pending # 0 THEN r.pending ELSE @,
            !.pending = 0, !.version = slot[i].version + 1]

\* A receipt or an observation of step k of the current attempt is stored;
\* l is the lease it leaves.  A receipt conflicts when it names other
\* resources than an earlier one.  It pauses the incident when the temporary
\* instance it names is taken, and when the last one of the plan brings no
\* usable address (candidate_missing).
StoreReceipt(i, k, result, conflict, l) ==
  LET status == ReceiptStatus(steps[i][k], result, conflict)
      r == ReceiptRow(inc[i], status)
      settled == IF status \in {"applied", "not_applied"}
                 THEN Resolved(lease, i, k) ELSE lease
      complete == /\ status = "applied" /\ inc[i].phase = "cloud"
                  /\ \A m \in StepNo \ {k} : steps[i][m].status = "applied"
  IN /\ steps' = [steps EXCEPT ![i][k] =
          [@ EXCEPT !.status = status, !.receipt = TRUE]]
     /\ IF inc[i].terminated
        THEN l = lease /\ UNCHANGED <<inc, slot>>
        ELSE IF ~complete
        THEN /\ l = settled
             /\ \/ inc' = [inc EXCEPT ![i] = r]
                \/ /\ ~conflict /\ steps[i][k].status # "applied"
                   /\ inc' = [inc EXCEPT ![i] = PauseIn(r, "other")]
             /\ UNCHANGED slot
        ELSE \/ /\ inc[i].version = slot[i].version
                /\ inc' = [inc EXCEPT ![i] = Installed(i, r)]
                /\ slot' = [slot EXCEPT ![i] =
                     [version |-> @.version + 1, candidate |-> TRUE]]
                /\ l = IF settled.incident = i
                       THEN [settled EXCEPT !.incident = None] ELSE settled
             \/ /\ inc' = [inc EXCEPT ![i] = PauseIn(r, "other")]
                /\ l = settled
                /\ UNCHANGED slot

SaveReceipt(i, k, f, result, l) ==
  \/ /\ ReceiptIgnored(i, k, f)
     /\ l = lease /\ UNCHANGED <<inc, steps, slot>>
  \/ /\ ~ReceiptIgnored(i, k, f)
     /\ \E conflict \in BOOLEAN :
          /\ conflict => steps[i][k].receipt
          /\ StoreReceipt(i, k, result, conflict, l)

RejectIgnored(i, n, k, f) ==
  \/ inc[i].terminated \/ inc[i].attempt # n
  \/ steps[i][k].status = "applied" \/ steps[i][k].fence # f

\* reject() of an error that leaves the effect uncertain, and of one that
\* proves that there is none.
RejectUncertain(i, n, k, f, code) ==
  IF \/ RejectIgnored(i, n, k, f) \/ inc[i].userPaused
     \/ inc[i].error = "recoveries_exhausted"
  THEN UNCHANGED inc
  ELSE inc' = [inc EXCEPT ![i].error = ErrorOf(code)]

\* Mutant: the rejection of any step gives the attempt back.
RefundAnyStep(i, n, k, f, code, l) ==
  IF RejectIgnored(i, n, k, f)
  THEN l = lease /\ UNCHANGED <<inc, attempts, steps, budget>>
  ELSE /\ steps' = [steps EXCEPT ![i][k] =
            [@ EXCEPT !.status = "rejected", !.throttled = code = "throttled"]]
       /\ l = Resolved(lease, i, k)
       /\ attempts' = [attempts EXCEPT ![i][n].charged = FALSE]
       /\ budget' = [budget EXCEPT
            ![i][attempts[i][n].segment].used = @ - 1]
       /\ inc' = [inc EXCEPT ![i] = IF code = "throttled"
                                    THEN ScheduleRecovery(@, code)
                                    ELSE PauseIn(@, code)]

RejectNoEffect(i, n, k, f, code, l) ==
  IF RejectIgnored(i, n, k, f)
  THEN l = lease /\ UNCHANGED <<inc, attempts, steps, budget>>
  ELSE /\ steps' = [steps EXCEPT ![i][k] =
            [@ EXCEPT !.status = "rejected", !.throttled = code = "throttled"]]
       /\ l = Resolved(lease, i, k)
       /\ IF k = 1 /\ attempts[i][n].charged
          THEN /\ attempts' = [attempts EXCEPT ![i][n].charged = FALSE]
               /\ budget' = [budget EXCEPT
                    ![i][attempts[i][n].segment].used = @ - 1]
          ELSE UNCHANGED <<attempts, budget>>
       /\ inc' = [inc EXCEPT ![i] = IF code = "throttled"
                                    THEN ScheduleRecovery(@, code)
                                    ELSE PauseIn(@, code)]

-----------------------------------------------------------------------------
(* The cloud.  A call takes effect, or is known never to, at any moment    *)
(* after it was made; an observation is taken at face value when it says   *)
(* that the step was applied or was not (the adapters answer so only on    *)
(* conclusive evidence), and may always be inconclusive.                   *)

CloudApplies(f) ==
  /\ write[f].effect = "open"
  /\ write' = [write EXCEPT ![f].effect = "applied"]
  /\ UNCHANGED <<inc, attempts, steps, budget, lease, slot, revision, job>>

CloudFails(f) ==
  /\ write[f].effect = "open"
  /\ write' = [write EXCEPT ![f].effect = "none"]
  /\ UNCHANGED <<inc, attempts, steps, budget, lease, slot, revision, job>>

Observations(f) ==
  {"pending", "ambiguous"} \cup
  CASE write[f].effect = "applied" -> {"applied"}
    [] write[f].effect = "none" -> {"not_applied"}
    [] OTHER -> {}

Observe(j) ==
  /\ job[j].pc = "observing"
  /\ \E result \in Observations(job[j].stepFence) :
       job' = [job EXCEPT ![j].pc = "observed", ![j].result = result]
  /\ UNCHANGED <<inc, attempts, steps, budget, lease, slot, revision, write>>

SaveObservation(j) ==
  LET i == job[j].inc
      k == job[j].step
      f == job[j].stepFence
  IN /\ job[j].pc = "observed"
     /\ IF inc[i].attempt # job[j].attempt
        THEN Ends(j, lease) /\ UNCHANGED <<inc, steps, slot>>
        ELSE \E l \in {lease, Resolved(lease, i, k),
                       [Resolved(lease, i, k) EXCEPT !.incident = None]} :
               /\ SaveReceipt(i, k, f, job[j].result, l)
               /\ \/ Ends(j, l)
                  \/ \* the convergence deadline of the step has passed
                     /\ ~ReceiptIgnored(i, k, f)
                     /\ job[j].result = "pending"
                     /\ GoPause(j, "recoverable") /\ lease' = l
     /\ UNCHANGED <<attempts, budget, revision, write>>

ObserveFails(j) ==
  LET i == job[j].inc IN
  /\ job[j].pc \in {"observing", "observed"}
  /\ \E code \in {"recoverable", "throttled", "other"} :
       /\ RejectUncertain(i, job[j].attempt, job[j].step, job[j].stepFence,
                          code)
       /\ IF RejectIgnored(i, job[j].attempt, job[j].step, job[j].stepFence)
          THEN Ends(j, lease)
          ELSE GoPause(j, code) /\ UNCHANGED lease
  /\ UNCHANGED <<attempts, steps, budget, slot, revision, write>>

\* adapter.execute has answered with a receipt.
ExecuteReturns(j) ==
  LET i == job[j].inc
      k == job[j].step
  IN /\ job[j].pc = "executing"
     /\ IF inc[i].attempt # job[j].attempt
        THEN GoPause(j, "recoverable") /\ UNCHANGED <<inc, steps, slot, lease>>
        ELSE \E l \in {lease, Resolved(lease, i, k),
                       [Resolved(lease, i, k) EXCEPT !.incident = None]} :
               SaveReceipt(i, k, job[j].fence, "pending", l) /\ Ends(j, l)
     /\ UNCHANGED <<attempts, budget, revision, write>>

\* It has answered with one of noEffectErrors: the call was not admitted.
ExecuteRefused(j) ==
  LET i == job[j].inc
      k == job[j].step
      f == job[j].fence
  IN /\ job[j].pc = "executing"
     /\ write[f].effect # "applied"
     /\ write' = [write EXCEPT ![f].effect = "none"]
     /\ \E code \in {"throttled", "other"}, l \in {lease, Resolved(lease, i, k)} :
          /\ RejectNoEffect(i, job[j].attempt, k, f, code, l)
          /\ Ends(j, l)
     /\ UNCHANGED <<slot, revision>>

\* Mutant: a call without an answer counts as one without an effect.
TimeoutIsRejection(j) ==
  LET i == job[j].inc
      k == job[j].step
  IN /\ job[j].pc = "executing"
     /\ \E code \in {"throttled", "other"}, l \in {lease, Resolved(lease, i, k)} :
          /\ RejectNoEffect(i, job[j].attempt, k, job[j].fence, code, l)
          /\ Ends(j, l)
     /\ UNCHANGED <<slot, revision, write>>

\* It has thrown, or has not answered in time; in the second case the
\* lateResult callback stays behind.
ExecuteUncertain(j) ==
  /\ job[j].pc = "executing"
  /\ RejectUncertain(job[j].inc, job[j].attempt, job[j].step, job[j].fence,
                     "recoverable")
  /\ \/ UNCHANGED write
     \/ write' = [write EXCEPT ![job[j].fence].late = TRUE]
  /\ Ends(j, lease)
  /\ UNCHANGED <<attempts, steps, budget, slot, revision>>

\* saveReceipt called by lateResult, without a lease.
LateReceipt(f) ==
  LET i == write[f].inc
      k == write[f].step
  IN /\ write[f].late
     /\ write' = [write EXCEPT ![f].late = FALSE]
     /\ IF inc[i].attempt # write[f].attempt
        THEN UNCHANGED <<inc, steps, slot, lease>>
        ELSE /\ lease' \in {lease, Resolved(lease, i, k),
                            [Resolved(lease, i, k) EXCEPT !.incident = None]}
             /\ SaveReceipt(i, k, f, "pending", lease')
     /\ UNCHANGED <<attempts, budget, revision, job>>

\* The worker process stops, and its callbacks with it.
Crash(j) ==
  /\ job[j].pc # "idle" \/ \E f \in Fence : write[f].late /\ write[f].by = j
  /\ job' = [job EXCEPT ![j] = IdleJob]
  /\ write' = [f \in Fence |->
       IF write[f].by = j THEN [write[f] EXCEPT !.late = FALSE] ELSE write[f]]
  /\ UNCHANGED <<inc, attempts, steps, budget, lease, slot, revision>>

-----------------------------------------------------------------------------
UserStep ==
  \/ \E i \in Incident :
       \/ \E manual \in BOOLEAN : Start(i, manual)
       \/ Pause(i) \/ Resume(i) \/ Terminate(i) \/ AuthorizationChanges(i)
       \/ Promote(i) \/ PublicationFails(i) \/ CompleteIncident(i)
  \/ Reset

TimePasses == LeaseExpires \/ \E i \in Incident : RetryFallsDue(i)

JobStep(j) ==
  \/ \E i \in Incident : Claim(j, i)
  \/ Read(j) \/ Settle(j) \/ Prepare(j) \/ PrepareRefused(j)
  \/ Dispatch(j) \/ DispatchRefused(j) \/ Throws(j) \/ PauseAfterError(j)
  \/ Observe(j) \/ SaveObservation(j) \/ ObserveFails(j)
  \/ ExecuteReturns(j) \/ ExecuteRefused(j) \/ ExecuteUncertain(j)
  \/ Crash(j)

CloudStep ==
  \E f \in Fence : CloudApplies(f) \/ CloudFails(f) \/ LateReceipt(f)

Next ==
  \/ UserStep \/ TimePasses \/ CloudStep
  \/ \E i \in Incident : ClaimForeign(i)
  \/ \E j \in Job : JobStep(j)

Spec == Init /\ [][Next]_vars

-----------------------------------------------------------------------------
(* Properties.                                                             *)

\* The plan of at most one incident is under way on the instance: an ongoing
\* incident whose current attempt is in the cloud phase is the one the lease
\* names (claim, prepare and installCandidate in rotation-store.ts).
PlanOwnsInstance ==
  \A i \in Incident :
    Ongoing(i) /\ inc[i].phase = "cloud" /\ HasAttempt(inc[i]) =>
      lease.incident = i

\* A call whose outcome is still open in the cloud pins the instance: the
\* lease keeps naming its step and its incident, across crashes, lost
\* leases, resumptions and termination, until a reset gives it up.
OpenCallsArePinned ==
  \A f \in Fence :
    LET w == write[f] IN
    w.effect = "open" /\ inc[w.inc].error # "reset" =>
      /\ lease.unresolved = <<w.inc, w.attempt, w.step>>
      /\ lease.incident = w.inc

\* A cloud step never takes effect twice: a step is dispatched again only
\* after its earlier calls are known to have had no effect.
StepTakesEffectOnce ==
  \A f, g \in Fence :
    /\ write[f].effect # "none" /\ write[g].effect # "none"
    /\ write[f].inc = write[g].inc /\ write[f].attempt = write[g].attempt
    /\ write[f].step = write[g].step
    => f = g

\* The budget counts the attempts that reached the cloud: its used attempts
\* are the charged ones of the segment, within the limit, and an attempt
\* with a call that has or may have an effect is charged, whatever refunds
\* were made in between.
BudgetAccounts ==
  /\ \A i \in Incident : \A b \in 1 .. inc[i].segments :
       /\ budget[i][b].used =
            Cardinality({n \in 1 .. inc[i].attempts :
              attempts[i][n].charged /\ attempts[i][n].segment = b})
       /\ budget[i][b].used <= budget[i][b].max
  /\ \A f \in Fence :
       write[f].effect # "none" =>
         attempts[write[f].inc][write[f].attempt].charged

\* Nothing revives an incident that has ended, not even answers and receipts
\* that arrive afterwards: one that was terminated stays complete, and any
\* keeps its phase and its attempts and makes no further calls.
TerminalIsFinal ==
  [][\A i \in Incident :
       /\ inc[i].terminated => inc'[i].status = "complete"
       /\ inc[i].terminated \/ inc[i].phase = "complete" =>
            /\ inc'[i].phase = inc[i].phase
            /\ inc'[i].attempts = inc[i].attempts
            /\ \A f \in Fence : write'[f].inc = i => write[f].inc = i]_vars

\* Calls are made only by the holder of an unexpired lease, for what is
\* authorized at that moment, whatever the job read before its last await.
CallsAreAdmitted ==
  [][\A f \in Fence : write[f].inc = None /\ write'[f].inc # None =>
       /\ lease.held /\ lease.revision = f
       /\ inc[write'[f].inc].expects = revision[write'[f].inc]
       /\ ~inc[write'[f].inc].userPaused]_vars
=============================================================================
