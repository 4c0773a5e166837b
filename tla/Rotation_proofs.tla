---------------------------- MODULE Rotation_proofs ----------------------------
(***************************************************************************)
(* Rotations for any number of incidents and workers, any plan length and  *)
(* any limits: first their types and locks, then what they do to the cloud *)
(* and to the budget.  A cloud step takes effect once, the budget counts   *)
(* the attempts that reached the cloud, one plan owns the instance, what   *)
(* has ended stays so, and calls are made only for what is authorized.     *)
(*                                                                         *)
(* None of these invariants is inductive.  That a step is not dispatched   *)
(* again after a call that had an effect rests on what the rows of the     *)
(* plan say of the calls: the row of a step carries the fence of its last  *)
(* call, says "applied" only of a call that was, and is ready to be        *)
(* dispatched again only when no call had an effect.  That an attempt is   *)
(* refunded only when nothing of it reached the cloud rests on the order   *)
(* of the plan: whatever reached the cloud did so after the first step.    *)
(***************************************************************************)
EXTENDS Rotation, FiniteSetTheorems, TLAPS

AtStep == {"observing", "observed", "dispatching", "executing"}

\* A job that runs works on an incident, and on a step of its plan where it
\* needs one; it has an answer once it has observed a step.
JobsWork ==
  \A j \in Job :
    /\ job[j].pc # "idle" => job[j].inc \in Incident
    /\ job[j].pc \in AtStep => job[j].step \in StepNo
    /\ job[j].pc = "observed" => job[j].result # "none"

TypeInv == TypeOK /\ JobsWork

-----------------------------------------------------------------------------
(* The operators that write the row of an incident, a plan or the lease.   *)

LEMMA ScheduleRecoveryType ==
  ASSUME NEW r \in IncidentRow, NEW code \in Code
  PROVE  ScheduleRecovery(r, code) \in IncidentRow
<1>1. r.recoveries + 1 \in Nat
  BY DEF IncidentRow
<1>2. [r EXCEPT !.status = "exhausted", !.error = "recoveries_exhausted",
                !.retry = "none"] \in IncidentRow
  BY DEF IncidentRow
<1>3. (IF code = "throttled" THEN "none" ELSE "recoverable")
        \in {"none", "recoverable"}
  OBVIOUS
<1>4. [r EXCEPT !.status = "active", !.recoveries = @ + 1,
                !.retry = "waiting",
                !.error = IF code = "throttled" THEN "none"
                          ELSE "recoverable"] \in IncidentRow
  BY <1>1, <1>3, Zenon DEF IncidentRow
<1>5. QED BY <1>2, <1>4, Zenon DEF ScheduleRecovery

LEMMA PauseInType ==
  ASSUME NEW r \in IncidentRow, NEW code \in Code
  PROVE  PauseIn(r, code) \in IncidentRow
<1>1. ErrorOf(code) \in {"none", "recoverable"}
  BY DEF ErrorOf
<1>2. (IF code = "attempts" THEN "exhausted" ELSE "paused")
        \in {"exhausted", "paused"}
  OBVIOUS
<1>3. [r EXCEPT !.status = IF code = "attempts" THEN "exhausted" ELSE "paused",
                !.error = ErrorOf(code)] \in IncidentRow
  BY <1>1, <1>2, Zenon DEF IncidentRow
<1>4. QED BY <1>3, ScheduleRecoveryType, Zenon DEF PauseIn

LEMMA ReadRowType ==
  ASSUME NEW r \in IncidentRow, NEW j
  PROVE  ReadRow(j, r) \in IncidentRow
<1>1. ScheduleRecovery(r, "recoverable") \in IncidentRow
  BY ScheduleRecoveryType DEF Code
<1>2. [r EXCEPT !.retry = "none", !.error = "none"] \in IncidentRow
  BY DEF IncidentRow
<1>3. QED BY <1>1, <1>2, Zenon DEF ReadRow

LEMMA ReceiptRowType ==
  ASSUME NEW r \in IncidentRow, NEW status
  PROVE  ReceiptRow(r, status) \in IncidentRow
<1>1. PauseIn(r, "other") \in IncidentRow
  BY PauseInType DEF Code
<1>2. [r EXCEPT !.status = "active", !.error = "none", !.retry = "none"]
        \in IncidentRow
  BY DEF IncidentRow
<1>3. QED BY <1>1, <1>2, Zenon DEF ReceiptRow

LEMMA InstalledType ==
  ASSUME TypeOK, NEW i \in Incident, NEW r \in IncidentRow
  PROVE  Installed(i, r) \in IncidentRow
<1>1. slot[i].version + 1 \in Nat
  BY DEF TypeOK
<1>2. (IF r.manual THEN "publish" ELSE "candidate") \in {"publish", "candidate"}
  OBVIOUS
<1>3. (IF r.pending # 0 THEN r.pending ELSE r.segment) \in Nat
  BY DEF IncidentRow
<1>4. QED BY <1>1, <1>2, <1>3, Zenon DEF Installed, IncidentRow

LEMMA RepreparedType ==
  ASSUME NEW s \in StepRow
  PROVE  Reprepared(s) \in StepRow
BY DEF Reprepared, StepRow, StepStatus

LEMMA ReadPlanType ==
  ASSUME NEW j, NEW r, NEW p \in [StepNo -> StepRow]
  PROVE  ReadPlan(j, r, p) \in [StepNo -> StepRow]
BY RepreparedType DEF ReadPlan

LEMMA ReleasedType ==
  ASSUME NEW l \in LeaseRow, NEW f
  PROVE  Released(l, f) \in LeaseRow
BY Zenon DEF Released, LeaseRow

LEMMA ResolvedType ==
  ASSUME NEW l \in LeaseRow, NEW i, NEW k
  PROVE  Resolved(l, i, k) \in LeaseRow
<1>1. [l EXCEPT !.unresolved = None] \in LeaseRow
  BY DEF LeaseRow
<1>2. QED BY <1>1, Zenon DEF Resolved

LEMMA EndsType ==
  ASSUME TypeInv, NEW j \in Job, NEW l \in LeaseRow, Ends(j, l)
  PROVE  /\ lease' \in LeaseRow
         /\ job' \in [Job -> JobState]
         /\ JobsWork'
<1>1. IdleJob \in JobState
  BY DEF IdleJob, JobState, Code
<1>2. Released(l, job[j].fence) \in LeaseRow
  BY ReleasedType
<1>3. IdleJob.pc = "idle"
  BY DEF IdleJob
<1>4. QED BY <1>1, <1>2, <1>3 DEF Ends, TypeInv, TypeOK, JobsWork, AtStep

LEMMA GoPauseType ==
  ASSUME TypeInv, NEW j \in Job, NEW code \in Code, job[j].pc # "idle",
         GoPause(j, code)
  PROVE  job' \in [Job -> JobState] /\ JobsWork'
<1>1. job[j] \in JobState
  BY DEF TypeInv, TypeOK
<1>2. [job[j] EXCEPT !.pc = "pausing", !.code = code] \in JobState
  BY <1>1 DEF JobState
<1>3. QED BY <1>2 DEF GoPause, TypeInv, TypeOK, JobsWork, JobState, AtStep

LEMMA GoToType ==
  ASSUME TypeInv, NEW j \in Job, job[j].pc # "idle",
         NEW pc \in {"observing", "inspecting", "dispatching", "settling"},
         NEW n \in Nat, NEW k \in Nat, NEW f \in Nat, GoTo(j, pc, n, k, f),
         pc \in AtStep => k \in StepNo
  PROVE  job' \in [Job -> JobState] /\ JobsWork'
<1>1. job[j] \in JobState
  BY DEF TypeInv, TypeOK
<1>2. [job[j] EXCEPT !.pc = pc, !.attempt = n, !.step = k, !.stepFence = f]
        \in JobState
  BY <1>1, Zenon DEF JobState
<1>3. QED BY <1>2, SMTT(30) DEF GoTo, TypeInv, TypeOK, JobsWork, JobState, AtStep

LEMMA NestedUpdate ==
  ASSUME NEW A, NEW B, NEW S, NEW f \in [A -> [B -> S]], NEW a, NEW b, NEW e,
         a \in A /\ b \in B => e \in S
  PROVE  [f EXCEPT ![a][b] = e] \in [A -> [B -> S]]
<1>1. CASE a \in A
  <2>1. [f[a] EXCEPT ![b] = e] \in [B -> S]
    BY <1>1
  <2>2. QED BY <1>1, <2>1, Zenon
<1>2. CASE a \notin A
  BY <1>2
<1>3. QED BY <1>1, <1>2

Receipt == {"pending", "applied", "not_applied", "ambiguous"}

LEMMA StoreReceiptType ==
  ASSUME TypeInv, NEW i, NEW k, NEW result \in Receipt,
         NEW conflict \in BOOLEAN, NEW l,
         StoreReceipt(i, k, result, conflict, l)
  PROVE  /\ inc' \in [Incident -> IncidentRow]
         /\ steps' \in [Incident -> [StepNo -> StepRow]]
         /\ slot' \in [Incident -> [version : Nat, candidate : BOOLEAN]]
<1> DEFINE status == ReceiptStatus(steps[i][k], result, conflict)
           r == ReceiptRow(inc[i], status)
           s == [steps[i][k] EXCEPT !.status = status, !.receipt = TRUE]
           a == [version |-> slot[i].version + 1, candidate |-> TRUE]
<1> USE DEF TypeInv, TypeOK
<1>1. /\ steps' = [steps EXCEPT ![i][k] = s]
      /\ inc' \in {inc, [inc EXCEPT ![i] = r],
                   [inc EXCEPT ![i] = PauseIn(r, "other")],
                   [inc EXCEPT ![i] = Installed(i, r)]}
      /\ slot' \in {slot, [slot EXCEPT ![i] = a]}
  BY Zenon DEF StoreReceipt
<1>2. CASE i \in Incident
  <2>1. status \in StepStatus
    BY DEF ReceiptStatus, Receipt, StepStatus
  <2>2. r \in IncidentRow /\ PauseIn(r, "other") \in IncidentRow
        /\ Installed(i, r) \in IncidentRow
    BY <1>2, ReceiptRowType, PauseInType, InstalledType DEF Code
  <2>3. ASSUME k \in StepNo PROVE s \in StepRow
    <3>1. steps[i][k] \in StepRow
      BY <1>2, <2>3
    <3>2. QED BY <2>1, <3>1, Zenon DEF StepRow
  <2>4. steps \in [Incident -> [StepNo -> StepRow]]
    OBVIOUS
  <2>5. slot[i].version + 1 \in Nat
    BY <1>2
  <2>6. a \in [version : Nat, candidate : BOOLEAN]
    BY <2>5
  <2> HIDE DEF s, r, a
  <2>7. [steps EXCEPT ![i][k] = s] \in [Incident -> [StepNo -> StepRow]]
    BY <2>3, <2>4, NestedUpdate, Zenon
  <2>8. inc' \in [Incident -> IncidentRow]
    <3>1. inc \in [Incident -> IncidentRow]
      OBVIOUS
    <3>2. \A row \in IncidentRow : [inc EXCEPT ![i] = row] \in [Incident -> IncidentRow]
      BY <3>1
    <3>3. QED BY <1>1, <2>2, <3>1, <3>2, Zenon
  <2>9. slot' \in [Incident -> [version : Nat, candidate : BOOLEAN]]
    BY <1>1, <2>6
  <2>10. steps' \in [Incident -> [StepNo -> StepRow]]
    BY <1>1, <2>7, Zenon
  <2>11. QED BY <2>8, <2>9, <2>10
<1>3. CASE i \notin Incident
  <2> HIDE DEF s, r, a
  <2>1. inc' = inc /\ slot' = slot /\ steps' = steps
    BY <1>1, <1>3
  <2>2. QED BY <2>1
<1>4. QED BY <1>2, <1>3

LEMMA SaveReceiptType ==
  ASSUME TypeInv, NEW i, NEW k, NEW f, NEW result \in Receipt,
         NEW l, SaveReceipt(i, k, f, result, l)
  PROVE  /\ inc' \in [Incident -> IncidentRow]
         /\ steps' \in [Incident -> [StepNo -> StepRow]]
         /\ slot' \in [Incident -> [version : Nat, candidate : BOOLEAN]]
<1>1. CASE UNCHANGED <<inc, steps, slot>>
  BY <1>1 DEF TypeInv, TypeOK
<1>2. CASE \E conflict \in BOOLEAN : StoreReceipt(i, k, result, conflict, l)
  BY <1>2, StoreReceiptType, Zenon
<1>3. QED BY <1>1, <1>2, Zenon DEF SaveReceipt

LEMMA RejectUncertainType ==
  ASSUME TypeInv, NEW i \in Incident, NEW n, NEW k, NEW f, NEW code,
         RejectUncertain(i, n, k, f, code)
  PROVE  inc' \in [Incident -> IncidentRow]
<1>1. [inc[i] EXCEPT !.error = ErrorOf(code)] \in IncidentRow
  <2>1. ErrorOf(code) \in {"none", "recoverable"}
    BY DEF ErrorOf
  <2>2. inc[i] \in IncidentRow
    BY DEF TypeInv, TypeOK
  <2>3. QED BY <2>1, <2>2, Zenon DEF IncidentRow
<1>2. QED BY <1>1 DEF RejectUncertain, TypeInv, TypeOK

LEMMA RejectNoEffectType ==
  ASSUME TypeInv, NEW i \in Incident, NEW n, NEW k, NEW f, NEW code \in Code,
         NEW l, RejectNoEffect(i, n, k, f, code, l)
  PROVE  /\ inc' \in [Incident -> IncidentRow]
         /\ attempts' \in [Incident -> [1 .. MaxRows -> AttemptRow]]
         /\ steps' \in [Incident -> [StepNo -> StepRow]]
         /\ budget' \in [Incident -> [1 .. MaxSegments -> SegmentRow]]
<1> USE DEF TypeInv, TypeOK
<1>1. CASE RejectIgnored(i, n, k, f)
  BY <1>1 DEF RejectNoEffect
<1>2. CASE ~RejectIgnored(i, n, k, f)
  <2>1. inc' \in [Incident -> IncidentRow]
    <3>1. inc' \in {[inc EXCEPT ![i] = ScheduleRecovery(inc[i], code)],
                    [inc EXCEPT ![i] = PauseIn(inc[i], code)]}
      BY <1>2 DEF RejectNoEffect
    <3>2. /\ ScheduleRecovery(inc[i], code) \in IncidentRow
          /\ PauseIn(inc[i], code) \in IncidentRow
      BY ScheduleRecoveryType, PauseInType
    <3>3. QED BY <3>1, <3>2, Zenon
  <2>2. steps' \in [Incident -> [StepNo -> StepRow]]
    <3> DEFINE s == [steps[i][k] EXCEPT !.status = "rejected",
                                        !.throttled = code = "throttled"]
    <3>1. steps' = [steps EXCEPT ![i][k] = s]
      BY <1>2, Zenon DEF RejectNoEffect
    <3>2. ASSUME k \in StepNo PROVE s \in StepRow
      <4>1. steps[i][k] \in StepRow
        BY <3>2
      <4>2. "rejected" \in StepStatus /\ (code = "throttled") \in BOOLEAN
        BY Zenon DEF StepStatus
      <4>3. QED BY <4>1, <4>2, Zenon DEF StepRow
    <3>3. steps \in [Incident -> [StepNo -> StepRow]]
      OBVIOUS
    <3> HIDE DEF s
    <3>4. [steps EXCEPT ![i][k] = s] \in [Incident -> [StepNo -> StepRow]]
      BY <3>2, <3>3, NestedUpdate, Zenon
    <3>5. QED BY <3>1, <3>4
  <2>3. attempts' \in [Incident -> [1 .. MaxRows -> AttemptRow]]
    <3> DEFINE a == [attempts[i][n] EXCEPT !.charged = FALSE]
    <3>1. attempts' \in {attempts, [attempts EXCEPT ![i][n] = a]}
      BY <1>2, Zenon DEF RejectNoEffect
    <3>2. ASSUME n \in 1 .. MaxRows PROVE a \in AttemptRow
      <4>1. attempts[i][n] \in AttemptRow
        <5>1. attempts[i] \in [1 .. MaxRows -> AttemptRow]
          OBVIOUS
        <5>2. QED BY <3>2, <5>1, Zenon
      <4>2. QED BY <4>1, Zenon DEF AttemptRow
    <3>3. attempts \in [Incident -> [1 .. MaxRows -> AttemptRow]]
      OBVIOUS
    <3> HIDE DEF a
    <3>4. [attempts EXCEPT ![i][n] = a] \in [Incident -> [1 .. MaxRows -> AttemptRow]]
      BY <3>2, <3>3, NestedUpdate, Zenon
    <3>5. QED BY <3>1, <3>3, <3>4
  <2>4. budget' \in [Incident -> [1 .. MaxSegments -> SegmentRow]]
    <3> DEFINE m == attempts[i][n].segment
               b == [budget[i][m] EXCEPT !.used = @ - 1]
    <3>1. budget' \in {budget, [budget EXCEPT ![i][m] = b]}
      BY <1>2, Zenon DEF RejectNoEffect
    <3>2. ASSUME m \in 1 .. MaxSegments PROVE b \in SegmentRow
      <4>1. budget[i][m] \in SegmentRow
        BY <3>2
      <4>2. budget[i][m].used - 1 \in Int
        BY <4>1 DEF SegmentRow
      <4>3. QED BY <4>1, <4>2, Zenon DEF SegmentRow
    <3>3. budget \in [Incident -> [1 .. MaxSegments -> SegmentRow]]
      OBVIOUS
    <3> HIDE DEF m, b
    <3>4. [budget EXCEPT ![i][m] = b] \in [Incident -> [1 .. MaxSegments -> SegmentRow]]
      BY <3>2, <3>3, NestedUpdate, Zenon
    <3>5. QED BY <3>1, <3>3, <3>4
  <2>5. QED BY <2>1, <2>2, <2>3, <2>4
<1>3. QED BY <1>1, <1>2

-----------------------------------------------------------------------------
(* Type correctness, the actions of users, of time and of the cloud.       *)

LEMMA UserType ==
  ASSUME TypeInv, UserStep
  PROVE  TypeInv'
<1> USE RotationAssumption
<1>1. ASSUME NEW i \in Incident, NEW manual \in BOOLEAN, Start(i, manual)
      PROVE  TypeInv'
  <2> DEFINE r == [NoIncident EXCEPT !.phase = "cloud", !.status = "active",
                     !.manual = manual, !.segments = 1, !.segment = 1,
                     !.expects = revision[i], !.version = slot[i].version]
             b == [used |-> 0, max |-> IF manual THEN 1 ELSE MaxAttempts,
                   exhausted |-> FALSE]
  <2>1. NoIncident \in IncidentRow
    BY DEF NoIncident, IncidentRow
  <2>2. revision[i] \in Nat /\ slot[i].version \in Nat
    BY DEF TypeInv, TypeOK
  <2>3. r \in IncidentRow
    BY <2>1, <2>2, Zenon DEF IncidentRow
  <2>4. b \in SegmentRow
    BY DEF SegmentRow
  <2> HIDE DEF r, b
  <2>5. inc' = [inc EXCEPT ![i] = r] /\ budget' = [budget EXCEPT ![i][1] = b]
    BY <1>1, Zenon DEF Start, r, b
  <2>6. inc \in [Incident -> IncidentRow]
        /\ budget \in [Incident -> [1 .. MaxSegments -> SegmentRow]]
    BY DEF TypeInv, TypeOK
  <2>7. inc' \in [Incident -> IncidentRow]
    BY <2>3, <2>5, <2>6
  <2>8. budget' \in [Incident -> [1 .. MaxSegments -> SegmentRow]]
    BY <2>4, <2>5, <2>6, NestedUpdate, Zenon
  <2>9. QED BY <1>1, <2>7, <2>8 DEF Start, TypeInv, TypeOK, JobsWork
<1>2. ASSUME NEW i \in Incident, Pause(i) PROVE TypeInv'
  <2>1. inc[i] \in IncidentRow
    BY DEF TypeInv, TypeOK
  <2>2. [inc[i] EXCEPT !.status = "paused", !.userPaused = TRUE,
                       !.error = "none"] \in IncidentRow
    BY <2>1 DEF IncidentRow
  <2>3. QED BY <1>2, <2>2 DEF Pause, TypeInv, TypeOK, JobsWork
<1>3. ASSUME NEW i \in Incident, Resume(i) PROVE TypeInv'
  <2> DEFINE new == inc[i].segments + 1
             n == IF inc[i].phase = "cloud" /\ ~Continuing(i)
                  THEN 0 ELSE inc[i].attempt
             r == [inc[i] EXCEPT
                     !.status = "active", !.userPaused = FALSE, !.error = "none",
                     !.recoveries = 0, !.retry = "none", !.attempt = n,
                     !.expects = revision[i], !.version = slot[i].version,
                     !.pending = 0]
             b == [used |-> 0, max |-> MaxAttempts, exhausted |-> FALSE]
             p == [k \in StepNo |->
                     IF steps[i][k].status \in {"rejected", "not_applied"}
                     THEN Reprepared(steps[i][k]) ELSE steps[i][k]]
  <2>1. /\ inc[i] \in IncidentRow
        /\ inc \in [Incident -> IncidentRow]
        /\ steps[i] \in [StepNo -> StepRow]
        /\ steps \in [Incident -> [StepNo -> StepRow]]
        /\ budget \in [Incident -> [1 .. MaxSegments -> SegmentRow]]
    BY DEF TypeInv, TypeOK
  <2>2. /\ n \in Nat /\ new \in Nat
        /\ revision[i] \in Nat /\ slot[i].version \in Nat
    <3>1. inc[i].segments \in Nat /\ inc[i].attempt \in Nat
      BY <2>1 DEF IncidentRow
    <3>2. revision[i] \in Nat /\ slot[i].version \in Nat
      BY DEF TypeInv, TypeOK
    <3>3. QED BY <3>1, <3>2
  <2>3. r \in IncidentRow
    <3> HIDE DEF n
    <3>1. QED BY <2>1, <2>2, ZenonT(40) DEF IncidentRow
  <2>4. /\ [r EXCEPT !.segments = new, !.pending = new] \in IncidentRow
        /\ [r EXCEPT !.segments = new, !.segment = new] \in IncidentRow
    <3> HIDE DEF r, new
    <3>1. QED BY <2>2, <2>3, ZenonT(40) DEF IncidentRow
  <2>5. b \in SegmentRow
    BY RotationAssumption DEF SegmentRow
  <2>6. p \in [StepNo -> StepRow]
    BY <2>1, RepreparedType
  <2> HIDE DEF b, p, r, new
  <2>7. steps' \in {steps, [steps EXCEPT ![i] = p]}
    BY <1>3, Zenon DEF Resume, p
  <2>8. steps' \in [Incident -> [StepNo -> StepRow]]
    BY <2>1, <2>6, <2>7
  <2>9. \/ inc' = [inc EXCEPT ![i] = r]
        \/ inc' = [inc EXCEPT ![i] =
                     IF Continuing(i)
                     THEN [r EXCEPT !.segments = new, !.pending = new]
                     ELSE [r EXCEPT !.segments = new, !.segment = new]]
    BY <1>3, Zenon DEF Resume, r, new
  <2>10. inc' \in [Incident -> IncidentRow]
    BY <2>1, <2>3, <2>4, <2>9
  <2>11. budget' \in {budget, [budget EXCEPT ![i][new] = b]}
    BY <1>3, Zenon DEF Resume, b, new
  <2>12. budget' \in [Incident -> [1 .. MaxSegments -> SegmentRow]]
    <3>1. [budget EXCEPT ![i][new] = b] \in [Incident -> [1 .. MaxSegments -> SegmentRow]]
      BY <2>1, <2>5, NestedUpdate, Zenon
    <3>2. QED BY <2>1, <2>11, <3>1
  <2>13. QED BY <1>3, <2>8, <2>10, <2>12 DEF Resume, TypeInv, TypeOK, JobsWork
<1>4. ASSUME NEW i \in Incident, Terminate(i) PROVE TypeInv'
  <2>1. inc[i] \in IncidentRow /\ lease \in LeaseRow
    BY DEF TypeInv, TypeOK
  <2>2. [inc[i] EXCEPT !.status = "complete", !.terminated = TRUE,
                       !.userPaused = TRUE, !.error = "none"] \in IncidentRow
    BY <2>1 DEF IncidentRow
  <2>3. lease' \in LeaseRow
    BY <1>4, <2>1 DEF Terminate, LeaseRow
  <2>4. QED BY <1>4, <2>2, <2>3 DEF Terminate, TypeInv, TypeOK, JobsWork
<1>5. ASSUME NEW i \in Incident, AuthorizationChanges(i) PROVE TypeInv'
  BY <1>5 DEF AuthorizationChanges, TypeInv, TypeOK, JobsWork
<1>6. ASSUME NEW i \in Incident, Promote(i) PROVE TypeInv'
  <2>1. /\ lease \in LeaseRow /\ slot[i] \in [version : Nat, candidate : BOOLEAN]
        /\ inc[i] \in IncidentRow
    BY DEF TypeInv, TypeOK
  <2>2. lease' \in LeaseRow
    BY <1>6, <2>1 DEF Promote, LeaseRow
  <2>3. [slot[i] EXCEPT !.candidate = FALSE] \in [version : Nat, candidate : BOOLEAN]
    BY <2>1
  <2>4. [inc[i] EXCEPT !.error = "none", !.retry = "none"] \in IncidentRow
    BY <2>1 DEF IncidentRow
  <2>5. QED BY <1>6, <2>2, <2>3, <2>4 DEF Promote, TypeInv, TypeOK, JobsWork
<1>10. ASSUME NEW i \in Incident, PublicationFails(i) PROVE TypeInv'
  <2>1. inc[i] \in IncidentRow
    BY DEF TypeInv, TypeOK
  <2>2. PICK code \in {"recoverable", "throttled"} :
          inc' = [inc EXCEPT ![i] = ScheduleRecovery(inc[i], code)]
    BY <1>10 DEF PublicationFails
  <2>3. ScheduleRecovery(inc[i], code) \in IncidentRow
    BY <2>1, ScheduleRecoveryType DEF Code
  <2>4. QED BY <1>10, <2>2, <2>3 DEF PublicationFails, TypeInv, TypeOK, JobsWork
<1>7. ASSUME NEW i \in Incident, CompleteIncident(i) PROVE TypeInv'
  <2>1. inc[i] \in IncidentRow /\ lease \in LeaseRow
    BY DEF TypeInv, TypeOK
  <2>2. [inc[i] EXCEPT !.phase = "complete", !.status = "complete",
                       !.error = "none"] \in IncidentRow
    BY <2>1 DEF IncidentRow
  <2>3. lease' \in LeaseRow
    BY <1>7, <2>1 DEF CompleteIncident, LeaseRow
  <2>4. QED BY <1>7, <2>2, <2>3 DEF CompleteIncident, TypeInv, TypeOK, JobsWork
<1>8. ASSUME Reset PROVE TypeInv'
  <2>1. ASSUME NEW i \in Incident
        PROVE  [inc[i] EXCEPT !.status = "complete", !.terminated = TRUE,
                              !.error = "reset", !.retry = "none"] \in IncidentRow
    <3>1. inc[i] \in IncidentRow
      BY DEF TypeInv, TypeOK
    <3>2. QED BY <3>1 DEF IncidentRow
  <2>2. inc' \in [Incident -> IncidentRow]
    BY <1>8, <2>1 DEF Reset, TypeInv, TypeOK
  <2>3. ASSUME NEW i \in Incident, NEW k \in StepNo
        PROVE  [steps[i][k] EXCEPT !.status = "abandoned"] \in StepRow
    <3>1. steps[i][k] \in StepRow
      BY DEF TypeInv, TypeOK
    <3>2. QED BY <3>1 DEF StepRow, StepStatus
  <2>4. steps' \in [Incident -> [StepNo -> StepRow]]
    BY <1>8, <2>3 DEF Reset, TypeInv, TypeOK
  <2>5. lease' \in LeaseRow
    <3>1. lease.revision + 1 \in Nat
      BY DEF TypeInv, TypeOK, LeaseRow
    <3>2. QED BY <1>8, <3>1, Zenon DEF Reset, LeaseRow
  <2>6. slot' \in [Incident -> [version : Nat, candidate : BOOLEAN]]
    <3>1. ASSUME NEW i \in Incident PROVE slot[i].version + 1 \in Nat
      BY DEF TypeInv, TypeOK
    <3>2. slot' = [i \in Incident |->
                     [version |-> slot[i].version + 1, candidate |-> TRUE]]
      BY <1>8, Zenon DEF Reset
    <3>3. QED BY <3>1, <3>2, Zenon
  <2>7. QED BY <1>8, <2>2, <2>4, <2>5, <2>6 DEF Reset, TypeInv, TypeOK, JobsWork
<1>11. QED
  BY <1>1, <1>2, <1>3, <1>4, <1>5, <1>6, <1>7, <1>8, <1>10, Zenon DEF UserStep

LEMMA CloudType ==
  ASSUME TypeInv, NEW f \in Fence, CloudApplies(f) \/ CloudFails(f)
  PROVE  TypeInv'
<1>1. write[f] \in WriteState
  BY DEF TypeInv, TypeOK
<1>2. [write[f] EXCEPT !.effect = "applied"] \in WriteState
      /\ [write[f] EXCEPT !.effect = "none"] \in WriteState
  BY <1>1 DEF WriteState
<1>3. QED BY <1>2 DEF CloudApplies, CloudFails, TypeInv, TypeOK, JobsWork

LEMMA TimeType ==
  ASSUME TypeInv, TimePasses
  PROVE  TypeInv'
<1>1. ASSUME LeaseExpires PROVE TypeInv'
  <2>1. [lease EXCEPT !.held = FALSE] \in LeaseRow
    BY DEF TypeInv, TypeOK, LeaseRow
  <2>2. QED BY <1>1, <2>1 DEF LeaseExpires, TypeInv, TypeOK, JobsWork
<1>2. ASSUME NEW i \in Incident, RetryFallsDue(i) PROVE TypeInv'
  <2>1. inc[i] \in IncidentRow
    BY DEF TypeInv, TypeOK
  <2>2. [inc[i] EXCEPT !.retry = "due"] \in IncidentRow
    BY <2>1 DEF IncidentRow
  <2>3. QED BY <1>2, <2>2 DEF RetryFallsDue, TypeInv, TypeOK, JobsWork
<1>3. QED BY <1>1, <1>2, Zenon DEF TimePasses

-----------------------------------------------------------------------------
(* The actions of a job.                                                   *)

LEMMA JobType ==
  ASSUME TypeInv, NEW j \in Job, JobStep(j)
  PROVE  TypeInv'
<1> DEFINE i == job[j].inc
<1>0. /\ lease \in LeaseRow /\ job[j] \in JobState
      /\ inc \in [Incident -> IncidentRow]
      /\ steps \in [Incident -> [StepNo -> StepRow]]
      /\ budget \in [Incident -> [1 .. MaxSegments -> SegmentRow]]
      /\ attempts \in [Incident -> [1 .. MaxRows -> AttemptRow]]
      /\ write \in [Fence -> WriteState]
      /\ job[j].pc # "idle" => i \in Incident /\ inc[i] \in IncidentRow
  BY DEF TypeInv, TypeOK, JobsWork
<1>1. ASSUME NEW ii \in Incident, Claim(j, ii) PROVE TypeInv'
  <2>1. lease.revision + 1 \in Nat
    BY DEF TypeInv, TypeOK, LeaseRow
  <2>2. [lease EXCEPT !.revision = @ + 1, !.held = TRUE] \in LeaseRow
    BY <1>0, <2>1, Zenon DEF LeaseRow
  <2> DEFINE s == [IdleJob EXCEPT !.pc = "claimed", !.inc = ii,
                                  !.fence = lease.revision + 1]
  <2>3. IdleJob \in JobState
    BY DEF IdleJob, JobState, Code
  <2>4. s \in JobState /\ s.pc = "claimed" /\ s.inc = ii
    BY <2>1, <2>3 DEF JobState
  <2> HIDE DEF s
  <2>5. job' = [job EXCEPT ![j] = s]
    BY <1>1, Zenon DEF Claim, s
  <2>6. job' \in [Job -> JobState] /\ JobsWork'
    BY <2>4, <2>5 DEF TypeInv, TypeOK, JobsWork, AtStep
  <2>7. QED BY <1>1, <2>2, <2>6 DEF Claim, TypeInv, TypeOK
<1>2. ASSUME Read(j) PROVE TypeInv'
  <2> DEFINE r == ReadRow(j, inc[i])
             p == ReadPlan(j, inc[i], steps[i])
  <2>1. i \in Incident /\ job[j].pc # "idle"
    BY <1>0, <1>2 DEF Read
  <2>2. r \in IncidentRow /\ p \in [StepNo -> StepRow]
    BY <1>0, <2>1, ReadRowType, ReadPlanType
  <2>3. r.attempt \in Nat /\ \A k \in StepNo : p[k].fence \in Nat /\ k \in Nat
    BY <2>2, RotationAssumption, SMTT(30) DEF IncidentRow, StepRow, StepNo
  <2> HIDE DEF r, p
  <2>4. inc' = [inc EXCEPT ![i] = r] /\ steps' = [steps EXCEPT ![i] = p]
    BY <1>2, Zenon DEF Read, r, p
  <2>5. /\ inc' \in [Incident -> IncidentRow]
        /\ steps' \in [Incident -> [StepNo -> StepRow]]
    BY <1>0, <2>2, <2>4
  <2>6. \/ Ends(j, lease)
        \/ /\ \E k \in StepNo : GoTo(j, "observing", r.attempt, k, p[k].fence)
           /\ UNCHANGED lease
        \/ GoTo(j, "inspecting", r.attempt, 0, 0) /\ UNCHANGED lease
        \/ /\ \E k \in StepNo : GoTo(j, "dispatching", r.attempt, k, 0)
           /\ UNCHANGED lease
        \/ GoTo(j, "settling", r.attempt, 0, 0) /\ UNCHANGED lease
    BY <1>2, Zenon DEF Read, r, p
  <2>7. job' \in [Job -> JobState] /\ JobsWork' /\ lease' \in LeaseRow
    <3>1. CASE Ends(j, lease)
      BY <1>0, <3>1, EndsType
    <3>2. ASSUME NEW k \in StepNo,
                 GoTo(j, "observing", r.attempt, k, p[k].fence), UNCHANGED lease
          PROVE  job' \in [Job -> JobState] /\ JobsWork' /\ lease' \in LeaseRow
      BY <1>0, <2>1, <2>3, <3>2, GoToType DEF AtStep
    <3>3. CASE GoTo(j, "inspecting", r.attempt, 0, 0) /\ UNCHANGED lease
      BY <1>0, <2>1, <2>3, <3>3, GoToType DEF AtStep
    <3>4. ASSUME NEW k \in StepNo,
                 GoTo(j, "dispatching", r.attempt, k, 0), UNCHANGED lease
          PROVE  job' \in [Job -> JobState] /\ JobsWork' /\ lease' \in LeaseRow
      BY <1>0, <2>1, <2>3, <3>4, GoToType DEF AtStep
    <3>5. CASE GoTo(j, "settling", r.attempt, 0, 0) /\ UNCHANGED lease
      BY <1>0, <2>1, <2>3, <3>5, GoToType DEF AtStep
    <3>6. QED BY <2>6, <3>1, <3>2, <3>3, <3>4, <3>5, Zenon
  <2>8. QED BY <1>2, <2>5, <2>7 DEF Read, TypeInv, TypeOK
<1>3. ASSUME Settle(j) PROVE TypeInv'
  <2> DEFINE r == inc[i]
             b == [budget[i][r.segment] EXCEPT !.exhausted = TRUE]
             free == [lease EXCEPT !.incident = None]
  <2>1. i \in Incident /\ inc[i] \in IncidentRow
    BY <1>0, <1>3 DEF Settle
  <2>2. /\ [r EXCEPT !.phase = "publish", !.status = "active",
                     !.error = "none"] \in IncidentRow
        /\ [r EXCEPT !.phase = "complete", !.status = "complete",
                     !.error = "none"] \in IncidentRow
        /\ \A code \in Code : PauseIn(r, code) \in IncidentRow
    BY <2>1, PauseInType DEF IncidentRow
  <2>3. ASSUME r.segment \in 1 .. MaxSegments PROVE b \in SegmentRow
    <3>1. budget[i] \in [1 .. MaxSegments -> SegmentRow]
      BY <1>0, <2>1
    <3>2. budget[i][r.segment] \in SegmentRow
      BY <2>3, <3>1
    <3>3. QED BY <3>2, Zenon DEF SegmentRow
  <2>4. free \in LeaseRow
    BY <1>0 DEF LeaseRow
  <2>5. \/ inc' = [inc EXCEPT ![i] = [r EXCEPT !.phase = "publish",
                     !.status = "active", !.error = "none"]]
        \/ inc' = [inc EXCEPT ![i] = [r EXCEPT !.phase = "complete",
                     !.status = "complete", !.error = "none"]]
        \/ \E code \in Code : inc' = [inc EXCEPT ![i] = PauseIn(r, code)]
        \/ inc' = inc
    BY <1>3 DEF Settle
  <2>6. inc' \in [Incident -> IncidentRow]
    BY <1>0, <2>1, <2>2, <2>5
  <2>7. budget' \in {budget, [budget EXCEPT ![i][r.segment] = b]}
    BY <1>3, Zenon DEF Settle
  <2>8. budget' \in [Incident -> [1 .. MaxSegments -> SegmentRow]]
    <3> DEFINE n == r.segment
    <3>1. n \in 1 .. MaxSegments => b \in SegmentRow
      BY <2>3
    <3>2. budget' \in {budget, [budget EXCEPT ![i][n] = b]}
      BY <2>7
    <3> HIDE DEF n, b
    <3>3. [budget EXCEPT ![i][n] = b] \in [Incident -> [1 .. MaxSegments -> SegmentRow]]
      BY <1>0, <3>1, NestedUpdate, Zenon
    <3>4. QED BY <1>0, <3>2, <3>3, Zenon
  <2>9. Ends(j, lease) \/ Ends(j, free)
    BY <1>3, Zenon DEF Settle
  <2>10. job' \in [Job -> JobState] /\ JobsWork' /\ lease' \in LeaseRow
    BY <1>0, <2>4, <2>9, EndsType
  <2>11. QED BY <1>3, <2>6, <2>8, <2>10 DEF Settle, TypeInv, TypeOK
<1>4. ASSUME Prepare(j) PROVE TypeInv'
  <2> DEFINE n == inc[i].attempts + 1
             r == [inc[i] EXCEPT !.phase = "cloud", !.status = "active",
                     !.error = "none", !.attempts = n, !.attempt = n]
             a == [segment |-> inc[i].segment, charged |-> FALSE]
             p == [k \in StepNo |-> NewStep]
             l == [lease EXCEPT !.incident = i]
  <2>1. i \in Incident /\ inc[i] \in IncidentRow
    BY <1>0, <1>4 DEF Prepare
  <2>2. n \in Nat /\ a \in AttemptRow
    BY <2>1 DEF IncidentRow, AttemptRow
  <2>3. NewStep \in StepRow
    BY DEF NewStep, StepRow, StepStatus
  <2>4. p \in [StepNo -> StepRow]
    BY <2>3
  <2>5. l \in LeaseRow
    BY <1>0, <2>1 DEF LeaseRow
  <2>6. r \in IncidentRow
    <3> HIDE DEF n
    <3>1. QED BY <2>1, <2>2, Zenon DEF IncidentRow
  <2> HIDE DEF n, r, a, p, l
  <2>7. /\ inc' = [inc EXCEPT ![i] = r]
        /\ attempts' = [attempts EXCEPT ![i][n] = a]
        /\ steps' = [steps EXCEPT ![i] = p]
        /\ Ends(j, l)
    BY <1>4, Zenon DEF Prepare, n, r, a, p, l
  <2>8. /\ inc' \in [Incident -> IncidentRow]
        /\ steps' \in [Incident -> [StepNo -> StepRow]]
    BY <1>0, <2>4, <2>6, <2>7
  <2>9. attempts' \in [Incident -> [1 .. MaxRows -> AttemptRow]]
    BY <1>0, <2>2, <2>7, NestedUpdate, Zenon
  <2>10. job' \in [Job -> JobState] /\ JobsWork' /\ lease' \in LeaseRow
    BY <2>5, <2>7, EndsType
  <2>11. QED BY <1>4, <2>8, <2>9, <2>10 DEF Prepare, TypeInv, TypeOK
<1>5. ASSUME PrepareRefused(j) PROVE TypeInv'
  BY <1>0, <1>5, EndsType DEF PrepareRefused, TypeInv, TypeOK
<1>6. ASSUME Dispatch(j) PROVE TypeInv'
  <2> DEFINE n == job[j].attempt
             k == job[j].step
             f == job[j].fence
             m == inc[i].segment
             a == [attempts[i][n] EXCEPT !.charged = TRUE]
             b == [budget[i][m] EXCEPT !.used = @ + 1]
             s == [status |-> "in_flight", fence |-> f, receipt |-> FALSE,
                   throttled |-> FALSE]
             w == [inc |-> i, attempt |-> n, step |-> k, effect |-> "open",
                   late |-> FALSE, by |-> j]
             l == [lease EXCEPT !.unresolved = StepIdOf(i, k)]
  <2>1. /\ i \in Incident /\ inc[i] \in IncidentRow
        /\ n \in Nat /\ k \in Nat /\ f \in Nat /\ job[j].pc = "dispatching"
    BY <1>0, <1>6 DEF Dispatch, JobState
  <2>2. k \in StepNo
    BY <2>1 DEF AtStep, TypeInv, JobsWork
  <2>3. n \in 1 .. MaxRows => a \in AttemptRow
    <3>1. ASSUME n \in 1 .. MaxRows PROVE attempts[i][n] \in AttemptRow
      <4>1. attempts[i] \in [1 .. MaxRows -> AttemptRow]
        BY <1>0, <2>1
      <4>2. QED BY <3>1, <4>1
    <3>2. QED BY <3>1, Zenon DEF AttemptRow
  <2>4. m \in 1 .. MaxSegments => b \in SegmentRow
    <3>1. ASSUME m \in 1 .. MaxSegments
          PROVE  b \in SegmentRow
      <4>1. budget[i] \in [1 .. MaxSegments -> SegmentRow]
        BY <1>0, <2>1
      <4>2. budget[i][m] \in SegmentRow
        BY <3>1, <4>1
      <4>3. budget[i][m].used + 1 \in Int
        BY <4>2 DEF SegmentRow
      <4>4. QED BY <4>2, <4>3, Zenon DEF SegmentRow
    <3>2. QED BY <3>1
  <2>5. s \in StepRow /\ w \in WriteState
    BY <2>1 DEF StepRow, StepStatus, WriteState
  <2>6. l \in LeaseRow
    <3>1. StepIdOf(i, k) \in StepId
      BY <2>1, <2>2 DEF StepIdOf, StepId, IncidentRow
    <3>2. QED BY <1>0, <3>1 DEF LeaseRow
  <2> HIDE DEF n, k, f, m, a, b, s, w, l
  <2>7. /\ attempts' \in {attempts, [attempts EXCEPT ![i][n] = a]}
        /\ budget' \in {budget, [budget EXCEPT ![i][m] = b]}
        /\ steps' = [steps EXCEPT ![i][k] = s]
        /\ inc' = [inc EXCEPT ![i].error = "none"]
        /\ lease' = l
        /\ write' = [write EXCEPT ![f] = w]
        /\ job' = [job EXCEPT ![j].pc = "executing"]
    BY <1>6, Zenon DEF Dispatch, n, k, f, m, a, b, s, w, l
  <2>8. attempts' \in [Incident -> [1 .. MaxRows -> AttemptRow]]
    <3>1. attempts \in [Incident -> [1 .. MaxRows -> AttemptRow]]
      BY <1>0
    <3>2. [attempts EXCEPT ![i][n] = a] \in [Incident -> [1 .. MaxRows -> AttemptRow]]
      BY <2>3, <3>1, NestedUpdate, ZenonT(40)
    <3>3. QED BY <2>7, <3>1, <3>2
  <2>9. budget' \in [Incident -> [1 .. MaxSegments -> SegmentRow]]
    <3>1. [budget EXCEPT ![i][m] = b] \in [Incident -> [1 .. MaxSegments -> SegmentRow]]
      BY <1>0, <2>4, NestedUpdate, Zenon
    <3>2. QED BY <1>0, <2>7, <3>1, Zenon
  <2>10. steps' \in [Incident -> [StepNo -> StepRow]]
    BY <1>0, <2>5, <2>7, NestedUpdate, Zenon
  <2>11. write' \in [Fence -> WriteState]
    BY <1>0, <2>5, <2>7
  <2>12. inc' \in [Incident -> IncidentRow]
    <3>1. [inc[i] EXCEPT !.error = "none"] \in IncidentRow
      BY <2>1 DEF IncidentRow
    <3>2. QED BY <1>0, <2>7, <3>1
  <2>13. job' \in [Job -> JobState] /\ JobsWork'
    <3>1. [job[j] EXCEPT !.pc = "executing"] \in JobState
      BY <1>0 DEF JobState
    <3>2. QED BY <2>1, <2>2, <2>7, <3>1
             DEF TypeInv, TypeOK, JobsWork, JobState, AtStep, k
  <2>14. QED BY <1>6, <2>6, <2>7, <2>8, <2>9, <2>10, <2>11, <2>12, <2>13
            DEF Dispatch, TypeInv, TypeOK
<1>7. ASSUME DispatchRefused(j) PROVE TypeInv'
  <2>1. i \in Incident /\ [inc[i] EXCEPT !.error = "none"] \in IncidentRow
    BY <1>0, <1>7 DEF DispatchRefused, IncidentRow
  <2>2. inc' \in [Incident -> IncidentRow]
    BY <1>0, <1>7, <2>1 DEF DispatchRefused
  <2>3. QED BY <1>0, <1>7, <2>2, EndsType DEF DispatchRefused, TypeInv, TypeOK
<1>8. ASSUME Throws(j) PROVE TypeInv'
  BY <1>8, GoPauseType DEF Throws, Code, TypeInv, TypeOK
<1>9. ASSUME PauseAfterError(j) PROVE TypeInv'
  <2>1. i \in Incident /\ PauseIn(inc[i], job[j].code) \in IncidentRow
    BY <1>0, <1>9, PauseInType DEF PauseAfterError, JobState
  <2>2. inc' \in [Incident -> IncidentRow]
    BY <1>0, <1>9, <2>1 DEF PauseAfterError
  <2>3. QED BY <1>0, <1>9, <2>2, EndsType DEF PauseAfterError, TypeInv, TypeOK
<1>10. ASSUME Observe(j) PROVE TypeInv'
  <2>1. PICK result \in Observations(job[j].stepFence) :
          job' = [job EXCEPT ![j].pc = "observed", ![j].result = result]
    BY <1>10 DEF Observe
  <2>2. result \in Receipt
    BY <2>1, Zenon DEF Observations, Receipt
  <2>3. [job[j] EXCEPT !.pc = "observed", !.result = result] \in JobState
    BY <1>0, <2>2 DEF JobState, Receipt
  <2>4. result # "none" /\ i \in Incident /\ job[j].step \in StepNo
    BY <1>0, <1>10, <2>2 DEF Observe, Receipt, TypeInv, JobsWork, AtStep
  <2>5. job' \in [Job -> JobState] /\ JobsWork'
    BY <2>1, <2>3, <2>4 DEF TypeInv, TypeOK, JobsWork, JobState
  <2>6. QED BY <1>10, <2>5 DEF Observe, TypeInv, TypeOK
<1>11. ASSUME SaveObservation(j) PROVE TypeInv'
  <2> DEFINE k == job[j].step
             f == job[j].stepFence
             L == {lease, Resolved(lease, i, k),
                   [Resolved(lease, i, k) EXCEPT !.incident = None]}
  <2>1. job[j].result \in Receipt /\ job[j].pc # "idle"
    BY <1>0, <1>11 DEF SaveObservation, JobsWork, TypeInv, JobState, Receipt
  <2>2. \A l \in L : l \in LeaseRow
    <3>1. Resolved(lease, i, k) \in LeaseRow
      BY <1>0, ResolvedType
    <3>2. [Resolved(lease, i, k) EXCEPT !.incident = None] \in LeaseRow
      BY <3>1 DEF LeaseRow
    <3>3. QED BY <1>0, <3>1, <3>2
  <2>3. CASE Ends(j, lease) /\ UNCHANGED <<inc, steps, slot>>
    BY <1>0, <1>11, <2>3, EndsType DEF SaveObservation, TypeInv, TypeOK
  <2>4. ASSUME NEW l \in L, SaveReceipt(i, k, f, job[j].result, l),
               \/ Ends(j, l)
               \/ GoPause(j, "recoverable") /\ lease' = l
        PROVE  TypeInv'
    <3>1. job' \in [Job -> JobState] /\ JobsWork' /\ lease' \in LeaseRow
      BY <2>1, <2>2, <2>4, EndsType, GoPauseType DEF Code
    <3>2. /\ inc' \in [Incident -> IncidentRow]
          /\ steps' \in [Incident -> [StepNo -> StepRow]]
          /\ slot' \in [Incident -> [version : Nat, candidate : BOOLEAN]]
      BY <2>1, <2>4, SaveReceiptType
    <3>3. QED BY <1>11, <3>1, <3>2 DEF SaveObservation, TypeInv, TypeOK
  <2>5. QED BY <1>11, <2>3, <2>4, Zenon DEF SaveObservation
<1>12. ASSUME ObserveFails(j) PROVE TypeInv'
  <2>1. PICK code \in {"recoverable", "throttled", "other"} :
          /\ RejectUncertain(i, job[j].attempt, job[j].step, job[j].stepFence,
                             code)
          /\ \/ Ends(j, lease)
             \/ GoPause(j, code) /\ UNCHANGED lease
    BY <1>12, Zenon DEF ObserveFails
  <2>2. code \in Code /\ job[j].pc # "idle" /\ i \in Incident
    BY <1>0, <1>12 DEF ObserveFails, Code
  <2>3. inc' \in [Incident -> IncidentRow]
    BY <2>1, <2>2, RejectUncertainType
  <2>4. job' \in [Job -> JobState] /\ JobsWork' /\ lease' \in LeaseRow
    BY <1>0, <2>1, <2>2, EndsType, GoPauseType
  <2>5. QED BY <1>12, <2>3, <2>4 DEF ObserveFails, TypeInv, TypeOK
<1>13. ASSUME ExecuteReturns(j) PROVE TypeInv'
  <2> DEFINE k == job[j].step
             L == {lease, Resolved(lease, i, k),
                   [Resolved(lease, i, k) EXCEPT !.incident = None]}
  <2>1. job[j].pc # "idle" /\ "pending" \in Receipt
    BY <1>13 DEF ExecuteReturns, Receipt
  <2>2. \A l \in L : l \in LeaseRow
    <3>1. Resolved(lease, i, k) \in LeaseRow
      BY <1>0, ResolvedType
    <3>2. [Resolved(lease, i, k) EXCEPT !.incident = None] \in LeaseRow
      BY <3>1 DEF LeaseRow
    <3>3. QED BY <1>0, <3>1, <3>2
  <2>3. CASE GoPause(j, "recoverable") /\ UNCHANGED <<inc, steps, slot, lease>>
    BY <1>0, <1>13, <2>1, <2>3, GoPauseType
       DEF ExecuteReturns, TypeInv, TypeOK, Code
  <2>4. ASSUME NEW l \in L, SaveReceipt(i, k, job[j].fence, "pending", l),
               Ends(j, l)
        PROVE  TypeInv'
    <3>1. job' \in [Job -> JobState] /\ JobsWork' /\ lease' \in LeaseRow
      BY <2>2, <2>4, EndsType
    <3>2. /\ inc' \in [Incident -> IncidentRow]
          /\ steps' \in [Incident -> [StepNo -> StepRow]]
          /\ slot' \in [Incident -> [version : Nat, candidate : BOOLEAN]]
      BY <2>1, <2>4, SaveReceiptType
    <3>3. QED BY <1>13, <3>1, <3>2 DEF ExecuteReturns, TypeInv, TypeOK
  <2>5. QED BY <1>13, <2>3, <2>4, Zenon DEF ExecuteReturns
<1>14. ASSUME ExecuteRefused(j) PROVE TypeInv'
  <2> DEFINE k == job[j].step
             f == job[j].fence
  <2>1. PICK code \in {"throttled", "other"}, l \in {lease, Resolved(lease, i, k)} :
          RejectNoEffect(i, job[j].attempt, k, f, code, l) /\ Ends(j, l)
    BY <1>14, Zenon DEF ExecuteRefused
  <2>2. code \in Code /\ i \in Incident /\ l \in LeaseRow
    BY <1>0, <1>14, <2>1, ResolvedType DEF ExecuteRefused, Code
  <2>3. /\ inc' \in [Incident -> IncidentRow]
        /\ attempts' \in [Incident -> [1 .. MaxRows -> AttemptRow]]
        /\ steps' \in [Incident -> [StepNo -> StepRow]]
        /\ budget' \in [Incident -> [1 .. MaxSegments -> SegmentRow]]
    BY <2>1, <2>2, RejectNoEffectType
  <2>4. job' \in [Job -> JobState] /\ JobsWork' /\ lease' \in LeaseRow
    BY <2>1, <2>2, EndsType
  <2>5. write' \in [Fence -> WriteState]
    <3>1. ASSUME f \in Fence
          PROVE  [write[f] EXCEPT !.effect = "none"] \in WriteState
      <4>1. write[f] \in WriteState
        BY <1>0, <3>1
      <4>2. QED BY <4>1, ZenonT(40) DEF WriteState
    <3>2. QED BY <1>0, <1>14, <3>1 DEF ExecuteRefused
  <2>6. QED BY <1>14, <2>3, <2>4, <2>5 DEF ExecuteRefused, TypeInv, TypeOK
<1>15. ASSUME ExecuteUncertain(j) PROVE TypeInv'
  <2> DEFINE f == job[j].fence
  <2>1. i \in Incident
    BY <1>0, <1>15 DEF ExecuteUncertain
  <2>2. inc' \in [Incident -> IncidentRow]
    BY <1>15, <2>1, RejectUncertainType DEF ExecuteUncertain
  <2>3. job' \in [Job -> JobState] /\ JobsWork' /\ lease' \in LeaseRow
    BY <1>0, <1>15, EndsType DEF ExecuteUncertain
  <2>4. write' \in [Fence -> WriteState]
    <3>1. ASSUME f \in Fence
          PROVE  [write[f] EXCEPT !.late = TRUE] \in WriteState
      BY <1>0, <3>1 DEF WriteState
    <3>2. QED BY <1>0, <1>15, <3>1 DEF ExecuteUncertain
  <2>5. QED BY <1>15, <2>2, <2>3, <2>4 DEF ExecuteUncertain, TypeInv, TypeOK
<1>16. ASSUME Crash(j) PROVE TypeInv'
  <2>1. IdleJob \in JobState /\ IdleJob.pc = "idle"
    BY DEF IdleJob, JobState, Code
  <2>2. job' \in [Job -> JobState] /\ JobsWork'
    BY <1>16, <2>1 DEF Crash, TypeInv, TypeOK, JobsWork, AtStep
  <2>3. ASSUME NEW f \in Fence
        PROVE  [write[f] EXCEPT !.late = FALSE] \in WriteState
    BY <1>0 DEF WriteState
  <2>4. write' \in [Fence -> WriteState]
    BY <1>0, <1>16, <2>3 DEF Crash
  <2>5. QED BY <1>16, <2>2, <2>4 DEF Crash, TypeInv, TypeOK
<1>17. QED
  BY <1>1, <1>2, <1>3, <1>4, <1>5, <1>6, <1>7, <1>8, <1>9, <1>10, <1>11,
     <1>12, <1>13, <1>14, <1>15, <1>16, Zenon DEF JobStep

LEMMA LateReceiptType ==
  ASSUME TypeInv, NEW f \in Fence, LateReceipt(f)
  PROVE  TypeInv'
<1> DEFINE i == write[f].inc
           k == write[f].step
<1>1. lease \in LeaseRow /\ write \in [Fence -> WriteState]
  BY DEF TypeInv, TypeOK
<1>2. write' \in [Fence -> WriteState]
  <2>1. [write[f] EXCEPT !.late = FALSE] \in WriteState
    BY <1>1 DEF WriteState
  <2>2. QED BY <1>1, <2>1 DEF LateReceipt
<1>3. CASE UNCHANGED <<inc, steps, slot, lease>>
  BY <1>2, <1>3 DEF LateReceipt, TypeInv, TypeOK, JobsWork
<1>4. CASE /\ lease' \in {lease, Resolved(lease, i, k),
                          [Resolved(lease, i, k) EXCEPT !.incident = None]}
           /\ SaveReceipt(i, k, f, "pending", lease')
  <2>1. lease' \in LeaseRow
    <3>1. Resolved(lease, i, k) \in LeaseRow
      BY <1>1, ResolvedType
    <3>2. [Resolved(lease, i, k) EXCEPT !.incident = None] \in LeaseRow
      BY <3>1 DEF LeaseRow
    <3>3. QED BY <1>1, <1>4, <3>1, <3>2
  <2>2. /\ inc' \in [Incident -> IncidentRow]
        /\ steps' \in [Incident -> [StepNo -> StepRow]]
        /\ slot' \in [Incident -> [version : Nat, candidate : BOOLEAN]]
    BY <1>4, SaveReceiptType DEF Receipt
  <2>3. QED BY <1>2, <2>1, <2>2 DEF LateReceipt, TypeInv, TypeOK, JobsWork
<1>5. QED BY <1>3, <1>4, Zenon DEF LateReceipt

LEMMA ClaimForeignType ==
  ASSUME TypeInv, NEW i \in Incident, ClaimForeign(i)
  PROVE  TypeInv'
<1>1. lease \in LeaseRow /\ lease.revision + 1 \in Nat
  BY DEF TypeInv, TypeOK, LeaseRow
<1>2. [lease EXCEPT !.revision = @ + 1] \in LeaseRow
  BY <1>1, Zenon DEF LeaseRow
<1>3. QED BY <1>2 DEF ClaimForeign, TypeInv, TypeOK, JobsWork

LEMMA InitType ==
  ASSUME Init
  PROVE  TypeInv
<1>1. NoIncident \in IncidentRow /\ NoAttempt \in AttemptRow
      /\ NewStep \in StepRow /\ NoSegment \in SegmentRow
  BY DEF NoIncident, IncidentRow, NoAttempt, AttemptRow, NewStep, StepRow,
         StepStatus, NoSegment, SegmentRow
<1>2. IdleJob \in JobState /\ IdleJob.pc = "idle" /\ NoWrite \in WriteState
  BY DEF IdleJob, JobState, Code, NoWrite, WriteState
<1>3. lease \in LeaseRow
  BY DEF Init, LeaseRow
<1>4. slot \in [Incident -> [version : Nat, candidate : BOOLEAN]]
  BY DEF Init
<1>5. QED BY <1>1, <1>2, <1>3, <1>4 DEF Init, TypeInv, TypeOK, JobsWork, AtStep

\* Every column, job and call keeps its type, along every transaction, answer
\* and crash.
THEOREM TypeInvariant == Spec => []TypeInv
<1>1. Init => TypeInv
  BY InitType
<1>2. TypeInv /\ [Next]_vars => TypeInv'
  <2> SUFFICES ASSUME TypeInv, [Next]_vars PROVE TypeInv'
    OBVIOUS
  <2>1. CASE UNCHANGED vars
    BY <2>1 DEF vars, TypeInv, TypeOK, JobsWork
  <2>2. CASE Next
    BY <2>2, UserType, TimeType, CloudType, LateReceiptType, ClaimForeignType,
       JobType, Zenon DEF Next, CloudStep
  <2>3. QED BY <2>1, <2>2
<1>3. QED BY <1>1, <1>2, PTL DEF Spec

THEOREM TypeCorrect == Spec => []TypeOK
BY TypeInvariant, PTL DEF TypeInv

-----------------------------------------------------------------------------
(* Open calls pin the instance.                                            *)
(*                                                                         *)
(* The property is not inductive.  That an open call is the one the lease  *)
(* names holds because receipts and rejections are matched by fence, which *)
(* needs that a fence belongs to one dispatch of one job, that what a job  *)
(* has read back is still true when it is stored, and that the step of an  *)
(* open call still carries its fence.  SafetyInv adds these facts.         *)

RowOk(r) ==
  /\ r.terminated => r.status = "complete"
  /\ r.status = "complete" => r.terminated \/ r.phase = "complete"
  /\ r.error = "reset" => r.terminated
  /\ r.phase = "none" => r.status = "none"

RowsAreOk == \A i \in Incident : RowOk(inc[i])

\* The calls were made under claims of the lease, for incidents that were
\* started.
CallsAreFenced ==
  /\ lease.revision \in 0 .. MaxRevision
  /\ \A f \in Fence :
       IF write[f].inc = None THEN write[f].effect = "none" /\ ~write[f].late
       ELSE /\ f <= lease.revision
            /\ write[f].inc \in Incident /\ write[f].step \in StepNo
            /\ inc[write[f].inc].phase # "none"

BeforeCall == {"claimed", "inspecting", "dispatching"}

\* The fence of a job is its own, and unused until it dispatches a step.
JobIsFenced(j) ==
  job[j].pc # "idle" =>
    /\ job[j].fence \in 1 .. lease.revision
    /\ inc[job[j].inc].phase # "none"
    /\ job[j].pc \in BeforeCall => write[job[j].fence].inc = None
    /\ job[j].pc = "executing" => write[job[j].fence].inc # None

FencesDiffer ==
  \A j, other \in Job :
    job[j].pc # "idle" /\ job[other].pc # "idle"
      /\ job[j].fence = job[other].fence => j = other

\* What a job has observed of a call is still true of it.
AnswerIsTrue(j) ==
  /\ job[j].pc \in {"observing", "observed"} =>
       job[j].stepFence \in Fence /\ write[job[j].stepFence].inc # None
  /\ job[j].pc = "observed" /\ job[j].result \in {"applied", "not_applied"} =>
       write[job[j].stepFence].effect # "open"

JobsAreFenced == \A j \in Job : JobIsFenced(j) /\ AnswerIsTrue(j)

StepsAreFenced ==
  \A i \in Incident, k \in StepNo :
    /\ steps[i][k].fence # 0 =>
         steps[i][k].fence \in Fence /\ write[steps[i][k].fence].inc # None
    /\ steps[i][k].status \in {"in_flight", "pending"} => steps[i][k].fence # 0

\* An open call is the last dispatch of a step of the current attempt.
OpenCallsAreCurrent ==
  \A f \in Fence :
    LET w == write[f] IN
    w.effect = "open" /\ inc[w.inc].error # "reset" =>
      /\ inc[w.inc].attempt = w.attempt
      /\ steps[w.inc][w.step].fence = f
      /\ steps[w.inc][w.step].status \in {"in_flight", "pending", "ambiguous"}

SafetyInv ==
  /\ TypeInv
  /\ RowsAreOk /\ CallsAreFenced /\ JobsAreFenced /\ FencesDiffer
  /\ StepsAreFenced /\ OpenCallsAreCurrent /\ OpenCallsArePinned

-----------------------------------------------------------------------------
(* Steps that leave the open calls alone.                                  *)

\* What every write to the row of an incident does to it.
RowMoves(r, next) ==
  /\ RowOk(next)
  /\ r.phase # "none" =>
       next.phase # "none" /\ (r.error = "reset" => next.error = "reset")

\* What it does to one that keeps its attempt.
RowStays(r, next) ==
  /\ RowMoves(r, next)
  /\ r.phase # "none" => next.attempt = r.attempt

RowsMove == \A i \in Incident : RowMoves(inc[i], inc'[i])
RowsStay == \A i \in Incident : RowStays(inc[i], inc'[i])

\* No call is made; one may be decided.
CallsKept ==
  \A f \in Fence :
    /\ write'[f].inc = write[f].inc
    /\ write'[f].attempt = write[f].attempt
    /\ write'[f].step = write[f].step
    /\ write'[f].effect = write[f].effect \/ write[f].effect = "open"
    /\ write'[f].late => write[f].late \/ write[f].inc # None

JobMoves(j) ==
  \/ job'[j] = job[j]
  \/ job'[j].pc = "idle"
  \/ /\ job[j].pc # "idle"
     /\ job'[j].inc = job[j].inc /\ job'[j].fence = job[j].fence
     /\ job'[j].pc \in BeforeCall => job[j].pc \in BeforeCall
     /\ job'[j].pc = "executing" => job[j].pc = "executing"
     /\ AnswerIsTrue(j)'

JobsMove == \A j \in Job : JobMoves(j)

LeaseKept ==
  /\ lease'.revision = lease.revision
  /\ lease'.incident = lease.incident
  /\ lease'.unresolved = lease.unresolved

RevisionGrows == lease'.revision \in lease.revision .. MaxRevision

StepsKeepFences ==
  \A i \in Incident, k \in StepNo :
    /\ steps'[i][k].fence \in {steps[i][k].fence, 0}
    /\ steps'[i][k].status \in {"in_flight", "pending"} => steps'[i][k].fence # 0

\* An open call that stays open keeps its step and its pin.
OpenCallsKept ==
  \A f \in Fence :
    LET w == write[f] IN
    /\ w.effect = "open" /\ write'[f].effect = "open"
    /\ inc'[w.inc].error # "reset" /\ inc[w.inc].error # "reset"
    => /\ inc'[w.inc].attempt = inc[w.inc].attempt
       /\ lease'.unresolved = lease.unresolved
       /\ lease'.incident = lease.incident
       /\ steps'[w.inc][w.step].fence = steps[w.inc][w.step].fence
       /\ steps'[w.inc][w.step].status \in {"in_flight", "pending", "ambiguous"}

LEMMA FencingKept ==
  ASSUME SafetyInv, TypeInv', RevisionGrows, CallsKept, JobsMove,
         StepsKeepFences,
         \A i \in Incident : inc[i].phase # "none" => inc'[i].phase # "none"
  PROVE  CallsAreFenced' /\ JobsAreFenced' /\ FencesDiffer' /\ StepsAreFenced'
<1>1. lease.revision \in Nat /\ lease'.revision \in Nat /\ MaxRevision \in Nat
      /\ lease'.revision >= lease.revision /\ lease'.revision <= MaxRevision
  BY RotationAssumption DEF SafetyInv, TypeInv, TypeOK, LeaseRow, RevisionGrows
<1>2. CallsAreFenced'
  <2>1. ASSUME NEW f \in Fence
        PROVE  IF write'[f].inc = None
               THEN write'[f].effect = "none" /\ ~write'[f].late
               ELSE /\ f <= lease'.revision
                    /\ write'[f].inc \in Incident /\ write'[f].step \in StepNo
                    /\ inc'[write'[f].inc].phase # "none"
    BY <1>1 DEF SafetyInv, CallsAreFenced, CallsKept, Fence
  <2>2. QED BY <1>1, <2>1 DEF CallsAreFenced
<1>3. JobsAreFenced'
  <2> SUFFICES ASSUME NEW j \in Job
               PROVE  JobIsFenced(j)' /\ AnswerIsTrue(j)'
    BY DEF JobsAreFenced
  <2>1. JobIsFenced(j) /\ AnswerIsTrue(j) /\ JobMoves(j)
    BY DEF SafetyInv, JobsAreFenced, JobsMove
  <2>2. job[j].pc # "idle" => job[j].inc \in Incident
    BY DEF SafetyInv, TypeInv, JobsWork
  <2>3. CASE job'[j] = job[j]
    BY <1>1, <2>1, <2>2, <2>3
       DEF JobIsFenced, AnswerIsTrue, CallsKept, Fence
  <2>4. CASE job'[j].pc = "idle"
    BY <2>4 DEF JobIsFenced, AnswerIsTrue
  <2>5. CASE job'[j] # job[j] /\ job'[j].pc # "idle"
    BY <1>1, <2>1, <2>2, <2>5 DEF JobIsFenced, CallsKept, Fence, JobMoves
  <2>6. QED BY <2>3, <2>4, <2>5
<1>4. FencesDiffer'
  BY DEF SafetyInv, FencesDiffer, JobsMove, JobMoves
<1>5. StepsAreFenced'
  BY DEF SafetyInv, StepsAreFenced, StepsKeepFences, CallsKept
<1>6. QED BY <1>2, <1>3, <1>4, <1>5

LEMMA OpenKept ==
  ASSUME SafetyInv, CallsKept, OpenCallsKept,
         RowsMove
  PROVE  OpenCallsAreCurrent' /\ OpenCallsArePinned'
<1> SUFFICES ASSUME NEW f \in Fence, write'[f].effect = "open",
                    inc'[write'[f].inc].error # "reset"
             PROVE  /\ inc'[write'[f].inc].attempt = write'[f].attempt
                    /\ steps'[write'[f].inc][write'[f].step].fence = f
                    /\ steps'[write'[f].inc][write'[f].step].status
                         \in {"in_flight", "pending", "ambiguous"}
                    /\ lease'.unresolved =
                         <<write'[f].inc, write'[f].attempt, write'[f].step>>
                    /\ lease'.incident = write'[f].inc
  BY Zenon DEF OpenCallsAreCurrent, OpenCallsArePinned
<1>1. /\ write'[f].inc = write[f].inc /\ write'[f].attempt = write[f].attempt
      /\ write'[f].step = write[f].step /\ write[f].effect = "open"
  BY DEF CallsKept
<1>2. write[f].inc \in Incident /\ inc[write[f].inc].phase # "none"
  BY <1>1 DEF SafetyInv, CallsAreFenced
<1>3. inc[write[f].inc].error # "reset"
  BY <1>1, <1>2 DEF RowsMove, RowMoves
<1>4. /\ inc[write[f].inc].attempt = write[f].attempt
      /\ steps[write[f].inc][write[f].step].fence = f
      /\ lease.unresolved = <<write[f].inc, write[f].attempt, write[f].step>>
      /\ lease.incident = write[f].inc
  BY <1>1, <1>3, Zenon DEF SafetyInv, OpenCallsAreCurrent, OpenCallsArePinned
<1>5. QED BY <1>1, <1>3, <1>4, Zenon DEF OpenCallsKept

LEMMA Kept ==
  ASSUME SafetyInv, TypeInv', RowsMove, CallsKept, JobsMove, RevisionGrows,
         StepsKeepFences, OpenCallsKept
  PROVE  SafetyInv'
<1>1. /\ RowsAreOk'
      /\ \A i \in Incident : inc[i].phase # "none" => inc'[i].phase # "none"
  BY DEF RowsMove, RowMoves, RowsAreOk
<1>2. CallsAreFenced' /\ JobsAreFenced' /\ FencesDiffer' /\ StepsAreFenced'
  BY <1>1, FencingKept
<1>3. OpenCallsAreCurrent' /\ OpenCallsArePinned'
  BY <1>1, OpenKept
<1>4. QED BY <1>1, <1>2, <1>3 DEF SafetyInv

LEMMA OpenCallsPinned ==
  ASSUME SafetyInv, RowsStay, UNCHANGED steps,
         lease'.unresolved = lease.unresolved, lease'.incident = lease.incident
  PROVE  OpenCallsKept
<1> SUFFICES ASSUME NEW f \in Fence, write[f].effect = "open",
                    inc[write[f].inc].error # "reset"
             PROVE  /\ inc'[write[f].inc].attempt = inc[write[f].inc].attempt
                    /\ steps[write[f].inc][write[f].step].status
                         \in {"in_flight", "pending", "ambiguous"}
  BY Zenon DEF OpenCallsKept
<1>1. write[f].inc \in Incident /\ inc[write[f].inc].phase # "none"
  BY DEF SafetyInv, CallsAreFenced
<1>2. QED BY <1>1, Zenon DEF RowsStay, RowStays, SafetyInv, OpenCallsAreCurrent

LEMMA Quiet ==
  ASSUME SafetyInv, TypeInv', RowsStay, CallsKept, JobsMove, LeaseKept,
         UNCHANGED steps
  PROVE  SafetyInv'
<1>1. RevisionGrows
  BY DEF LeaseKept, RevisionGrows, SafetyInv, CallsAreFenced, TypeInv, TypeOK,
         LeaseRow
<1>2. StepsKeepFences
  BY DEF StepsKeepFences, SafetyInv, StepsAreFenced
<1>3. OpenCallsKept
  BY OpenCallsPinned DEF LeaseKept
<1>4. RowsMove
  BY DEF RowsStay, RowStays, RowsMove
<1>5. QED BY <1>1, <1>2, <1>3, <1>4, Kept

-----------------------------------------------------------------------------
(* Writing a row.                                                          *)

LEMMA SameRowStays ==
  ASSUME NEW r, RowOk(r)
  PROVE  RowStays(r, r)
BY DEF RowStays, RowMoves

LEMMA ScheduleRecoveryStays ==
  ASSUME NEW r \in IncidentRow, RowOk(r), r.phase # "none", NEW code
  PROVE  RowStays(r, ScheduleRecovery(r, code))
<1> DEFINE x == [r EXCEPT !.status = "exhausted", !.error = "recoveries_exhausted",
                          !.retry = "none"]
           y == [r EXCEPT !.status = "active", !.recoveries = @ + 1,
                          !.retry = "waiting",
                          !.error = IF code = "throttled" THEN "none"
                                    ELSE "recoverable"]
<1>1. ASSUME ~r.terminated PROVE RowStays(r, x) /\ RowStays(r, y)
  BY <1>1 DEF RowStays, RowMoves, RowOk, IncidentRow
<1> HIDE DEF x, y
<1>2. \/ ScheduleRecovery(r, code) = r
      \/ ~r.terminated /\ ScheduleRecovery(r, code) \in {x, y}
  BY Zenon DEF ScheduleRecovery, x, y
<1>3. QED BY <1>1, <1>2, SameRowStays

LEMMA PauseInStays ==
  ASSUME NEW r \in IncidentRow, RowOk(r), r.phase # "none", NEW code
  PROVE  RowStays(r, PauseIn(r, code))
<1> DEFINE x == [r EXCEPT !.status = IF code = "attempts" THEN "exhausted"
                                     ELSE "paused",
                          !.error = ErrorOf(code)]
<1>1. ASSUME ~r.terminated PROVE RowStays(r, x)
  BY <1>1 DEF RowStays, RowMoves, RowOk, IncidentRow, ErrorOf
<1> HIDE DEF x
<1>2. \/ PauseIn(r, code) = r
      \/ PauseIn(r, code) = ScheduleRecovery(r, code)
      \/ ~r.terminated /\ PauseIn(r, code) = x
  BY Zenon DEF PauseIn, x
<1>3. QED BY <1>1, <1>2, SameRowStays, ScheduleRecoveryStays

LEMMA ReadRowStays ==
  ASSUME NEW r \in IncidentRow, RowOk(r), r.phase # "none", NEW j
  PROVE  RowStays(r, ReadRow(j, r))
<1> DEFINE x == [r EXCEPT !.retry = "none", !.error = "none"]
<1>1. ASSUME ~r.terminated PROVE RowStays(r, x)
  BY <1>1 DEF RowStays, RowMoves, RowOk, IncidentRow
<1> HIDE DEF x
<1>2. \/ ReadRow(j, r) = r
      \/ ReadRow(j, r) = ScheduleRecovery(r, "recoverable")
      \/ ~r.terminated /\ ReadRow(j, r) = x
  BY Zenon DEF ReadRow, RetryDue, MayRecover, x
<1>3. QED BY <1>1, <1>2, SameRowStays, ScheduleRecoveryStays

LEMMA ReceiptRowStays ==
  ASSUME NEW r \in IncidentRow, RowOk(r), r.phase # "none", ~r.terminated,
         NEW status
  PROVE  RowStays(r, ReceiptRow(r, status))
<1> DEFINE x == [r EXCEPT !.status = "active", !.error = "none", !.retry = "none"]
<1>1. RowStays(r, x)
  BY DEF RowStays, RowMoves, RowOk, IncidentRow
<1> HIDE DEF x
<1>2. ReceiptRow(r, status) \in {r, x, PauseIn(r, "other")}
  BY Zenon DEF ReceiptRow, x
<1>3. QED BY <1>1, <1>2, SameRowStays, PauseInStays

LEMMA RowsStayAt ==
  ASSUME SafetyInv, NEW i \in Incident, NEW r, RowStays(inc[i], r),
         inc' = [inc EXCEPT ![i] = r]
  PROVE  RowsStay
<1>1. inc \in [Incident -> IncidentRow] /\ \A x \in Incident : RowOk(inc[x])
  BY DEF SafetyInv, TypeInv, TypeOK, RowsAreOk
<1>2. QED BY <1>1, SameRowStays DEF RowsStay

LEMMA RowsMoveAt ==
  ASSUME SafetyInv, NEW i \in Incident, NEW r, RowMoves(inc[i], r),
         inc' = [inc EXCEPT ![i] = r]
  PROVE  RowsMove
<1>1. inc \in [Incident -> IncidentRow] /\ \A x \in Incident : RowOk(inc[x])
  BY DEF SafetyInv, TypeInv, TypeOK, RowsAreOk
<1>2. QED BY <1>1 DEF RowsMove, RowMoves

LEMMA RowsStaySame ==
  ASSUME SafetyInv, UNCHANGED inc
  PROVE  RowsStay
BY SameRowStays DEF SafetyInv, RowsAreOk, RowsStay

LEMMA CallsSame ==
  ASSUME UNCHANGED write
  PROVE  CallsKept
BY DEF CallsKept

LEMMA JobsSame ==
  ASSUME UNCHANGED job
  PROVE  JobsMove
BY DEF JobsMove, JobMoves

\* An open call is the unresolved step of the lease.
LEMMA NothingOpen ==
  ASSUME SafetyInv, lease.unresolved = None
  PROVE  /\ OpenCallsKept
         /\ \A f \in Fence : write[f].effect = "open" =>
              inc[write[f].inc].error = "reset"
<1> SUFFICES ASSUME NEW f \in Fence, write[f].effect = "open",
                    inc[write[f].inc].error # "reset"
             PROVE  FALSE
  BY Zenon DEF OpenCallsKept
<1>1. lease.unresolved = <<write[f].inc, write[f].attempt, write[f].step>>
  BY Zenon DEF SafetyInv, OpenCallsArePinned
<1>2. write[f].inc \in Incident /\ write[f].attempt \in Nat /\ write[f].step \in Nat
  BY DEF SafetyInv, CallsAreFenced, TypeInv, TypeOK, WriteState
<1>3. <<write[f].inc, write[f].attempt, write[f].step>> \in Incident \X Nat \X Nat
  BY <1>2
<1>4. QED BY <1>1, <1>3, RotationAssumption

LEMMA EndsMoves ==
  ASSUME SafetyInv, NEW j \in Job, NEW l, l \in LeaseRow, Ends(j, l)
  PROVE  /\ JobsMove
         /\ lease'.revision = l.revision
         /\ lease'.incident = l.incident
         /\ lease'.unresolved = l.unresolved
<1>1. IdleJob.pc = "idle" /\ job \in [Job -> JobState]
  BY DEF IdleJob, SafetyInv, TypeInv, TypeOK
<1>2. JobsMove
  BY <1>1 DEF Ends, JobsMove, JobMoves
<1>3. lease' \in {l, Released(l, job[j].fence)}
  BY DEF Ends
<1>4. QED BY <1>2, <1>3 DEF Released, LeaseRow

LEMMA GoPauseMoves ==
  ASSUME SafetyInv, NEW j \in Job, NEW code, GoPause(j, code),
         job[j].pc # "idle"
  PROVE  JobsMove
<1>1. job \in [Job -> JobState]
  BY DEF SafetyInv, TypeInv, TypeOK
<1>2. job' = [job EXCEPT ![j] = [job[j] EXCEPT !.pc = "pausing", !.code = code]]
  BY Zenon DEF GoPause
<1>3. /\ job'[j].pc = "pausing" /\ job'[j].inc = job[j].inc
      /\ job'[j].fence = job[j].fence
      /\ \A other \in Job \ {j} : job'[other] = job[other]
  BY <1>1, <1>2 DEF JobState
<1>4. QED BY <1>3 DEF JobsMove, JobMoves, AnswerIsTrue, BeforeCall

\* What SafetyInv says about the incident a job works on.
LEMMA JobRow ==
  ASSUME SafetyInv, NEW j \in Job, job[j].pc # "idle"
  PROVE  /\ job[j].inc \in Incident /\ inc[job[j].inc] \in IncidentRow
         /\ RowOk(inc[job[j].inc]) /\ inc[job[j].inc].phase # "none"
         /\ lease \in LeaseRow
BY DEF SafetyInv, TypeInv, TypeOK, JobsWork, RowsAreOk, JobsAreFenced, JobIsFenced

-----------------------------------------------------------------------------
(* The steps of users, of time and of the cloud.                           *)

LEMMA UserSafe ==
  ASSUME SafetyInv, UserStep
  PROVE  SafetyInv'
<1>0. TypeInv'
  BY UserType DEF SafetyInv
<1>1. inc \in [Incident -> IncidentRow] /\ RowsAreOk /\ lease \in LeaseRow
  BY DEF SafetyInv, TypeInv, TypeOK
<1>2. ASSUME NEW i \in Incident, NEW manual \in BOOLEAN, Start(i, manual)
      PROVE  SafetyInv'
  <2> DEFINE r == [NoIncident EXCEPT !.phase = "cloud", !.status = "active",
                     !.manual = manual, !.segments = 1, !.segment = 1,
                     !.expects = revision[i], !.version = slot[i].version]
  <2>1. RowOk(r)
    BY DEF RowOk, NoIncident
  <2> HIDE DEF r
  <2>2. inc' = [inc EXCEPT ![i] = r] /\ inc[i].phase = "none"
    BY <1>2, Zenon DEF Start, r
  <2>3. RowsStay
    BY <2>1, <2>2, RowsStayAt DEF RowStays, RowMoves
  <2>4. QED BY <1>0, <1>2, <2>3, CallsSame, JobsSame, Quiet DEF Start, LeaseKept
<1>3. ASSUME NEW i \in Incident, Pause(i) PROVE SafetyInv'
  <2> DEFINE r == [inc[i] EXCEPT !.status = "paused", !.userPaused = TRUE,
                                 !.error = "none"]
  <2>1. inc[i] \in IncidentRow /\ RowOk(inc[i])
        /\ inc[i].status \notin {"none", "complete"}
    BY <1>1, <1>3 DEF Pause, Ongoing, RowsAreOk
  <2>2. RowStays(inc[i], r)
    BY <2>1 DEF RowStays, RowMoves, RowOk, IncidentRow
  <2> HIDE DEF r
  <2>3. inc' = [inc EXCEPT ![i] = r]
    BY <1>3, Zenon DEF Pause, r
  <2>4. RowsStay
    BY <2>2, <2>3, RowsStayAt
  <2>5. CallsKept /\ JobsMove /\ LeaseKept
    BY <1>3, CallsSame, JobsSame DEF Pause, LeaseKept
  <2>6. QED BY <1>0, <1>3, <2>4, <2>5, Quiet DEF Pause
<1>4. ASSUME NEW i \in Incident, Resume(i) PROVE SafetyInv'
  <2> DEFINE new == inc[i].segments + 1
             n == IF inc[i].phase = "cloud" /\ ~Continuing(i)
                  THEN 0 ELSE inc[i].attempt
             r == [inc[i] EXCEPT
                     !.status = "active", !.userPaused = FALSE, !.error = "none",
                     !.recoveries = 0, !.retry = "none", !.attempt = n,
                     !.expects = revision[i], !.version = slot[i].version,
                     !.pending = 0]
             q == [r EXCEPT !.segments = new, !.pending = new]
             t == [r EXCEPT !.segments = new, !.segment = new]
  <2>1. inc[i] \in IncidentRow /\ RowOk(inc[i])
        /\ inc[i].status \notin {"none", "complete"}
    BY <1>1, <1>4 DEF Resume, Ongoing, RowsAreOk
  <2>2. /\ r.status = "active" /\ r.error = "none"
        /\ r.phase = inc[i].phase /\ r.terminated = inc[i].terminated
    BY <2>1 DEF IncidentRow
  <2>3. /\ q.status = r.status /\ q.error = r.error /\ q.phase = r.phase
        /\ q.terminated = r.terminated
        /\ t.status = r.status /\ t.error = r.error /\ t.phase = r.phase
        /\ t.terminated = r.terminated
    BY <2>1 DEF IncidentRow
  <2> HIDE DEF q, t, r, new, n
  <2>4. RowMoves(inc[i], r) /\ RowMoves(inc[i], q) /\ RowMoves(inc[i], t)
    BY <2>1, <2>2, <2>3 DEF RowMoves, RowOk
  <2>5. \/ inc' = [inc EXCEPT ![i] = r]
        \/ inc' = [inc EXCEPT ![i] = IF Continuing(i) THEN q ELSE t]
    BY <1>4, Zenon DEF Resume, r, q, t, new, n
  <2>6. RowsMove
    BY <2>4, <2>5, RowsMoveAt
  <2>7. OpenCallsKept
    BY <1>4, NothingOpen DEF Resume
  <2>8. StepsKeepFences
    <3> DEFINE p == [k \in StepNo |->
                       IF steps[i][k].status \in {"rejected", "not_applied"}
                       THEN Reprepared(steps[i][k]) ELSE steps[i][k]]
    <3>1. steps \in [Incident -> [StepNo -> StepRow]] /\ StepsAreFenced
      BY DEF SafetyInv, TypeInv, TypeOK
    <3>2. \A k \in StepNo :
            /\ Reprepared(steps[i][k]).fence = steps[i][k].fence
            /\ Reprepared(steps[i][k]).status = "prepared"
      BY <3>1 DEF Reprepared, StepRow
    <3>3. \A k \in StepNo :
            /\ p[k].fence = steps[i][k].fence
            /\ p[k].status \in {"in_flight", "pending"} => steps[i][k].fence # 0
      BY <3>1, <3>2 DEF StepsAreFenced
    <3> HIDE DEF p
    <3>4. steps' \in {steps, [steps EXCEPT ![i] = p]}
      BY <1>4, Zenon DEF Resume, p
    <3>5. CASE steps' = steps
      BY <3>1, <3>5 DEF StepsKeepFences, StepsAreFenced
    <3>6. CASE steps' = [steps EXCEPT ![i] = p]
      BY <3>1, <3>3, <3>6 DEF StepsKeepFences, StepsAreFenced
    <3>7. QED BY <3>4, <3>5, <3>6
  <2>9. RevisionGrows
    BY <1>4 DEF Resume, RevisionGrows, SafetyInv, CallsAreFenced
  <2>10. CallsKept /\ JobsMove
    BY <1>4, CallsSame, JobsSame DEF Resume
  <2>11. QED BY <1>0, <2>6, <2>7, <2>8, <2>9, <2>10, Kept
<1>5. ASSUME NEW i \in Incident, Terminate(i) PROVE SafetyInv'
  <2> DEFINE r == [inc[i] EXCEPT !.status = "complete", !.terminated = TRUE,
                                 !.userPaused = TRUE, !.error = "none"]
  <2>1. inc[i] \in IncidentRow /\ RowOk(inc[i])
        /\ inc[i].status \notin {"none", "complete"}
    BY <1>1, <1>5 DEF Terminate, Ongoing, RowsAreOk
  <2>2. RowStays(inc[i], r)
    BY <2>1 DEF RowStays, RowMoves, RowOk, IncidentRow
  <2> HIDE DEF r
  <2>3. inc' = [inc EXCEPT ![i] = r]
    BY <1>5, Zenon DEF Terminate, r
  <2>4. RowsStay
    BY <2>2, <2>3, RowsStayAt
  <2>5. RowsMove /\ CallsKept /\ JobsMove /\ StepsKeepFences
    BY <1>5, <2>4, CallsSame, JobsSame
       DEF Terminate, RowsStay, RowStays, RowsMove, StepsKeepFences, SafetyInv,
           StepsAreFenced
  <2>6. RevisionGrows
    BY <1>1, <1>5, RotationAssumption
       DEF Terminate, RevisionGrows, SafetyInv, CallsAreFenced, LeaseRow
  <2>7. OpenCallsKept
    <3>1. CASE lease.unresolved = None
      BY <3>1, NothingOpen
    <3>2. CASE lease.unresolved # None
      <4>1. lease'.unresolved = lease.unresolved /\ lease'.incident = lease.incident
        BY <1>5, <3>2 DEF Terminate
      <4>2. UNCHANGED <<steps, write>>
        BY <1>5 DEF Terminate
      <4>3. QED BY <2>4, <4>1, <4>2, OpenCallsPinned
    <3>3. QED BY <3>1, <3>2
  <2>8. QED BY <1>0, <2>5, <2>6, <2>7, Kept
<1>6. ASSUME NEW i \in Incident, AuthorizationChanges(i) PROVE SafetyInv'
  BY <1>0, <1>6, RowsStaySame, CallsSame, JobsSame, Quiet
     DEF AuthorizationChanges, LeaseKept
<1>7. ASSUME NEW i \in Incident, Promote(i) PROVE SafetyInv'
  <2> DEFINE r == [inc[i] EXCEPT !.error = "none", !.retry = "none"]
  <2>1. inc[i] \in IncidentRow /\ RowOk(inc[i]) /\ inc[i].status = "active"
    BY <1>1, <1>7 DEF Promote, RowsAreOk
  <2>2. RowMoves(inc[i], r)
    BY <2>1 DEF RowMoves, RowOk, IncidentRow
  <2> HIDE DEF r
  <2>3. inc' = [inc EXCEPT ![i] = r]
    BY <1>7, Zenon DEF Promote, r
  <2>4. RowsMove
    BY <2>2, <2>3, RowsMoveAt
  <2>5. CallsKept /\ JobsMove /\ StepsKeepFences
    BY <1>7, CallsSame, JobsSame
       DEF Promote, StepsKeepFences, SafetyInv, StepsAreFenced
  <2>6. OpenCallsKept
    BY <1>7, NothingOpen DEF Promote
  <2>7. RevisionGrows
    BY <1>1, <1>7, RotationAssumption
       DEF Promote, RevisionGrows, SafetyInv, CallsAreFenced, LeaseRow
  <2>8. QED BY <1>0, <2>4, <2>5, <2>6, <2>7, Kept
<1>10. ASSUME NEW i \in Incident, PublicationFails(i) PROVE SafetyInv'
  <2>1. inc[i] \in IncidentRow /\ RowOk(inc[i])
        /\ inc[i].phase # "none"
    BY <1>1, <1>10 DEF RowsAreOk, PublicationFails
  <2>2. PICK code \in {"recoverable", "throttled"} :
          inc' = [inc EXCEPT ![i] = ScheduleRecovery(inc[i], code)]
    BY <1>10 DEF PublicationFails
  <2>3. RowStays(inc[i], ScheduleRecovery(inc[i], code))
    BY <2>1, ScheduleRecoveryStays
  <2>4. RowsStay
    BY <2>2, <2>3, RowsStayAt
  <2>5. CallsKept /\ JobsMove /\ LeaseKept
    BY <1>10, CallsSame, JobsSame DEF PublicationFails, LeaseKept
  <2>6. QED BY <1>0, <1>10, <2>4, <2>5, Quiet DEF PublicationFails
<1>8. ASSUME NEW i \in Incident, CompleteIncident(i) PROVE SafetyInv'
  <2> DEFINE r == [inc[i] EXCEPT !.phase = "complete", !.status = "complete",
                                 !.error = "none"]
  <2>1. inc[i] \in IncidentRow /\ RowOk(inc[i])
        /\ inc[i].status \notin {"none", "complete"}
    BY <1>1, <1>8 DEF CompleteIncident, Ongoing, RowsAreOk
  <2>2. RowMoves(inc[i], r)
    BY <2>1 DEF RowMoves, RowOk, IncidentRow
  <2> HIDE DEF r
  <2>3. inc' = [inc EXCEPT ![i] = r]
    BY <1>8, Zenon DEF CompleteIncident, r
  <2>4. RowsMove
    BY <2>2, <2>3, RowsMoveAt
  <2>5. CallsKept /\ JobsMove /\ StepsKeepFences
    BY <1>8, CallsSame, JobsSame
       DEF CompleteIncident, StepsKeepFences, SafetyInv, StepsAreFenced
  <2>6. lease'.revision = lease.revision
    BY <1>1, <1>8 DEF CompleteIncident, LeaseRow
  <2>7. RevisionGrows
    BY <2>6 DEF RevisionGrows, SafetyInv, CallsAreFenced
  <2>8. OpenCallsKept
    BY <1>8, NothingOpen DEF CompleteIncident
  <2>9. QED BY <1>0, <2>4, <2>5, <2>7, <2>8, Kept
<1>9. ASSUME Reset PROVE SafetyInv'
  <2>1. ASSUME NEW i \in Incident
        PROVE  /\ RowMoves(inc[i], inc'[i])
               /\ inc[i].phase # "none" => inc'[i].error = "reset"
    <3> DEFINE r == [inc[i] EXCEPT !.status = "complete", !.terminated = TRUE,
                                   !.error = "reset", !.retry = "none"]
    <3>1. inc[i] \in IncidentRow /\ RowOk(inc[i])
      BY <1>1 DEF RowsAreOk
    <3>2. r.phase = inc[i].phase /\ r.status = "complete" /\ r.terminated
          /\ r.error = "reset"
      BY <3>1 DEF IncidentRow
    <3> HIDE DEF r
    <3>3. inc'[i] = IF inc[i].phase = "none" THEN inc[i] ELSE r
      BY <1>9 DEF Reset, r
    <3>4. QED BY <3>1, <3>2, <3>3 DEF RowMoves, RowOk
  <2>2. RowsMove
    BY <2>1 DEF RowsMove
  <2>3. CallsKept /\ JobsMove
    BY <1>9, CallsSame, JobsSame DEF Reset
  <2>4. StepsKeepFences
    <3> SUFFICES ASSUME NEW i \in Incident, NEW k \in StepNo
                 PROVE  /\ steps'[i][k].fence = steps[i][k].fence
                        /\ steps'[i][k].status \in {"in_flight", "pending"} =>
                             steps[i][k].fence # 0
      BY DEF StepsKeepFences
    <3>1. steps[i][k] \in StepRow
      BY DEF SafetyInv, TypeInv, TypeOK
    <3>2. \/ steps'[i][k] = steps[i][k]
          \/ steps'[i][k] = [steps[i][k] EXCEPT !.status = "abandoned"]
      BY <1>9 DEF Reset
    <3>3. QED BY <3>1, <3>2 DEF SafetyInv, StepsAreFenced, StepRow
  <2>5. RevisionGrows
    <3>1. /\ lease'.revision = lease.revision + 1
          /\ lease.revision \in Nat /\ lease.revision < MaxRevision
      BY <1>1, <1>9 DEF Reset, LeaseRow
    <3>2. QED BY <3>1, RotationAssumption DEF RevisionGrows
  <2>6. OpenCallsKept
    <3> SUFFICES ASSUME NEW f \in Fence, write[f].effect = "open",
                        inc'[write[f].inc].error # "reset"
                 PROVE  FALSE
      BY Zenon DEF OpenCallsKept
    <3>1. write[f].inc \in Incident /\ inc[write[f].inc].phase # "none"
      BY DEF SafetyInv, CallsAreFenced
    <3>2. QED BY <2>1, <3>1
  <2>7. QED BY <1>0, <2>2, <2>3, <2>4, <2>5, <2>6, Kept
<1>11. QED
  BY <1>2, <1>3, <1>4, <1>5, <1>6, <1>7, <1>8, <1>9, <1>10, Zenon DEF UserStep

LEMMA TimeSafe ==
  ASSUME SafetyInv, TimePasses
  PROVE  SafetyInv'
<1>0. TypeInv'
  BY TimeType DEF SafetyInv
<1>1. inc \in [Incident -> IncidentRow] /\ RowsAreOk /\ lease \in LeaseRow
  BY DEF SafetyInv, TypeInv, TypeOK
<1>2. ASSUME LeaseExpires PROVE SafetyInv'
  <2>1. LeaseKept
    BY <1>1, <1>2 DEF LeaseExpires, LeaseKept, LeaseRow
  <2>2. QED BY <1>0, <1>2, <2>1, RowsStaySame, CallsSame, JobsSame, Quiet
            DEF LeaseExpires
<1>3. ASSUME NEW i \in Incident, RetryFallsDue(i) PROVE SafetyInv'
  <2> DEFINE r == [inc[i] EXCEPT !.retry = "due"]
  <2>1. inc[i] \in IncidentRow /\ RowOk(inc[i])
    BY <1>1 DEF RowsAreOk
  <2>2. RowStays(inc[i], r)
    BY <2>1 DEF RowStays, RowMoves, RowOk, IncidentRow
  <2> HIDE DEF r
  <2>3. inc' = [inc EXCEPT ![i] = r]
    BY <1>3, Zenon DEF RetryFallsDue, r
  <2>4. RowsStay
    BY <2>2, <2>3, RowsStayAt
  <2>5. QED BY <1>0, <1>3, <2>4, CallsSame, JobsSame, Quiet
            DEF RetryFallsDue, LeaseKept
<1>4. QED BY <1>2, <1>3, Zenon DEF TimePasses

LEMMA CloudSafe ==
  ASSUME SafetyInv, NEW f \in Fence, CloudApplies(f) \/ CloudFails(f)
  PROVE  SafetyInv'
<1>0. TypeInv'
  BY CloudType DEF SafetyInv
<1>1. write \in [Fence -> WriteState] /\ write[f].effect = "open"
  BY DEF SafetyInv, TypeInv, TypeOK, CloudApplies, CloudFails
<1>2. CallsKept
  <2>1. \/ write' = [write EXCEPT ![f] = [write[f] EXCEPT !.effect = "applied"]]
        \/ write' = [write EXCEPT ![f] = [write[f] EXCEPT !.effect = "none"]]
    BY Zenon DEF CloudApplies, CloudFails
  <2>2. QED BY <1>1, <2>1 DEF CallsKept, WriteState
<1>3. QED BY <1>0, <1>2, RowsStaySame, JobsSame, Quiet
          DEF CloudApplies, CloudFails, LeaseKept

LEMMA ClaimForeignSafe ==
  ASSUME SafetyInv, NEW i \in Incident, ClaimForeign(i)
  PROVE  SafetyInv'
<1>0. TypeInv'
  BY ClaimForeignType DEF SafetyInv
<1>1. /\ lease'.revision = lease.revision + 1 /\ lease'.incident = lease.incident
      /\ lease'.unresolved = lease.unresolved
      /\ lease.revision \in Nat /\ lease.revision < MaxRevision
  BY DEF ClaimForeign, SafetyInv, TypeInv, TypeOK, LeaseRow
<1>2. RevisionGrows
  BY <1>1, RotationAssumption DEF RevisionGrows
<1>3. RowsStay /\ CallsKept /\ JobsMove /\ UNCHANGED steps
  BY RowsStaySame, CallsSame, JobsSame DEF ClaimForeign
<1>4. RowsMove /\ StepsKeepFences
  BY <1>3 DEF RowsStay, RowStays, RowsMove, StepsKeepFences, SafetyInv,
     StepsAreFenced
<1>5. OpenCallsKept
  BY <1>1, <1>3, OpenCallsPinned
<1>6. QED BY <1>0, <1>2, <1>3, <1>4, <1>5, Kept

-----------------------------------------------------------------------------
(* Receipts, observations and rejections.                                  *)

LEMMA ReceiptRowKeeps ==
  ASSUME NEW r \in IncidentRow, ~r.terminated
  PROVE  LET n == ReceiptRow(r, "applied")
         IN  n.phase = r.phase /\ ~n.terminated /\ n.status \in {r.status, "active"}
             /\ n.error \in {r.error, "none"}
BY DEF ReceiptRow, IncidentRow

LEMMA InstalledMoves ==
  ASSUME NEW r \in IncidentRow, RowOk(r), ~r.terminated, r.phase = "cloud",
         NEW i
  PROVE  RowMoves(r, Installed(i, ReceiptRow(r, "applied")))
<1> DEFINE n == ReceiptRow(r, "applied")
           x == Installed(i, n)
<1>1. n \in IncidentRow
  BY ReceiptRowType
<1>2. /\ n.phase = "cloud" /\ ~n.terminated /\ n.status \in {r.status, "active"}
      /\ n.error \in {r.error, "none"}
  BY ReceiptRowKeeps
<1> HIDE DEF n
<1>3. /\ x.phase \in {"publish", "candidate"} /\ x.terminated = n.terminated
      /\ x.status = n.status /\ x.error = n.error
  BY <1>1 DEF Installed, IncidentRow
<1> HIDE DEF x
<1>4. r.status # "complete" /\ r.error # "reset"
  BY DEF RowOk
<1>5. RowMoves(r, x)
  BY <1>2, <1>3, <1>4 DEF RowMoves, RowOk
<1>6. QED BY <1>5 DEF x, n

LEMMA StoreReceiptKeeps ==
  ASSUME SafetyInv, NEW i \in Incident, NEW k \in StepNo, NEW f \in Fence,
         NEW result \in Receipt, NEW conflict \in BOOLEAN, NEW l,
         inc[i].phase # "none", inc[i].error # "reset", steps[i][k].fence = f,
         result \in {"applied", "not_applied"} => write[f].effect # "open",
         StoreReceipt(i, k, result, conflict, l), lease'.incident = l.incident,
         lease'.unresolved = l.unresolved
  PROVE  RowsMove /\ StepsKeepFences /\ OpenCallsKept
<1> DEFINE s == steps[i][k]
           status == ReceiptStatus(s, result, conflict)
           r == ReceiptRow(inc[i], status)
           settled == IF status \in {"applied", "not_applied"}
                      THEN Resolved(lease, i, k) ELSE lease
           complete == /\ status = "applied" /\ inc[i].phase = "cloud"
                       /\ \A m \in StepNo \ {k} : steps[i][m].status = "applied"
<1>0. TypeInv /\ RowOk(inc[i]) /\ inc[i] \in IncidentRow
      /\ inc \in [Incident -> IncidentRow] /\ lease \in LeaseRow
  BY DEF SafetyInv, RowsAreOk, TypeInv, TypeOK
<1>1. RowsMove
  <2>1. CASE inc' = inc
    BY <2>1, RowsStaySame DEF RowsStay, RowStays, RowsMove
  <2>2. CASE ~inc[i].terminated /\ inc' = [inc EXCEPT ![i] = r]
    BY <1>0, <2>2, ReceiptRowStays, RowsMoveAt, Zenon DEF RowStays
  <2>3. CASE ~inc[i].terminated /\ inc' = [inc EXCEPT ![i] = PauseIn(r, "other")]
    <3>1. RowStays(inc[i], r) /\ r \in IncidentRow
      BY <1>0, <2>3, ReceiptRowStays, ReceiptRowType
    <3> HIDE DEF r
    <3>2. RowOk(r) /\ r.phase # "none" /\ (inc[i].error = "reset" => r.error = "reset")
      BY <3>1 DEF RowStays, RowMoves
    <3>3. RowMoves(r, PauseIn(r, "other"))
      BY <3>1, <3>2, PauseInStays DEF RowStays
    <3>4. RowMoves(inc[i], PauseIn(r, "other"))
      BY <3>2, <3>3 DEF RowMoves
    <3>5. QED BY <2>3, <3>4, RowsMoveAt
  <2>4. CASE /\ ~inc[i].terminated /\ complete
             /\ inc' = [inc EXCEPT ![i] = Installed(i, r)]
    BY <1>0, <2>4, InstalledMoves, RowsMoveAt
  <2>5. QED BY <2>1, <2>2, <2>3, <2>4, Zenon DEF StoreReceipt
<1>2. StepsKeepFences
  <2>1. steps \in [Incident -> [StepNo -> StepRow]] /\ StepsAreFenced
    BY DEF SafetyInv, TypeInv, TypeOK
  <2> DEFINE n == [steps[i][k] EXCEPT !.status = status, !.receipt = TRUE]
  <2>2. steps[i][k] \in StepRow /\ f # 0
    BY <2>1 DEF Fence
  <2>3. n.fence = f
    BY <2>2 DEF StepRow
  <2> HIDE DEF n
  <2>4. steps' = [steps EXCEPT ![i][k] = n]
    BY Zenon DEF StoreReceipt, n
  <2>5. QED BY <2>1, <2>2, <2>3, <2>4 DEF StepsKeepFences, StepsAreFenced
<1>3. OpenCallsKept
  <2> SUFFICES ASSUME NEW g \in Fence, write[g].effect = "open",
                      write'[g].effect = "open",
                      inc[write[g].inc].error # "reset"
               PROVE  /\ inc'[write[g].inc].attempt = inc[write[g].inc].attempt
                      /\ lease'.unresolved = lease.unresolved
                      /\ lease'.incident = lease.incident
                      /\ steps'[write[g].inc][write[g].step].fence =
                           steps[write[g].inc][write[g].step].fence
                      /\ steps'[write[g].inc][write[g].step].status
                           \in {"in_flight", "pending", "ambiguous"}
    BY Zenon DEF OpenCallsKept
  <2>1. /\ write[g].inc \in Incident /\ write[g].step \in StepNo
        /\ inc[write[g].inc].attempt = write[g].attempt
        /\ steps[write[g].inc][write[g].step].fence = g
        /\ steps[write[g].inc][write[g].step].status
             \in {"in_flight", "pending", "ambiguous"}
        /\ lease.unresolved = <<write[g].inc, write[g].attempt, write[g].step>>
        /\ lease.incident = write[g].inc
    BY Zenon DEF SafetyInv, CallsAreFenced, OpenCallsAreCurrent, OpenCallsArePinned
  <2>2. steps \in [Incident -> [StepNo -> StepRow]] /\ steps[i][k] \in StepRow
    BY <1>0 DEF TypeInv, TypeOK
  <2> DEFINE n == [steps[i][k] EXCEPT !.status = status, !.receipt = TRUE]
  <2>3. n.status = status /\ n.fence = f
    BY <2>2 DEF StepRow
  <2>4. steps' = [steps EXCEPT ![i][k] = n]
    BY Zenon DEF StoreReceipt
  <2>5. ASSUME write[g].inc = i, write[g].step = k
        PROVE  status \in {"pending", "ambiguous"}
    BY <2>1, <2>5 DEF ReceiptStatus, Receipt
  <2> HIDE DEF n, status
  <2>6. /\ steps'[write[g].inc][write[g].step].fence =
             steps[write[g].inc][write[g].step].fence
        /\ steps'[write[g].inc][write[g].step].status
             \in {"in_flight", "pending", "ambiguous"}
    <3>1. CASE write[g].inc = i /\ write[g].step = k
      BY <2>1, <2>2, <2>3, <2>4, <2>5, <3>1
    <3>2. CASE ~(write[g].inc = i /\ write[g].step = k)
      BY <2>1, <2>2, <2>4, <3>2
    <3>3. QED BY <3>1, <3>2
  <2>7. settled.incident = lease.incident /\ settled.unresolved = lease.unresolved
    <3>1. CASE write[g].inc = i /\ write[g].step = k
      BY <2>5, <3>1
    <3>2. CASE ~(write[g].inc = i /\ write[g].step = k)
      BY <2>1, <3>2 DEF Resolved, StepIdOf
    <3>3. QED BY <3>1, <3>2
  <2>8. write[g].inc = i => ~complete
    BY <2>1, <2>5
  <2>9. /\ lease'.unresolved = lease.unresolved
        /\ lease'.incident = lease.incident
    <3>1. CASE l = lease \/ l = settled
      BY <2>7, <3>1
    <3>2. CASE /\ complete
               /\ l = IF settled.incident = i
                      THEN [settled EXCEPT !.incident = None] ELSE settled
      <4>1. settled.incident # i
        BY <2>1, <2>7, <2>8, <3>2
      <4>2. QED BY <2>7, <3>2, <4>1
    <3>3. QED BY <3>1, <3>2, Zenon DEF StoreReceipt, status
  <2>10. inc'[write[g].inc].attempt = inc[write[g].inc].attempt
    <3>1. CASE write[g].inc # i
      <4>1. \/ inc' = inc \/ inc' = [inc EXCEPT ![i] = r]
            \/ inc' = [inc EXCEPT ![i] = PauseIn(r, "other")]
            \/ inc' = [inc EXCEPT ![i] = Installed(i, r)]
        BY Zenon DEF StoreReceipt, status
      <4>2. QED BY <1>0, <2>1, <3>1, <4>1
    <3>2. CASE write[g].inc = i
      <4>1. \/ inc' = inc
            \/ ~inc[i].terminated /\ inc' = [inc EXCEPT ![i] = r]
            \/ ~inc[i].terminated /\ inc' = [inc EXCEPT ![i] = PauseIn(r, "other")]
        BY <2>8, <3>2, Zenon DEF StoreReceipt, status
      <4>2. ASSUME ~inc[i].terminated
            PROVE  r.attempt = inc[i].attempt /\ PauseIn(r, "other").attempt = inc[i].attempt
        <5>1. RowStays(inc[i], r) /\ r \in IncidentRow
          BY <1>0, <4>2, ReceiptRowStays, ReceiptRowType
        <5> HIDE DEF r
        <5>2. RowStays(r, PauseIn(r, "other"))
          BY <5>1, PauseInStays DEF RowStays, RowMoves
        <5>3. QED BY <5>1, <5>2 DEF RowStays, RowMoves
      <4>3. QED BY <1>0, <3>2, <4>1, <4>2
    <3>3. QED BY <3>1, <3>2
  <2>11. QED BY <2>6, <2>9, <2>10
<1>4. QED BY <1>1, <1>2, <1>3

\* The leases a receipt of step k may leave.
LeasesLeft(i, k) ==
  {lease, Resolved(lease, i, k),
   [Resolved(lease, i, k) EXCEPT !.incident = None]}

LEMMA LeaseLeft ==
  ASSUME SafetyInv, NEW i, NEW k, NEW l \in LeasesLeft(i, k)
  PROVE  l \in LeaseRow /\ l.revision = lease.revision
<1>1. lease \in LeaseRow
  BY DEF SafetyInv, TypeInv, TypeOK
<1>2. Resolved(lease, i, k) \in LeaseRow
      /\ Resolved(lease, i, k).revision = lease.revision
  BY <1>1 DEF Resolved, LeaseRow
<1>3. QED BY <1>1, <1>2 DEF LeasesLeft, LeaseRow

LEMMA SaveReceiptSafe ==
  ASSUME SafetyInv, TypeInv', NEW i \in Incident, NEW k \in StepNo,
         NEW f \in Fence, NEW result \in Receipt,
         NEW l \in LeasesLeft(i, k), inc[i].phase # "none",
         result \in {"applied", "not_applied"} => write[f].effect # "open",
         SaveReceipt(i, k, f, result, l),
         lease'.revision = l.revision, lease'.incident = l.incident,
         lease'.unresolved = l.unresolved,
         CallsKept, JobsMove
  PROVE  SafetyInv'
<1>1. CASE l = lease /\ UNCHANGED <<inc, steps, slot>>
  BY <1>1, RowsStaySame, Quiet DEF LeaseKept
<1>2. CASE ~ReceiptIgnored(i, k, f)
           /\ \E conflict \in BOOLEAN : StoreReceipt(i, k, result, conflict, l)
  <2>1. RowsMove /\ StepsKeepFences /\ OpenCallsKept
    BY <1>2, StoreReceiptKeeps DEF ReceiptIgnored
  <2>2. lease \in LeaseRow /\ lease.revision \in 0 .. MaxRevision
    BY DEF SafetyInv, TypeInv, TypeOK, CallsAreFenced
  <2>3. RevisionGrows
    BY <2>2, LeaseLeft DEF RevisionGrows
  <2>4. QED BY <2>1, <2>3, Kept
<1>3. QED BY <1>1, <1>2, Zenon DEF SaveReceipt

LEMMA RejectUncertainStays ==
  ASSUME SafetyInv, NEW i \in Incident, inc[i].phase # "none",
         NEW n, NEW k, NEW f, NEW code, RejectUncertain(i, n, k, f, code)
  PROVE  RowsStay
<1> DEFINE r == [inc[i] EXCEPT !.error = ErrorOf(code)]
<1>1. inc[i] \in IncidentRow /\ RowOk(inc[i])
  BY DEF SafetyInv, TypeInv, TypeOK, RowsAreOk
<1>2. ASSUME ~inc[i].terminated PROVE RowStays(inc[i], r)
  BY <1>1, <1>2 DEF RowStays, RowMoves, RowOk, IncidentRow, ErrorOf
<1> HIDE DEF r
<1>3. \/ inc' = inc
      \/ ~inc[i].terminated /\ inc' = [inc EXCEPT ![i] = r]
  BY Zenon DEF RejectUncertain, RejectIgnored, r
<1>4. QED BY <1>2, <1>3, RowsStayAt, RowsStaySame

\* The lease a job leaves when it ends, is the one it was given.
LEMMA LeaseKeptByEnds ==
  ASSUME SafetyInv, NEW j \in Job, Ends(j, lease)
  PROVE  LeaseKept /\ JobsMove
BY EndsMoves DEF LeaseKept, SafetyInv, TypeInv, TypeOK

-----------------------------------------------------------------------------
(* The steps of the jobs.                                                  *)

\* The claimed fence is new.
LEMMA ClaimSafe ==
  ASSUME SafetyInv, NEW j \in Job, NEW i \in Incident, Claim(j, i), TypeInv'
  PROVE  SafetyInv'
<1> DEFINE f == lease.revision + 1
           new == [IdleJob EXCEPT !.pc = "claimed", !.inc = i, !.fence = f]
<1>1. /\ lease'.revision = f /\ lease'.incident = lease.incident
      /\ lease'.unresolved = lease.unresolved
      /\ lease.revision \in Nat /\ lease.revision < MaxRevision
  BY DEF Claim, SafetyInv, TypeInv, TypeOK, LeaseRow
<1>2. /\ job[j].pc = "idle" /\ inc[i].status # "none"
      /\ UNCHANGED <<inc, steps, write>>
  BY DEF Claim, Ongoing
<1>3. /\ new.pc = "claimed" /\ new.inc = i /\ new.fence = f
  BY DEF IdleJob
<1>4. /\ job'[j] = new /\ \A other \in Job \ {j} : job'[other] = job[other]
  BY DEF Claim, SafetyInv, TypeInv, TypeOK
<1> HIDE DEF new
<1>5. CallsAreFenced'
  BY <1>1, <1>2, RotationAssumption DEF SafetyInv, CallsAreFenced, Fence
<1>6. f \in Fence /\ write[f].inc = None
  BY <1>1, RotationAssumption DEF SafetyInv, CallsAreFenced, Fence
<1>7. ASSUME NEW other \in Job PROVE JobIsFenced(other)' /\ AnswerIsTrue(other)'
  <2>1. CASE other = j
    <3>1. inc[i].phase # "none"
      BY <1>2 DEF SafetyInv, RowsAreOk, RowOk
    <3>2. f \in 1 .. lease'.revision
      BY <1>1
    <3>3. QED BY <1>2, <1>3, <1>4, <1>6, <2>1, <3>1, <3>2
             DEF JobIsFenced, AnswerIsTrue, BeforeCall
  <2>2. CASE other # j
    BY <1>1, <1>2, <1>4, <2>2 DEF JobIsFenced, AnswerIsTrue, SafetyInv, JobsAreFenced
  <2>3. QED BY <2>1, <2>2
<1>8. FencesDiffer'
  <2>1. ASSUME NEW other \in Job \ {j}, job[other].pc # "idle"
        PROVE  job[other].fence # f
    BY <1>1, <2>1 DEF SafetyInv, JobsAreFenced, JobIsFenced
  <2>2. QED BY <1>3, <1>4, <2>1 DEF FencesDiffer, SafetyInv
<1>9. StepsAreFenced' /\ OpenCallsAreCurrent' /\ OpenCallsArePinned' /\ RowsAreOk'
  BY <1>1, <1>2 DEF SafetyInv, StepsAreFenced, OpenCallsAreCurrent,
     OpenCallsArePinned, RowsAreOk
<1>10. QED BY <1>5, <1>7, <1>8, <1>9 DEF SafetyInv, JobsAreFenced

LEMMA ReadSafe ==
  ASSUME SafetyInv, NEW j \in Job, Read(j), TypeInv'
  PROVE  SafetyInv'
<1> DEFINE i == job[j].inc
           r == ReadRow(j, inc[i])
           p == ReadPlan(j, inc[i], steps[i])
<1>1. /\ job[j].pc = "claimed" /\ i \in Incident
      /\ inc[i] \in IncidentRow /\ RowOk(inc[i]) /\ inc[i].phase # "none"
      /\ steps \in [Incident -> [StepNo -> StepRow]]
      /\ job \in [Job -> JobState] /\ lease \in LeaseRow
  BY JobRow DEF Read, SafetyInv, TypeInv, TypeOK
<1>2. RowStays(inc[i], r)
  BY <1>1, ReadRowStays
<1>3. ASSUME NEW k \in StepNo
      PROVE  /\ p[k].fence = steps[i][k].fence
             /\ \/ p[k].status = "prepared" \/ p[k] = steps[i][k]
             /\ steps[i][k].status \in {"in_flight", "pending", "ambiguous"} =>
                  p[k] = steps[i][k]
  <2>1. steps[i][k] \in StepRow /\ steps[i] \in [StepNo -> StepRow]
    BY <1>1
  <2>2. /\ Reprepared(steps[i][k]).fence = steps[i][k].fence
        /\ Reprepared(steps[i][k]).status = "prepared"
    BY <2>1 DEF Reprepared, StepRow
  <2>3. \/ p[k] = steps[i][k]
        \/ /\ p[k] = Reprepared(steps[i][k])
           /\ steps[i][k].status \in {"not_applied", "rejected"}
    BY DEF ReadPlan
  <2>4. QED BY <2>2, <2>3
<1> HIDE DEF r, p
<1>4. inc' = [inc EXCEPT ![i] = r] /\ steps' = [steps EXCEPT ![i] = p]
  BY Zenon DEF Read, r, p
<1>5. RowsStay
  BY <1>1, <1>2, <1>4, RowsStayAt
<1>6. StepsKeepFences
  BY <1>1, <1>3, <1>4 DEF StepsKeepFences, SafetyInv, StepsAreFenced
<1>7. JobsMove /\ LeaseKept
  <2>1. CASE Ends(j, lease)
    BY <2>1, LeaseKeptByEnds
  <2>2. ASSUME NEW k \in StepNo, ObserveDue(r, p, k),
               GoTo(j, "observing", r.attempt, k, p[k].fence), UNCHANGED lease
        PROVE  JobsMove /\ LeaseKept
    <3>1. p[k].status \in {"in_flight", "pending"}
      BY <2>2 DEF ObserveDue, Unanswered
    <3>2. p[k].fence \in Fence /\ write[p[k].fence].inc # None
      BY <1>1, <1>3, <3>1 DEF SafetyInv, StepsAreFenced
    <3>3. job' = [job EXCEPT ![j] = [job[j] EXCEPT
                    !.pc = "observing", !.attempt = r.attempt, !.step = k,
                    !.stepFence = p[k].fence]]
      BY <2>2, Zenon DEF GoTo
    <3>4. /\ job'[j].pc = "observing" /\ job'[j].inc = job[j].inc
          /\ job'[j].fence = job[j].fence /\ job'[j].stepFence = p[k].fence
          /\ \A other \in Job \ {j} : job'[other] = job[other]
      BY <1>1, <3>3 DEF JobState
    <3>5. UNCHANGED write
      BY DEF Read
    <3>6. JobsMove
      BY <1>1, <3>2, <3>4, <3>5 DEF JobsMove, JobMoves, AnswerIsTrue, BeforeCall
    <3>7. QED BY <2>2, <3>6 DEF LeaseKept
  <2>3. ASSUME NEW pc \in {"inspecting", "dispatching", "settling"}, NEW k,
               GoTo(j, pc, r.attempt, k, 0), UNCHANGED lease
        PROVE  JobsMove /\ LeaseKept
    <3>1. job' = [job EXCEPT ![j] = [job[j] EXCEPT
                    !.pc = pc, !.attempt = r.attempt, !.step = k,
                    !.stepFence = 0]]
      BY <2>3, Zenon DEF GoTo
    <3>2. /\ job'[j].pc = pc /\ job'[j].inc = job[j].inc
          /\ job'[j].fence = job[j].fence
          /\ \A other \in Job \ {j} : job'[other] = job[other]
      BY <1>1, <3>1 DEF JobState
    <3>3. JobsMove
      BY <1>1, <3>2 DEF JobsMove, JobMoves, AnswerIsTrue, BeforeCall
    <3>4. QED BY <2>3, <3>3 DEF LeaseKept
  <2>4. QED BY <2>1, <2>2, <2>3, Zenon DEF Read, r, p
<1>8. OpenCallsKept
  <2> SUFFICES ASSUME NEW g \in Fence, write[g].effect = "open",
                      inc[write[g].inc].error # "reset"
               PROVE  /\ inc'[write[g].inc].attempt = inc[write[g].inc].attempt
                      /\ steps'[write[g].inc][write[g].step] =
                           steps[write[g].inc][write[g].step]
                      /\ steps[write[g].inc][write[g].step].status
                           \in {"in_flight", "pending", "ambiguous"}
    BY <1>7, Zenon DEF OpenCallsKept, LeaseKept
  <2>1. /\ write[g].inc \in Incident /\ write[g].step \in StepNo
        /\ inc[write[g].inc].phase # "none"
        /\ steps[write[g].inc][write[g].step].status
             \in {"in_flight", "pending", "ambiguous"}
    BY Zenon DEF SafetyInv, CallsAreFenced, OpenCallsAreCurrent
  <2>2. inc'[write[g].inc].attempt = inc[write[g].inc].attempt
    BY <1>5, <2>1 DEF RowsStay, RowStays
  <2>3. steps'[write[g].inc][write[g].step] = steps[write[g].inc][write[g].step]
    BY <1>1, <1>3, <1>4, <2>1
  <2>4. QED BY <2>1, <2>2, <2>3
<1>9. CallsKept /\ RevisionGrows /\ RowsMove
  <2>1. CallsKept
    BY CallsSame DEF Read
  <2>2. RevisionGrows
    BY <1>1, <1>7 DEF LeaseKept, RevisionGrows, SafetyInv, CallsAreFenced
  <2>3. QED BY <1>5, <2>1, <2>2 DEF RowsStay, RowStays, RowsMove
<1>10. QED BY <1>6, <1>7, <1>8, <1>9, Kept

LEMMA SettleSafe ==
  ASSUME SafetyInv, NEW j \in Job, Settle(j), TypeInv'
  PROVE  SafetyInv'
<1> DEFINE i == job[j].inc
           r == inc[i]
           p == steps[i]
           published == [r EXCEPT !.phase = "publish", !.status = "active",
                                  !.error = "none"]
           completed == [r EXCEPT !.phase = "complete", !.status = "complete",
                                  !.error = "none"]
<1>1. /\ i \in Incident /\ r \in IncidentRow /\ RowOk(r) /\ r.phase # "none"
      /\ lease \in LeaseRow
  BY JobRow DEF Settle
<1>2. CallsKept /\ StepsKeepFences /\ UNCHANGED <<steps, write>>
  BY CallsSame DEF Settle, StepsKeepFences, SafetyInv, StepsAreFenced
<1>3. ASSUME NEW row, RowStays(r, row), inc' = [inc EXCEPT ![i] = row],
             Ends(j, lease)
      PROVE  SafetyInv'
  <2>1. RowsStay
    BY <1>1, <1>3, RowsStayAt
  <2>2. QED BY <1>2, <1>3, <2>1, LeaseKeptByEnds, Quiet
<1>4. ASSUME NEW e \in Evidence, PublishDue(j, i, r, p, e),
             inc' = [inc EXCEPT ![i] = published], Ends(j, lease)
      PROVE  SafetyInv'
  <2>1. ~r.terminated
    BY <1>4, Zenon DEF PublishDue, WantsWrite, WantsAttempt, WantsStep,
       Admitted, Stopped
  <2>2. RowStays(r, published)
    BY <1>1, <2>1 DEF RowStays, RowMoves, RowOk, IncidentRow
  <2>3. QED BY <1>3, <1>4, <2>2
<1>5. ASSUME NEW e \in Evidence, CompleteDue(j, i, r, p, e),
             inc' = [inc EXCEPT ![i] = completed],
             Ends(j, IF lease.incident = i
                     THEN [lease EXCEPT !.incident = None] ELSE lease)
      PROVE  SafetyInv'
  <2>1. lease.unresolved = None /\ ~r.terminated
    BY <1>5, Zenon DEF CompleteDue, Recovered, WantsWrite, WantsAttempt,
       WantsStep, Admitted, Stopped
  <2>2. RowMoves(r, completed)
    BY <1>1, <2>1 DEF RowMoves, RowOk, IncidentRow
  <2>3. RowsMove
    BY <1>1, <1>5, <2>2, RowsMoveAt
  <2>4. OpenCallsKept
    BY <2>1, NothingOpen
  <2> DEFINE l == IF lease.incident = i
                  THEN [lease EXCEPT !.incident = None] ELSE lease
  <2>5. l \in LeaseRow /\ l.revision = lease.revision
    BY <1>1 DEF LeaseRow
  <2> HIDE DEF l
  <2>6. Ends(j, l)
    BY <1>5 DEF l
  <2>7. JobsMove /\ lease'.revision = lease.revision
    BY <2>5, <2>6, EndsMoves
  <2>8. RevisionGrows
    BY <2>7 DEF RevisionGrows, SafetyInv, CallsAreFenced
  <2>9. QED BY <1>2, <2>3, <2>4, <2>7, <2>8, Kept
<1>6. ASSUME NEW code \in Code, inc' = [inc EXCEPT ![i] = PauseIn(r, code)],
             Ends(j, lease)
      PROVE  SafetyInv'
  BY <1>1, <1>3, <1>6, PauseInStays
<1>7. CASE UNCHANGED inc /\ Ends(j, lease)
  BY <1>2, <1>7, RowsStaySame, LeaseKeptByEnds, Quiet
<1> HIDE DEF published, completed
<1>8. \/ \E e \in Evidence : /\ PublishDue(j, i, r, p, e)
                             /\ inc' = [inc EXCEPT ![i] = published]
                             /\ Ends(j, lease)
      \/ \E e \in Evidence :
           /\ CompleteDue(j, i, r, p, e)
           /\ inc' = [inc EXCEPT ![i] = completed]
           /\ Ends(j, IF lease.incident = i
                      THEN [lease EXCEPT !.incident = None] ELSE lease)
      \/ \E code \in Code : /\ inc' = [inc EXCEPT ![i] = PauseIn(r, code)]
                            /\ Ends(j, lease)
      \/ UNCHANGED inc /\ Ends(j, lease)
  BY Zenon DEF Settle, published, completed
<1>9. QED BY <1>4, <1>5, <1>6, <1>7, <1>8, Zenon

LEMMA PrepareSafe ==
  ASSUME SafetyInv, NEW j \in Job, Prepare(j), TypeInv'
  PROVE  SafetyInv'
<1> DEFINE i == job[j].inc
           n == inc[i].attempts + 1
           r == [inc[i] EXCEPT !.phase = "cloud", !.status = "active",
                               !.error = "none", !.attempts = n, !.attempt = n]
           l == [lease EXCEPT !.incident = i]
<1>1. /\ i \in Incident /\ inc[i] \in IncidentRow /\ RowOk(inc[i])
      /\ inc[i].phase # "none" /\ lease \in LeaseRow
      /\ steps \in [Incident -> [StepNo -> StepRow]]
  BY JobRow DEF Prepare, SafetyInv, TypeInv, TypeOK
<1>2. ~inc[i].terminated /\ lease.unresolved = None
  BY Zenon DEF Prepare, PrepareDue, WantsAttempt, Admitted, Stopped
<1>3. RowMoves(inc[i], r)
  <2>1. r.status = "active" /\ r.phase = "cloud" /\ r.error = "none"
        /\ r.terminated = inc[i].terminated
    BY <1>1 DEF IncidentRow
  <2>2. inc[i].error # "reset"
    BY <1>1, <1>2 DEF RowOk
  <2> HIDE DEF r
  <2>3. QED BY <1>2, <2>1, <2>2 DEF RowMoves, RowOk
<1> HIDE DEF r
<1>4. inc' = [inc EXCEPT ![i] = r]
  BY Zenon DEF Prepare, r
<1>5. RowsMove
  BY <1>1, <1>3, <1>4, RowsMoveAt
<1>6. l \in LeaseRow /\ l.revision = lease.revision
  BY <1>1 DEF LeaseRow
<1> HIDE DEF l
<1>7. JobsMove /\ lease'.revision = lease.revision
  <2>1. Ends(j, l)
    BY DEF Prepare, l
  <2>2. QED BY <1>6, <2>1, EndsMoves
<1>8. CallsKept /\ RevisionGrows /\ OpenCallsKept
  BY <1>2, <1>7, CallsSame, NothingOpen, SMTT(30)
     DEF Prepare, RevisionGrows, SafetyInv, CallsAreFenced
<1>9. StepsKeepFences
  <2>1. NewStep.fence = 0 /\ NewStep.status = "prepared"
    BY DEF NewStep
  <2>2. steps' = [steps EXCEPT ![i] = [k \in StepNo |-> NewStep]]
    BY DEF Prepare
  <2>3. QED BY <1>1, <2>1, <2>2 DEF StepsKeepFences, SafetyInv, StepsAreFenced
<1>10. QED BY <1>5, <1>7, <1>8, <1>9, Kept

\* The call is made under the fence of the claim, when nothing is open.
LEMMA DispatchSafe ==
  ASSUME SafetyInv, NEW j \in Job, Dispatch(j), TypeInv'
  PROVE  SafetyInv'
<1> DEFINE i == job[j].inc
           n == job[j].attempt
           k == job[j].step
           f == job[j].fence
           r == [inc[i] EXCEPT !.error = "none"]
           s == [status |-> "in_flight", fence |-> f, receipt |-> FALSE,
                 throttled |-> FALSE]
           w == [inc |-> i, attempt |-> n, step |-> k, effect |-> "open",
                 late |-> FALSE, by |-> j]
<1>1. /\ i \in Incident /\ inc[i] \in IncidentRow /\ RowOk(inc[i])
      /\ inc[i].phase # "none" /\ lease \in LeaseRow
      /\ inc \in [Incident -> IncidentRow]
      /\ steps \in [Incident -> [StepNo -> StepRow]]
      /\ job \in [Job -> JobState] /\ write \in [Fence -> WriteState]
      /\ job[j].pc = "dispatching" /\ k \in StepNo
  BY JobRow DEF Dispatch, SafetyInv, TypeInv, TypeOK, JobsWork, AtStep
<1>2. /\ inc[i].attempt = n /\ ~inc[i].terminated /\ lease.revision = f
      /\ lease.unresolved = None /\ lease.incident = i
  BY Zenon DEF Dispatch, MayDispatch, ExecuteDue, WantsStep, Admitted, Stopped,
     Holds
<1>3. f \in Fence /\ write[f].inc = None
  BY <1>1, RotationAssumption
     DEF SafetyInv, JobsAreFenced, JobIsFenced, BeforeCall, CallsAreFenced, Fence
<1>4. r.error = "none" /\ r.phase = inc[i].phase /\ r.status = inc[i].status
      /\ r.terminated = inc[i].terminated /\ r.attempt = n
      /\ inc[i].error # "reset"
  BY <1>1, <1>2 DEF IncidentRow, RowOk
<1> HIDE DEF n, k, f, r, s, w
<1>5. /\ inc' = [inc EXCEPT ![i] = r]
      /\ steps' = [steps EXCEPT ![i][k] = s]
      /\ lease' = [lease EXCEPT !.unresolved = StepIdOf(i, k)]
      /\ write' = [write EXCEPT ![f] = w]
      /\ job' = [job EXCEPT ![j] = [job[j] EXCEPT !.pc = "executing"]]
  BY Zenon DEF Dispatch, n, k, f, r, s, w
<1>6. /\ lease'.revision = lease.revision /\ lease'.incident = i
      /\ lease'.unresolved = <<i, n, k>>
  BY <1>1, <1>2, <1>5 DEF LeaseRow, StepIdOf
<1>7. RowsAreOk' /\ \A x \in Incident : inc'[x].phase = inc[x].phase
  BY <1>1, <1>4, <1>5 DEF RowsAreOk, RowOk, SafetyInv
<1>8. /\ write'[f].inc = i /\ write'[f].attempt = n /\ write'[f].step = k
      /\ ~write'[f].late
      /\ \A g \in Fence \ {f} : write'[g] = write[g]
  BY <1>1, <1>3, <1>5 DEF w
<1>9. CallsAreFenced'
  <2>1. f <= lease'.revision /\ lease'.revision \in 0 .. MaxRevision
    BY <1>2, <1>6 DEF SafetyInv, CallsAreFenced, LeaseRow, TypeInv, TypeOK
  <2>2. ASSUME NEW g \in Fence
        PROVE  IF write'[g].inc = None
               THEN write'[g].effect = "none" /\ ~write'[g].late
               ELSE /\ g <= lease'.revision
                    /\ write'[g].inc \in Incident /\ write'[g].step \in StepNo
                    /\ inc'[write'[g].inc].phase # "none"
    <3>1. CASE g = f
      BY <1>1, <1>7, <1>8, <2>1, <3>1, RotationAssumption
    <3>2. CASE g # f
      BY <1>6, <1>7, <1>8, <3>2 DEF SafetyInv, CallsAreFenced
    <3>3. QED BY <3>1, <3>2
  <2>3. QED BY <2>1, <2>2 DEF CallsAreFenced
<1>10. /\ job'[j].pc = "executing" /\ job'[j].inc = i /\ job'[j].fence = f
       /\ \A other \in Job \ {j} : job'[other] = job[other]
  BY <1>1, <1>5 DEF JobState, f
<1>11. ASSUME NEW other \in Job PROVE JobIsFenced(other)' /\ AnswerIsTrue(other)'
  <2>0. i # None
    BY <1>1, RotationAssumption
  <2>1. CASE other = j
    <3>1. f \in 1 .. lease'.revision
      BY <1>1, <1>6 DEF SafetyInv, JobsAreFenced, JobIsFenced, f
    <3>2. QED BY <1>1, <1>7, <1>8, <1>10, <2>0, <2>1, <3>1
             DEF JobIsFenced, AnswerIsTrue, BeforeCall
  <2>2. CASE other # j
    <3>1. job'[other] = job[other] /\ JobIsFenced(other) /\ AnswerIsTrue(other)
      BY <1>10, <2>2 DEF SafetyInv, JobsAreFenced
    <3>2. job[other].pc # "idle" =>
            job[other].fence \in Fence \ {f} /\ job[other].inc \in Incident
      BY <1>1, <2>2, <3>1, RotationAssumption
         DEF SafetyInv, FencesDiffer, JobIsFenced, CallsAreFenced, Fence, f,
             TypeInv, JobsWork
    <3>3. JobIsFenced(other)'
      BY <1>6, <1>7, <1>8, <3>1, <3>2 DEF JobIsFenced
    <3>4. AnswerIsTrue(other)'
      BY <1>3, <1>8, <3>1 DEF AnswerIsTrue
    <3>5. QED BY <3>3, <3>4
  <2>3. QED BY <2>1, <2>2
<1>12. FencesDiffer'
  BY <1>1, <1>10 DEF SafetyInv, FencesDiffer, f
<1>13. StepsAreFenced'
  <2>1. ASSUME NEW x \in Incident, NEW m \in StepNo
        PROVE  /\ steps'[x][m].fence # 0 =>
                    /\ steps'[x][m].fence \in Fence
                    /\ write'[steps'[x][m].fence].inc # None
               /\ steps'[x][m].status \in {"in_flight", "pending"} =>
                    steps'[x][m].fence # 0
    <3>1. CASE x = i /\ m = k
      <4>1. steps'[x][m] = s
        BY <1>1, <1>5, <3>1
      <4>2. s.fence = f /\ f # 0
        BY <1>3 DEF s, Fence
      <4>3. QED BY <1>1, <1>3, <1>8, <4>1, <4>2, RotationAssumption
    <3>2. CASE ~(x = i /\ m = k)
      <4>1. steps'[x][m] = steps[x][m]
        BY <1>1, <1>5, <3>2
      <4>2. QED BY <1>3, <1>8, <4>1 DEF SafetyInv, StepsAreFenced
    <3>3. QED BY <3>1, <3>2
  <2>2. QED BY <2>1 DEF StepsAreFenced
<1>14. OpenCallsAreCurrent' /\ OpenCallsArePinned'
  <2> SUFFICES ASSUME NEW g \in Fence, write'[g].effect = "open",
                      inc'[write'[g].inc].error # "reset"
               PROVE  /\ inc'[write'[g].inc].attempt = write'[g].attempt
                      /\ steps'[write'[g].inc][write'[g].step].fence = g
                      /\ steps'[write'[g].inc][write'[g].step].status
                           \in {"in_flight", "pending", "ambiguous"}
                      /\ lease'.unresolved =
                           <<write'[g].inc, write'[g].attempt, write'[g].step>>
                      /\ lease'.incident = write'[g].inc
    BY Zenon DEF OpenCallsAreCurrent, OpenCallsArePinned
  <2>1. g = f
    <3>1. SUFFICES ASSUME g # f PROVE FALSE
      OBVIOUS
    <3>2. write[g].effect = "open" /\ write'[g].inc = write[g].inc
      BY <1>8, <3>1
    <3>3. inc[write[g].inc].error = "reset"
      BY <1>2, <3>2, NothingOpen
    <3>4. write[g].inc # i
      BY <1>4, <3>3
    <3>5. QED BY <1>5, <3>2, <3>3, <3>4
  <2>2. steps'[i][k] = s /\ s.fence = f /\ s.status = "in_flight"
    BY <1>1, <1>5 DEF s
  <2>3. inc'[i].attempt = n
    BY <1>1, <1>4, <1>5
  <2>4. QED BY <1>6, <1>8, <2>1, <2>2, <2>3
<1>15. QED BY <1>7, <1>9, <1>11, <1>12, <1>13, <1>14 DEF SafetyInv, JobsAreFenced

\* A call that was refused had no effect: resolving its step gives up
\* nothing.
LEMMA ExecuteRefusedSafe ==
  ASSUME SafetyInv, NEW j \in Job, ExecuteRefused(j), TypeInv'
  PROVE  SafetyInv'
<1> DEFINE i == job[j].inc
           n == job[j].attempt
           k == job[j].step
           f == job[j].fence
<1>1. /\ i \in Incident /\ inc[i] \in IncidentRow /\ RowOk(inc[i])
      /\ inc[i].phase # "none" /\ lease \in LeaseRow
      /\ inc \in [Incident -> IncidentRow]
      /\ steps \in [Incident -> [StepNo -> StepRow]]
      /\ write \in [Fence -> WriteState] /\ k \in StepNo
  BY JobRow DEF ExecuteRefused, SafetyInv, TypeInv, TypeOK, JobsWork, AtStep
<1>2. f \in Fence
  BY <1>1, RotationAssumption
     DEF ExecuteRefused, SafetyInv, JobsAreFenced, JobIsFenced, CallsAreFenced,
         Fence, LeaseRow
<1>3. PICK code \in {"throttled", "other"}, l \in {lease, Resolved(lease, i, k)} :
        RejectNoEffect(i, n, k, f, code, l) /\ Ends(j, l)
  BY Zenon DEF ExecuteRefused
<1>4. CallsKept /\ write'[f].effect = "none"
  <2>1. write' = [write EXCEPT ![f] = [write[f] EXCEPT !.effect = "none"]]
        /\ write[f].effect \in {"open", "none"}
    BY <1>1, <1>2, Zenon DEF ExecuteRefused, WriteState
  <2>2. QED BY <1>1, <1>2, <2>1 DEF CallsKept, WriteState
<1>5. CASE l = lease /\ UNCHANGED <<inc, steps>>
  BY <1>3, <1>4, <1>5, RowsStaySame, LeaseKeptByEnds, Quiet
<1>6. CASE ~RejectIgnored(i, n, k, f)
  <2> DEFINE s == [steps[i][k] EXCEPT !.status = "rejected",
                                      !.throttled = code = "throttled"]
  <2>1. steps[i][k].fence = f /\ steps[i][k] \in StepRow
    BY <1>1, <1>6 DEF RejectIgnored
  <2>2. s.fence = f /\ s.status = "rejected"
    BY <2>1 DEF StepRow
  <2> HIDE DEF s
  <2>3. /\ steps' = [steps EXCEPT ![i][k] = s]
        /\ \/ inc' = [inc EXCEPT ![i] = ScheduleRecovery(inc[i], code)]
           \/ inc' = [inc EXCEPT ![i] = PauseIn(inc[i], code)]
    BY <1>3, <1>6, Zenon DEF RejectNoEffect, s
  <2>4. RowsStay
    BY <1>1, <2>3, ScheduleRecoveryStays, PauseInStays, RowsStayAt
  <2>5. StepsKeepFences
    BY <1>1, <2>1, <2>2, <2>3 DEF StepsKeepFences, SafetyInv, StepsAreFenced
  <2>6. l \in LeaseRow /\ l.revision = lease.revision /\ l.incident = lease.incident
    BY <1>1 DEF Resolved, LeaseRow
  <2>7. /\ JobsMove /\ lease'.revision = lease.revision
        /\ lease'.incident = lease.incident /\ lease'.unresolved = l.unresolved
    BY <1>3, <2>6, EndsMoves
  <2>8. OpenCallsKept
    <3> SUFFICES ASSUME NEW g \in Fence, write[g].effect = "open",
                        write'[g].effect = "open",
                        inc[write[g].inc].error # "reset"
                 PROVE  /\ inc'[write[g].inc].attempt = inc[write[g].inc].attempt
                        /\ lease'.unresolved = lease.unresolved
                        /\ steps'[write[g].inc][write[g].step] =
                             steps[write[g].inc][write[g].step]
                        /\ steps[write[g].inc][write[g].step].status
                             \in {"in_flight", "pending", "ambiguous"}
      BY <2>7, Zenon DEF OpenCallsKept
    <3>1. /\ write[g].inc \in Incident /\ write[g].step \in StepNo
          /\ inc[write[g].inc].phase # "none"
          /\ steps[write[g].inc][write[g].step].fence = g
          /\ steps[write[g].inc][write[g].step].status
               \in {"in_flight", "pending", "ambiguous"}
          /\ lease.unresolved = <<write[g].inc, write[g].attempt, write[g].step>>
      BY Zenon DEF SafetyInv, CallsAreFenced, OpenCallsAreCurrent,
         OpenCallsArePinned
    <3>2. g # f
      BY <1>4
    <3>3. ~(write[g].inc = i /\ write[g].step = k)
      BY <2>1, <3>1, <3>2
    <3>4. steps'[write[g].inc][write[g].step] = steps[write[g].inc][write[g].step]
      BY <1>1, <2>3, <3>1, <3>3
    <3>5. l.unresolved = lease.unresolved
      BY <3>1, <3>3 DEF Resolved, StepIdOf
    <3>6. inc'[write[g].inc].attempt = inc[write[g].inc].attempt
      BY <2>4, <3>1 DEF RowsStay, RowStays
    <3>7. QED BY <2>7, <3>1, <3>4, <3>5, <3>6
  <2>9. RevisionGrows /\ RowsMove
    BY <2>4, <2>7 DEF RevisionGrows, SafetyInv, CallsAreFenced, RowsStay,
       RowStays, RowsMove
  <2>10. QED BY <1>4, <2>5, <2>7, <2>8, <2>9, Kept
<1>7. QED BY <1>3, <1>5, <1>6, Zenon DEF RejectNoEffect

LEMMA JobSafe ==
  ASSUME SafetyInv, NEW j \in Job, JobStep(j)
  PROVE  SafetyInv'
<1> DEFINE i == job[j].inc
           k == job[j].step
<1>0. TypeInv'
  BY JobType DEF SafetyInv
<1>1. /\ inc \in [Incident -> IncidentRow] /\ lease \in LeaseRow
      /\ job \in [Job -> JobState] /\ write \in [Fence -> WriteState]
  BY DEF SafetyInv, TypeInv, TypeOK
<1>2. ASSUME NEW x \in Incident, Claim(j, x) PROVE SafetyInv'
  BY <1>0, <1>2, ClaimSafe
<1>3. ASSUME PrepareRefused(j) PROVE SafetyInv'
  BY <1>0, <1>3, RowsStaySame, CallsSame, LeaseKeptByEnds, Quiet
     DEF PrepareRefused
<1>4. ASSUME DispatchRefused(j) PROVE SafetyInv'
  <2> DEFINE r == [inc[i] EXCEPT !.error = "none"]
  <2>1. i \in Incident /\ inc[i] \in IncidentRow /\ RowOk(inc[i])
    BY <1>4, JobRow DEF DispatchRefused
  <2>2. ASSUME ~inc[i].terminated PROVE RowStays(inc[i], r)
    BY <2>1, <2>2 DEF RowStays, RowMoves, RowOk, IncidentRow
  <2> HIDE DEF r
  <2>3. \/ inc' = inc
        \/ ~inc[i].terminated /\ inc' = [inc EXCEPT ![i] = r]
    BY <1>4, Zenon DEF DispatchRefused, MayDispatch, ExecuteDue, WantsStep,
       Admitted, Stopped, r
  <2>4. RowsStay
    BY <2>1, <2>2, <2>3, RowsStayAt, RowsStaySame
  <2>5. QED BY <1>0, <1>4, <2>4, CallsSame, LeaseKeptByEnds, Quiet
            DEF DispatchRefused
<1>5. ASSUME Throws(j) PROVE SafetyInv'
  BY <1>0, <1>5, RowsStaySame, CallsSame, GoPauseMoves, Quiet DEF Throws, LeaseKept
<1>6. ASSUME PauseAfterError(j) PROVE SafetyInv'
  <2>1. /\ i \in Incident /\ inc[i] \in IncidentRow /\ RowOk(inc[i])
        /\ inc[i].phase # "none"
    BY <1>6, JobRow DEF PauseAfterError
  <2>2. RowsStay
    BY <1>6, <2>1, PauseInStays, RowsStayAt DEF PauseAfterError
  <2>3. QED BY <1>0, <1>6, <2>2, CallsSame, LeaseKeptByEnds, Quiet
            DEF PauseAfterError
<1>7. ASSUME Observe(j) PROVE SafetyInv'
  <2>1. PICK result \in Observations(job[j].stepFence) :
          job' = [job EXCEPT ![j] = [job[j] EXCEPT !.pc = "observed",
                                                   !.result = result]]
    BY <1>7, Zenon DEF Observe
  <2>2. /\ job'[j].pc = "observed" /\ job'[j].inc = job[j].inc
        /\ job'[j].fence = job[j].fence /\ job'[j].result = result
        /\ job'[j].stepFence = job[j].stepFence
        /\ \A other \in Job \ {j} : job'[other] = job[other]
    BY <1>1, <2>1 DEF JobState
  <2>3. /\ job[j].pc = "observing" /\ UNCHANGED write
        /\ job[j].stepFence \in Fence /\ write[job[j].stepFence].inc # None
    BY <1>7 DEF Observe, SafetyInv, JobsAreFenced, AnswerIsTrue
  <2>4. result \in {"applied", "not_applied"} =>
          write[job[j].stepFence].effect # "open"
    BY <2>1 DEF Observations
  <2>5. AnswerIsTrue(j)'
    BY <2>2, <2>3, <2>4 DEF AnswerIsTrue
  <2>6. JobsMove
    BY <2>2, <2>3, <2>5 DEF JobsMove, JobMoves, BeforeCall
  <2>7. QED BY <1>0, <1>7, <2>6, RowsStaySame, CallsSame, Quiet
            DEF Observe, LeaseKept
<1>8. ASSUME SaveObservation(j) PROVE SafetyInv'
  <2> DEFINE f == job[j].stepFence
  <2>1. /\ job[j].pc = "observed" /\ i \in Incident /\ k \in StepNo
        /\ f \in Fence /\ inc[i].phase # "none"
        /\ job[j].result \in Receipt
        /\ job[j].result \in {"applied", "not_applied"} =>
             write[f].effect # "open"
    BY <1>1, <1>8, JobRow
       DEF SaveObservation, SafetyInv, JobsAreFenced, AnswerIsTrue, TypeInv,
           JobsWork, AtStep, JobState, Receipt
  <2>2. CallsKept
    BY <1>8, CallsSame DEF SaveObservation
  <2>3. CASE Ends(j, lease) /\ UNCHANGED <<inc, steps>>
    BY <1>0, <2>2, <2>3, RowsStaySame, LeaseKeptByEnds, Quiet
  <2>4. ASSUME NEW l \in LeasesLeft(i, k), SaveReceipt(i, k, f, job[j].result, l),
               \/ Ends(j, l)
               \/ GoPause(j, "recoverable") /\ lease' = l
        PROVE  SafetyInv'
    <3>1. l \in LeaseRow
      BY <2>4, LeaseLeft
    <3>2. /\ JobsMove /\ lease'.revision = l.revision
          /\ lease'.incident = l.incident /\ lease'.unresolved = l.unresolved
      BY <2>1, <2>4, <3>1, EndsMoves, GoPauseMoves
    <3>3. QED BY <1>0, <2>1, <2>2, <2>4, <3>2, SaveReceiptSafe
  <2>5. QED BY <1>8, <2>3, <2>4, Zenon DEF SaveObservation, LeasesLeft
<1>9. ASSUME ObserveFails(j) PROVE SafetyInv'
  <2>1. PICK code \in {"recoverable", "throttled", "other"} :
          /\ RejectUncertain(i, job[j].attempt, k, job[j].stepFence, code)
          /\ \/ Ends(j, lease)
             \/ GoPause(j, code) /\ UNCHANGED lease
    BY <1>9, Zenon DEF ObserveFails
  <2>2. i \in Incident /\ inc[i].phase # "none" /\ job[j].pc # "idle"
    BY <1>9, JobRow DEF ObserveFails
  <2>3. RowsStay
    BY <2>1, <2>2, RejectUncertainStays
  <2>4. JobsMove /\ LeaseKept
    BY <2>1, <2>2, LeaseKeptByEnds, GoPauseMoves DEF LeaseKept
  <2>5. QED BY <1>0, <1>9, <2>3, <2>4, CallsSame, Quiet DEF ObserveFails
<1>10. ASSUME ExecuteReturns(j) PROVE SafetyInv'
  <2>1. /\ job[j].pc = "executing" /\ i \in Incident /\ k \in StepNo
        /\ inc[i].phase # "none" /\ job[j].fence \in Fence
    BY <1>1, <1>10, JobRow, RotationAssumption
       DEF ExecuteReturns, SafetyInv, JobsAreFenced, JobIsFenced, CallsAreFenced,
           Fence, TypeInv, JobsWork, AtStep, LeaseRow
  <2>2. CallsKept
    BY <1>10, CallsSame DEF ExecuteReturns
  <2>3. CASE GoPause(j, "recoverable") /\ UNCHANGED <<inc, steps, slot, lease>>
    BY <1>0, <2>1, <2>2, <2>3, RowsStaySame, GoPauseMoves, Quiet DEF LeaseKept
  <2>4. ASSUME NEW l \in LeasesLeft(i, k), SaveReceipt(i, k, job[j].fence, "pending", l),
               Ends(j, l)
        PROVE  SafetyInv'
    <3>1. l \in LeaseRow
      BY <2>4, LeaseLeft
    <3>2. /\ JobsMove /\ lease'.revision = l.revision
          /\ lease'.incident = l.incident /\ lease'.unresolved = l.unresolved
      BY <2>4, <3>1, EndsMoves
    <3>3. "pending" \in Receipt /\ "pending" \notin {"applied", "not_applied"}
      BY DEF Receipt
    <3>4. QED BY <1>0, <2>1, <2>2, <2>4, <3>2, <3>3, SaveReceiptSafe
  <2>5. QED BY <1>10, <2>3, <2>4, Zenon DEF ExecuteReturns, LeasesLeft
<1>11. ASSUME ExecuteUncertain(j) PROVE SafetyInv'
  <2> DEFINE f == job[j].fence
  <2>1. /\ i \in Incident /\ inc[i].phase # "none" /\ f \in Fence
        /\ write[f].inc # None
    BY <1>1, <1>11, JobRow, RotationAssumption
       DEF ExecuteUncertain, SafetyInv, JobsAreFenced, JobIsFenced,
           CallsAreFenced, Fence, LeaseRow
  <2>2. RowsStay
    BY <1>11, <2>1, RejectUncertainStays DEF ExecuteUncertain
  <2>3. CallsKept
    <3>1. \/ write' = write
          \/ write' = [write EXCEPT ![f] = [write[f] EXCEPT !.late = TRUE]]
      BY <1>11, Zenon DEF ExecuteUncertain
    <3>2. CASE write' = [write EXCEPT ![f] = [write[f] EXCEPT !.late = TRUE]]
      <4>1. /\ write'[f].inc = write[f].inc /\ write'[f].step = write[f].step
            /\ write'[f].attempt = write[f].attempt
            /\ write'[f].effect = write[f].effect
        BY <1>1, <2>1, <3>2 DEF WriteState
      <4>2. \A g \in Fence \ {f} : write'[g] = write[g]
        BY <1>1, <3>2
      <4>3. QED BY <2>1, <4>1, <4>2 DEF CallsKept
    <3>3. QED BY <3>1, <3>2, CallsSame
  <2>4. QED BY <1>0, <1>11, <2>2, <2>3, LeaseKeptByEnds, Quiet
            DEF ExecuteUncertain
<1>12. ASSUME Crash(j) PROVE SafetyInv'
  <2>1. JobsMove
    BY <1>1, <1>12 DEF Crash, JobsMove, JobMoves, IdleJob
  <2>2. CallsKept
    <3>1. ASSUME NEW f \in Fence
          PROVE  \/ write'[f] = write[f]
                 \/ write'[f] = [write[f] EXCEPT !.late = FALSE]
      BY <1>12 DEF Crash
    <3>2. ASSUME NEW f \in Fence
          PROVE  /\ write'[f].inc = write[f].inc /\ write'[f].step = write[f].step
                 /\ write'[f].attempt = write[f].attempt
                 /\ write'[f].effect = write[f].effect
                 /\ write'[f].late => write[f].late
      <4>1. write[f] \in WriteState
        BY <1>1
      <4>2. QED BY <3>1, <4>1 DEF WriteState
    <3>3. QED BY <3>2 DEF CallsKept
  <2>3. QED BY <1>0, <1>12, <2>1, <2>2, RowsStaySame, Quiet DEF Crash, LeaseKept
<1>13. QED
  BY <1>0, <1>2, <1>3, <1>4, <1>5, <1>6, <1>7, <1>8, <1>9, <1>10, <1>11,
     <1>12, ReadSafe, SettleSafe, PrepareSafe, DispatchSafe, ExecuteRefusedSafe,
     Zenon DEF JobStep

LEMMA LateReceiptSafe ==
  ASSUME SafetyInv, NEW f \in Fence, LateReceipt(f)
  PROVE  SafetyInv'
<1> DEFINE i == write[f].inc
           k == write[f].step
<1>0. TypeInv'
  BY LateReceiptType DEF SafetyInv
<1>1. i \in Incident /\ k \in StepNo /\ inc[i].phase # "none"
  BY DEF LateReceipt, SafetyInv, CallsAreFenced
<1>2. CallsKept
  <2>1. write' = [write EXCEPT ![f] = [write[f] EXCEPT !.late = FALSE]]
    BY Zenon DEF LateReceipt
  <2>2. QED BY <2>1 DEF CallsKept, WriteState, SafetyInv, TypeInv, TypeOK
<1>3. JobsMove
  BY JobsSame DEF LateReceipt
<1>4. CASE UNCHANGED <<inc, steps, slot, lease>>
  BY <1>0, <1>2, <1>3, <1>4, RowsStaySame, Quiet DEF LeaseKept
<1>5. CASE /\ lease' \in LeasesLeft(i, k)
           /\ SaveReceipt(i, k, f, "pending", lease')
  <2>1. "pending" \in Receipt /\ "pending" \notin {"applied", "not_applied"}
    BY DEF Receipt
  <2>2. QED BY <1>0, <1>1, <1>2, <1>3, <1>5, <2>1, SaveReceiptSafe
<1>6. QED BY <1>4, <1>5, Zenon DEF LateReceipt, LeasesLeft

\* The facts the pin of an open call rests on hold in every state.
THEOREM SafetyInvariant == Spec => []SafetyInv
<1>1. Init => SafetyInv
  <2> SUFFICES ASSUME Init PROVE SafetyInv
    OBVIOUS
  <2>1. TypeInv
    BY InitType
  <2>2. RowsAreOk
    BY DEF Init, RowsAreOk, RowOk, NoIncident
  <2>3. CallsAreFenced /\ OpenCallsAreCurrent /\ OpenCallsArePinned
    BY RotationAssumption
       DEF Init, CallsAreFenced, OpenCallsAreCurrent, OpenCallsArePinned, NoWrite
  <2>4. JobsAreFenced /\ FencesDiffer
    BY DEF Init, JobsAreFenced, JobIsFenced, AnswerIsTrue, FencesDiffer, IdleJob
  <2>5. StepsAreFenced
    BY DEF Init, StepsAreFenced, NewStep
  <2>6. QED BY <2>1, <2>2, <2>3, <2>4, <2>5 DEF SafetyInv
<1>2. SafetyInv /\ [Next]_vars => SafetyInv'
  <2> SUFFICES ASSUME SafetyInv, [Next]_vars PROVE SafetyInv'
    OBVIOUS
  <2>1. CASE UNCHANGED vars
    <3>1. TypeInv'
      BY <2>1 DEF vars, SafetyInv, TypeInv, TypeOK, JobsWork
    <3>2. QED BY <2>1, <3>1, RowsStaySame, CallsSame, JobsSame, Quiet
              DEF vars, LeaseKept
  <2>2. CASE Next
    BY <2>2, UserSafe, TimeSafe, CloudSafe, LateReceiptSafe, ClaimForeignSafe,
       JobSafe, Zenon DEF Next, CloudStep
  <2>3. QED BY <2>1, <2>2
<1>3. QED BY <1>1, <1>2, PTL DEF Spec

\* A call whose outcome is open in the cloud keeps its incident and its step
\* on the lease, through crashes, expiries, resumptions, receipts that arrive
\* late and termination, for any number of incidents, workers and steps.
THEOREM OpenCallsArePinnedAlways == Spec => []OpenCallsArePinned
BY SafetyInvariant, PTL DEF SafetyInv

-----------------------------------------------------------------------------
(* Effects and accounts.                                                   *)

\* A step in one of these may be dispatched, now or after a retry.
Idle == {"prepared", "rejected", "not_applied"}

RowCounts(r) ==
  /\ r.attempt <= r.attempts /\ r.attempts <= MaxRows
  /\ r.segments <= MaxSegments /\ r.pending <= r.segments
  /\ r.phase = "none" => r.attempts = 0
  /\ r.phase # "none" => r.status # "none" /\ r.segment \in 1 .. r.segments

RowsAreCounted == \A i \in Incident : RowCounts(inc[i])

CallsAreCounted ==
  \A f \in Fence :
    write[f].inc # None => write[f].attempt \in 1 .. inc[write[f].inc].attempts

\* What an observation has concluded is still so.
AnswerHolds(j) ==
  job[j].pc = "observed" =>
    /\ job[j].result = "applied" => write[job[j].stepFence].effect = "applied"
    /\ job[j].result = "not_applied" => write[job[j].stepFence].effect = "none"

AnswersHold == \A j \in Job : AnswerHolds(j)

\* The fence of a step is that of a call of the step, for the current attempt.
FencesAreOwn ==
  \A i \in Incident, k \in StepNo :
    LET w == write[steps[i][k].fence] IN
    steps[i][k].fence # 0 =>
      /\ w.inc = i /\ w.step = k
      /\ inc[i].attempt # 0 => w.attempt = inc[i].attempt

AppliedIsTrue ==
  \A i \in Incident, k \in StepNo :
    steps[i][k].status = "applied" =>
      steps[i][k].fence # 0 /\ write[steps[i][k].fence].effect = "applied"

\* A call of the current attempt that has or may have an effect.
IsCurrent(f) ==
  write[f].effect # "none" /\ inc[write[f].inc].attempt = write[f].attempt

EffectsAreShown ==
  \A f \in Fence :
    IsCurrent(f) =>
      LET s == steps[write[f].inc][write[f].step]
      IN  s.fence = f /\ s.status \notin Idle

PlanInOrder ==
  \A f \in Fence :
    IsCurrent(f) =>
      \A k \in 1 .. write[f].step - 1 :
        LET s == steps[write[f].inc][k]
        IN  s.fence # 0 /\ write[s.fence].effect = "applied"

EffectInv ==
  /\ SafetyInv /\ RowsAreCounted
  /\ CallsAreCounted /\ AnswersHold /\ FencesAreOwn /\ AppliedIsTrue
  /\ EffectsAreShown /\ PlanInOrder /\ StepTakesEffectOnce

-----------------------------------------------------------------------------
(* Steps that make no call: what they do to the rows, the plans and the    *)
(* lease.                                                                  *)

HasPlan(r) ==
  r.status \notin {"none", "complete"} /\ r.phase = "cloud" /\ HasAttempt(r)

\* A write to a row that keeps its attempts and its segments.
RowKeeps(r, next) ==
  /\ next.attempts = r.attempts /\ next.attempt \in {r.attempt, 0}
  /\ next.segments = r.segments /\ next.pending \in {r.pending, 0}
  /\ next.segment \in {r.segment, r.pending}
  /\ next.segment = 0 => r.segment = 0
  /\ next.phase = "none" <=> r.phase = "none"
  /\ r.status # "none" => next.status # "none"
  /\ HasPlan(next) => HasPlan(r)
  /\ r.terminated => next.terminated /\ next.phase = r.phase
  /\ r.phase = "complete" => next.phase = "complete"

RowsKeep == \A i \in Incident : RowKeeps(inc[i], inc'[i])

\* A step becomes ready to be dispatched only when its last call had no
\* effect, and applied only when it had one.
StepMoves(i, k) ==
  LET s == steps[i][k]
      next == steps'[i][k]
  IN /\ next.fence = s.fence
     /\ next.status \in Idle =>
          \/ s.status \in Idle
          \/ s.fence # 0 /\ write'[s.fence].effect = "none"
     /\ next.status = "applied" =>
          \/ s.status = "applied"
          \/ s.fence # 0 /\ write'[s.fence].effect = "applied"

StepsMove == \A i \in Incident, k \in StepNo : StepMoves(i, k)

AnswersMove ==
  \A j \in Job :
    job'[j] = job[j] \/ job'[j].pc # "observed" \/ AnswerHolds(j)'

OwnerMoves ==
  lease'.incident # lease.incident =>
    \A i \in Incident : i = lease.incident => ~HasPlan(inc'[i])

\* The accounts of a segment but for its exhaustion.
BudgetKept ==
  \A i \in Incident, b \in 1 .. MaxSegments :
    /\ budget'[i][b].used = budget[i][b].used
    /\ budget'[i][b].max = budget[i][b].max

Moves ==
  /\ CallsKept /\ RowsKeep /\ StepsMove /\ AnswersMove /\ OwnerMoves
  /\ BudgetKept /\ UNCHANGED attempts

LEMMA SameRowKeeps ==
  ASSUME NEW r
  PROVE  RowKeeps(r, r)
BY DEF RowKeeps

LEMMA ErrorKeeps ==
  ASSUME NEW r \in IncidentRow, NEW error
  PROVE  RowKeeps(r, [r EXCEPT !.error = error])
BY DEF RowKeeps, HasPlan, HasAttempt, IncidentRow

LEMMA ScheduleRecoveryKeeps ==
  ASSUME NEW r \in IncidentRow, r.status # "none", NEW code
  PROVE  RowKeeps(r, ScheduleRecovery(r, code))
<1> DEFINE x == [r EXCEPT !.status = "exhausted", !.error = "recoveries_exhausted",
                          !.retry = "none"]
           y == [r EXCEPT !.status = "active", !.recoveries = @ + 1,
                          !.retry = "waiting",
                          !.error = IF code = "throttled" THEN "none"
                                    ELSE "recoverable"]
<1>1. ASSUME r.status # "complete" PROVE RowKeeps(r, x) /\ RowKeeps(r, y)
  BY <1>1 DEF RowKeeps, HasPlan, HasAttempt, IncidentRow
<1> HIDE DEF x, y
<1>2. \/ ScheduleRecovery(r, code) = r
      \/ r.status # "complete" /\ ScheduleRecovery(r, code) \in {x, y}
  BY Zenon DEF ScheduleRecovery, x, y
<1>3. QED BY <1>1, <1>2, SameRowKeeps

LEMMA PauseInKeeps ==
  ASSUME NEW r \in IncidentRow, r.status # "none", NEW code
  PROVE  RowKeeps(r, PauseIn(r, code))
<1> DEFINE x == [r EXCEPT !.status = IF code = "attempts" THEN "exhausted"
                                     ELSE "paused",
                          !.error = ErrorOf(code)]
<1>1. ASSUME r.status # "complete" PROVE RowKeeps(r, x)
  BY <1>1 DEF RowKeeps, HasPlan, HasAttempt, IncidentRow
<1> HIDE DEF x
<1>2. \/ PauseIn(r, code) = r
      \/ PauseIn(r, code) = ScheduleRecovery(r, code)
      \/ r.status # "complete" /\ PauseIn(r, code) = x
  BY Zenon DEF PauseIn, x
<1>3. QED BY <1>1, <1>2, SameRowKeeps, ScheduleRecoveryKeeps

LEMMA ReadRowKeeps ==
  ASSUME NEW r \in IncidentRow, r.status # "none", NEW j
  PROVE  RowKeeps(r, ReadRow(j, r))
<1> DEFINE x == [r EXCEPT !.retry = "none", !.error = "none"]
<1>1. RowKeeps(r, x)
  BY DEF RowKeeps, HasPlan, HasAttempt, IncidentRow
<1> HIDE DEF x
<1>2. ReadRow(j, r) \in {r, x, ScheduleRecovery(r, "recoverable")}
  BY Zenon DEF ReadRow, x
<1>3. QED BY <1>1, <1>2, SameRowKeeps, ScheduleRecoveryKeeps

LEMMA ReceiptRowFacts ==
  ASSUME NEW r \in IncidentRow, RowOk(r), r.status # "none", ~r.terminated,
         NEW status
  PROVE  RowKeeps(r, ReceiptRow(r, status))
<1> DEFINE x == [r EXCEPT !.status = "active", !.error = "none", !.retry = "none"]
<1>1. RowKeeps(r, x)
  BY DEF RowKeeps, RowOk, HasPlan, HasAttempt, IncidentRow
<1> HIDE DEF x
<1>2. ReceiptRow(r, status) \in {r, x, PauseIn(r, "other")}
  BY Zenon DEF ReceiptRow, x
<1>3. QED BY <1>1, <1>2, SameRowKeeps, PauseInKeeps

LEMMA RowKeepsTwice ==
  ASSUME NEW r, NEW s, NEW t, RowKeeps(r, s), RowKeeps(s, t)
  PROVE  RowKeeps(r, t)
BY DEF RowKeeps

\* installCandidate ends the plan.
LEMMA InstalledKeeps ==
  ASSUME NEW r \in IncidentRow, ~r.terminated, r.phase = "cloud", NEW i
  PROVE  RowKeeps(r, Installed(i, r)) /\ ~HasPlan(Installed(i, r))
<1> DEFINE x == Installed(i, r)
<1>1. /\ x.attempts = r.attempts /\ x.attempt = r.attempt
      /\ x.segments = r.segments /\ x.pending = 0
      /\ x.segment = IF r.pending # 0 THEN r.pending ELSE r.segment
      /\ x.phase \in {"publish", "candidate"} /\ x.status = r.status
      /\ x.terminated = r.terminated
  BY DEF Installed, IncidentRow
<1> HIDE DEF x
<1>2. RowKeeps(r, x) /\ ~HasPlan(x)
  BY <1>1 DEF RowKeeps, HasPlan
<1>3. QED BY <1>2 DEF x

LEMMA RowCountsKept ==
  ASSUME NEW r \in IncidentRow, NEW next \in IncidentRow, RowCounts(r), RowKeeps(r, next)
  PROVE  RowCounts(next)
<1>1. /\ r.attempt \in Nat /\ r.attempts \in Nat /\ r.segments \in Nat
      /\ r.pending \in Nat /\ r.segment \in Nat
      /\ next.attempt \in Nat /\ next.segment \in Nat /\ next.pending \in Nat
  BY DEF IncidentRow
<1>2. MaxRows \in Nat /\ MaxSegments \in Nat
  BY RotationAssumption
<1>3. QED BY <1>1, <1>2 DEF RowCounts, RowKeeps

LEMMA RowsKeepAt ==
  ASSUME SafetyInv, NEW i \in Incident, NEW r, RowKeeps(inc[i], r),
         inc' = [inc EXCEPT ![i] = r]
  PROVE  RowsKeep
<1>1. inc \in [Incident -> IncidentRow]
  BY DEF SafetyInv, TypeInv, TypeOK
<1>2. QED BY <1>1, SameRowKeeps DEF RowsKeep

LEMMA RowsKeepSame ==
  ASSUME UNCHANGED inc
  PROVE  RowsKeep
BY SameRowKeeps DEF RowsKeep

-----------------------------------------------------------------------------
(* The effects.                                                            *)

AttemptsMove ==
  \A i \in Incident :
    /\ inc'[i].attempt \in {inc[i].attempt, 0}
    /\ inc[i].phase # "none" => inc'[i].attempts = inc[i].attempts

\* A call that has or may have an effect was made, for a counted attempt.
LEMMA EffectFacts ==
  ASSUME EffectInv, NEW f \in Fence, write[f].effect # "none"
  PROVE  /\ write[f].inc \in Incident /\ write[f].step \in StepNo
         /\ write[f].attempt \in Nat \ {0}
         /\ inc[write[f].inc].phase # "none"
         /\ write[f].attempt <= inc[write[f].inc].attempts
<1>1. /\ write[f].inc # None
      /\ write[f].inc \in Incident /\ write[f].step \in StepNo
      /\ inc[write[f].inc].phase # "none"
  BY DEF EffectInv, SafetyInv, CallsAreFenced
<1>2. QED BY <1>1 DEF EffectInv, CallsAreCounted

\* The fence a step carries.
LEMMA FenceFacts ==
  ASSUME SafetyInv, NEW i \in Incident, NEW k \in StepNo, steps[i][k].fence # 0
  PROVE  steps[i][k].fence \in Fence
BY DEF SafetyInv, StepsAreFenced

LEMMA OwnFence ==
  ASSUME EffectInv, NEW i \in Incident, NEW k \in StepNo, steps[i][k].fence # 0,
         inc[i].attempt # 0
  PROVE  /\ steps[i][k].fence \in Fence /\ write[steps[i][k].fence].inc = i
         /\ write[steps[i][k].fence].attempt = inc[i].attempt
         /\ write[steps[i][k].fence].step = k
<1>1. FencesAreOwn /\ SafetyInv
  BY DEF EffectInv
<1>2. QED BY <1>1, FenceFacts DEF FencesAreOwn

LEMMA EffectsKept ==
  ASSUME EffectInv, SafetyInv', RowsAreCounted', CallsKept, AttemptsMove,
         StepsMove, AnswersMove
  PROVE  EffectInv'
<1>1. ASSUME NEW f \in Fence
      PROVE  /\ write'[f].inc = write[f].inc /\ write'[f].step = write[f].step
             /\ write'[f].attempt = write[f].attempt
             /\ write'[f].effect # "none" => write[f].effect # "none"
             /\ write[f].effect \in {"none", "applied"} =>
                  write'[f].effect = write[f].effect
  <2>1. write[f].effect # "open" => write'[f].effect = write[f].effect
    BY DEF CallsKept
  <2>2. QED BY <2>1 DEF CallsKept
<1>2. ASSUME NEW f \in Fence, IsCurrent(f)'
      PROVE  IsCurrent(f)
  <2>1. /\ write[f].effect # "none"
        /\ inc'[write[f].inc].attempt = write[f].attempt
    BY <1>1, <1>2 DEF IsCurrent
  <2>2. write[f].inc \in Incident /\ write[f].attempt # 0
    BY <2>1, EffectFacts
  <2>3. QED BY <2>1, <2>2 DEF IsCurrent, AttemptsMove
<1>3. CallsAreCounted'
  <2> SUFFICES ASSUME NEW f \in Fence, write[f].inc # None
               PROVE  write[f].attempt \in 1 .. inc'[write[f].inc].attempts
    BY <1>1 DEF CallsAreCounted
  <2>1. write[f].inc \in Incident /\ inc[write[f].inc].phase # "none"
    BY DEF EffectInv, SafetyInv, CallsAreFenced
  <2>2. QED BY <2>1 DEF AttemptsMove, EffectInv, CallsAreCounted
<1>4. AnswersHold'
  <2> SUFFICES ASSUME NEW j \in Job, job'[j] = job[j], job[j].pc = "observed"
               PROVE  AnswerHolds(j)'
    BY DEF AnswersHold, AnswersMove, AnswerHolds
  <2>1. job[j].stepFence \in Fence /\ AnswerHolds(j)
    BY DEF EffectInv, AnswersHold, SafetyInv, JobsAreFenced, AnswerIsTrue
  <2>2. QED BY <1>1, <2>1 DEF AnswerHolds
<1>5. FencesAreOwn'
  <2> SUFFICES ASSUME NEW i \in Incident, NEW k \in StepNo, steps'[i][k].fence # 0
               PROVE  LET w == write'[steps'[i][k].fence]
                      IN  /\ w.inc = i /\ w.step = k
                          /\ inc'[i].attempt # 0 => w.attempt = inc'[i].attempt
    BY DEF FencesAreOwn
  <2>1. steps'[i][k].fence = steps[i][k].fence /\ steps[i][k].fence \in Fence
    BY FenceFacts DEF StepsMove, StepMoves, EffectInv
  <2>2. /\ write[steps[i][k].fence].inc = i /\ write[steps[i][k].fence].step = k
        /\ inc[i].attempt # 0 => write[steps[i][k].fence].attempt = inc[i].attempt
    BY <2>1 DEF EffectInv, FencesAreOwn
  <2>3. QED BY <1>1, <2>1, <2>2 DEF AttemptsMove
<1>6. AppliedIsTrue'
  <2> SUFFICES ASSUME NEW i \in Incident, NEW k \in StepNo,
                      steps'[i][k].status = "applied"
               PROVE  /\ steps'[i][k].fence # 0
                      /\ write'[steps'[i][k].fence].effect = "applied"
    BY DEF AppliedIsTrue
  <2>1. StepMoves(i, k)
    BY DEF StepsMove
  <2>2. CASE steps[i][k].status = "applied"
    <3>1. steps[i][k].fence # 0 /\ write[steps[i][k].fence].effect = "applied"
      BY <2>2 DEF EffectInv, AppliedIsTrue
    <3>2. steps[i][k].fence \in Fence
      BY <3>1, FenceFacts DEF EffectInv
    <3>3. QED BY <1>1, <2>1, <3>1, <3>2 DEF StepMoves
  <2>3. CASE steps[i][k].status # "applied"
    BY <2>1, <2>3 DEF StepMoves
  <2>4. QED BY <2>2, <2>3
<1>7. EffectsAreShown'
  <2> SUFFICES ASSUME NEW f \in Fence, IsCurrent(f)'
               PROVE  LET s == steps'[write[f].inc][write[f].step]
                      IN  s.fence = f /\ s.status \notin Idle
    BY <1>1 DEF EffectsAreShown
  <2>1. /\ write[f].inc \in Incident /\ write[f].step \in StepNo
        /\ write'[f].effect # "none"
    BY <1>1, EffectFacts DEF IsCurrent
  <2>2. /\ steps[write[f].inc][write[f].step].fence = f
        /\ steps[write[f].inc][write[f].step].status \notin Idle
    BY <1>2 DEF EffectInv, EffectsAreShown
  <2>3. StepMoves(write[f].inc, write[f].step)
    BY <2>1 DEF StepsMove
  <2>4. QED BY <2>1, <2>2, <2>3 DEF StepMoves
<1>8. PlanInOrder'
  <2> SUFFICES ASSUME NEW f \in Fence, IsCurrent(f)',
                      NEW k \in 1 .. write[f].step - 1
               PROVE  LET s == steps'[write[f].inc][k]
                      IN  s.fence # 0 /\ write'[s.fence].effect = "applied"
    BY <1>1 DEF PlanInOrder
  <2>1. write[f].inc \in Incident /\ write[f].step \in StepNo
    BY <1>1, EffectFacts DEF IsCurrent
  <2>2. k \in StepNo
    BY <2>1, RotationAssumption DEF StepNo
  <2>3. /\ steps[write[f].inc][k].fence # 0
        /\ write[steps[write[f].inc][k].fence].effect = "applied"
    BY <1>2 DEF EffectInv, PlanInOrder
  <2>4. steps[write[f].inc][k].fence \in Fence
    BY <2>1, <2>2, <2>3, FenceFacts DEF EffectInv
  <2>5. StepMoves(write[f].inc, k)
    BY <2>1, <2>2 DEF StepsMove
  <2>6. QED BY <1>1, <2>3, <2>4, <2>5 DEF StepMoves
<1>9. StepTakesEffectOnce'
  BY <1>1 DEF EffectInv, StepTakesEffectOnce
<1>10. QED
  BY <1>3, <1>4, <1>5, <1>6, <1>7, <1>8, <1>9 DEF EffectInv

-----------------------------------------------------------------------------
(* The budget.                                                             *)

ChargedIn(i, b) ==
  {n \in 1 .. inc[i].attempts :
     attempts[i][n].charged /\ attempts[i][n].segment = b}

AccountHolds(i, b) ==
  /\ budget[i][b].used = Cardinality(ChargedIn(i, b))
  /\ budget[i][b].used <= budget[i][b].max

\* The accounts of one incident; its attempts are made in its segments.
AccountsHold(i) ==
  /\ \A n \in 1 .. inc[i].attempts :
       attempts[i][n].segment \in 1 .. inc[i].segments
  /\ \A b \in 1 .. inc[i].segments : AccountHolds(i, b)

EffectsAreCharged ==
  \A f \in Fence :
    write[f].effect # "none" => attempts[write[f].inc][write[f].attempt].charged

BudgetInv ==
  EffectInv /\ (\A i \in Incident : AccountsHold(i)) /\ EffectsAreCharged

LEMMA BudgetInvImplies ==
  ASSUME BudgetInv
  PROVE  BudgetAccounts
<1>1. ASSUME NEW i \in Incident, NEW b \in 1 .. inc[i].segments
      PROVE  /\ budget[i][b].used =
                  Cardinality({n \in 1 .. inc[i].attempts :
                    attempts[i][n].charged /\ attempts[i][n].segment = b})
             /\ budget[i][b].used <= budget[i][b].max
  BY DEF BudgetInv, AccountsHold, AccountHolds, ChargedIn
<1>2. QED BY <1>1 DEF BudgetInv, EffectsAreCharged, BudgetAccounts

LEMMA ChargedFacts ==
  ASSUME TypeInv, NEW i \in Incident, NEW b
  PROVE  IsFiniteSet(ChargedIn(i, b))
<1>1. inc[i].attempts \in Nat
  BY DEF TypeInv, TypeOK, IncidentRow
<1>2. IsFiniteSet(1 .. inc[i].attempts)
  BY <1>1, FS_Interval
<1>3. ChargedIn(i, b) \in SUBSET (1 .. inc[i].attempts)
  BY DEF ChargedIn
<1>4. QED BY <1>2, <1>3, FS_Subset

\* The segments and the attempts of an incident are rows the tables hold.
LEMMA CountFacts ==
  ASSUME EffectInv, NEW i \in Incident
  PROVE  /\ inc[i].attempts \in Nat /\ inc[i].segments \in Nat
         /\ 1 .. inc[i].attempts \subseteq 1 .. MaxRows
         /\ 1 .. inc[i].segments \subseteq 1 .. MaxSegments
         /\ inc[i].attempt # 0 => inc[i].attempt \in 1 .. inc[i].attempts
<1>1. inc[i] \in IncidentRow /\ RowCounts(inc[i])
  BY DEF EffectInv, RowsAreCounted, SafetyInv, TypeInv, TypeOK
<1>2. QED BY <1>1, RotationAssumption DEF RowCounts, IncidentRow

LEMMA AccountsStay ==
  ASSUME BudgetInv, NEW i \in Incident,
         inc'[i].attempts = inc[i].attempts, inc'[i].segments = inc[i].segments,
         attempts'[i] = attempts[i],
         \A b \in 1 .. MaxSegments :
           /\ budget'[i][b].used = budget[i][b].used
           /\ budget'[i][b].max = budget[i][b].max
  PROVE  AccountsHold(i)'
<1>1. AccountsHold(i) /\ 1 .. inc[i].segments \subseteq 1 .. MaxSegments
  BY CountFacts DEF BudgetInv
<1>2. ASSUME NEW b \in 1 .. inc[i].segments PROVE AccountHolds(i, b)'
  <2>1. ChargedIn(i, b)' = ChargedIn(i, b)
    BY DEF ChargedIn
  <2>2. QED BY <1>1, <2>1 DEF AccountHolds, AccountsHold
<1>3. QED BY <1>1, <1>2 DEF AccountsHold

\* A new segment has no attempts yet.
LEMMA AccountsGrow ==
  ASSUME BudgetInv, NEW i \in Incident, NEW new \in 1 .. MaxSegments,
         inc'[i].attempts = inc[i].attempts, inc'[i].segments = new,
         \A n \in 1 .. inc[i].attempts : attempts[i][n].segment \in 1 .. new - 1,
         \A b \in 1 .. new - 1 : b \in 1 .. inc[i].segments,
         attempts'[i] = attempts[i],
         budget'[i][new].used = 0, budget'[i][new].max \in Nat,
         \A b \in 1 .. MaxSegments : b # new => budget'[i][b] = budget[i][b]
  PROVE  AccountsHold(i)'
<1>1. ASSUME NEW b \in 1 .. new PROVE AccountHolds(i, b)'
  <2>1. ChargedIn(i, b)' = ChargedIn(i, b)
    BY DEF ChargedIn
  <2>2. CASE b = new
    <3>1. ChargedIn(i, b) = {}
      BY <2>2 DEF ChargedIn
    <3>2. QED BY <2>1, <2>2, <3>1, FS_EmptySet DEF AccountHolds
  <2>3. CASE b # new
    <3>1. b \in 1 .. new - 1 /\ b \in 1 .. MaxSegments
      BY <2>3, RotationAssumption
    <3>2. AccountHolds(i, b)
      BY <3>1 DEF BudgetInv, AccountsHold
    <3>3. QED BY <2>1, <2>3, <3>1, <3>2 DEF AccountHolds
  <2>4. QED BY <2>2, <2>3
<1>2. \A n \in 1 .. inc[i].attempts : attempts[i][n].segment \in 1 .. new
  OBVIOUS
<1>3. QED BY <1>1, <1>2 DEF AccountsHold

LEMMA EffectsStayCharged ==
  ASSUME BudgetInv, CallsKept,
         \A i \in Incident : \A n \in 1 .. inc[i].attempts :
           attempts[i][n].charged => attempts'[i][n].charged
  PROVE  EffectsAreCharged'
<1> SUFFICES ASSUME NEW f \in Fence, write'[f].effect # "none"
             PROVE  attempts'[write[f].inc][write[f].attempt].charged
  BY DEF EffectsAreCharged, CallsKept
<1>1. write[f].effect # "none"
  BY DEF CallsKept
<1>2. /\ write[f].inc \in Incident
      /\ write[f].attempt \in 1 .. inc[write[f].inc].attempts
  BY <1>1, EffectFacts, CountFacts DEF BudgetInv
<1>3. QED BY <1>1, <1>2 DEF BudgetInv, EffectsAreCharged

-----------------------------------------------------------------------------
(* The plan that owns the instance.                                        *)

EffectsInv == BudgetInv /\ PlanOwnsInstance

LEMMA OwnerKept ==
  ASSUME PlanOwnsInstance, RowsKeep, OwnerMoves
  PROVE  PlanOwnsInstance'
<1> SUFFICES ASSUME NEW i \in Incident, HasPlan(inc'[i])
             PROVE  lease'.incident = i
  BY DEF PlanOwnsInstance, HasPlan, Ongoing
<1>1. HasPlan(inc[i])
  BY DEF RowsKeep, RowKeeps
<1>2. lease.incident = i
  BY <1>1 DEF PlanOwnsInstance, HasPlan, Ongoing
<1>3. QED BY <1>2 DEF OwnerMoves

LEMMA MovesKeep ==
  ASSUME EffectsInv, SafetyInv', Moves
  PROVE  EffectsInv'
<1>1. RowsAreCounted'
  <2>1. ASSUME NEW i \in Incident PROVE RowCounts(inc'[i])
    BY RowCountsKept
       DEF Moves, RowsKeep, EffectsInv, BudgetInv, EffectInv, RowsAreCounted,
           SafetyInv, TypeInv, TypeOK
  <2>2. QED BY <2>1 DEF RowsAreCounted
<1>2. AttemptsMove
  BY DEF Moves, RowsKeep, RowKeeps, AttemptsMove
<1>3. EffectInv'
  BY <1>1, <1>2, EffectsKept DEF Moves, EffectsInv, BudgetInv
<1>4. ASSUME NEW i \in Incident PROVE AccountsHold(i)'
  BY AccountsStay DEF Moves, RowsKeep, RowKeeps, BudgetKept, EffectsInv
<1>5. EffectsAreCharged'
  BY EffectsStayCharged DEF Moves, EffectsInv
<1>6. PlanOwnsInstance'
  BY OwnerKept DEF Moves, EffectsInv
<1>7. QED BY <1>3, <1>4, <1>5, <1>6 DEF EffectsInv, BudgetInv

-----------------------------------------------------------------------------
(* The steps of users and of time.                                         *)

LEMMA QuietMoves ==
  ASSUME UNCHANGED <<steps, attempts, budget>>, CallsKept, AnswersMove, RowsKeep,
         OwnerMoves
  PROVE  Moves
BY DEF Moves, StepsMove, StepMoves, BudgetKept

LEMMA RowMovesOnly ==
  ASSUME UNCHANGED <<attempts, steps, budget, job, write>>, RowsKeep, OwnerMoves
  PROVE  Moves
BY CallsSame, QuietMoves DEF AnswersMove

LEMMA RowFacts ==
  ASSUME EffectsInv, NEW i \in Incident
  PROVE  /\ inc \in [Incident -> IncidentRow] /\ inc[i] \in IncidentRow
         /\ RowOk(inc[i]) /\ RowCounts(inc[i]) /\ lease \in LeaseRow
         /\ inc[i].phase # "none" => inc[i].status # "none"
BY DEF EffectsInv, BudgetInv, EffectInv, SafetyInv, RowsAreOk, RowsAreCounted,
       RowCounts, TypeInv, TypeOK

LEMMA StartKeeps ==
  ASSUME EffectsInv, SafetyInv', NEW i \in Incident, NEW manual \in BOOLEAN,
         Start(i, manual)
  PROVE  EffectsInv'
<1> DEFINE r == [NoIncident EXCEPT !.phase = "cloud", !.status = "active",
                   !.manual = manual, !.segments = 1, !.segment = 1,
                   !.expects = revision[i], !.version = slot[i].version]
           limit == IF manual THEN 1 ELSE MaxAttempts
           b == [used |-> 0, max |-> limit, exhausted |-> FALSE]
<1>1. /\ r.phase = "cloud" /\ r.status = "active" /\ r.attempts = 0
      /\ r.attempt = 0 /\ r.segments = 1 /\ r.segment = 1 /\ r.pending = 0
  BY DEF NoIncident
<1>2. limit \in Nat /\ 1 \in 1 .. MaxSegments /\ MaxRows \in Nat
  BY RotationAssumption
<1> HIDE DEF r, limit
<1>3. /\ inc' = [inc EXCEPT ![i] = r] /\ inc[i].phase = "none"
      /\ budget' = [budget EXCEPT ![i][1] = b]
      /\ UNCHANGED <<attempts, steps, lease, job, write>>
  BY Zenon DEF Start, r, limit
<1>4. /\ inc \in [Incident -> IncidentRow] /\ RowCounts(inc[i])
      /\ budget \in [Incident -> [1 .. MaxSegments -> SegmentRow]]
  BY RowFacts DEF EffectsInv, BudgetInv, EffectInv, SafetyInv, TypeInv, TypeOK
<1>5. RowsAreCounted'
  <2>1. RowCounts(r)
    BY <1>1, <1>2, RotationAssumption DEF RowCounts
  <2>2. ASSUME NEW o \in Incident PROVE RowCounts(inc'[o])
    BY <1>3, <1>4, <2>1, RowFacts
  <2>3. QED BY <2>2 DEF RowsAreCounted
<1>6. EffectInv'
  <2>1. AttemptsMove
    BY <1>1, <1>3, <1>4 DEF AttemptsMove
  <2>2. StepsMove /\ AnswersMove /\ CallsKept
    BY <1>3, CallsSame DEF StepsMove, StepMoves, AnswersMove
  <2>3. QED BY <1>5, <2>1, <2>2, EffectsKept DEF EffectsInv, BudgetInv
<1>7. ASSUME NEW o \in Incident PROVE AccountsHold(o)'
  <2>1. CASE o = i
    <3>1. inc[i].attempts = 0
      BY <1>3, <1>4 DEF RowCounts
    <3>2. /\ inc'[i].attempts = 0 /\ inc'[i].segments = 1 /\ budget'[i][1] = b
          /\ \A c \in 1 .. MaxSegments : c # 1 => budget'[i][c] = budget[i][c]
      BY <1>1, <1>2, <1>3, <1>4
    <3>3. b.used = 0 /\ b.max \in Nat
      BY <1>2
    <3>4. QED BY <1>2, <1>3, <2>1, <3>1, <3>2, <3>3, AccountsGrow DEF EffectsInv
  <2>2. CASE o # i
    <3>1. inc'[o] = inc[o] /\ budget'[o] = budget[o]
      BY <1>3, <1>4, <2>2
    <3>2. QED BY <1>3, <3>1, AccountsStay DEF EffectsInv
  <2>3. QED BY <2>1, <2>2
<1>8. EffectsAreCharged'
  BY <1>3, CallsSame, EffectsStayCharged DEF EffectsInv
<1>9. PlanOwnsInstance'
  BY <1>1, <1>3, <1>4 DEF EffectsInv, PlanOwnsInstance, Ongoing, HasAttempt
<1>10. QED BY <1>6, <1>7, <1>8, <1>9 DEF EffectsInv, BudgetInv

LEMMA ResumeKeeps ==
  ASSUME EffectsInv, SafetyInv', NEW i \in Incident, Resume(i)
  PROVE  /\ EffectsInv'
         /\ \E row : /\ inc' = [inc EXCEPT ![i] = row]
                     /\ row.phase = inc[i].phase /\ row.attempts = inc[i].attempts
<1> DEFINE new == inc[i].segments + 1
           n == IF inc[i].phase = "cloud" /\ ~Continuing(i)
                THEN 0 ELSE inc[i].attempt
           r == [inc[i] EXCEPT
                   !.status = "active", !.userPaused = FALSE, !.error = "none",
                   !.recoveries = 0, !.retry = "none", !.attempt = n,
                   !.expects = revision[i], !.version = slot[i].version,
                   !.pending = 0]
           q == [r EXCEPT !.segments = new, !.pending = new]
           t == [r EXCEPT !.segments = new, !.segment = new]
           b == [used |-> 0, max |-> MaxAttempts, exhausted |-> FALSE]
           p == [k \in StepNo |->
                   IF steps[i][k].status \in {"rejected", "not_applied"}
                   THEN Reprepared(steps[i][k]) ELSE steps[i][k]]
<1>1. /\ inc \in [Incident -> IncidentRow] /\ inc[i] \in IncidentRow
      /\ RowCounts(inc[i]) /\ RowOk(inc[i]) /\ inc[i].phase # "none"
      /\ inc[i].status \notin {"none", "complete"}
      /\ budget \in [Incident -> [1 .. MaxSegments -> SegmentRow]]
      /\ steps \in [Incident -> [StepNo -> StepRow]]
  BY RowFacts DEF Resume, Ongoing, RowOk, EffectsInv, BudgetInv, EffectInv,
     SafetyInv, TypeInv, TypeOK
<1>2. /\ inc[i].attempt \in Nat /\ inc[i].attempts \in Nat /\ inc[i].segments \in Nat
      /\ inc[i].segment \in Nat /\ inc[i].pending \in Nat /\ n \in {inc[i].attempt, 0}
      /\ inc[i].phase = "cloud" /\ n # 0 => HasPlan(inc[i])
  BY <1>1 DEF IncidentRow, HasPlan, HasAttempt
<1>3. /\ r.phase = inc[i].phase /\ r.status = "active" /\ r.attempt = n
      /\ r.attempts = inc[i].attempts /\ r.pending = 0
      /\ r.segments = inc[i].segments /\ r.segment = inc[i].segment
      /\ r.terminated = inc[i].terminated
  BY <1>1 DEF IncidentRow
<1>4. /\ q.phase = r.phase /\ q.status = r.status /\ q.attempt = r.attempt
      /\ q.attempts = r.attempts /\ q.segments = new /\ q.pending = new
      /\ q.segment = r.segment
      /\ t.phase = r.phase /\ t.status = r.status /\ t.attempt = r.attempt
      /\ t.attempts = r.attempts /\ t.segments = new /\ t.pending = r.pending
      /\ t.segment = new
  BY <1>1 DEF IncidentRow
<1> HIDE DEF q, t, r, n
<1>5. \/ inc[i].manual /\ inc' = [inc EXCEPT ![i] = r] /\ UNCHANGED budget
      \/ /\ inc' = [inc EXCEPT ![i] = IF Continuing(i) THEN q ELSE t]
         /\ budget' = [budget EXCEPT ![i][new] = b]
         /\ inc[i].segments < MaxSegments
  BY Zenon DEF Resume, r, q, t, n, new, b
<1>6. PICK row \in {r, q, t} : inc' = [inc EXCEPT ![i] = row]
  BY <1>5
<1>7. /\ row.phase = inc[i].phase /\ row.status = "active" /\ row.attempt = n
      /\ row.attempts = inc[i].attempts
  BY <1>3, <1>4, <1>6
<1>8. UNCHANGED <<attempts, lease, job, write>> /\ CallsKept /\ AnswersMove
  BY CallsSame DEF Resume, AnswersMove
<1>9. RowsAreCounted'
  <2>1. RowCounts(row)
    <3>1. MaxSegments \in Nat /\ MaxRows \in Nat
      BY RotationAssumption
    <3>2. CASE inc[i].manual /\ inc' = [inc EXCEPT ![i] = r]
      <4>1. row = r
        BY <1>1, <1>6, <3>2
      <4>2. QED BY <1>1, <1>2, <1>3, <3>1, <4>1 DEF RowCounts
    <3>3. CASE inc[i].segments < MaxSegments /\ row \in {q, t}
      BY <1>1, <1>2, <1>3, <1>4, <3>1, <3>3 DEF RowCounts
    <3>4. QED BY <1>1, <1>5, <1>6, <3>2, <3>3
  <2>2. ASSUME NEW o \in Incident PROVE RowCounts(inc'[o])
    BY <1>1, <1>6, <2>1, RowFacts
  <2>3. QED BY <2>2 DEF RowsAreCounted
<1>10. StepsMove
  <2>1. ASSUME NEW k \in StepNo
        PROVE  /\ p[k].fence = steps[i][k].fence
               /\ p[k].status \in Idle => steps[i][k].status \in Idle
               /\ p[k].status = "applied" => steps[i][k].status = "applied"
    <3>1. steps[i][k] \in StepRow
      BY <1>1
    <3>2. /\ Reprepared(steps[i][k]).fence = steps[i][k].fence
          /\ Reprepared(steps[i][k]).status = "prepared"
      BY <3>1 DEF Reprepared, StepRow
    <3>3. QED BY <3>2 DEF Idle
  <2> HIDE DEF p
  <2>2. steps' \in {steps, [steps EXCEPT ![i] = p]}
    BY Zenon DEF Resume, p
  <2>3. QED BY <1>1, <2>1, <2>2 DEF StepsMove, StepMoves
<1>11. EffectInv'
  <2>1. AttemptsMove
    BY <1>1, <1>2, <1>6, <1>7 DEF AttemptsMove
  <2>2. QED BY <1>8, <1>9, <1>10, <2>1, EffectsKept DEF EffectsInv, BudgetInv
<1>12. ASSUME NEW o \in Incident PROVE AccountsHold(o)'
  <2>1. CASE o = i /\ row # r
    <3>1. /\ row \in {q, t} /\ budget' = [budget EXCEPT ![i][new] = b]
          /\ inc[i].segments < MaxSegments
      BY <1>1, <1>5, <1>6, <2>1
    <3>2. inc'[i].segments = new /\ inc'[i].attempts = inc[i].attempts
      BY <1>1, <1>4, <1>6, <1>7, <3>1
    <3>3. new \in 1 .. MaxSegments
      BY <1>2, <3>1, RotationAssumption
    <3>4. /\ budget'[i][new] = b
          /\ \A c \in 1 .. MaxSegments : c # new => budget'[i][c] = budget[i][c]
      BY <1>1, <3>1, <3>3
    <3>5. b.used = 0 /\ b.max \in Nat
      BY RotationAssumption
    <3>6. new - 1 = inc[i].segments
      BY <1>2
    <3>7. \A m \in 1 .. inc[i].attempts : attempts[i][m].segment \in 1 .. new - 1
      BY <3>6 DEF EffectsInv, BudgetInv, AccountsHold
    <3>8. QED BY <1>8, <2>1, <3>2, <3>3, <3>4, <3>5, <3>6, <3>7, AccountsGrow
              DEF EffectsInv
  <2>2. CASE o = i /\ row = r
    <3>1. UNCHANGED budget
      BY <1>1, <1>2, <1>3, <1>4, <1>5, <1>6, <2>2
    <3>2. inc'[i].segments = inc[i].segments /\ inc'[i].attempts = inc[i].attempts
      BY <1>1, <1>3, <1>6, <2>2
    <3>3. QED BY <1>8, <2>2, <3>1, <3>2, AccountsStay DEF EffectsInv
  <2>3. CASE o # i
    <3>1. inc'[o] = inc[o] /\ budget'[o] = budget[o]
      BY <1>1, <1>5, <2>3
    <3>2. QED BY <1>8, <3>1, AccountsStay DEF EffectsInv
  <2>4. QED BY <2>1, <2>2, <2>3
<1>13. EffectsAreCharged'
  BY <1>8, EffectsStayCharged DEF EffectsInv
<1>14. PlanOwnsInstance'
  <2> SUFFICES ASSUME NEW o \in Incident, HasPlan(inc'[o])
               PROVE  lease'.incident = o
    BY DEF PlanOwnsInstance, HasPlan, Ongoing
  <2>1. HasPlan(inc[o])
    <3>1. CASE o = i
      BY <1>1, <1>2, <1>6, <1>7, <3>1 DEF HasPlan, HasAttempt
    <3>2. CASE o # i
      BY <1>1, <1>6, <3>2
    <3>3. QED BY <3>1, <3>2
  <2>2. QED BY <1>8, <2>1 DEF EffectsInv, PlanOwnsInstance, HasPlan, Ongoing
<1>15. EffectsInv'
  BY <1>11, <1>12, <1>13, <1>14 DEF EffectsInv, BudgetInv
<1>16. QED BY <1>6, <1>7, <1>15

LEMMA UserMoves ==
  ASSUME EffectsInv, UserStep
  PROVE  \/ Moves
         \/ \E i \in Incident : Resume(i) \/ \E manual \in BOOLEAN : Start(i, manual)
<1>1. ASSUME NEW i \in Incident, Pause(i) PROVE Moves
  <2> DEFINE r == [inc[i] EXCEPT !.status = "paused", !.userPaused = TRUE,
                                 !.error = "none"]
  <2>1. inc[i] \in IncidentRow /\ inc[i].status \notin {"none", "complete"}
    BY <1>1, RowFacts DEF Pause, Ongoing
  <2>2. RowKeeps(inc[i], r)
    BY <2>1 DEF RowKeeps, HasPlan, HasAttempt, IncidentRow
  <2> HIDE DEF r
  <2>3. inc' = [inc EXCEPT ![i] = r]
    BY <1>1, Zenon DEF Pause, r
  <2>4. RowsKeep
    BY <2>2, <2>3, RowsKeepAt DEF EffectsInv, BudgetInv, EffectInv
  <2>5. QED BY <1>1, <2>4, RowMovesOnly DEF Pause, OwnerMoves
<1>2. ASSUME NEW i \in Incident, Terminate(i) PROVE Moves
  <2> DEFINE r == [inc[i] EXCEPT !.status = "complete", !.terminated = TRUE,
                                 !.userPaused = TRUE, !.error = "none"]
  <2>1. inc[i] \in IncidentRow /\ inc[i].status \notin {"none", "complete"}
        /\ inc \in [Incident -> IncidentRow]
    BY <1>2, RowFacts DEF Terminate, Ongoing
  <2>2. RowKeeps(inc[i], r) /\ ~HasPlan(r)
    BY <2>1 DEF RowKeeps, HasPlan, HasAttempt, IncidentRow
  <2> HIDE DEF r
  <2>3. inc' = [inc EXCEPT ![i] = r]
    BY <1>2, Zenon DEF Terminate, r
  <2>4. RowsKeep
    BY <2>2, <2>3, RowsKeepAt DEF EffectsInv, BudgetInv, EffectInv
  <2>5. lease'.incident # lease.incident => lease.incident = i
    BY <1>2 DEF Terminate
  <2>6. OwnerMoves
    BY <2>1, <2>2, <2>3, <2>5 DEF OwnerMoves
  <2>7. QED BY <1>2, <2>4, <2>6, RowMovesOnly DEF Terminate
<1>3. ASSUME NEW i \in Incident, AuthorizationChanges(i) PROVE Moves
  BY <1>3, RowsKeepSame, RowMovesOnly DEF AuthorizationChanges, OwnerMoves
<1>4. ASSUME NEW i \in Incident, Promote(i) PROVE Moves
  <2> DEFINE r == [inc[i] EXCEPT !.error = "none", !.retry = "none"]
  <2>1. inc[i] \in IncidentRow /\ lease \in LeaseRow
    BY RowFacts
  <2>2. RowKeeps(inc[i], r)
    BY <2>1 DEF RowKeeps, HasPlan, HasAttempt, IncidentRow
  <2> HIDE DEF r
  <2>3. inc' = [inc EXCEPT ![i] = r]
    BY <1>4, Zenon DEF Promote, r
  <2>4. RowsKeep
    BY <2>2, <2>3, RowsKeepAt DEF EffectsInv, BudgetInv, EffectInv
  <2>5. OwnerMoves
    BY <1>4, <2>1 DEF Promote, OwnerMoves, LeaseRow
  <2>6. QED BY <1>4, <2>4, <2>5, RowMovesOnly DEF Promote
<1>5. ASSUME NEW i \in Incident, PublicationFails(i) PROVE Moves
  <2>1. inc[i] \in IncidentRow /\ inc[i].status # "none"
    BY <1>5, RowFacts DEF PublicationFails, Ongoing
  <2>2. PICK code \in {"recoverable", "throttled"} :
          inc' = [inc EXCEPT ![i] = ScheduleRecovery(inc[i], code)]
    BY <1>5 DEF PublicationFails
  <2>3. RowsKeep
    BY <2>1, <2>2, ScheduleRecoveryKeeps, RowsKeepAt
       DEF EffectsInv, BudgetInv, EffectInv
  <2>4. QED BY <1>5, <2>3, RowMovesOnly DEF PublicationFails, OwnerMoves
<1>6. ASSUME NEW i \in Incident, CompleteIncident(i) PROVE Moves
  <2> DEFINE r == [inc[i] EXCEPT !.phase = "complete", !.status = "complete",
                                 !.error = "none"]
  <2>1. /\ inc[i] \in IncidentRow /\ inc \in [Incident -> IncidentRow]
        /\ lease \in LeaseRow
        /\ inc[i].phase = "publish" /\ ~inc[i].terminated
    BY <1>6, RowFacts DEF CompleteIncident, Ongoing, RowOk
  <2>2. RowKeeps(inc[i], r) /\ ~HasPlan(r)
    BY <2>1 DEF RowKeeps, HasPlan, HasAttempt, IncidentRow
  <2> HIDE DEF r
  <2>3. inc' = [inc EXCEPT ![i] = r]
    BY <1>6, Zenon DEF CompleteIncident, r
  <2>4. RowsKeep
    BY <2>2, <2>3, RowsKeepAt DEF EffectsInv, BudgetInv, EffectInv
  <2>5. lease'.incident # lease.incident => lease.incident = i
    BY <1>6 DEF CompleteIncident
  <2>6. OwnerMoves
    BY <2>1, <2>2, <2>3, <2>5 DEF OwnerMoves
  <2>7. QED BY <1>6, <2>4, <2>6, RowMovesOnly DEF CompleteIncident
<1>7. ASSUME Reset PROVE Moves
  <2>1. ASSUME NEW i \in Incident
        PROVE  RowKeeps(inc[i], inc'[i]) /\ ~HasPlan(inc'[i])
    <3> DEFINE r == [inc[i] EXCEPT !.status = "complete", !.terminated = TRUE,
                                   !.error = "reset", !.retry = "none"]
    <3>1. inc[i] \in IncidentRow /\ RowOk(inc[i])
      BY RowFacts
    <3>2. RowKeeps(inc[i], r) /\ ~HasPlan(r)
      BY <3>1 DEF RowKeeps, HasPlan, HasAttempt, IncidentRow
    <3> HIDE DEF r
    <3>3. inc'[i] = IF inc[i].phase = "none" THEN inc[i] ELSE r
      BY <1>7 DEF Reset, r
    <3>4. QED BY <3>1, <3>2, <3>3, SameRowKeeps DEF RowOk, HasPlan
  <2>2. RowsKeep /\ OwnerMoves
    BY <2>1 DEF RowsKeep, OwnerMoves
  <2>3. StepsMove
    <3> SUFFICES ASSUME NEW i \in Incident, NEW k \in StepNo
                 PROVE  StepMoves(i, k)
      BY DEF StepsMove
    <3>1. steps[i][k] \in StepRow
      BY DEF EffectsInv, BudgetInv, EffectInv, SafetyInv, TypeInv, TypeOK
    <3>2. \/ steps'[i][k] = steps[i][k]
          \/ steps'[i][k] = [steps[i][k] EXCEPT !.status = "abandoned"]
      BY <1>7 DEF Reset
    <3>3. QED BY <3>1, <3>2 DEF StepMoves, StepRow, Idle
  <2>4. UNCHANGED <<attempts, budget, job, write>>
    BY <1>7 DEF Reset
  <2>5. QED BY <2>2, <2>3, <2>4, CallsSame DEF Moves, AnswersMove, BudgetKept
<1>8. QED
  BY <1>1, <1>2, <1>3, <1>4, <1>5, <1>6, <1>7, Zenon DEF UserStep

LEMMA TimeKeeps ==
  ASSUME EffectsInv, TimePasses
  PROVE  Moves
<1>1. ASSUME LeaseExpires PROVE Moves
  <2>1. lease'.incident = lease.incident
    BY <1>1, RowFacts DEF LeaseExpires, EffectsInv, BudgetInv, EffectInv,
       SafetyInv, TypeInv, TypeOK, LeaseRow
  <2>2. QED BY <1>1, <2>1, RowsKeepSame, RowMovesOnly DEF LeaseExpires, OwnerMoves
<1>2. ASSUME NEW i \in Incident, RetryFallsDue(i) PROVE Moves
  <2> DEFINE r == [inc[i] EXCEPT !.retry = "due"]
  <2>1. inc[i] \in IncidentRow
    BY RowFacts
  <2>2. RowKeeps(inc[i], r)
    BY <2>1 DEF RowKeeps, HasPlan, HasAttempt, IncidentRow
  <2> HIDE DEF r
  <2>3. inc' = [inc EXCEPT ![i] = r]
    BY <1>2, Zenon DEF RetryFallsDue, r
  <2>4. RowsKeep
    BY <2>2, <2>3, RowsKeepAt DEF EffectsInv, BudgetInv, EffectInv
  <2>5. QED BY <1>2, <2>4, RowMovesOnly DEF RetryFallsDue, OwnerMoves
<1>3. QED BY <1>1, <1>2, Zenon DEF TimePasses

LEMMA CloudKeeps ==
  ASSUME EffectsInv, NEW f \in Fence, CloudApplies(f) \/ CloudFails(f)
  PROVE  Moves
<1>1. write \in [Fence -> WriteState] /\ write[f].effect = "open"
  BY DEF EffectsInv, BudgetInv, EffectInv, SafetyInv, TypeInv, TypeOK,
     CloudApplies, CloudFails
<1>2. CallsKept
  <2>1. \/ write' = [write EXCEPT ![f] = [write[f] EXCEPT !.effect = "applied"]]
        \/ write' = [write EXCEPT ![f] = [write[f] EXCEPT !.effect = "none"]]
    BY Zenon DEF CloudApplies, CloudFails
  <2>2. QED BY <1>1, <2>1 DEF CallsKept, WriteState
<1>3. UNCHANGED <<inc, attempts, steps, budget, lease, job>>
  BY DEF CloudApplies, CloudFails
<1>4. QED BY <1>2, <1>3, RowsKeepSame, QuietMoves DEF AnswersMove, OwnerMoves

LEMMA ClaimForeignKeeps ==
  ASSUME EffectsInv, NEW i \in Incident, ClaimForeign(i)
  PROVE  Moves
<1>1. lease'.incident = lease.incident
  BY DEF ClaimForeign, EffectsInv, BudgetInv, EffectInv, SafetyInv, TypeInv,
     TypeOK, LeaseRow
<1>2. QED BY <1>1, RowsKeepSame, RowMovesOnly DEF ClaimForeign, OwnerMoves

-----------------------------------------------------------------------------
(* Receipts, observations and rejections.                                  *)

LEMMA ResolvedKeeps ==
  ASSUME NEW l \in LeaseRow, NEW i, NEW k
  PROVE  Resolved(l, i, k).incident = l.incident
BY DEF Resolved, LeaseRow

\* A receipt is taken at its word, and the candidate it installs ends the plan.
LEMMA StoreReceiptMoves ==
  ASSUME EffectsInv, NEW i \in Incident, NEW k \in StepNo, NEW f \in Fence,
         NEW result \in Receipt, NEW conflict \in BOOLEAN, NEW l,
         inc[i].phase # "none", steps[i][k].fence = f,
         result = "applied" => write[f].effect = "applied",
         result = "not_applied" => write[f].effect = "none",
         StoreReceipt(i, k, result, conflict, l), CallsKept,
         lease'.incident = l.incident
  PROVE  RowsKeep /\ StepsMove /\ OwnerMoves
<1> DEFINE s == steps[i][k]
           status == ReceiptStatus(s, result, conflict)
           r == ReceiptRow(inc[i], status)
           settled == IF status \in {"applied", "not_applied"}
                      THEN Resolved(lease, i, k) ELSE lease
           complete == /\ status = "applied" /\ inc[i].phase = "cloud"
                       /\ \A m \in StepNo \ {k} : steps[i][m].status = "applied"
<1>0. /\ RowOk(inc[i]) /\ inc[i] \in IncidentRow /\ inc[i].status # "none"
      /\ inc \in [Incident -> IncidentRow] /\ lease \in LeaseRow /\ SafetyInv
  BY RowFacts DEF EffectsInv, BudgetInv, EffectInv
<1>1. settled.incident = lease.incident
  BY <1>0, ResolvedKeeps
<1>2. ASSUME ~inc[i].terminated
      PROVE  RowKeeps(inc[i], r) /\ RowKeeps(inc[i], PauseIn(r, "other"))
  <2>1. RowKeeps(inc[i], r) /\ r \in IncidentRow
    BY <1>0, <1>2, ReceiptRowFacts, ReceiptRowType
  <2> HIDE DEF r
  <2>2. RowKeeps(r, PauseIn(r, "other"))
    BY <1>0, <2>1, PauseInKeeps DEF RowKeeps
  <2>3. QED BY <2>1, <2>2, RowKeepsTwice
<1>3. ASSUME ~inc[i].terminated, complete
      PROVE  RowKeeps(inc[i], Installed(i, r)) /\ ~HasPlan(Installed(i, r))
  <2>1. r \in IncidentRow /\ ~r.terminated /\ r.phase = "cloud"
    BY <1>0, <1>3, ReceiptRowKeeps, ReceiptRowType
  <2>2. RowKeeps(inc[i], r)
    BY <1>2, <1>3
  <2> HIDE DEF r
  <2>3. QED BY <2>1, <2>2, InstalledKeeps, RowKeepsTwice
<1>4. StepsMove
  <2> DEFINE n == [steps[i][k] EXCEPT !.status = status, !.receipt = TRUE]
  <2>1. steps \in [Incident -> [StepNo -> StepRow]] /\ steps[i][k] \in StepRow
    BY <1>0 DEF SafetyInv, TypeInv, TypeOK
  <2>2. n.fence = f /\ n.status = status /\ f # 0
    BY <2>1 DEF StepRow, Fence
  <2>3. /\ status \in Idle => result = "not_applied"
        /\ status = "applied" => s.status = "applied" \/ result = "applied"
    BY DEF ReceiptStatus, Receipt, Idle
  <2>4. /\ result = "applied" => write'[f].effect = "applied"
        /\ result = "not_applied" => write'[f].effect = "none"
    BY DEF CallsKept
  <2> HIDE DEF n, status
  <2>5. steps' = [steps EXCEPT ![i][k] = n]
    BY Zenon DEF StoreReceipt, n, status
  <2>6. steps'[i][k] = n
    BY <2>1, <2>5
  <2>7. StepMoves(i, k)
    BY <2>2, <2>3, <2>4, <2>6 DEF StepMoves
  <2>8. ASSUME NEW o \in Incident, NEW m \in StepNo, ~(o = i /\ m = k)
        PROVE  StepMoves(o, m)
    <3>1. steps'[o][m] = steps[o][m]
      BY <2>1, <2>5, <2>8
    <3>2. QED BY <3>1 DEF StepMoves
  <2>9. QED BY <2>7, <2>8 DEF StepsMove
<1> HIDE DEF status, r, settled, complete
<1>5. \/ l \in {lease, settled} /\ inc' = inc
      \/ /\ l \in {lease, settled} /\ ~inc[i].terminated
         /\ \/ inc' = [inc EXCEPT ![i] = r]
            \/ inc' = [inc EXCEPT ![i] = PauseIn(r, "other")]
      \/ /\ ~inc[i].terminated /\ complete
         /\ inc' = [inc EXCEPT ![i] = Installed(i, r)]
         /\ l = IF settled.incident = i
                THEN [settled EXCEPT !.incident = None] ELSE settled
  BY Zenon DEF StoreReceipt, status, r, settled, complete
<1>6. RowsKeep
  BY <1>0, <1>2, <1>3, <1>5, RowsKeepAt, RowsKeepSame
<1>7. OwnerMoves
  <2>1. CASE l \in {lease, settled}
    BY <1>1, <2>1 DEF OwnerMoves
  <2>2. CASE /\ ~inc[i].terminated /\ complete
             /\ inc' = [inc EXCEPT ![i] = Installed(i, r)]
             /\ l = IF settled.incident = i
                    THEN [settled EXCEPT !.incident = None] ELSE settled
    <3>1. inc'[i] = Installed(i, r)
      BY <1>0, <2>2
    <3>2. ~HasPlan(inc'[i])
      BY <1>3, <2>2, <3>1
    <3>3. CASE settled.incident = i
      BY <1>1, <3>2, <3>3 DEF OwnerMoves
    <3>4. CASE settled.incident # i
      BY <1>1, <2>2, <3>4 DEF OwnerMoves
    <3>5. QED BY <3>3, <3>4
  <2>3. QED BY <1>5, <2>1, <2>2
<1>8. QED BY <1>4, <1>6, <1>7

LEMMA SaveReceiptMoves ==
  ASSUME EffectsInv, NEW i \in Incident, NEW k \in StepNo, NEW f \in Fence,
         NEW result \in Receipt, NEW l,
         inc[i].phase # "none",
         result = "applied" => write[f].effect = "applied",
         result = "not_applied" => write[f].effect = "none",
         SaveReceipt(i, k, f, result, l), CallsKept, AnswersMove,
         lease'.incident = l.incident, UNCHANGED <<attempts, budget>>
  PROVE  Moves
<1>1. CASE l = lease /\ UNCHANGED <<inc, steps, slot>>
  BY <1>1, RowsKeepSame, QuietMoves DEF OwnerMoves
<1>2. CASE ~ReceiptIgnored(i, k, f)
           /\ \E conflict \in BOOLEAN : StoreReceipt(i, k, result, conflict, l)
  <2>1. RowsKeep /\ StepsMove /\ OwnerMoves
    BY <1>2, StoreReceiptMoves DEF ReceiptIgnored
  <2>2. QED BY <2>1 DEF Moves, BudgetKept
<1>3. QED BY <1>1, <1>2, Zenon DEF SaveReceipt

LEMMA RejectUncertainKeeps ==
  ASSUME EffectsInv, NEW i \in Incident, NEW n, NEW k, NEW f, NEW code,
         RejectUncertain(i, n, k, f, code)
  PROVE  RowsKeep
<1>1. \/ inc' = inc
      \/ inc' = [inc EXCEPT ![i] = [inc[i] EXCEPT !.error = ErrorOf(code)]]
  BY Zenon DEF RejectUncertain
<1>2. inc[i] \in IncidentRow
  BY RowFacts
<1>3. QED BY <1>1, <1>2, ErrorKeeps, RowsKeepAt, RowsKeepSame
          DEF EffectsInv, BudgetInv, EffectInv

\* The answers of the other jobs are left alone by one that ends or pauses.
LEMMA EndsAnswers ==
  ASSUME SafetyInv, NEW j \in Job, NEW l \in LeaseRow, Ends(j, l)
  PROVE  AnswersMove /\ lease'.incident = l.incident
<1>1. job \in [Job -> JobState] /\ IdleJob.pc # "observed"
  BY DEF SafetyInv, TypeInv, TypeOK, IdleJob
<1>2. job' = [job EXCEPT ![j] = IdleJob]
  BY DEF Ends
<1>3. AnswersMove
  BY <1>1, <1>2 DEF AnswersMove
<1>4. QED BY <1>3, EndsMoves

LEMMA GoPauseAnswers ==
  ASSUME SafetyInv, NEW j \in Job, NEW code, GoPause(j, code)
  PROVE  AnswersMove
<1>1. job \in [Job -> JobState]
  BY DEF SafetyInv, TypeInv, TypeOK
<1>2. job' = [job EXCEPT ![j] = [job[j] EXCEPT !.pc = "pausing", !.code = code]]
  BY Zenon DEF GoPause
<1>3. job'[j].pc = "pausing" /\ \A other \in Job \ {j} : job'[other] = job[other]
  BY <1>1, <1>2 DEF JobState
<1>4. QED BY <1>3 DEF AnswersMove

-----------------------------------------------------------------------------
(* The steps of the jobs that make no call and decide none.                *)

LEMMA JobFacts ==
  ASSUME EffectsInv, NEW j \in Job, job[j].pc # "idle"
  PROVE  /\ job[j].inc \in Incident /\ inc[job[j].inc] \in IncidentRow
         /\ RowOk(inc[job[j].inc]) /\ inc[job[j].inc].phase # "none"
         /\ inc[job[j].inc].status # "none"
         /\ RowCounts(inc[job[j].inc])
         /\ lease \in LeaseRow /\ job \in [Job -> JobState] /\ SafetyInv
BY JobRow, RowFacts DEF EffectsInv, BudgetInv, EffectInv, SafetyInv, TypeInv, TypeOK

\* A job that ends without a word to the lease.
LEMMA EndMoves ==
  ASSUME EffectsInv, NEW j \in Job, job[j].pc # "idle", Ends(j, lease), RowsKeep,
         CallsKept, UNCHANGED <<attempts, steps, budget>>
  PROVE  Moves
<1>1. AnswersMove /\ lease'.incident = lease.incident
  BY JobFacts, EndsAnswers
<1>2. QED BY <1>1, QuietMoves DEF OwnerMoves

LEMMA ClaimKeeps ==
  ASSUME EffectsInv, NEW j \in Job, NEW i \in Incident, Claim(j, i)
  PROVE  Moves
<1> DEFINE new == [IdleJob EXCEPT !.pc = "claimed", !.inc = i,
                                  !.fence = lease.revision + 1]
<1>1. job \in [Job -> JobState] /\ lease \in LeaseRow
  BY DEF EffectsInv, BudgetInv, EffectInv, SafetyInv, TypeInv, TypeOK
<1>2. new.pc = "claimed"
  BY DEF IdleJob
<1> HIDE DEF new
<1>3. job' = [job EXCEPT ![j] = new]
  BY Zenon DEF Claim, new
<1>4. AnswersMove
  BY <1>1, <1>2, <1>3 DEF AnswersMove
<1>5. lease'.incident = lease.incident
  BY <1>1 DEF Claim, LeaseRow
<1>6. CallsKept /\ RowsKeep
  BY CallsSame, RowsKeepSame DEF Claim
<1>7. QED BY <1>4, <1>5, <1>6, QuietMoves DEF Claim, OwnerMoves

LEMMA ReadKeeps ==
  ASSUME EffectsInv, NEW j \in Job, Read(j)
  PROVE  Moves
<1> DEFINE i == job[j].inc
           r == ReadRow(j, inc[i])
           p == ReadPlan(j, inc[i], steps[i])
<1>1. /\ i \in Incident /\ inc[i] \in IncidentRow /\ inc[i].status # "none"
      /\ job \in [Job -> JobState] /\ lease \in LeaseRow /\ SafetyInv
      /\ steps \in [Incident -> [StepNo -> StepRow]]
  BY JobFacts DEF Read, SafetyInv, TypeInv, TypeOK
<1>2. RowKeeps(inc[i], r)
  BY <1>1, ReadRowKeeps
<1>3. ASSUME NEW k \in StepNo
      PROVE  /\ p[k].fence = steps[i][k].fence
             /\ p[k].status \in Idle => steps[i][k].status \in Idle
             /\ p[k].status = "applied" => steps[i][k].status = "applied"
  <2>1. steps[i][k] \in StepRow /\ steps[i] \in [StepNo -> StepRow]
    BY <1>1
  <2>2. /\ Reprepared(steps[i][k]).fence = steps[i][k].fence
        /\ Reprepared(steps[i][k]).status = "prepared"
    BY <2>1 DEF Reprepared, StepRow
  <2>3. \/ p[k] = steps[i][k]
        \/ /\ p[k] = Reprepared(steps[i][k])
           /\ steps[i][k].status \in {"not_applied", "rejected"}
    BY DEF ReadPlan
  <2>4. QED BY <2>2, <2>3 DEF Idle
<1> HIDE DEF r, p
<1>4. inc' = [inc EXCEPT ![i] = r] /\ steps' = [steps EXCEPT ![i] = p]
  BY Zenon DEF Read, r, p
<1>5. RowsKeep
  BY <1>1, <1>2, <1>4, RowsKeepAt
<1>6. StepsMove
  BY <1>1, <1>3, <1>4 DEF StepsMove, StepMoves
<1>7. AnswersMove /\ lease'.incident = lease.incident
  <2>1. CASE Ends(j, lease)
    BY <1>1, <2>1, EndsAnswers
  <2>2. ASSUME NEW pc \in {"observing", "inspecting", "dispatching", "settling"},
               NEW k, NEW f, GoTo(j, pc, r.attempt, k, f), UNCHANGED lease
        PROVE  AnswersMove /\ lease'.incident = lease.incident
    <3>1. job' = [job EXCEPT ![j] = [job[j] EXCEPT
                    !.pc = pc, !.attempt = r.attempt, !.step = k, !.stepFence = f]]
      BY <2>2, Zenon DEF GoTo
    <3>2. job'[j].pc = pc /\ \A other \in Job \ {j} : job'[other] = job[other]
      BY <1>1, <3>1 DEF JobState
    <3>3. QED BY <2>2, <3>2 DEF AnswersMove
  <2>3. \/ Ends(j, lease)
        \/ \E pc \in {"observing", "inspecting", "dispatching", "settling"} :
             \E k, f : GoTo(j, pc, r.attempt, k, f) /\ UNCHANGED lease
    BY Zenon DEF Read, r, p
  <2>4. QED BY <2>1, <2>2, <2>3
<1>8. UNCHANGED <<attempts, budget, write>>
  BY DEF Read
<1>9. QED BY <1>5, <1>6, <1>7, <1>8, CallsSame DEF Moves, OwnerMoves, BudgetKept

LEMMA SettleKeeps ==
  ASSUME EffectsInv, NEW j \in Job, Settle(j)
  PROVE  Moves
<1> DEFINE i == job[j].inc
           r == inc[i]
           p == steps[i]
           published == [r EXCEPT !.phase = "publish", !.status = "active",
                                  !.error = "none"]
           completed == [r EXCEPT !.phase = "complete", !.status = "complete",
                                  !.error = "none"]
<1>1. /\ i \in Incident /\ r \in IncidentRow /\ RowOk(r) /\ r.phase # "none"
      /\ r.status # "none" /\ lease \in LeaseRow /\ SafetyInv
      /\ inc \in [Incident -> IncidentRow] /\ job[j].pc # "idle"
      /\ budget \in [Incident -> [1 .. MaxSegments -> SegmentRow]]
  BY JobFacts DEF Settle, SafetyInv, TypeInv, TypeOK
<1>2. CallsKept /\ StepsMove /\ UNCHANGED <<attempts, steps, write>>
  BY CallsSame DEF Settle, StepsMove, StepMoves
<1>3. ASSUME NEW row, RowKeeps(r, row), inc' = [inc EXCEPT ![i] = row],
             Ends(j, lease), BudgetKept
      PROVE  Moves
  <2>1. RowsKeep
    BY <1>1, <1>3, RowsKeepAt
  <2>2. AnswersMove /\ lease'.incident = lease.incident
    BY <1>1, <1>3, EndsAnswers
  <2>3. QED BY <1>2, <1>3, <2>1, <2>2 DEF Moves, OwnerMoves
<1>4. ASSUME NEW e \in Evidence, PublishDue(j, i, r, p, e)
      PROVE  ~r.terminated /\ r.phase \in {"cloud", "candidate"}
  BY <1>4 DEF PublishDue, WantsWrite, WantsAttempt, WantsStep, Admitted, Stopped, IsNext
<1>5. ASSUME NEW e \in Evidence, CompleteDue(j, i, r, p, e)
      PROVE  ~r.terminated /\ r.phase \in {"cloud", "candidate"}
  BY <1>5 DEF CompleteDue, WantsWrite, WantsAttempt, WantsStep, Admitted, Stopped, IsNext
<1>6. ASSUME ~r.terminated, r.phase \in {"cloud", "candidate"}
      PROVE  /\ RowKeeps(r, published) /\ RowKeeps(r, completed)
             /\ ~HasPlan(completed)
  BY <1>1, <1>6 DEF RowKeeps, HasPlan, HasAttempt, IncidentRow
<1> HIDE DEF published, completed, r, p
<1>7. ASSUME NEW e \in Evidence, PublishDue(j, i, r, p, e),
             inc' = [inc EXCEPT ![i] = published], Ends(j, lease), UNCHANGED budget
      PROVE  Moves
  BY <1>3, <1>4, <1>6, <1>7 DEF BudgetKept
<1>8. ASSUME NEW e \in Evidence, CompleteDue(j, i, r, p, e),
             inc' = [inc EXCEPT ![i] = completed], UNCHANGED budget,
             Ends(j, IF lease.incident = i
                     THEN [lease EXCEPT !.incident = None] ELSE lease)
      PROVE  Moves
  <2> DEFINE l == IF lease.incident = i
                  THEN [lease EXCEPT !.incident = None] ELSE lease
  <2>1. /\ l \in LeaseRow
        /\ l.incident # lease.incident => lease.incident = i
    BY <1>1 DEF LeaseRow
  <2> HIDE DEF l
  <2>2. Ends(j, l)
    BY <1>8 DEF l
  <2>3. AnswersMove /\ lease'.incident = l.incident
    BY <1>1, <2>1, <2>2, EndsAnswers
  <2>4. RowsKeep
    BY <1>1, <1>5, <1>6, <1>8, RowsKeepAt DEF r
  <2>5. ~HasPlan(inc'[i])
    BY <1>1, <1>5, <1>6, <1>8
  <2>6. QED BY <1>2, <1>8, <2>1, <2>3, <2>4, <2>5 DEF Moves, OwnerMoves, BudgetKept
<1>9. ASSUME NEW code \in Code, inc' = [inc EXCEPT ![i] = PauseIn(r, code)],
             Ends(j, lease),
             budget' \in {budget, [budget EXCEPT ![i][r.segment].exhausted = TRUE]}
      PROVE  Moves
  <2>1. BudgetKept
    <3>1. CASE budget' = budget
      BY <3>1 DEF BudgetKept
    <3>2. CASE budget' = [budget EXCEPT ![i][r.segment].exhausted = TRUE]
      <4>1. ASSUME NEW o \in Incident, NEW b \in 1 .. MaxSegments
            PROVE  budget'[o][b].used = budget[o][b].used
                   /\ budget'[o][b].max = budget[o][b].max
        <5>1. /\ budget[o][b] \in SegmentRow /\ budget[o] \in [1 .. MaxSegments -> SegmentRow]
              /\ budget[i] \in [1 .. MaxSegments -> SegmentRow]
          BY <1>1
        <5> DEFINE s == r.segment
        <5>2. budget'[o] = IF o = i
                THEN [budget[i] EXCEPT ![s] = [budget[i][s] EXCEPT !.exhausted = TRUE]]
                ELSE budget[o]
          BY <1>1, <3>2
        <5> HIDE DEF s
        <5>3. \/ budget'[o][b] = budget[o][b]
              \/ budget'[o][b] = [budget[o][b] EXCEPT !.exhausted = TRUE]
          BY <5>1, <5>2
        <5>4. QED BY <5>1, <5>3 DEF SegmentRow
      <4>2. QED BY <4>1 DEF BudgetKept
    <3>3. QED BY <1>9, <3>1, <3>2
  <2>2. RowKeeps(r, PauseIn(r, code))
    BY <1>1, PauseInKeeps
  <2>3. QED BY <1>3, <1>9, <2>1, <2>2
<1>10. ASSUME Ends(j, lease), UNCHANGED <<inc, budget>> PROVE Moves
  BY <1>1, <1>2, <1>10, EndMoves, RowsKeepSame
<1>11. QED
  BY <1>7, <1>8, <1>9, <1>10, Zenon DEF Settle, published, completed, r, p

LEMMA QuietJobKeeps ==
  ASSUME EffectsInv, NEW j \in Job,
         \/ PrepareRefused(j) \/ DispatchRefused(j) \/ Throws(j)
         \/ PauseAfterError(j) \/ ObserveFails(j) \/ ExecuteUncertain(j) \/ Crash(j)
  PROVE  Moves
<1> DEFINE i == job[j].inc
<1>0. SafetyInv /\ job \in [Job -> JobState] /\ write \in [Fence -> WriteState]
  BY DEF EffectsInv, BudgetInv, EffectInv, SafetyInv, TypeInv, TypeOK
<1>1. ASSUME PrepareRefused(j) PROVE Moves
  <2>1. job[j].pc # "idle" /\ Ends(j, lease) /\ UNCHANGED <<inc, attempts, steps, budget, write>>
    BY <1>1 DEF PrepareRefused
  <2>2. QED BY <2>1, RowsKeepSame, CallsSame, EndMoves
<1>2. ASSUME DispatchRefused(j) PROVE Moves
  <2>1. /\ job[j].pc # "idle" /\ Ends(j, lease)
        /\ UNCHANGED <<attempts, steps, budget, write>>
    BY <1>2 DEF DispatchRefused
  <2>2. \/ inc' = inc
        \/ inc' = [inc EXCEPT ![i] = [inc[i] EXCEPT !.error = "none"]]
    BY <1>2, Zenon DEF DispatchRefused
  <2>3. RowsKeep
    BY <1>0, <2>1, <2>2, JobFacts, ErrorKeeps, RowsKeepAt, RowsKeepSame
  <2>4. QED BY <2>1, <2>3, CallsSame, EndMoves
<1>3. ASSUME Throws(j) PROVE Moves
  <2>1. PICK code : GoPause(j, code)
    BY <1>3 DEF Throws
  <2>2. AnswersMove
    BY <1>0, <2>1, GoPauseAnswers
  <2>3. QED BY <1>3, <2>2, RowsKeepSame, CallsSame, QuietMoves DEF Throws, OwnerMoves
<1>4. ASSUME PauseAfterError(j) PROVE Moves
  <2>1. /\ job[j].pc # "idle" /\ Ends(j, lease)
        /\ UNCHANGED <<attempts, steps, budget, write>>
        /\ inc' = [inc EXCEPT ![i] = PauseIn(inc[i], job[j].code)]
    BY <1>4 DEF PauseAfterError
  <2>2. RowsKeep
    BY <1>0, <2>1, JobFacts, PauseInKeeps, RowsKeepAt
  <2>3. QED BY <2>1, <2>2, CallsSame, EndMoves
<1>5. ASSUME ObserveFails(j) PROVE Moves
  <2>1. PICK code \in {"recoverable", "throttled", "other"} :
          /\ RejectUncertain(i, job[j].attempt, job[j].step, job[j].stepFence, code)
          /\ \/ Ends(j, lease)
             \/ GoPause(j, code) /\ UNCHANGED lease
    BY <1>5, Zenon DEF ObserveFails
  <2>2. job[j].pc # "idle" /\ UNCHANGED <<attempts, steps, budget, write>>
    BY <1>5 DEF ObserveFails
  <2>3. RowsKeep
    BY <2>1, <2>2, JobFacts, RejectUncertainKeeps
  <2>4. AnswersMove /\ lease'.incident = lease.incident
    BY <1>0, <2>1, <2>2, JobFacts, EndsAnswers, GoPauseAnswers
  <2>5. QED BY <2>2, <2>3, <2>4, CallsSame, QuietMoves DEF OwnerMoves
<1>6. ASSUME ExecuteUncertain(j) PROVE Moves
  <2> DEFINE f == job[j].fence
  <2>1. /\ job[j].pc = "executing" /\ Ends(j, lease)
        /\ UNCHANGED <<attempts, steps, budget>>
        /\ RejectUncertain(i, job[j].attempt, job[j].step, f, "recoverable")
        /\ write' \in {write, [write EXCEPT ![f] = [write[f] EXCEPT !.late = TRUE]]}
    BY <1>6 DEF ExecuteUncertain
  <2>2. f \in Fence /\ write[f].inc # None
    BY <1>0, <2>1, RotationAssumption
       DEF SafetyInv, JobsAreFenced, JobIsFenced, CallsAreFenced, Fence, TypeInv,
           TypeOK, LeaseRow
  <2>3. CallsKept
    <3>1. CASE write' = [write EXCEPT ![f] = [write[f] EXCEPT !.late = TRUE]]
      <4>1. /\ write'[f].inc = write[f].inc /\ write'[f].step = write[f].step
            /\ write'[f].attempt = write[f].attempt
            /\ write'[f].effect = write[f].effect
        BY <1>0, <2>2, <3>1 DEF WriteState
      <4>2. \A g \in Fence \ {f} : write'[g] = write[g]
        BY <1>0, <3>1
      <4>3. QED BY <2>2, <4>1, <4>2 DEF CallsKept
    <3>2. QED BY <2>1, <3>1, CallsSame
  <2>4. RowsKeep
    BY <2>1, JobFacts, RejectUncertainKeeps
  <2>5. QED BY <2>1, <2>3, <2>4, EndMoves
<1>7. ASSUME Crash(j) PROVE Moves
  <2>1. AnswersMove
    BY <1>0, <1>7 DEF Crash, AnswersMove, IdleJob
  <2>2. CallsKept
    <3>1. ASSUME NEW f \in Fence
          PROVE  \/ write'[f] = write[f]
                 \/ write'[f] = [write[f] EXCEPT !.late = FALSE]
      BY <1>7 DEF Crash
    <3>2. ASSUME NEW f \in Fence
          PROVE  /\ write'[f].inc = write[f].inc /\ write'[f].step = write[f].step
                 /\ write'[f].attempt = write[f].attempt
                 /\ write'[f].effect = write[f].effect
                 /\ write'[f].late => write[f].late
      <4>1. write[f] \in WriteState
        BY <1>0
      <4>2. QED BY <3>1, <4>1 DEF WriteState
    <3>3. QED BY <3>2 DEF CallsKept
  <2>3. QED BY <1>7, <2>1, <2>2, RowsKeepSame, QuietMoves DEF Crash, OwnerMoves
<1>8. QED BY <1>1, <1>2, <1>3, <1>4, <1>5, <1>6, <1>7, Zenon

\* An observation says what the cloud has done.
LEMMA ObserveKeeps ==
  ASSUME EffectsInv, NEW j \in Job, Observe(j)
  PROVE  Moves
<1>1. PICK result \in Observations(job[j].stepFence) :
        job' = [job EXCEPT ![j] = [job[j] EXCEPT !.pc = "observed",
                                                 !.result = result]]
  BY Zenon DEF Observe
<1>2. job \in [Job -> JobState] /\ UNCHANGED write
  BY DEF Observe, EffectsInv, BudgetInv, EffectInv, SafetyInv, TypeInv, TypeOK
<1>3. /\ job'[j].pc = "observed" /\ job'[j].result = result
      /\ job'[j].stepFence = job[j].stepFence
      /\ \A other \in Job \ {j} : job'[other] = job[other]
  BY <1>1, <1>2 DEF JobState
<1>4. /\ result = "applied" => write[job[j].stepFence].effect = "applied"
      /\ result = "not_applied" => write[job[j].stepFence].effect = "none"
  BY <1>1 DEF Observations
<1>5. AnswerHolds(j)'
  BY <1>2, <1>3, <1>4 DEF AnswerHolds
<1>6. AnswersMove
  BY <1>3, <1>5 DEF AnswersMove
<1>7. QED BY <1>6, RowsKeepSame, CallsSame, QuietMoves DEF Observe, OwnerMoves

LEMMA SaveObservationKeeps ==
  ASSUME EffectsInv, NEW j \in Job, SaveObservation(j)
  PROVE  Moves
<1> DEFINE i == job[j].inc
           k == job[j].step
           f == job[j].stepFence
<1>1. /\ job[j].pc = "observed" /\ CallsKept /\ UNCHANGED <<attempts, budget, write>>
  BY CallsSame DEF SaveObservation
<1>2. /\ i \in Incident /\ inc[i].phase # "none" /\ SafetyInv /\ lease \in LeaseRow
      /\ job \in [Job -> JobState]
  BY <1>1, JobFacts
<1>3. k \in StepNo /\ f \in Fence /\ job[j].result \in Receipt
  BY <1>1, <1>2 DEF SafetyInv, JobsAreFenced, AnswerIsTrue, TypeInv, JobsWork,
     AtStep, JobState, Receipt
<1>4. /\ job[j].result = "applied" => write[f].effect = "applied"
      /\ job[j].result = "not_applied" => write[f].effect = "none"
  BY <1>1 DEF EffectsInv, BudgetInv, EffectInv, AnswersHold, AnswerHolds
<1>5. CASE Ends(j, lease) /\ UNCHANGED <<inc, steps, slot>>
  BY <1>1, <1>5, RowsKeepSame, EndMoves
<1>6. ASSUME NEW l \in LeasesLeft(i, k), SaveReceipt(i, k, f, job[j].result, l),
             \/ Ends(j, l)
             \/ GoPause(j, "recoverable") /\ lease' = l
      PROVE  Moves
  <2>1. l \in LeaseRow
    BY <1>2, <1>6, LeaseLeft
  <2>2. AnswersMove /\ lease'.incident = l.incident
    BY <1>2, <1>6, <2>1, EndsAnswers, GoPauseAnswers
  <2>3. QED BY <1>1, <1>2, <1>3, <1>4, <1>6, <2>2, SaveReceiptMoves
<1>7. QED BY <1>5, <1>6, Zenon DEF SaveObservation, LeasesLeft

LEMMA ExecuteReturnsKeeps ==
  ASSUME EffectsInv, NEW j \in Job, ExecuteReturns(j)
  PROVE  Moves
<1> DEFINE i == job[j].inc
           k == job[j].step
           f == job[j].fence
<1>1. job[j].pc = "executing" /\ CallsKept /\ UNCHANGED <<attempts, budget, write>>
  BY CallsSame DEF ExecuteReturns
<1>2. i \in Incident /\ inc[i].phase # "none" /\ SafetyInv /\ lease \in LeaseRow
  BY <1>1, JobFacts
<1>3. k \in StepNo /\ f \in Fence
  BY <1>1, <1>2, RotationAssumption
     DEF SafetyInv, JobsAreFenced, JobIsFenced, CallsAreFenced, Fence, LeaseRow,
         TypeInv, JobsWork, AtStep
<1>4. "pending" \in Receipt
  BY DEF Receipt
<1>5. CASE GoPause(j, "recoverable") /\ UNCHANGED <<inc, steps, slot, lease>>
  BY <1>1, <1>2, <1>5, GoPauseAnswers, RowsKeepSame, QuietMoves DEF OwnerMoves
<1>6. ASSUME NEW l \in LeasesLeft(i, k), SaveReceipt(i, k, f, "pending", l), Ends(j, l)
      PROVE  Moves
  <2>1. l \in LeaseRow
    BY <1>2, <1>6, LeaseLeft
  <2>2. AnswersMove /\ lease'.incident = l.incident
    BY <1>2, <1>6, <2>1, EndsAnswers
  <2>3. QED BY <1>1, <1>2, <1>3, <1>4, <1>6, <2>2, SaveReceiptMoves
<1>7. QED BY <1>5, <1>6, Zenon DEF ExecuteReturns, LeasesLeft

LEMMA LateReceiptKeeps ==
  ASSUME EffectsInv, NEW f \in Fence, LateReceipt(f)
  PROVE  Moves
<1> DEFINE i == write[f].inc
           k == write[f].step
<1>1. i \in Incident /\ k \in StepNo /\ inc[i].phase # "none" /\ SafetyInv
      /\ write \in [Fence -> WriteState]
  BY DEF LateReceipt, EffectsInv, BudgetInv, EffectInv, SafetyInv, CallsAreFenced,
     TypeInv, TypeOK
<1>2. CallsKept
  <2>1. write' = [write EXCEPT ![f] = [write[f] EXCEPT !.late = FALSE]]
    BY Zenon DEF LateReceipt
  <2>2. QED BY <1>1, <2>1 DEF CallsKept, WriteState
<1>3. AnswersMove /\ UNCHANGED <<attempts, budget>>
  BY DEF LateReceipt, AnswersMove
<1>4. CASE UNCHANGED <<inc, steps, slot, lease>>
  BY <1>2, <1>3, <1>4, RowsKeepSame, QuietMoves DEF OwnerMoves
<1>5. CASE SaveReceipt(i, k, f, "pending", lease')
  BY <1>1, <1>2, <1>3, <1>5, SaveReceiptMoves DEF Receipt
<1>6. QED BY <1>4, <1>5, Zenon DEF LateReceipt

-----------------------------------------------------------------------------
(* A new attempt, a call, and its refusal.                                 *)

\* A new attempt has no calls yet.
LEMMA PrepareKeeps ==
  ASSUME EffectsInv, SafetyInv', NEW j \in Job, Prepare(j)
  PROVE  EffectsInv'
<1> DEFINE i == job[j].inc
           n == inc[i].attempts + 1
           r == [inc[i] EXCEPT !.phase = "cloud", !.status = "active",
                               !.error = "none", !.attempts = n, !.attempt = n]
           a == [segment |-> inc[i].segment, charged |-> FALSE]
           p == [k \in StepNo |-> NewStep]
           l == [lease EXCEPT !.incident = i]
<1>1. /\ i \in Incident /\ inc[i] \in IncidentRow /\ RowCounts(inc[i])
      /\ inc[i].phase # "none" /\ lease \in LeaseRow /\ SafetyInv
      /\ inc \in [Incident -> IncidentRow]
      /\ steps \in [Incident -> [StepNo -> StepRow]]
      /\ attempts \in [Incident -> [1 .. MaxRows -> AttemptRow]]
  BY JobFacts DEF Prepare, SafetyInv, TypeInv, TypeOK
<1>2. /\ inc[i].attempts \in Nat /\ inc[i].segments \in Nat /\ inc[i].segment \in Nat
      /\ MaxRows \in Nat /\ inc[i].attempts < MaxRows
  BY <1>1, RotationAssumption DEF Prepare, IncidentRow, RowCounts
<1>3. n \in 1 .. MaxRows /\ inc[i].segment \in 1 .. inc[i].segments
  BY <1>1, <1>2 DEF RowCounts
<1>4. /\ r.phase = "cloud" /\ r.status = "active" /\ r.attempts = n /\ r.attempt = n
      /\ r.segments = inc[i].segments /\ r.segment = inc[i].segment
      /\ r.pending = inc[i].pending
  BY <1>1 DEF IncidentRow
<1>5. l \in LeaseRow /\ l.incident = i
  BY <1>1 DEF LeaseRow
<1>6. NewStep.fence = 0 /\ NewStep.status = "prepared"
  BY DEF NewStep
<1> HIDE DEF r, l
<1>7. /\ inc' = [inc EXCEPT ![i] = r] /\ steps' = [steps EXCEPT ![i] = p]
      /\ attempts' = [attempts EXCEPT ![i][n] = a]
      /\ Ends(j, l) /\ lease.incident \in {None, i}
      /\ UNCHANGED <<budget, write>>
  BY Zenon DEF Prepare, r, l, n, a, p
<1>8. /\ inc'[i] = r /\ \A o \in Incident : o # i => inc'[o] = inc[o]
      /\ \A k \in StepNo : steps'[i][k] = NewStep
      /\ \A o \in Incident : o # i => steps'[o] = steps[o]
  BY <1>1, <1>7
<1>9. AnswersMove /\ lease'.incident = i /\ CallsKept
  BY <1>1, <1>5, <1>7, EndsAnswers, CallsSame
<1>10. \A o \in Incident : o # i => attempts'[o] = attempts[o]
  BY <1>1, <1>7
<1>11. /\ attempts'[i][n] = a
       /\ \A m \in 1 .. MaxRows : m # n => attempts'[i][m] = attempts[i][m]
  BY <1>1, <1>3, <1>7
<1>12. RowsAreCounted'
  <2>1. RowCounts(r)
    BY <1>1, <1>2, <1>3, <1>4 DEF RowCounts
  <2>2. ASSUME NEW o \in Incident PROVE RowCounts(inc'[o])
    BY <1>8, <2>1, RowFacts
  <2>3. QED BY <2>2 DEF RowsAreCounted
\* The calls of the incident belong to earlier attempts.
<1>13. ASSUME NEW f \in Fence, IsCurrent(f)'
       PROVE  IsCurrent(f) /\ write[f].inc # i /\ write[f].inc \in Incident
              /\ write[f].step \in StepNo
  <2>1. /\ write[f].effect # "none"
        /\ inc'[write[f].inc].attempt = write[f].attempt
    BY <1>7, <1>13 DEF IsCurrent
  <2>2. /\ write[f].inc \in Incident /\ write[f].step \in StepNo
        /\ write[f].attempt <= inc[write[f].inc].attempts
    BY <2>1, EffectFacts DEF EffectsInv, BudgetInv
  <2>3. write[f].inc # i
    BY <1>2, <1>4, <1>8, <2>1, <2>2
  <2>4. QED BY <1>8, <2>1, <2>2, <2>3 DEF IsCurrent
<1>14. CallsAreCounted'
  <2> SUFFICES ASSUME NEW f \in Fence, write[f].inc # None
               PROVE  write[f].attempt \in 1 .. inc'[write[f].inc].attempts
    BY <1>7 DEF CallsAreCounted
  <2>1. /\ write[f].inc \in Incident
        /\ write[f].attempt \in 1 .. inc[write[f].inc].attempts
    BY DEF EffectsInv, BudgetInv, EffectInv, SafetyInv, CallsAreFenced,
       CallsAreCounted
  <2>2. QED BY <1>2, <1>4, <1>8, <2>1
<1>15. AnswersHold'
  BY <1>7, <1>9 DEF AnswersMove, AnswersHold, AnswerHolds, EffectsInv, BudgetInv,
     EffectInv
<1>16. FencesAreOwn'
  <2> SUFFICES ASSUME NEW o \in Incident, NEW k \in StepNo, steps'[o][k].fence # 0
               PROVE  LET w == write[steps'[o][k].fence]
                      IN  /\ w.inc = o /\ w.step = k
                          /\ inc'[o].attempt # 0 => w.attempt = inc'[o].attempt
    BY <1>7 DEF FencesAreOwn
  <2>1. o # i
    BY <1>6, <1>8
  <2>2. QED BY <1>8, <2>1 DEF FencesAreOwn, EffectsInv, BudgetInv, EffectInv
<1>17. AppliedIsTrue'
  <2> SUFFICES ASSUME NEW o \in Incident, NEW k \in StepNo,
                      steps'[o][k].status = "applied"
               PROVE  /\ steps'[o][k].fence # 0
                      /\ write[steps'[o][k].fence].effect = "applied"
    BY <1>7 DEF AppliedIsTrue
  <2>1. o # i
    BY <1>6, <1>8
  <2>2. QED BY <1>8, <2>1 DEF AppliedIsTrue, EffectsInv, BudgetInv, EffectInv
<1>18. EffectsAreShown' /\ PlanInOrder'
  <2>1. ASSUME NEW f \in Fence, IsCurrent(f)'
        PROVE  /\ steps'[write[f].inc] = steps[write[f].inc]
               /\ LET s == steps[write[f].inc][write[f].step]
                  IN  s.fence = f /\ s.status \notin Idle
               /\ \A k \in 1 .. write[f].step - 1 :
                    LET s == steps[write[f].inc][k]
                    IN  s.fence # 0 /\ write[s.fence].effect = "applied"
    <3>1. IsCurrent(f) /\ steps'[write[f].inc] = steps[write[f].inc]
      BY <1>8, <1>13, <2>1
    <3>2. QED BY <3>1, SMTT(30)
              DEF EffectsAreShown, PlanInOrder, EffectsInv, BudgetInv, EffectInv
  <2>2. EffectsAreShown'
    BY <1>7, <2>1 DEF EffectsAreShown
  <2>3. PlanInOrder'
    <3> SUFFICES ASSUME NEW f \in Fence, IsCurrent(f)',
                        NEW k \in 1 .. write[f].step - 1
                 PROVE  LET s == steps'[write[f].inc][k]
                        IN  s.fence # 0 /\ write[s.fence].effect = "applied"
      BY <1>7 DEF PlanInOrder
    <3>1. QED BY <2>1
  <2>4. QED BY <2>2, <2>3
<1>19. StepTakesEffectOnce'
  BY <1>7 DEF StepTakesEffectOnce, EffectsInv, BudgetInv, EffectInv
<1>20. EffectInv'
  BY <1>12, <1>14, <1>15, <1>16, <1>17, <1>18, <1>19 DEF EffectInv
<1>21. ASSUME NEW o \in Incident PROVE AccountsHold(o)'
  <2>1. CASE o # i
    <3>1. inc'[o] = inc[o] /\ attempts'[o] = attempts[o] /\ budget'[o] = budget[o]
      BY <1>7, <1>8, <1>10, <2>1
    <3>2. QED BY <3>1, AccountsStay DEF EffectsInv
  <2>2. CASE o = i
    <3>1. AccountsHold(o)
      BY DEF EffectsInv, BudgetInv
    <3>2. ASSUME NEW m \in 1 .. n
          PROVE  attempts'[o][m].segment \in 1 .. inc'[o].segments
      <4>1. CASE m = n
        <5>1. attempts'[o][m].segment = inc[i].segment
          BY <1>11, <2>2, <4>1
        <5>2. inc'[o].segments = inc[i].segments
          BY <1>4, <1>8, <2>2
        <5>3. QED BY <1>3, <5>1, <5>2
      <4>2. CASE m # n
        <5>1. m \in 1 .. inc[o].attempts /\ m \in 1 .. MaxRows
          BY <1>2, <1>3, <2>2, <4>2
        <5>2. QED BY <1>4, <1>8, <1>11, <2>2, <3>1, <4>2, <5>1 DEF AccountsHold
      <4>3. QED BY <4>1, <4>2
    <3>3. ASSUME NEW b PROVE ChargedIn(o, b)' = ChargedIn(o, b)
      <4>1. ASSUME NEW m \in 1 .. n
            PROVE  attempts'[o][m].charged =>
                     m \in 1 .. inc[o].attempts /\ attempts'[o][m] = attempts[o][m]
        <5>1. CASE m = n
          BY <1>11, <2>2, <5>1
        <5>2. CASE m # n
          BY <1>2, <1>3, <1>11, <2>2, <5>2
        <5>3. QED BY <5>1, <5>2
      <4>2. \A m \in 1 .. inc[o].attempts :
              m \in 1 .. n /\ attempts'[o][m] = attempts[o][m]
        BY <1>2, <1>3, <1>11, <2>2
      <4>3. inc'[o].attempts = n
        BY <1>4, <1>8, <2>2
      <4>4. ChargedIn(o, b)' = {m \in 1 .. n :
              attempts'[o][m].charged /\ attempts'[o][m].segment = b}
        BY <4>3 DEF ChargedIn
      <4> HIDE DEF n
      <4>5. QED BY <4>1, <4>2, <4>4 DEF ChargedIn
    <3>4. ASSUME NEW b \in 1 .. inc'[o].segments PROVE AccountHolds(o, b)'
      <4>1. AccountHolds(o, b)
        BY <1>4, <1>8, <2>2, <3>1 DEF AccountsHold
      <4>2. QED BY <1>7, <3>3, <4>1 DEF AccountHolds
    <3>5. inc'[o].attempts = n
      BY <1>4, <1>8, <2>2
    <3>6. QED BY <3>2, <3>4, <3>5 DEF AccountsHold
  <2>3. QED BY <2>1, <2>2
<1>22. EffectsAreCharged'
  <2>1. ASSUME NEW o \in Incident, NEW m \in 1 .. inc[o].attempts, attempts[o][m].charged
        PROVE  attempts'[o][m].charged
    <3>1. CASE o # i
      BY <1>10, <2>1, <3>1
    <3>2. CASE o = i
      <4>1. m # n /\ m \in 1 .. MaxRows
        BY <1>2, <1>3, <3>2
      <4>2. QED BY <1>11, <2>1, <3>2, <4>1
    <3>3. QED BY <3>1, <3>2
  <2>2. QED BY <1>9, <2>1, EffectsStayCharged DEF EffectsInv
<1>23. PlanOwnsInstance'
  <2> SUFFICES ASSUME NEW o \in Incident, o # i, HasPlan(inc'[o])
               PROVE  FALSE
    BY <1>9 DEF PlanOwnsInstance, HasPlan, Ongoing
  <2>1. HasPlan(inc[o])
    BY <1>8
  <2>2. lease.incident = o
    BY <2>1 DEF EffectsInv, PlanOwnsInstance, HasPlan, Ongoing
  <2>3. QED BY <1>7, <2>2, RotationAssumption
<1>24. QED BY <1>20, <1>21, <1>22, <1>23 DEF EffectsInv, BudgetInv

\* What dispatch() has checked of the step and its incident.
LEMMA DispatchFacts ==
  ASSUME EffectsInv, NEW j \in Job, NEW i, NEW n, NEW k, NEW f,
         i = job[j].inc, n = job[j].attempt, k = job[j].step, f = job[j].fence,
         Dispatch(j)
  PROVE  /\ i \in Incident /\ k \in StepNo /\ f \in Fence
         /\ n \in 1 .. inc[i].attempts /\ n \in 1 .. MaxRows /\ n # 0
         /\ inc[i].attempt = n /\ inc[i].phase = "cloud"
         /\ write[f].inc = None
         /\ steps[i][k].status \in Idle
         /\ \A m \in 1 .. k - 1 : steps[i][m].status = "applied"
         /\ inc[i].segment \in 1 .. inc[i].segments
         /\ attempts[i][n].segment = inc[i].segment
         /\ attempts[i][n].charged \/
              budget[i][inc[i].segment].used < budget[i][inc[i].segment].max
         /\ lease.incident = i
         /\ Holds(j) /\ inc[i].expects = revision[i] /\ ~inc[i].userPaused
         /\ ~inc[i].terminated
<1>1. PICK e \in Evidence : MayDispatch(j, e)
  BY DEF Dispatch
<1>2. /\ inc[i].attempt = n /\ WantsStep(j, i, inc[i], steps[i], k)
      /\ lease.incident = i /\ job[j].pc = "dispatching"
  BY <1>1, Zenon DEF MayDispatch, ExecuteDue, Dispatch
<1>3. /\ i \in Incident /\ inc[i] \in IncidentRow /\ RowCounts(inc[i])
      /\ inc[i].phase # "none" /\ SafetyInv /\ lease \in LeaseRow
      /\ budget \in [Incident -> [1 .. MaxSegments -> SegmentRow]]
  BY <1>2, JobFacts DEF SafetyInv, TypeInv, TypeOK
<1>4. /\ IsNext(inc[i], steps[i], k) /\ steps[i][k].status \in Idle
      /\ attempts[i][n].segment = inc[i].segment
      /\ attempts[i][n].charged \/ ~BudgetSpent(i, inc[i])
      /\ ~Stopped(inc[i]) /\ inc[i].expects = revision[i] /\ Holds(j)
  BY <1>2 DEF WantsStep, Admitted, Authorized, Charged, Idle
<1>5. k \in StepNo /\ f \in Fence /\ write[f].inc = None
  BY <1>2, <1>3, RotationAssumption
     DEF SafetyInv, JobsAreFenced, JobIsFenced, CallsAreFenced, Fence, LeaseRow,
         BeforeCall, TypeInv, JobsWork, AtStep
<1>6. /\ n # 0 /\ inc[i].phase = "cloud"
      /\ \A m \in 1 .. k - 1 : steps[i][m].status = "applied"
  BY <1>2, <1>4 DEF IsNext, HasAttempt
<1>7. n \in 1 .. inc[i].attempts /\ n \in 1 .. MaxRows
  BY <1>2, <1>3, <1>6, CountFacts DEF EffectsInv, BudgetInv
<1>8. inc[i].segment \in 1 .. inc[i].segments /\ inc[i].segment \in 1 .. MaxSegments
  BY <1>3, CountFacts DEF RowCounts, EffectsInv, BudgetInv
<1>9. attempts[i][n].charged \/
        budget[i][inc[i].segment].used < budget[i][inc[i].segment].max
  <2>1. budget[i][inc[i].segment] \in SegmentRow
    BY <1>3, <1>8
  <2>2. /\ budget[i][inc[i].segment].used \in Int
        /\ budget[i][inc[i].segment].max \in Nat
    BY <2>1 DEF SegmentRow
  <2>3. attempts[i][n].charged \/
          ~(budget[i][inc[i].segment].used >= budget[i][inc[i].segment].max)
    BY <1>4, Zenon DEF BudgetSpent
  <2>4. QED BY <2>2, <2>3
<1>10. QED
  BY <1>2, <1>3, <1>4, <1>5, <1>6, <1>7, <1>8, <1>9 DEF Stopped

\* The step of a call is new to the cloud: no earlier call of it had an effect,
\* and the steps before it have been applied.
LEMMA DispatchEffects ==
  ASSUME EffectsInv, SafetyInv', NEW j \in Job, NEW i, NEW n, NEW k, NEW f,
         i = job[j].inc, n = job[j].attempt, k = job[j].step, f = job[j].fence,
         Dispatch(j)
  PROVE  EffectInv'
<1> DEFINE s == [status |-> "in_flight", fence |-> f, receipt |-> FALSE,
                 throttled |-> FALSE]
           w == [inc |-> i, attempt |-> n, step |-> k, effect |-> "open",
                 late |-> FALSE, by |-> j]
<1>1. /\ i \in Incident /\ k \in StepNo /\ f \in Fence
      /\ n \in 1 .. inc[i].attempts /\ n # 0
      /\ inc[i].attempt = n /\ write[f].inc = None
      /\ steps[i][k].status \in Idle
      /\ \A m \in 1 .. k - 1 : steps[i][m].status = "applied"
  BY DispatchFacts
<1>2. /\ inc \in [Incident -> IncidentRow] /\ inc[i] \in IncidentRow
      /\ steps \in [Incident -> [StepNo -> StepRow]]
      /\ write \in [Fence -> WriteState] /\ job \in [Job -> JobState]
      /\ job[j] \in JobState /\ EffectInv
  BY <1>1 DEF EffectsInv, BudgetInv, EffectInv, SafetyInv, TypeInv, TypeOK
<1>3. /\ steps' = [steps EXCEPT ![i][k] = s]
      /\ write' = [write EXCEPT ![f] = w]
      /\ inc' = [inc EXCEPT ![i] = [inc[i] EXCEPT !.error = "none"]]
      /\ job' = [job EXCEPT ![j] = [job[j] EXCEPT !.pc = "executing"]]
  BY Zenon DEF Dispatch, s, w
<1>4. /\ s.fence = f /\ s.status = "in_flight"
      /\ w.inc = i /\ w.attempt = n /\ w.step = k /\ w.effect = "open"
  OBVIOUS
<1> HIDE DEF s, w
<1>5. /\ steps'[i][k] = s
      /\ \A o \in Incident, m \in StepNo :
           ~(o = i /\ m = k) => steps'[o][m] = steps[o][m]
  BY <1>1, <1>2, <1>3
<1>6. write'[f] = w /\ \A g \in Fence : g # f => write'[g] = write[g]
  BY <1>1, <1>2, <1>3
<1>7. RowsKeep
  BY <1>1, <1>2, <1>3, ErrorKeeps, RowsKeepAt DEF EffectInv
<1>8. /\ RowsAreCounted'
      /\ \A o \in Incident : /\ inc'[o].attempts = inc[o].attempts
                             /\ inc'[o].attempt = inc[o].attempt
  <2>1. ASSUME NEW o \in Incident
        PROVE  /\ RowCounts(inc'[o]) /\ inc'[o].attempts = inc[o].attempts
               /\ inc'[o].attempt = inc[o].attempt
    <3>1. RowCounts(inc'[o])
      BY <1>2, <1>7, RowCountsKept
         DEF RowsKeep, EffectInv, RowsAreCounted, SafetyInv, TypeInv, TypeOK
    <3>2. inc'[o] = inc[o] \/ inc'[o] = [inc[o] EXCEPT !.error = "none"]
      BY <1>1, <1>2, <1>3
    <3>3. inc[o] \in IncidentRow
      BY <1>2
    <3>4. QED BY <3>1, <3>2, <3>3 DEF IncidentRow
  <2>2. QED BY <2>1 DEF RowsAreCounted
\* A fence that a step carries is not the new one.
<1>9. ASSUME NEW o \in Incident, NEW m \in StepNo, steps[o][m].fence # 0
      PROVE  /\ steps[o][m].fence \in Fence /\ steps[o][m].fence # f
             /\ write'[steps[o][m].fence] = write[steps[o][m].fence]
  <2>1. steps[o][m].fence \in Fence /\ write[steps[o][m].fence].inc # None
    BY <1>2, <1>9 DEF EffectInv, SafetyInv, StepsAreFenced
  <2>2. QED BY <1>1, <1>6, <2>1
\* An earlier call that had an effect is of another step.
<1>10. ASSUME NEW g \in Fence, IsCurrent(g)
       PROVE  /\ write[g].inc \in Incident /\ write[g].step \in StepNo
              /\ ~(write[g].inc = i /\ write[g].step = k)
  <2>1. write[g].inc \in Incident /\ write[g].step \in StepNo
    BY <1>2, <1>10, EffectFacts DEF IsCurrent
  <2>2. steps[write[g].inc][write[g].step].status \notin Idle
    BY <1>2, <1>10 DEF EffectInv, EffectsAreShown
  <2>3. QED BY <1>1, <2>1, <2>2
<1>11. ASSUME NEW g \in Fence, IsCurrent(g)', g # f
       PROVE  IsCurrent(g)
  <2>1. write[g].effect # "none" /\ inc'[write[g].inc].attempt = write[g].attempt
    BY <1>6, <1>11 DEF IsCurrent
  <2>2. write[g].inc \in Incident
    BY <1>2, <2>1, EffectFacts
  <2>3. QED BY <1>8, <2>1, <2>2 DEF IsCurrent
\* What a step that was applied says stays so.
<1>12. ASSUME NEW o \in Incident, NEW m \in StepNo, ~(o = i /\ m = k),
              steps[o][m].fence # 0, write[steps[o][m].fence].effect = "applied"
       PROVE  steps'[o][m].fence # 0 /\ write'[steps'[o][m].fence].effect = "applied"
  BY <1>5, <1>9, <1>12
<1>13. CallsAreCounted'
  <2> SUFFICES ASSUME NEW g \in Fence, write'[g].inc # None
               PROVE  write'[g].attempt \in 1 .. inc'[write'[g].inc].attempts
    BY DEF CallsAreCounted
  <2>1. CASE g = f
    BY <1>1, <1>4, <1>6, <1>8, <2>1
  <2>2. CASE g # f
    <3>1. write[g].inc \in Incident /\ write[g].inc # None /\ write'[g] = write[g]
      BY <1>2, <1>6, <2>2 DEF EffectInv, SafetyInv, CallsAreFenced
    <3>2. QED BY <1>2, <1>8, <3>1 DEF EffectInv, CallsAreCounted
  <2>3. QED BY <2>1, <2>2
<1>14. AnswersHold'
  <2> SUFFICES ASSUME NEW other \in Job, job'[other].pc = "observed"
               PROVE  AnswerHolds(other)'
    BY DEF AnswersHold, AnswerHolds
  <2>1. job'[other] = job[other]
    <3>1. job'[j].pc = "executing"
      BY <1>2, <1>3 DEF JobState
    <3>2. QED BY <1>2, <1>3, <3>1
  <2>2. job[other].stepFence \in Fence /\ write[job[other].stepFence].inc # None
    BY <1>2, <2>1 DEF EffectInv, SafetyInv, JobsAreFenced, AnswerIsTrue
  <2>3. write'[job[other].stepFence] = write[job[other].stepFence]
    BY <1>1, <1>6, <2>2
  <2>4. QED BY <1>2, <2>1, <2>3 DEF EffectInv, AnswersHold, AnswerHolds
<1>15. FencesAreOwn'
  <2> SUFFICES ASSUME NEW o \in Incident, NEW m \in StepNo, steps'[o][m].fence # 0
               PROVE  LET x == write'[steps'[o][m].fence]
                      IN  /\ x.inc = o /\ x.step = m
                          /\ inc'[o].attempt # 0 => x.attempt = inc'[o].attempt
    BY DEF FencesAreOwn
  <2>1. CASE o = i /\ m = k
    BY <1>1, <1>4, <1>5, <1>6, <1>8, <2>1
  <2>2. CASE ~(o = i /\ m = k)
    <3>1. steps'[o][m] = steps[o][m] /\ steps[o][m].fence # 0
      BY <1>5, <2>2
    <3>2. QED BY <1>2, <1>8, <1>9, <3>1 DEF EffectInv, FencesAreOwn
  <2>3. QED BY <2>1, <2>2
<1>16. AppliedIsTrue'
  <2> SUFFICES ASSUME NEW o \in Incident, NEW m \in StepNo,
                      steps'[o][m].status = "applied"
               PROVE  /\ steps'[o][m].fence # 0
                      /\ write'[steps'[o][m].fence].effect = "applied"
    BY DEF AppliedIsTrue
  <2>1. ~(o = i /\ m = k)
    BY <1>4, <1>5
  <2>2. steps[o][m].fence # 0 /\ write[steps[o][m].fence].effect = "applied"
    BY <1>2, <1>5, <2>1 DEF EffectInv, AppliedIsTrue
  <2>3. QED BY <1>12, <2>1, <2>2
<1>17. EffectsAreShown'
  <2> SUFFICES ASSUME NEW g \in Fence, IsCurrent(g)'
               PROVE  LET x == steps'[write'[g].inc][write'[g].step]
                      IN  x.fence = g /\ x.status \notin Idle
    BY DEF EffectsAreShown
  <2>1. CASE g = f
    BY <1>4, <1>5, <1>6, <2>1 DEF Idle
  <2>2. CASE g # f
    <3>1. IsCurrent(g) /\ write'[g] = write[g]
      BY <1>6, <1>11, <2>2
    <3>2. steps'[write[g].inc][write[g].step] = steps[write[g].inc][write[g].step]
      BY <1>5, <1>10, <3>1
    <3>3. QED BY <1>2, <3>1, <3>2 DEF EffectInv, EffectsAreShown
  <2>3. QED BY <2>1, <2>2
<1>18. PlanInOrder'
  <2> SUFFICES ASSUME NEW g \in Fence, IsCurrent(g)',
                      NEW m \in 1 .. write'[g].step - 1
               PROVE  LET x == steps'[write'[g].inc][m]
                      IN  x.fence # 0 /\ write'[x.fence].effect = "applied"
    BY DEF PlanInOrder
  <2>1. CASE g = f
    <3>1. m \in StepNo /\ m \in 1 .. k - 1 /\ m # k
      BY <1>1, <1>4, <1>6, <2>1, RotationAssumption DEF StepNo
    <3>2. steps[i][m].fence # 0 /\ write[steps[i][m].fence].effect = "applied"
      BY <1>1, <1>2, <3>1 DEF EffectInv, AppliedIsTrue
    <3>3. QED BY <1>1, <1>4, <1>6, <1>12, <2>1, <3>1, <3>2
  <2>2. CASE g # f
    <3>1. /\ IsCurrent(g) /\ write'[g] = write[g]
          /\ write[g].inc \in Incident /\ write[g].step \in StepNo
      BY <1>6, <1>10, <1>11, <2>2
    <3>2. m \in StepNo /\ m \in 1 .. write[g].step - 1
      BY <3>1, RotationAssumption DEF StepNo
    <3> DEFINE x == steps[write[g].inc][m]
    <3>3. x.fence # 0 /\ write[x.fence].effect = "applied"
      BY <1>2, <3>1, <3>2 DEF EffectInv, PlanInOrder
    <3>4. ~(write[g].inc = i /\ m = k)
      <4> SUFFICES ASSUME write[g].inc = i, m = k PROVE FALSE
        OBVIOUS
      <4>0. x = steps[i][k] /\ x.fence # 0 /\ inc[i].attempt # 0 /\ SafetyInv
        BY <1>1, <1>2, <3>3 DEF EffectInv
      <4>1. /\ x.fence \in Fence /\ write[x.fence].inc = i
            /\ write[x.fence].attempt = inc[i].attempt
            /\ write[x.fence].step = k
        <5>1. steps[i][k].fence # 0
          BY <4>0
        <5> HIDE DEF x
        <5>2. /\ steps[i][k].fence \in Fence /\ write[steps[i][k].fence].inc = i
              /\ write[steps[i][k].fence].attempt = inc[i].attempt
              /\ write[steps[i][k].fence].step = k
          <6>1. i \in Incident /\ k \in StepNo /\ inc[i].attempt # 0 /\ EffectInv
            BY <1>1, <1>2, <4>0
          <6>2. QED BY <5>1, <6>1, OwnFence
        <5>3. QED BY <4>0, <5>2
      <4>2. IsCurrent(x.fence)
        BY <3>3, <4>1 DEF IsCurrent
      <4>3. QED BY <1>10, <4>1, <4>2
    <3>5. QED BY <1>12, <3>1, <3>2, <3>3, <3>4
  <2>3. QED BY <2>1, <2>2
<1>19. StepTakesEffectOnce'
  <2>1. ASSUME NEW g \in Fence, g # f, write[g].effect # "none", write[g].inc = i,
               write[g].attempt = n, write[g].step = k
        PROVE  FALSE
    BY <1>1, <1>10, <2>1 DEF IsCurrent
  <2>2. QED BY <1>2, <1>4, <1>6, <2>1 DEF EffectInv, StepTakesEffectOnce
<1>20. QED
  BY <1>8, <1>13, <1>14, <1>15, <1>16, <1>17, <1>18, <1>19 DEF EffectInv

-----------------------------------------------------------------------------
(* Charges and refunds.                                                    *)

\* The charge of an attempt, and the use of a segment, are written.
Charges(i, n, charged) == attempts' = [attempts EXCEPT ![i][n].charged = charged]

Uses(i, b, used) == budget' = [budget EXCEPT ![i][b].used = used]

LEMMA OtherAttemptsStay ==
  ASSUME EffectInv, NEW i \in Incident, NEW n \in 1 .. MaxRows, NEW charged \in BOOLEAN,
         Charges(i, n, charged)
  PROVE  /\ \A o \in Incident : o # i => attempts'[o] = attempts[o]
         /\ \A m \in 1 .. MaxRows : m # n => attempts'[i][m] = attempts[i][m]
         /\ attempts'[i][n].charged = charged
         /\ attempts'[i][n].segment = attempts[i][n].segment
<1>1. /\ attempts \in [Incident -> [1 .. MaxRows -> AttemptRow]]
      /\ attempts[i][n] \in AttemptRow
  BY DEF EffectInv, SafetyInv, TypeInv, TypeOK
<1> DEFINE a == [attempts[i][n] EXCEPT !.charged = charged]
<1>2. a.charged = charged /\ a.segment = attempts[i][n].segment
  BY <1>1 DEF AttemptRow
<1> HIDE DEF a
<1>3. attempts' = [attempts EXCEPT ![i] = [attempts[i] EXCEPT ![n] = a]]
  BY Zenon DEF a, Charges
<1>4. /\ \A o \in Incident : o # i => attempts'[o] = attempts[o]
      /\ attempts'[i] = [attempts[i] EXCEPT ![n] = a]
  BY <1>1, <1>3, Zenon
<1>5. QED BY <1>1, <1>2, <1>4

LEMMA OtherSegmentsStay ==
  ASSUME EffectInv, NEW i \in Incident, NEW b \in 1 .. MaxSegments, NEW used,
         Uses(i, b, used)
  PROVE  /\ \A o \in Incident : o # i => budget'[o] = budget[o]
         /\ \A c \in 1 .. MaxSegments : c # b => budget'[i][c] = budget[i][c]
         /\ budget'[i][b].used = used /\ budget'[i][b].max = budget[i][b].max
<1>1. /\ budget \in [Incident -> [1 .. MaxSegments -> SegmentRow]]
      /\ budget[i][b] \in SegmentRow
  BY DEF EffectInv, SafetyInv, TypeInv, TypeOK
<1> DEFINE a == [budget[i][b] EXCEPT !.used = used]
<1>2. a.used = used /\ a.max = budget[i][b].max
  BY <1>1 DEF SegmentRow
<1> HIDE DEF a
<1>3. budget' = [budget EXCEPT ![i] = [budget[i] EXCEPT ![b] = a]]
  BY Zenon DEF a, Uses
<1>4. /\ \A o \in Incident : o # i => budget'[o] = budget[o]
      /\ budget'[i] = [budget[i] EXCEPT ![b] = a]
  BY <1>1, <1>3, Zenon
<1>5. QED BY <1>1, <1>2, <1>4

UsedAfter(i, b, charged) ==
  IF charged THEN budget[i][b].used + 1 ELSE budget[i][b].used - 1

LEMMA AccountMoves ==
  ASSUME NEW i, NEW n, NEW b, NEW charged \in BOOLEAN,
         IsFiniteSet(ChargedIn(i, b)), AccountHolds(i, b), budget[i][b].max \in Nat,
         ChargedIn(i, b)' = IF charged THEN ChargedIn(i, b) \cup {n}
                            ELSE ChargedIn(i, b) \ {n},
         n \in ChargedIn(i, b) <=> ~charged,
         charged => budget[i][b].used < budget[i][b].max,
         budget'[i][b].max = budget[i][b].max,
         budget'[i][b].used = UsedAfter(i, b, charged)
  PROVE  AccountHolds(i, b)'
<1>1. Cardinality(ChargedIn(i, b)) \in Nat
  BY FS_CardinalityType
<1>2. CASE charged
  <2>1. Cardinality(ChargedIn(i, b) \cup {n}) = Cardinality(ChargedIn(i, b)) + 1
    BY <1>2, FS_AddElement
  <2>2. QED BY <1>1, <1>2, <2>1 DEF AccountHolds, UsedAfter
<1>3. CASE ~charged
  <2>1. Cardinality(ChargedIn(i, b) \ {n}) = Cardinality(ChargedIn(i, b)) - 1
    BY <1>3, FS_RemoveElement
  <2>2. QED BY <1>1, <1>3, <2>1 DEF AccountHolds, UsedAfter
<1>4. QED BY <1>2, <1>3

\* Charging an attempt that was not charged uses one more attempt of its
\* segment, giving it back one less.
LEMMA AccountsMove ==
  ASSUME BudgetInv, NEW i \in Incident, NEW n \in 1 .. inc[i].attempts, NEW b,
         b = attempts[i][n].segment, NEW charged \in BOOLEAN,
         attempts[i][n].charged = ~charged,
         charged => budget[i][b].used < budget[i][b].max,
         \A o \in Incident : /\ inc'[o].attempts = inc[o].attempts
                             /\ inc'[o].segments = inc[o].segments,
         Charges(i, n, charged),
         Uses(i, b, UsedAfter(i, b, charged))
  PROVE  \A o \in Incident : AccountsHold(o)'
<1>1. /\ n \in 1 .. MaxRows /\ 1 .. inc[i].attempts \subseteq 1 .. MaxRows
      /\ 1 .. inc[i].segments \subseteq 1 .. MaxSegments
  BY CountFacts DEF BudgetInv
<1>2. AccountsHold(i) /\ b \in 1 .. inc[i].segments /\ b \in 1 .. MaxSegments
  BY <1>1 DEF BudgetInv, AccountsHold
<1>3. /\ \A o \in Incident : o # i => attempts'[o] = attempts[o]
      /\ \A m \in 1 .. MaxRows : m # n => attempts'[i][m] = attempts[i][m]
      /\ attempts'[i][n].charged = charged
      /\ attempts'[i][n].segment = b
  BY <1>1, OtherAttemptsStay DEF BudgetInv
<1>4. /\ \A o \in Incident : o # i => budget'[o] = budget[o]
      /\ \A c \in 1 .. MaxSegments : c # b => budget'[i][c] = budget[i][c]
      /\ budget'[i][b].max = budget[i][b].max
      /\ budget'[i][b].used = UsedAfter(i, b, charged)
  <2>1. EffectInv
    BY DEF BudgetInv
  <2>2. QED BY <1>2, <2>1, OtherSegmentsStay
<1>5. ASSUME NEW o \in Incident, o # i PROVE AccountsHold(o)'
  BY <1>3, <1>4, <1>5, AccountsStay
<1>6. ChargedIn(i, b)' = IF charged THEN ChargedIn(i, b) \cup {n}
                         ELSE ChargedIn(i, b) \ {n}
  <2>1. inc'[i].attempts = inc[i].attempts
    OBVIOUS
  <2>2. \A m \in 1 .. inc[i].attempts : m # n => attempts'[i][m] = attempts[i][m]
    BY <1>1, <1>3
  <2>3. QED BY <1>3, <2>1, <2>2 DEF ChargedIn
<1>7. \A c \in 1 .. inc[i].segments : c # b => ChargedIn(i, c)' = ChargedIn(i, c)
  <2>1. ASSUME NEW c \in 1 .. inc[i].segments, c # b
        PROVE  ChargedIn(i, c)' = ChargedIn(i, c)
    <3>1. inc'[i].attempts = inc[i].attempts
      OBVIOUS
    <3>2. \A m \in 1 .. inc[i].attempts : m # n => attempts'[i][m] = attempts[i][m]
      BY <1>1, <1>3
    <3>3. QED BY <1>3, <2>1, <3>1, <3>2 DEF ChargedIn
  <2>2. QED BY <2>1
<1>8. AccountHolds(i, b)'
  <2>1. IsFiniteSet(ChargedIn(i, b))
    BY ChargedFacts DEF BudgetInv, EffectInv, SafetyInv
  <2>2. n \in ChargedIn(i, b) <=> ~charged
    BY DEF ChargedIn
  <2>3. AccountHolds(i, b)
    BY <1>2 DEF AccountsHold
  <2>4. budget[i][b].max \in Nat
    <3>1. budget[i][b] \in SegmentRow
      BY <1>2 DEF BudgetInv, EffectInv, SafetyInv, TypeInv, TypeOK
    <3>2. QED BY <3>1 DEF SegmentRow
  <2>5. QED BY <1>4, <1>6, <2>1, <2>2, <2>3, <2>4, AccountMoves
<1>9. ASSUME NEW c \in 1 .. inc[i].segments PROVE AccountHolds(i, c)'
  <2>1. CASE c # b
    <3>1. budget'[i][c] = budget[i][c] /\ ChargedIn(i, c)' = ChargedIn(i, c)
      BY <1>1, <1>4, <1>7, <2>1
    <3>2. QED BY <1>2, <3>1 DEF AccountsHold, AccountHolds
  <2>2. QED BY <1>8, <2>1
<1>10. \A m \in 1 .. inc[i].attempts :
         attempts'[i][m].segment = attempts[i][m].segment
  BY <1>1, <1>3
<1>11. AccountsHold(i)'
  BY <1>2, <1>9, <1>10 DEF AccountsHold
<1>12. QED BY <1>5, <1>11

LEMMA DispatchKeeps ==
  ASSUME EffectsInv, SafetyInv', NEW j \in Job, Dispatch(j)
  PROVE  EffectsInv'
<1> SUFFICES ASSUME NEW i, NEW n, NEW k, NEW f,
                    i = job[j].inc, n = job[j].attempt, k = job[j].step,
                    f = job[j].fence
             PROVE  EffectsInv'
  OBVIOUS
<1> DEFINE b == inc[i].segment
           w == [inc |-> i, attempt |-> n, step |-> k, effect |-> "open",
                 late |-> FALSE, by |-> j]
<1>1. /\ i \in Incident /\ n \in 1 .. inc[i].attempts /\ n \in 1 .. MaxRows
      /\ f \in Fence /\ attempts[i][n].segment = b
      /\ attempts[i][n].charged \/ budget[i][b].used < budget[i][b].max
  BY DispatchFacts
<1>2. EffectInv'
  BY DispatchEffects
<1>3. /\ inc' = [inc EXCEPT ![i] = [inc[i] EXCEPT !.error = "none"]]
      /\ lease' = [lease EXCEPT !.unresolved = StepIdOf(i, k)]
      /\ write' = [write EXCEPT ![f] = w]
      /\ IF attempts[i][n].charged THEN UNCHANGED <<attempts, budget>>
         ELSE /\ attempts' = [attempts EXCEPT ![i][n].charged = TRUE]
              /\ budget' = [budget EXCEPT ![i][b].used = budget[i][b].used + 1]
  BY Zenon DEF Dispatch, w, b
<1>4. RowsKeep /\ lease'.incident = lease.incident
  <2>1. inc[i] \in IncidentRow /\ lease \in LeaseRow /\ SafetyInv
    BY <1>1, RowFacts DEF EffectsInv, BudgetInv, EffectInv
  <2>2. QED BY <1>1, <1>3, <2>1, ErrorKeeps, RowsKeepAt DEF LeaseRow
<1>5. \A o \in Incident : /\ inc'[o].attempts = inc[o].attempts
                          /\ inc'[o].segments = inc[o].segments
  BY <1>4 DEF RowsKeep, RowKeeps
<1> HIDE DEF b, w
<1>6. attempts'[i][n].charged
  <2>1. CASE ~attempts[i][n].charged
    BY <1>1, <1>3, <2>1, OtherAttemptsStay DEF Charges, EffectsInv, BudgetInv
  <2>2. QED BY <1>3, <2>1
<1>7. \A o \in Incident : AccountsHold(o)'
  <2>1. CASE attempts[i][n].charged
    BY <1>3, <1>5, <2>1, AccountsStay DEF EffectsInv
  <2>2. CASE ~attempts[i][n].charged
    <3>1. attempts[i][n].charged = ~TRUE
      <4>0. attempts \in [Incident -> [1 .. MaxRows -> AttemptRow]]
        BY DEF EffectsInv, BudgetInv, EffectInv, SafetyInv, TypeInv, TypeOK
      <4>1. attempts[i][n] \in AttemptRow
        BY <1>1, <4>0
      <4>2. attempts[i][n].charged \in BOOLEAN
        BY <4>1 DEF AttemptRow
      <4>3. QED BY <2>2, <4>2
    <3>2. /\ Charges(i, n, TRUE)
          /\ Uses(i, b, UsedAfter(i, b, TRUE))
          /\ budget[i][b].used < budget[i][b].max /\ BudgetInv
          /\ b = attempts[i][n].segment /\ TRUE \in BOOLEAN
      BY <1>1, <1>3, <2>2 DEF Charges, EffectsInv, Uses, UsedAfter
    <3>3. QED BY <1>1, <1>5, <3>1, <3>2, AccountsMove
  <2>3. QED BY <2>1, <2>2
<1>8. EffectsAreCharged'
  <2> SUFFICES ASSUME NEW g \in Fence, write'[g].effect # "none"
               PROVE  attempts'[write'[g].inc][write'[g].attempt].charged
    BY DEF EffectsAreCharged
  <2>0. write \in [Fence -> WriteState]
    BY DEF EffectsInv, BudgetInv, EffectInv, SafetyInv, TypeInv, TypeOK
  <2>1. CASE g = f
    <3>1. write'[f] = w
      BY <1>1, <1>3, <2>0
    <3>2. write'[g].inc = i /\ write'[g].attempt = n
      BY <2>1, <3>1 DEF w
    <3>3. QED BY <1>6, <3>2
  <2>2. CASE g # f
    <3>1. write'[g] = write[g]
      BY <1>1, <1>3, <2>0, <2>2
    <3>2. /\ write[g].inc \in Incident
          /\ write[g].attempt \in 1 .. inc[write[g].inc].attempts
          /\ attempts[write[g].inc][write[g].attempt].charged
      BY <3>1, EffectFacts, CountFacts DEF EffectsInv, BudgetInv, EffectsAreCharged
    <3>3. write[g].attempt \in 1 .. MaxRows
      BY <3>2, CountFacts DEF EffectsInv, BudgetInv
    <3>4. attempts'[write[g].inc][write[g].attempt].charged
      <4>1. CASE ~attempts[i][n].charged
        <5>1. /\ \A o \in Incident : o # i => attempts'[o] = attempts[o]
              /\ \A m \in 1 .. MaxRows : m # n => attempts'[i][m] = attempts[i][m]
          BY <1>1, <1>3, <4>1, OtherAttemptsStay DEF Charges, EffectsInv, BudgetInv
        <5>2. QED BY <1>6, <3>2, <3>3, <5>1
      <4>2. CASE attempts[i][n].charged
        BY <1>3, <3>2, <4>2
      <4>3. QED BY <4>1, <4>2
    <3>5. QED BY <3>1, <3>4
  <2>3. QED BY <2>1, <2>2
<1>9. PlanOwnsInstance'
  BY <1>4, OwnerKept DEF OwnerMoves, EffectsInv
<1>10. QED BY <1>2, <1>7, <1>8, <1>9 DEF EffectsInv, BudgetInv

-----------------------------------------------------------------------------
(* A job that has made a call made it for an attempt.                      *)

CallsHaveAttempts ==
  \A j \in Job : job[j].pc = "executing" => job[j].attempt # 0

\* A job step that makes no call.
LEMMA NoNewCalls ==
  ASSUME CallsHaveAttempts, job \in [Job -> JobState], NEW j \in Job,
         \/ job' = job \/ (\E r : job' = [job EXCEPT ![j] = r] /\ r.pc # "executing")
  PROVE  CallsHaveAttempts'
BY DEF CallsHaveAttempts

LEMMA EndsCalls ==
  ASSUME CallsHaveAttempts, job \in [Job -> JobState], NEW j \in Job,
         \/ \E l : Ends(j, l)
         \/ \E code : GoPause(j, code)
  PROVE  CallsHaveAttempts'
<1>1. CASE \E l : Ends(j, l)
  <2>1. IdleJob.pc # "executing"
    BY DEF IdleJob
  <2>2. job' = [job EXCEPT ![j] = IdleJob]
    BY <1>1 DEF Ends
  <2>3. QED BY <2>1, <2>2, NoNewCalls
<1>2. CASE \E code : GoPause(j, code)
  <2>1. PICK code : GoPause(j, code)
    BY <1>2
  <2> DEFINE r == [[job[j] EXCEPT !.pc = "pausing"] EXCEPT !.code = code]
  <2>2. job[j] \in JobState
    OBVIOUS
  <2>3. r.pc = "pausing"
    BY <2>2 DEF JobState
  <2>4. job' = [job EXCEPT ![j] = r]
    BY <2>1 DEF GoPause
  <2>5. QED BY <2>3, <2>4, NoNewCalls
<1>3. QED BY <1>1, <1>2

LEMMA CallsHaveAttemptsKept ==
  ASSUME EffectsInv, CallsHaveAttempts, NEW j \in Job, JobStep(j)
  PROVE  CallsHaveAttempts'
<1>1. job \in [Job -> JobState] /\ job[j] \in JobState
  BY DEF EffectsInv, BudgetInv, EffectInv, SafetyInv, TypeInv, TypeOK
<1>2. ASSUME NEW i \in Incident, Claim(j, i) PROVE CallsHaveAttempts'
  <2> DEFINE r == [IdleJob EXCEPT !.pc = "claimed", !.inc = i,
                                  !.fence = lease.revision + 1]
  <2>1. r.pc # "executing"
    BY DEF IdleJob
  <2>2. job' = [job EXCEPT ![j] = r]
    BY <1>2 DEF Claim
  <2>3. QED BY <1>1, <2>1, <2>2, NoNewCalls
<1>3. ASSUME NEW pc, NEW n, NEW k, NEW f, GoTo(j, pc, n, k, f), pc # "executing"
      PROVE  CallsHaveAttempts'
  <2> DEFINE r == [job[j] EXCEPT !.pc = pc, !.attempt = n, !.step = k,
                                 !.stepFence = f]
  <2>1. r.pc # "executing"
    BY <1>1, <1>3 DEF JobState
  <2> HIDE DEF r
  <2>2. job' = [job EXCEPT ![j] = r]
    BY <1>3, Zenon DEF GoTo, r
  <2>3. QED BY <1>1, <2>1, <2>2, NoNewCalls
<1>4. ASSUME Read(j) PROVE CallsHaveAttempts'
  <2>1. \/ \E l : Ends(j, l)
        \/ \E n, k, f : GoTo(j, "observing", n, k, f)
        \/ \E n : GoTo(j, "inspecting", n, 0, 0)
        \/ \E n, k : GoTo(j, "dispatching", n, k, 0)
        \/ \E n : GoTo(j, "settling", n, 0, 0)
    BY <1>4, Zenon DEF Read
  <2>2. QED BY <1>1, <1>3, <2>1, EndsCalls
<1>5. ASSUME Settle(j) PROVE \E l : Ends(j, l)
  BY <1>5, Zenon DEF Settle
<1>6. ASSUME \/ Prepare(j) \/ PrepareRefused(j) \/ DispatchRefused(j)
             \/ PauseAfterError(j) \/ ExecuteRefused(j) \/ ExecuteUncertain(j)
      PROVE  \E l : Ends(j, l)
  BY <1>6, Zenon
     DEF Prepare, PrepareRefused, DispatchRefused, PauseAfterError, ExecuteRefused,
         ExecuteUncertain
<1>7. ASSUME Throws(j) \/ ObserveFails(j) \/ ExecuteReturns(j) \/ SaveObservation(j)
      PROVE  (\E l : Ends(j, l)) \/ (\E code : GoPause(j, code))
  BY <1>7, Zenon DEF Throws, ObserveFails, ExecuteReturns, SaveObservation
<1>8. ASSUME Dispatch(j) PROVE CallsHaveAttempts'
  <2> SUFFICES ASSUME NEW i, NEW n, NEW k, NEW f,
                      i = job[j].inc, n = job[j].attempt, k = job[j].step,
                      f = job[j].fence
               PROVE  CallsHaveAttempts'
    OBVIOUS
  <2>1. n # 0
    BY <1>8, DispatchFacts
  <2>2. job' = [job EXCEPT ![j] = [job[j] EXCEPT !.pc = "executing"]]
    BY <1>8 DEF Dispatch
  <2>3. [job[j] EXCEPT !.pc = "executing"].attempt = n
    BY <1>1 DEF JobState
  <2>4. QED BY <1>1, <2>1, <2>2, <2>3 DEF CallsHaveAttempts
<1>9. ASSUME Observe(j) PROVE CallsHaveAttempts'
  <2>1. PICK result : job' = [job EXCEPT ![j] = [job[j] EXCEPT !.pc = "observed",
                                                               !.result = result]]
    BY <1>9 DEF Observe
  <2>2. [job[j] EXCEPT !.pc = "observed", !.result = result].pc # "executing"
    BY <1>1 DEF JobState
  <2>3. QED BY <1>1, <2>1, <2>2, NoNewCalls
<1>10. ASSUME Crash(j) PROVE CallsHaveAttempts'
  <2>1. IdleJob.pc # "executing"
    BY DEF IdleJob
  <2>2. job' = [job EXCEPT ![j] = IdleJob]
    BY <1>10 DEF Crash
  <2>3. QED BY <1>1, <2>1, <2>2, NoNewCalls
<1>11. QED
  BY <1>1, <1>2, <1>4, <1>5, <1>6, <1>7, <1>8, <1>9, <1>10, EndsCalls, Zenon DEF JobStep

\* A refused call had no effect; the attempt is given back with its first step
\* only, and then nothing of it has reached the cloud.
LEMMA ExecuteRefusedKeeps ==
  ASSUME EffectsInv, CallsHaveAttempts, SafetyInv', NEW j \in Job, ExecuteRefused(j)
  PROVE  EffectsInv' /\ RowsKeep /\ CallsKept
<1> SUFFICES ASSUME NEW i, NEW n, NEW k, NEW f,
                    i = job[j].inc, n = job[j].attempt, k = job[j].step,
                    f = job[j].fence
             PROVE  EffectsInv' /\ RowsKeep /\ CallsKept
  OBVIOUS
<1>1. /\ i \in Incident /\ inc[i] \in IncidentRow /\ lease \in LeaseRow
      /\ inc[i].status # "none" /\ k \in StepNo /\ f \in Fence /\ f # 0 /\ n # 0
      /\ job[j].pc = "executing" /\ SafetyInv
  <2>1. job[j].pc = "executing"
    BY DEF ExecuteRefused
  <2>2. f \in 1 .. lease.revision /\ SafetyInv /\ lease \in LeaseRow /\ k \in StepNo
    BY <2>1, JobFacts
       DEF SafetyInv, JobsAreFenced, JobIsFenced, TypeInv, JobsWork, AtStep
  <2>3. f \in Fence /\ f # 0
    BY <2>1, <2>2, RotationAssumption
       DEF SafetyInv, JobsAreFenced, JobIsFenced, CallsAreFenced, Fence, LeaseRow
  <2>4. QED BY <2>1, <2>2, <2>3, JobFacts DEF CallsHaveAttempts
<1>2. /\ steps \in [Incident -> [StepNo -> StepRow]]
      /\ write \in [Fence -> WriteState] /\ write[f] \in WriteState
      /\ attempts \in [Incident -> [1 .. MaxRows -> AttemptRow]]
  BY <1>1 DEF SafetyInv, TypeInv, TypeOK
<1>3. PICK code \in {"throttled", "other"}, l \in {lease, Resolved(lease, i, k)} :
        RejectNoEffect(i, n, k, f, code, l) /\ Ends(j, l)
  BY Zenon DEF ExecuteRefused
<1>4. /\ write[f].effect # "applied"
      /\ write' = [write EXCEPT ![f] = [write[f] EXCEPT !.effect = "none"]]
  BY Zenon DEF ExecuteRefused
<1>5. /\ write'[f] = [write[f] EXCEPT !.effect = "none"]
      /\ \A g \in Fence : g # f => write'[g] = write[g]
  BY <1>1, <1>2, <1>4
<1>6. CallsKept /\ write'[f].effect = "none"
  <2>1. write[f].effect \in {"open", "none"}
    BY <1>2, <1>4 DEF WriteState
  <2>2. QED BY <1>2, <1>5, <2>1 DEF CallsKept, WriteState
<1>7. CASE RejectIgnored(i, n, k, f)
  <2>1. l = lease /\ UNCHANGED <<inc, attempts, steps, budget>>
    BY <1>3, <1>7 DEF RejectNoEffect
  <2>2. Moves
    BY <1>1, <1>3, <1>6, <2>1, RowsKeepSame, EndMoves
  <2>3. QED BY <2>2, MovesKeep DEF Moves
<1>8. CASE ~RejectIgnored(i, n, k, f)
  <2> DEFINE s == [steps[i][k] EXCEPT !.status = "rejected",
                                      !.throttled = code = "throttled"]
  <2>1. inc[i].attempt = n /\ steps[i][k].fence = f
    BY <1>8 DEF RejectIgnored
  <2>2. s.fence = f /\ s.status = "rejected"
    <3>1. steps[i][k] \in StepRow
      BY <1>1, <1>2
    <3>2. QED BY <2>1, <3>1 DEF StepRow
  <2> HIDE DEF s
  <2>3. /\ steps' = [steps EXCEPT ![i][k] = s]
        /\ \/ inc' = [inc EXCEPT ![i] = ScheduleRecovery(inc[i], code)]
           \/ inc' = [inc EXCEPT ![i] = PauseIn(inc[i], code)]
        /\ l = Resolved(lease, i, k)
        /\ IF k = 1 /\ attempts[i][n].charged
           THEN /\ attempts' = [attempts EXCEPT ![i][n].charged = FALSE]
                /\ budget' = [budget EXCEPT ![i][attempts[i][n].segment].used =
                                budget[i][attempts[i][n].segment].used - 1]
           ELSE UNCHANGED <<attempts, budget>>
    BY <1>3, <1>8, Zenon DEF RejectNoEffect, s
  <2>4. RowsKeep
    BY <1>1, <2>3, ScheduleRecoveryKeeps, PauseInKeeps, RowsKeepAt
  <2>5. StepsMove
    <3>1. /\ steps'[i][k] = s
          /\ \A o \in Incident, m \in StepNo :
               ~(o = i /\ m = k) => steps'[o][m] = steps[o][m]
      BY <1>1, <1>2, <2>3
    <3>2. StepMoves(i, k)
      BY <1>1, <1>6, <2>1, <2>2, <3>1 DEF StepMoves
    <3>3. ASSUME NEW o \in Incident, NEW m \in StepNo PROVE StepMoves(o, m)
      BY <3>1, <3>2 DEF StepMoves
    <3>4. QED BY <3>3 DEF StepsMove
  <2>6. AnswersMove /\ OwnerMoves
    <3>1. l \in LeaseRow /\ l.incident = lease.incident
      BY <1>1, <2>3 DEF Resolved, LeaseRow
    <3>2. QED BY <1>1, <1>3, <3>1, EndsAnswers DEF OwnerMoves
  <2>7. CASE ~(k = 1 /\ attempts[i][n].charged)
    <3>1. UNCHANGED <<attempts, budget>>
      BY <2>3, <2>7
    <3>2. Moves
      BY <1>6, <2>4, <2>5, <2>6, <3>1 DEF Moves, BudgetKept
    <3>3. QED BY <3>2, MovesKeep DEF Moves
  <2>8. CASE k = 1 /\ attempts[i][n].charged
    <3> DEFINE b == attempts[i][n].segment
    <3>1. EffectInv'
      <4>1. RowsAreCounted'
        <5>1. ASSUME NEW o \in Incident PROVE RowCounts(inc'[o])
          BY <2>4, RowCountsKept
             DEF RowsKeep, EffectsInv, BudgetInv, EffectInv, RowsAreCounted,
                 SafetyInv, TypeInv, TypeOK
        <5>2. QED BY <5>1 DEF RowsAreCounted
      <4>2. AttemptsMove
        BY <2>4 DEF RowsKeep, RowKeeps, AttemptsMove
      <4>3. QED BY <1>6, <2>5, <2>6, <4>1, <4>2, EffectsKept DEF EffectsInv, BudgetInv
    <3>2. n \in 1 .. inc[i].attempts /\ n \in 1 .. MaxRows
      BY <1>1, <2>1, CountFacts DEF EffectsInv, BudgetInv
    <3>3. attempts[i][n].charged = ~FALSE
      <4>1. attempts[i][n] \in AttemptRow
        BY <1>1, <1>2, <3>2
      <4>2. QED BY <2>8, <4>1 DEF AttemptRow
    <3>4. /\ Charges(i, n, FALSE)
          /\ Uses(i, b, UsedAfter(i, b, FALSE))
          /\ BudgetInv /\ FALSE \in BOOLEAN
      BY <2>3, <2>8 DEF Charges, Uses, UsedAfter, EffectsInv
    <3>5. \A o \in Incident : /\ inc'[o].attempts = inc[o].attempts
                              /\ inc'[o].segments = inc[o].segments
      BY <2>4 DEF RowsKeep, RowKeeps
    <3>6. \A o \in Incident : AccountsHold(o)'
      <4> SUFFICES ASSUME NEW c, c = b PROVE \A o \in Incident : AccountsHold(o)'
        OBVIOUS
      <4> HIDE DEF b
      <4>1. c = attempts[i][n].segment
        BY DEF b
      <4>2. QED BY <1>1, <3>2, <3>3, <3>4, <3>5, <4>1, AccountsMove
    <3>7. /\ \A o \in Incident : o # i => attempts'[o] = attempts[o]
          /\ \A m \in 1 .. MaxRows : m # n => attempts'[i][m] = attempts[i][m]
      BY <1>1, <3>2, <3>4, OtherAttemptsStay DEF BudgetInv
    <3>8. EffectsAreCharged'
      <4> SUFFICES ASSUME NEW g \in Fence, write'[g].effect # "none"
                   PROVE  attempts'[write'[g].inc][write'[g].attempt].charged
        BY DEF EffectsAreCharged
      <4>1. g # f /\ write'[g] = write[g]
        BY <1>5, <1>6
      <4>2. /\ write[g].inc \in Incident /\ write[g].step \in StepNo
            /\ write[g].attempt \in 1 .. MaxRows
            /\ attempts[write[g].inc][write[g].attempt].charged
        BY <4>1, EffectFacts, CountFacts DEF EffectsInv, BudgetInv, EffectsAreCharged
      <4>3. ~(write[g].inc = i /\ write[g].attempt = n)
        <5> SUFFICES ASSUME write[g].inc = i, write[g].attempt = n PROVE FALSE
          OBVIOUS
        <5>1. IsCurrent(g)
          BY <2>1, <4>1 DEF IsCurrent
        <5>2. steps[i][write[g].step].fence = g
          BY <5>1 DEF EffectsInv, BudgetInv, EffectInv, EffectsAreShown
        <5>3. write[g].step # 1
          BY <2>1, <2>8, <4>1, <5>2
        <5>4. 1 \in 1 .. write[g].step - 1
          BY <4>2, <5>3, RotationAssumption DEF StepNo
        <5>5. write[steps[i][1].fence].effect = "applied"
          BY <5>1, <5>4 DEF EffectsInv, BudgetInv, EffectInv, PlanInOrder
        <5>6. QED BY <1>4, <2>1, <2>8, <5>5
      <4>4. QED BY <3>7, <4>1, <4>2, <4>3
    <3>9. PlanOwnsInstance'
      BY <2>4, <2>6, OwnerKept DEF EffectsInv
    <3>10. QED BY <1>6, <2>4, <3>1, <3>6, <3>8, <3>9 DEF EffectsInv, BudgetInv
  <2>9. QED BY <2>7, <2>8
<1>9. QED BY <1>7, <1>8

-----------------------------------------------------------------------------
(* The steps together.                                                     *)

\* The steps of jobs but for those that make a plan, make a call, or give an
\* attempt back.
LEMMA JobMovesOnly ==
  ASSUME EffectsInv, NEW j \in Job, JobStep(j),
         ~Prepare(j), ~Dispatch(j), ~ExecuteRefused(j)
  PROVE  Moves
BY ClaimKeeps, ReadKeeps, SettleKeeps, QuietJobKeeps, ObserveKeeps,
   SaveObservationKeeps, ExecuteReturnsKeeps, Zenon DEF JobStep

\* What a step of the system is to the rows and the calls.
LEMMA StepCases ==
  ASSUME EffectsInv, Next
  PROVE  \/ Moves
         \/ \E i \in Incident : Resume(i) \/ \E manual \in BOOLEAN : Start(i, manual)
         \/ \E j \in Job : Prepare(j) \/ Dispatch(j) \/ ExecuteRefused(j)
<1>1. ASSUME NEW j \in Job, JobStep(j)
      PROVE  Moves \/ Prepare(j) \/ Dispatch(j) \/ ExecuteRefused(j)
  BY <1>1, JobMovesOnly, Zenon
<1>2. ASSUME CloudStep PROVE Moves
  BY <1>2, CloudKeeps, LateReceiptKeeps, Zenon DEF CloudStep
<1>3. QED
  BY <1>1, <1>2, UserMoves, TimeKeeps, ClaimForeignKeeps, Zenon DEF Next

RotationInv == EffectsInv /\ CallsHaveAttempts

LEMMA StartRotationInv ==
  ASSUME Init
  PROVE  RotationInv
<1>1. SafetyInv
  <2>1. TypeInv
    BY InitType
  <2>2. RowsAreOk
    BY DEF Init, RowsAreOk, RowOk, NoIncident
  <2>3. CallsAreFenced /\ OpenCallsAreCurrent /\ OpenCallsArePinned
    BY RotationAssumption
       DEF Init, CallsAreFenced, OpenCallsAreCurrent, OpenCallsArePinned, NoWrite
  <2>4. JobsAreFenced /\ FencesDiffer /\ StepsAreFenced
    BY DEF Init, JobsAreFenced, JobIsFenced, AnswerIsTrue, FencesDiffer, IdleJob,
       StepsAreFenced, NewStep
  <2>5. QED BY <2>1, <2>2, <2>3, <2>4 DEF SafetyInv
<1>2. RowsAreCounted
  BY RotationAssumption DEF Init, RowsAreCounted, RowCounts, NoIncident
<1>3. \A f \in Fence : write[f].inc = None /\ write[f].effect = "none"
  BY DEF Init, NoWrite
<1>4. CallsAreCounted /\ EffectsAreShown /\ PlanInOrder /\ StepTakesEffectOnce
  BY <1>3 DEF CallsAreCounted, EffectsAreShown, PlanInOrder, StepTakesEffectOnce,
     IsCurrent
<1>5. AnswersHold /\ FencesAreOwn /\ AppliedIsTrue /\ CallsHaveAttempts
  BY DEF Init, AnswersHold, AnswerHolds, FencesAreOwn, AppliedIsTrue, CallsHaveAttempts,
     IdleJob, NewStep
<1>6. ASSUME NEW i \in Incident PROVE AccountsHold(i)
  <2>1. inc[i].attempts = 0 /\ inc[i].segments = 0
    BY DEF Init, NoIncident
  <2>2. QED BY <2>1 DEF AccountsHold
<1>7. EffectsAreCharged
  BY <1>3 DEF EffectsAreCharged
<1>8. PlanOwnsInstance
  BY DEF Init, PlanOwnsInstance, Ongoing, NoIncident
<1>9. QED
  BY <1>1, <1>2, <1>4, <1>5, <1>6, <1>7, <1>8
     DEF RotationInv, EffectsInv, BudgetInv, EffectInv

LEMMA RotationInvKept ==
  ASSUME RotationInv, [Next]_vars
  PROVE  RotationInv'
<1>1. EffectsInv /\ SafetyInv /\ CallsHaveAttempts
  BY DEF RotationInv, EffectsInv, BudgetInv, EffectInv
<1>2. SafetyInv'
  <2>1. CASE UNCHANGED vars
    <3>1. TypeInv'
      BY <1>1, <2>1 DEF vars, SafetyInv, TypeInv, TypeOK, JobsWork
    <3>2. QED BY <1>1, <2>1, <3>1, RowsStaySame, CallsSame, JobsSame, Quiet
              DEF vars, LeaseKept
  <2>2. CASE Next
    BY <1>1, <2>2, UserSafe, TimeSafe, CloudSafe, LateReceiptSafe, ClaimForeignSafe,
       JobSafe, Zenon DEF Next, CloudStep
  <2>3. QED BY <2>1, <2>2
<1>3. CASE UNCHANGED vars
  <2>1. Moves
    BY <1>3, RowsKeepSame, RowMovesOnly DEF vars, OwnerMoves
  <2>2. CallsHaveAttempts'
    BY <1>1, <1>3 DEF vars, CallsHaveAttempts
  <2>3. QED BY <1>1, <1>2, <2>1, <2>2, MovesKeep DEF RotationInv
<1>4. CASE Next
  <2>1. EffectsInv'
    <3>1. CASE Moves
      BY <1>1, <1>2, <3>1, MovesKeep
    <3>2. ASSUME NEW i \in Incident,
                 Resume(i) \/ \E manual \in BOOLEAN : Start(i, manual)
          PROVE  EffectsInv'
      BY <1>1, <1>2, <3>2, StartKeeps, ResumeKeeps
    <3>3. ASSUME NEW j \in Job, Prepare(j) \/ Dispatch(j) \/ ExecuteRefused(j)
          PROVE  EffectsInv'
      BY <1>1, <1>2, <3>3, PrepareKeeps, DispatchKeeps, ExecuteRefusedKeeps
    <3>4. QED BY <1>1, <1>4, <3>1, <3>2, <3>3, StepCases, Zenon
  <2>2. CallsHaveAttempts'
    <3>1. ASSUME NEW j \in Job, JobStep(j) PROVE CallsHaveAttempts'
      BY <1>1, <3>1, CallsHaveAttemptsKept
    <3>2. ASSUME UNCHANGED job PROVE CallsHaveAttempts'
      BY <1>1, <3>2 DEF CallsHaveAttempts
    <3>3. ASSUME UserStep PROVE UNCHANGED job
      BY <3>3, Zenon
         DEF UserStep, Start, Pause, Resume, Terminate, AuthorizationChanges, Promote,
             PublicationFails, CompleteIncident, Reset
    <3>4. ASSUME \/ TimePasses \/ CloudStep
                 \/ \E i \in Incident : ClaimForeign(i)
          PROVE  UNCHANGED job
      BY <3>4, Zenon
         DEF TimePasses, LeaseExpires, RetryFallsDue, CloudStep, CloudApplies,
             CloudFails, LateReceipt, ClaimForeign
    <3>5. QED BY <1>4, <3>1, <3>2, <3>3, <3>4, Zenon DEF Next
  <2>3. QED BY <2>1, <2>2 DEF RotationInv
<1>5. QED BY <1>3, <1>4

\* The inductive invariant of the calls, the plans and the accounts: the row of
\* a step carries the fence of its last call, says "applied" only of a call
\* that took effect, and is ready to be dispatched only when no call of the
\* attempt for it did; what the cloud has of a plan is a prefix of it.
THEOREM RotationInvariant == Spec => []RotationInv
<1>1. Init => RotationInv
  BY StartRotationInv
<1>2. RotationInv /\ [Next]_vars => RotationInv'
  BY RotationInvKept
<1>3. QED BY <1>1, <1>2, PTL DEF Spec

\* No step of any plan takes effect twice in the cloud, for any number of
\* incidents and workers, whatever calls time out, whatever receipts arrive
\* late and whatever is retried or resumed.
THEOREM StepTakesEffectOnceAlways == Spec => []StepTakesEffectOnce
<1>1. RotationInv => StepTakesEffectOnce
  BY DEF RotationInv, EffectsInv, BudgetInv, EffectInv
<1>2. QED BY <1>1, RotationInvariant, PTL

\* The used attempts of a segment are the charged ones, within its limit, and
\* what has or may have an effect in the cloud is charged: charges and refunds
\* never drift apart.
THEOREM BudgetAccountsAlways == Spec => []BudgetAccounts
<1>1. RotationInv => BudgetAccounts
  BY BudgetInvImplies DEF RotationInv, EffectsInv
<1>2. QED BY <1>1, RotationInvariant, PTL

\* The lease names the one incident whose plan is under way on the instance.
THEOREM PlanOwnsInstanceAlways == Spec => []PlanOwnsInstance
<1>1. RotationInv => PlanOwnsInstance
  BY DEF RotationInv, EffectsInv
<1>2. QED BY <1>1, RotationInvariant, PTL

-----------------------------------------------------------------------------
(* What has ended, and what is called.                                     *)

IncidentEnds(i) ==
  /\ inc[i].terminated => inc'[i].status = "complete"
  /\ inc[i].terminated \/ inc[i].phase = "complete" =>
       /\ inc'[i].phase = inc[i].phase
       /\ inc'[i].attempts = inc[i].attempts
       /\ \A f \in Fence : write'[f].inc = i => write[f].inc = i

\* A step that keeps the row of an incident, and makes calls for none that has
\* ended.
LEMMA KeptRowEnds ==
  ASSUME RotationInv, RotationInv', NEW i \in Incident, RowKeeps(inc[i], inc'[i]),
         inc[i].terminated \/ inc[i].phase = "complete" =>
           \A f \in Fence : write'[f].inc = i => write[f].inc = i
  PROVE  IncidentEnds(i)
<1>1. RowOk(inc'[i])
  BY DEF RotationInv, EffectsInv, BudgetInv, EffectInv, SafetyInv, RowsAreOk
<1>2. QED BY <1>1 DEF IncidentEnds, RowKeeps, RowOk

\* An incident that is started, resumed or given a plan has not ended.
LEMMA OtherRowsEnd ==
  ASSUME RotationInv, NEW i \in Incident, ~inc[i].terminated, NEW r,
         inc[i].phase = "complete" =>
           r.phase = inc[i].phase /\ r.attempts = inc[i].attempts,
         inc' = [inc EXCEPT ![i] = r], UNCHANGED write
  PROVE  \A o \in Incident : IncidentEnds(o)
<1>1. /\ inc \in [Incident -> IncidentRow] /\ RowsAreOk
  BY DEF RotationInv, EffectsInv, BudgetInv, EffectInv, SafetyInv, TypeInv, TypeOK
<1>2. inc'[i] = r /\ \A o \in Incident : o # i => inc'[o] = inc[o]
  BY <1>1
<1>3. QED BY <1>1, <1>2 DEF IncidentEnds, RowsAreOk, RowOk

LEMMA NextEnds ==
  ASSUME RotationInv, RotationInv', Next
  PROVE  \A i \in Incident : IncidentEnds(i)
<1>0. EffectsInv /\ CallsHaveAttempts
  BY DEF RotationInv
<1>1. ASSUME RowsKeep, CallsKept PROVE \A i \in Incident : IncidentEnds(i)
  BY <1>1, KeptRowEnds DEF RowsKeep, CallsKept
<1>2. ASSUME NEW i \in Incident, NEW manual \in BOOLEAN, Start(i, manual)
      PROVE  \A o \in Incident : IncidentEnds(o)
  <2>1. ~inc[i].terminated /\ inc[i].phase # "complete"
    BY <1>0, <1>2, RowFacts DEF Start, RowOk
  <2>2. UNCHANGED write /\ \E r : inc' = [inc EXCEPT ![i] = r]
    BY <1>2, Zenon DEF Start
  <2>3. QED BY <2>1, <2>2, OtherRowsEnd
<1>3. ASSUME NEW i \in Incident, Resume(i)
      PROVE  \A o \in Incident : IncidentEnds(o)
  <2>1. ~inc[i].terminated /\ SafetyInv'
    BY <1>0, <1>3, RowFacts
       DEF Resume, Ongoing, RowOk, RotationInv, EffectsInv, BudgetInv, EffectInv
  <2>2. PICK row : /\ inc' = [inc EXCEPT ![i] = row]
                   /\ row.phase = inc[i].phase /\ row.attempts = inc[i].attempts
    BY <1>0, <1>3, <2>1, ResumeKeeps
  <2>3. UNCHANGED write
    BY <1>3, Zenon DEF Resume
  <2>4. QED BY <2>1, <2>2, <2>3, OtherRowsEnd
<1>4. ASSUME NEW j \in Job, Prepare(j)
      PROVE  \A o \in Incident : IncidentEnds(o)
  <2> DEFINE i == job[j].inc
  <2>1. i \in Incident
    BY <1>0, <1>4, JobFacts DEF Prepare
  <2>2. ~inc[i].terminated /\ inc[i].phase # "complete"
    BY <1>4 DEF Prepare, PrepareDue, WantsAttempt, Admitted, Stopped
  <2>3. UNCHANGED write /\ \E r : inc' = [inc EXCEPT ![i] = r]
    BY <1>4, Zenon DEF Prepare
  <2>4. QED BY <2>1, <2>2, <2>3, OtherRowsEnd
<1>5. ASSUME NEW j \in Job, Dispatch(j)
      PROVE  \A o \in Incident : IncidentEnds(o)
  <2> SUFFICES ASSUME NEW i, NEW n, NEW k, NEW f,
                      i = job[j].inc, n = job[j].attempt, k = job[j].step,
                      f = job[j].fence
               PROVE  \A o \in Incident : IncidentEnds(o)
    OBVIOUS
  <2> DEFINE w == [inc |-> i, attempt |-> n, step |-> k, effect |-> "open",
                   late |-> FALSE, by |-> j]
  <2>1. /\ i \in Incident /\ f \in Fence
        /\ ~inc[i].terminated /\ inc[i].phase = "cloud"
    BY <1>0, <1>5, DispatchFacts
  <2>2. /\ inc' = [inc EXCEPT ![i] = [inc[i] EXCEPT !.error = "none"]]
        /\ write' = [write EXCEPT ![f] = w]
    BY <1>5, Zenon DEF Dispatch, w
  <2>3. RowsKeep
    BY <1>0, <2>1, <2>2, RowFacts, ErrorKeeps, RowsKeepAt
       DEF EffectsInv, BudgetInv, EffectInv
  <2>4. \A g \in Fence : write'[g].inc \in {write[g].inc, i}
    <3>1. w.inc = i /\ write \in [Fence -> WriteState]
      BY DEF RotationInv, EffectsInv, BudgetInv, EffectInv, SafetyInv, TypeInv, TypeOK
    <3>2. QED BY <2>1, <2>2, <3>1
  <2>5. QED BY <2>1, <2>3, <2>4, KeptRowEnds DEF RowsKeep
<1>6. ASSUME NEW j \in Job, ExecuteRefused(j)
      PROVE  \A o \in Incident : IncidentEnds(o)
  <2>1. SafetyInv'
    BY DEF RotationInv, EffectsInv, BudgetInv, EffectInv
  <2>2. QED BY <1>0, <1>1, <1>6, <2>1, ExecuteRefusedKeeps
<1>7. CASE Moves
  BY <1>1, <1>7 DEF Moves
<1>8. QED
  BY <1>0, <1>2, <1>3, <1>4, <1>5, <1>6, <1>7, StepCases, Zenon

\* Nothing revives an incident that has ended: one that was terminated stays
\* complete, and any keeps its phase and its attempts and makes no calls.
THEOREM TerminalIsFinalAlways == Spec => TerminalIsFinal
<1>1. RotationInv /\ RotationInv' /\ [Next]_vars =>
        [\A i \in Incident : IncidentEnds(i)]_vars
  BY NextEnds
<1>2. QED BY <1>1, RotationInvariant, PTL DEF Spec, TerminalIsFinal, IncidentEnds

\* A call is made by the holder of an unexpired lease, for what is authorized
\* and not paused at that moment, whatever the job has read before.
THEOREM CallsAreAdmittedAlways == Spec => CallsAreAdmitted
<1> DEFINE A == \A f \in Fence : write[f].inc = None /\ write'[f].inc # None =>
                  /\ lease.held /\ lease.revision = f
                  /\ inc[write'[f].inc].expects = revision[write'[f].inc]
                  /\ ~inc[write'[f].inc].userPaused
<1>1. ASSUME RotationInv, Next PROVE A
  <2>0. EffectsInv /\ CallsHaveAttempts
    BY <1>1 DEF RotationInv
  <2>1. ASSUME CallsKept PROVE A
    BY <2>1 DEF CallsKept
  <2>2. ASSUME NEW i \in Incident, Resume(i) \/ \E manual \in BOOLEAN : Start(i, manual)
        PROVE  A
    <3>1. UNCHANGED write
      BY <2>2, Zenon DEF Resume, Start
    <3>2. QED BY <3>1
  <2>3. ASSUME NEW j \in Job, Prepare(j) PROVE A
    <3>1. UNCHANGED write
      BY <2>3, Zenon DEF Prepare
    <3>2. QED BY <3>1
  <2>4. ASSUME NEW j \in Job, Dispatch(j) PROVE A
    <3> SUFFICES ASSUME NEW i, NEW n, NEW k, NEW f,
                        i = job[j].inc, n = job[j].attempt, k = job[j].step,
                        f = job[j].fence
                 PROVE  A
      OBVIOUS
    <3> DEFINE w == [inc |-> i, attempt |-> n, step |-> k, effect |-> "open",
                     late |-> FALSE, by |-> j]
    <3>1. /\ f \in Fence /\ Holds(j) /\ inc[i].expects = revision[i]
          /\ ~inc[i].userPaused
      BY <2>0, <2>4, DispatchFacts
    <3>2. write' = [write EXCEPT ![f] = w]
      BY <2>4, Zenon DEF Dispatch, w
    <3>3. w.inc = i /\ write \in [Fence -> WriteState]
      BY <1>1 DEF RotationInv, EffectsInv, BudgetInv, EffectInv, SafetyInv, TypeInv,
         TypeOK
    <3> HIDE DEF w
    <3>4. write'[f].inc = i /\ \A g \in Fence : g # f => write'[g] = write[g]
      BY <3>1, <3>2, <3>3
    <3>5. QED BY <3>1, <3>4 DEF Holds
  <2>5. ASSUME NEW j \in Job, ExecuteRefused(j) PROVE A
    <3>1. RotationInv'
      BY <1>1, RotationInvKept
    <3>2. SafetyInv'
      BY <3>1 DEF RotationInv, EffectsInv, BudgetInv, EffectInv
    <3>3. QED BY <2>0, <2>1, <2>5, <3>2, ExecuteRefusedKeeps
  <2>6. CASE Moves
    BY <2>1, <2>6 DEF Moves
  <2>7. QED BY <1>1, <2>0, <2>2, <2>3, <2>4, <2>5, <2>6, StepCases, Zenon
<1>2. RotationInv /\ [Next]_vars => [A]_vars
  BY <1>1
<1>3. QED BY <1>2, RotationInvariant, PTL DEF Spec, CallsAreAdmitted

=============================================================================
