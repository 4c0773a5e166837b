--------------------------- MODULE Operations_proofs --------------------------
(***************************************************************************)
(* Operations for any number of jobs, requests, bindings and steps, and    *)
(* any number of faults; and the Redis lease its jobs run under, for any   *)
(* number of calls and all options with RefreshInterval + 2 *              *)
(* CommandTimeout < LeaseTime.                                             *)
(*                                                                         *)
(* That the owner of a lease has the key is not inductive: one needs how   *)
(* much time to live the key has left at each point of the renew loop,     *)
(* which is LeaseMargin below.                                             *)
(***************************************************************************)
EXTENDS Operations, RedisLease, TLAPS

InStep == {"preparing", "prepared", "looking", "waiting", "verifying", "failing"}

\* The part of executeStep in which its transaction is open.
InTx == {"looking", "waiting", "verifying"}

PC == {"idle", "started", "claiming", "stepping", "superseding", "finalizing"}
        \cup InStep

\* A job that works on a step has one, and only a job that waits has a call.
JobsInStep ==
  \A w \in Worker :
    /\ job[w].pc \in InStep => job[w].step \in StepNo
    /\ job[w].call # "none" => job[w].pc = "waiting"

TypeInv == TypeOK /\ JobsInStep

JobType == job' \in [Worker -> JobState] /\ JobsInStep'

-----------------------------------------------------------------------------
(* The operators that write the jobs, the leases and the steps.            *)

LEMMA IdleJobType == IdleJob \in JobState /\ IdleJob.pc = "idle" /\ IdleJob.call = "none"
BY OperationsAssumption DEF IdleJob, JobState

LEMMA GoesType ==
  ASSUME TypeInv, NEW w \in Worker, NEW at \in PC, Goes(w, at),
         at \in InStep => job[w].step \in StepNo,
         job[w].pc # "waiting"
  PROVE  JobType
<1>1. job[w] \in JobState /\ job[w].call = "none"
  BY DEF TypeInv, TypeOK, JobsInStep, JobState
<1>2. [job[w] EXCEPT !.pc = at] \in JobState
  BY <1>1 DEF JobState, PC, InStep
<1>3. QED BY <1>1, <1>2 DEF Goes, JobType, JobsInStep, TypeInv, TypeOK, JobState

LEMMA GoesOnType ==
  ASSUME TypeInv, NEW w \in Worker, GoesOn(w), job[w].step \in StepNo
  PROVE  JobType
<1>1. job[w].step + 1 \in 1 .. StepCount + 1
  BY OperationsAssumption DEF StepNo
<1>2. [IdleJob EXCEPT !.pc = "stepping", !.step = job[w].step + 1] \in JobState
  BY <1>1, IdleJobType DEF JobState, IdleJob
<1>3. QED BY <1>2 DEF GoesOn, JobType, JobsInStep, TypeInv, TypeOK, JobState,
                      IdleJob, InStep

LEMMA EndsType ==
  ASSUME TypeInv, NEW w \in Worker, Ends(w)
  PROVE  JobType /\ owner' \in Worker \cup {None}
BY IdleJobType DEF Ends, JobType, JobsInStep, TypeInv, TypeOK, InStep

LEMMA LeavesZoneType ==
  ASSUME TypeInv, NEW w \in Worker, LeavesZone(w)
  PROVE  zone' \in [StepNo -> Worker \cup {None}]
BY DEF LeavesZone, TypeInv, TypeOK

LEMMA RollbackType ==
  ASSUME TypeInv, NEW w \in Worker, Rollback(w)
  PROVE  tx' \in Worker \cup {None}
BY DEF Rollback, TypeInv, TypeOK

LEMMA AbandonsType ==
  ASSUME TypeInv, NEW w \in Worker, Abandons(w)
  PROVE  provider' \in [StepNo -> ProviderState]
<1>1. CASE job[w].call # "open"
  BY <1>1 DEF Abandons, TypeInv, TypeOK
<1>2. CASE job[w].call = "open"
  <2>1. job[w].step \in StepNo
    BY <1>2 DEF TypeInv, JobsInStep, InStep
  <2>2. [provider[job[w].step] EXCEPT !.late = @ + 1] \in ProviderState
    BY <2>1 DEF TypeInv, TypeOK, ProviderState
  <2>3. QED BY <1>2, <2>1, <2>2 DEF Abandons, TypeInv, TypeOK
<1>3. QED BY <1>1, <1>2

LEMMA FaultType ==
  ASSUME TypeInv, Fault
  PROVE  faults' \in 0 .. MaxFaults
BY OperationsAssumption DEF Fault, TypeInv, TypeOK

LEMMA SkipUnfinishedType ==
  ASSUME TypeInv, SkipUnfinished
  PROVE  steps' \in [StepNo -> StepRow]
<1>1. \A s \in StepRow : [s EXCEPT !.status = "skipped"] \in StepRow
  BY DEF StepRow
<1>2. QED BY <1>1 DEF SkipUnfinished, TypeInv, TypeOK

LEMMA StepStatusType ==
  ASSUME TypeInv, NEW k \in StepNo,
         NEW s \in {"pending", "running", "succeeded", "failed", "skipped"},
         steps' = [steps EXCEPT ![k].status = s]
  PROVE  steps' \in [StepNo -> StepRow]
<1>1. [steps[k] EXCEPT !.status = s] \in StepRow
  BY DEF TypeInv, TypeOK, StepRow
<1>2. QED BY <1>1 DEF TypeInv, TypeOK

LEMMA ReviveType ==
  ASSUME TypeInv, Revive
  PROVE  steps' \in [StepNo -> StepRow] /\ status' \in OperationStatus
<1>1. \A s \in StepRow : [s EXCEPT !.status = "pending"] \in StepRow
  BY DEF StepRow
<1>2. QED BY <1>1 DEF Revive, TypeInv, TypeOK, OperationStatus

LEMMA FinalBindingType ==
  ASSUME TypeInv, NEW b \in Binding
  PROVE  FinalBinding(b) \in BindingState
BY DEF FinalBinding, TypeInv, TypeOK, BindingState

LEMMA FinalStatusType == FinalStatus \in OperationStatus
BY DEF FinalStatus, OperationStatus

-----------------------------------------------------------------------------
(* Types.                                                                  *)

LEMMA TypeInit == Init => TypeInv
<1> SUFFICES ASSUME Init PROVE TypeInv
  OBVIOUS
<1>1. [status |-> "pending", tried |-> FALSE] \in StepRow
  BY DEF StepRow
<1>2. [done |-> 0, late |-> 0, lateDone |-> 0] \in ProviderState
  BY DEF ProviderState
<1>3. TypeOK
  BY <1>1, <1>2, IdleJobType, OperationsAssumption
     DEF Init, TypeOK, OperationStatus, BindingState
<1>4. JobsInStep
  BY IdleJobType DEF Init, JobsInStep, InStep
<1>5. QED BY <1>3, <1>4 DEF TypeInv

LEMMA ExecuteType ==
  ASSUME TypeInv, NEW w \in Worker, Execute(w)
  PROVE  TypeInv'
<1>1. CASE Start(w)
  <2>1. JobType
    BY <1>1, GoesType DEF Start, PC, InStep
  <2>2. QED BY <1>1, <2>1 DEF Start, JobType, TypeInv, TypeOK, rows, pool, outside
<1>2. CASE ReadOperation(w)
  <2>1. JobType /\ owner' \in Worker \cup {None}
    <3>1. CASE Ends(w)
      BY <3>1, EndsType
    <3>2. CASE Goes(w, IF Stale THEN "superseding" ELSE "claiming") /\ UNCHANGED owner
      <4>1. JobType
        BY <1>2, <3>2, GoesType DEF ReadOperation, PC, InStep
      <4>2. QED BY <3>2, <4>1 DEF TypeInv, TypeOK
    <3>3. QED BY <1>2, <3>1, <3>2 DEF ReadOperation
  <2>2. QED BY <1>2, <2>1 DEF ReadOperation, JobType, TypeInv, TypeOK, rows, pool, outside
<1>3. CASE Claim(w)
  <2>1. JobType /\ owner' \in Worker \cup {None}
    <3>1. CASE Ends(w)
      BY <3>1, EndsType
    <3>2. CASE Goes(w, "stepping") /\ UNCHANGED owner
      <4>1. JobType
        BY <1>3, <3>2, GoesType DEF Claim, PC, InStep
      <4>2. QED BY <3>2, <4>1 DEF TypeInv, TypeOK
    <3>3. QED BY <1>3, <3>1, <3>2 DEF Claim
  <2>2. status' \in OperationStatus
    BY <1>3 DEF Claim, TypeInv, TypeOK, OperationStatus
  <2>3. QED BY <1>3, <2>1, <2>2 DEF Claim, JobType, TypeInv, TypeOK, pool, outside
<1>4. CASE EnterStep(w)
  <2>1. JobType /\ zone' \in [StepNo -> Worker \cup {None}]
    <3>1. CASE GoesOn(w) /\ UNCHANGED zone
      BY <1>4, <3>1, GoesOnType DEF EnterStep, TypeInv, TypeOK
    <3>2. CASE /\ zone' = [zone EXCEPT ![job[w].step] = w]
               /\ job' = [job EXCEPT ![w].pc = "preparing",
                                     ![w].tried = steps[job[w].step].tried]
      <4>1. job[w] \in JobState /\ job[w].call = "none" /\ job[w].step \in StepNo
        BY <1>4 DEF EnterStep, TypeInv, TypeOK, JobsInStep, JobState
      <4>2. [job[w] EXCEPT !.pc = "preparing", !.tried = steps[job[w].step].tried]
              \in JobState
        BY <4>1 DEF TypeInv, TypeOK, JobState, StepRow
      <4>3. JobType
        BY <3>2, <4>1, <4>2 DEF JobType, JobsInStep, TypeInv, TypeOK, JobState
      <4>4. QED BY <3>2, <4>1, <4>3 DEF TypeInv, TypeOK
    <3>3. QED BY <1>4, <3>1, <3>2 DEF EnterStep
  <2>2. QED BY <1>4, <2>1 DEF EnterStep, JobType, TypeInv, TypeOK, rows, pool, outside
<1>5. CASE LastStepDone(w)
  <2>1. JobType
    BY <1>5, GoesType DEF LastStepDone, PC, InStep
  <2>2. QED BY <1>5, <2>1
          DEF LastStepDone, JobType, TypeInv, TypeOK, rows, pool, leases, outside
<1>6. CASE NoticesLoss(w)
  <2>1. JobType /\ owner' \in Worker \cup {None}
    <3>1. CASE Ends(w)
      BY <3>1, EndsType
    <3>2. CASE /\ job[w].step \in StepNo
               /\ job' = [job EXCEPT ![w].pc = "failing", ![w].final = FALSE]
               /\ UNCHANGED owner
      <4>1. job[w] \in JobState /\ job[w].call = "none"
        BY <1>6 DEF NoticesLoss, TypeInv, TypeOK, JobsInStep, JobState
      <4>2. [job[w] EXCEPT !.pc = "failing", !.final = FALSE] \in JobState
        BY <4>1 DEF JobState
      <4>3. QED BY <3>2, <4>1, <4>2 DEF JobType, JobsInStep, TypeInv, TypeOK, JobState
    <3>3. QED BY <1>6, <3>1, <3>2 DEF NoticesLoss
  <2>2. QED BY <1>6, <2>1 DEF NoticesLoss, JobType, TypeInv, TypeOK, rows, pool, outside
<1>7. CASE PrepareStep(w)
  <2>0. job[w].step \in StepNo
    BY <1>7 DEF PrepareStep, TypeInv, JobsInStep, InStep
  <2>1. JobType
    BY <1>7, <2>0, GoesType DEF PrepareStep, PC, InStep
  <2>2. [status |-> "running", tried |-> TRUE] \in StepRow
    BY DEF StepRow
  <2>3. steps' \in [StepNo -> StepRow]
    BY <1>7, <2>2 DEF PrepareStep, TypeInv, TypeOK
  <2>4. zone' \in [StepNo -> Worker \cup {None}]
    BY <1>7, LeavesZoneType DEF PrepareStep, TypeInv, TypeOK
  <2>5. QED BY <1>7, <2>1, <2>3, <2>4
          DEF PrepareStep, JobType, TypeInv, TypeOK, pool, outside
<1>8. CASE BeginWrite(w)
  <2>0. job[w].step \in StepNo /\ job[w].pc = "prepared"
    BY <1>8 DEF BeginWrite, TypeInv, JobsInStep, InStep
  <2>1. JobType
    <3>1. CASE Goes(w, "superseding")
      BY <2>0, <3>1, GoesType DEF PC, InStep
    <3>2. CASE GoesOn(w)
      BY <2>0, <3>2, GoesOnType
    <3>3. CASE Goes(w, "looking")
      BY <2>0, <3>3, GoesType DEF PC, InStep
    <3>4. QED BY <1>8, <3>1, <3>2, <3>3 DEF BeginWrite
  <2>2. steps' \in [StepNo -> StepRow]
    <3>1. CASE SkipsStep(job[w].step)
      BY <2>0, <3>1, StepStatusType DEF SkipsStep
    <3>2. QED BY <1>8, <3>1 DEF BeginWrite, TypeInv, TypeOK
  <2>3. zone' \in [StepNo -> Worker \cup {None}]
    BY <1>8, LeavesZoneType DEF BeginWrite, TypeInv, TypeOK
  <2>4. tx' \in Worker \cup {None}
    BY <1>8 DEF BeginWrite, TypeInv, TypeOK
  <2>5. QED BY <1>8, <2>1, <2>2, <2>3, <2>4
          DEF BeginWrite, JobType, TypeInv, TypeOK, pool, outside
<1>9. CASE Call(w)
  <2>0. job[w].step \in StepNo /\ job[w].pc = "looking" /\ job[w] \in JobState
    BY <1>9 DEF Call, TypeInv, TypeOK, JobsInStep, InStep
  <2>1. JobType
    <3>1. CASE Goes(w, "verifying")
      BY <2>0, <3>1, GoesType DEF PC, InStep
    <3>2. CASE job' = [job EXCEPT ![w].pc = "waiting", ![w].call = "open"]
      <4>1. [job[w] EXCEPT !.pc = "waiting", !.call = "open"] \in JobState
        BY <2>0 DEF JobState
      <4>2. QED BY <2>0, <3>2, <4>1 DEF JobType, JobsInStep, TypeInv, TypeOK, JobState
    <3>3. QED BY <1>9, <3>1, <3>2 DEF Call
  <2>2. QED BY <1>9, <2>1
          DEF Call, JobType, TypeInv, TypeOK, rows, pool, leases, outside
<1>10. CASE CallAnswered(w)
  <2>0. job[w].step \in StepNo /\ job[w] \in JobState
    BY <1>10 DEF CallAnswered, TypeInv, TypeOK, JobsInStep, InStep
  <2>1. [job[w] EXCEPT !.pc = "verifying", !.call = "none"] \in JobState
    BY <2>0 DEF JobState
  <2>2. JobType
    BY <1>10, <2>0, <2>1 DEF CallAnswered, JobType, JobsInStep, TypeInv, TypeOK, JobState
  <2>3. QED BY <1>10, <2>2
          DEF CallAnswered, JobType, TypeInv, TypeOK, rows, pool, leases, outside
<1>11. CASE CommitStep(w)
  <2>0. job[w].step \in StepNo
    BY <1>11 DEF CommitStep, TypeInv, JobsInStep, InStep
  <2>1. JobType
    BY <1>11, <2>0, GoesOnType DEF CommitStep
  <2>2. steps' \in [StepNo -> StepRow]
    BY <1>11, <2>0, StepStatusType DEF CommitStep
  <2>3. zone' \in [StepNo -> Worker \cup {None}] /\ tx' \in Worker \cup {None}
    BY <1>11, LeavesZoneType DEF CommitStep
  <2>4. QED BY <1>11, <2>1, <2>2, <2>3
          DEF CommitStep, JobType, TypeInv, TypeOK, pool, outside
<1>12. CASE ZoneLost(w)
  <2>0. job[w].step \in StepNo /\ job[w] \in JobState /\ job[w].call = "none"
    BY <1>12 DEF ZoneLost, TypeInv, TypeOK, JobsInStep, InStep, JobState
  <2>1. [job[w] EXCEPT !.pc = "failing", !.final = FALSE] \in JobState
    BY <2>0 DEF JobState
  <2>2. JobType
    BY <1>12, <2>0, <2>1 DEF ZoneLost, JobType, JobsInStep, TypeInv, TypeOK, JobState
  <2>3. tx' \in Worker \cup {None}
    BY <1>12, RollbackType DEF ZoneLost
  <2>4. QED BY <1>12, <2>2, <2>3
          DEF ZoneLost, JobType, TypeInv, TypeOK, rows, pool, leases, outside
<1>13. CASE RecordFailure(w)
  <2>0. job[w].step \in StepNo
    BY <1>13 DEF RecordFailure, TypeInv, JobsInStep, InStep
  <2>1. JobType /\ owner' \in Worker \cup {None}
    <3>1. CASE Ends(w)
      BY <3>1, EndsType
    <3>2. CASE GoesOn(w) /\ UNCHANGED owner
      BY <2>0, <3>2, GoesOnType DEF TypeInv, TypeOK
    <3>3. QED BY <1>13, <3>1, <3>2 DEF RecordFailure
  <2>2. \A s \in {"failed", "pending"} : [status |-> s, tried |-> TRUE] \in StepRow
    BY DEF StepRow
  <2>3. steps' \in [StepNo -> StepRow]
    <3>1. CASE UNCHANGED steps
      BY <3>1 DEF TypeInv, TypeOK
    <3>2. CASE steps' = [steps EXCEPT ![job[w].step] =
                 [status |-> IF job[w].final THEN "failed" ELSE "pending",
                  tried |-> TRUE]]
      BY <2>0, <2>2, <3>2 DEF TypeInv, TypeOK
    <3>3. QED BY <1>13, <3>1, <3>2 DEF RecordFailure
  <2>4. QED BY <1>13, <2>1, <2>3
          DEF RecordFailure, JobType, TypeInv, TypeOK, pool, outside
<1>14. CASE SupersedeOperation(w)
  <2>1. JobType /\ owner' \in Worker \cup {None}
    BY <1>14, EndsType DEF SupersedeOperation
  <2>2. steps' \in [StepNo -> StepRow] /\ status' \in OperationStatus
    BY <1>14, SkipUnfinishedType
       DEF SupersedeOperation, TypeInv, TypeOK, OperationStatus, rows
  <2>3. QED BY <1>14, <2>1, <2>2
          DEF SupersedeOperation, JobType, TypeInv, TypeOK, pool, outside
<1>15. CASE Finalize(w)
  <2>1. JobType /\ owner' \in Worker \cup {None}
    BY <1>15, EndsType DEF Finalize
  <2>2. steps' \in [StepNo -> StepRow] /\ status' \in OperationStatus
    BY <1>15, SkipUnfinishedType, FinalStatusType
       DEF Finalize, TypeInv, TypeOK, OperationStatus, rows
  <2>3. binding' \in [Binding -> BindingState]
    BY <1>15, FinalBindingType DEF Finalize, TypeInv, TypeOK
  <2>4. QED BY <1>15, <2>1, <2>2, <2>3
          DEF Finalize, JobType, TypeInv, TypeOK, outside
<1>16. QED BY <1>1, <1>2, <1>3, <1>4, <1>5, <1>6, <1>7, <1>8, <1>9, <1>10, <1>11,
             <1>12, <1>13, <1>14, <1>15 DEF Execute

LEMMA FaultsType ==
  ASSUME TypeInv, NEW w \in Worker, StepThrows(w) \/ CallLands(w) \/ Crash(w)
  PROVE  TypeInv'
<1>1. CASE StepThrows(w)
  <2>0. job[w].step \in StepNo /\ job[w] \in JobState
    BY <1>1 DEF StepThrows, TypeInv, TypeOK
  <2>1. PICK final \in BOOLEAN :
          job' = [job EXCEPT ![w].pc = "failing", ![w].final = final,
                             ![w].call = "none"]
    BY <1>1 DEF StepThrows
  <2>2. [job[w] EXCEPT !.pc = "failing", !.final = final, !.call = "none"] \in JobState
    BY <2>0 DEF JobState
  <2>3. JobType
    BY <2>0, <2>1, <2>2 DEF JobType, JobsInStep, TypeInv, TypeOK, JobState
  <2>4. provider' \in [StepNo -> ProviderState]
    BY <1>1, AbandonsType DEF StepThrows, TypeInv, TypeOK
  <2>5. /\ tx' \in Worker \cup {None} /\ zone' \in [StepNo -> Worker \cup {None}]
        /\ faults' \in 0 .. MaxFaults
    BY <1>1, RollbackType, LeavesZoneType, FaultType DEF StepThrows
  <2>6. QED BY <1>1, <2>3, <2>4, <2>5
          DEF StepThrows, JobType, TypeInv, TypeOK, rows, pool
<1>2. CASE CallLands(w)
  <2>0. job[w].step \in StepNo /\ job[w] \in JobState
    BY <1>2 DEF CallLands, TypeInv, TypeOK, JobsInStep, InStep
  <2>1. [job[w] EXCEPT !.call = "landed"] \in JobState
    BY <2>0 DEF JobState
  <2>2. JobType
    BY <1>2, <2>0, <2>1 DEF CallLands, JobType, JobsInStep, TypeInv, TypeOK, JobState
  <2>3. [provider[job[w].step] EXCEPT !.done = @ + 1] \in ProviderState
    BY <2>0 DEF TypeInv, TypeOK, ProviderState
  <2>4. provider' \in [StepNo -> ProviderState]
    BY <1>2, <2>0, <2>3 DEF CallLands, TypeInv, TypeOK
  <2>5. QED BY <1>2, <2>2, <2>4
          DEF CallLands, JobType, TypeInv, TypeOK, rows, pool, leases
<1>3. CASE Crash(w)
  <2>1. JobType
    BY <1>3, IdleJobType DEF Crash, JobType, JobsInStep, TypeInv, TypeOK, InStep
  <2>2. /\ provider' \in [StepNo -> ProviderState] /\ tx' \in Worker \cup {None}
        /\ faults' \in 0 .. MaxFaults
    BY <1>3, AbandonsType, RollbackType, FaultType DEF Crash
  <2>3. QED BY <1>3, <2>1, <2>2
          DEF Crash, JobType, TypeInv, TypeOK, rows, pool, leases
<1>4. QED BY <1>1, <1>2, <1>3

LEMMA OutsideType ==
  ASSUME TypeInv,
         \/ \E k \in StepNo : LateCallLands(k) \/ ZoneLeaseExpires(k)
         \/ OperationLeaseExpires
         \/ Environment
  PROVE  TypeInv'
<1>1. ASSUME NEW k \in StepNo, LateCallLands(k) PROVE TypeInv'
  <2>1. provider[k] \in ProviderState
    BY DEF TypeInv, TypeOK
  <2>2. [done |-> provider[k].done + 1, late |-> provider[k].late - 1,
         lateDone |-> provider[k].lateDone + 1] \in ProviderState
    BY <1>1, <2>1 DEF LateCallLands, ProviderState
  <2>3. provider' \in [StepNo -> ProviderState]
    BY <1>1, <2>2 DEF LateCallLands, TypeInv, TypeOK
  <2>4. QED BY <1>1, <2>3
          DEF LateCallLands, JobsInStep, TypeInv, TypeOK, rows, pool, leases
<1>2. ASSUME NEW k \in StepNo, ZoneLeaseExpires(k) PROVE TypeInv'
  <2>1. faults' \in 0 .. MaxFaults
    BY <1>2, FaultType DEF ZoneLeaseExpires, TypeInv, TypeOK
  <2>2. QED BY <1>2, <2>1
          DEF ZoneLeaseExpires, JobsInStep, TypeInv, TypeOK, rows, pool
<1>3. CASE OperationLeaseExpires
  <2>1. faults' \in 0 .. MaxFaults
    BY <1>3, FaultType DEF OperationLeaseExpires, TypeInv, TypeOK
  <2>2. QED BY <1>3, <2>1
          DEF OperationLeaseExpires, JobsInStep, TypeInv, TypeOK, rows, pool
<1>4. ASSUME NEW r \in Request, RetryReads(r) PROVE TypeInv'
  BY <1>4 DEF RetryReads, JobsInStep, TypeInv, TypeOK, rows, pool, leases
<1>5. ASSUME NEW r \in Request, RetryCommits(r) PROVE TypeInv'
  <2>1. steps' \in [StepNo -> StepRow] /\ status' \in OperationStatus
    BY <1>5, ReviveType DEF RetryCommits, TypeInv, TypeOK, rows
  <2>2. QED BY <1>5, <2>1 DEF RetryCommits, JobsInStep, TypeInv, TypeOK, pool, leases
<1>6. ASSUME NEW r \in Request, PublicationRetries(r) PROVE TypeInv'
  BY <1>6, ReviveType
     DEF PublicationRetries, JobsInStep, TypeInv, TypeOK, pool, leases
<1>7. CASE Cancel
  <2>1. PICK skipped : steps' = [k \in StepNo |->
           IF steps[k].status \in skipped
           THEN [steps[k] EXCEPT !.status = "skipped"] ELSE steps[k]]
    BY <1>7 DEF Cancel
  <2>2. \A s \in StepRow : [s EXCEPT !.status = "skipped"] \in StepRow
    BY DEF StepRow
  <2>3. steps' \in [StepNo -> StepRow]
    BY <2>1, <2>2 DEF TypeInv, TypeOK
  <2>4. QED BY <1>7, <2>3
          DEF Cancel, JobsInStep, TypeInv, TypeOK, OperationStatus, pool, leases, outside
<1>8. CASE NewDecision \/ PolicyChange
  BY <1>8 DEF NewDecision, PolicyChange, Revision, JobsInStep, TypeInv, TypeOK, rows, leases, outside
<1>9. ASSUME NEW b \in Binding, DeleteBinding(b) \/ BindingDeleted(b) PROVE TypeInv'
  <2>1. binding' \in [Binding -> BindingState] /\ current' \subseteq Revision
    BY <1>9 DEF DeleteBinding, BindingDeleted, TypeInv, TypeOK, BindingState
  <2>2. QED BY <1>9, <2>1
          DEF DeleteBinding, BindingDeleted, JobsInStep, TypeInv, TypeOK, rows,
              leases, outside
<1>10. QED BY <1>1, <1>2, <1>3, <1>4, <1>5, <1>6, <1>7, <1>8, <1>9 DEF Environment

LEMMA TypeStep == TypeInv /\ [Next]_vars => TypeInv'
<1> SUFFICES ASSUME TypeInv, [Next]_vars PROVE TypeInv'
  OBVIOUS
<1>1. CASE UNCHANGED vars
  BY <1>1 DEF vars, rows, pool, leases, outside, TypeInv, TypeOK, JobsInStep
<1>2. CASE Next
  BY <1>2, ExecuteType, FaultsType, OutsideType DEF Next
<1>3. QED BY <1>1, <1>2

\* The rows of the operation and its steps, the leases, the jobs and what the
\* provider did always have their types.
THEOREM TypeCorrect == Spec => []TypeOK
<1>1. TypeInv => TypeOK
  BY DEF TypeInv
<1>2. QED BY TypeInit, TypeStep, <1>1, PTL DEF Spec

LEMMA Types == Spec => []TypeInv
BY TypeInit, TypeStep, PTL DEF Spec

-----------------------------------------------------------------------------
(* What is done stays done.                                                *)

LEMMA SettledStep ==
  ASSUME TypeInv, [Next]_vars, NEW k \in StepNo, steps[k].status \in Settled
  PROVE  steps'[k].status \in Settled
<1> USE DEF Settled, Unfinished
<1>0. steps \in [StepNo -> StepRow]
  BY DEF TypeInv, TypeOK
<1>1. CASE UNCHANGED steps
  BY <1>1
<1>2. ASSUME NEW w \in Worker, Execute(w) PROVE steps'[k].status \in Settled
  <2>1. CASE PrepareStep(w)
    BY <1>0, <2>1 DEF PrepareStep
  <2>2. CASE BeginWrite(w)
    BY <1>0, <2>2 DEF BeginWrite, SkipsStep, StepRow
  <2>3. CASE CommitStep(w)
    BY <1>0, <2>3 DEF CommitStep, StepRow
  <2>4. CASE RecordFailure(w)
    BY <1>0, <2>4 DEF RecordFailure
  <2>5. CASE SupersedeOperation(w) \/ Finalize(w)
    BY <1>0, <2>5 DEF SupersedeOperation, Finalize, SkipUnfinished, rows
  <2>6. CASE \/ Start(w) \/ ReadOperation(w) \/ Claim(w) \/ EnterStep(w)
             \/ LastStepDone(w) \/ NoticesLoss(w) \/ Call(w) \/ CallAnswered(w)
             \/ ZoneLost(w)
    BY <1>1, <2>6 DEF Start, ReadOperation, Claim, EnterStep, LastStepDone,
       NoticesLoss, Call, CallAnswered, ZoneLost, rows
  <2>7. QED BY <1>2, <2>1, <2>2, <2>3, <2>4, <2>5, <2>6 DEF Execute
<1>3. ASSUME NEW w \in Worker, StepThrows(w) \/ CallLands(w) \/ Crash(w)
      PROVE  steps'[k].status \in Settled
  BY <1>1, <1>3 DEF StepThrows, CallLands, Crash, rows
<1>4. CASE \/ \E m \in StepNo : LateCallLands(m) \/ ZoneLeaseExpires(m)
           \/ OperationLeaseExpires
  BY <1>1, <1>4 DEF LateCallLands, ZoneLeaseExpires, OperationLeaseExpires, rows
<1>5. CASE Environment
  <2>1. CASE \E r \in Request :
               RetryReads(r) \/ RetryCommits(r) \/ PublicationRetries(r)
    BY <1>1, <2>1 DEF RetryReads, RetryCommits, PublicationRetries, Revive, Failed, rows
  <2>2. CASE Cancel
    BY <1>0, <2>2 DEF Cancel, StepRow
  <2>3. CASE NewDecision \/ PolicyChange \/ \E b \in Binding : DeleteBinding(b) \/ BindingDeleted(b)
    BY <1>1, <2>3 DEF NewDecision, PolicyChange, DeleteBinding, BindingDeleted, rows
  <2>4. QED BY <1>5, <2>1, <2>2, <2>3 DEF Environment
<1>6. CASE UNCHANGED vars
  BY <1>1, <1>6 DEF vars, rows
<1>7. QED BY <1>2, <1>3, <1>4, <1>5, <1>6 DEF Next

\* A step that is done is never run again, whatever jobs, retries, crashes and
\* cancellations there are.
THEOREM DoneStepsStay == Spec => DoneStaysDone
<1>1. TypeInv /\ [Next]_vars =>
        [\A k \in StepNo :
           steps[k].status \in Settled => steps'[k].status \in Settled]_vars
  BY SettledStep
<1>2. QED BY Types, <1>1, PTL DEF Spec, DoneStaysDone

\* An operation that has ended is started again by a retry only.
THEOREM EndedStaysEnded == Spec => OnlyRetryRevives
<1>1. ASSUME TypeInv, Next, Terminal(status), status' # status
      PROVE  \/ status' = "pending" /\ request' # request
             \/ status' = "superseded" /\ job' = job
  <2>1. ASSUME NEW w \in Worker, Execute(w) PROVE FALSE
    <3>1. ~Claim(w) /\ ~SupersedeOperation(w) /\ ~Finalize(w)
      BY <1>1 DEF Claim, SupersedeOperation, Finalize, Active, Terminal, Unfinished, rows
    <3>2. QED BY <1>1, <2>1, <3>1
            DEF Execute, Start, ReadOperation, EnterStep, LastStepDone, NoticesLoss,
                PrepareStep, BeginWrite, Call, CallAnswered, CommitStep, ZoneLost,
                RecordFailure, rows
  <2>2. ASSUME NEW w \in Worker, StepThrows(w) \/ CallLands(w) \/ Crash(w)
        PROVE  FALSE
    BY <1>1, <2>2 DEF StepThrows, CallLands, Crash, rows
  <2>3. CASE \/ \E k \in StepNo : LateCallLands(k) \/ ZoneLeaseExpires(k)
             \/ OperationLeaseExpires
    BY <1>1, <2>3 DEF LateCallLands, ZoneLeaseExpires, OperationLeaseExpires, rows
  <2>4. ASSUME NEW r \in Request,
               RetryReads(r) \/ RetryCommits(r) \/ PublicationRetries(r)
        PROVE  status' = "pending" /\ request' # request
    BY <1>1, <2>4 DEF RetryReads, RetryCommits, PublicationRetries, Revive, rows,
                      TypeInv, TypeOK
  <2>5. CASE Cancel
    BY <2>5 DEF Cancel
  <2>6. CASE NewDecision \/ PolicyChange \/ \E b \in Binding : DeleteBinding(b) \/ BindingDeleted(b)
    BY <1>1, <2>6 DEF NewDecision, PolicyChange, DeleteBinding, BindingDeleted, rows
  <2>7. QED BY <1>1, <2>1, <2>2, <2>3, <2>4, <2>5, <2>6 DEF Next, Environment
<1>2. TypeInv /\ [Next]_vars =>
        [Terminal(status) /\ status' # status =>
           \/ status' = "pending" /\ request' # request
           \/ status' = "superseded" /\ job' = job]_vars
  BY <1>1
<1>3. QED BY Types, <1>2, PTL DEF Spec, OnlyRetryRevives

-----------------------------------------------------------------------------
(* Who changes what.                                                       *)

ByJob(w) == Execute(w) \/ StepThrows(w) \/ CallLands(w) \/ Crash(w)

LEMMA OwnJob ==
  ASSUME TypeInv, NEW w \in Worker, ByJob(w), NEW v \in Worker, v # w
  PROVE  job'[v] = job[v]
<1> USE DEF TypeInv, TypeOK, Goes, GoesOn, Ends
<1>1. CASE \/ Start(w) \/ ReadOperation(w) \/ Claim(w) \/ EnterStep(w)
           \/ LastStepDone(w) \/ NoticesLoss(w)
  BY <1>1 DEF Start, ReadOperation, Claim, EnterStep, LastStepDone, NoticesLoss
<1>2. CASE \/ PrepareStep(w) \/ BeginWrite(w) \/ Call(w) \/ CallAnswered(w)
           \/ CommitStep(w) \/ ZoneLost(w)
  BY <1>2 DEF PrepareStep, BeginWrite, Call, CallAnswered, CommitStep, ZoneLost
<1>3. CASE \/ RecordFailure(w) \/ SupersedeOperation(w) \/ Finalize(w)
           \/ StepThrows(w) \/ CallLands(w) \/ Crash(w)
  BY <1>3 DEF RecordFailure, SupersedeOperation, Finalize, StepThrows, CallLands, Crash
<1>4. QED BY <1>1, <1>2, <1>3 DEF ByJob, Execute

LEMMA Moves ==
  ASSUME TypeInv, [Next]_vars, NEW v \in Worker, job'[v] # job[v]
  PROVE  ByJob(v)
<1>1. CASE \E w \in Worker : ByJob(w)
  BY <1>1, OwnJob
<1>2. CASE \/ \E k \in StepNo : LateCallLands(k) \/ ZoneLeaseExpires(k)
           \/ OperationLeaseExpires
           \/ Environment
  BY <1>2 DEF LateCallLands, ZoneLeaseExpires, OperationLeaseExpires, Environment,
     RetryReads, RetryCommits, PublicationRetries, Cancel, NewDecision, PolicyChange,
     DeleteBinding, BindingDeleted
<1>3. QED BY <1>1, <1>2 DEF Next, ByJob, vars

LEMMA NewPc ==
  ASSUME TypeInv, NEW w \in Worker
  PROVE  /\ Ends(w) => job'[w].pc = "idle"
         /\ GoesOn(w) => job'[w].pc = "stepping"
         /\ \A at \in PC : Goes(w, at) => job'[w].pc = at /\ job'[w].step = job[w].step
<1>1. [IdleJob EXCEPT !.pc = "stepping", !.step = job[w].step + 1].pc = "stepping"
  BY DEF IdleJob
<1>2. \A at : /\ [job[w] EXCEPT !.pc = at].pc = at
              /\ [job[w] EXCEPT !.pc = at].step = job[w].step
  BY DEF TypeInv, TypeOK, JobState
<1>3. ASSUME GoesOn(w) PROVE job'[w].pc = "stepping"
  BY <1>1, <1>3 DEF GoesOn, TypeInv, TypeOK
<1>4. ASSUME NEW at \in PC, Goes(w, at)
      PROVE  job'[w].pc = at /\ job'[w].step = job[w].step
  BY <1>2, <1>4 DEF Goes, TypeInv, TypeOK
<1>5. Ends(w) => job'[w].pc = "idle"
  BY IdleJobType DEF Ends, TypeInv, TypeOK
<1>6. QED BY <1>3, <1>4, <1>5

\* The only ways into, and along, the work on a step.
LEMMA InsideMoves ==
  ASSUME TypeInv, [Next]_vars, NEW v \in Worker, job'[v] # job[v],
         job'[v].pc \in {"preparing", "prepared"} \cup InTx
  PROVE  \/ EnterStep(v) \/ PrepareStep(v) \/ BeginWrite(v) \/ Call(v)
         \/ CallLands(v) \/ CallAnswered(v)
<1>1. ByJob(v)
  BY Moves
<1>2. /\ ~Ends(v) /\ ~GoesOn(v)
      /\ \A at \in {"started", "claiming", "stepping", "superseding", "finalizing"} :
           ~Goes(v, at)
  BY NewPc DEF InTx, PC
<1>3. job'[v].pc \notin {"idle", "failing"}
  BY DEF InTx
<1>4. ~Start(v) /\ ~ReadOperation(v) /\ ~Claim(v) /\ ~LastStepDone(v)
  BY <1>2 DEF Start, ReadOperation, Claim, LastStepDone
<1>5. ~NoticesLoss(v) /\ ~ZoneLost(v) /\ ~StepThrows(v) /\ ~Crash(v)
  <2>1. ~NoticesLoss(v)
    BY <1>2, <1>3 DEF NoticesLoss, TypeInv, TypeOK, JobState
  <2>2. ~ZoneLost(v)
    BY <1>3 DEF ZoneLost, TypeInv, TypeOK, JobState
  <2>3. ~StepThrows(v)
    <3>1. SUFFICES ASSUME StepThrows(v) PROVE FALSE
      OBVIOUS
    <3>2. PICK final \in BOOLEAN :
            job' = [job EXCEPT ![v].pc = "failing", ![v].final = final, ![v].call = "none"]
      BY <3>1 DEF StepThrows
    <3>3. job'[v].pc = "failing"
      BY <3>2 DEF TypeInv, TypeOK, JobState
    <3>4. QED BY <1>3, <3>3
  <2>4. ~Crash(v)
    BY <1>3, IdleJobType DEF Crash, TypeInv, TypeOK
  <2>5. QED BY <2>1, <2>2, <2>3, <2>4
<1>6. ~CommitStep(v) /\ ~RecordFailure(v) /\ ~SupersedeOperation(v) /\ ~Finalize(v)
  BY <1>2 DEF CommitStep, RecordFailure, SupersedeOperation, Finalize
<1>7. QED BY <1>1, <1>4, <1>5, <1>6 DEF ByJob, Execute

\* What opens the transaction of executeStep.
Begins(v) ==
  LET k == job[v].step IN
  /\ job[v].pc = "prepared" /\ Unlocked /\ zone[k] = v
  /\ Active /\ ~Stale /\ steps[k].status = "running" /\ ~Fenced(k)
  /\ job' = [job EXCEPT ![v].pc = "looking"] /\ tx' = v
  /\ UNCHANGED <<rows, pool, zone, outside>>

LEMMA EntersTx ==
  ASSUME TypeInv, [Next]_vars, NEW v \in Worker, job'[v].pc \in InTx
  PROVE  \/ job[v].pc \in InTx /\ job'[v].step = job[v].step
         \/ Begins(v)
<1>1. CASE job'[v] = job[v]
  BY <1>1
<1>2. CASE EnterStep(v) \/ PrepareStep(v)
  <2>1. ~GoesOn(v) /\ ~Goes(v, "prepared") /\ ~Goes(v, "superseding")
    BY NewPc DEF InTx, PC, InStep
  <2>2. job'[v].pc # "preparing"
    BY DEF InTx
  <2>3. QED BY <1>2, <2>1, <2>2
          DEF EnterStep, PrepareStep, TypeInv, TypeOK, JobState
<1>3. CASE BeginWrite(v)
  <2>1. ~GoesOn(v) /\ ~Goes(v, "superseding")
    BY NewPc DEF InTx, PC
  <2>2. QED BY <1>3, <2>1, Zenon
          DEF BeginWrite, MayWrite, Begins, Goes, rows
<1>4. CASE Call(v) \/ CallAnswered(v)
  BY <1>4 DEF Call, CallAnswered, Goes, TypeInv, TypeOK, JobState, InTx
<1>5. CASE CallLands(v)
  BY <1>5 DEF CallLands, TypeInv, TypeOK, JobState
<1>6. QED BY <1>1, <1>2, <1>3, <1>4, <1>5, InsideMoves

-----------------------------------------------------------------------------
(* Writes are wanted.                                                      *)

TxHeld == \A w \in Worker : job[w].pc \in InTx => tx = w

StepWanted(k) ==
  /\ Active /\ (plan.kind = "pool" => "decision" \in current)
  /\ steps[k].status = "running" /\ ~Fenced(k)

Wanted == \A w \in Worker : job[w].pc \in InTx => StepWanted(job[w].step)

\* What nobody can undo beside an open transaction of executeStep: the decision,
\* and a binding that is not being deleted.
PoolKept ==
  /\ plan' = plan
  /\ "decision" \in current => "decision" \in current'
  /\ \A b \in Binding : binding[b] \notin {"deleting", "gone"} => binding'[b] = binding[b]

\* Whoever writes the operation, its steps or the decision of the pool, or plans
\* the deletion of a binding, takes a lock that the transaction of executeStep
\* has.  An edit of the policy and the end of a deletion do not.
LEMMA LockedOut ==
  ASSUME TypeInv, TxHeld, [Next]_vars, NEW v \in Worker,
         job[v].pc \in InTx, job'[v].pc \in InTx
  PROVE  UNCHANGED <<rows, tx>> /\ PoolKept
<1>0. tx = v /\ v # None
  BY OperationsAssumption DEF TxHeld
<1> SUFFICES /\ UNCHANGED <<rows, tx>>
             /\ UNCHANGED pool \/ PolicyChange \/ \E b \in Binding : BindingDeleted(b)
  BY DEF pool, PoolKept, PolicyChange, BindingDeleted, TypeInv, TypeOK
<1> USE <1>0 DEF Unlocked, rows, pool
<1>1. ASSUME NEW w \in Worker, ByJob(w) PROVE UNCHANGED <<rows, pool, tx>>
  <2>1. CASE \/ Start(w) \/ ReadOperation(w) \/ EnterStep(w) \/ LastStepDone(w)
             \/ NoticesLoss(w) \/ Call(w) \/ CallAnswered(w) \/ CallLands(w)
    BY <2>1 DEF Start, ReadOperation, EnterStep, LastStepDone, NoticesLoss, Call,
       CallAnswered, CallLands
  <2>2. ~Claim(w) /\ ~PrepareStep(w) /\ ~BeginWrite(w) /\ ~RecordFailure(w)
        /\ ~SupersedeOperation(w) /\ ~Finalize(w)
    BY DEF Claim, PrepareStep, BeginWrite, RecordFailure, SupersedeOperation, Finalize
  <2>3. ~CommitStep(w)
    <3>1. SUFFICES ASSUME CommitStep(w) PROVE FALSE
      OBVIOUS
    <3>2. w = v
      BY <3>1 DEF CommitStep, TxHeld, InTx
    <3>3. job'[v] # job[v]
      BY <3>1, <3>2, IdleJobType DEF CommitStep, GoesOn, TypeInv, TypeOK, IdleJob
    <3>4. ~EnterStep(v) /\ ~PrepareStep(v) /\ ~BeginWrite(v) /\ ~Call(v)
          /\ ~CallLands(v) /\ ~CallAnswered(v)
      BY <3>1, <3>2 DEF CommitStep, EnterStep, PrepareStep, BeginWrite, Call,
         CallLands, CallAnswered, TypeInv, JobsInStep
    <3>5. QED BY <3>3, <3>4, InsideMoves
  <2>4. CASE ZoneLost(w) \/ StepThrows(w) \/ Crash(w)
    <3>1. w # v
      <4>1. ASSUME ZoneLost(v) PROVE FALSE
        BY <4>1 DEF ZoneLost, TypeInv, TypeOK, JobState, InTx
      <4>2. ASSUME StepThrows(v) PROVE FALSE
        BY <4>2 DEF StepThrows, TypeInv, TypeOK, JobState, InTx
      <4>3. ASSUME Crash(v) PROVE FALSE
        BY <4>3, IdleJobType DEF Crash, TypeInv, TypeOK, InTx
      <4>4. QED BY <2>4, <4>1, <4>2, <4>3
    <3>2. QED BY <2>4, <3>1 DEF ZoneLost, StepThrows, Crash, Rollback
  <2>5. QED BY <1>1, <2>1, <2>2, <2>3, <2>4 DEF ByJob, Execute
<1>2. CASE \/ \E k \in StepNo : LateCallLands(k) \/ ZoneLeaseExpires(k)
           \/ OperationLeaseExpires
  BY <1>2 DEF LateCallLands, ZoneLeaseExpires, OperationLeaseExpires
<1>3. CASE Environment
  BY <1>3 DEF Environment, RetryReads, RetryCommits, PublicationRetries, Cancel,
     NewDecision, PolicyChange, DeleteBinding, BindingDeleted
<1>4. CASE UNCHANGED vars
  BY <1>4 DEF vars
<1>5. QED BY <1>1, <1>2, <1>3, <1>4 DEF Next, ByJob

LEMMA TxStep ==
  ASSUME TypeInv, TxHeld, [Next]_vars
  PROVE  TxHeld'
<1> SUFFICES ASSUME NEW v \in Worker, job'[v].pc \in InTx PROVE tx' = v
  BY DEF TxHeld
<1>1. CASE job[v].pc \in InTx
  BY <1>1, LockedOut DEF TxHeld
<1>2. CASE Begins(v)
  BY <1>2 DEF Begins
<1>3. QED BY <1>1, <1>2, EntersTx

LEMMA WantedStep ==
  ASSUME TypeInv, TxHeld, Wanted, [Next]_vars
  PROVE  Wanted'
<1> SUFFICES ASSUME NEW v \in Worker, (job[v].pc \in InTx)'
             PROVE  StepWanted(job[v].step)'
  BY DEF Wanted
<1>1. CASE job[v].pc \in InTx /\ job'[v].step = job[v].step
  <2>1. UNCHANGED rows /\ PoolKept
    BY <1>1, LockedOut DEF InTx
  <2>2. StepWanted(job[v].step)
    BY <1>1 DEF Wanted
  <2>3. job[v].step \in StepNo
    BY <1>1 DEF TypeInv, JobsInStep, InTx, InStep
  <2>4. BindingOf[job[v].step] \in Binding
    BY <2>3, OperationsAssumption
  <2>5. QED BY <1>1, <2>1, <2>2, <2>4
          DEF StepWanted, Active, Terminal, Fenced, BindingLeft, PoolKept, rows, TypeInv, TypeOK
<1>2. CASE Begins(v)
  <2>1. job'[v].step = job[v].step
    BY <1>2 DEF Begins, TypeInv, TypeOK, JobState
  <2>2. QED BY <1>2, <2>1
          DEF Begins, StepWanted, Active, Terminal, Stale, Revision, Fenced, BindingLeft, rows, pool
<1>3. QED BY <1>1, <1>2, EntersTx DEF InTx

TxInv == TypeInv /\ TxHeld /\ Wanted

LEMMA TxInvariant == Spec => []TxInv
<1>1. Init => TxHeld /\ Wanted
  BY IdleJobType DEF Init, TxHeld, Wanted, InTx
<1>2. Init => TxInv
  BY <1>1, TypeInit DEF TxInv
<1>3. TxInv /\ [Next]_vars => TxInv'
  BY TypeStep, TxStep, WantedStep DEF TxInv
<1>4. QED BY <1>2, <1>3, PTL DEF Spec

\* No provider is asked for a change that a newer decision of the pool, a
\* cancellation or the deletion of the binding has made unwanted.  Edits of the
\* policy are not among these: they may be committed beside an open call.
THEOREM NoUnwantedWrite == Spec => []WritesAreWanted
<1>1. TxInv => WritesAreWanted
  BY DEF TxInv, Wanted, StepWanted, WritesAreWanted, InTx, Fenced
<1>2. QED BY TxInvariant, <1>1, PTL

-----------------------------------------------------------------------------
(* What the provider did.                                                  *)

\* The effect of a call that lands, late or not, or that is given up.
LEMMA ProviderStep ==
  ASSUME TypeInv, [Next]_vars, NEW k \in StepNo, provider'[k] # provider[k]
  PROVE  \/ \E v \in Worker :
              /\ CallLands(v) /\ job[v].step = k
              /\ provider'[k] = [provider[k] EXCEPT !.done = @ + 1]
         \/ /\ LateCallLands(k)
            /\ provider'[k].done = provider[k].done + 1
            /\ provider'[k].lateDone = provider[k].lateDone + 1
         \/ \E v \in Worker :
              /\ job[v].call = "open" /\ job[v].step = k
              /\ provider'[k] = [provider[k] EXCEPT !.late = @ + 1]
<1> USE DEF TypeInv, TypeOK
<1>1. ASSUME NEW w \in Worker, ByJob(w)
      PROVE  \/ CallLands(w)
             \/ Abandons(w)
  BY <1>1 DEF ByJob, Execute, Start, ReadOperation, Claim, EnterStep, LastStepDone,
     NoticesLoss, PrepareStep, BeginWrite, Call, CallAnswered, CommitStep, ZoneLost,
     RecordFailure, SupersedeOperation, Finalize, StepThrows, Crash, outside
<1>2. ASSUME NEW w \in Worker, CallLands(w)
      PROVE  /\ job[w].step = k
             /\ provider'[k] = [provider[k] EXCEPT !.done = @ + 1]
  BY <1>2 DEF CallLands
<1>3. ASSUME NEW w \in Worker, Abandons(w)
      PROVE  /\ job[w].call = "open" /\ job[w].step = k
             /\ provider'[k] = [provider[k] EXCEPT !.late = @ + 1]
  BY <1>3 DEF Abandons
<1>4. ASSUME NEW m \in StepNo, LateCallLands(m)
      PROVE  /\ m = k
             /\ provider'[k].done = provider[k].done + 1
             /\ provider'[k].lateDone = provider[k].lateDone + 1
  BY <1>4 DEF LateCallLands
<1>5. CASE \/ \E m \in StepNo : ZoneLeaseExpires(m)
           \/ OperationLeaseExpires \/ Environment
           \/ UNCHANGED vars
  BY <1>5 DEF ZoneLeaseExpires, OperationLeaseExpires, Environment, RetryReads,
     RetryCommits, PublicationRetries, Cancel, NewDecision, PolicyChange, DeleteBinding,
     BindingDeleted, outside, vars
<1>6. QED BY <1>1, <1>2, <1>3, <1>4, <1>5 DEF Next, ByJob

LEMMA DoneGrows ==
  ASSUME TypeInv, [Next]_vars, NEW k \in StepNo
  PROVE  provider'[k].done >= provider[k].done
<1>1. provider[k] \in ProviderState
  BY DEF TypeInv, TypeOK
<1>2. CASE provider'[k] = provider[k]
  BY <1>1, <1>2 DEF ProviderState
<1>3. CASE provider'[k] # provider[k]
  <2>1. ASSUME provider'[k] = [provider[k] EXCEPT !.done = @ + 1]
        PROVE  provider'[k].done >= provider[k].done
    BY <1>1, <2>1 DEF ProviderState
  <2>2. ASSUME provider'[k] = [provider[k] EXCEPT !.late = @ + 1]
        PROVE  provider'[k].done >= provider[k].done
    BY <1>1, <2>2 DEF ProviderState
  <2>3. ASSUME provider'[k].done = provider[k].done + 1
        PROVE  provider'[k].done >= provider[k].done
    BY <1>1, <2>3 DEF ProviderState
  <2>4. QED BY <1>3, <2>1, <2>2, <2>3, ProviderStep
<1>4. QED BY <1>2, <1>3

\* A step becomes a success only when its change is at the provider.
LEMMA SuccessStep ==
  ASSUME TypeInv, [Next]_vars, NEW k \in StepNo,
         steps[k].status # "succeeded", steps'[k].status = "succeeded"
  PROVE  provider[k].done > 0
<1>0. steps \in [StepNo -> StepRow]
  BY DEF TypeInv, TypeOK
<1>1. CASE UNCHANGED steps
  BY <1>1
<1>2. ASSUME NEW w \in Worker, ByJob(w) PROVE provider[k].done > 0
  <2>1. ~PrepareStep(w) /\ ~RecordFailure(w)
    BY <1>0, <1>1 DEF PrepareStep, RecordFailure
  <2>2. ~BeginWrite(w)
    BY <1>0, <1>1 DEF BeginWrite, SkipsStep, StepRow
  <2>3. CASE CommitStep(w)
    BY <1>0, <2>3 DEF CommitStep, StepRow
  <2>4. ~SupersedeOperation(w) /\ ~Finalize(w)
    BY <1>0, <1>1 DEF SupersedeOperation, Finalize, SkipUnfinished, StepRow, rows
  <2>5. CASE \/ Start(w) \/ ReadOperation(w) \/ Claim(w) \/ EnterStep(w)
             \/ LastStepDone(w) \/ NoticesLoss(w) \/ Call(w) \/ CallAnswered(w)
             \/ ZoneLost(w) \/ StepThrows(w) \/ CallLands(w) \/ Crash(w)
    BY <1>1, <2>5 DEF Start, ReadOperation, Claim, EnterStep, LastStepDone,
       NoticesLoss, Call, CallAnswered, ZoneLost, StepThrows, CallLands, Crash, rows
  <2>6. QED BY <1>2, <2>1, <2>2, <2>3, <2>4, <2>5 DEF ByJob, Execute
<1>3. CASE \/ \E m \in StepNo : LateCallLands(m) \/ ZoneLeaseExpires(m)
           \/ OperationLeaseExpires \/ UNCHANGED vars
  BY <1>1, <1>3 DEF LateCallLands, ZoneLeaseExpires, OperationLeaseExpires, rows, vars
<1>4. CASE Environment
  <2>1. CASE \E r \in Request :
               RetryReads(r) \/ RetryCommits(r) \/ PublicationRetries(r)
    BY <1>0, <1>1, <2>1
       DEF RetryReads, RetryCommits, PublicationRetries, Revive, Failed, StepRow, rows
  <2>2. CASE Cancel
    BY <1>0, <1>1, <2>2 DEF Cancel, StepRow
  <2>3. CASE NewDecision \/ PolicyChange \/ \E b \in Binding : DeleteBinding(b) \/ BindingDeleted(b)
    BY <1>1, <2>3 DEF NewDecision, PolicyChange, DeleteBinding, BindingDeleted, rows
  <2>4. QED BY <1>4, <2>1, <2>2, <2>3 DEF Environment
<1>5. QED BY <1>2, <1>3, <1>4 DEF Next, ByJob

\* A step is reported as succeeded only when the provider has made its change,
\* whatever was lost, retried or given up.
THEOREM SuccessIsReal == Spec => []SucceededIsMade
<1>1. Init => SucceededIsMade
  BY DEF Init, SucceededIsMade
<1>2. SucceededIsMade /\ TypeInv /\ [Next]_vars => SucceededIsMade'
  <2> SUFFICES ASSUME SucceededIsMade, TypeInv, [Next]_vars,
                      NEW k \in StepNo, steps'[k].status = "succeeded"
               PROVE  provider'[k].done > 0
    BY DEF SucceededIsMade
  <2>1. provider[k].done > 0
    BY SuccessStep DEF SucceededIsMade
  <2>2. provider[k] \in ProviderState /\ provider'[k] \in ProviderState
    BY TypeStep DEF TypeInv, TypeOK
  <2>3. QED BY <2>1, <2>2, DoneGrows DEF ProviderState
<1>3. QED BY Types, <1>1, <1>2, PTL DEF Spec

-----------------------------------------------------------------------------
(* Bindings follow their steps.                                            *)

DeletingIsPool == \A b \in Binding : binding[b] = "deleting" => plan.kind = "pool"

LEMMA PlanStep ==
  ASSUME [Next]_vars
  PROVE  plan' = plan
<1>1. ASSUME NEW w \in Worker, ByJob(w) PROVE plan' = plan
  BY <1>1 DEF ByJob, Execute, Start, ReadOperation, Claim, EnterStep, LastStepDone,
     NoticesLoss, PrepareStep, BeginWrite, Call, CallAnswered, CommitStep, ZoneLost,
     RecordFailure, SupersedeOperation, Finalize, StepThrows, CallLands, Crash, pool
<1>2. QED BY <1>1
  DEF Next, ByJob, LateCallLands, ZoneLeaseExpires, OperationLeaseExpires, Environment,
      RetryReads, RetryCommits, PublicationRetries, Cancel, NewDecision, PolicyChange,
      DeleteBinding, BindingDeleted, pool, vars

\* A binding changes at the end of its operation, or by the deletion.
LEMMA BindingStep ==
  ASSUME TypeInv, [Next]_vars, NEW b \in Binding, binding'[b] # binding[b]
  PROVE  \/ binding'[b] = FinalBinding(b)
         \/ plan.kind = "pool" /\ binding'[b] \in {"deleting", "gone"}
         \/ binding[b] = "deleting" /\ binding'[b] = "gone"
<1>1. ASSUME NEW w \in Worker, ByJob(w) PROVE binding'[b] = FinalBinding(b)
  <2>1. CASE Finalize(w)
    BY <2>1 DEF Finalize
  <2>2. CASE ~Finalize(w)
    BY <1>1, <2>2 DEF ByJob, Execute, Start, ReadOperation, Claim, EnterStep,
       LastStepDone, NoticesLoss, PrepareStep, BeginWrite, Call, CallAnswered,
       CommitStep, ZoneLost, RecordFailure, SupersedeOperation, StepThrows,
       CallLands, Crash, pool
  <2>3. QED BY <2>1, <2>2
<1>2. ASSUME NEW c \in Binding, DeleteBinding(c)
      PROVE  plan.kind = "pool" /\ binding'[b] \in {"deleting", "gone"}
  BY <1>2 DEF DeleteBinding, TypeInv, TypeOK
<1>3. ASSUME NEW c \in Binding, BindingDeleted(c)
      PROVE  binding[b] = "deleting" /\ binding'[b] = "gone"
  BY <1>3 DEF BindingDeleted, TypeInv, TypeOK
<1>4. CASE \/ \E k \in StepNo : LateCallLands(k) \/ ZoneLeaseExpires(k)
           \/ OperationLeaseExpires \/ Cancel \/ NewDecision \/ PolicyChange
           \/ \E r \in Request :
                RetryReads(r) \/ RetryCommits(r) \/ PublicationRetries(r)
           \/ UNCHANGED vars
  BY <1>4 DEF LateCallLands, ZoneLeaseExpires, OperationLeaseExpires, RetryReads,
     RetryCommits, PublicationRetries, Cancel, NewDecision, PolicyChange, pool, vars
<1>5. QED BY <1>1, <1>2, <1>3, <1>4 DEF Next, Environment, ByJob

LEMMA DeletingStep ==
  ASSUME TypeInv, DeletingIsPool, [Next]_vars
  PROVE  DeletingIsPool'
<1> SUFFICES ASSUME NEW b \in Binding, binding'[b] = "deleting"
             PROVE  plan.kind = "pool"
  BY PlanStep DEF DeletingIsPool
<1>1. CASE binding'[b] = binding[b]
  BY <1>1 DEF DeletingIsPool
<1>2. CASE binding'[b] = FinalBinding(b)
  BY <1>2 DEF FinalBinding, DeletingIsPool
<1>3. QED BY <1>1, <1>2, BindingStep

LEMMA BindingFollowsStep ==
  ASSUME TypeInv, DeletingIsPool, BindingFollowsSteps, [Next]_vars
  PROVE  BindingFollowsSteps'
<1> SUFFICES ASSUME NEW b \in Binding,
                    \/ binding'[b] = "healthy"
                    \/ binding'[b] = "gone" /\ plan.kind = "binding",
                    NEW k \in StepsOf(b)
             PROVE  steps'[k].status \in Settled
  BY PlanStep DEF BindingFollowsSteps, StepsOf
<1>0. k \in StepNo /\ steps[k] \in StepRow
  BY DEF StepsOf, TypeInv, TypeOK
<1>1. steps[k].status \in Settled
  <2>1. CASE binding'[b] = binding[b]
    BY <2>1 DEF BindingFollowsSteps
  <2>2. CASE binding'[b] # binding[b] /\ binding'[b] = FinalBinding(b)
    BY <1>0, <2>2 DEF FinalBinding, Failed, Unfinished, Settled, StepRow
  <2>3. CASE binding'[b] # binding[b] /\ plan.kind = "pool"
             /\ binding'[b] \in {"deleting", "gone"}
    BY <2>3
  <2>4. CASE binding[b] = "deleting" /\ binding'[b] = "gone"
    BY <2>4 DEF DeletingIsPool
  <2>5. QED BY <2>1, <2>2, <2>3, <2>4, BindingStep
<1>2. QED BY <1>0, <1>1, SettledStep

\* No binding is announced as healthy, and none is removed by its deletion,
\* while a step for it is left to do or has failed.
THEOREM BindingIsTrue == Spec => []BindingFollowsSteps
<1>1. Init => DeletingIsPool /\ BindingFollowsSteps
  BY DEF Init, DeletingIsPool, BindingFollowsSteps
<1>2. TypeInv /\ DeletingIsPool /\ BindingFollowsSteps /\ [Next]_vars
        => (DeletingIsPool /\ BindingFollowsSteps)'
  BY DeletingStep, BindingFollowsStep
<1>3. QED BY Types, <1>1, <1>2, PTL DEF Spec

-----------------------------------------------------------------------------
(* Nothing is created twice.                                               *)

Working == {"prepared"} \cup InTx

Untouched(k) == provider[k].done = 0 /\ provider[k].late = 0

\* A step without an attempt was not sent to the provider, and no job is about to.
UntriedUntouched ==
  \A k \in StepNo : ~steps[k].tried =>
    /\ Untouched(k)
    /\ \A w \in Worker : job[w].step = k => job[w].pc \notin Working

\* What a job has read of the attempts is still true while it has the zone.
FirstTry ==
  \A w \in Worker :
    LET k == job[w].step IN
    /\ job[w].pc \in {"preparing", "prepared"} /\ zone[k] = w /\ ~job[w].tried =>
         /\ Untouched(k)
         /\ \A v \in Worker : job[v].step = k => job[v].pc \notin InTx
    /\ job[w].pc = "looking" /\ ~job[w].tried => Untouched(k)

\* A create is sent only when all that the provider made came from late calls.
CallsCounted ==
  \A k \in StepNo : plan.action[k] = "create" =>
    /\ provider[k].lateDone <= provider[k].done
    /\ provider[k].done <= 1 + provider[k].lateDone
    /\ \A w \in Worker : job[w].call = "open" /\ job[w].step = k =>
         provider[k].done = provider[k].lateDone

OnceInv == TxInv /\ UntriedUntouched /\ FirstTry /\ CallsCounted

LEMMA TriedStep ==
  ASSUME TypeInv, [Next]_vars, NEW k \in StepNo, steps[k].tried
  PROVE  steps'[k].tried
<1>0. steps \in [StepNo -> StepRow]
  BY DEF TypeInv, TypeOK
<1>1. CASE UNCHANGED steps
  BY <1>1
<1>2. ASSUME NEW w \in Worker, ByJob(w) PROVE steps'[k].tried
  <2>1. CASE PrepareStep(w) \/ RecordFailure(w)
    BY <1>0, <2>1 DEF PrepareStep, RecordFailure
  <2>2. CASE BeginWrite(w) \/ CommitStep(w)
    BY <1>0, <2>2 DEF BeginWrite, CommitStep, SkipsStep, StepRow
  <2>3. CASE SupersedeOperation(w) \/ Finalize(w)
    BY <1>0, <2>3 DEF SupersedeOperation, Finalize, SkipUnfinished, StepRow, rows
  <2>4. CASE \/ Start(w) \/ ReadOperation(w) \/ Claim(w) \/ EnterStep(w)
             \/ LastStepDone(w) \/ NoticesLoss(w) \/ Call(w) \/ CallAnswered(w)
             \/ ZoneLost(w) \/ StepThrows(w) \/ CallLands(w) \/ Crash(w)
    BY <1>1, <2>4 DEF Start, ReadOperation, Claim, EnterStep, LastStepDone,
       NoticesLoss, Call, CallAnswered, ZoneLost, StepThrows, CallLands, Crash, rows
  <2>5. QED BY <1>2, <2>1, <2>2, <2>3, <2>4 DEF ByJob, Execute
<1>3. CASE \/ \E m \in StepNo : LateCallLands(m) \/ ZoneLeaseExpires(m)
           \/ OperationLeaseExpires \/ UNCHANGED vars
  BY <1>1, <1>3 DEF LateCallLands, ZoneLeaseExpires, OperationLeaseExpires, rows, vars
<1>4. CASE Environment
  <2>1. CASE \E r \in Request :
               RetryReads(r) \/ RetryCommits(r) \/ PublicationRetries(r)
    BY <1>0, <1>1, <2>1
       DEF RetryReads, RetryCommits, PublicationRetries, Revive, StepRow, rows
  <2>2. CASE Cancel
    BY <1>0, <2>2 DEF Cancel, StepRow
  <2>3. CASE NewDecision \/ PolicyChange \/ \E b \in Binding : DeleteBinding(b) \/ BindingDeleted(b)
    BY <1>1, <2>3 DEF NewDecision, PolicyChange, DeleteBinding, BindingDeleted, rows
  <2>4. QED BY <1>4, <2>1, <2>2, <2>3 DEF Environment
<1>5. QED BY <1>2, <1>3, <1>4 DEF Next, ByJob

LEMMA ZoneStep ==
  ASSUME TypeInv, [Next]_vars, NEW k \in StepNo, NEW v \in Worker, zone'[k] = v
  PROVE  zone[k] = v \/ (EnterStep(v) /\ job[v].step = k)
<1>0. zone \in [StepNo -> Worker \cup {None}] /\ v # None
  BY OperationsAssumption DEF TypeInv, TypeOK
<1>1. ASSUME zone' = zone PROVE zone[k] = v
  BY <1>1
<1>2. ASSUME NEW w \in Worker, LeavesZone(w) PROVE zone[k] = v
  BY <1>0, <1>2 DEF LeavesZone
<1>3. ASSUME NEW w \in Worker, ByJob(w)
      PROVE  zone[k] = v \/ (EnterStep(v) /\ job[v].step = k)
  <2>1. CASE EnterStep(w)
    <3>1. CASE zone' = zone
      BY <1>1, <3>1
    <3>2. CASE zone' = [zone EXCEPT ![job[w].step] = w]
      <4>1. CASE job[w].step = k
        <5>1. w = v
          BY <1>0, <3>2, <4>1
        <5>2. QED BY <2>1, <4>1, <5>1
      <4>2. CASE job[w].step # k
        BY <1>0, <3>2, <4>2
      <4>3. QED BY <4>1, <4>2
    <3>3. QED BY <2>1, <3>1, <3>2 DEF EnterStep
  <2>2. CASE PrepareStep(w) \/ BeginWrite(w) \/ CommitStep(w) \/ StepThrows(w)
    <3>1. zone' = zone \/ LeavesZone(w)
      BY <2>2 DEF PrepareStep, BeginWrite, CommitStep, StepThrows
    <3>2. QED BY <1>1, <1>2, <3>1
  <2>3. CASE \/ Start(w) \/ ReadOperation(w) \/ Claim(w) \/ LastStepDone(w)
             \/ NoticesLoss(w) \/ Call(w) \/ CallAnswered(w) \/ ZoneLost(w)
             \/ RecordFailure(w) \/ SupersedeOperation(w) \/ Finalize(w)
             \/ CallLands(w) \/ Crash(w)
    BY <1>1, <2>3 DEF Start, ReadOperation, Claim, LastStepDone, NoticesLoss, Call,
       CallAnswered, ZoneLost, RecordFailure, SupersedeOperation, Finalize,
       CallLands, Crash, leases
  <2>4. QED BY <1>3, <2>1, <2>2, <2>3 DEF ByJob, Execute
<1>4. ASSUME NEW m \in StepNo, ZoneLeaseExpires(m) PROVE zone[k] = v
  BY <1>0, <1>4 DEF ZoneLeaseExpires
<1>5. CASE \/ \E m \in StepNo : LateCallLands(m)
           \/ OperationLeaseExpires \/ Environment \/ UNCHANGED vars
  BY <1>1, <1>5 DEF LateCallLands, OperationLeaseExpires, Environment, RetryReads,
     RetryCommits, PublicationRetries, Cancel, NewDecision, PolicyChange, DeleteBinding,
     BindingDeleted, leases, vars
<1>6. QED BY <1>3, <1>4, <1>5 DEF Next, ByJob

\* What no call can reach stays as it is.
LEMMA UntouchedStep ==
  ASSUME TypeInv, [Next]_vars, NEW k \in StepNo, Untouched(k),
         \A v \in Worker : job[v].step = k => job[v].pc # "waiting"
  PROVE  Untouched(k)'
<1>1. \A v \in Worker : job[v].step = k => job[v].call # "open" /\ ~CallLands(v)
  BY DEF TypeInv, JobsInStep, CallLands
<1>2. ~LateCallLands(k)
  BY DEF LateCallLands, Untouched
<1>3. provider'[k] = provider[k]
  BY <1>1, <1>2, ProviderStep
<1>4. QED BY <1>3 DEF Untouched

LEMMA UntriedStep ==
  ASSUME OnceInv, [Next]_vars
  PROVE  UntriedUntouched'
<1> USE DEF OnceInv, TxInv
<1> SUFFICES ASSUME NEW k \in StepNo, ~steps'[k].tried
             PROVE  /\ Untouched(k)'
                    /\ \A w \in Worker : job'[w].step = k => job'[w].pc \notin Working
  BY DEF UntriedUntouched
<1>1. ~steps[k].tried
  BY TriedStep
<1>2. Untouched(k)'
  BY <1>1, UntouchedStep DEF UntriedUntouched, Working, InTx
<1>3. ASSUME NEW w \in Worker, job'[w].step = k, job'[w].pc \in Working
      PROVE  FALSE
  <2>1. CASE job'[w] = job[w]
    BY <1>1, <1>3, <2>1 DEF UntriedUntouched
  <2>2. CASE job'[w].pc \in InTx
    <3>1. job[w].pc \in Working /\ job[w].step = k
      BY <1>3, <2>2, EntersTx DEF Begins, Working, InTx, TypeInv, TypeOK, JobState
    <3>2. QED BY <1>1, <3>1 DEF UntriedUntouched
  <2>3. CASE job'[w].pc = "prepared" /\ job'[w] # job[w]
    <3>1. PrepareStep(w)
      <4>1. ~GoesOn(w) /\ ~Goes(w, "superseding") /\ ~Goes(w, "looking")
            /\ ~Goes(w, "verifying")
        BY <2>3, NewPc DEF PC, InStep
      <4>2. ~EnterStep(w) /\ ~BeginWrite(w)
        BY <2>3, <4>1 DEF EnterStep, BeginWrite, TypeInv, TypeOK, JobState
      <4>3. ~Call(w)
        BY <2>3, <4>1 DEF Call, TypeInv, TypeOK, JobState
      <4>4. ~CallLands(w) /\ ~CallAnswered(w)
        BY <2>3 DEF CallLands, CallAnswered, TypeInv, TypeOK, JobState, JobsInStep
      <4>5. QED BY <2>3, <4>2, <4>3, <4>4, InsideMoves
    <3>2. job[w].step = k /\ Goes(w, "prepared")
      <4>1. ~Goes(w, "superseding")
        BY <2>3, NewPc DEF PC
      <4>2. Goes(w, "prepared")
        BY <3>1, <4>1 DEF PrepareStep
      <4>3. QED BY <1>3, <4>2, NewPc DEF PC, InStep
    <3>3. steps'[k].tried
      <4>1. ~Goes(w, "superseding")
        BY <2>3, NewPc DEF PC
      <4>2. QED BY <3>1, <3>2, <4>1 DEF PrepareStep, TypeInv, TypeOK
    <3>4. QED BY <3>3
  <2>4. QED BY <1>3, <2>1, <2>2, <2>3 DEF Working
<1>4. QED BY <1>2, <1>3

\* Only the holder of a zone begins a write of its step.
LEMMA NewWriter ==
  ASSUME TypeInv, [Next]_vars, NEW v \in Worker, NEW k \in StepNo,
         job'[v].step = k, job'[v].pc \in InTx
  PROVE  \/ job[v].step = k /\ job[v].pc \in InTx
         \/ job[v].step = k /\ zone[k] = v /\ Begins(v)
BY EntersTx DEF Begins, TypeInv, TypeOK, JobState

LEMMA FirstTryStep ==
  ASSUME OnceInv, [Next]_vars
  PROVE  FirstTry'
<1> USE DEF OnceInv, TxInv
<1>1. ASSUME NEW w \in Worker, NEW k \in StepNo, job'[w].step = k,
             job'[w].pc \in {"preparing", "prepared"}, zone'[k] = w, ~job'[w].tried
      PROVE  /\ Untouched(k)'
             /\ \A v \in Worker : job'[v].step = k => job'[v].pc \notin InTx
  <2>1. CASE EnterStep(w)
    <3>1. /\ job[w].step = k /\ ~steps[k].tried
          /\ \A v \in Worker : v # w => job'[v] = job[v]
          /\ provider' = provider
      <4>1. ~GoesOn(w)
        BY <1>1, NewPc
      <4>2. QED BY <1>1, <2>1, <4>1
              DEF EnterStep, outside, TypeInv, TypeOK, JobState
    <3>2. Untouched(k) /\ \A v \in Worker : job[v].step = k => job[v].pc \notin InTx
      BY <3>1 DEF UntriedUntouched, Working
    <3>3. QED BY <1>1, <3>1, <3>2 DEF Untouched, InTx
  <2>2. CASE ~EnterStep(w)
    <3>1. zone[k] = w
      BY <1>1, <2>2, ZoneStep
    <3>2. /\ job[w].pc \in {"preparing", "prepared"}
          /\ job[w].step = k /\ ~job[w].tried
      <4>1. CASE job'[w] = job[w]
        BY <1>1, <4>1
      <4>2. CASE job'[w] # job[w]
        <5>1. /\ ~GoesOn(w)
              /\ \A at \in {"superseding", "looking", "verifying"} : ~Goes(w, at)
          BY <1>1, NewPc DEF PC, InStep
        <5>2. ~BeginWrite(w) /\ ~Call(w) /\ ~CallLands(w) /\ ~CallAnswered(w)
          <6>1. ~BeginWrite(w)
            BY <5>1 DEF BeginWrite
          <6>2. ~Call(w)
            BY <1>1, <5>1 DEF Call, TypeInv, TypeOK, JobState
          <6>3. ~CallLands(w) /\ ~CallAnswered(w)
            BY <1>1 DEF CallLands, CallAnswered, TypeInv, TypeOK, JobState, JobsInStep
          <6>4. QED BY <6>1, <6>2, <6>3
        <5>3. PrepareStep(w)
          BY <1>1, <2>2, <4>2, <5>2, InsideMoves
        <5>4. job[w].pc = "preparing" /\ Goes(w, "prepared")
          BY <5>1, <5>3 DEF PrepareStep
        <5>5. QED BY <1>1, <5>4 DEF Goes, TypeInv, TypeOK, JobState
      <4>3. QED BY <4>1, <4>2
    <3>3. Untouched(k) /\ \A v \in Worker : job[v].step = k => job[v].pc \notin InTx
      BY <3>1, <3>2 DEF FirstTry
    <3>4. Untouched(k)'
      BY <3>3, UntouchedStep DEF InTx
    <3>5. ASSUME NEW v \in Worker, job'[v].step = k, job'[v].pc \in InTx PROVE FALSE
      <4>1. Begins(v) /\ v = w
        BY <3>1, <3>3, <3>5, NewWriter
      <4>2. job'[w].pc = "looking"
        BY <4>1 DEF Begins, TypeInv, TypeOK
      <4>3. QED BY <1>1, <4>2
    <3>6. QED BY <3>4, <3>5
  <2>3. QED BY <2>1, <2>2
<1>2. ASSUME NEW w \in Worker, NEW k \in StepNo, job'[w].step = k,
             job'[w].pc = "looking", ~job'[w].tried
      PROVE  Untouched(k)'
  <2>1. CASE Begins(w)
    <3>1. job[w].step = k /\ ~job[w].tried /\ provider' = provider
      BY <1>2, <2>1 DEF Begins, outside, TypeInv, TypeOK, JobState
    <3>2. Untouched(k)
      BY <2>1, <3>1 DEF FirstTry, Begins
    <3>3. QED BY <3>1, <3>2 DEF Untouched
  <2>2. CASE ~Begins(w)
    <3>1. job[w].step = k /\ job[w].pc \in InTx
      BY <1>2, <2>2, NewWriter DEF InTx
    <3>2. job'[w] = job[w]
      <4>1. SUFFICES ASSUME job'[w] # job[w] PROVE FALSE
        OBVIOUS
      <4>2. ~EnterStep(w) /\ ~PrepareStep(w) /\ ~BeginWrite(w)
        BY <3>1 DEF EnterStep, PrepareStep, BeginWrite, InTx
      <4>3. ~Call(w) /\ ~CallLands(w) /\ ~CallAnswered(w)
        BY <1>2 DEF Call, CallLands, CallAnswered, Goes, TypeInv, TypeOK, JobState,
           JobsInStep
      <4>4. QED BY <1>2, <4>1, <4>2, <4>3, InsideMoves DEF InTx
    <3>3. Untouched(k)
      BY <1>2, <3>1, <3>2 DEF FirstTry
    <3>4. \A v \in Worker : job[v].step = k => job[v].pc # "waiting"
      BY <1>2, <3>1, <3>2 DEF TxHeld, InTx
    <3>5. QED BY <3>3, <3>4, UntouchedStep
  <2>3. QED BY <2>1, <2>2
<1>3. \A w \in Worker : job'[w].pc \in {"preparing", "prepared", "looking"}
        => job'[w].step \in StepNo
  BY TypeStep DEF TypeInv, JobsInStep, InStep
<1>4. QED BY <1>1, <1>2, <1>3 DEF FirstTry

LEMMA CallsCountedStep ==
  ASSUME OnceInv, [Next]_vars
  PROVE  CallsCounted'
<1> USE DEF OnceInv, TxInv
<1> SUFFICES ASSUME NEW k \in StepNo, plan.action[k] = "create"
             PROVE  /\ provider'[k].lateDone <= provider'[k].done
                    /\ provider'[k].done <= 1 + provider'[k].lateDone
                    /\ \A w \in Worker : job'[w].call = "open" /\ job'[w].step = k =>
                         provider'[k].done = provider'[k].lateDone
  BY PlanStep DEF CallsCounted
<1>0. /\ provider[k] \in ProviderState
      /\ provider[k].lateDone <= provider[k].done
      /\ provider[k].done <= 1 + provider[k].lateDone
  BY DEF TypeInv, TypeOK, CallsCounted
<1>1. ASSUME NEW w \in Worker, job'[w].call = "open", job'[w].step = k
      PROVE  provider[k].done = provider[k].lateDone /\ ~\E v \in Worker : CallLands(v)
  <2>1. job'[w].pc = "waiting" /\ job'[w].pc \in InTx
    BY <1>1, TypeStep DEF TypeInv, JobsInStep, InTx
  <2>2. ~Begins(w)
    BY <2>1 DEF Begins, TypeInv, TypeOK, JobState
  <2>3. job[w].step = k /\ job[w].pc \in InTx
    BY <1>1, <2>1, <2>2, NewWriter
  <2>4. ASSUME NEW v \in Worker, CallLands(v) PROVE FALSE
    <3>1. v = w
      BY <2>3, <2>4 DEF CallLands, TypeInv, JobsInStep, TxHeld, InTx
    <3>2. job'[w].call = "landed"
      BY <2>4, <3>1 DEF CallLands, TypeInv, TypeOK, JobState
    <3>3. QED BY <1>1, <3>2
  <2>5. provider[k].done = provider[k].lateDone
    <3>1. CASE job[w].call = "open"
      BY <2>3, <3>1 DEF CallsCounted
    <3>2. CASE job[w].call # "open"
      <4>1. job'[w] # job[w]
        BY <1>1, <3>2
      <4>2. ~EnterStep(w) /\ ~PrepareStep(w) /\ ~BeginWrite(w)
        BY <2>3 DEF EnterStep, PrepareStep, BeginWrite, InTx
      <4>3. ~CallLands(w) /\ ~CallAnswered(w)
        BY <2>1, <2>4 DEF CallAnswered, TypeInv, TypeOK, JobState
      <4>4. Call(w)
        BY <2>1, <4>1, <4>2, <4>3, InsideMoves DEF InTx
      <4>5. NeedsCall(w, k) /\ job[w].pc = "looking"
        <5>1. ~Goes(w, "verifying")
          BY <2>1, NewPc DEF PC, InStep
        <5>2. QED BY <2>3, <4>4, <5>1 DEF Call
      <4>6. provider[k].done = 0
        BY <2>3, <4>5 DEF NeedsCall, FirstTry, Untouched
      <4>7. QED BY <1>0, <4>6 DEF ProviderState
    <3>3. QED BY <3>1, <3>2
  <2>6. QED BY <2>4, <2>5
<1>2. CASE provider'[k] = provider[k]
  BY <1>0, <1>1, <1>2
<1>3. ASSUME NEW v \in Worker, CallLands(v), job[v].step = k,
             provider'[k] = [provider[k] EXCEPT !.done = @ + 1]
      PROVE  /\ provider'[k].lateDone <= provider'[k].done
             /\ provider'[k].done <= 1 + provider'[k].lateDone
  <2>1. provider[k].done = provider[k].lateDone
    BY <1>3 DEF CallLands, CallsCounted
  <2>2. QED BY <1>0, <1>3, <2>1 DEF ProviderState
<1>4. CASE \E v \in Worker :
             /\ CallLands(v) /\ job[v].step = k
             /\ provider'[k] = [provider[k] EXCEPT !.done = @ + 1]
  BY <1>1, <1>3, <1>4
<1>5. CASE /\ provider'[k].done = provider[k].done + 1
           /\ provider'[k].lateDone = provider[k].lateDone + 1
  BY <1>0, <1>1, <1>5 DEF ProviderState
<1>6. CASE provider'[k] = [provider[k] EXCEPT !.late = @ + 1]
  BY <1>0, <1>1, <1>6 DEF ProviderState
<1>7. QED BY <1>2, <1>4, <1>5, <1>6, ProviderStep

\* No record is created twice by crashes, retries and lost leases: each one too
\* many is the effect of a call that its job had given up.
THEOREM NothingTwice == Spec => []CreatedOnce
<1>1. Init => UntriedUntouched /\ FirstTry /\ CallsCounted
  BY IdleJobType
     DEF Init, UntriedUntouched, FirstTry, CallsCounted, Untouched, Working, InTx
<1>2. OnceInv /\ TxInv' /\ [Next]_vars => OnceInv'
  BY UntriedStep, FirstTryStep, CallsCountedStep DEF OnceInv
<1>3. OnceInv => CreatedOnce
  BY DEF OnceInv, CallsCounted, CreatedOnce
<1>4. Init /\ TxInv => OnceInv
  BY <1>1 DEF OnceInv
<1>5. QED BY TxInvariant, <1>2, <1>3, <1>4, PTL DEF Spec

-----------------------------------------------------------------------------
(* The Redis lease.                                                        *)

\* No release of a call is under way before its action has ended.
NoEarlyRelease ==
  \A s \in Session :
    pc[s] \in {"idle", "setting", "polling", "action", "draining"} => cmd[s]["release"] = "none"

\* The key was set or refreshed at most CommandTimeout - timer[s] ago.
Fresh(s) == holder = s /\ ttl + CommandTimeout >= LeaseTime + timer[s]

AcquireMargin ==
  \A s \in Session :
    pc[s] = "setting" =>
      /\ timer[s] <= CommandTimeout
      /\ cmd[s]["set"] = "ok" => Fresh(s)

\* What is left of the lease covers the rest of the wait and the next command.
RenewMargin(s) ==
  \/ /\ renewal[s] = "delay"
     /\ holder = s
     /\ ttl > timer[s] + CommandTimeout
  \/ /\ renewal[s] = "command"
     /\ timer[s] <= CommandTimeout
     /\ holder = s
     /\ ttl > timer[s]
     /\ cmd[s]["refresh"] # "no"
     /\ cmd[s]["refresh"] = "ok" => Fresh(s)

LeaseMargin == \A s \in Session : Owns(s) => RenewMargin(s)

IInv == LeaseTypeOK /\ NoEarlyRelease /\ AcquireMargin /\ LeaseMargin

-----------------------------------------------------------------------------

LEMMA LeastBound ==
  ASSUME NEW a \in Nat, NEW b \in Nat
  PROVE  Least(a, b) \in Nat /\ Least(a, b) <= b
BY DEF Least

LEMMA RenewContinuesType ==
  ASSUME LeaseTypeOK, NEW s \in Session, NEW renewed \in BOOLEAN, RenewContinues(s, renewed)
  PROVE  /\ pc' \in [Session -> Location]
         /\ renewal' \in [Session -> {"stopped", "delay", "command"}]
         /\ lost' \in [Session -> BOOLEAN]
         /\ timer' \in [Session -> Nat]
<1> USE OptionsAssumption DEF Positive, LeaseTypeOK
<1>1. lost' \in [Session -> BOOLEAN]
  BY DEF RenewContinues
<1>2. pc' \in [Session -> Location]
  BY DEF RenewContinues, SendRelease, Location
<1>3. renewal' \in [Session -> {"stopped", "delay", "command"}]
  BY DEF RenewContinues, SendRelease
<1>4. timer' \in [Session -> Nat]
  BY DEF RenewContinues, SendRelease
<1>5. QED BY <1>1, <1>2, <1>3, <1>4

\* Every variable of every call keeps its type, along every action of a call,
\* Redis or the clock (withRedisLease).
THEOREM LeaseTypeCorrect == LeaseSpec => []LeaseTypeOK
<1> USE OptionsAssumption DEF Positive
<1>1. LeaseInit => LeaseTypeOK
  BY DEF LeaseInit, LeaseTypeOK, Location, Command, CommandState
<1>2. LeaseTypeOK /\ [LeaseNext]_leaseVars => LeaseTypeOK'
  <2> SUFFICES ASSUME LeaseTypeOK, [LeaseNext]_leaseVars PROVE LeaseTypeOK'
    OBVIOUS
  <2> USE DEF LeaseTypeOK, Location, Command, CommandState
  <2>1. ASSUME NEW s \in Session, CallStarts(s) PROVE LeaseTypeOK'
    BY <2>1, LeastBound DEF CallStarts, SendSet
  <2>2. ASSUME NEW s \in Session, AcquireAnswered(s) PROVE LeaseTypeOK'
    <3>1. cmd' \in [Session -> [Command -> CommandState]]
      BY <2>2 DEF AcquireAnswered
    <3>2. pc' \in [Session -> Location] /\ renewal' \in [Session -> {"stopped", "delay", "command"}]
      BY <2>2 DEF AcquireAnswered, Throw
    <3>3. timer' \in [Session -> Nat]
      <4>1. Least(PollInterval, wait[s]) \in Nat
        BY LeastBound
      <4>2. QED BY <2>2, <4>1 DEF AcquireAnswered, Throw
    <3>4. wait' \in [Session -> Nat]
      BY <2>2 DEF AcquireAnswered, Throw
    <3>5. QED BY <2>2, <3>1, <3>2, <3>3, <3>4 DEF AcquireAnswered
  <2>3. ASSUME NEW s \in Session, AcquireTimesOut(s) PROVE LeaseTypeOK'
    BY <2>3 DEF AcquireTimesOut, Throw
  <2>4. ASSUME NEW s \in Session, PollAgain(s) PROVE LeaseTypeOK'
    <3>1. CASE wait[s] > 0
      <4>1. Least(wait[s], CommandTimeout) \in Nat
        BY LeastBound
      <4>2. SendSet(s, wait[s]) /\ UNCHANGED <<holder, ttl, renewal, lost, failed>>
        BY <2>4, <3>1 DEF PollAgain
      <4>3. cmd' \in [Session -> [Command -> CommandState]]
        BY <4>2 DEF SendSet
      <4>4. pc' \in [Session -> Location]
        BY <4>2 DEF SendSet
      <4>5. timer' \in [Session -> Nat]
        BY <4>1, <4>2 DEF SendSet
      <4>6. wait' \in [Session -> Nat]
        BY <4>2 DEF SendSet
      <4>7. QED BY <4>2, <4>3, <4>4, <4>5, <4>6
    <3>2. CASE wait[s] = 0
      <4>1. Throw(s) /\ UNCHANGED <<holder, ttl, renewal, lost, failed, cmd>>
        BY <2>4, <3>2 DEF PollAgain
      <4>2. QED BY <4>1 DEF Throw
    <3>3. QED BY <3>1, <3>2
  <2>5. ASSUME NEW s \in Session, LateSetAnswered(s) PROVE LeaseTypeOK'
    BY <2>5 DEF LateSetAnswered
  <2>6. ASSUME NEW s \in Session, RenewSends(s) PROVE LeaseTypeOK'
    BY <2>6 DEF RenewSends
  <2>7. ASSUME NEW s \in Session, RenewAnswered(s) PROVE LeaseTypeOK'
    <3>1. cmd' \in [Session -> [Command -> CommandState]]
      BY <2>7 DEF RenewAnswered
    <3>2. (cmd[s]["refresh"] = "ok") \in BOOLEAN
      OBVIOUS
    <3>3. QED BY <2>7, <3>1, <3>2, RenewContinuesType DEF RenewAnswered
  <2>8. ASSUME NEW s \in Session, RenewTimesOut(s) PROVE LeaseTypeOK'
    <3>1. cmd' \in [Session -> [Command -> CommandState]]
      BY <2>8 DEF RenewTimesOut
    <3>2. QED BY <2>8, <3>1, RenewContinuesType DEF RenewTimesOut
  <2>9. ASSUME NEW s \in Session, NEW ok \in BOOLEAN, ActionEnds(s, ok) PROVE LeaseTypeOK'
    <3>1. failed' \in [Session -> BOOLEAN]
      BY <2>9 DEF ActionEnds
    <3>2. CASE renewal[s] = "command"
      <4>1. /\ pc' = [pc EXCEPT ![s] = "draining"]
            /\ UNCHANGED <<renewal, timer, cmd, holder, ttl, lost, wait>>
        BY <2>9, <3>2, Zenon DEF ActionEnds
      <4>2. QED BY <3>1, <4>1
    <3>3. CASE renewal[s] # "command"
      <4>1. /\ SendRelease(s)
            /\ cmd' = [cmd EXCEPT ![s]["release"] = "sent"]
            /\ UNCHANGED <<holder, ttl, lost, wait>>
        BY <2>9, <3>3, Zenon DEF ActionEnds
      <4>2. cmd' \in [Session -> [Command -> CommandState]]
        BY <4>1
      <4>3. QED BY <3>1, <4>1, <4>2 DEF SendRelease
    <3>4. QED BY <3>2, <3>3
  <2>10. ASSUME NEW s \in Session, ReleaseAnswered(s) PROVE LeaseTypeOK'
    <3>1. lost' \in [Session -> BOOLEAN]
      BY <2>10 DEF ReleaseAnswered, Finish
    <3>2. QED BY <2>10, <3>1 DEF ReleaseAnswered, Finish
  <2>11. ASSUME NEW s \in Session, ReleaseTimesOut(s) PROVE LeaseTypeOK'
    <3>1. lost' \in [Session -> BOOLEAN]
      BY <2>11 DEF ReleaseTimesOut, Finish
    <3>2. QED BY <2>11, <3>1 DEF ReleaseTimesOut, Finish
  <2>12. ASSUME NEW s \in Session, CallDies(s) PROVE LeaseTypeOK'
    BY <2>12 DEF CallDies
  <2>13. ASSUME NEW s \in Session, NEW c \in Command, RedisExecutes(s, c) PROVE LeaseTypeOK'
    <3>1. holder' \in Session \cup {NoSession} /\ ttl' \in 0 .. LeaseTime
      BY <2>13 DEF RedisExecutes, Effect
    <3>2. cmd' \in [Session -> [Command -> CommandState]]
      BY <2>13 DEF RedisExecutes, Answer
    <3>3. QED BY <2>13, <3>1, <3>2 DEF RedisExecutes
  <2>14. ASSUME NEW s \in Session, NEW c \in Command, RedisUnreachable(s, c) PROVE LeaseTypeOK'
    BY <2>14 DEF RedisUnreachable
  <2>15. ASSUME Tick PROVE LeaseTypeOK'
    BY <2>15 DEF Tick, Down
  <2>16. CASE UNCHANGED leaseVars
    BY <2>16 DEF leaseVars
  <2>17. QED
    BY <2>1, <2>2, <2>3, <2>4, <2>5, <2>6, <2>7, <2>8, <2>9, <2>10, <2>11, <2>12, <2>13,
       <2>14, <2>15, <2>16 DEF LeaseNext, CallGoesOn, Redis
<1>3. QED BY <1>1, <1>2, PTL DEF LeaseSpec

-----------------------------------------------------------------------------

\* What IInv says of one call.
CallInv(t) ==
  /\ pc[t] \in {"idle", "setting", "polling", "action", "draining"} => cmd[t]["release"] = "none"
  /\ pc[t] = "setting" =>
       /\ timer[t] <= CommandTimeout
       /\ cmd[t]["set"] = "ok" => Fresh(t)
  /\ Owns(t) => RenewMargin(t)

LEMMA IInvByCall == IInv <=> LeaseTypeOK /\ \A t \in Session : CallInv(t)
BY DEF IInv, NoEarlyRelease, AcquireMargin, LeaseMargin, CallInv

\* A step that leaves the key and a call alone keeps what IInv says of that call.
LEMMA CallInvFrame ==
  ASSUME NEW t \in Session, CallInv(t),
         UNCHANGED <<holder, ttl>>,
         pc'[t] = pc[t], renewal'[t] = renewal[t], lost'[t] = lost[t],
         timer'[t] = timer[t], cmd'[t] = cmd[t]
  PROVE  CallInv(t)'
BY DEF CallInv, Owns, RenewMargin, Fresh

LEMMA InitIInv == LeaseInit => IInv
BY LeaseTypeCorrect, OptionsAssumption
   DEF LeaseInit, IInv, LeaseTypeOK, NoEarlyRelease, AcquireMargin, LeaseMargin, Owns, Location, Command,
       CommandState, Positive

\* A refresh that is not confirmed is a lost lease, from then on.
LEMMA RenewalLoses ==
  ASSUME LeaseTypeOK, NEW s \in Session, NEW renewed, ~renewed, RenewContinues(s, renewed),
         pc[s] = "action"
  PROVE  pc' = pc /\ lost'[s]
<1>1. lost' = [lost EXCEPT ![s] = lost[s] \/ ~renewed]
  BY Zenon DEF RenewContinues
<1>2. lost'[s] = (lost[s] \/ ~renewed)
  BY <1>1, Zenon DEF LeaseTypeOK
<1>3. lost'[s]
  BY <1>2, Zenon
<1>4. pc' = pc
  BY DEF RenewContinues
<1>5. QED BY <1>3, <1>4

\* A step of one call that does not touch the key.
LEMMA CallStep ==
  ASSUME RenewalFits, LeaseTypeOK, NEW s \in Session, CallInv(s), LeaseTypeOK', CallGoesOn(s)
  PROVE  CallInv(s)'
<1> USE OptionsAssumption DEF Positive, LeaseTypeOK, Location, Command, CommandState, RenewalFits
<1>1. CASE CallStarts(s)
  <2>1. Least(WaitTimeout, CommandTimeout) <= CommandTimeout
    BY LeastBound
  <2>2. QED BY <1>1, <2>1 DEF CallStarts, SendSet, CallInv, Owns
<1>2. CASE AcquireAnswered(s)
  <2>1. CASE cmd[s]["set"] = "ok"
    <3>1. Fresh(s) /\ cmd[s]["release"] = "none"
      BY <1>2, <2>1 DEF AcquireAnswered, CallInv
    <3>2. /\ pc'[s] = "action" /\ renewal'[s] = "delay" /\ timer'[s] = RefreshInterval
          /\ cmd'[s]["release"] = "none" /\ UNCHANGED <<holder, ttl>>
      BY <1>2, <2>1, <3>1 DEF AcquireAnswered, Throw
    <3>3. QED BY <3>1, <3>2 DEF CallInv, RenewMargin, Fresh
  <2>2. CASE cmd[s]["set"] # "ok"
    BY <1>2, <2>2 DEF AcquireAnswered, Throw, CallInv, Owns
  <2>3. QED BY <2>1, <2>2
<1>3. CASE AcquireTimesOut(s)
  BY <1>3 DEF AcquireTimesOut, Throw, CallInv, Owns
<1>4. CASE PollAgain(s)
  <2>1. Least(wait[s], CommandTimeout) <= CommandTimeout
    BY LeastBound
  <2>2. CASE wait[s] > 0 /\ SendSet(s, wait[s])
    BY <1>4, <2>1, <2>2 DEF PollAgain, SendSet, CallInv, Owns
  <2>3. CASE Throw(s) /\ UNCHANGED cmd
    BY <1>4, <2>3 DEF PollAgain, Throw, CallInv, Owns
  <2>4. QED BY <1>4, <2>2, <2>3 DEF PollAgain
<1>5. CASE LateSetAnswered(s)
  BY <1>5 DEF LateSetAnswered, CallInv, Owns
<1>6. CASE RenewSends(s)
  BY <1>6 DEF RenewSends, CallInv, Owns, RenewMargin
<1>7. CASE RenewAnswered(s)
  <2>1. CASE pc[s] = "action" /\ cmd[s]["refresh"] = "ok"
    <3>1. cmd[s]["release"] = "none" /\ (Owns(s) => Fresh(s))
      BY <1>7, <2>1 DEF RenewAnswered, CallInv, RenewMargin
    <3>2. /\ pc'[s] = "action" /\ renewal'[s] = "delay" /\ timer'[s] = RefreshInterval
          /\ lost'[s] = lost[s] /\ cmd'[s]["release"] = "none" /\ UNCHANGED <<holder, ttl>>
      BY <1>7, <2>1, <3>1 DEF RenewAnswered, RenewContinues
    <3>3. QED BY <2>1, <3>1, <3>2 DEF CallInv, RenewMargin, Fresh, Owns
  <2>2. CASE pc[s] = "action" /\ cmd[s]["refresh"] # "ok"
    <3>1. pc' = pc /\ lost'[s]
      BY <1>7, <2>2, RenewalLoses DEF RenewAnswered
    <3>2. cmd'[s]["release"] = "none"
      BY <1>7, <2>2 DEF RenewAnswered, CallInv
    <3>3. QED BY <2>2, <3>1, <3>2 DEF CallInv, Owns
  <2>3. CASE pc[s] # "action"
    BY <1>7, <2>3 DEF RenewAnswered, RenewContinues, SendRelease, CallInv, Owns
  <2>4. QED BY <2>1, <2>2, <2>3
<1>8. CASE RenewTimesOut(s)
  <2>1. CASE pc[s] = "action"
    <3>1. pc' = pc /\ lost'[s]
      BY <1>8, <2>1, RenewalLoses DEF RenewTimesOut
    <3>2. cmd'[s]["release"] = "none"
      BY <1>8, <2>1 DEF RenewTimesOut, CallInv
    <3>3. QED BY <2>1, <3>1, <3>2 DEF CallInv, Owns
  <2>2. CASE pc[s] # "action"
    BY <1>8, <2>2 DEF RenewTimesOut, RenewContinues, SendRelease, CallInv, Owns
  <2>3. QED BY <2>1, <2>2
<1>9. ASSUME NEW ok \in BOOLEAN, ActionEnds(s, ok) PROVE CallInv(s)'
  <2>1. CASE renewal[s] = "command"
    <3>1. pc'[s] = "draining" /\ cmd' = cmd
      BY <1>9, <2>1 DEF ActionEnds
    <3>2. QED BY <1>9, <3>1 DEF ActionEnds, CallInv, Owns
  <2>2. CASE renewal[s] # "command"
    <3>1. pc'[s] = "releasing"
      BY <1>9, <2>2 DEF ActionEnds, SendRelease
    <3>2. QED BY <3>1 DEF CallInv, Owns
  <2>3. QED BY <2>1, <2>2
<1>10. CASE ReleaseAnswered(s)
  <2>1. pc'[s] \in {"threw", "returned"}
    BY <1>10 DEF ReleaseAnswered, Finish
  <2>2. QED BY <2>1 DEF CallInv, Owns
<1>11. CASE ReleaseTimesOut(s)
  <2>1. pc'[s] \in {"threw", "returned"}
    BY <1>11 DEF ReleaseTimesOut, Finish
  <2>2. QED BY <2>1 DEF CallInv, Owns
<1>12. CASE CallDies(s)
  BY <1>12 DEF CallDies, CallInv, Owns
<1>13. QED
  BY <1>1, <1>2, <1>3, <1>4, <1>5, <1>6, <1>7, <1>8, <1>9, <1>10, <1>11, <1>12 DEF CallGoesOn

\* Other calls' steps leave a call alone.
LEMMA CallFrame ==
  ASSUME LeaseTypeOK, NEW s \in Session, NEW t \in Session, t # s, CallGoesOn(s)
  PROVE  /\ UNCHANGED <<holder, ttl>>
         /\ pc'[t] = pc[t] /\ renewal'[t] = renewal[t] /\ lost'[t] = lost[t]
         /\ timer'[t] = timer[t] /\ cmd'[t] = cmd[t]
<1> USE DEF LeaseTypeOK
<1>1. CASE CallStarts(s)
  BY <1>1 DEF CallStarts, SendSet
<1>2. CASE AcquireAnswered(s)
  BY <1>2 DEF AcquireAnswered, Throw
<1>3. CASE AcquireTimesOut(s)
  BY <1>3 DEF AcquireTimesOut, Throw
<1>4. CASE PollAgain(s)
  BY <1>4 DEF PollAgain, SendSet, Throw
<1>5. CASE LateSetAnswered(s)
  BY <1>5 DEF LateSetAnswered
<1>6. CASE RenewSends(s)
  BY <1>6 DEF RenewSends
<1>7. CASE RenewAnswered(s)
  BY <1>7 DEF RenewAnswered, RenewContinues, SendRelease
<1>8. CASE RenewTimesOut(s)
  BY <1>8 DEF RenewTimesOut, RenewContinues, SendRelease
<1>9. ASSUME NEW ok \in BOOLEAN, ActionEnds(s, ok)
      PROVE  /\ UNCHANGED <<holder, ttl>>
             /\ pc'[t] = pc[t] /\ renewal'[t] = renewal[t] /\ lost'[t] = lost[t]
             /\ timer'[t] = timer[t] /\ cmd'[t] = cmd[t]
  BY <1>9 DEF ActionEnds, SendRelease
<1>10. CASE ReleaseAnswered(s)
  BY <1>10 DEF ReleaseAnswered, Finish
<1>11. CASE ReleaseTimesOut(s)
  BY <1>11 DEF ReleaseTimesOut, Finish
<1>12. CASE CallDies(s)
  BY <1>12 DEF CallDies
<1>13. QED
  BY <1>1, <1>2, <1>3, <1>4, <1>5, <1>6, <1>7, <1>8, <1>9, <1>10, <1>11, <1>12 DEF CallGoesOn

\* A step of Redis: it changes the key of an owner only to make its lease longer.
LEMMA RedisStep ==
  ASSUME RenewalFits, LeaseTypeOK, NEW s \in Session, NEW t \in Session, CallInv(s), CallInv(t), Redis(s)
  PROVE  CallInv(t)'
<1> USE OptionsAssumption DEF Positive, LeaseTypeOK, Command, CommandState, RenewalFits
<1>1. ASSUME NEW c \in Command, RedisExecutes(s, c) PROVE CallInv(t)'
  <2>1. UNCHANGED <<pc, renewal, lost, failed, timer, wait>>
    BY <1>1 DEF RedisExecutes
  <2>2. PICK answer \in {Answer(s, c), "error"} : cmd' = [cmd EXCEPT ![s][c] = answer]
    BY <1>1 DEF RedisExecutes
  <2>3. /\ cmd[s][c] = "sent" /\ Effect(s, c)
        /\ answer \in {"ok", "no", "error"}
        /\ answer = "ok" => Answer(s, c) = "ok"
    BY <1>1, <2>2 DEF RedisExecutes, Answer
  <2>10. Answer(s, c) = "ok" /\ c # "release" => holder' = s /\ ttl' = LeaseTime
    <3>1. CASE c = "set"
      BY <2>3, <3>1 DEF Effect, Answer
    <3>2. CASE c = "refresh"
      BY <2>3, <3>2 DEF Effect, Answer
    <3>3. CASE c = "release"
      BY <3>3
    <3>4. QED BY <3>1, <3>2, <3>3
  <2>4. holder = t /\ cmd[t]["release"] # "sent" => holder' = t /\ ttl' >= ttl /\ ttl' \in Nat
    <3>1. CASE c = "set"
      BY <2>3, <3>1 DEF Effect
    <3>2. CASE c = "refresh"
      BY <2>3, <3>2 DEF Effect
    <3>3. CASE c = "release"
      BY <2>3, <3>3 DEF Effect
    <3>4. QED BY <3>1, <3>2, <3>3
  <2>5. CASE t # s
    <3>1. cmd'[t] = cmd[t]
      BY <2>2, <2>5
    <3>2. QED BY <2>1, <2>4, <3>1 DEF CallInv, Owns, RenewMargin, Fresh
  <2>6. CASE t = s /\ c = "set"
    <3>1. /\ cmd'[t]["release"] = cmd[t]["release"] /\ cmd'[t]["refresh"] = cmd[t]["refresh"]
          /\ cmd'[t]["set"] = answer
      BY <2>2, <2>6
    <3>2. QED BY <2>1, <2>3, <2>10, <2>4, <2>6, <3>1 DEF CallInv, Owns, RenewMargin, Fresh
  <2>7. CASE t = s /\ c = "refresh"
    <3>1. /\ cmd'[t]["release"] = cmd[t]["release"] /\ cmd'[t]["set"] = cmd[t]["set"]
          /\ cmd'[t]["refresh"] = answer
      BY <2>2, <2>7
    <3>2. holder = t => answer # "no"
      BY <2>2, <2>7 DEF Answer
    <3>3. QED BY <2>1, <2>3, <2>10, <2>4, <2>7, <3>1, <3>2 DEF CallInv, Owns, RenewMargin, Fresh
  <2>8. CASE t = s /\ c = "release"
    BY <2>1, <2>3, <2>8 DEF CallInv, Owns
  <2>9. QED BY <2>5, <2>6, <2>7, <2>8
<1>2. ASSUME NEW c \in Command, RedisUnreachable(s, c) PROVE CallInv(t)'
  BY <1>2 DEF RedisUnreachable, CallInv, Owns, RenewMargin, Fresh
<1>3. QED BY <1>1, <1>2 DEF Redis

\* Time passes: every timer of an owner and its key lose the same.
LEMMA TickStep ==
  ASSUME RenewalFits, LeaseTypeOK, NEW t \in Session, CallInv(t), Tick
  PROVE  CallInv(t)'
<1> USE OptionsAssumption DEF Positive, LeaseTypeOK, RenewalFits
<1>1. UNCHANGED <<pc, renewal, lost, failed, cmd>>
  BY DEF Tick
<1>2. timer'[t] = Down(timer[t]) /\ ttl' = Down(ttl)
  BY DEF Tick
<1>3. ttl > 1 => ttl' = ttl - 1 /\ holder' = holder
  BY DEF Tick, Down
<1>4. Waiting(t) => timer[t] > 0 /\ timer'[t] = timer[t] - 1
  BY <1>2 DEF Tick, Down
<1>5. CASE pc[t] = "setting"
  <2>1. timer'[t] = timer[t] - 1 /\ timer[t] > 0
    BY <1>4, <1>5 DEF Waiting
  <2>2. QED BY <1>1, <1>3, <1>5, <2>1 DEF CallInv, Owns, Fresh
<1>6. CASE Owns(t)
  <2>1. timer'[t] = timer[t] - 1 /\ timer[t] > 0
    BY <1>4, <1>6 DEF Waiting, Owns, CallInv, RenewMargin
  <2>2. QED BY <1>1, <1>3, <1>6, <2>1 DEF CallInv, Owns, RenewMargin, Fresh
<1>7. CASE pc[t] # "setting" /\ ~Owns(t)
  BY <1>1, <1>7 DEF CallInv, Owns
<1>8. QED BY <1>5, <1>6, <1>7

LEMMA NextIInv == RenewalFits /\ IInv /\ LeaseTypeOK' /\ [LeaseNext]_leaseVars => IInv'
<1> SUFFICES ASSUME RenewalFits, LeaseTypeOK, \A t \in Session : CallInv(t), LeaseTypeOK', [LeaseNext]_leaseVars,
                    NEW t \in Session
             PROVE  CallInv(t)'
  BY DEF IInv, NoEarlyRelease, AcquireMargin, LeaseMargin, CallInv
<1>1. ASSUME NEW s \in Session, CallGoesOn(s) PROVE CallInv(t)'
  <2>1. CASE t = s
    BY <1>1, <2>1, CallStep
  <2>2. CASE t # s
    BY <1>1, <2>2, CallFrame, CallInvFrame
  <2>3. QED BY <2>1, <2>2
<1>2. ASSUME NEW s \in Session, Redis(s) PROVE CallInv(t)'
  BY <1>2, RedisStep
<1>3. CASE Tick
  BY <1>3, TickStep
<1>4. CASE UNCHANGED leaseVars
  BY <1>4, CallInvFrame DEF leaseVars
<1>5. QED BY <1>1, <1>2, <1>3, <1>4 DEF LeaseNext

LEMMA LeaseInvariant == RenewalFits => (LeaseSpec => []IInv)
<1> SUFFICES ASSUME RenewalFits PROVE LeaseSpec => []IInv
  OBVIOUS
<1>1. IInv /\ LeaseTypeOK' /\ [LeaseNext]_leaseVars => IInv'
  BY NextIInv
<1>2. QED BY <1>1, InitIInv, LeaseTypeCorrect, PTL DEF LeaseSpec

\* The renew loop notices an expired or overtaken key before the key is gone, for
\* any number of calls and any options that fit.
THEOREM OwnerHasKeyAlways == RenewalFits => (LeaseSpec => []OwnerHasKey)
<1> SUFFICES ASSUME RenewalFits PROVE LeaseSpec => []OwnerHasKey
  OBVIOUS
<1>1. IInv => OwnerHasKey
  BY DEF IInv, LeaseMargin, RenewMargin, OwnerHasKey
<1>2. QED BY <1>1, LeaseInvariant, PTL

\* Two calls of withRedisLease on one key never both run with assertOwned passing.
THEOREM MutualExclusionAlways == RenewalFits => (LeaseSpec => []MutualExclusion)
<1> SUFFICES ASSUME RenewalFits PROVE LeaseSpec => []MutualExclusion
  OBVIOUS
<1>1. OwnerHasKey => MutualExclusion
  BY DEF OwnerHasKey, MutualExclusion
<1>2. QED BY <1>1, OwnerHasKeyAlways, PTL

-----------------------------------------------------------------------------

\* A stored key has time left.
KeyLives == holder # NoSession => ttl > 0

\* Only commands executed by Redis and the clock touch the key.
LEMMA KeyFrame ==
  ASSUME NEW s \in Session, CallGoesOn(s)
  PROVE  UNCHANGED <<holder, ttl>>
BY DEF CallGoesOn, CallStarts, AcquireAnswered, AcquireTimesOut, PollAgain, LateSetAnswered, RenewSends,
       RenewAnswered, RenewTimesOut, ActionEnds, ReleaseAnswered, ReleaseTimesOut, CallDies

LEMMA KeyLivesAlways == LeaseSpec => []KeyLives
<1> USE OptionsAssumption DEF Positive, KeyLives
<1>1. LeaseInit => KeyLives
  BY DEF LeaseInit
<1>2. LeaseTypeOK /\ KeyLives /\ [LeaseNext]_leaseVars => KeyLives'
  <2> SUFFICES ASSUME LeaseTypeOK, KeyLives, [LeaseNext]_leaseVars PROVE KeyLives'
    OBVIOUS
  <2>1. ASSUME NEW s \in Session, CallGoesOn(s) PROVE KeyLives'
    BY <2>1, KeyFrame
  <2>2. ASSUME NEW s \in Session, Redis(s) PROVE KeyLives'
    <3>1. ASSUME NEW c \in Command, RedisExecutes(s, c) PROVE KeyLives'
      BY <3>1 DEF RedisExecutes, Effect
    <3>2. ASSUME NEW c \in Command, RedisUnreachable(s, c) PROVE KeyLives'
      BY <3>2 DEF RedisUnreachable
    <3>3. QED BY <2>2, <3>1, <3>2 DEF Redis
  <2>3. CASE Tick
    BY <2>3 DEF Tick, Down, LeaseTypeOK
  <2>4. CASE UNCHANGED leaseVars
    BY <2>4 DEF leaseVars
  <2>5. QED BY <2>1, <2>2, <2>3, <2>4 DEF LeaseNext
<1>3. QED BY <1>1, <1>2, LeaseTypeCorrect, PTL DEF LeaseSpec

\* A key goes by its own holder's release or because it expires, never by the
\* late release of a call that has lost it (RELEASE_SCRIPT); no timing assumption.
THEOREM OnlyHolderReleasesAlways == LeaseSpec => OnlyHolderReleases
<1>1. LeaseTypeOK /\ KeyLives /\ [LeaseNext]_leaseVars =>
        [\A s \in Session :
           holder = s /\ holder' # s => ttl = 1 \/ cmd[s]["release"] = "sent"]_leaseVars
  <2> SUFFICES ASSUME LeaseTypeOK, KeyLives, LeaseNext, NEW t \in Session, holder = t, holder' # t
               PROVE  ttl = 1 \/ cmd[t]["release"] = "sent"
    OBVIOUS
  <2>1. ASSUME NEW s \in Session, CallGoesOn(s) PROVE FALSE
    BY <2>1, KeyFrame
  <2>2. ASSUME NEW s \in Session, NEW c \in Command, RedisExecutes(s, c)
        PROVE  cmd[t]["release"] = "sent"
    <3>1. Effect(s, c) /\ cmd[s][c] = "sent"
      BY <2>2 DEF RedisExecutes
    <3>2. c = "release" /\ s = t
      BY <3>1, OptionsAssumption DEF Effect, Command
    <3>3. QED BY <3>1, <3>2
  <2>3. ASSUME NEW s \in Session, NEW c \in Command, RedisUnreachable(s, c) PROVE FALSE
    BY <2>3 DEF RedisUnreachable
  <2>4. CASE Tick
    BY <2>4, OptionsAssumption DEF Tick, Down, LeaseTypeOK, KeyLives, Positive
  <2>5. QED BY <2>1, <2>2, <2>3, <2>4 DEF LeaseNext, Redis
<1>2. QED BY <1>1, KeyLivesAlways, LeaseTypeCorrect, PTL DEF LeaseSpec, OnlyHolderReleases

=============================================================================
