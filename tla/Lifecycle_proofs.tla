-------------------------- MODULE Lifecycle_proofs --------------------------
(***************************************************************************)
(* A dispatched write to the power of an instance is alone with it, and no *)
(* write is sent again while one of its operation may be under way, for    *)
(* any number of workers, of operations and of faults.                     *)
(*                                                                         *)
(* Both rest on what a worker knows of the operation that it holds: a      *)
(* claim that another worker has taken over leaves the row to that one,    *)
(* so that whoever still holds it finds the status that it has claimed it  *)
(* with, unless a user has cancelled it (HeldIsKnown); and on that nothing *)
(* is sent for a row that is queued (QueuedIsUnsent).                      *)
(***************************************************************************)
EXTENDS Lifecycle, TLAPS

\* What the holder of an operation may find in its row.
KnownStatus(w) ==
  IF job[w].observing \/ job[w].stage = "sent" THEN Dispatched ELSE {"queued", "cancelled"}

Holding(w) == job[w].stage # "idle" /\ op[job[w].op].holder = w

HeldIsKnown == \A w \in Worker : Holding(w) => op[job[w].op].status \in KnownStatus(w)

QueuedIsUnsent == \A o \in Op : op[o].status \in {"none", "queued"} => call[o] = "none"

IInv == TypeOK /\ HeldIsKnown /\ QueuedIsUnsent /\ DispatchedIsAlone

-----------------------------------------------------------------------------
(* Types.                                                                  *)

LEMMA EventType == ASSUME TypeOK, Event PROVE events' \in 0 .. MaxEvents
BY LifecycleAssumption DEF TypeOK, Event

LEMMA UnfencedType == ASSUME TypeOK PROVE Unfenced \in [Checker -> CheckState]
BY DEF TypeOK, Unfenced, CheckState

LEMMA ReleasedType ==
  ASSUME NEW row \in OpRow, NEW s \in Active \cup {"succeeded", "failed", "cancelled"}
  PROVE  Released(row, s) \in OpRow
BY DEF Released, OpRow

LEMMA DeferredType ==
  ASSUME TypeOK, NEW w \in Worker,
         NEW s \in Active \cup {"succeeded", "failed", "cancelled"}, Deferred(w, s)
  PROVE  op' \in [Op -> OpRow]
<1>1. op \in [Op -> OpRow] /\ job[w].op \in Op
  BY DEF TypeOK, JobState
<1>2. Released(op[job[w].op], s) \in OpRow
  BY <1>1, ReleasedType
<1>3. QED BY <1>1, <1>2 DEF Deferred

LEMMA EndsType ==
  ASSUME TypeOK, NEW w \in Worker, Ends(w)
  PROVE  job' \in [Worker -> JobState]
<1>1. Idle \in JobState
  BY LifecycleAssumption DEF Idle, JobState, Op
<1>2. QED BY <1>1 DEF Ends, TypeOK

\* A finished operation is released like a deferred one.
LEMMA FinishedDefers ==
  ASSUME TypeOK, NEW w \in Worker, NEW s, Finished(w, s)
  PROVE  Deferred(w, s)
BY Zenon DEF Finished, Deferred

LEMMA FinishedType ==
  ASSUME TypeOK, NEW w \in Worker, NEW s \in {"succeeded", "failed", "cancelled"},
         Finished(w, s)
  PROVE  /\ op' \in [Op -> OpRow]
         /\ policy' \in [enabled : BOOLEAN, revision : Nat, holder : Checker \cup {NoWorker}]
         /\ check' \in [Checker -> CheckState]
         /\ hold' \in {"none", "manual_stop", "traffic_limit", "deleted"}
         /\ lease' \in Op \cup {Rotation, NoHolder}
<1>1. op' \in [Op -> OpRow]
  BY FinishedDefers, DeferredType
<1>2. job[w].op \in Op /\ op[job[w].op] \in OpRow
  BY DEF TypeOK, JobState
<1>3. HoldAfter(job[w].op) \in {"none", "manual_stop", "traffic_limit", "deleted"}
  BY <1>2 DEF HoldAfter, OpRow
<1>4. hold' \in {"none", "manual_stop", "traffic_limit", "deleted"}
  BY <1>3, Zenon DEF Finished, TypeOK
<1>5. policy' \in [enabled : BOOLEAN, revision : Nat, holder : Checker \cup {NoWorker}]
  BY DEF Finished, TypeOK
<1>6. check' \in [Checker -> CheckState]
  BY UnfencedType, Zenon DEF Finished, TypeOK
<1>7. lease' \in Op \cup {Rotation, NoHolder}
  BY Zenon DEF Finished, TypeOK
<1>8. QED BY <1>1, <1>4, <1>5, <1>6, <1>7

\* A new operation.
LEMMA InsertsType ==
  ASSUME TypeOK, NEW row \in OpRow, Inserts(row)
  PROVE  op' \in [Op -> OpRow]
BY DEF TypeOK, Inserts

LEMMA NewOpType ==
  ASSUME NEW a \in {"start", "stop", "delete"}, NEW n \in Nat
  PROVE  /\ [NewOp EXCEPT !.action = a, !.status = "queued"] \in OpRow
         /\ [NewOp EXCEPT !.source = "traffic", !.status = "queued", !.revision = n] \in OpRow
BY DEF NewOp, OpRow, Active

LEMMA NoCheckType == NoCheck \in CheckState
BY DEF NoCheck, CheckState, Power

LEMMA TypeInit == Init => TypeOK
<1> SUFFICES ASSUME Init PROVE TypeOK
  OBVIOUS
<1>1. /\ NewOp \in OpRow /\ NoCheck \in CheckState /\ Idle \in JobState
  BY LifecycleAssumption, NoCheckType DEF NewOp, OpRow, Idle, JobState, Op
<1>2. policy \in [enabled : BOOLEAN, revision : Nat, holder : Checker \cup {NoWorker}]
  <2> DEFINE Rows == [enabled : BOOLEAN, revision : Nat, holder : Checker \cup {NoWorker}]
  <2>1. NoPolicy \in Rows
    BY DEF NoPolicy
  <2>2. [NoPolicy EXCEPT !.enabled = TRUE, !.revision = 1] \in Rows
    BY <2>1
  <2> HIDE DEF Rows
  <2>3. policy \in Rows
    BY <2>1, <2>2, Zenon DEF Init
  <2>4. QED BY <2>3 DEF Rows
<1>3. cloud \in [power : Power, usage : Usage]
  BY DEF Init, Power, Usage
<1>4. hold \in {"none", "manual_stop", "traffic_limit", "deleted"}
  BY DEF Init
<1>5. /\ op \in [Op -> OpRow] /\ job \in [Worker -> JobState]
      /\ check \in [Checker -> CheckState]
  <2>1. op \in [Op -> OpRow]
    BY <1>1, Zenon DEF Init
  <2>2. job \in [Worker -> JobState]
    BY <1>1, Zenon DEF Init
  <2>3. check \in [Checker -> CheckState]
    BY <1>1, Zenon DEF Init
  <2>4. QED BY <2>1, <2>2, <2>3
<1>6. call \in [Op -> {"none", "open", "accepted", "done", "lost"}]
  BY DEF Init
<1>7. events \in 0 .. MaxEvents
  BY LifecycleAssumption DEF Init
<1>8. QED BY <1>2, <1>3, <1>4, <1>5, <1>6, <1>7 DEF Init, TypeOK

LEMMA UserTypes ==
  ASSUME TypeOK,
         \/ \E action \in {"start", "stop", "delete"} : Request(action)
         \/ \E on \in BOOLEAN, usage \in Usage : SetPolicy(on, usage)
         \/ RemoveAccount \/ Refer \/ Authorize
         \/ \E power \in Power, usage \in Usage : Outside(power, usage)
  PROVE  TypeOK'
<1>1. ASSUME NEW action \in {"start", "stop", "delete"}, Request(action) PROVE TypeOK'
  <2>1. op' \in [Op -> OpRow]
    BY <1>1, InsertsType, NewOpType DEF Request
  <2>2. events' \in 0 .. MaxEvents
    BY <1>1, EventType DEF Request
  <2>3. QED BY <1>1, <2>1, <2>2, Zenon DEF Request, TypeOK
<1>2. ASSUME NEW on \in BOOLEAN, NEW usage \in Usage, SetPolicy(on, usage) PROVE TypeOK'
  <2>1. op' \in [Op -> OpRow]
    BY <1>2 DEF SetPolicy, TypeOK, OpRow, Active
  <2>2. events' \in 0 .. MaxEvents
    BY <1>2, EventType DEF SetPolicy
  <2>3. policy' \in [enabled : BOOLEAN, revision : Nat, holder : Checker \cup {NoWorker}]
    BY <1>2 DEF SetPolicy, TypeOK
  <2>4. cloud' \in [power : Power, usage : Usage]
    BY <1>2 DEF SetPolicy, TypeOK
  <2>5. QED BY <1>2, <2>1, <2>2, <2>3, <2>4, Zenon DEF SetPolicy, TypeOK
<1>3. ASSUME RemoveAccount PROVE TypeOK'
  <2>1. op' \in [Op -> OpRow]
    <3>1. ASSUME NEW row \in OpRow
          PROVE  [row EXCEPT !.status = "cancelled", !.holder = NoWorker] \in OpRow
      BY DEF OpRow
    <3>2. QED BY <1>3, <3>1 DEF RemoveAccount, TypeOK
  <2>2. events' \in 0 .. MaxEvents
    BY <1>3, EventType DEF RemoveAccount
  <2>3. policy' \in [enabled : BOOLEAN, revision : Nat, holder : Checker \cup {NoWorker}]
    BY <1>3 DEF RemoveAccount, NoPolicy
  <2>4. check' \in [Checker -> CheckState]
    BY <1>3, NoCheckType DEF RemoveAccount
  <2>5. QED BY <1>3, <2>1, <2>2, <2>3, <2>4, Zenon DEF RemoveAccount, TypeOK
<1>4. ASSUME Refer \/ Authorize PROVE TypeOK'
  <2>1. events' \in 0 .. MaxEvents
    BY <1>4, EventType DEF Refer, Authorize
  <2>2. QED BY <1>4, <2>1 DEF Refer, Authorize, TypeOK
<1>5. ASSUME NEW power \in Power, NEW usage \in Usage, Outside(power, usage) PROVE TypeOK'
  <2>1. events' \in 0 .. MaxEvents
    BY <1>5, EventType DEF Outside
  <2>2. QED BY <1>5, <2>1 DEF Outside, TypeOK
<1>6. QED BY <1>1, <1>2, <1>3, <1>4, <1>5

\* The steps of a job before it sends.
LEMMA JobTypes ==
  ASSUME TypeOK, NEW w \in Worker,
         ClaimOperation(w) \/ Read(w) \/ Crash(w) \/ Dispatch(w)
  PROVE  TypeOK'
<1>0. job[w].op \in Op /\ job[w] \in JobState
  BY DEF TypeOK, JobState
<1>1. CASE ClaimOperation(w)
  <2>1. PICK o \in Op :
          /\ Claimable(o)
          /\ op' = [op EXCEPT ![o].holder = w]
          /\ job' = [job EXCEPT ![w] = [Idle EXCEPT !.stage = "claimed", !.op = o,
                                                    !.observing = Observes(o)]]
    BY <1>1 DEF ClaimOperation
  <2>2. op' \in [Op -> OpRow]
    BY <2>1 DEF TypeOK, OpRow
  <2>3. [Idle EXCEPT !.stage = "claimed", !.op = o, !.observing = Observes(o)] \in JobState
    BY DEF Idle, JobState, Observes
  <2>4. job' \in [Worker -> JobState]
    BY <2>1, <2>3 DEF TypeOK
  <2>5. events' \in 0 .. MaxEvents
    BY <2>1, EventType DEF Claimable, TypeOK
  <2>6. QED BY <1>1, <2>2, <2>4, <2>5, Zenon DEF ClaimOperation, TypeOK
<1>2. CASE Read(w)
  <2>1. job' \in [Worker -> JobState]
    BY <1>0, <1>2 DEF Read, TypeOK, JobState
  <2>2. QED BY <1>2, <2>1, Zenon DEF Read, TypeOK
<1>3. CASE Crash(w)
  <2>1. job' \in [Worker -> JobState] /\ events' \in 0 .. MaxEvents
    BY <1>3, EndsType, EventType DEF Crash
  <2>2. QED BY <1>3, <2>1, Zenon DEF Crash, TypeOK
<1>4. CASE Dispatch(w)
  <2>1. op' \in [Op -> OpRow]
    <3>1. op \in [Op -> OpRow] /\ op' = [op EXCEPT ![job[w].op].status = "in_flight"]
      BY <1>4 DEF Dispatch, TypeOK
    <3>2. \A row \in OpRow : [row EXCEPT !.status = "in_flight"] \in OpRow
      BY DEF OpRow, Active
    <3>3. QED BY <1>0, <3>1, <3>2
  <2>2. job' \in [Worker -> JobState]
    BY <1>0, <1>4 DEF Dispatch, TypeOK, JobState
  <2>3. call' \in [Op -> {"none", "open", "accepted", "done", "lost"}]
    BY <1>0, <1>4 DEF Dispatch, TypeOK
  <2>4. check' \in [Checker -> CheckState] /\ lease' \in Op
    BY <1>0, <1>4, UnfencedType DEF Dispatch
  <2>5. QED BY <1>4, <2>1, <2>2, <2>3, <2>4, Zenon DEF Dispatch, TypeOK
<1>5. QED BY <1>1, <1>2, <1>3, <1>4

\* The steps of a job that end it.
JobEnds(w) ==
  \/ Fails(w) \/ Missing(w) \/ Stale(w) \/ Observe(w) \/ Cancel(w)
  \/ DeferBusy(w) \/ DeferLimited(w) \/ FindReached(w)
  \/ Answer(w) \/ Throttled(w) \/ Refused(w) \/ ResultLost(w)

\* Each of them gives the operation back, if the job still holds it; into a
\* dispatched status only one that was.
LEMMA EndingsGiveBack ==
  ASSUME TypeOK, NEW w \in Worker, JobEnds(w), ~Stale(w)
  PROVE  /\ Ends(w)
         /\ UNCHANGED <<rotation, allowed, bound>>
         /\ \E s \in Active \cup {"succeeded", "failed", "cancelled"} :
              /\ Deferred(w, s)
              /\ s \in Dispatched => \/ job[w].observing
                                     \/ job[w].stage = "sent"
                                     \/ op[job[w].op].status \in Dispatched
              /\ s = "queued" => \/ /\ UNCHANGED call
                                    /\ job[w].stage = "read" /\ Current(w)
                                    /\ ~job[w].observing \/ op[job[w].op].status = "queued"
                                 \/ call' = [call EXCEPT ![job[w].op] = "none"]
<1>1. CASE Fails(w)
  <2>1. CASE job[w].observing
    BY <1>1, <2>1 DEF Fails, Active
  <2>2. CASE ~job[w].observing
    BY <1>1, <2>2, FinishedDefers DEF Fails, Dispatched
  <2>3. QED BY <2>1, <2>2
<1>2. CASE Missing(w)
  BY <1>2, FinishedDefers DEF Missing, Dispatched
<1>3. CASE Observe(w)
  <2>1. CASE Finished(w, "succeeded")
    BY <1>3, <2>1, FinishedDefers DEF Observe, Dispatched
  <2>2. ASSUME NEW s \in {op[job[w].op].status, "unknown"}, Deferred(w, s)
        PROVE  s \in Active /\ (s = "queued" => op[job[w].op].status = "queued")
    BY <1>3, <2>2 DEF Observe, Current, IsActive, Active
  <2>3. CASE \E s \in {op[job[w].op].status, "unknown"} : Deferred(w, s)
    <3>1. PICK s \in {op[job[w].op].status, "unknown"} : Deferred(w, s)
      BY <2>3
    <3>2. s \in Active /\ (s = "queued" => op[job[w].op].status = "queued")
      BY <2>2, <3>1
    <3>3. /\ Ends(w) /\ UNCHANGED <<rotation, allowed, bound, call>>
          /\ job[w].stage = "read" /\ Current(w) /\ job[w].observing
      BY <1>3 DEF Observe
    <3>4. QED BY <3>1, <3>2, <3>3
  <2>4. QED BY <1>3, <2>1, <2>3 DEF Observe
<1>4. CASE Cancel(w)
  BY <1>4, FinishedDefers DEF Cancel, Dispatched
<1>5. CASE DeferBusy(w) \/ DeferLimited(w)
  BY <1>5 DEF DeferBusy, DeferLimited, Postpone, Admissible, Dispatching, Dispatched, Active
<1>6. CASE FindReached(w)
  BY <1>6, FinishedDefers DEF FindReached, Dispatched
<1>7. CASE Answer(w)
  BY <1>7 DEF Answer, Active
<1>8. CASE Throttled(w)
  BY <1>8 DEF Throttled, Active, Dispatched
<1>9. CASE Refused(w)
  BY <1>9, FinishedDefers DEF Refused, Dispatched
<1>10. CASE ResultLost(w)
  BY <1>10, FinishedDefers DEF ResultLost, Dispatched
<1>11. QED
  BY <1>1, <1>2, <1>3, <1>4, <1>5, <1>6, <1>7, <1>8, <1>9, <1>10 DEF JobEnds

LEMMA EndingTypes ==
  ASSUME TypeOK, NEW w \in Worker, JobEnds(w)
  PROVE  TypeOK'
<1> DEFINE Results == {"succeeded", "failed", "cancelled"}
<1>0. job[w].op \in Op
  BY DEF TypeOK, JobState
<1>1. job' \in [Worker -> JobState]
  BY EndsType
    DEF JobEnds, Fails, Missing, Stale, Observe, Cancel, DeferBusy, DeferLimited, Postpone,
        FindReached, Answer, Throttled, Refused, ResultLost
<1>2. op' \in [Op -> OpRow]
  <2>1. CASE Stale(w)
    BY <2>1 DEF Stale, TypeOK
  <2>2. CASE ~Stale(w)
    BY <2>2, EndingsGiveBack, DeferredType
  <2>3. QED BY <2>1, <2>2
<1>3. events' \in 0 .. MaxEvents
  BY EventType
    DEF JobEnds, Fails, Missing, Stale, Observe, Cancel, DeferBusy, DeferLimited, Postpone,
        FindReached, Answer, Throttled, Refused, ResultLost, TypeOK
<1>4. call' \in [Op -> {"none", "open", "accepted", "done", "lost"}]
  BY <1>0
    DEF JobEnds, Fails, Missing, Stale, Observe, Cancel, DeferBusy, DeferLimited, Postpone,
        FindReached, Answer, Throttled, Refused, ResultLost, TypeOK
<1>5. UNCHANGED <<rotation, cloud, allowed, bound>>
  BY DEF JobEnds, Fails, Missing, Stale, Observe, Cancel, DeferBusy, DeferLimited, Postpone,
         FindReached, Answer, Throttled, Refused, ResultLost
<1>6. /\ policy' \in [enabled : BOOLEAN, revision : Nat, holder : Checker \cup {NoWorker}]
      /\ check' \in [Checker -> CheckState]
      /\ hold' \in {"none", "manual_stop", "traffic_limit", "deleted"}
      /\ lease' \in Op \cup {Rotation, NoHolder}
  <2>1. \/ \E s \in Results : Finished(w, s)
        \/ UNCHANGED <<policy, check, hold>> /\ lease' \in {lease, NoHolder}
    BY DEF JobEnds, Fails, Missing, Stale, Observe, Cancel, DeferBusy, DeferLimited, Postpone,
           FindReached, Answer, Throttled, Refused, ResultLost
  <2>2. CASE \E s \in Results : Finished(w, s)
    BY <2>2, FinishedType
  <2>3. CASE UNCHANGED <<policy, check, hold>> /\ lease' \in {lease, NoHolder}
    BY <2>3 DEF TypeOK
  <2>4. QED BY <2>1, <2>2, <2>3
<1>7. QED BY <1>1, <1>2, <1>3, <1>4, <1>5, <1>6, Zenon DEF TypeOK

LEMMA PolicyTypes ==
  ASSUME TypeOK, NEW k \in Checker, PolicyLane(k)
  PROVE  TypeOK'
<1> DEFINE Policies == [enabled : BOOLEAN, revision : Nat, holder : Checker \cup {NoWorker}]
<1>0. check[k] \in CheckState /\ policy \in Policies
  BY DEF TypeOK
<1>1. CASE ClaimPolicy(k)
  <2>1. check' \in [Checker -> CheckState]
    BY <1>0, <1>1, NoCheckType DEF ClaimPolicy, TypeOK, CheckState
  <2>2. policy' \in Policies
    BY <1>0, <1>1 DEF ClaimPolicy
  <2>3. QED BY <1>1, <2>1, <2>2, Zenon DEF ClaimPolicy, TypeOK
<1>2. CASE Look(k)
  <2>1. check' \in [Checker -> CheckState]
    BY <1>0, <1>2 DEF Look, TypeOK, CheckState
  <2>2. QED BY <1>2, <2>1, Zenon DEF Look, TypeOK
<1>3. [policy EXCEPT !.holder = NoWorker] \in Policies
  <2>1. \A p \in Policies : [p EXCEPT !.holder = NoWorker] \in Policies
    OBVIOUS
  <2>2. QED BY <1>0, <2>1
<1>4. [check EXCEPT ![k] = NoCheck] \in [Checker -> CheckState]
  <2>1. check \in [Checker -> CheckState]
    BY DEF TypeOK
  <2>2. QED BY <2>1, NoCheckType
<1> HIDE DEF Policies
<1>5. CASE CheckEnds(k)
  <2>1. check' \in [Checker -> CheckState] /\ policy' \in Policies
    BY <1>0, <1>3, <1>4, <1>5, Zenon DEF CheckEnds
  <2>2. QED BY <1>5, <2>1, Zenon DEF CheckEnds, TypeOK, Policies
<1>6. CASE Commit(k)
  <2>1. check' \in [Checker -> CheckState] /\ policy' \in Policies
    BY <1>0, <1>3, <1>4, <1>6, Zenon DEF Commit
  <2>2. op' \in [Op -> OpRow]
    <3>1. policy.revision \in Nat
      BY <1>0 DEF Policies
    <3>2. [NewOp EXCEPT !.source = "traffic", !.status = "queued",
                        !.revision = policy.revision] \in OpRow
      BY <3>1, NewOpType, Zenon
    <3>3. op \in [Op -> OpRow]
      BY DEF TypeOK
    <3>4. QED BY <1>6, <3>2, <3>3, InsertsType DEF Commit
  <2>3. hold' \in {"none", "manual_stop", "traffic_limit", "deleted"}
    BY <1>6, Zenon DEF Commit, TypeOK
  <2>4. QED BY <1>6, <2>1, <2>2, <2>3, Zenon DEF Commit, TypeOK, Policies
<1>7. QED BY <1>1, <1>2, <1>5, <1>6 DEF PolicyLane

LEMMA OtherTypes ==
  ASSUME TypeOK,
         \/ \E o \in Op : TakeEffect(o) \/ Vanish(o)
         \/ Incident \/ AcquireLease \/ Step \/ FreeLease
  PROVE  TypeOK'
<1>1. ASSUME NEW o \in Op, TakeEffect(o) PROVE TypeOK'
  <2>1. Target(op[o].action) \in Power
    BY DEF TypeOK, OpRow, Target, Power
  <2>2. cloud' \in [power : Power, usage : Usage]
    BY <1>1, <2>1 DEF TakeEffect, TypeOK
  <2>3. call' \in [Op -> {"none", "open", "accepted", "done", "lost"}]
    BY <1>1 DEF TakeEffect, TypeOK
  <2>4. QED BY <1>1, <2>2, <2>3, Zenon DEF TakeEffect, TypeOK
<1>2. ASSUME NEW o \in Op, Vanish(o) PROVE TypeOK'
  BY <1>2, EventType DEF Vanish, TypeOK
<1>3. CASE Incident \/ Step \/ FreeLease
  BY <1>3 DEF Incident, Step, FreeLease, TypeOK
<1>4. CASE AcquireLease
  BY <1>4, EventType, UnfencedType DEF AcquireLease, TypeOK
<1>5. QED BY <1>1, <1>2, <1>3, <1>4

LEMMA TypeStep == TypeOK /\ [Next]_vars => TypeOK'
<1> SUFFICES ASSUME TypeOK, [Next]_vars PROVE TypeOK'
  OBVIOUS
<1>1. CASE UNCHANGED vars
  BY <1>1, Zenon DEF vars, TypeOK
<1>2. ASSUME NEW w \in Worker, OperationLane(w) PROVE TypeOK'
  BY <1>2, JobTypes, EndingTypes, Zenon DEF OperationLane, Process, Fault, JobEnds
<1>3. QED BY <1>1, <1>2, UserTypes, PolicyTypes, OtherTypes, Zenon DEF Next

-----------------------------------------------------------------------------
(* What a worker knows of the operation that it holds.                     *)

LEMMA SameKnown ==
  ASSUME HeldIsKnown, UNCHANGED <<op, job>>
  PROVE  HeldIsKnown'
BY DEF HeldIsKnown, Holding, KnownStatus

\* A row is inserted where none was, and nobody holds it.
LEMMA InsertKnown ==
  ASSUME TypeOK, HeldIsKnown, NEW row, row.holder = NoWorker, Inserts(row), UNCHANGED job
  PROVE  HeldIsKnown'
<1> SUFFICES ASSUME NEW w \in Worker, Holding(w)'
             PROVE  op'[job[w].op].status \in KnownStatus(w)
  BY DEF HeldIsKnown, KnownStatus
<1>1. PICK o \in Op : op' = [op EXCEPT ![o] = row]
  BY DEF Inserts
<1>2. job[w].op \in Op /\ job[w].stage # "idle" /\ op'[job[w].op].holder = w
  BY DEF Holding, TypeOK, JobState
<1>3. job[w].op # o
  BY <1>1, <1>2, LifecycleAssumption DEF TypeOK
<1>4. op'[job[w].op] = op[job[w].op]
  BY <1>1, <1>2, <1>3 DEF TypeOK
<1>5. QED BY <1>2, <1>4 DEF HeldIsKnown, Holding

LEMMA CancelledKnown ==
  ASSUME TypeOK, HeldIsKnown,
         (\E on \in BOOLEAN, usage \in Usage : SetPolicy(on, usage)) \/ RemoveAccount
  PROVE  HeldIsKnown'
<1> SUFFICES ASSUME NEW w \in Worker, Holding(w)'
             PROVE  op'[job[w].op].status \in KnownStatus(w)
  BY DEF HeldIsKnown, KnownStatus, SetPolicy, RemoveAccount
<1>1. UNCHANGED job
  BY DEF SetPolicy, RemoveAccount
<1>2. job[w].op \in Op /\ job[w].stage # "idle" /\ op'[job[w].op].holder = w
  BY <1>1 DEF Holding, TypeOK, JobState
<1> DEFINE o == job[w].op
<1>3. op[o] \in OpRow
  BY <1>2 DEF TypeOK
<1>4. CASE op'[o] = op[o]
  BY <1>2, <1>4 DEF HeldIsKnown, Holding
<1>5. CASE op[o].status = "queued" /\ op'[o] = [op[o] EXCEPT !.status = "cancelled"]
  <2>1. op[o].holder = w /\ op'[o].status = "cancelled"
    BY <1>2, <1>3, <1>5 DEF OpRow
  <2>2. op[o].status \in KnownStatus(w)
    BY <1>2, <2>1 DEF HeldIsKnown, Holding
  <2>3. KnownStatus(w) = {"queued", "cancelled"}
    BY <1>5, <2>2 DEF KnownStatus, Dispatched
  <2>4. QED BY <2>1, <2>3
<1>6. CASE op'[o] = [op[o] EXCEPT !.status = "cancelled", !.holder = NoWorker]
  BY <1>2, <1>3, <1>6, LifecycleAssumption DEF OpRow
<1>7. \/ op'[o] = op[o]
      \/ op[o].status = "queued" /\ op'[o] = [op[o] EXCEPT !.status = "cancelled"]
      \/ op'[o] = [op[o] EXCEPT !.status = "cancelled", !.holder = NoWorker]
  BY <1>2 DEF SetPolicy, RemoveAccount
<1>8. QED BY <1>4, <1>5, <1>6, <1>7

LEMMA ClaimKnown ==
  ASSUME TypeOK, HeldIsKnown, NEW v \in Worker, ClaimOperation(v)
  PROVE  HeldIsKnown'
<1>1. PICK o \in Op :
        /\ IsActive(o)
        /\ op' = [op EXCEPT ![o].holder = v]
        /\ job' = [job EXCEPT ![v] = [Idle EXCEPT !.stage = "claimed", !.op = o,
                                                  !.observing = Observes(o)]]
  BY DEF ClaimOperation
<1> SUFFICES ASSUME NEW w \in Worker, Holding(w)'
             PROVE  op'[job'[w].op].status \in KnownStatus(w)'
  BY DEF HeldIsKnown
<1>2. CASE w = v
  <2>1. job'[w].op = o /\ job'[w].observing = Observes(o) /\ job'[w].stage = "claimed"
    BY <1>1, <1>2 DEF TypeOK, Idle
  <2>2. op'[o].status = op[o].status
    BY <1>1 DEF TypeOK, OpRow
  <2>3. op[o].status \in IF Observes(o) THEN Dispatched ELSE {"queued", "cancelled"}
    BY <1>1 DEF IsActive, Active, Dispatched, Observes
  <2>4. QED BY <2>1, <2>2, <2>3 DEF KnownStatus
<1>3. CASE w # v
  <2>1. job'[w] = job[w] /\ job[w].op \in Op
    BY <1>1, <1>3 DEF TypeOK, JobState
  <2>2. job[w].stage # "idle" /\ op'[job[w].op].holder = w
    BY <2>1 DEF Holding
  <2>3. job[w].op # o
    BY <1>1, <1>3, <2>2 DEF TypeOK, OpRow
  <2>4. op'[job[w].op] = op[job[w].op]
    BY <1>1, <2>1, <2>3 DEF TypeOK
  <2>5. op[job[w].op].status \in KnownStatus(w)
    BY <2>2, <2>4 DEF HeldIsKnown, Holding
  <2>6. QED BY <2>1, <2>4, <2>5 DEF KnownStatus
<1>4. QED BY <1>2, <1>3

LEMMA GivenBackKnown ==
  ASSUME TypeOK, HeldIsKnown, NEW v \in Worker, Ends(v), NEW s, Deferred(v, s) \/ UNCHANGED op
  PROVE  HeldIsKnown'
<1> SUFFICES ASSUME NEW w \in Worker, Holding(w)'
             PROVE  op'[job'[w].op].status \in KnownStatus(w)'
  BY DEF HeldIsKnown
<1>1. w # v /\ job'[w] = job[w] /\ job[w].op \in Op /\ job[v].op \in Op
  BY DEF Holding, Ends, TypeOK, Idle, JobState
<1>2. job[w].stage # "idle" /\ op'[job[w].op].holder = w
  BY <1>1 DEF Holding
<1>3. op'[job[w].op] = op[job[w].op]
  <2>1. CASE op' = op
    BY <2>1
  <2>2. CASE op' # op
    <3>1. op' = [op EXCEPT ![job[v].op] = Released(@, s)]
      BY <2>2 DEF Deferred
    <3>2. job[w].op # job[v].op
      BY <1>1, <1>2, <3>1, LifecycleAssumption DEF Released, TypeOK, OpRow
    <3>3. QED BY <1>1, <3>1, <3>2 DEF TypeOK
  <2>3. QED BY <2>1, <2>2
<1>4. op[job[w].op].status \in KnownStatus(w)
  BY <1>2, <1>3 DEF HeldIsKnown, Holding
<1>5. QED BY <1>1, <1>3, <1>4 DEF KnownStatus

LEMMA DispatchKnown ==
  ASSUME TypeOK, HeldIsKnown, NEW v \in Worker, Read(v) \/ Dispatch(v)
  PROVE  HeldIsKnown'
<1> SUFFICES ASSUME NEW w \in Worker, Holding(w)'
             PROVE  op'[job'[w].op].status \in KnownStatus(w)'
  BY DEF HeldIsKnown
<1>0. /\ job[w] \in JobState /\ job[w].op \in Op /\ job[v] \in JobState /\ job[v].op \in Op
      /\ op \in [Op -> OpRow] /\ job \in [Worker -> JobState]
  BY DEF TypeOK, JobState
<1>1. CASE Read(v)
  <2>1. /\ job'[w].op = job[w].op /\ job'[w].observing = job[w].observing
        /\ job'[w].stage = job[w].stage \/ (job[w].stage = "claimed" /\ job'[w].stage = "read")
    BY <1>0, <1>1 DEF Read, JobState
  <2>2. op' = op
    BY <1>1 DEF Read
  <2>3. Holding(w)
    BY <2>1, <2>2 DEF Holding
  <2>4. QED BY <2>1, <2>2, <2>3 DEF HeldIsKnown, KnownStatus
<1>2. CASE Dispatch(v) /\ w = v
  <2>1. job'[w].op = job[w].op /\ job'[w].stage = "sent"
    BY <1>0, <1>2 DEF Dispatch, JobState
  <2>2. op'[job[w].op].status = "in_flight"
    BY <1>0, <1>2 DEF Dispatch, OpRow
  <2>3. QED BY <2>1, <2>2 DEF KnownStatus, Dispatched
<1>3. CASE Dispatch(v) /\ w # v
  <2>1. job'[w] = job[w]
    BY <1>0, <1>3 DEF Dispatch
  <2>2. op[job[v].op].holder = v /\ op' = [op EXCEPT ![job[v].op].status = "in_flight"]
    BY <1>3 DEF Dispatch, Admissible, Dispatching, Current, Mine
  <2>3. job[w].stage # "idle" /\ op'[job[w].op].holder = w
    BY <2>1 DEF Holding
  <2>4. job[w].op # job[v].op
    BY <1>0, <1>3, <2>2, <2>3 DEF OpRow
  <2>5. op'[job[w].op] = op[job[w].op]
    BY <1>0, <2>2, <2>4
  <2>6. op[job[w].op].status \in KnownStatus(w)
    BY <2>3, <2>5 DEF HeldIsKnown, Holding
  <2>7. QED BY <2>1, <2>5, <2>6 DEF KnownStatus
<1>4. QED BY <1>1, <1>2, <1>3

LEMMA KnownStep ==
  ASSUME TypeOK, HeldIsKnown, [Next]_vars
  PROVE  HeldIsKnown'
<1>1. CASE UNCHANGED vars
  BY <1>1, SameKnown DEF vars
<1>2. ASSUME NEW action \in {"start", "stop", "delete"}, Request(action) PROVE HeldIsKnown'
  BY <1>2, InsertKnown DEF Request, NewOp
<1>3. CASE (\E on \in BOOLEAN, usage \in Usage : SetPolicy(on, usage)) \/ RemoveAccount
  BY <1>3, CancelledKnown
<1>4. ASSUME NEW w \in Worker, OperationLane(w) PROVE HeldIsKnown'
  <2>1. CASE ClaimOperation(w)
    BY <2>1, ClaimKnown
  <2>2. CASE Read(w) \/ Dispatch(w)
    BY <2>2, DispatchKnown
  <2>3. CASE Crash(w) \/ Stale(w)
    BY <2>3, GivenBackKnown DEF Crash, Stale
  <2>4. CASE JobEnds(w) /\ ~Stale(w)
    BY <2>4, EndingsGiveBack, GivenBackKnown
  <2>5. QED BY <1>4, <2>1, <2>2, <2>3, <2>4 DEF OperationLane, Process, Fault, JobEnds
<1>5. ASSUME NEW k \in Checker, PolicyLane(k) PROVE HeldIsKnown'
  <2>1. CASE Commit(k)
    BY <2>1, InsertKnown, SameKnown DEF Commit, NewOp
  <2>2. CASE ~Commit(k)
    BY <1>5, <2>2, SameKnown DEF PolicyLane, ClaimPolicy, Look, CheckEnds
  <2>3. QED BY <2>1, <2>2
<1>6. CASE Refer \/ Authorize \/ Incident \/ AcquireLease \/ Step \/ FreeLease
  BY <1>6, SameKnown DEF Refer, Authorize, Incident, AcquireLease, Step, FreeLease
<1>7. ASSUME NEW power \in Power, NEW usage \in Usage, Outside(power, usage) PROVE HeldIsKnown'
  BY <1>7, SameKnown DEF Outside
<1>8. ASSUME NEW o \in Op, TakeEffect(o) \/ Vanish(o) PROVE HeldIsKnown'
  BY <1>8, SameKnown DEF TakeEffect, Vanish
<1>9. QED BY <1>1, <1>2, <1>3, <1>4, <1>5, <1>6, <1>7, <1>8, Zenon DEF Next

-----------------------------------------------------------------------------
(* What is sent for an operation, and what it is alone with.               *)

\* A call that is under way belongs to an operation that is not queued.
LEMMA SentIsNotQueued ==
  ASSUME QueuedIsUnsent, NEW o \in Op, call[o] # "none"
  PROVE  op[o].status \notin {"none", "queued"}
BY DEF QueuedIsUnsent

LEMMA EndingUnsent ==
  ASSUME TypeOK, HeldIsKnown, QueuedIsUnsent, NEW w \in Worker, JobEnds(w)
  PROVE  QueuedIsUnsent'
<1> SUFFICES ASSUME NEW o \in Op, op'[o].status \in {"none", "queued"}
             PROVE  call'[o] = "none"
  BY DEF QueuedIsUnsent
<1> DEFINE mine == job[w].op
<1>0. mine \in Op /\ call \in [Op -> {"none", "open", "accepted", "done", "lost"}]
      /\ op \in [Op -> OpRow]
  BY DEF TypeOK, JobState
<1>1. \/ UNCHANGED call
      \/ call[mine] \in {"open", "done"} /\ \E r \in {"none", "accepted", "done", "lost"} :
           call' = [call EXCEPT ![mine] = r]
  BY DEF JobEnds, Fails, Missing, Stale, Observe, Cancel, DeferBusy, DeferLimited, Postpone,
         FindReached, Answer, Throttled, Refused, ResultLost
<1>2. CASE op'[o] = op[o]
  <2>1. call[o] = "none"
    BY <1>2 DEF QueuedIsUnsent
  <2>2. QED BY <1>0, <1>1, <2>1
<1>3. CASE op'[o] # op[o]
  <2>1. ~Stale(w)
    BY <1>3 DEF Stale
  <2>2. PICK s \in Active \cup {"succeeded", "failed", "cancelled"} :
          /\ Deferred(w, s)
          /\ s = "queued" => \/ /\ UNCHANGED call
                                /\ job[w].stage = "read" /\ Current(w)
                                /\ ~job[w].observing \/ op[job[w].op].status = "queued"
                             \/ call' = [call EXCEPT ![job[w].op] = "none"]
    BY <2>1, EndingsGiveBack
  <2>3. o = mine /\ Mine(w) /\ op'[o] = Released(op[o], s)
    BY <1>0, <1>3, <2>2 DEF Deferred
  <2>4. s = "queued"
    <3>1. op'[o].status = s
      BY <1>0, <2>3 DEF Released, OpRow
    <3>2. QED BY <2>2, <3>1 DEF Active
  <2>5. CASE call' = [call EXCEPT ![mine] = "none"]
    BY <1>0, <2>3, <2>5
  <2>6. CASE UNCHANGED call /\ job[w].stage = "read" /\ Current(w)
             /\ (~job[w].observing \/ op[mine].status = "queued")
    <3>1. op[mine].status = "queued"
      BY <2>3, <2>6 DEF HeldIsKnown, Holding, KnownStatus, Mine, Current, IsActive, Active,
                        Dispatched
    <3>2. QED BY <2>3, <2>6, <3>1 DEF QueuedIsUnsent
  <2>7. QED BY <2>2, <2>4, <2>5, <2>6
<1>4. QED BY <1>2, <1>3

LEMMA UnsentStep ==
  ASSUME TypeOK, HeldIsKnown, QueuedIsUnsent, [Next]_vars
  PROVE  QueuedIsUnsent'
<1>0. op \in [Op -> OpRow] /\ call \in [Op -> {"none", "open", "accepted", "done", "lost"}]
  BY DEF TypeOK
<1>1. ASSUME UNCHANGED <<op, call>> PROVE QueuedIsUnsent'
  BY <1>1 DEF QueuedIsUnsent
<1>2. ASSUME NEW row, Inserts(row), UNCHANGED call PROVE QueuedIsUnsent'
  <2>1. PICK p \in Op : op[p].status = "none" /\ op' = [op EXCEPT ![p] = row]
    BY <1>2 DEF Inserts
  <2>2. QED BY <1>0, <1>2, <2>1 DEF QueuedIsUnsent
<1>3. ASSUME UNCHANGED call,
             \A o \in Op : op'[o] = op[o] \/ op'[o].status \notin {"none", "queued"}
                           \/ op'[o].status = op[o].status
      PROVE  QueuedIsUnsent'
  BY <1>3 DEF QueuedIsUnsent
<1>4. ASSUME NEW action \in {"start", "stop", "delete"}, Request(action) PROVE QueuedIsUnsent'
  BY <1>2, <1>4 DEF Request
<1>5. CASE (\E on \in BOOLEAN, usage \in Usage : SetPolicy(on, usage)) \/ RemoveAccount
  <2>1. \A row \in OpRow : /\ [row EXCEPT !.status = "cancelled"].status = "cancelled"
                           /\ [row EXCEPT !.status = "cancelled",
                                          !.holder = NoWorker].status = "cancelled"
    BY DEF OpRow
  <2>2. QED BY <1>0, <1>3, <1>5, <2>1 DEF SetPolicy, RemoveAccount
<1>6. ASSUME NEW w \in Worker, OperationLane(w) PROVE QueuedIsUnsent'
  <2>1. CASE ClaimOperation(w)
    <3>1. PICK o \in Op : op' = [op EXCEPT ![o].holder = w]
      BY <2>1 DEF ClaimOperation
    <3>2. \A p \in Op : op'[p].status = op[p].status
      BY <1>0, <3>1 DEF OpRow
    <3>3. QED BY <1>3, <2>1, <3>2 DEF ClaimOperation
  <2>2. CASE Dispatch(w)
    <3>1. job[w].op \in Op
      BY DEF TypeOK, JobState
    <3>2. op'[job[w].op].status = "in_flight"
      BY <1>0, <2>2, <3>1 DEF Dispatch, OpRow
    <3>3. \A o \in Op \ {job[w].op} : op'[o] = op[o] /\ call'[o] = call[o]
      BY <1>0, <2>2, <3>1 DEF Dispatch
    <3>4. QED BY <3>2, <3>3 DEF QueuedIsUnsent
  <2>3. CASE Read(w) \/ Crash(w)
    BY <1>1, <2>3 DEF Read, Crash
  <2>4. CASE JobEnds(w)
    BY <2>4, EndingUnsent
  <2>5. QED BY <1>6, <2>1, <2>2, <2>3, <2>4 DEF OperationLane, Process, Fault, JobEnds
<1>7. ASSUME NEW k \in Checker, PolicyLane(k) PROVE QueuedIsUnsent'
  BY <1>1, <1>2, <1>7 DEF PolicyLane, ClaimPolicy, Look, CheckEnds, Commit
<1>8. ASSUME NEW o \in Op, TakeEffect(o) \/ Vanish(o) PROVE QueuedIsUnsent'
  <2>1. call[o] # "none" /\ op' = op
    BY <1>8 DEF TakeEffect, Vanish
  <2>2. \A p \in Op \ {o} : call'[p] = call[p]
    BY <1>0, <1>8 DEF TakeEffect, Vanish
  <2>3. QED BY <2>1, <2>2, SentIsNotQueued DEF QueuedIsUnsent
<1>9. CASE Refer \/ Authorize \/ Incident \/ AcquireLease \/ Step \/ FreeLease \/ UNCHANGED vars
  BY <1>1, <1>9 DEF Refer, Authorize, Incident, AcquireLease, Step, FreeLease, vars
<1>10. ASSUME NEW power \in Power, NEW usage \in Usage, Outside(power, usage)
       PROVE  QueuedIsUnsent'
  BY <1>1, <1>10 DEF Outside
<1>11. QED BY <1>4, <1>5, <1>6, <1>7, <1>8, <1>9, <1>10, Zenon DEF Next

LEMMA AloneStep ==
  ASSUME TypeOK, HeldIsKnown, DispatchedIsAlone, [Next]_vars
  PROVE  DispatchedIsAlone'
<1>0. op \in [Op -> OpRow]
  BY DEF TypeOK
<1>1. ASSUME UNCHANGED <<rotation, bound>>,
             \A o \in Op : op'[o].status \in Dispatched =>
               op[o].status \in Dispatched /\ op'[o].action = op[o].action
      PROVE  DispatchedIsAlone'
  BY <1>1 DEF DispatchedIsAlone
<1>2. ASSUME UNCHANGED <<op, rotation, bound>> PROVE DispatchedIsAlone'
  BY <1>1, <1>2
<1>3. ASSUME NEW row, row.status = "queued", Inserts(row), UNCHANGED <<rotation, bound>>
      PROVE  DispatchedIsAlone'
  BY <1>0, <1>1, <1>3 DEF Inserts, Dispatched
<1>4. ASSUME NEW action \in {"start", "stop", "delete"}, Request(action)
      PROVE  DispatchedIsAlone'
  BY <1>3, <1>4 DEF Request, NewOp
<1>5. ASSUME NEW on \in BOOLEAN, NEW usage \in Usage, SetPolicy(on, usage)
      PROVE  DispatchedIsAlone'
  <2>1. \A row \in OpRow : [row EXCEPT !.status = "cancelled"].status = "cancelled"
    BY DEF OpRow
  <2>2. QED BY <1>0, <1>1, <1>5, <2>1 DEF SetPolicy, Dispatched
<1>6. CASE RemoveAccount
  <2>1. \A row \in OpRow :
          [row EXCEPT !.status = "cancelled", !.holder = NoWorker].status = "cancelled"
    BY DEF OpRow
  <2>2. \A o \in Op : op'[o].status \notin Dispatched
    BY <1>0, <1>6, <2>1 DEF RemoveAccount, Dispatched
  <2>3. QED BY <2>2 DEF DispatchedIsAlone
<1>7. CASE Refer
  BY <1>7 DEF Refer, DispatchedIsAlone, IsActive, Active, Dispatched
<1>8. CASE Incident \/ Step
  BY <1>8 DEF Incident, Step, StepIsAdmitted, BlocksRotation, DispatchedIsAlone, IsActive,
              Active, Dispatched
<1>9. ASSUME NEW w \in Worker, OperationLane(w) PROVE DispatchedIsAlone'
  <2>0. job[w].op \in Op
    BY DEF TypeOK, JobState
  <2>1. CASE ClaimOperation(w)
    <3>1. PICK o \in Op : op' = [op EXCEPT ![o].holder = w]
      BY <2>1 DEF ClaimOperation
    <3>2. \A p \in Op : op'[p].status = op[p].status /\ op'[p].action = op[p].action
      BY <1>0, <3>1 DEF OpRow
    <3>3. QED BY <1>1, <2>1, <3>2 DEF ClaimOperation
  <2>2. CASE Dispatch(w)
    <3>1. rotation # "step" /\ (op[job[w].op].action = "delete" => ~bound)
      BY <2>2 DEF Dispatch, Admissible, LeaseIsBusy, Protected
    <3>2. op'[job[w].op].action = op[job[w].op].action
      BY <1>0, <2>0, <2>2 DEF Dispatch, OpRow
    <3>3. \A o \in Op \ {job[w].op} : op'[o] = op[o]
      BY <1>0, <2>0, <2>2 DEF Dispatch
    <3>4. UNCHANGED <<rotation, bound>>
      BY <2>2 DEF Dispatch
    <3>5. QED BY <3>1, <3>2, <3>3, <3>4 DEF DispatchedIsAlone
  <2>3. CASE Read(w) \/ Crash(w) \/ Stale(w)
    BY <1>2, <2>3 DEF Read, Crash, Stale
  <2>4. CASE JobEnds(w) /\ ~Stale(w)
    <3>1. PICK s \in Active \cup {"succeeded", "failed", "cancelled"} :
            /\ Deferred(w, s)
            /\ s \in Dispatched => \/ job[w].observing
                                   \/ job[w].stage = "sent"
                                   \/ op[job[w].op].status \in Dispatched
      BY <2>4, EndingsGiveBack
    <3>2. UNCHANGED <<rotation, bound>>
      BY <2>4, EndingsGiveBack
    <3>3. job[w].stage # "idle"
      BY <2>4 DEF JobEnds, Fails, Missing, Stale, Observe, Cancel, DeferBusy, DeferLimited,
                  Admissible, Dispatching, FindReached, Answer, Throttled, Refused, ResultLost
    <3>4. CASE ~Mine(w)
      BY <1>2, <3>1, <3>2, <3>4 DEF Deferred
    <3>5. CASE Mine(w)
      <4>1. op' = [op EXCEPT ![job[w].op] = Released(@, s)]
        BY <3>1, <3>5 DEF Deferred
      <4>2. op'[job[w].op].status = s /\ op'[job[w].op].action = op[job[w].op].action
        BY <1>0, <2>0, <4>1 DEF Released, OpRow
      <4>3. s \in Dispatched => op[job[w].op].status \in Dispatched
        BY <3>1, <3>3, <3>5 DEF HeldIsKnown, Holding, KnownStatus, Mine
      <4>4. \A o \in Op \ {job[w].op} : op'[o] = op[o]
        BY <1>0, <2>0, <4>1
      <4>5. QED BY <1>1, <3>2, <4>2, <4>3, <4>4
    <3>6. QED BY <3>4, <3>5
  <2>5. QED BY <1>9, <2>1, <2>2, <2>3, <2>4 DEF OperationLane, Process, Fault, JobEnds
<1>10. ASSUME NEW k \in Checker, PolicyLane(k) PROVE DispatchedIsAlone'
  BY <1>2, <1>3, <1>10 DEF PolicyLane, ClaimPolicy, Look, CheckEnds, Commit, NewOp
<1>11. ASSUME NEW o \in Op, TakeEffect(o) \/ Vanish(o) PROVE DispatchedIsAlone'
  BY <1>2, <1>11 DEF TakeEffect, Vanish
<1>12. CASE Authorize \/ AcquireLease \/ FreeLease \/ UNCHANGED vars
  BY <1>2, <1>12 DEF Authorize, AcquireLease, FreeLease, vars
<1>13. ASSUME NEW power \in Power, NEW usage \in Usage, Outside(power, usage)
       PROVE  DispatchedIsAlone'
  BY <1>2, <1>13 DEF Outside
<1>14. QED
  BY <1>4, <1>5, <1>6, <1>7, <1>8, <1>9, <1>10, <1>11, <1>12, <1>13, Zenon DEF Next

-----------------------------------------------------------------------------
(* The theorems.                                                           *)

LEMMA InvInit == Init => IInv
<1> SUFFICES ASSUME Init PROVE IInv
  OBVIOUS
<1>1. HeldIsKnown
  BY DEF Init, HeldIsKnown, Holding, Idle
<1>2. QueuedIsUnsent
  BY DEF Init, QueuedIsUnsent
<1>3. DispatchedIsAlone
  BY DEF Init, DispatchedIsAlone
<1>4. QED BY <1>1, <1>2, <1>3, TypeInit DEF IInv

\* For any number of operations and workers: the rows, the jobs and the checks
\* have their types, a job knows the status of what it holds, and nothing has
\* been sent for a queued row (claim, defer and finish of both lanes).
THEOREM LifecycleInvariant == Spec => []IInv
<1>1. IInv /\ [Next]_vars => IInv'
  BY TypeStep, KnownStep, UnsentStep, AloneStep DEF IInv
<1>2. QED BY InvInit, <1>1, PTL DEF Spec

\* For any number of operations and workers, while a power write is dispatched
\* and not confirmed no step of a rotation is, and nothing refers to a machine
\* that is being deleted (the dispatch transaction of the operation lane).
THEOREM DispatchedIsAloneAlways == Spec => []DispatchedIsAlone
BY LifecycleInvariant, PTL DEF IInv

LEMMA SendsOnce ==
  ASSUME IInv, [Next]_vars, NEW w \in Worker, job'[w].stage = "sent", job[w].stage # "sent"
  PROVE  call[job[w].op] = "none"
<1>0. job \in [Worker -> JobState]
  BY DEF IInv, TypeOK
<1>1. UNCHANGED job \/ \E v \in Worker : OperationLane(v)
  BY DEF Next, vars, Request, SetPolicy, RemoveAccount, Refer, Authorize, Outside, PolicyLane,
         ClaimPolicy, Look, Commit, CheckEnds, TakeEffect, Vanish, Incident, AcquireLease, Step,
         FreeLease
<1>2. PICK v \in Worker : OperationLane(v)
  BY <1>1
<1>3. ASSUME Ends(v) PROVE FALSE
  BY <1>0, <1>3 DEF Ends, Idle
<1>4. ~JobEnds(v) /\ ~Crash(v)
  BY <1>3, EndingsGiveBack DEF IInv, Crash, Stale
<1>5. ~ClaimOperation(v) /\ ~Read(v)
  <2>1. ~ClaimOperation(v)
    <3>1. SUFFICES ASSUME ClaimOperation(v) PROVE FALSE
      OBVIOUS
    <3>2. PICK o \in Op : job' = [job EXCEPT ![v] = [Idle EXCEPT
                                     !.stage = "claimed", !.op = o, !.observing = Observes(o)]]
      BY <3>1 DEF ClaimOperation
    <3>3. QED BY <1>0, <3>2 DEF Idle
  <2>2. ~Read(v)
    BY <1>0 DEF Read, JobState
  <2>3. QED BY <2>1, <2>2
<1>6. Dispatch(v)
  BY <1>2, <1>4, <1>5 DEF OperationLane, Process, Fault, JobEnds
<1>7. v = w
  BY <1>0, <1>6 DEF Dispatch
<1>8. Holding(w) /\ ~job[w].observing /\ job[w].stage = "read" /\ IsActive(job[w].op)
  BY <1>6, <1>7 DEF Dispatch, Admissible, Dispatching, Current, Mine, Holding
<1>9. op[job[w].op].status = "queued" /\ job[w].op \in Op
  BY <1>8 DEF IInv, HeldIsKnown, KnownStatus, IsActive, Active, TypeOK, JobState
<1>10. QED BY <1>9 DEF IInv, QueuedIsUnsent

\* For any number of operations, workers and faults, a write is sent only when
\* none has been sent for its operation that the provider has not refused:
\* after a crash or a time-out a worker observes ("Never repeat an uncertain
\* write", cloud-lifecycle.service.ts of the worker).
THEOREM WritesAreNotRepeatedAlways == Spec => WritesAreNotRepeated
<1>1. IInv /\ [Next]_vars =>
        [\A w \in Worker : job'[w].stage = "sent" /\ job[w].stage # "sent"
           => call[job[w].op] = "none"]_vars
  BY SendsOnce
<1>2. QED BY LifecycleInvariant, <1>1, PTL DEF Spec, WritesAreNotRepeated

=============================================================================
