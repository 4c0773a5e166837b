-------------------------------- MODULE Pool --------------------------------
(***************************************************************************)
(* One IP pool, from the requests and observations that change what it     *)
(* should publish to the DNS records of its bindings: the API of pools     *)
(* (pools.service.ts), the reconcile intents and their outbox, the         *)
(* reconcile (reconcile.processor.ts with module Strategy), the steps of   *)
(* its operations, the deletion of a binding with its readback, and the    *)
(* synchronisation of the zone that finds drift (sync.processor.ts).       *)
(*                                                                         *)
(* All bindings are names of one zone.  A step is one action here; what an *)
(* operation does around its steps is module Operations.  Addresses are    *)
(* numbered by version.  A row of dns_records that is marked deleted is    *)
(* not told from one that does not exist.                                  *)
(***************************************************************************)
EXTENDS Strategy

CONSTANTS RecordCount,   \* bound: record identities of a name
          Versions,      \* bound: Versions[e] addresses of endpoint e
          MaxEvents,     \* bound: requests, observations and faults together
          Settings,      \* strategy, selection and recovery mode of the pool
          Switches,      \* <<old, new>> settings a user may ask for
          Beginnings,    \* what the pool has when it is first looked at
          Reached,       \* health states the thresholds let an address reach
          NoRow,         \* no row, or no record
          Foreign        \* content of a record that an outsider wrote

Record == 1 .. RecordCount
NoRecord == 0
Version == UNION {1 .. Versions[e] : e \in Endpoint}
Address == Endpoint \X Version
Content == Address \cup {Foreign}

ASSUME PoolAssumption ==
  /\ {RecordCount, MaxEvents} \subseteq Nat /\ EndpointCount <= RecordCount
  /\ Versions \in [Endpoint -> Nat \ {0}]
  /\ Settings \subseteq [strategy : {"primary_backup", "assignment_pool", "healthy_set"},
                         selection : {"ordered", "least_assigned", "round_robin", "random"},
                         recovery : {"automatic", "delayed", "keep_current", "manual"}]
  /\ Beginnings \subseteq [present : SUBSET Endpoint, setting : Settings,
                            start : [Binding -> {"clean", "foreign", "published"}],
                            spent : 0 .. MaxEvents]
  /\ \A begin \in Beginnings : begin.present = {} =>
       \A b \in Binding : begin.start[b] # "published"
  /\ Reached \subseteq Health /\ {"unknown", "healthy", "unhealthy"} \subseteq Reached
  /\ Foreign \notin Address /\ NoRow \notin Content
  /\ NoRow \notin [content : Content, managed : BOOLEAN]

VARIABLES
  pool,       \* endpoint_pools: enabled, setting, revisions, cursors
  endpoint,   \* endpoints with their current address
  binding,    \* domain_bindings, with the deletion that is under way
  assigned,   \* binding_assignments
  intents,    \* open rows of reconcile_intents
  jobs,       \* reconcile jobs in Redis
  ops,        \* unfinished operations of the pool
  doubt,      \* attempted writes that ended failed or skipped
  local,      \* dns_records
  remote,     \* records at the DNS provider
  request,    \* the API request under way, between two of its transactions
  sync,       \* the synchronisation of the zone
  account,    \* status of the provider account
  disturbed,  \* history: bindings with a fault of the zone or the provider
  narrowed,   \* history: bindings a plan reduces from several records to one
  torn,       \* history: an API request has stopped half-way
  events

vars == <<pool, endpoint, binding, assigned, intents, jobs, ops, doubt, local,
          remote, request, sync, account, disturbed, narrowed, torn, events>>

asked == <<request, torn, narrowed>>
zone == <<local, remote, sync>>
plans == <<jobs, ops, doubt>>

Revision == Nat \ {0}

Step == [binding : Binding, endpoint : Endpoint, action : {"create", "update", "delete"},
         record : Record \cup {NoRecord}, content : Content, tried : BOOLEAN]
Intent == [decision : Revision, policy : Revision, trigger : Trigger,
           force : BOOLEAN]
Operation == [decision : Revision, policy : Revision,
              force : BOOLEAN, single : BOOLEAN, steps : SUBSET Step]
Row == [content : Content, managed : BOOLEAN]
PoolRow == [enabled : BOOLEAN, setting : Settings, policy : Revision, decision : Nat,
            cursors : [SUBSET Endpoint -> Endpoint \cup {NoEndpoint}]]
EndpointRow == [lifecycle : {"absent", "enabled", "disabled"},
                version : Version \cup {0}, health : Reached]
BindingRow == [phase : {"absent", "bound", "deleting"}, original : Endpoint \cup {NoEndpoint},
               doomed : SUBSET Record, stuck : BOOLEAN]
Assignment == [desired : SUBSET Endpoint, applied : SUBSET Endpoint,
               record : [Endpoint -> Record \cup {NoRecord}]]
Spot == Binding \X Record

Idle == [next |-> "idle", reconcile |-> FALSE, force |-> FALSE]
Asleep == [phase |-> "idle", todo |-> {}, missing |-> {}, noted |-> {}]

TypeOK ==
  /\ pool \in PoolRow
  /\ endpoint \in [Endpoint -> EndpointRow]
  /\ binding \in [Binding -> BindingRow]
  /\ assigned \in [Binding -> Assignment]
  /\ intents \subseteq Intent /\ jobs \subseteq Intent
  /\ ops \subseteq Operation
  /\ doubt \in [Binding -> SUBSET Step]
  /\ local \in [Binding -> [Record -> Row \cup {NoRow}]]
  /\ remote \in [Binding -> [Record -> Content \cup {NoRow}]]
  /\ request \in [next : {"idle", "record", "enqueue"}, reconcile : BOOLEAN, force : BOOLEAN]
  /\ sync \in [phase : {"idle", "records", "missing"}, todo : SUBSET (Spot \X Content),
               missing : SUBSET Spot, noted : SUBSET Spot]
  /\ account \in {"active", "error", "disabled"}
  /\ disturbed \subseteq Binding /\ narrowed \subseteq Binding
  /\ torn \in BOOLEAN
  /\ events \in 0 .. MaxEvents

-----------------------------------------------------------------------------
(* The pool's revisions and intents.                                       *)

\* The one bound of the model: what users, monitors and faults start.
Event == events < MaxEvents /\ events' = events + 1

Bound == {b \in Binding : binding[b].phase = "bound"}
Present == {e \in Endpoint : endpoint[e].lifecycle # "absent"}

\* Mutant of Current: a newer decision under the same policy is not noticed.
MutantPolicyOnly(x) == pool.policy = x.policy

\* isReconcileDecisionCurrent and isOperationDecisionCurrent.
Current(x) == pool.policy = x.policy /\ pool.decision = x.decision

IntentOf(p, trigger, force) ==
  [decision |-> p.decision, policy |-> p.policy, trigger |-> trigger, force |-> force]

\* p is the pool with what the transaction changes before the decision.
Decide(p, trigger, force) ==
  LET next == [p EXCEPT !.decision = @ + 1] IN
  /\ pool' = next
  /\ intents' = intents \cup {IntentOf(next, trigger, force)}

BumpPolicy == [pool EXCEPT !.policy = @ + 1]

-----------------------------------------------------------------------------
(* The API.  Most edits are three transactions: the edit, then             *)
(* recordPolicyChange, then enqueueReconcile; the process may stop between. *)

Ask(reconcile, force) ==
  /\ request = Idle
  /\ Event
  /\ request' = [next |-> "record", reconcile |-> reconcile, force |-> force]
  /\ UNCHANGED <<intents, plans, zone, account, disturbed, narrowed, torn>>

UpdatePool(setting) ==
  /\ <<pool.setting, setting>> \in Switches
  /\ pool' = [pool EXCEPT !.setting = setting]
  /\ Ask(TRUE, FALSE)
  /\ UNCHANGED <<endpoint, binding, assigned>>

Pause ==
  /\ pool' = [pool EXCEPT !.enabled = FALSE]
  /\ Ask(FALSE, FALSE)
  /\ UNCHANGED <<endpoint, binding, assigned>>

Resume ==
  /\ pool' = [pool EXCEPT !.enabled = TRUE]
  /\ Ask(TRUE, FALSE)
  /\ UNCHANGED <<endpoint, binding, assigned>>

CreateEndpoint(e) ==
  /\ endpoint[e].lifecycle = "absent" /\ endpoint[e].version < Versions[e]
  /\ endpoint' = [endpoint EXCEPT ![e] =
       [lifecycle |-> "enabled", version |-> @.version + 1, health |-> "unknown"]]
  /\ Ask(TRUE, FALSE)
  /\ UNCHANGED <<pool, binding, assigned>>

UpdateLifecycle(e, lifecycle) ==
  /\ e \in Present
  /\ endpoint' = [endpoint EXCEPT ![e].lifecycle = lifecycle]
  /\ Ask(TRUE, FALSE)
  /\ UNCHANGED <<pool, binding, assigned>>

\* replaceStaticAddress.
UpdateAddress(e, force) ==
  /\ e \in Present /\ endpoint[e].version < Versions[e]
  /\ endpoint' = [endpoint EXCEPT ![e].version = @ + 1, ![e].health = "unknown"]
  /\ Ask(TRUE, force)
  /\ UNCHANGED <<pool, binding, assigned>>

Unassigned == [desired |-> {}, applied |-> {}, record |-> [e \in Endpoint |-> NoRecord]]

\* Rows of the name that are not marked deleted.
Rows(b) == {r \in Record : local[b][r] # NoRow}

CreateBinding(b, original) ==
  /\ binding[b].phase = "absent"
  /\ Rows(b) = {}
  /\ IF original = NoEndpoint THEN pool.setting.strategy = "healthy_set"
                              ELSE original \in Present
  /\ binding' = [binding EXCEPT ![b].phase = "bound", ![b].original = original]
  /\ assigned' = [assigned EXCEPT ![b].desired = {original} \ {NoEndpoint}]
  /\ Ask(TRUE, FALSE)
  /\ UNCHANGED <<pool, endpoint>>

\* createBinding with takeoverExisting.
TakeOver(b, original, r) ==
  /\ request = Idle /\ Event
  /\ binding[b].phase = "absent"
  /\ original \in Present
  /\ Rows(b) = {r} /\ ~local[b][r].managed
  /\ binding' = [binding EXCEPT ![b].phase = "bound", ![b].original = original]
  /\ assigned' = [assigned EXCEPT ![b] = [desired |-> {original}, applied |-> {original},
                    record |-> [Unassigned.record EXCEPT ![original] = r]]]
  /\ local' = [local EXCEPT ![b][r].managed = TRUE]
  /\ request' = [next |-> "record", reconcile |-> TRUE, force |-> FALSE]
  /\ UNCHANGED <<pool, endpoint, intents, plans, remote, sync, account, disturbed, narrowed, torn>>

UpdateBinding(b, original, force) ==
  /\ binding[b].phase # "absent" /\ original \in Present
  /\ binding' = [binding EXCEPT ![b].original = original]
  /\ Ask(TRUE, force)
  /\ UNCHANGED <<pool, endpoint, assigned>>

\* createHealthCheck asks for no reconcile; nor does deleteHealthCheck, in one transaction.
CreateHealthCheck == Ask(FALSE, FALSE) /\ UNCHANGED <<pool, endpoint, binding, assigned>>

RecordPolicyChange ==
  /\ request.next = "record"
  /\ pool' = BumpPolicy
  /\ request' = IF request.reconcile THEN [request EXCEPT !.next = "enqueue"] ELSE Idle
  /\ UNCHANGED <<endpoint, binding, assigned, intents, plans, zone, account, disturbed, narrowed, torn, events>>

EnqueueReconcile ==
  /\ request.next = "enqueue"
  /\ Decide(pool, "configuration", request.force)
  /\ request' = Idle
  /\ UNCHANGED <<endpoint, binding, assigned, plans, zone, account, disturbed, narrowed, torn, events>>

\* The API process stops between two transactions of a request.
StopHalfway ==
  /\ request # Idle
  /\ Event
  /\ request' = Idle
  /\ torn' = TRUE
  /\ UNCHANGED <<pool, endpoint, binding, assigned, intents, plans, zone, account, disturbed, narrowed>>

ReconcileRequest(force) ==
  /\ Event
  /\ Decide(pool, "rebalance", force)
  /\ UNCHANGED <<endpoint, binding, assigned, plans, zone, account, disturbed, asked>>

DeleteHealthCheck ==
  /\ Event
  /\ pool' = BumpPolicy
  /\ UNCHANGED <<endpoint, binding, assigned, intents, plans, zone, account, disturbed, asked>>

DeleteEndpoint(e) ==
  /\ e \in Present /\ Event
  /\ \A b \in Binding : /\ e \notin assigned[b].desired \cup assigned[b].applied
                        /\ binding[b].original # e
  /\ endpoint' = [endpoint EXCEPT ![e].lifecycle = "absent", ![e].health = "unknown"]
  /\ assigned' = [b \in Binding |-> [assigned[b] EXCEPT !.record[e] = NoRecord]]
  /\ pool' = BumpPolicy
  /\ UNCHANGED <<binding, intents, plans, zone, account, disturbed, asked>>

\* restoreEndpointPolicy for every endpoint there still is.
Restored(lifecycle, version) ==
  [e \in Endpoint |-> IF e \notin Present THEN endpoint[e] ELSE
     [lifecycle |-> lifecycle[e], version |-> version[e], health |-> "unknown"]]

\* restorePolicyVersion: a setting, lifecycles and addresses of an earlier version.
Restore(setting, lifecycle, version, force) ==
  /\ Event
  /\ setting = pool.setting \/ <<pool.setting, setting>> \in Switches
  /\ \A e \in Present : version[e] \in 1 .. endpoint[e].version
  /\ endpoint' = Restored(lifecycle, version)
  /\ Decide([BumpPolicy EXCEPT !.setting = setting, !.enabled = TRUE,
                               !.cursors = [S \in SUBSET Endpoint |-> NoEndpoint]],
            "configuration", force)
  /\ UNCHANGED <<binding, assigned, plans, zone, account, disturbed, asked>>

-----------------------------------------------------------------------------
(* Health and addresses that are observed.                                 *)

\* applyHealthResult with its streaks left out.
HealthSteps ==
  {<<"unknown", "healthy">>, <<"unknown", "unhealthy">>, <<"healthy", "degraded">>,
   <<"healthy", "unhealthy">>, <<"degraded", "healthy">>, <<"degraded", "unhealthy">>,
   <<"unhealthy", "recovering">>, <<"unhealthy", "healthy">>,
   <<"recovering", "healthy">>, <<"recovering", "unhealthy">>}

\* applyObserved; the delay of a recovery is a wait before it is dispatched.
Observe(e, health) ==
  /\ Event
  /\ e \in Present /\ endpoint[e].version > 0
  /\ <<endpoint[e].health, health>> \in HealthSteps
  /\ endpoint' = [endpoint EXCEPT ![e].health = health]
  /\ CASE health = "unhealthy" -> Decide(pool, "failure", FALSE)
       [] health = "healthy" -> Decide(pool, "recovery", FALSE)
       [] OTHER -> UNCHANGED <<pool, intents>>
  /\ UNCHANGED <<binding, assigned, plans, zone, account, disturbed, asked>>

\* applyObserved promotes the candidate address of a DDNS endpoint.
Promote(e) ==
  /\ Event
  /\ e \in Present /\ endpoint[e].version < Versions[e]
  /\ endpoint' = [endpoint EXCEPT ![e].version = @ + 1, ![e].health = "healthy"]
  /\ Decide(pool, "repair", FALSE)
  /\ UNCHANGED <<binding, assigned, plans, zone, account, disturbed, asked>>

-----------------------------------------------------------------------------
(* The outbox and the reconcile.                                           *)

\* dispatchPending, some time after availableAt; the job id keeps an intent from
\* being queued twice.
Dispatch(i) ==
  /\ i \in intents \ jobs
  /\ jobs' = jobs \cup {i}
  /\ UNCHANGED <<pool, endpoint, binding, assigned, intents, ops, doubt, zone, account, disturbed, asked, events>>

\* Redis loses a job.
LoseJob(i) ==
  /\ i \in jobs
  /\ Event
  /\ jobs' = jobs \ {i}
  /\ UNCHANGED <<pool, endpoint, binding, assigned, intents, ops, doubt, zone, account, disturbed, asked>>

Published(e) == <<e, endpoint[e].version>>

CreateStep(b, e) ==
  [binding |-> b, endpoint |-> e, action |-> "create", record |-> NoRecord,
   content |-> Published(e), tried |-> FALSE]
UpdateStep(b, e, r) ==
  [binding |-> b, endpoint |-> e, action |-> "update", record |-> r,
   content |-> Published(e), tried |-> FALSE]
DeleteStep(b, e, r) ==
  [binding |-> b, endpoint |-> e, action |-> "delete", record |-> r,
   content |-> local[b][r].content, tried |-> FALSE]

HasRow(b, e) == assigned[b].record[e] \in Rows(b)
Recorded(b) == {e \in assigned[b].applied : assigned[b].record[e] # NoRecord}
Matches(b, e, f) == local[b][assigned[b].record[e]].content = Published(f)

\* planSingleAssignment; first is the recorded endpoint that was assigned first.
PlanSingle(b, e, first) ==
  (IF first # NoEndpoint /\ HasRow(b, first)
   THEN IF Matches(b, first, e) /\ first = e THEN {}
        ELSE {UpdateStep(b, e, assigned[b].record[first])}
   ELSE {CreateStep(b, e)})
  \cup {DeleteStep(b, x, assigned[b].record[x]) :
          x \in {y \in Recorded(b) \ {first} : HasRow(b, y)}}

\* planHealthySet.
PlanSet(b, desired) ==
  {IF HasRow(b, e) THEN UpdateStep(b, e, assigned[b].record[e]) ELSE CreateStep(b, e) :
     e \in {f \in desired : ~(HasRow(b, f) /\ Matches(b, f, f) /\ f \in assigned[b].applied)}}
  \cup {DeleteStep(b, x, assigned[b].record[x]) :
          x \in {y \in assigned[b].applied \ desired : HasRow(b, y)}}

\* The strategy's view of the pool.
ContextOf(i, hash) ==
  [trigger |-> i.trigger,
   strategy |-> pool.setting.strategy,
   selection |-> pool.setting.selection,
   recovery |-> pool.setting.recovery,
   enabled |-> [e \in Endpoint |-> endpoint[e].lifecycle = "enabled"],
   addressed |-> [e \in Endpoint |-> e \in Present /\ endpoint[e].version > 0],
   health |-> [b \in Binding |-> [e \in Endpoint |->
                 IF i.force /\ endpoint[e].lifecycle = "enabled"
                 THEN "healthy" ELSE endpoint[e].health]],
   bound |-> Bound,
   applied |-> [b \in Binding |-> assigned[b].applied],
   original |-> [b \in Binding |-> binding[b].original],
   hash |-> hash,
   cursors |-> pool.cursors]

Decided(ctx) == {b \in Binding : EvaluateStrategy(ctx)[b].reason # "none"}
Planned(ctx) == {b \in Decided(ctx) : EvaluateStrategy(ctx)[b].reason # "no_healthy_endpoint"}

StepsFor(ctx, b, first) ==
  LET desired == EvaluateStrategy(ctx)[b].desired IN
  IF ctx.strategy = "healthy_set" THEN PlanSet(b, desired)
  ELSE PlanSingle(b, CHOOSE e \in desired : TRUE, first)

\* A plan for one endpoint finds more records of the name than one: the pool was a
\* healthy set.
Narrows(b) == pool.setting.strategy # "healthy_set" /\ \E e, f \in Recorded(b) : e # f

\* Mutant of Settle: a stale intent stays open.
MutantSettle(i) ==
  /\ i \in jobs
  /\ i \in intents => ~Current(i) \/ ~pool.enabled
  /\ jobs' = jobs \ {i}
  /\ UNCHANGED <<pool, endpoint, binding, assigned, intents, ops, doubt, zone, account, disturbed, asked, events>>

\* The job of an intent that is not open, that is stale, or of a paused pool.
Settle(i) ==
  /\ i \in jobs
  /\ i \in intents => ~Current(i) \/ ~pool.enabled
  /\ jobs' = jobs \ {i}
  /\ intents' = intents \ {i}
  /\ UNCHANGED <<pool, endpoint, binding, assigned, ops, doubt, zone, account, disturbed, asked, events>>

\* The transaction is rolled back and the third attempt removes the job.
ProviderUnavailable(i, hash) ==
  /\ i \in jobs \cap intents /\ Current(i) /\ pool.enabled
  /\ Planned(ContextOf(i, hash)) # {} /\ account # "active"
  /\ jobs' = jobs \ {i}
  /\ UNCHANGED <<pool, endpoint, binding, assigned, intents, ops, doubt, zone, account, disturbed, asked, events>>

\* process of reconcile.processor.ts, in one transaction.
Reconcile(i, hash, first) ==
  LET ctx == ContextOf(i, hash)
      decisions == EvaluateStrategy(ctx)
      steps == UNION {StepsFor(ctx, b, first[b]) : b \in Planned(ctx)}
  IN /\ i \in jobs \cap intents /\ Current(i) /\ pool.enabled
     /\ Planned(ctx) # {} => account = "active"
     /\ jobs' = jobs \ {i}
     /\ intents' = intents \ {i}
     /\ assigned' = [b \in Binding |-> IF b \in Decided(ctx)
          THEN [assigned[b] EXCEPT !.desired = decisions[b].desired] ELSE assigned[b]]
     /\ pool' = [pool EXCEPT !.cursors = NextCursors(ctx)]
     /\ ops' = IF steps = {} THEN ops
               ELSE ops \cup {[decision |-> i.decision, policy |-> i.policy,
                               force |-> i.force, steps |-> steps,
                               single |-> ctx.strategy # "healthy_set"]}
     /\ narrowed' = narrowed \cup {b \in Planned(ctx) : Narrows(b)}
     /\ UNCHANGED <<endpoint, binding, doubt, zone, account, disturbed, request, torn, events>>

-----------------------------------------------------------------------------
(* The steps of an operation of the pool.                                  *)

\* Mutant of Ready: the deletions of a name do not come last.
MutantReady(op) == {s \in op.steps : \A t \in op.steps : s.binding <= t.binding}

\* The executor takes them by binding, with the deletions of each last.
Ready(op) ==
  {s \in op.steps : \A t \in op.steps \ {s} :
     \/ s.binding < t.binding
     \/ s.binding = t.binding /\ (s.action = "delete" => t.action = "delete")}

\* ops with the step s of op replaced by those of S.
WithSteps(op, s, S) ==
  LET left == (op.steps \ {s}) \cup S IN
  (ops \ {op}) \cup (IF left = {} THEN {} ELSE {[op EXCEPT !.steps = left]})

\* A row lock, the zone lock and the account let the step run.  The fence of a
\* binding that is gone or going skips the step.
MayRun(op, s) ==
  /\ op \in ops /\ s \in Ready(op)
  /\ Current(op)
  /\ sync.phase = "idle"
  /\ s.action = "delete" \/ s.binding \in Bound

\* Identities that no row, assignment or step names any more; the provider's
\* next record gets the first of them.
Unnamed(b) ==
  {r \in Record \ Rows(b) :
     /\ remote[b][r] = NoRow
     /\ \A e \in Endpoint : assigned[b].record[e] # r
     /\ r \notin binding[b].doomed
     /\ \A s \in doubt[b] : s.record # r
     /\ \A op \in ops : \A s \in op.steps : s.binding = b => s.record # r}
Fresh(b) == {r \in Unnamed(b) : \A q \in Unnamed(b) : r <= q}

\* What findMatchingRecord finds for a step that was tried before.
Found(s) == {r \in Record : s.tried /\ remote[s.binding][r] = s.content}

\* The record to update is gone, or the one to adopt has a row already.
Hopeless(s) ==
  CASE s.action = "create" -> Found(s) # {} /\ Found(s) \subseteq Rows(s.binding)
    [] s.action = "update" -> remote[s.binding][s.record] = NoRow
    [] OTHER -> FALSE

\* The records a create may end with: an adopted one must be new to dns_records.
CreatedAs(s) == IF Found(s) # {} THEN Found(s) \ Rows(s.binding) ELSE Fresh(s.binding)

Target(s) == CASE s.action = "create" -> CreatedAs(s)
               [] s.action = "update" ->
                    {r \in Record : r = s.record /\ remote[s.binding][r] # NoRow}
               [] OTHER -> {s.record}

\* What the provider has after the step.
Written(s, r) ==
  [remote EXCEPT ![s.binding][r] = IF s.action = "delete" THEN NoRow ELSE s.content]

\* Mutant of AssignedBy: the other assignments are cleared in a set as well.
MutantAssignedBy(s, r, single) ==
  LET a == assigned[s.binding]
  IN IF s.action = "delete"
     THEN [a EXCEPT !.applied = @ \ {s.endpoint}, !.record[s.endpoint] = NoRecord]
     ELSE [desired |-> a.desired \cup {s.endpoint}, applied |-> {s.endpoint},
           record |-> [Unassigned.record EXCEPT ![s.endpoint] = r]]

\* single is the assignmentMode the step was planned with.
AssignedBy(s, r, single) ==
  LET a == assigned[s.binding]
  IN CASE s.action = "delete" ->
            [a EXCEPT !.applied = @ \ {s.endpoint}, !.record[s.endpoint] = NoRecord]
       [] s.action # "delete" /\ single ->
            [desired |-> a.desired \cup {s.endpoint}, applied |-> {s.endpoint},
             record |-> [Unassigned.record EXCEPT ![s.endpoint] = r]]
       [] OTHER ->
            [desired |-> a.desired \cup {s.endpoint}, applied |-> a.applied \cup {s.endpoint},
             record |-> [a.record EXCEPT ![s.endpoint] = r]]

\* executeStep: the provider is written and read back, then the rows.
RunStep(op, s, r) ==
  /\ MayRun(op, s) /\ account = "active"
  /\ r \in Target(s)
  /\ remote' = Written(s, r)
  /\ local' = [local EXCEPT ![s.binding][r] =
       IF s.action = "delete" THEN NoRow ELSE [content |-> s.content, managed |-> TRUE]]
  /\ assigned' = [assigned EXCEPT ![s.binding] = AssignedBy(s, r, op.single)]
  /\ ops' = WithSteps(op, s, {})
  /\ UNCHANGED <<pool, endpoint, binding, intents, jobs, doubt, sync, account, disturbed, asked, events>>

\* The attempt fails with the provider written or not; the step is tried again.
LoseAnswer(op, s, r, written) ==
  /\ MayRun(op, s) /\ account = "active"
  /\ r \in Target(s)
  /\ Event
  /\ remote' = IF written THEN Written(s, r) ELSE remote
  /\ ops' = WithSteps(op, s, {[s EXCEPT !.tried = TRUE]})
  /\ disturbed' = disturbed \cup {s.binding}
  /\ UNCHANGED <<pool, endpoint, binding, assigned, intents, jobs, doubt, local, sync, account, asked>>

Doubted(S) ==
  [b \in Binding |-> doubt[b] \cup {s \in S : s.binding = b /\ s.action # "delete"}]

\* The step fails for good, and the executor goes on with the next one.  An
\* account in error fails every step, a disabled one none.
FailStep(op, s, status) ==
  /\ MayRun(op, s) /\ account # "disabled"
  /\ IF account = "error" \/ Hopeless(s) THEN UNCHANGED events ELSE Event
  /\ account' = status /\ status \in {account, "error"}
  /\ ops' = WithSteps(op, s, {})
  /\ doubt' = Doubted({[s EXCEPT !.tried = TRUE]})
  /\ disturbed' = disturbed \cup {s.binding}
  /\ UNCHANGED <<pool, endpoint, binding, assigned, intents, jobs, zone, asked>>

Supersede(op) ==
  /\ op \in ops /\ ~Current(op)
  /\ ops' = ops \ {op}
  /\ doubt' = Doubted({s \in op.steps : s.tried})
  /\ UNCHANGED <<pool, endpoint, binding, assigned, intents, jobs, zone, account, disturbed, asked, events>>

-----------------------------------------------------------------------------
(* Deletion of a binding.                                                  *)

Freed(b) == [binding EXCEPT ![b] =
  [phase |-> "absent", original |-> NoEndpoint, doomed |-> {}, stuck |-> FALSE]]

\* The rows of a binding go with it, and the policy is versioned.
Gone(b) ==
  /\ pool' = BumpPolicy
  /\ binding' = Freed(b)
  /\ assigned' = [assigned EXCEPT ![b] = Unassigned]
  /\ doubt' = [doubt EXCEPT ![b] = {}]

Quiet(b) ==
  /\ binding[b].phase # "absent" /\ binding[b].doomed = {}
  /\ sync.phase = "idle"
  /\ \A op \in ops : \A s \in op.steps : s.binding # b

StartErasing(b, targets) ==
  /\ targets # {}
  /\ binding' = [binding EXCEPT ![b].phase = "deleting", ![b].doomed = targets,
                                ![b].stuck = FALSE]
  /\ UNCHANGED <<pool, doubt>>

\* deleteBinding where no write of the binding is in doubt.
DeleteBinding(b) ==
  LET targets == {assigned[b].record[e] : e \in assigned[b].applied} \ {NoRecord} IN
  /\ Quiet(b) /\ doubt[b] = {}
  /\ \/ StartErasing(b, targets) /\ UNCHANGED assigned
     \/ targets = {} /\ Gone(b)
  /\ UNCHANGED <<endpoint, intents, jobs, ops, zone, account, disturbed, asked, events>>

\* Rows that the pool manages or has assigned.
Known(b) == {r \in Rows(b) : \/ local[b][r].managed
                            \/ \E e \in Endpoint : assigned[b].record[e] = r}

\* A write in doubt explains the record.
Explained(b, r) ==
  \E s \in doubt[b] : /\ s.content = remote[b][r]
                      /\ s.action = "create" \/ s.record = r

\* resolveDeletion: the provider is asked which records are there.
ReadBack(b) ==
  LET there == {r \in Record : remote[b][r] # NoRow}
      absent == Known(b) \ there
  IN /\ Quiet(b) /\ doubt[b] # {}
     /\ account = "active"
     /\ \A r \in there : \/ r \in Known(b) /\ local[b][r].content = remote[b][r]
                         \/ Explained(b, r)
     /\ local' = [local EXCEPT ![b] = [r \in Record |->
          CASE r \in there -> [content |-> remote[b][r], managed |-> TRUE]
            [] r \in absent -> NoRow
            [] OTHER -> local[b][r]]]
     /\ \/ /\ StartErasing(b, there)
           /\ assigned' = [assigned EXCEPT
                ![b].applied = {e \in @ : assigned[b].record[e] \notin absent},
                ![b].record = [e \in Endpoint |-> IF @[e] \in absent THEN NoRecord ELSE @[e]]]
        \/ there = {} /\ Gone(b)
     /\ UNCHANGED <<endpoint, intents, jobs, ops, remote, sync, account, disturbed, asked, events>>

Erasing(b, r) ==
  /\ binding[b].phase = "deleting" /\ r \in binding[b].doomed
  /\ sync.phase = "idle"

Erase(b, r) ==
  LET gone == {e \in Endpoint : assigned[b].record[e] = r} IN
  /\ Erasing(b, r) /\ account = "active"
  /\ remote' = [remote EXCEPT ![b][r] = NoRow]
  /\ local' = [local EXCEPT ![b][r] = NoRow]
  /\ assigned' = [assigned EXCEPT
       ![b].applied = @ \ gone,
       ![b].record = [e \in Endpoint |-> IF e \in gone THEN NoRecord ELSE @[e]]]
  /\ binding' = [binding EXCEPT ![b].doomed = @ \ {r}]
  /\ UNCHANGED <<pool, endpoint, intents, plans, sync, account, disturbed, asked, events>>

EraseLosesAnswer(b, r) ==
  /\ Erasing(b, r) /\ account = "active"
  /\ Event
  /\ remote' = [remote EXCEPT ![b][r] = NoRow]
  /\ disturbed' = disturbed \cup {b}
  /\ UNCHANGED <<pool, endpoint, binding, assigned, intents, plans, local, sync, account, asked>>

\* The deletion stays unresolved until it is asked for again.
EraseFails(b, r, status) ==
  /\ Erasing(b, r) /\ account # "disabled"
  /\ IF account = "error" THEN UNCHANGED events ELSE Event
  /\ account' = status /\ status \in {account, "error"}
  /\ binding' = [binding EXCEPT ![b].doomed = @ \ {r}, ![b].stuck = TRUE]
  /\ disturbed' = disturbed \cup {b}
  /\ UNCHANGED <<pool, endpoint, assigned, intents, plans, zone, asked>>

\* finalizeOperation of a deletion whose steps have all succeeded.
FinishDeletion(b) ==
  /\ binding[b].phase = "deleting" /\ binding[b].doomed = {} /\ ~binding[b].stuck
  /\ Gone(b)
  /\ UNCHANGED <<endpoint, intents, jobs, ops, zone, account, disturbed, asked, events>>

-----------------------------------------------------------------------------
(* The synchronisation of the zone, under its lock.                        *)

RowOf(p) == local[p[1]][p[2]]
RemoteOf(p) == remote[p[1]][p[2]]
Managed(p) == RowOf(p) # NoRow /\ RowOf(p).managed

Listed == {p \in Spot : RemoteOf(p) # NoRow}
NewsIn(S) == {p \in S : RowOf(p) = NoRow \/ RowOf(p).content # RemoteOf(p)}
RowsMissing == {p \in Spot \ Listed : RowOf(p) # NoRow}

\* The records are listed.  No row comes or goes while the zone is locked, so
\* the rows that the list does not have are known, and what it has as before
\* is left out; so is a synchronisation that would find and heal nothing.
SyncStart ==
  /\ sync.phase = "idle" /\ account # "disabled"
  /\ account = "error" \/ NewsIn(Listed) \cup RowsMissing # {}
  /\ sync' = [phase |-> "records",
              todo |-> {<<p, RemoteOf(p)>> : p \in NewsIn(Listed)},
              missing |-> RowsMissing,
              noted |-> {}]
  /\ UNCHANGED <<pool, endpoint, binding, assigned, intents, plans, local, remote,
                 account, disturbed, asked, events>>

\* recordDrift commits the intent before syncRecords writes what it has seen.
SyncDrift(p, c) ==
  /\ sync.phase = "records" /\ <<p, c>> \in sync.todo
  /\ p \notin sync.noted /\ Managed(p)
  /\ Decide(pool, "repair", FALSE)
  /\ sync' = [sync EXCEPT !.noted = @ \cup {p}]
  /\ UNCHANGED <<endpoint, binding, assigned, plans, local, remote, account, disturbed, asked, events>>

SyncRow(p, c) ==
  /\ sync.phase = "records" /\ <<p, c>> \in sync.todo
  /\ Managed(p) => p \in sync.noted
  /\ local' = [local EXCEPT ![p[1]][p[2]] = [content |-> c, managed |-> Managed(p)]]
  /\ sync' = [sync EXCEPT !.todo = @ \ {<<p, c>>}, !.noted = @ \ {p}]
  /\ UNCHANGED <<pool, endpoint, binding, assigned, intents, plans, remote, account, disturbed, asked, events>>

SyncMissing ==
  /\ sync.phase = "records" /\ sync.todo = {}
  /\ sync' = [sync EXCEPT !.phase = "missing",
                !.noted = {p \in sync.missing : ~Managed(p)}]
  /\ UNCHANGED <<pool, endpoint, binding, assigned, intents, plans, local, remote,
                 account, disturbed, asked, events>>

SyncLost(p) ==
  /\ sync.phase = "missing" /\ p \in sync.missing \ sync.noted
  /\ Decide(pool, "repair", FALSE)
  /\ sync' = [sync EXCEPT !.noted = @ \cup {p}]
  /\ UNCHANGED <<endpoint, binding, assigned, plans, local, remote, account, disturbed, asked, events>>

SyncEnd ==
  /\ sync.phase = "missing" /\ sync.noted = sync.missing
  /\ local' = [b \in Binding |-> [r \in Record |->
       IF <<b, r>> \in sync.missing THEN NoRow ELSE local[b][r]]]
  /\ account' = IF account = "disabled" THEN account ELSE "active"
  /\ sync' = Asleep
  /\ UNCHANGED <<pool, endpoint, binding, assigned, intents, plans, remote, disturbed, asked, events>>

\* The provider fails and the account is marked, or the job just stops.
SyncFails(status) ==
  /\ sync.phase # "idle"
  /\ Event
  /\ status \in {account, "error"} /\ (account = "disabled" => status = account)
  /\ account' = status
  /\ sync' = Asleep
  /\ UNCHANGED <<pool, endpoint, binding, assigned, intents, plans, local, remote, disturbed, asked>>

-----------------------------------------------------------------------------
(* The world around.                                                       *)

SetStatus(status) ==
  /\ status # account
  /\ IF status = "disabled" THEN Event ELSE UNCHANGED events
  /\ account' = status
  /\ UNCHANGED <<pool, endpoint, binding, assigned, intents, plans, zone, disturbed, asked>>

\* Somebody changes or deletes a record with other means.
Tamper(b, r, content) ==
  /\ remote[b][r] \notin {NoRow, content} /\ content \in {Foreign, NoRow}
  /\ Event
  /\ remote' = [remote EXCEPT ![b][r] = content]
  /\ disturbed' = disturbed \cup {b}
  /\ UNCHANGED <<pool, endpoint, binding, assigned, intents, plans, local, sync, account, asked>>

-----------------------------------------------------------------------------
Unsaid == [S \in SUBSET Endpoint |-> NoEndpoint]

\* A pool in use: its endpoints are healthy, and a name is not bound yet, not
\* bound but in the zone already, or published.
Init ==
  \E begin \in Beginnings :
  LET present == begin.present
      setting == begin.setting
      start == begin.start
      first == IF present = {} THEN NoEndpoint ELSE First(present)
      at == IF setting.strategy = "healthy_set" THEN present ELSE {first} \ {NoEndpoint}
  IN
  /\ pool = [enabled |-> TRUE, setting |-> setting, policy |-> 1, decision |-> 0,
             cursors |-> Unsaid]
  /\ endpoint = [e \in Endpoint |-> IF e \in present
       THEN [lifecycle |-> "enabled", version |-> 1, health |-> "healthy"]
       ELSE [lifecycle |-> "absent", version |-> 0, health |-> "unknown"]]
  /\ binding = [b \in Binding |->
       [phase |-> IF start[b] = "published" THEN "bound" ELSE "absent",
        original |-> IF start[b] = "published" THEN first ELSE NoEndpoint,
        doomed |-> {}, stuck |-> FALSE]]
  /\ assigned = [b \in Binding |-> IF start[b] # "published" THEN Unassigned ELSE
       [desired |-> at, applied |-> at,
        record |-> [e \in Endpoint |-> IF e \in at THEN e ELSE NoRecord]]]
  /\ remote = [b \in Binding |-> [r \in Record |->
       CASE start[b] = "published" /\ r \in at -> <<r, 1>>
         [] start[b] = "foreign" /\ r = 1 -> Foreign
         [] OTHER -> NoRow]]
  /\ local = [b \in Binding |-> [r \in Record |-> IF remote[b][r] = NoRow THEN NoRow
       ELSE [content |-> remote[b][r], managed |-> start[b] = "published"]]]
  /\ intents = {} /\ jobs = {} /\ ops = {}
  /\ doubt = [b \in Binding |-> {}]
  /\ request = Idle /\ sync = Asleep /\ account = "active"
  /\ disturbed = {} /\ narrowed = {} /\ torn = FALSE /\ events = begin.spent

Edit ==
  \/ \E setting \in Settings : UpdatePool(setting)
  \/ Pause
  \/ Resume
  \/ \E e \in Endpoint : \/ CreateEndpoint(e)
                         \/ \E lifecycle \in {"enabled", "disabled"} : UpdateLifecycle(e, lifecycle)
                         \/ \E force \in BOOLEAN : UpdateAddress(e, force)
                         \/ DeleteEndpoint(e)
  \/ \E b \in Binding : \/ \E e \in Endpoint \cup {NoEndpoint} : CreateBinding(b, e)
                        \/ \E e \in Endpoint, r \in Record : TakeOver(b, e, r)
                        \/ \E e \in Endpoint, force \in BOOLEAN : UpdateBinding(b, e, force)
  \/ CreateHealthCheck
  \/ DeleteHealthCheck
  \/ \E force \in BOOLEAN : ReconcileRequest(force)
  \/ \E setting \in Settings, force \in BOOLEAN,
        lifecycle \in [Endpoint -> {"enabled", "disabled"}],
        version \in [Endpoint -> Version] : Restore(setting, lifecycle, version, force)

Answer == RecordPolicyChange \/ EnqueueReconcile \/ StopHalfway

Observation ==
  \E e \in Endpoint : \/ \E health \in Reached : Observe(e, health)
                      \/ Promote(e)

Hash == [Binding -> 0 .. EndpointCount - 1]
\* The recorded endpoint of each binding that was assigned first.
Firsts == {f \in [Binding -> Endpoint \cup {NoEndpoint}] :
             \A b \in Binding : IF Recorded(b) = {} THEN f[b] = NoEndpoint
                                                    ELSE f[b] \in Recorded(b)}

Work(i) ==
  \/ Settle(i)
  \/ \E hash \in Hash : \/ ProviderUnavailable(i, hash)
                        \/ \E first \in Firsts : Reconcile(i, hash, first)

Outbox == \E i \in intents : Dispatch(i)
Worker == \E i \in jobs : Work(i)

StepNext ==
  \E op \in ops :
    \/ Supersede(op)
    \/ \E s \in op.steps :
         \/ \E status \in {account, "error"} : FailStep(op, s, status)
         \/ \E r \in Record : \/ RunStep(op, s, r)
                              \/ \E written \in BOOLEAN : LoseAnswer(op, s, r, written)

Deletion ==
  \E b \in Binding :
    \/ DeleteBinding(b) \/ ReadBack(b) \/ FinishDeletion(b)
    \/ \E r \in Record : \/ Erase(b, r)
                         \/ EraseLosesAnswer(b, r)
                         \/ \E status \in {account, "error"} : EraseFails(b, r, status)

SyncNext ==
  \/ SyncStart \/ SyncMissing \/ SyncEnd
  \/ \E p \in Spot : \/ SyncLost(p)
                     \/ \E c \in Content : SyncDrift(p, c) \/ SyncRow(p, c)

World ==
  \/ \E i \in jobs : LoseJob(i)
  \/ \E status \in {account, "error"} : SyncFails(status)
  \/ \E status \in {"active", "disabled"} : SetStatus(status)
  \/ \E b \in Binding, r \in Record, c \in {Foreign, NoRow} : Tamper(b, r, c)

Next == Edit \/ Answer \/ Observation \/ Outbox \/ Worker \/ StepNext \/ Deletion \/ SyncNext \/ World

Spec == Init /\ [][Next]_vars

\* The outbox scans, the workers take their jobs, and zones are synchronised.
FairSpec ==
  /\ Spec
  /\ WF_vars(Outbox)
  /\ WF_vars(Worker)
  /\ WF_vars(SyncNext)

-----------------------------------------------------------------------------
(* Properties.                                                             *)

Half == request # Idle \/ torn

\* A step that the executor may still run publishes an address that is the
\* current one of an endpoint in service which is healthy enough, unless the
\* user forced it or an edit stands half-way: what changes after the plan is
\* made always makes the plan stale (operation.processor.ts:397).
CurrentPlansAreEligible ==
  Half \/ \A op \in ops : Current(op) =>
    \A s \in op.steps : s.action # "delete" =>
      /\ endpoint[s.endpoint].lifecycle = "enabled"
      /\ s.content = Published(s.endpoint)
      /\ op.force \/ HealthyEnough(endpoint[s.endpoint].health)

\* Every record the pool manages for a name it holds is the record of one of the
\* assignments of that name, so that a later plan finds it
\* (operation.processor.ts:373), also while and after users change the strategy
\* of the pool.  Excepted are the names of which a plan has reduced several
\* records to one: the update of such a plan drops the other assignments
\* (operation.processor.ts:358) before, and whether or not, the other records go.
ManagedRecordsAreAssigned ==
  \A b \in Bound \ narrowed, r \in Record :
    local[b][r] # NoRow /\ local[b][r].managed => \E e \in Endpoint : assigned[b].record[e] = r

\* What readers of the names are promised; see module Publishing.  The promise
\* ends for a name with a fault, and with a plan that reduces several records
\* of it to one: what such a plan leaves behind stays when the name is let go.
Promise == INSTANCE Publishing WITH
  Name <- Binding,
  tenure <- [b \in Binding |-> CASE binding[b].phase = "absent" -> "free"
                                 [] binding[b].phase = "bound" -> "held"
                                 [] OTHER -> "leaving"],
  shown <- [b \in Binding |-> {<<r, remote[b][r]>> : r \in {q \in Record : remote[b][q] # NoRow}}],
  disturbed <- disturbed \cup narrowed

Publishes == Promise!Spec

\* A binding that is deleted at once, with no deletion at the provider, is not
\* published: the rule that docs/validation/2026-09-21-deletion.md:16 states.  It
\* fails where a healthy set was narrowed, see the README.
DeletedIsUnpublished ==
  [][\A b \in Bound \ disturbed : binding'[b].phase = "absent" =>
       \A r \in Record : remote[b][r] = NoRow]_vars

\* The intents of a pool do not stay open: each is taken up or found stale,
\* whatever jobs Redis loses and however often the provider is in error, unless
\* the account is disabled.  What starts intents is bounded here, so that this
\* is to be so again and again (reconcile-outbox.service.ts:37).
IntentsAreDecided == []<>(intents = {} \/ account = "disabled")
=============================================================================
