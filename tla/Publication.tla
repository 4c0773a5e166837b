---------------------------- MODULE Publication ----------------------------
(***************************************************************************)
(* From a verified candidate address to the release of the old one:        *)
(* rotation-publication.service.ts and rotation-cleanup.service.ts, with   *)
(* what they meet in the pool of their endpoints (reconcile.processor.ts,  *)
(* operation.processor.ts) and with the termination of an incident         *)
(* (rotation-termination.ts).                                              *)
(*                                                                         *)
(* Every endpoint of a healthy_set pool with one name is linked to the     *)
(* slot of its number, so the name has one record per slot.  The revisions *)
(* of the pool are not counted: an intent, an operation or the child of a  *)
(* publication is of the current pair of revisions or it is not.  How the  *)
(* rotation comes to its candidate, and the lease of the instance, is      *)
(* module Rotation.  Time passes in ticks for caches and grace periods.    *)
(***************************************************************************)
EXTENDS Strategy

CONSTANTS Addresses,   \* bound: Addresses[s] addresses of slot s, one after another
          MaxEvents,   \* bound: what users, monitors and faults start
          Recovery,    \* recovery mode of the pool
          Ttl,         \* ticks that resolvers keep a record
          Grace        \* ticks that the cleanup waits in addition

ASSUME PublicationAssumption ==
  /\ BindingCount = 1
  /\ Addresses \in [Endpoint -> Nat \ {0}]
  /\ {MaxEvents, Ttl} \subseteq Nat /\ Grace \in Nat \ {0}
  /\ Recovery \in {"automatic", "delayed", "keep_current", "manual"}

NoAddress == 0
Address == UNION {1 .. Addresses[s] : s \in Endpoint}
Known == Address \cup {NoAddress}

VARIABLES
  slot,         \* managed_address_slots, with the fences of a termination
  incident,     \* phase of the incident under way: none, publish or cleanup
  admitted,     \* slots whose candidate a publisher is looking at in the cloud
  publication,  \* rotation_publications of the newest version
  resource,     \* the old address of the incident
  call,         \* the release call of the slot: none, sent or made
  enabled,      \* the pool is not paused
  intent,       \* the reconcile intent of the current revisions
  ops,          \* operations of the pool
  binding,      \* state of the domain binding
  healthy,      \* endpoints whose current address is healthy
  row,          \* address in the row of the applied assignment
  shown,        \* address in the record at the provider
  cached,       \* ticks that resolvers may still hold an address
  released,     \* addresses given back to the cloud
  missed,       \* history: decisions that were closed without a plan
  stray,        \* history: slots with a record that was made and is in no row
  events

cloud == <<slot, incident, admitted, resource, call, released>>
dns == <<row, shown, cached, stray>>
pool == <<enabled, intent, ops, binding, healthy>>
vars == <<cloud, publication, pool, dns, missed, events>>

Step == [kind : {"show", "hide"}, endpoint : Endpoint, address : Known]

SlotRow == [address : Address, candidate : Known, blocked : BOOLEAN, fenced : BOOLEAN]
PublicationRow == [status : {"none", "pending", "in_flight", "failed", "applied"},
                   child : {"none", "current", "stale"}]
ResourceRow == [address : Known, due : 0 .. Ttl + Grace,
                status : {"retained", "pending", "failed", "released"}]
Operation == [current : BOOLEAN, status : {"open", "ended", "superseded"},
              todo : SUBSET Step, failed : SUBSET Step]

TypeOK ==
  /\ slot \in [Endpoint -> SlotRow]
  /\ incident \in [Endpoint -> {"none", "publish", "cleanup"}]
  /\ admitted \subseteq Endpoint
  /\ publication \in [Endpoint -> PublicationRow]
  /\ resource \in [Endpoint -> ResourceRow]
  /\ call \in [Endpoint -> {"none", "sent", "made"}]
  /\ enabled \in BOOLEAN
  /\ intent \in [trigger : Trigger, state : {"none", "open", "done"}]
  /\ ops \subseteq Operation
  /\ binding \in {"healthy", "switching", "failed"}
  /\ healthy \subseteq Endpoint
  /\ row \in [Endpoint -> Known] /\ shown \in [Endpoint -> Known]
  /\ cached \in [Endpoint -> [Address -> 0 .. Ttl]]
  /\ released \in [Endpoint -> SUBSET Address]
  /\ missed \subseteq Endpoint /\ stray \subseteq Endpoint
  /\ events \in 0 .. MaxEvents

Event == events < MaxEvents /\ events' = events + 1

-----------------------------------------------------------------------------
(* Decisions of the pool.                                                  *)

\* The children of all publications are of other revisions now.
Overtaken == [s \in Endpoint |->
  [publication[s] EXCEPT !.child = IF @ = "current" THEN "stale" ELSE @]]

StaleOps == {[op EXCEPT !.current = FALSE] : op \in ops}

Decide(trigger) ==
  /\ intent' = [trigger |-> trigger, state |-> "open"]
  /\ ops' = StaleOps

\* An edit of the pool, a manual reconcile or a pause and its end.
Edit(trigger) ==
  /\ Event
  /\ Decide(trigger)
  /\ publication' = Overtaken
  /\ enabled' = (enabled \/ trigger = "configuration")
  /\ UNCHANGED <<cloud, binding, healthy, dns, missed>>

\* recordPolicyChange without a reconcile: a pause, a health check that is made.
BumpPolicy(pause) ==
  /\ Event
  /\ intent' = [intent EXCEPT !.state = "none"]
  /\ ops' = StaleOps
  /\ publication' = Overtaken
  /\ enabled' = (enabled /\ ~pause)
  /\ UNCHANGED <<cloud, binding, healthy, dns, missed>>

\* applyObserved for the published address of a slot.
HealthChange(e) ==
  /\ Event
  /\ slot[e].candidate = NoAddress /\ ~slot[e].blocked
  /\ healthy' = IF e \in healthy THEN healthy \ {e} ELSE healthy \cup {e}
  /\ Decide(IF e \in healthy THEN "failure" ELSE "recovery")
  /\ publication' = Overtaken
  /\ UNCHANGED <<cloud, enabled, binding, dns, missed>>

-----------------------------------------------------------------------------
(* The reconcile of a healthy_set.                                         *)

Applied == {e \in Endpoint : row[e] # NoAddress}
Outdated == {e \in Applied : row[e] # slot[e].address}

\* gone: slots whose old address the inventory does not have any more.
ContextOf(gone) ==
  [trigger |-> intent.trigger,
   recovery |-> Recovery,
   enabled |-> [e \in Endpoint |-> TRUE],
   addressed |-> [e \in Endpoint |-> ~slot[e].blocked /\ e \notin gone],
   health |-> <<[e \in Endpoint |-> IF e \in healthy THEN "healthy" ELSE "unhealthy"]>>,
   applied |-> <<Applied>>]

\* planHealthySet.
StepsFor(desired) ==
  {[kind |-> "show", endpoint |-> e, address |-> slot[e].address] :
     e \in {f \in desired : row[f] # slot[f].address}}
  \cup {[kind |-> "hide", endpoint |-> e, address |-> row[e]] : e \in Applied \ desired}

\* Only a verified address is planned; else the transaction is rolled back.
Verified(steps) ==
  \A st \in steps : st.kind = "show" => slot[st.endpoint].candidate = NoAddress

Reconcile(gone) ==
  LET decision == SetDecision(ContextOf(gone), 1)
      steps == IF decision.reason \in {"none", "no_healthy_endpoint"} THEN {}
               ELSE StepsFor(decision.desired)
  IN /\ intent.state = "open" /\ enabled
     /\ \A e \in gone : slot[e].candidate # NoAddress
     /\ Verified(steps)
     /\ intent' = [intent EXCEPT !.state = "done"]
     /\ binding' = CASE decision.reason = "none" -> binding
                     [] decision.reason = "no_healthy_endpoint" -> "failed"
                     [] OTHER -> IF steps = {} THEN "healthy" ELSE "switching"
     /\ ops' = IF steps = {} THEN ops
               ELSE ops \cup {[current |-> TRUE, status |-> "open", todo |-> steps, failed |-> {}]}
     /\ missed' = IF decision.reason = "none" THEN missed \cup Outdated ELSE missed
     /\ UNCHANGED <<cloud, publication, enabled, healthy, dns, events>>

ReconcilePaused ==
  /\ intent.state = "open" /\ ~enabled
  /\ intent' = [intent EXCEPT !.state = "done"]
  /\ UNCHANGED <<cloud, publication, enabled, ops, binding, healthy, dns, missed, events>>

-----------------------------------------------------------------------------
(* The steps of the pool's operations.                                     *)

\* The fences of executeStep: the decision, and for a record that is written
\* the open call of the instance and the version of the slot.
MayPublish(op, st) ==
  /\ op.status = "open" /\ op.current
  /\ st.kind = "show" =>
       /\ call[st.endpoint] = "none"
       /\ slot[st.endpoint].address = st.address
       /\ slot[st.endpoint].candidate = NoAddress
       /\ ~slot[st.endpoint].fenced

\* Records are written before others are taken down.
Ready(op) ==
  {st \in op.todo : st.kind = "hide" => \A other \in op.todo : other.kind = "hide"}

After(op, st, failed) ==
  [op EXCEPT !.todo = @ \ {st},
             !.failed = IF failed THEN @ \cup {st} ELSE @,
             !.status = IF op.todo = {st} THEN "ended" ELSE @]

\* finalizeOperation, with the last step.
FinalBinding(op) ==
  IF op.status # "ended" THEN binding ELSE IF op.failed = {} THEN "healthy" ELSE "failed"

Written(st) == IF st.kind = "show" THEN st.address ELSE NoAddress

\* The provider has the record; resolvers keep for a while what it was.
Write(st) ==
  LET e == st.endpoint IN
  /\ shown' = [shown EXCEPT ![e] = Written(st)]
  /\ cached' = IF shown[e] \in {NoAddress, Written(st)} THEN cached
               ELSE [cached EXCEPT ![e][shown[e]] = Ttl]

Progress(op, next) ==
  /\ ops' = (ops \ {op}) \cup {next}
  /\ binding' = FinalBinding(next)

RunStep(op, st) ==
  /\ op \in ops /\ st \in Ready(op)
  /\ MayPublish(op, st)
  /\ Write(st)
  /\ row' = [row EXCEPT ![st.endpoint] = Written(st)]
  /\ Progress(op, After(op, st, FALSE))
  /\ UNCHANGED <<cloud, publication, enabled, intent, healthy, stray, missed, events>>

\* The provider fails, with the record written or not, or a fence of the slot.
\* A record that was created and not confirmed is in no row.
FailStep(op, st, written) ==
  /\ op \in ops /\ st \in Ready(op)
  /\ op.status = "open" /\ op.current
  /\ IF MayPublish(op, st) THEN Event ELSE ~written /\ UNCHANGED events
  /\ IF written THEN Write(st) ELSE UNCHANGED <<shown, cached>>
  /\ stray' = IF written /\ st.kind = "show" /\ row[st.endpoint] = NoAddress
              THEN stray \cup {st.endpoint} ELSE stray
  /\ Progress(op, After(op, st, TRUE))
  /\ UNCHANGED <<cloud, publication, enabled, intent, healthy, row, missed>>

Supersede(op) ==
  /\ op \in ops /\ ~op.current
  /\ ops' = ops \ {op}
  /\ UNCHANGED <<cloud, publication, enabled, intent, binding, healthy, dns, missed, events>>

-----------------------------------------------------------------------------
(* Publication.                                                            *)

\* The rotation hands a verified candidate over (settle of rotation-store.ts).
Rotate(s) ==
  /\ incident[s] = "none" /\ call[s] = "none"
  /\ slot[s].candidate = NoAddress /\ ~slot[s].fenced
  /\ slot[s].address < Addresses[s]
  /\ slot' = [slot EXCEPT ![s].candidate = slot[s].address + 1]
  /\ incident' = [incident EXCEPT ![s] = "publish"]
  /\ publication' = [publication EXCEPT ![s] = [status |-> "pending", child |-> "none"]]
  /\ resource' = [resource EXCEPT ![s] =
       [address |-> slot[s].address, due |-> 0, status |-> "retained"]]
  /\ UNCHANGED <<admitted, call, released, pool, dns, missed, events>>

\* recover: the address of a terminated publication is verified once more.
Reverify(s) ==
  /\ incident[s] = "none"
  /\ slot[s].candidate = NoAddress /\ slot[s].blocked
  /\ slot' = [slot EXCEPT ![s].candidate = slot[s].address, ![s].fenced = FALSE]
  /\ publication' = [publication EXCEPT ![s] = [status |-> "none", child |-> "none"]]
  /\ admitted' = admitted \ {s}
  /\ UNCHANGED <<incident, resource, call, released, pool, dns, missed, events>>

\* publishSlot, first transaction; then the instance is inspected.
Admit(s) ==
  /\ s \notin admitted
  /\ slot[s].candidate # NoAddress /\ ~slot[s].fenced /\ call[s] = "none"
  /\ admitted' = admitted \cup {s}
  /\ UNCHANGED <<slot, incident, resource, call, released, publication, pool, dns, missed, events>>

\* The inspection fails or finds another address.
GiveUp(s) ==
  /\ s \in admitted
  /\ Event
  /\ admitted' = admitted \ {s}
  /\ UNCHANGED <<slot, incident, resource, call, released, publication, pool, dns, missed>>

\* Mutant of MayPromote: a termination during the inspection is not noticed.
MutantMayPromote(s) == s \in admitted /\ slot[s].candidate # NoAddress

\* assertPublicationContext, once more after the inspection.
MayPromote(s) ==
  s \in admitted /\ slot[s].candidate # NoAddress /\ ~slot[s].fenced

\* publishSlot, second transaction.
Promote(s) ==
  /\ MayPromote(s)
  /\ slot' = [slot EXCEPT ![s].address = slot[s].candidate, ![s].candidate = NoAddress,
                          ![s].blocked = FALSE]
  /\ admitted' = admitted \ {s}
  /\ healthy' = healthy \cup {s}
  /\ Decide("repair")
  /\ publication' = [Overtaken EXCEPT ![s] = [status |-> "in_flight", child |-> "current"]]
  /\ UNCHANGED <<incident, resource, call, released, enabled, binding, dns, missed, events>>

Observed(s) ==
  /\ publication[s].status \in {"in_flight", "failed"}
  /\ ~slot[s].fenced /\ slot[s].candidate = NoAddress

\* Mutant of Repoint: every observer makes a decision of its own.
MutantRepoint(s) ==
  /\ Observed(s) /\ publication[s].child = "stale"
  /\ Decide("repair")
  /\ publication' = [Overtaken EXCEPT ![s].child = "current"]
  /\ UNCHANGED <<cloud, enabled, binding, healthy, dns, missed, events>>

\* observe: the pool has decided anew.
Repoint(s) ==
  /\ Observed(s) /\ publication[s].child = "stale"
  /\ \/ /\ intent.state # "none"
        /\ publication' = [publication EXCEPT ![s].child = "current"]
        /\ UNCHANGED <<intent, ops>>
     \/ /\ intent.state = "none"
        /\ publication' = [Overtaken EXCEPT ![s].child = "current"]
        /\ Decide("repair")
  /\ UNCHANGED <<cloud, enabled, binding, healthy, dns, missed, events>>

Decided(s) ==
  /\ Observed(s) /\ publication[s].child = "current"
  /\ enabled /\ intent.state = "done"

\* Mutant of Due: the time that resolvers keep a record is forgotten.
MutantDue == Grace

Due == Ttl + Grace

\* The operation of the current decision, if there is one, has succeeded.
Published ==
  /\ binding = "healthy"
  /\ \A op \in ops : op.current => op.status = "ended" /\ op.failed = {}

\* observe: done.  What may be released is decided by origin and authorization.
Apply(s, releasable) ==
  /\ Decided(s) /\ Published
  /\ publication' = [publication EXCEPT ![s].status = "applied"]
  /\ IF incident[s] = "publish"
     THEN /\ incident' = [incident EXCEPT ![s] = "cleanup"]
          /\ resource' = IF releasable /\ resource[s].address # slot[s].address
                         THEN [resource EXCEPT ![s].status = "pending", ![s].due = Due]
                         ELSE resource
     ELSE UNCHANGED <<incident, resource>>
  /\ UNCHANGED <<slot, admitted, call, released, pool, dns, missed, events>>

\* observe: the failed steps of the operation are put back.
Retry(s, op) ==
  /\ Decided(s)
  /\ op \in ops /\ op.current /\ op.status = "ended" /\ op.failed # {}
  /\ ops' = (ops \ {op}) \cup {[op EXCEPT !.status = "open", !.todo = op.failed, !.failed = {}]}
  /\ publication' = [publication EXCEPT ![s].status = "failed"]
  /\ UNCHANGED <<cloud, enabled, intent, binding, healthy, dns, missed, events>>

-----------------------------------------------------------------------------
(* Cleanup and termination.                                                *)

Eligible(s) ==
  /\ incident[s] = "cleanup" /\ publication[s].status = "applied"
  /\ resource[s].status \in {"pending", "failed"} /\ resource[s].due = 0
  /\ resource[s].address \notin {slot[s].address, slot[s].candidate}

\* run: the release is sent, and the instance is pinned to it.
Dispatch(s) ==
  /\ call[s] = "none" /\ ~slot[s].fenced
  /\ Eligible(s)
  /\ call' = [call EXCEPT ![s] = "sent"]
  /\ UNCHANGED <<slot, incident, admitted, resource, released, publication, pool, dns, missed, events>>

\* The cloud gives the address back.
Release(s) ==
  /\ call[s] = "sent"
  /\ call' = [call EXCEPT ![s] = "made"]
  /\ released' = [released EXCEPT ![s] = @ \cup {resource[s].address}]
  /\ UNCHANGED <<slot, incident, admitted, resource, publication, pool, dns, missed, events>>

\* The effect is observed; a terminated cleanup is not looked at again.
Receipt(s) ==
  /\ call[s] = "made" /\ ~slot[s].fenced
  /\ call' = [call EXCEPT ![s] = "none"]
  /\ resource' = [resource EXCEPT ![s].status = "released"]
  /\ UNCHANGED <<slot, incident, admitted, released, publication, pool, dns, missed, events>>

\* The cloud refuses, or the effect is found missing: later once more.
Postponed(s) == [resource[s] EXCEPT !.status = "failed", !.due = Grace]

NotApplied(s) ==
  /\ call[s] = "sent" /\ ~slot[s].fenced
  /\ Event
  /\ call' = [call EXCEPT ![s] = "none"]
  /\ resource' = [resource EXCEPT ![s] = Postponed(s)]
  /\ UNCHANGED <<slot, incident, admitted, released, publication, pool, dns, missed>>

\* complete.
Complete(s) ==
  /\ incident[s] = "cleanup" /\ call[s] = "none"
  /\ resource[s].status \in {"retained", "released"}
  /\ incident' = [incident EXCEPT ![s] = "none"]
  /\ UNCHANGED <<slot, admitted, resource, call, released, publication, pool, dns, missed, events>>

\* What a termination does to the decision that the publication waits for, which
\* may be that of other slots of the pool as well.
Cancel(s) ==
  IF publication[s].child = "current"
  THEN /\ intent' = IF intent.state = "open" THEN [intent EXCEPT !.state = "done"] ELSE intent
       /\ ops' = {IF op.current /\ (op.status = "open" \/ op.failed # {})
                  THEN [op EXCEPT !.status = "superseded"] ELSE op : op \in ops}
       /\ missed' = IF intent.state = "open" THEN missed \cup Outdated ELSE missed
  ELSE UNCHANGED <<intent, ops, missed>>

\* terminateRotationIncident.
Terminate(s) ==
  /\ incident[s] # "none"
  /\ Event
  /\ Cancel(s)
  /\ slot' = [slot EXCEPT ![s].fenced = TRUE,
                          ![s].blocked = publication[s].child # "none"]
  /\ incident' = [incident EXCEPT ![s] = "none"]
  /\ resource' = [resource EXCEPT ![s].status =
       IF @ \in {"pending", "failed"} THEN "retained" ELSE @]
  /\ UNCHANGED <<admitted, call, released, publication, enabled, binding, healthy, dns>>

-----------------------------------------------------------------------------
Less(n) == IF n = 0 THEN 0 ELSE n - 1

Tick ==
  /\ cached' = [s \in Endpoint |-> [a \in Address |-> Less(cached[s][a])]]
  /\ resource' = [s \in Endpoint |-> [resource[s] EXCEPT !.due = Less(@)]]
  /\ <<cached, resource>>' # <<cached, resource>>
  /\ UNCHANGED <<slot, incident, admitted, call, released, publication, pool, row, shown, stray, missed, events>>

\* Every slot is published at its first address.
Init ==
  /\ slot = [s \in Endpoint |->
       [address |-> 1, candidate |-> NoAddress, blocked |-> FALSE, fenced |-> FALSE]]
  /\ incident = [s \in Endpoint |-> "none"]
  /\ admitted = {}
  /\ publication = [s \in Endpoint |-> [status |-> "none", child |-> "none"]]
  /\ resource = [s \in Endpoint |-> [address |-> NoAddress, due |-> 0, status |-> "retained"]]
  /\ call = [s \in Endpoint |-> "none"]
  /\ enabled = TRUE
  /\ intent = [trigger |-> "configuration", state |-> "done"]
  /\ ops = {} /\ binding = "healthy" /\ healthy = Endpoint
  /\ row = [s \in Endpoint |-> 1] /\ shown = row
  /\ cached = [s \in Endpoint |-> [a \in Address |-> 0]]
  /\ released = [s \in Endpoint |-> {}]
  /\ missed = {} /\ stray = {} /\ events = 0

Pool ==
  \/ \E trigger \in {"configuration", "rebalance"} : Edit(trigger)
  \/ \E pause \in BOOLEAN : BumpPolicy(pause)
  \/ \E e \in Endpoint : HealthChange(e)

Worker == ReconcilePaused \/ \E gone \in SUBSET Endpoint : Reconcile(gone)

Executor ==
  \E op \in ops : \/ Supersede(op)
                  \/ \E st \in op.todo : \/ RunStep(op, st)
                                         \/ \E written \in BOOLEAN : FailStep(op, st, written)

Publisher(s) ==
  \/ Reverify(s) \/ Admit(s) \/ Promote(s) \/ Repoint(s)
  \/ \E releasable \in BOOLEAN : Apply(s, releasable)
  \/ \E op \in ops : Retry(s, op)

Cleaner(s) == Dispatch(s) \/ Release(s) \/ Receipt(s) \/ Complete(s)

Next ==
  \/ Pool \/ Worker \/ Executor \/ Tick
  \/ \E s \in Endpoint : \/ Rotate(s) \/ GiveUp(s) \/ NotApplied(s) \/ Terminate(s)
                         \/ Publisher(s) \/ Cleaner(s)

Spec == Init /\ [][Next]_vars

\* Jobs run, timers scan and time goes on.
FairSpec ==
  /\ Spec
  /\ WF_vars(Worker) /\ WF_vars(Executor) /\ WF_vars(Tick)
  /\ \A s \in Endpoint : WF_vars(Publisher(s)) /\ WF_vars(Cleaner(s))

-----------------------------------------------------------------------------
(* Properties.                                                             *)

InUse(s, a) == shown[s] = a \/ cached[s][a] > 0

\* No old address is given back while a record of the pool shows it or a
\* resolver may still hold it, except where the decision of the publication was
\* closed without a plan, and where a record was made that no row knows and no
\* decision takes down (rotation-cleanup.service.ts:332).
OldAddressesRest ==
  \A s \in Endpoint \ (missed \cup stray) : \A a \in released[s] : ~InUse(s, a)

\* A terminated incident's candidate is not promoted by a publisher that had
\* looked at it before (rotation-publication.service.ts:85).
TerminatedIsNotPromoted ==
  [][ \A s \in Endpoint : slot[s].fenced => slot'[s].address = slot[s].address ]_vars

\* A candidate, or a release, that a termination has left behind.
Abandoned(s) == slot[s].fenced /\ (slot[s].candidate # NoAddress \/ call[s] # "none")

\* The binding is not healthy, and nobody works on it: its operation was superseded
\* by a decision that needed none, or all endpoints had failed before.
Stranded ==
  /\ binding # "healthy"
  /\ intent.state = "done"
  /\ \A op \in ops : ~op.current

\* The incidents of one pool do not hold each other up for ever, although every
\* promotion makes the decisions of the others stale: each ends again and again,
\* unless the pool is paused or its binding is stranded
\* (rotation-publication.service.ts:478).
IncidentsEnd ==
  \A s \in Endpoint :
    []<>(\/ incident[s] = "none"
         \/ ~enabled \/ Stranded \/ missed # {}
         \/ \E t \in Endpoint : Abandoned(t))
=============================================================================
