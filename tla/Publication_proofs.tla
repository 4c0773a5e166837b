-------------------------- MODULE Publication_proofs --------------------------
(***************************************************************************)
(* An old address is released only when no record shows it and no resolver *)
(* holds it, for any number of slots and addresses, any decisions of the   *)
(* pool and any failures of its steps.                                     *)
(*                                                                         *)
(* A publication is applied when the pool has nothing left to do.  That no *)
(* record of the slot shows the old address then rests on what a decision  *)
(* covers: while it stands, every outdated row has a step of its operation *)
(* that mends it, or the binding has failed (DecisionsCover); and on that  *)
(* records follow the address of their slot (RecordsFollow).               *)
(***************************************************************************)
EXTENDS Publication, TLAPS

\* A verified candidate is not older than the address that it replaces, and
\* there is none while the old address waits for its release.
CandidateIsNext ==
  \A s \in Endpoint : slot[s].candidate # NoAddress =>
    slot[s].candidate >= slot[s].address /\ incident[s] # "cleanup"

\* No record is newer than its slot, and a record that was made is not older
\* than its row.
RecordsFollow ==
  \A s \in Endpoint :
    /\ row[s] <= slot[s].address /\ shown[s] <= slot[s].address
    /\ s \notin stray /\ shown[s] # NoAddress => row[s] # NoAddress /\ row[s] <= shown[s]

EndedIsDone == \A op \in ops : op.status = "ended" => op.todo = {}

\* Operations are of the decision that stands.
OpenIsFresh == intent.state # "done" => \A op \in ops : ~op.current

\* The operation of the decision that stands has not mended the slot yet.
Mends(op, s) ==
  /\ op.current
  /\ op.status = "superseded" \/ \E st \in op.todo \cup op.failed : st.endpoint = s

Unmended(s) ==
  \/ \E op \in ops : Mends(op, s)
  \/ binding = "failed" /\ \A op \in ops : ~op.current

DecisionsCover ==
  intent.state = "done" /\ enabled =>
    \A s \in Outdated \ missed : slot[s].candidate = NoAddress => Unmended(s)

\* What was or is to be released is older than the address of its slot.
OldIsOld ==
  \A s \in Endpoint :
    /\ resource[s].address <= slot[s].address
    /\ \A a \in released[s] : a < slot[s].address
    /\ incident[s] # "none" => resource[s].address # NoAddress
    /\ incident[s] = "publish" => resource[s].status = "retained" /\ call[s] = "none"
    /\ call[s] = "sent" =>
         resource[s].address # NoAddress /\ resource[s].address < slot[s].address

\* What waits for its release is not shown, and due when no resolver holds it.
Waits(s) ==
  /\ incident[s] = "cleanup" /\ resource[s].status \in {"pending", "failed"} =>
       /\ resource[s].address < slot[s].address
       /\ shown[s] # resource[s].address
       /\ cached[s][resource[s].address] <= resource[s].due
  /\ call[s] = "sent" => ~InUse(s, resource[s].address)

ReleasesWait == \A s \in Endpoint \ (missed \cup stray) : Waits(s)

IInv ==
  /\ TypeOK /\ CandidateIsNext /\ RecordsFollow /\ EndedIsDone /\ OpenIsFresh
  /\ DecisionsCover /\ OldIsOld /\ ReleasesWait /\ OldAddressesRest

-----------------------------------------------------------------------------
(* Types.                                                                  *)

LEMMA Numbers ==
  /\ Address \subseteq Nat \ {0} /\ Known \subseteq Nat
  /\ Ttl \in Nat /\ Grace \in Nat \ {0} /\ Due \in 0 .. Ttl + Grace
  /\ \A d \in 0 .. Ttl : Less(d) \in 0 .. Ttl
  /\ \A d \in 0 .. Ttl + Grace : Less(d) \in 0 .. Ttl + Grace
<1>1. /\ Ttl \in Nat /\ Grace \in Nat \ {0}
      /\ \A s \in Endpoint : Addresses[s] \in Nat \ {0}
  BY PublicationAssumption
<1>2. Address \subseteq Nat \ {0}
  BY <1>1 DEF Address
<1>3. QED BY <1>1, <1>2 DEF Known, NoAddress, Due, Less

LEMMA StaleType ==
  ASSUME ops \subseteq Operation
  PROVE  /\ StaleOps \subseteq Operation
         /\ \A op \in StaleOps : ~op.current
         /\ \A op \in StaleOps : \E old \in ops : op.status = old.status /\ op.todo = old.todo
<1>1. \A op \in Operation : LET x == [op EXCEPT !.current = FALSE] IN
        x \in Operation /\ ~x.current /\ x.status = op.status /\ x.todo = op.todo
  BY DEF Operation
<1>2. QED BY <1>1 DEF StaleOps

LEMMA OvertakenType ==
  ASSUME publication \in [Endpoint -> PublicationRow]
  PROVE  Overtaken \in [Endpoint -> PublicationRow]
<1>1. \A x \in PublicationRow :
        [x EXCEPT !.child = IF @ = "current" THEN "stale" ELSE @] \in PublicationRow
  BY DEF PublicationRow
<1>2. QED BY <1>1 DEF Overtaken

LEMMA AfterType ==
  ASSUME NEW op \in Operation, NEW st \in Step, NEW failed \in BOOLEAN
  PROVE  /\ After(op, st, failed) \in Operation
         /\ After(op, st, failed).current = op.current
         /\ After(op, st, failed).todo = op.todo \ {st}
         /\ After(op, st, failed).failed = IF failed THEN op.failed \cup {st} ELSE op.failed
         /\ After(op, st, failed).status = IF op.todo = {st} THEN "ended" ELSE op.status
BY DEF After, Operation

LEMMA WrittenType ==
  ASSUME TypeOK, NEW st \in Step, Write(st)
  PROVE  /\ shown' \in [Endpoint -> Known]
         /\ cached' \in [Endpoint -> [Address -> 0 .. Ttl]]
         /\ Written(st) \in Known
<1>1. st.endpoint \in Endpoint /\ Written(st) \in Known
  BY DEF Step, Written, Known
<1>2. shown' \in [Endpoint -> Known]
  BY <1>1 DEF Write, TypeOK
<1>3. Ttl \in 0 .. Ttl
  BY Numbers
<1>4. cached' \in [Endpoint -> [Address -> 0 .. Ttl]]
  BY <1>1, <1>3 DEF Write, TypeOK
<1>5. QED BY <1>1, <1>2, <1>4

LEMMA DecisionType ==
  ASSUME NEW ctx
  PROVE  LET d == SetDecision(ctx, 1) IN
         d.reason \notin {"none", "no_healthy_endpoint"} => d.desired \subseteq Endpoint
<1>1. SetDesired(ctx, 1) \subseteq Endpoint
  BY DEF SetDesired, Candidates
<1>2. QED BY <1>1 DEF SetDecision, NoDecision, NoHealthyEndpoint

LEMMA PlannedType ==
  ASSUME TypeOK, NEW desired \in SUBSET Endpoint
  PROVE  StepsFor(desired) \subseteq Step
<1>1. /\ \A e \in Endpoint : slot[e].address \in Known /\ row[e] \in Known
      /\ Applied \subseteq Endpoint
  BY DEF TypeOK, SlotRow, Known, Applied
<1>2. QED BY <1>1 DEF StepsFor, Step

\* What a reconcile leaves behind: no operation, or a new one with the steps that
\* bring every row to the desired state.
LEMMA Reconciled ==
  ASSUME TypeOK, NEW gone, Reconcile(gone)
  PROVE  /\ intent.state = "open" /\ enabled
         /\ intent' = [intent EXCEPT !.state = "done"]
         /\ UNCHANGED <<cloud, publication, enabled, healthy, dns, events>>
         /\ \/ ops' = ops /\ binding' = binding /\ missed' = missed \cup Outdated
            \/ ops' = ops /\ binding' = "failed" /\ missed' = missed
            \/ \E desired \in SUBSET Endpoint :
                 /\ missed' = missed
                 /\ \/ StepsFor(desired) = {} /\ ops' = ops /\ binding' = "healthy"
                    \/ /\ StepsFor(desired) # {}
                       /\ ops' = ops \cup {[current |-> TRUE, status |-> "open",
                                            todo |-> StepsFor(desired), failed |-> {}]}
                       /\ binding' = "switching"
<1> DEFINE d == SetDecision(ContextOf(gone), 1)
           steps == IF d.reason \in {"none", "no_healthy_endpoint"} THEN {}
                    ELSE StepsFor(d.desired)
<1>1. /\ intent.state = "open" /\ enabled
      /\ intent' = [intent EXCEPT !.state = "done"]
      /\ binding' = CASE d.reason = "none" -> binding
                      [] d.reason = "no_healthy_endpoint" -> "failed"
                      [] OTHER -> IF steps = {} THEN "healthy" ELSE "switching"
      /\ ops' = IF steps = {} THEN ops
                ELSE ops \cup {[current |-> TRUE, status |-> "open", todo |-> steps, failed |-> {}]}
      /\ missed' = IF d.reason = "none" THEN missed \cup Outdated ELSE missed
      /\ UNCHANGED <<cloud, publication, enabled, healthy, dns, events>>
  BY Zenon DEF Reconcile
<1>2. d.reason \notin {"none", "no_healthy_endpoint"} => d.desired \subseteq Endpoint
  BY DecisionType
<1> HIDE DEF d
<1>3. CASE d.reason \in {"none", "no_healthy_endpoint"}
  BY <1>1, <1>3
<1>4. CASE d.reason \notin {"none", "no_healthy_endpoint"}
  <2>1. /\ steps = StepsFor(d.desired)
        /\ binding' = IF steps = {} THEN "healthy" ELSE "switching"
        /\ missed' = missed
    BY <1>1, <1>4
  <2>2. QED BY <1>1, <1>2, <1>4, <2>1
<1>5. QED BY <1>3, <1>4

LEMMA PoolKeepsCloud ==
  ASSUME TypeOK, Pool \/ Worker \/ Executor PROVE UNCHANGED cloud
<1>1. CASE Pool
  BY <1>1 DEF Pool, Edit, BumpPolicy, HealthChange
<1>2. CASE Worker
  BY <1>2, Reconciled DEF Worker, ReconcilePaused
<1>3. CASE Executor
  BY <1>3 DEF Executor, Supersede, RunStep, FailStep
<1>4. QED BY <1>1, <1>2, <1>3

LEMMA InitType == Init => TypeOK
<1> SUFFICES ASSUME Init PROVE TypeOK
  OBVIOUS
<1>1. \A s \in Endpoint : 1 \in Address
  BY PublicationAssumption DEF Address
<1>2. slot \in [Endpoint -> SlotRow] /\ row \in [Endpoint -> Known]
  BY <1>1 DEF Init, SlotRow, Known
<1>3. /\ resource \in [Endpoint -> ResourceRow]
      /\ publication \in [Endpoint -> PublicationRow]
  BY Numbers DEF Init, ResourceRow, PublicationRow, Known
<1>4. cached \in [Endpoint -> [Address -> 0 .. Ttl]]
  BY Numbers DEF Init
<1>5. shown \in [Endpoint -> Known] /\ released \in [Endpoint -> SUBSET Address]
  BY <1>2 DEF Init
<1>6. intent \in [trigger : Trigger, state : {"none", "open", "done"}]
  BY DEF Init, Trigger
<1>7. events \in 0 .. MaxEvents
  BY PublicationAssumption DEF Init
<1>8. QED
  BY <1>2, <1>3, <1>4, <1>5, <1>6, <1>7 DEF Init, TypeOK

LEMMA PoolType ==
  ASSUME TypeOK, Pool PROVE TypeOK'
<1>1. /\ StaleOps \subseteq Operation /\ Overtaken \in [Endpoint -> PublicationRow]
      /\ {"configuration", "rebalance", "failure", "recovery"} \subseteq Trigger
      /\ events \in 0 .. MaxEvents /\ MaxEvents \in Nat
  BY StaleType, OvertakenType, PublicationAssumption DEF TypeOK, Trigger
<1>2. ASSUME Event PROVE events' \in 0 .. MaxEvents
  BY <1>1, <1>2 DEF Event
<1>3. ASSUME NEW trigger \in {"configuration", "rebalance"}, Edit(trigger) PROVE TypeOK'
  BY <1>1, <1>2, <1>3 DEF Edit, Decide, TypeOK, cloud, dns
<1>4. ASSUME NEW pause \in BOOLEAN, BumpPolicy(pause) PROVE TypeOK'
  BY <1>1, <1>2, <1>4 DEF BumpPolicy, TypeOK, cloud, dns
<1>5. ASSUME NEW e \in Endpoint, HealthChange(e) PROVE TypeOK'
  BY <1>1, <1>2, <1>5 DEF HealthChange, Decide, TypeOK, cloud, dns
<1>6. QED BY <1>3, <1>4, <1>5 DEF Pool

LEMMA ReconcileType ==
  ASSUME TypeOK, NEW gone, Reconcile(gone) PROVE TypeOK'
<1>1. /\ intent' = [intent EXCEPT !.state = "done"]
      /\ UNCHANGED <<cloud, publication, enabled, healthy, dns, events>>
  BY Reconciled
<1>2. Outdated \subseteq Endpoint
  BY DEF Outdated, Applied
<1>3. ops' \subseteq Operation
  <2>1. ASSUME NEW desired \in SUBSET Endpoint
        PROVE  [current |-> TRUE, status |-> "open", todo |-> StepsFor(desired), failed |-> {}]
                 \in Operation
    BY PlannedType DEF Operation
  <2>2. ops \subseteq Operation
    BY DEF TypeOK
  <2>3. \/ ops' = ops
        \/ \E desired \in SUBSET Endpoint :
             ops' = ops \cup {[current |-> TRUE, status |-> "open",
                              todo |-> StepsFor(desired), failed |-> {}]}
    BY Reconciled, Zenon
  <2>4. QED BY <2>1, <2>2, <2>3
<1>4. binding' \in {"healthy", "switching", "failed"} /\ missed' \subseteq Endpoint
  BY <1>2, Reconciled DEF TypeOK
<1>5. QED BY <1>1, <1>3, <1>4 DEF TypeOK, cloud, dns

LEMMA ExecutorType ==
  ASSUME TypeOK, Executor PROVE TypeOK'
<1>1. ASSUME NEW op \in ops, Supersede(op) PROVE TypeOK'
  BY <1>1 DEF Supersede, TypeOK, cloud, dns
<1>2. ASSUME NEW op \in ops, NEW st \in op.todo, NEW failed \in BOOLEAN
      PROVE  /\ op \in Operation /\ st \in Step /\ st.endpoint \in Endpoint
             /\ After(op, st, failed) \in Operation
             /\ FinalBinding(After(op, st, failed)) \in {"healthy", "switching", "failed"}
  <2>1. op \in Operation /\ st \in Step
    BY <1>2 DEF TypeOK, Operation
  <2>2. QED BY <2>1, AfterType DEF Step, FinalBinding, TypeOK
<1>3. ASSUME NEW op \in ops, NEW st \in op.todo, RunStep(op, st) PROVE TypeOK'
  <2>1. /\ shown' \in [Endpoint -> Known] /\ cached' \in [Endpoint -> [Address -> 0 .. Ttl]]
        /\ row' \in [Endpoint -> Known]
    BY <1>2, <1>3, WrittenType DEF RunStep, TypeOK
  <2>2. ops' \subseteq Operation /\ binding' \in {"healthy", "switching", "failed"}
    <3>1. /\ ops' = (ops \ {op}) \cup {After(op, st, FALSE)}
          /\ binding' = FinalBinding(After(op, st, FALSE))
      BY <1>3 DEF RunStep, Progress
    <3>2. ops \subseteq Operation
      BY DEF TypeOK
    <3>3. QED BY <1>2, <3>1, <3>2
  <2>3. QED BY <1>3, <2>1, <2>2 DEF RunStep, TypeOK, cloud
<1>4. ASSUME NEW op \in ops, NEW st \in op.todo, NEW written \in BOOLEAN, FailStep(op, st, written)
      PROVE  TypeOK'
  <2>1. shown' \in [Endpoint -> Known] /\ cached' \in [Endpoint -> [Address -> 0 .. Ttl]]
    BY <1>2, <1>4, WrittenType DEF FailStep, TypeOK
  <2>2. ops' \subseteq Operation /\ binding' \in {"healthy", "switching", "failed"}
    <3>1. /\ ops' = (ops \ {op}) \cup {After(op, st, TRUE)}
          /\ binding' = FinalBinding(After(op, st, TRUE))
      BY <1>4 DEF FailStep, Progress
    <3>2. ops \subseteq Operation
      BY DEF TypeOK
    <3>3. QED BY <1>2, <3>1, <3>2
  <2>3. stray' \subseteq Endpoint
    BY <1>2, <1>4 DEF FailStep, TypeOK
  <2>4. events' \in 0 .. MaxEvents
    BY <1>4, PublicationAssumption DEF FailStep, Event, TypeOK
  <2>5. QED BY <1>4, <2>1, <2>2, <2>3, <2>4 DEF FailStep, TypeOK, cloud
<1>5. QED BY <1>1, <1>3, <1>4 DEF Executor

LEMMA PublisherType ==
  ASSUME TypeOK, NEW s \in Endpoint, Publisher(s) \/ Rotate(s) \/ GiveUp(s) PROVE TypeOK'
<1>1. /\ slot[s] \in SlotRow /\ slot[s].address \in Address /\ resource[s] \in ResourceRow
      /\ publication[s] \in PublicationRow
  BY DEF TypeOK, SlotRow
<1>2. CASE Rotate(s)
  <2>1. slot[s].address + 1 \in Address
    BY <1>1, <1>2, Numbers, PublicationAssumption DEF Rotate, Address
  <2>2. slot' \in [Endpoint -> SlotRow]
    BY <1>1, <1>2, <2>1 DEF Rotate, TypeOK, SlotRow, Known
  <2>3. resource' \in [Endpoint -> ResourceRow] /\ publication' \in [Endpoint -> PublicationRow]
    BY <1>1, <1>2, Numbers DEF Rotate, TypeOK, ResourceRow, PublicationRow, Known
  <2>4. QED BY <1>2, <2>2, <2>3 DEF Rotate, TypeOK, pool, dns
<1>3. CASE GiveUp(s)
  BY <1>3, PublicationAssumption DEF GiveUp, Event, TypeOK, pool, dns
<1>4. CASE Reverify(s)
  <2>1. slot' \in [Endpoint -> SlotRow]
    BY <1>1, <1>4 DEF Reverify, TypeOK, SlotRow, Known
  <2>2. publication' \in [Endpoint -> PublicationRow]
    BY <1>4 DEF Reverify, TypeOK, PublicationRow
  <2>3. QED BY <1>4, <2>1, <2>2 DEF Reverify, TypeOK, pool, dns
<1>5. CASE Admit(s)
  BY <1>5 DEF Admit, TypeOK, pool, dns
<1>6. CASE Promote(s)
  <2>1. slot[s].candidate \in Address
    BY <1>1, <1>6 DEF Promote, MayPromote, SlotRow, Known
  <2>2. slot' \in [Endpoint -> SlotRow]
    BY <1>1, <1>6, <2>1 DEF Promote, TypeOK, SlotRow, Known
  <2>3. publication' \in [Endpoint -> PublicationRow]
    BY <1>6, OvertakenType DEF Promote, TypeOK, PublicationRow
  <2>4. StaleOps \subseteq Operation /\ "repair" \in Trigger
    BY StaleType DEF TypeOK, Trigger
  <2>5. QED BY <1>6, <2>2, <2>3, <2>4 DEF Promote, Decide, TypeOK, dns
<1>7. CASE Repoint(s)
  <2>1. publication' \in [Endpoint -> PublicationRow]
    <3>1. \A f \in [Endpoint -> PublicationRow] :
            [f EXCEPT ![s].child = "current"] \in [Endpoint -> PublicationRow]
      BY DEF PublicationRow
    <3>2. {publication, Overtaken} \subseteq [Endpoint -> PublicationRow]
      BY OvertakenType DEF TypeOK
    <3>3. \/ publication' = [publication EXCEPT ![s].child = "current"]
          \/ publication' = [Overtaken EXCEPT ![s].child = "current"]
      BY <1>7 DEF Repoint
    <3>4. QED BY <3>1, <3>2, <3>3
  <2>2. StaleOps \subseteq Operation /\ "repair" \in Trigger
    BY StaleType DEF TypeOK, Trigger
  <2>3. QED BY <1>7, <2>1, <2>2 DEF Repoint, Decide, TypeOK, cloud, dns
<1>8. ASSUME NEW releasable \in BOOLEAN, Apply(s, releasable) PROVE TypeOK'
  <2>1. publication' \in [Endpoint -> PublicationRow]
    BY <1>1, <1>8 DEF Apply, TypeOK, PublicationRow
  <2>2. resource' \in [Endpoint -> ResourceRow]
    <3>1. \A x \in ResourceRow : [x EXCEPT !.status = "pending", !.due = Due] \in ResourceRow
      BY Numbers DEF ResourceRow
    <3>2. resource \in [Endpoint -> ResourceRow]
      BY DEF TypeOK
    <3>3. \/ resource' = resource
          \/ resource' = [resource EXCEPT ![s].status = "pending", ![s].due = Due]
      BY <1>8 DEF Apply
    <3>4. resource' = resource \/
            resource' = [resource EXCEPT ![s] = [resource[s] EXCEPT !.status = "pending", !.due = Due]]
      BY <3>2, <3>3
    <3>5. QED BY <3>1, <3>2, <3>4
  <2>3. QED BY <1>8, <2>1, <2>2 DEF Apply, TypeOK, pool, dns
<1>9. ASSUME NEW op \in ops, Retry(s, op) PROVE TypeOK'
  <2>1. \A x \in Operation :
          [x EXCEPT !.status = "open", !.todo = x.failed, !.failed = {}] \in Operation
    BY DEF Operation
  <2>2. ops' \subseteq Operation
    BY <1>9, <2>1 DEF Retry, TypeOK
  <2>3. publication' \in [Endpoint -> PublicationRow]
    BY <1>1, <1>9 DEF Retry, TypeOK, PublicationRow
  <2>4. QED BY <1>9, <2>2, <2>3 DEF Retry, TypeOK, cloud, dns
<1>10. QED
  BY <1>2, <1>3, <1>4, <1>5, <1>6, <1>7, <1>8, <1>9 DEF Publisher

LEMMA CleanerType ==
  ASSUME TypeOK, OldIsOld, NEW s \in Endpoint, Cleaner(s) \/ NotApplied(s) \/ Terminate(s)
  PROVE  TypeOK'
<1>0. call[s] = "sent" => resource[s].address # NoAddress
  BY DEF OldIsOld
<1>1. /\ resource \in [Endpoint -> ResourceRow] /\ resource[s] \in ResourceRow
      /\ released \in [Endpoint -> SUBSET Address]
  BY DEF TypeOK
<1>2. \A x \in ResourceRow :
        /\ [x EXCEPT !.status = "released"] \in ResourceRow
        /\ [x EXCEPT !.status = "failed", !.due = Grace] \in ResourceRow
        /\ [x EXCEPT !.status = "retained"] \in ResourceRow
        /\ [x EXCEPT !.status = x.status] \in ResourceRow
  <2>1. Grace \in 0 .. Ttl + Grace
    BY Numbers
  <2>2. \A x \in ResourceRow : [x EXCEPT !.status = "failed", !.due = Grace] \in ResourceRow
    BY <2>1 DEF ResourceRow
  <2>3. \A x \in ResourceRow : \A t \in {"retained", "released", x.status} :
          [x EXCEPT !.status = t] \in ResourceRow
    BY DEF ResourceRow
  <2>4. QED BY <2>2, <2>3
<1>3. CASE Dispatch(s)
  BY <1>3 DEF Dispatch, TypeOK, pool, dns
<1>4. CASE Release(s)
  <2>1. resource[s].address \in Address
    BY <1>0, <1>1, <1>4 DEF Release, ResourceRow, Known
  <2>2. released' \in [Endpoint -> SUBSET Address]
    BY <1>1, <1>4, <2>1 DEF Release
  <2>3. QED BY <1>4, <2>2 DEF Release, TypeOK, pool, dns
<1>5. CASE Receipt(s)
  <2>1. resource' \in [Endpoint -> ResourceRow]
    BY <1>1, <1>2, <1>5 DEF Receipt
  <2>2. QED BY <1>5, <2>1 DEF Receipt, TypeOK, pool, dns
<1>6. CASE NotApplied(s)
  <2>1. resource' \in [Endpoint -> ResourceRow]
    BY <1>1, <1>2, <1>6 DEF NotApplied, Postponed
  <2>2. QED BY <1>6, <2>1, PublicationAssumption DEF NotApplied, Event, TypeOK, pool, dns
<1>7. CASE Complete(s)
  BY <1>7 DEF Complete, TypeOK, pool, dns
<1>8. CASE Terminate(s)
  <2>1. slot' \in [Endpoint -> SlotRow]
    <3>1. \A x \in SlotRow, b \in BOOLEAN :
            [x EXCEPT !.fenced = TRUE, !.blocked = b] \in SlotRow
      BY DEF SlotRow
    <3>2. slot \in [Endpoint -> SlotRow]
      BY DEF TypeOK
    <3>3. PICK b \in BOOLEAN : slot' = [slot EXCEPT ![s].fenced = TRUE, ![s].blocked = b]
      BY <1>8 DEF Terminate
    <3>4. slot' = [slot EXCEPT ![s] = [slot[s] EXCEPT !.fenced = TRUE, !.blocked = b]]
      BY <3>2, <3>3
    <3>5. QED BY <3>1, <3>2, <3>4
  <2>2. resource' \in [Endpoint -> ResourceRow]
    BY <1>1, <1>2, <1>8 DEF Terminate
  <2>3. /\ intent' \in [trigger : Trigger, state : {"none", "open", "done"}]
        /\ missed' \subseteq Endpoint
    BY <1>8 DEF Terminate, Cancel, TypeOK, Outdated, Applied
  <2>4. ops' \subseteq Operation
    <3>1. \A x \in Operation : [x EXCEPT !.status = "superseded"] \in Operation
      BY DEF Operation
    <3>2. ops \subseteq Operation
      BY DEF TypeOK
    <3>3. \/ ops' = ops
          \/ ops' = {IF op.current /\ (op.status = "open" \/ op.failed # {})
                     THEN [op EXCEPT !.status = "superseded"] ELSE op : op \in ops}
      BY <1>8 DEF Terminate, Cancel
    <3>4. QED BY <3>1, <3>2, <3>3
  <2>5. events' \in 0 .. MaxEvents
    BY <1>8, PublicationAssumption DEF Terminate, Event, TypeOK
  <2>6. incident' \in [Endpoint -> {"none", "publish", "cleanup"}]
    BY <1>8 DEF Terminate, TypeOK
  <2>7. UNCHANGED <<admitted, call, released, publication, enabled, binding, healthy, row, shown,
                    cached, stray>>
    BY <1>8 DEF Terminate, dns
  <2>8. QED
    BY <2>1, <2>2, <2>3, <2>4, <2>5, <2>6, <2>7 DEF TypeOK
<1>9. QED BY <1>3, <1>4, <1>5, <1>6, <1>7, <1>8 DEF Cleaner

LEMMA TickType ==
  ASSUME TypeOK, Tick PROVE TypeOK'
<1>1. \A x \in ResourceRow : [x EXCEPT !.due = Less(@)] \in ResourceRow
  BY Numbers DEF ResourceRow
<1>2. resource' \in [Endpoint -> ResourceRow]
  BY <1>1 DEF Tick, TypeOK
<1>3. cached' \in [Endpoint -> [Address -> 0 .. Ttl]]
  BY Numbers DEF Tick, TypeOK
<1>4. QED BY <1>2, <1>3 DEF Tick, TypeOK, pool

LEMMA TypeStep ==
  ASSUME TypeOK, OldIsOld, [Next]_vars PROVE TypeOK'
<1>1. CASE UNCHANGED vars
  BY <1>1 DEF TypeOK, vars, cloud, dns, pool
<1>2. CASE Worker
  <2>1. CASE ReconcilePaused
    BY <2>1 DEF ReconcilePaused, TypeOK, cloud, dns
  <2>2. QED BY <1>2, <2>1, ReconcileType DEF Worker
<1>3. QED
  BY <1>1, <1>2, PoolType, ExecutorType, PublisherType, CleanerType, TickType DEF Next

-----------------------------------------------------------------------------
(* The slot, its incident and its records.                                 *)

LEMMA CandidateStep ==
  ASSUME TypeOK, CandidateIsNext, [Next]_vars PROVE CandidateIsNext'
<1>0. \A s \in Endpoint : /\ slot[s].address \in Nat \ {0} /\ slot[s].candidate \in Nat
                          /\ slot[s] \in SlotRow
  BY Numbers DEF TypeOK, SlotRow
<1>1. ASSUME UNCHANGED <<slot, incident>> PROVE CandidateIsNext'
  BY <1>1 DEF CandidateIsNext
<1>2. CASE UNCHANGED vars
  BY <1>1, <1>2 DEF vars, cloud
<1>3. CASE Pool \/ Worker \/ Executor \/ Tick
  <2>1. UNCHANGED <<slot, incident>>
    BY <1>3, PoolKeepsCloud DEF Tick, cloud
  <2>2. QED BY <1>1, <2>1
<1>4. ASSUME NEW s \in Endpoint,
             \/ Rotate(s) \/ GiveUp(s) \/ NotApplied(s) \/ Terminate(s) \/ Publisher(s) \/ Cleaner(s)
      PROVE  CandidateIsNext'
  <2>1. CASE Rotate(s)
    BY <1>0, <2>1 DEF Rotate, CandidateIsNext, TypeOK, NoAddress
  <2>2. CASE Terminate(s)
    BY <1>0, <2>2 DEF Terminate, CandidateIsNext, TypeOK
  <2>3. CASE Reverify(s)
    BY <1>0, <2>3 DEF Reverify, CandidateIsNext, TypeOK, NoAddress
  <2>4. CASE Promote(s)
    BY <1>0, <2>4 DEF Promote, MayPromote, CandidateIsNext, TypeOK, NoAddress
  <2>5. ASSUME NEW releasable \in BOOLEAN, Apply(s, releasable) PROVE CandidateIsNext'
    BY <1>0, <2>5 DEF Apply, Decided, Observed, CandidateIsNext, TypeOK
  <2>6. CASE Complete(s)
    BY <1>0, <2>6 DEF Complete, CandidateIsNext, TypeOK
  <2>7. CASE \/ GiveUp(s) \/ NotApplied(s) \/ Admit(s) \/ Repoint(s) \/ (\E op \in ops : Retry(s, op))
             \/ Dispatch(s) \/ Release(s) \/ Receipt(s)
    BY <1>1, <2>7
      DEF GiveUp, NotApplied, Admit, Repoint, Retry, Dispatch, Release, Receipt, cloud
  <2>8. QED
    BY <1>4, <2>1, <2>2, <2>3, <2>4, <2>5, <2>6, <2>7 DEF Publisher, Cleaner
<1>5. QED BY <1>2, <1>3, <1>4 DEF Next

\* The address of a slot changes only by the promotion of its candidate.
Promoted(s) ==
  /\ MayPromote(s) /\ slot'[s].address = slot[s].candidate
  /\ intent'.state = "open"
  /\ UNCHANGED <<incident, resource, call, released, dns, missed>>

LEMMA SlotStep ==
  ASSUME TypeOK, [Next]_vars, NEW t \in Endpoint
  PROVE  slot'[t].address = slot[t].address \/ Promoted(t)
<1>0. slot \in [Endpoint -> SlotRow]
  BY DEF TypeOK
<1>1. CASE UNCHANGED slot
  BY <1>1
<1>2. CASE UNCHANGED vars
  BY <1>2 DEF vars, cloud
<1>3. CASE Pool \/ Worker \/ Executor \/ Tick
  BY <1>1, <1>3, PoolKeepsCloud DEF Tick, cloud
<1>4. ASSUME NEW s \in Endpoint,
             \/ Rotate(s) \/ GiveUp(s) \/ NotApplied(s) \/ Terminate(s) \/ Publisher(s) \/ Cleaner(s)
      PROVE  slot'[t].address = slot[t].address \/ Promoted(t)
  <2>1. CASE Rotate(s) \/ Terminate(s) \/ Reverify(s)
    BY <1>0, <2>1 DEF Rotate, Terminate, Reverify, SlotRow
  <2>2. CASE Promote(s)
    BY <1>0, <2>2 DEF Promote, Decide, Promoted, SlotRow
  <2>3. CASE \/ GiveUp(s) \/ NotApplied(s) \/ Admit(s) \/ Repoint(s) \/ (\E op \in ops : Retry(s, op))
             \/ (\E releasable \in BOOLEAN : Apply(s, releasable)) \/ Cleaner(s)
    BY <1>1, <2>3
      DEF GiveUp, NotApplied, Admit, Repoint, Retry, Apply, Cleaner, Dispatch, Release, Receipt,
          Complete, cloud
  <2>4. QED BY <1>4, <2>1, <2>2, <2>3 DEF Publisher
<1>5. QED BY <1>2, <1>3, <1>4 DEF Next

\* What a step of an operation does to the records of its slot.
LEMMA WrittenIsCurrent ==
  ASSUME TypeOK, NEW op \in ops, NEW st \in op.todo, MayPublish(op, st)
  PROVE  /\ st.endpoint \in Endpoint
         /\ Written(st) \in {NoAddress, slot[st.endpoint].address}
         /\ Written(st) # NoAddress => st.kind = "show"
<1>1. st \in Step
  BY DEF TypeOK, Operation
<1>2. QED BY <1>1 DEF Step, MayPublish, Written

LEMMA RecordsStep ==
  ASSUME TypeOK, CandidateIsNext, RecordsFollow, [Next]_vars PROVE RecordsFollow'
<1>0. /\ \A s \in Endpoint : /\ slot[s].address \in Nat \ {0} /\ slot[s].candidate \in Nat
                             /\ row[s] \in Nat /\ shown[s] \in Nat
      /\ row \in [Endpoint -> Known] /\ shown \in [Endpoint -> Known]
  BY Numbers DEF TypeOK, SlotRow
<1>1. \A s \in Endpoint : slot'[s].address \in Nat /\ slot'[s].address >= slot[s].address
  <2>1. SUFFICES ASSUME NEW s \in Endpoint
                 PROVE  slot'[s].address \in Nat /\ slot'[s].address >= slot[s].address
    OBVIOUS
  <2>2. CASE slot'[s].address = slot[s].address
    BY <1>0, <2>2
  <2>3. CASE Promoted(s)
    BY <1>0, <2>3 DEF Promoted, MayPromote, CandidateIsNext
  <2>4. QED BY <2>2, <2>3, SlotStep
<1>2. ASSUME UNCHANGED <<row, shown, stray>> PROVE RecordsFollow'
  <2>1. SUFFICES ASSUME NEW s \in Endpoint
                 PROVE  /\ row[s] <= slot'[s].address /\ shown[s] <= slot'[s].address
                        /\ s \notin stray /\ shown[s] # NoAddress => row[s] # NoAddress /\ row[s] <= shown[s]
    BY <1>2 DEF RecordsFollow
  <2>2. QED BY <1>0, <1>1, <2>1 DEF RecordsFollow
<1>3. CASE UNCHANGED vars
  BY <1>2, <1>3 DEF vars, dns
<1>4. CASE Pool \/ Worker \/ Tick
  BY <1>2, <1>4, Reconciled DEF Pool, Edit, BumpPolicy, HealthChange, Worker, ReconcilePaused, Tick, dns
<1>5. ASSUME NEW s \in Endpoint,
             \/ Rotate(s) \/ GiveUp(s) \/ NotApplied(s) \/ Terminate(s) \/ Publisher(s) \/ Cleaner(s)
      PROVE  RecordsFollow'
  BY <1>2, <1>5
    DEF Rotate, GiveUp, NotApplied, Terminate, Publisher, Reverify, Admit, Promote, Repoint, Apply,
        Retry, Cleaner, Dispatch, Release, Receipt, Complete, dns
<1>6. ASSUME NEW op \in ops, NEW st \in op.todo, RunStep(op, st) PROVE RecordsFollow'
  <2>1. /\ row' = [row EXCEPT ![st.endpoint] = Written(st)]
        /\ shown' = [shown EXCEPT ![st.endpoint] = Written(st)]
        /\ UNCHANGED <<slot, stray>> /\ MayPublish(op, st)
    BY <1>6 DEF RunStep, Write, cloud
  <2>2. Written(st) \in {NoAddress, slot[st.endpoint].address}
    BY <2>1, WrittenIsCurrent
  <2>3. QED BY <1>0, <2>1, <2>2 DEF RecordsFollow, NoAddress
<1>7. ASSUME NEW op \in ops, NEW st \in op.todo, NEW written \in BOOLEAN, FailStep(op, st, written)
      PROVE  RecordsFollow'
  <2>1. CASE ~written
    BY <1>2, <1>7, <2>1 DEF FailStep
  <2>2. CASE written
    <3>1. /\ shown' = [shown EXCEPT ![st.endpoint] = Written(st)]
          /\ stray' = IF st.kind = "show" /\ row[st.endpoint] = NoAddress
                      THEN stray \cup {st.endpoint} ELSE stray
          /\ UNCHANGED <<slot, row>> /\ MayPublish(op, st)
      BY <1>7, <2>2 DEF FailStep, Write, cloud
    <3>2. /\ Written(st) \in {NoAddress, slot[st.endpoint].address}
          /\ Written(st) # NoAddress => st.kind = "show"
      BY <3>1, WrittenIsCurrent
    <3>3. QED BY <1>0, <3>1, <3>2 DEF RecordsFollow, NoAddress
  <2>3. QED BY <2>1, <2>2
<1>8. CASE Executor
  <2>1. ASSUME NEW op \in ops, Supersede(op) PROVE RecordsFollow'
    BY <1>2, <2>1 DEF Supersede, dns
  <2>2. QED BY <1>6, <1>7, <1>8, <2>1 DEF Executor
<1>9. QED BY <1>3, <1>4, <1>5, <1>8 DEF Next

-----------------------------------------------------------------------------
(* The operations of the decision that stands.                             *)

\* A new decision leaves no operation of its own.
LEMMA DecisionStep ==
  ASSUME TypeOK, EndedIsDone, ops' = StaleOps, intent'.state # "done"
  PROVE  EndedIsDone' /\ OpenIsFresh' /\ DecisionsCover'
<1>1. ops \subseteq Operation
  BY DEF TypeOK
<1>2. \A op \in StaleOps : ~op.current /\ (op.status = "ended" => op.todo = {})
  BY <1>1, StaleType DEF EndedIsDone
<1>3. QED BY <1>2 DEF EndedIsDone, OpenIsFresh, DecisionsCover

\* The decision that stands is unchanged, and what it has to mend as well.
LEMMA DecisionKept ==
  ASSUME DecisionsCover,
         UNCHANGED <<intent, enabled, row>>, missed \subseteq missed',
         \A s \in Endpoint : /\ slot'[s].address = slot[s].address
                             /\ slot'[s].candidate = NoAddress => slot[s].candidate = NoAddress,
         \A s \in Endpoint : Unmended(s) => Unmended(s)'
  PROVE  DecisionsCover'
BY DEF DecisionsCover, Outdated, Applied

LEMMA OpsKept ==
  ASSUME EndedIsDone, OpenIsFresh, DecisionsCover,
         UNCHANGED <<intent, enabled, row, ops, binding, missed>>,
         \A s \in Endpoint : /\ slot'[s].address = slot[s].address
                             /\ slot'[s].candidate = NoAddress => slot[s].candidate = NoAddress
  PROVE  EndedIsDone' /\ OpenIsFresh' /\ DecisionsCover'
<1>1. EndedIsDone' /\ OpenIsFresh'
  BY DEF EndedIsDone, OpenIsFresh
<1>2. \A s \in Endpoint : Unmended(s) => Unmended(s)'
  BY DEF Unmended, Mends
<1>3. DecisionsCover'
  BY <1>2, DecisionKept
<1>4. QED BY <1>1, <1>3

LEMMA ReconcileOps ==
  ASSUME TypeOK, EndedIsDone, OpenIsFresh, NEW gone, Reconcile(gone)
  PROVE  EndedIsDone' /\ OpenIsFresh' /\ DecisionsCover'
<1>1. /\ intent' = [intent EXCEPT !.state = "done"] /\ UNCHANGED <<slot, row>>
      /\ \A op \in ops : ~op.current
      /\ intent'.state = "done"
  BY Reconciled DEF cloud, dns, OpenIsFresh, TypeOK
<1>2. ASSUME ops' = ops, binding' = "failed" \/ missed' = missed \cup Outdated
      PROVE  EndedIsDone' /\ OpenIsFresh' /\ DecisionsCover'
  <2>1. EndedIsDone' /\ OpenIsFresh'
    BY <1>1, <1>2 DEF EndedIsDone, OpenIsFresh
  <2>2. CASE binding' = "failed"
    <3>1. \A s \in Outdated' : Unmended(s)'
      BY <1>1, <1>2, <2>2 DEF Unmended
    <3>2. QED BY <2>1, <3>1 DEF DecisionsCover
  <2>3. CASE missed' = missed \cup Outdated
    <3>1. Outdated' \ missed' = {}
      BY <1>1, <2>3 DEF Outdated, Applied
    <3>2. QED BY <2>1, <3>1 DEF DecisionsCover
  <2>4. QED BY <1>2, <2>1, <2>2, <2>3
<1>3. ASSUME NEW desired \in SUBSET Endpoint, NEW s \in Outdated
      PROVE  \E st \in StepsFor(desired) : st.endpoint = s
  <2>1. s \in Applied /\ row[s] # slot[s].address
    BY <1>3 DEF Outdated
  <2>2. CASE s \in desired
    <3>1. [kind |-> "show", endpoint |-> s, address |-> slot[s].address] \in StepsFor(desired)
      BY <2>1, <2>2 DEF StepsFor
    <3>2. QED BY <3>1
  <2>3. CASE s \notin desired
    <3>1. [kind |-> "hide", endpoint |-> s, address |-> row[s]] \in StepsFor(desired)
      BY <2>1, <2>3 DEF StepsFor
    <3>2. QED BY <3>1
  <2>4. QED BY <2>2, <2>3
<1>4. ASSUME NEW desired \in SUBSET Endpoint, StepsFor(desired) = {}, ops' = ops
      PROVE  EndedIsDone' /\ OpenIsFresh' /\ DecisionsCover'
  <2>1. EndedIsDone' /\ OpenIsFresh'
    BY <1>1, <1>4 DEF EndedIsDone, OpenIsFresh
  <2>2. Outdated' = {}
    BY <1>1, <1>3, <1>4 DEF Outdated, Applied
  <2>3. QED BY <2>1, <2>2 DEF DecisionsCover
<1>5. ASSUME NEW desired \in SUBSET Endpoint,
             ops' = ops \cup {[current |-> TRUE, status |-> "open",
                              todo |-> StepsFor(desired), failed |-> {}]}
      PROVE  EndedIsDone' /\ OpenIsFresh' /\ DecisionsCover'
  <2>1. EndedIsDone' /\ OpenIsFresh'
    BY <1>1, <1>5 DEF EndedIsDone, OpenIsFresh
  <2> DEFINE op == [current |-> TRUE, status |-> "open", todo |-> StepsFor(desired), failed |-> {}]
  <2>2. op \in ops' /\ op.current /\ op.todo = StepsFor(desired)
    BY <1>5
  <2> HIDE DEF op
  <2>3. Outdated' = Outdated
    BY <1>1 DEF Outdated, Applied
  <2>4. \A s \in Outdated : Mends(op, s)
    BY <1>3, <2>2 DEF Mends
  <2>5. \A s \in Outdated : Unmended(s)'
    BY <2>2, <2>4 DEF Unmended, Mends
  <2>6. QED BY <2>1, <2>3, <2>5 DEF DecisionsCover
<1>6. \/ ops' = ops /\ (binding' = "failed" \/ missed' = missed \cup Outdated)
      \/ \E desired \in SUBSET Endpoint :
           \/ StepsFor(desired) = {} /\ ops' = ops
           \/ ops' = ops \cup {[current |-> TRUE, status |-> "open",
                               todo |-> StepsFor(desired), failed |-> {}]}
  BY Reconciled, Zenon
<1>7. QED BY <1>2, <1>4, <1>5, <1>6, Zenon

\* An operation moves on: what it has still to mend, other than by the step that
\* was made, stays.
LEMMA ProgressOps ==
  ASSUME TypeOK, EndedIsDone, OpenIsFresh, NEW op \in ops, NEW st \in op.todo,
         NEW failed \in BOOLEAN, op.current, op.status = "open", Progress(op, After(op, st, failed)),
         UNCHANGED intent
  PROVE  /\ EndedIsDone' /\ OpenIsFresh'
         /\ \A s \in Endpoint : Unmended(s) => Unmended(s)' \/ (s = st.endpoint /\ ~failed)
<1> DEFINE next == After(op, st, failed)
<1>1. /\ op \in Operation /\ st \in Step
      /\ op.todo \subseteq Step /\ op.failed \subseteq Step
  BY DEF TypeOK, Operation
<1>2. /\ next.current = op.current
      /\ next.todo = op.todo \ {st}
      /\ next.failed = IF failed THEN op.failed \cup {st} ELSE op.failed
      /\ next.status = IF op.todo = {st} THEN "ended" ELSE op.status
  BY <1>1 DEF After, Operation
<1>3. ops' = (ops \ {op}) \cup {next}
  BY DEF Progress
<1> HIDE DEF next
<1>4. EndedIsDone'
  BY <1>2, <1>3 DEF EndedIsDone
<1>5. OpenIsFresh'
  BY DEF OpenIsFresh
<1>6. ASSUME NEW s \in Endpoint, Unmended(s), s # st.endpoint \/ failed PROVE Unmended(s)'
  <2>1. PICK x \in ops : Mends(x, s)
    BY <1>6 DEF Unmended
  <2>2. CASE x # op
    <3>1. x \in ops'
      BY <1>3, <2>2
    <3>2. QED BY <2>1, <3>1 DEF Unmended, Mends
  <2>3. CASE x = op
    <3>1. PICK other \in op.todo \cup op.failed : other.endpoint = s
      BY <2>1, <2>3 DEF Mends
    <3>2. other \in next.todo \cup next.failed
      BY <1>2, <1>6, <3>1
    <3>3. Mends(next, s)
      BY <1>2, <3>1, <3>2 DEF Mends
    <3>4. QED BY <1>3, <3>3 DEF Unmended, Mends
  <2>4. QED BY <2>2, <2>3
<1>7. QED BY <1>4, <1>5, <1>6

LEMMA ExecutorOps ==
  ASSUME TypeOK, EndedIsDone, OpenIsFresh, DecisionsCover, Executor
  PROVE  EndedIsDone' /\ OpenIsFresh' /\ DecisionsCover'
<1>0. ops \subseteq Operation /\ row \in [Endpoint -> Known]
  BY DEF TypeOK
<1>1. ASSUME NEW op \in ops, Supersede(op)
      PROVE  EndedIsDone' /\ OpenIsFresh' /\ DecisionsCover'
  <2>1. /\ ops' = ops \ {op} /\ ~op.current
        /\ UNCHANGED <<slot, row, intent, enabled, binding, missed>>
    BY <1>1 DEF Supersede, cloud, dns
  <2>2. EndedIsDone' /\ OpenIsFresh'
    BY <2>1 DEF EndedIsDone, OpenIsFresh
  <2>3. \A s \in Endpoint : Unmended(s) => Unmended(s)'
    BY <2>1 DEF Unmended, Mends
  <2>4. DecisionsCover'
    BY <2>1, <2>3, DecisionKept
  <2>5. QED BY <2>2, <2>4
<1>2. ASSUME NEW op \in ops, NEW st \in op.todo, RunStep(op, st)
      PROVE  EndedIsDone' /\ OpenIsFresh' /\ DecisionsCover'
  <2>1. /\ op.current /\ op.status = "open" /\ MayPublish(op, st)
        /\ Progress(op, After(op, st, FALSE))
        /\ row' = [row EXCEPT ![st.endpoint] = Written(st)]
        /\ UNCHANGED <<slot, intent, enabled, missed>>
    BY <1>2 DEF RunStep, MayPublish, cloud
  <2>2. /\ EndedIsDone' /\ OpenIsFresh'
        /\ \A s \in Endpoint : Unmended(s) => Unmended(s)' \/ s = st.endpoint
    BY <2>1, ProgressOps
  <2>3. st.endpoint \in Endpoint /\ Written(st) \in {NoAddress, slot[st.endpoint].address}
    BY <2>1, WrittenIsCurrent
  <2>4. st.endpoint \notin Outdated' /\ Outdated' \subseteq Outdated
    BY <1>0, <2>1, <2>3 DEF Outdated, Applied
  <2>5. Outdated \subseteq Endpoint
    BY DEF Outdated, Applied
  <2>6. DecisionsCover'
    BY <2>1, <2>2, <2>4, <2>5 DEF DecisionsCover
  <2>7. QED BY <2>2, <2>6
<1>3. ASSUME NEW op \in ops, NEW st \in op.todo, NEW written \in BOOLEAN, FailStep(op, st, written)
      PROVE  EndedIsDone' /\ OpenIsFresh' /\ DecisionsCover'
  <2>1. /\ op.current /\ op.status = "open"
        /\ Progress(op, After(op, st, TRUE))
        /\ UNCHANGED <<slot, row, intent, enabled, missed>>
    BY <1>3 DEF FailStep, cloud
  <2>2. /\ EndedIsDone' /\ OpenIsFresh'
        /\ \A s \in Endpoint : Unmended(s) => Unmended(s)'
    BY <2>1, ProgressOps
  <2>3. DecisionsCover'
    BY <2>1, <2>2, DecisionKept
  <2>4. QED BY <2>2, <2>3
<1>4. QED BY <1>1, <1>2, <1>3 DEF Executor

LEMMA RetryOps ==
  ASSUME TypeOK, EndedIsDone, OpenIsFresh, DecisionsCover, NEW s \in Endpoint, NEW op \in ops,
         Retry(s, op)
  PROVE  EndedIsDone' /\ OpenIsFresh' /\ DecisionsCover'
<1> DEFINE next == [op EXCEPT !.status = "open", !.todo = op.failed, !.failed = {}]
<1>1. op \in Operation
  BY DEF TypeOK
<1>2. next.current = op.current /\ next.status = "open" /\ next.todo = op.failed
  BY <1>1 DEF Operation
<1>3. /\ ops' = (ops \ {op}) \cup {next} /\ op.current /\ op.status = "ended"
      /\ UNCHANGED <<slot, row, intent, enabled, binding, missed>>
      /\ intent.state = "done"
  BY DEF Retry, Decided, cloud, dns
<1> HIDE DEF next
<1>4. EndedIsDone' /\ OpenIsFresh'
  BY <1>2, <1>3 DEF EndedIsDone, OpenIsFresh
<1>5. ASSUME NEW t \in Endpoint, Unmended(t) PROVE Unmended(t)'
  <2>1. PICK x \in ops : Mends(x, t)
    BY <1>3, <1>5 DEF Unmended
  <2>2. CASE x # op
    BY <1>3, <2>1, <2>2 DEF Unmended, Mends
  <2>3. CASE x = op
    <3>1. op.todo = {}
      BY <1>3 DEF EndedIsDone
    <3>2. PICK st \in op.failed : st.endpoint = t
      BY <1>3, <2>1, <2>3, <3>1 DEF Mends
    <3>3. Mends(next, t)
      BY <1>2, <1>3, <3>2 DEF Mends
    <3>4. QED BY <1>3, <3>3 DEF Unmended, Mends
  <2>4. QED BY <2>2, <2>3
<1>6. DecisionsCover'
  BY <1>3, <1>5, DecisionKept
<1>7. QED BY <1>4, <1>6

LEMMA TerminateOps ==
  ASSUME TypeOK, EndedIsDone, OpenIsFresh, DecisionsCover, NEW s \in Endpoint, Terminate(s)
  PROVE  EndedIsDone' /\ OpenIsFresh' /\ DecisionsCover'
<1>0. ops \subseteq Operation /\ slot \in [Endpoint -> SlotRow]
  BY DEF TypeOK
<1>1. /\ \A t \in Endpoint : /\ slot'[t].address = slot[t].address
                             /\ slot'[t].candidate = slot[t].candidate
      /\ Cancel(s) /\ UNCHANGED <<enabled, row, binding>>
  BY <1>0 DEF Terminate, dns, SlotRow
<1>2. CASE publication[s].child # "current"
  <2>1. UNCHANGED <<intent, ops, missed>>
    BY <1>1, <1>2 DEF Cancel
  <2>2. QED BY <1>1, <2>1, OpsKept
<1>3. CASE publication[s].child = "current"
  <2> DEFINE Superseded(op) ==
        IF op.current /\ (op.status = "open" \/ op.failed # {})
        THEN [op EXCEPT !.status = "superseded"] ELSE op
  <2>1. /\ ops' = {Superseded(op) : op \in ops}
        /\ intent' = IF intent.state = "open" THEN [intent EXCEPT !.state = "done"] ELSE intent
        /\ missed' = IF intent.state = "open" THEN missed \cup Outdated ELSE missed
    BY <1>1, <1>3 DEF Cancel
  <2>2. \A op \in ops : /\ Superseded(op).current = op.current
                        /\ Superseded(op).todo = op.todo
                        /\ Superseded(op).failed = op.failed
                        /\ \/ Superseded(op).status = "superseded"
                           \/ Superseded(op) = op
    BY <1>0 DEF Operation
  <2>3. EndedIsDone'
    BY <2>1, <2>2 DEF EndedIsDone
  <2> HIDE DEF Superseded
  <2>4. CASE intent.state = "open"
    <3>1. /\ intent'.state = "done" /\ missed' = missed \cup Outdated
      BY <2>1, <2>4 DEF TypeOK
    <3>2. Outdated' = Outdated
      <4>1. Outdated \subseteq Endpoint /\ Outdated' \subseteq Endpoint
        BY DEF Outdated, Applied
      <4>2. QED BY <1>1, <4>1 DEF Outdated, Applied
    <3>3. DecisionsCover' /\ OpenIsFresh'
      BY <3>1, <3>2 DEF DecisionsCover, OpenIsFresh
    <3>4. QED BY <2>3, <3>3
  <2>5. CASE intent.state # "open"
    <3>1. UNCHANGED <<intent, missed>>
      BY <2>1, <2>5
    <3>2. OpenIsFresh'
      BY <2>1, <2>2, <3>1 DEF OpenIsFresh
    <3>3. ASSUME NEW t \in Endpoint, NEW op \in ops, Mends(op, t) PROVE Mends(Superseded(op), t)
      BY <2>2, <3>3 DEF Mends
    <3>4. ASSUME NEW t \in Endpoint, Unmended(t) PROVE Unmended(t)'
      <4>1. CASE \E op \in ops : Mends(op, t)
        <5>1. PICK op \in ops : Mends(op, t)
          BY <4>1
        <5>2. Superseded(op) \in ops' /\ Mends(Superseded(op), t)
          BY <2>1, <3>3, <5>1
        <5>3. QED BY <5>2 DEF Unmended, Mends
      <4>2. CASE binding = "failed" /\ \A op \in ops : ~op.current
        BY <1>1, <2>1, <2>2, <4>2 DEF Unmended
      <4>3. QED BY <3>4, <4>1, <4>2 DEF Unmended
    <3>5. DecisionsCover'
      BY <1>1, <3>1, <3>4, DecisionKept
    <3>6. QED BY <2>3, <3>2, <3>5
  <2>6. QED BY <2>4, <2>5
<1>4. QED BY <1>2, <1>3

LEMMA OpsStep ==
  ASSUME TypeOK, EndedIsDone, OpenIsFresh, DecisionsCover, [Next]_vars
  PROVE  EndedIsDone' /\ OpenIsFresh' /\ DecisionsCover'
<1>0. slot \in [Endpoint -> SlotRow]
  BY DEF TypeOK
<1>1. CASE UNCHANGED vars \/ Tick
  <2>1. UNCHANGED <<slot, intent, enabled, row, ops, binding, missed>>
    BY <1>1 DEF vars, cloud, pool, dns, Tick
  <2>2. QED BY <2>1, OpsKept
<1>2. CASE Pool
  <2>1. ops' = StaleOps /\ intent'.state # "done"
    BY <1>2 DEF Pool, Edit, BumpPolicy, HealthChange, Decide, TypeOK
  <2>2. QED BY <2>1, DecisionStep
<1>3. CASE Worker
  <2>1. CASE ReconcilePaused
    BY <2>1 DEF ReconcilePaused, EndedIsDone, OpenIsFresh, DecisionsCover, TypeOK
  <2>2. QED BY <1>3, <2>1, ReconcileOps DEF Worker
<1>4. CASE Executor
  BY <1>4, ExecutorOps
<1>5. ASSUME NEW s \in Endpoint,
             \/ Rotate(s) \/ GiveUp(s) \/ NotApplied(s) \/ Terminate(s) \/ Publisher(s) \/ Cleaner(s)
      PROVE  EndedIsDone' /\ OpenIsFresh' /\ DecisionsCover'
  <2>1. CASE Promote(s) \/ (Repoint(s) /\ intent.state = "none")
    <3>1. ops' = StaleOps /\ intent'.state # "done"
      BY <2>1 DEF Promote, Repoint, Decide
    <3>2. QED BY <3>1, DecisionStep
  <2>2. CASE Rotate(s) \/ Reverify(s)
    <3>1. UNCHANGED <<intent, enabled, row, ops, binding, missed>>
      BY <2>2 DEF Rotate, Reverify, pool, dns
    <3>2. \A t \in Endpoint : /\ slot'[t].address = slot[t].address
                              /\ slot'[t].candidate = NoAddress => slot[t].candidate = NoAddress
      BY <1>0, <2>2 DEF Rotate, Reverify, SlotRow
    <3>3. QED BY <3>1, <3>2, OpsKept
  <2>3. CASE \E op \in ops : Retry(s, op)
    BY <2>3, RetryOps
  <2>4. CASE Terminate(s)
    BY <2>4, TerminateOps
  <2>5. CASE \/ GiveUp(s) \/ NotApplied(s) \/ Admit(s) \/ (Repoint(s) /\ intent.state # "none")
             \/ (\E releasable \in BOOLEAN : Apply(s, releasable)) \/ Cleaner(s)
    <3>1. UNCHANGED <<slot, intent, enabled, row, ops, binding, missed>>
      BY <2>5 DEF GiveUp, NotApplied, Admit, Repoint, Apply, Cleaner, Dispatch, Release, Receipt,
                  Complete, cloud, pool, dns
    <3>2. QED BY <3>1, OpsKept
  <2>6. QED BY <1>5, <2>1, <2>2, <2>3, <2>4, <2>5 DEF Publisher
<1>6. QED BY <1>1, <1>2, <1>3, <1>4, <1>5 DEF Next

-----------------------------------------------------------------------------
(* Releases.                                                               *)

\* What a step does to the records and caches of addresses that are not the
\* newest of their slot.
LEMMA RecordsMove ==
  ASSUME TypeOK, [Next]_vars
  PROVE  /\ missed \subseteq missed' /\ stray \subseteq stray'
         /\ \/ UNCHANGED <<shown, cached>>
            \/ Tick
            \/ \E op \in ops : \E st \in op.todo : MayPublish(op, st) /\ Write(st)
<1>1. CASE UNCHANGED vars
  BY <1>1 DEF vars, dns
<1>2. CASE Pool \/ Tick
  BY <1>2 DEF Pool, Edit, BumpPolicy, HealthChange, Tick, dns
<1>3. CASE Worker
  BY <1>3, Reconciled DEF Worker, ReconcilePaused, dns
<1>4. CASE Executor
  BY <1>4 DEF Executor, Supersede, RunStep, FailStep, dns
<1>5. ASSUME NEW s \in Endpoint,
             \/ Rotate(s) \/ GiveUp(s) \/ NotApplied(s) \/ Terminate(s) \/ Publisher(s) \/ Cleaner(s)
      PROVE  missed \subseteq missed' /\ UNCHANGED <<stray, shown, cached>>
  BY <1>5
    DEF Rotate, GiveUp, NotApplied, Terminate, Cancel, Publisher, Reverify, Admit, Promote, Repoint,
        Apply, Retry, Cleaner, Dispatch, Release, Receipt, Complete, dns
<1>6. QED BY <1>1, <1>2, <1>3, <1>4, <1>5 DEF Next

LEMMA UseStep ==
  ASSUME TypeOK, [Next]_vars, NEW s \in Endpoint, NEW a \in Address,
         a < slot[s].address, shown[s] # a
  PROVE  /\ shown'[s] # a /\ cached'[s][a] <= cached[s][a]
         /\ cached[s][a] \in 0 .. Ttl /\ cached'[s][a] \in Nat
<1>0. /\ a \in Nat \ {0} /\ slot[s].address \in Nat
      /\ shown \in [Endpoint -> Known] /\ cached \in [Endpoint -> [Address -> 0 .. Ttl]]
      /\ cached[s][a] \in 0 .. Ttl /\ Ttl \in Nat
  <2>1. /\ shown \in [Endpoint -> Known] /\ cached \in [Endpoint -> [Address -> 0 .. Ttl]]
        /\ slot[s].address \in Address
    BY DEF TypeOK, SlotRow
  <2>2. Address \subseteq Nat \ {0} /\ Ttl \in Nat
    BY Numbers
  <2>3. cached[s][a] \in 0 .. Ttl
    BY <2>1
  <2>4. QED BY <2>1, <2>2, <2>3
<1>1. CASE UNCHANGED <<shown, cached>>
  BY <1>0, <1>1
<1>2. CASE Tick
  <2>1. UNCHANGED shown /\ cached'[s][a] = Less(cached[s][a])
    BY <1>2 DEF Tick
  <2>2. QED BY <1>0, <2>1 DEF Less
<1>3. ASSUME NEW op \in ops, NEW st \in op.todo, MayPublish(op, st), Write(st)
      PROVE  shown'[s] # a /\ cached'[s][a] = cached[s][a]
  <2>1. /\ st.endpoint \in Endpoint
        /\ Written(st) \in {NoAddress, slot[st.endpoint].address}
    BY <1>3, WrittenIsCurrent
  <2>2. /\ shown' = [shown EXCEPT ![st.endpoint] = Written(st)]
        /\ \/ cached' = cached
           \/ cached' = [cached EXCEPT ![st.endpoint][shown[st.endpoint]] = Ttl]
    BY <1>3 DEF Write
  <2>3. shown'[s] # a
    BY <1>0, <2>1, <2>2 DEF NoAddress
  <2>4. QED BY <1>0, <2>1, <2>2, <2>3
<1>4. QED BY <1>0, <1>1, <1>2, <1>3, RecordsMove

LEMMA OldStep ==
  ASSUME TypeOK, CandidateIsNext, OldIsOld, [Next]_vars PROVE OldIsOld'
<1>0. /\ \A s \in Endpoint : /\ slot[s].address \in Nat \ {0} /\ slot[s].candidate \in Nat
                             /\ resource[s].address \in Nat
      /\ resource \in [Endpoint -> ResourceRow] /\ slot \in [Endpoint -> SlotRow]
      /\ released \in [Endpoint -> SUBSET Address] /\ Address \subseteq Nat
      /\ incident \in [Endpoint -> {"none", "publish", "cleanup"}]
      /\ call \in [Endpoint -> {"none", "sent", "made"}]
  BY Numbers DEF TypeOK, SlotRow, ResourceRow
<1>1. ASSUME UNCHANGED <<slot, incident, resource, released, call>> PROVE OldIsOld'
  BY <1>1 DEF OldIsOld
<1>2. CASE UNCHANGED vars
  BY <1>1, <1>2 DEF vars, cloud
<1>3. CASE Pool \/ Worker \/ Executor
  BY <1>1, <1>3, PoolKeepsCloud DEF cloud
<1>4. CASE Tick
  <2>1. \A x \in ResourceRow : /\ [x EXCEPT !.due = Less(@)].address = x.address
                               /\ [x EXCEPT !.due = Less(@)].status = x.status
    BY DEF ResourceRow
  <2>2. \A s \in Endpoint : /\ resource'[s].address = resource[s].address
                            /\ resource'[s].status = resource[s].status
    BY <1>0, <1>4, <2>1 DEF Tick
  <2>3. UNCHANGED <<slot, incident, call, released>>
    BY <1>4 DEF Tick
  <2>4. QED BY <2>2, <2>3 DEF OldIsOld
<1>5. ASSUME NEW s \in Endpoint,
             \/ Rotate(s) \/ GiveUp(s) \/ NotApplied(s) \/ Terminate(s) \/ Publisher(s) \/ Cleaner(s)
      PROVE  OldIsOld'
  <2>0. resource[s] \in ResourceRow /\ slot[s] \in SlotRow
    BY <1>0
  <2>1. CASE Rotate(s)
    BY <1>0, <2>1 DEF Rotate, OldIsOld, SlotRow, NoAddress
  <2>2. CASE Promote(s)
    BY <1>0, <2>2 DEF Promote, MayPromote, CandidateIsNext, OldIsOld, SlotRow
  <2>3. ASSUME NEW releasable \in BOOLEAN, Apply(s, releasable) PROVE OldIsOld'
    <3>1. /\ UNCHANGED <<slot, call, released>>
          /\ \/ UNCHANGED <<incident, resource>>
             \/ /\ incident[s] = "publish" /\ incident' = [incident EXCEPT ![s] = "cleanup"]
                /\ \/ resource' = resource
                   \/ resource' = [resource EXCEPT ![s].status = "pending", ![s].due = Due]
      BY <2>3 DEF Apply
    <3>2. \A t \in Endpoint : /\ resource'[t].address = resource[t].address
                              /\ t # s => resource'[t].status = resource[t].status
      BY <1>0, <3>1 DEF ResourceRow
    <3>3. QED BY <1>0, <1>1, <3>1, <3>2 DEF OldIsOld
  <2>4. CASE Reverify(s)
    BY <1>0, <2>4 DEF Reverify, OldIsOld, SlotRow
  <2>5. CASE Dispatch(s)
    <3>1. /\ UNCHANGED <<slot, incident, resource, released>>
          /\ call' = [call EXCEPT ![s] = "sent"] /\ incident[s] = "cleanup"
          /\ resource[s].address # slot[s].address
      BY <2>5 DEF Dispatch, Eligible
    <3>2. resource[s].address # NoAddress /\ resource[s].address < slot[s].address
      BY <1>0, <3>1 DEF OldIsOld
    <3>3. QED BY <1>0, <3>1, <3>2 DEF OldIsOld
  <2>6. CASE Release(s)
    BY <1>0, <2>6 DEF Release, OldIsOld
  <2>7. CASE Receipt(s) \/ NotApplied(s)
    <3>1. /\ UNCHANGED <<slot, incident, released>> /\ call[s] # "none"
          /\ call' = [call EXCEPT ![s] = "none"]
          /\ \/ resource' = [resource EXCEPT ![s].status = "released"]
             \/ resource' = [resource EXCEPT ![s] = [resource[s] EXCEPT !.status = "failed", !.due = Grace]]
      BY <2>7 DEF Receipt, NotApplied, Postponed
    <3>2. \A t \in Endpoint : /\ resource'[t].address = resource[t].address
                              /\ t # s => resource'[t].status = resource[t].status
      <4>1. ASSUME NEW x \in ResourceRow, x.address = resource[s].address,
                   resource' = [resource EXCEPT ![s] = x]
            PROVE  \A t \in Endpoint : /\ resource'[t].address = resource[t].address
                                        /\ t # s => resource'[t].status = resource[t].status
        BY <1>0, <4>1
      <4>2. LET x == [resource[s] EXCEPT !.status = "failed", !.due = Grace] IN
              x \in ResourceRow /\ x.address = resource[s].address
        <5>1. Grace \in 0 .. Ttl + Grace
          BY Numbers
        <5>2. QED BY <2>0, <5>1 DEF ResourceRow
      <4>3. LET x == [resource[s] EXCEPT !.status = "released"] IN
              x \in ResourceRow /\ x.address = resource[s].address
        BY <2>0 DEF ResourceRow
      <4>4. \/ resource' = [resource EXCEPT ![s] = [resource[s] EXCEPT !.status = "failed", !.due = Grace]]
            \/ resource' = [resource EXCEPT ![s] = [resource[s] EXCEPT !.status = "released"]]
        BY <1>0, <3>1
      <4>5. CASE resource' = [resource EXCEPT ![s] = [resource[s] EXCEPT !.status = "released"]]
        BY <4>1, <4>3, <4>5
      <4>6. CASE resource' = [resource EXCEPT ![s] =
                                [resource[s] EXCEPT !.status = "failed", !.due = Grace]]
        BY <4>1, <4>2, <4>6
      <4>7. QED BY <4>4, <4>5, <4>6
    <3>3. QED BY <1>0, <3>1, <3>2 DEF OldIsOld
  <2>8. CASE Complete(s)
    BY <1>0, <2>8 DEF Complete, OldIsOld
  <2>9. CASE Terminate(s)
    <3>1. /\ UNCHANGED <<call, released>> /\ incident' = [incident EXCEPT ![s] = "none"]
          /\ \A t \in Endpoint : /\ slot'[t].address = slot[t].address
                                 /\ resource'[t].address = resource[t].address
                                 /\ t # s => resource'[t].status = resource[t].status
      BY <1>0, <2>9 DEF Terminate, SlotRow, ResourceRow
    <3>2. QED BY <1>0, <3>1 DEF OldIsOld
  <2>10. CASE GiveUp(s) \/ Admit(s) \/ Repoint(s) \/ \E op \in ops : Retry(s, op)
    BY <1>1, <2>10 DEF GiveUp, Admit, Repoint, Retry, cloud
  <2>11. QED
    BY <1>5, <2>1, <2>2, <2>3, <2>4, <2>5, <2>6, <2>7, <2>8, <2>9, <2>10 DEF Publisher, Cleaner
<1>6. QED BY <1>2, <1>3, <1>4, <1>5 DEF Next

\* A publication is applied when no record of its slot is outdated.
LEMMA AppliedIsCurrent ==
  ASSUME TypeOK, RecordsFollow, EndedIsDone, DecisionsCover, NEW s \in Endpoint \ (missed \cup stray),
         Decided(s), Published
  PROVE  shown[s] \in {NoAddress, slot[s].address}
<1>1. ~Unmended(s)
  <2>1. \A op \in ops : op.current => op.status = "ended" /\ op.failed = {} /\ op.todo = {}
    BY DEF Published, EndedIsDone
  <2>2. QED BY <2>1 DEF Published, Unmended, Mends
<1>2. intent.state = "done" /\ enabled /\ slot[s].candidate = NoAddress
  BY DEF Decided, Observed
<1>3. row[s] \in {NoAddress, slot[s].address}
  BY <1>1, <1>2 DEF DecisionsCover, Outdated, Applied
<1>4. /\ row[s] \in Nat /\ shown[s] \in Nat /\ slot[s].address \in Nat
  BY Numbers DEF TypeOK, SlotRow
<1>5. QED BY <1>3, <1>4 DEF RecordsFollow

\* Steps that leave the incident, the old address and its call alone keep what
\* waits for its release.
LEMMA WaitsKept ==
  ASSUME TypeOK, CandidateIsNext, OldIsOld, [Next]_vars,
         NEW s \in Endpoint, Waits(s),
         incident'[s] \in {incident[s], "none"}, resource'[s] = resource[s],
         call'[s] \in {call[s], "none", "made"}
  PROVE  Waits(s)'
<1>1. /\ resource[s].address \in Known /\ resource[s].due \in Nat
      /\ slot[s].address \in Nat /\ slot[s].candidate \in Nat
      /\ Address \subseteq Nat \ {0}
      /\ slot'[s].address = slot[s].address \/ Promoted(s)
  <2>1. resource[s] \in ResourceRow /\ slot[s] \in SlotRow
    BY DEF TypeOK
  <2>2. /\ resource[s].address \in Known /\ resource[s].due \in 0 .. Ttl + Grace
        /\ slot[s].address \in Address /\ slot[s].candidate \in Known
    BY <2>1 DEF ResourceRow, SlotRow
  <2>3. /\ Address \subseteq Nat \ {0} /\ Known \subseteq Nat
        /\ Ttl \in Nat /\ Grace \in Nat
    BY Numbers
  <2>4. slot'[s].address = slot[s].address \/ Promoted(s)
    BY SlotStep
  <2>5. resource[s].due \in Nat
    BY <2>2, <2>3
  <2>6. QED BY <2>2, <2>3, <2>4, <2>5
<1>2. ASSUME incident'[s] = "cleanup", resource[s].status \in {"pending", "failed"}
      PROVE  /\ resource[s].address < slot'[s].address
             /\ shown'[s] # resource[s].address
             /\ cached'[s][resource[s].address] <= resource[s].due
  <2>1. incident[s] = "cleanup"
    BY <1>2
  <2>2. /\ resource[s].address < slot[s].address
        /\ shown[s] # resource[s].address
        /\ cached[s][resource[s].address] <= resource[s].due
        /\ resource[s].address \in Address
    BY <1>1, <1>2, <2>1 DEF Waits, OldIsOld, Known
  <2>3. slot'[s].address = slot[s].address
    BY <1>1, <2>1 DEF Promoted, MayPromote, CandidateIsNext
  <2>4. /\ shown'[s] # resource[s].address
        /\ cached'[s][resource[s].address] <= cached[s][resource[s].address]
        /\ cached[s][resource[s].address] \in 0 .. Ttl /\ cached'[s][resource[s].address] \in Nat
    BY <2>2, UseStep
  <2>5. QED BY <1>1, <2>2, <2>3, <2>4
<1>3. ASSUME call'[s] = "sent" PROVE ~InUse(s, resource[s].address)'
  <2>1. /\ call[s] = "sent" /\ ~InUse(s, resource[s].address)
        /\ resource[s].address < slot[s].address /\ resource[s].address \in Address
    BY <1>1, <1>3 DEF Waits, OldIsOld, Known
  <2>2. /\ shown'[s] # resource[s].address
        /\ cached'[s][resource[s].address] <= cached[s][resource[s].address]
        /\ cached[s][resource[s].address] \in 0 .. Ttl /\ cached'[s][resource[s].address] \in Nat
    BY <2>1, UseStep DEF InUse
  <2>3. cached'[s][resource[s].address] = 0
    BY <2>1, <2>2, Numbers DEF InUse
  <2>4. QED BY <2>2, <2>3 DEF InUse
<1>4. QED BY <1>2, <1>3 DEF Waits

LEMMA ReleasesStep ==
  ASSUME TypeOK, CandidateIsNext, RecordsFollow, EndedIsDone, DecisionsCover, OldIsOld,
         ReleasesWait, [Next]_vars
  PROVE  ReleasesWait'
<1> SUFFICES ASSUME NEW t \in Endpoint \ (missed' \cup stray')
             PROVE  Waits(t)'
  BY DEF ReleasesWait
<1>0. /\ resource \in [Endpoint -> ResourceRow] /\ resource[t] \in ResourceRow
      /\ incident \in [Endpoint -> {"none", "publish", "cleanup"}]
      /\ call \in [Endpoint -> {"none", "sent", "made"}]
      /\ cached \in [Endpoint -> [Address -> 0 .. Ttl]]
      /\ slot[t].address \in Nat
  BY Numbers DEF TypeOK, SlotRow
<1>1. t \in Endpoint \ (missed \cup stray) /\ Waits(t)
  BY RecordsMove DEF ReleasesWait
<1>2. ASSUME UNCHANGED <<incident, resource, call>> PROVE Waits(t)'
  BY <1>1, <1>2, WaitsKept
<1>3. ASSUME incident'[t] = incident[t], resource'[t] = resource[t], call'[t] = call[t]
      PROVE  Waits(t)'
  BY <1>1, <1>3, WaitsKept
<1>4. CASE UNCHANGED vars
  BY <1>2, <1>4 DEF vars, cloud
<1>5. CASE Pool \/ Worker \/ Executor
  BY <1>2, <1>5, PoolKeepsCloud DEF cloud
<1>6. CASE Tick
  <2> DEFINE a == resource[t].address
  <2>1. /\ resource'[t] = [resource[t] EXCEPT !.due = Less(@)]
        /\ UNCHANGED <<slot, incident, call, shown>>
        /\ a \in Address => cached'[t][a] = Less(cached[t][a])
    BY <1>6 DEF Tick
  <2>2. /\ resource'[t].address = a /\ resource'[t].status = resource[t].status
        /\ resource'[t].due = Less(resource[t].due)
    BY <1>0, <2>1 DEF ResourceRow
  <2>3. /\ a \in Known /\ resource[t].due \in Nat
        /\ a \in Address => cached[t][a] \in Nat
    <3>1. resource[t].due \in 0 .. Ttl + Grace /\ a \in Known
      BY <1>0 DEF ResourceRow
    <3>2. a \in Address => cached[t][a] \in 0 .. Ttl
      BY <1>0
    <3>3. QED BY <3>1, <3>2, Numbers
  <2>4. incident[t] = "cleanup" \/ call[t] = "sent" => a \in Address
    BY <2>3 DEF OldIsOld, Known
  <2>5. \A c, d \in Nat : c <= d => Less(c) <= Less(d)
    BY DEF Less
  <2>6. Less(0) = 0
    BY DEF Less
  <2> HIDE DEF a
  <2>7. QED
    <3>1. /\ incident[t] = "cleanup" /\ resource[t].status \in {"pending", "failed"} =>
               a < slot[t].address /\ shown[t] # a /\ cached[t][a] <= resource[t].due
          /\ call[t] = "sent" => shown[t] # a /\ ~(cached[t][a] > 0)
      BY <1>1 DEF Waits, InUse, a
    <3>2. incident[t] = "cleanup" /\ resource[t].status \in {"pending", "failed"} =>
            cached'[t][a] <= resource'[t].due
      BY <2>1, <2>2, <2>3, <2>4, <2>5, <3>1
    <3>3. call[t] = "sent" => ~(cached'[t][a] > 0)
      BY <2>1, <2>3, <2>4, <2>6, <3>1
    <3>4. QED BY <2>1, <2>2, <3>1, <3>2, <3>3 DEF Waits, InUse
<1>7. ASSUME NEW s \in Endpoint,
             \/ Rotate(s) \/ GiveUp(s) \/ NotApplied(s) \/ Terminate(s) \/ Publisher(s) \/ Cleaner(s)
      PROVE  Waits(t)'
  <2>1. CASE t # s
    <3>1. incident'[t] = incident[t] /\ resource'[t] = resource[t] /\ call'[t] = call[t]
      BY <1>0, <1>7, <2>1
        DEF Rotate, GiveUp, NotApplied, Terminate, Publisher, Reverify, Admit, Promote, Repoint, Apply,
            Retry, Cleaner, Dispatch, Release, Receipt, Complete, pool, dns, cloud
    <3>2. QED BY <1>3, <3>1
  <2>2. CASE t = s
    <3>1. CASE Rotate(s)
      <4>1. call'[t] = "none" /\ incident'[t] = "publish"
        BY <1>0, <2>2, <3>1 DEF Rotate
      <4>2. QED BY <4>1 DEF Waits
    <3>2. CASE Terminate(s)
      <4>1. /\ incident'[t] = "none" /\ UNCHANGED <<call, shown, cached>>
            /\ resource'[t].address = resource[t].address
        BY <1>0, <2>2, <3>2 DEF Terminate, dns, ResourceRow
      <4>2. QED BY <1>1, <4>1 DEF Waits, InUse
    <3>3. CASE Complete(s)
      <4>1. incident'[t] = "none" /\ UNCHANGED <<resource, call>>
        BY <1>0, <2>2, <3>3 DEF Complete
      <4>2. QED BY <1>1, <4>1, WaitsKept
    <3>4. CASE Release(s)
      <4>1. call'[t] = "made" /\ UNCHANGED <<resource, incident>>
        BY <1>0, <2>2, <3>4 DEF Release
      <4>2. QED BY <1>1, <4>1, WaitsKept
    <3>5. CASE Receipt(s)
      <4>1. call'[t] = "none" /\ resource'[t].status = "released"
        BY <1>0, <2>2, <3>5 DEF Receipt, ResourceRow
      <4>2. QED BY <4>1 DEF Waits
    <3>6. CASE NotApplied(s)
      <4>1. /\ call[t] = "sent" /\ call'[t] = "none"
            /\ resource'[t] = [resource[t] EXCEPT !.status = "failed", !.due = Grace]
            /\ UNCHANGED <<slot, shown, cached>>
        BY <1>0, <2>2, <3>6 DEF NotApplied, Postponed, dns
      <4>2. /\ resource'[t].address = resource[t].address /\ resource'[t].due = Grace
        BY <1>0, <4>1 DEF ResourceRow
      <4>3. /\ resource[t].address < slot[t].address /\ ~InUse(t, resource[t].address)
            /\ resource[t].address \in Address
        BY <1>0, <1>1, <4>1 DEF OldIsOld, Waits, ResourceRow, Known
      <4>4. cached[t][resource[t].address] \in 0 .. Ttl /\ Ttl \in Nat /\ Grace \in Nat
        <5>1. cached[t][resource[t].address] \in 0 .. Ttl
          BY <1>0, <4>3
        <5>2. QED BY <5>1, Numbers
      <4>5. QED BY <4>1, <4>2, <4>3, <4>4 DEF Waits, InUse
    <3>7. CASE Dispatch(s)
      <4>1. /\ incident[t] = "cleanup" /\ resource[t].status \in {"pending", "failed"}
            /\ resource[t].due = 0
            /\ UNCHANGED <<slot, incident, resource, shown, cached>>
        BY <2>2, <3>7 DEF Dispatch, Eligible, dns
      <4>2. resource[t].address \in Address
        BY <1>0, <4>1 DEF OldIsOld, ResourceRow, Known
      <4>3. cached[t][resource[t].address] \in 0 .. Ttl /\ Ttl \in Nat
        <5>1. cached[t][resource[t].address] \in 0 .. Ttl
          BY <1>0, <4>2
        <5>2. QED BY <5>1, Numbers
      <4>4. QED BY <1>1, <4>1, <4>3 DEF Waits, InUse
    <3>8. ASSUME NEW releasable \in BOOLEAN, Apply(s, releasable) PROVE Waits(t)'
      <4>1. CASE incident[s] # "publish" \/ UNCHANGED resource
        <5>1. CASE incident[s] # "publish"
          BY <1>2, <3>8, <5>1 DEF Apply
        <5>2. CASE incident[s] = "publish" /\ UNCHANGED resource
          <6>1. resource'[t].status = "retained" /\ call'[t] = "none"
            BY <2>2, <3>8, <5>2 DEF Apply, OldIsOld
          <6>2. QED BY <6>1 DEF Waits
        <5>3. QED BY <4>1, <5>1, <5>2
      <4>2. CASE incident[s] = "publish" /\ ~UNCHANGED resource
        <5>1. /\ Decided(s) /\ Published /\ resource[s].address # slot[s].address
              /\ resource' = [resource EXCEPT ![s].status = "pending", ![s].due = Due]
              /\ UNCHANGED <<slot, call, shown, cached>>
          BY <3>8, <4>2 DEF Apply, dns
        <5>2. /\ resource'[t].address = resource[t].address /\ resource'[t].due = Due
          BY <1>0, <2>2, <5>1 DEF ResourceRow
        <5>3. /\ call[t] = "none" /\ resource[t].address # NoAddress
              /\ resource[t].address <= slot[t].address
          BY <2>2, <4>2 DEF OldIsOld
        <5>4. resource[t].address \in Address /\ resource[t].address \in Nat
          BY <1>0, <5>3, Numbers DEF ResourceRow, Known
        <5>5. resource[t].address < slot[t].address
          <6>1. resource[t].address # slot[t].address
            BY <2>2, <5>1
          <6>2. slot[t].address \in Nat
            BY <1>0
          <6>3. QED BY <5>3, <5>4, <6>1, <6>2
        <5>6. shown[t] # resource[t].address
          BY <1>1, <2>2, <5>1, <5>3, AppliedIsCurrent
        <5>7. cached[t][resource[t].address] <= Due
          <6>1. cached[t][resource[t].address] \in 0 .. Ttl
            BY <1>0, <5>4
          <6>2. QED BY <6>1, Numbers DEF Due
        <5>8. QED BY <5>1, <5>2, <5>3, <5>5, <5>6, <5>7 DEF Waits
      <4>3. QED BY <4>1, <4>2
    <3>9. CASE \/ GiveUp(s) \/ Reverify(s) \/ Admit(s) \/ Promote(s) \/ Repoint(s)
               \/ \E op \in ops : Retry(s, op)
      BY <1>2, <3>9 DEF GiveUp, Reverify, Admit, Promote, Repoint, Retry, cloud
    <3>10. QED
      BY <1>7, <3>1, <3>2, <3>3, <3>4, <3>5, <3>6, <3>7, <3>8, <3>9 DEF Publisher, Cleaner
  <2>3. QED BY <2>1, <2>2
<1>8. QED BY <1>4, <1>5, <1>6, <1>7 DEF Next

LEMMA RestStep ==
  ASSUME TypeOK, OldIsOld, ReleasesWait, OldAddressesRest, [Next]_vars PROVE OldAddressesRest'
<1> SUFFICES ASSUME NEW t \in Endpoint \ (missed' \cup stray'), NEW a \in released'[t]
             PROVE  ~InUse(t, a)'
  BY DEF OldAddressesRest
<1>0. /\ released \in [Endpoint -> SUBSET Address] /\ call \in [Endpoint -> {"none", "sent", "made"}]
      /\ t \in Endpoint \ (missed \cup stray)
  BY RecordsMove DEF TypeOK
<1>1. a \in released[t] \/ (call[t] = "sent" /\ a = resource[t].address)
  <2>1. CASE UNCHANGED released
    BY <2>1
  <2>2. CASE UNCHANGED vars \/ Pool \/ Worker \/ Executor \/ Tick
    BY <2>1, <2>2, PoolKeepsCloud DEF Tick, cloud, vars
  <2>3. ASSUME NEW s \in Endpoint,
               \/ Rotate(s) \/ GiveUp(s) \/ NotApplied(s) \/ Terminate(s) \/ Publisher(s) \/ Cleaner(s)
        PROVE  a \in released[t] \/ (call[t] = "sent" /\ a = resource[t].address)
    <3>1. CASE Release(s)
      BY <1>0, <3>1 DEF Release
    <3>2. CASE ~Release(s)
      BY <2>1, <2>3, <3>2
        DEF Rotate, GiveUp, NotApplied, Terminate, Publisher, Reverify, Admit, Promote, Repoint,
            Apply, Retry, Cleaner, Dispatch, Receipt, Complete, cloud
    <3>3. QED BY <3>1, <3>2
  <2>4. QED BY <2>2, <2>3 DEF Next
<1>2. a \in Address /\ a < slot[t].address /\ ~InUse(t, a)
  <2>1. CASE a \in released[t]
    BY <1>0, <2>1 DEF OldIsOld, OldAddressesRest
  <2>2. CASE call[t] = "sent" /\ a = resource[t].address
    <3>1. resource[t].address \in Known
      BY DEF TypeOK, ResourceRow
    <3>2. QED BY <1>0, <2>2, <3>1 DEF OldIsOld, ReleasesWait, Waits, Known
  <2>3. QED BY <1>1, <2>1, <2>2
<1>3. /\ shown'[t] # a /\ cached'[t][a] <= cached[t][a]
      /\ cached[t][a] \in 0 .. Ttl /\ cached'[t][a] \in Nat /\ ~(cached[t][a] > 0)
  BY <1>2, UseStep DEF InUse
<1>4. ~(cached'[t][a] > 0)
  <2>1. Ttl \in Nat
    BY Numbers
  <2>2. QED BY <1>3, <2>1
<1>5. QED BY <1>3, <1>4 DEF InUse

-----------------------------------------------------------------------------

\* The inductive invariant, for any number of slots, addresses and events, any
\* recovery mode, and any times to live and of grace.
THEOREM PublicationInvariant == Spec => []IInv
<1>1. Init => IInv
  <2> SUFFICES ASSUME Init PROVE IInv
    OBVIOUS
  <2>1. TypeOK
    BY InitType
  <2>2. CandidateIsNext /\ RecordsFollow /\ OldIsOld
    BY DEF Init, CandidateIsNext, RecordsFollow, OldIsOld, NoAddress
  <2>3. EndedIsDone /\ OpenIsFresh /\ DecisionsCover
    BY DEF Init, EndedIsDone, OpenIsFresh, DecisionsCover, Outdated, Applied
  <2>4. ReleasesWait /\ OldAddressesRest
    BY DEF Init, ReleasesWait, Waits, OldAddressesRest
  <2>5. QED BY <2>1, <2>2, <2>3, <2>4 DEF IInv
<1>2. IInv /\ [Next]_vars => IInv'
  BY TypeStep, CandidateStep, RecordsStep, OpsStep, OldStep, ReleasesStep, RestStep DEF IInv
<1>3. QED BY <1>1, <1>2, PTL DEF Spec

\* For any number of slots that rotate in one pool, no old address is given back
\* while a record shows it or a resolver may hold it, whatever decisions, failures
\* and terminations come in between (observe of rotation-publication.service.ts,
\* eligible of rotation-cleanup.service.ts).
THEOREM OldAddressesRestAlways == Spec => []OldAddressesRest
BY PublicationInvariant, PTL DEF IInv

\* For any number of slots, what a publisher has seen before a termination does not
\* promote the candidate after it (publishSlot of rotation-publication.service.ts).
THEOREM TerminatedIsNotPromotedAlways == Spec => TerminatedIsNotPromoted
<1>1. IInv /\ [Next]_vars =>
        [\A s \in Endpoint : slot[s].fenced => slot'[s].address = slot[s].address]_vars
  BY SlotStep DEF IInv, Promoted, MayPromote
<1>2. QED BY <1>1, PublicationInvariant, PTL DEF Spec, TerminatedIsNotPromoted
=============================================================================
