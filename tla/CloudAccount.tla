---------------------------- MODULE CloudAccount ----------------------------
(***************************************************************************)
(* What the rotations of one Lightsail account and the cleanup of its idle *)
(* static addresses do to each other.                                      *)
(*                                                                         *)
(* A rotation gives a slot a new static address: it allocates one, detaches*)
(* the old one, attaches the new one, and once that is published releases  *)
(* the old one.  The owner of the account may have every address released  *)
(* that is attached to nothing, which is also what an address looks like   *)
(* that a rotation has just allocated.  Both write through one admission,  *)
(* packages/db/src/cloud-rotation-limits.ts, that counts the writes of the *)
(* account, promises a rotation the writes it still needs, and lets no     *)
(* rotation write while an idle address is being released.                 *)
(*                                                                         *)
(* Every action is a transaction of the service, a call that reaches the   *)
(* cloud, an answer, or the passing of time.  The hour and the day of the  *)
(* cloud's quota are one window, the rates per second are left out (they   *)
(* only delay), and so are the retry times: what is refused asks again.    *)
(***************************************************************************)
EXTENDS Naturals, FiniteSets

CONSTANTS Slot,          \* address slots, each of an instance of its own
          Capacity,      \* the writes that the window admits
          MaxAttempts,   \* bound: attempts of a slot
          MaxReleases,   \* bound: releases in the window
          MaxDispatch,   \* bound: releases of one idle address that are sent
          MaxCalls,      \* bound: requests of the cleanup that are under way
          MaxBatches     \* bound: previews of the cleanup

\* An attempt names the address it allocates; number 0 is the address that the
\* slot has at first.  The addresses that no rotation has to do with are those
\* that a rotation which was terminated has left.
Ip == Slot \X (0 .. MaxAttempts)

ASSUME AccountAssumption ==
  /\ {Capacity, MaxAttempts, MaxReleases, MaxDispatch, MaxCalls, MaxBatches} \subseteq Nat
  /\ IsFiniteSet(Slot)

VARIABLES
  place,    \* where the cloud has each address
  rot,      \* the latest incident of each slot
  budget,   \* the rows of the limits: buckets and reservations
  batch,    \* the cleanup: which previews there were, and its confirmation
  item,     \* its items, by address
  call      \* the requests of the cleanup that are under way

vars == <<place, rot, budget, batch, item, call>>

Place == {"none", "idle", "attached"}

\* The steps of an attempt, and the release that follows its publication.
Allocate == 1
Detach == 2
Attach == 3
Release == 4

\* left: the numbers of the addresses that the cleanup of the incident releases.
\* "sent", "made" and "lost" are one status of the service, in_flight: the call
\* is on its way, has had its effect, or never will.  "back": not_applied or
\* rejected_no_effect.
Row == [stage : {"over", "cloud", "candidate", "cleanup"}, attempt : 0 .. MaxAttempts,
        step : Allocate .. Release, status : {"prepared", "sent", "made", "lost", "back"},
        left : SUBSET (0 .. MaxAttempts)]

\* The rows of reservations are those not consumed, <<slot, attempt, step>>.
Booking == Slot \X (0 .. MaxAttempts) \X {Detach, Attach}

Settled == {"released", "missing", "skipped", "failed"}
Item == [st : {"none", "ready", "waiting", "in_flight", "pending"} \cup Settled,
         dispatch : 0 .. MaxDispatch]
NoItem == [st |-> "none", dispatch |-> 0]

\* A request of the cleanup: "check" and "send" are the two calls of a release,
\* "look" is an observation, and the others are answers.
Answer == {"released", "pending", "throttled", "missing", "skipped", "failed"}
Call == [ip : Ip, dispatch : 0 .. MaxDispatch, observe : BOOLEAN,
         at : {"check", "send", "look"} \cup Answer]

TypeOK ==
  /\ place \in [Ip -> Place]
  /\ rot \in [Slot -> Row]
  /\ budget \in [writes : Nat, releases : 0 .. MaxReleases, cooling : BOOLEAN,
                 booked : SUBSET Booking]
  /\ batch \in [state : {"none", "listed", "preview", "confirmed"}, listed : SUBSET Ip,
                number : 0 .. MaxBatches]
  /\ item \in [Ip -> Item]
  /\ call \subseteq Call

\* A slot is at rest, or waits for the verification of the static address that
\* replaced a dynamic one, of which nothing is to be released.
Init ==
  /\ place = [x \in Ip |-> IF x[2] = 0 THEN "attached" ELSE "none"]
  /\ \E stage \in [Slot -> {"over", "candidate"}] :
       rot = [s \in Slot |-> [stage |-> stage[s], attempt |-> 0, step |-> Attach, status |-> "prepared", left |-> {}]]
  /\ budget = [writes |-> 0, releases |-> 0, cooling |-> FALSE, booked |-> {}]
  /\ \E n \in 0 .. MaxBatches : batch = [state |-> "none", listed |-> {}, number |-> n]
  /\ item = [x \in Ip |-> NoItem]
  /\ call = {}

-----------------------------------------------------------------------------
(* What the tables say.                                                     *)

InFlight(s) == rot[s].status \in {"sent", "made", "lost"}
Unfinished(s) == rot[s].stage # "over"
Candidate(s) == <<s, rot[s].attempt>>
Numbers(s) == {n \in 0 .. MaxAttempts : place[<<s, n>>] = "attached"}

\* The address that a release of the cleanup is about.
Oldest(s) == CHOOSE n \in rot[s].left : \A m \in rot[s].left : n <= m

\* Mutant of Counts: items that wait keep the rotations out as well.
CountsWaiting(st) == st \in {"waiting", "in_flight", "pending"}

Counts(st) == st \in {"in_flight", "pending"}

\* idleIpReleaseInProgress.
CleanupUnderWay == \E x \in Ip : Counts(item[x].st)

\* pendingReservations: those of the current attempt of an unfinished incident.
Pending == {b \in budget.booked : Unfinished(b[1]) /\ b[2] = rot[b[1]].attempt}

\* Mutant of Used: what was promised to others is not counted.
UsedNow == budget.writes + budget.releases

Used == budget.writes + budget.releases + Cardinality(Pending)

\* Mutant of Remaining: what is behind the step instead of what is ahead.
RemainingBehind(s) == {n \in {Detach, Attach} : n < rot[s].step}

\* The steps that the first dispatch of an attempt pays for together with itself.
Remaining(s) == {n \in {Detach, Attach} : n > rot[s].step}

NewBookings(s) ==
  {<<s, rot[s].attempt, n>> : n \in Remaining(s)} \ budget.booked

Booked(s) == <<s, rot[s].attempt, rot[s].step>> \in Pending

\* reserveCloudRotationWrite for a step of a rotation.
WindowAdmits(s) ==
  LET required == (IF Booked(s) THEN 0 ELSE 1) + Cardinality(NewBookings(s))
  IN required = 0 \/ Used + required <= Capacity

Admits(s) == ~CleanupUnderWay /\ ~budget.cooling /\ (rot[s].step = Release \/ WindowAdmits(s))

\* unresolvedRotationProtectsIdleIp: the address that an unanswered step
\* allocates, attaches or releases, known by its name before any answer.
UnresolvedProtects(s, x) ==
  /\ InFlight(s)
  /\ \/ rot[s].step \in {Allocate, Detach, Attach} /\ x = Candidate(s)
     \/ rot[s].step = Release /\ x = <<s, Oldest(s)>>

\* protected: the first query, for the candidate that the current attempt of an
\* unfinished incident has recorded.
CandidateProtects(s, x) ==
  Unfinished(s) /\ rot[s].step > Allocate /\ x = Candidate(s)

\* Mutant of InUse: only what has been recorded is protected.
RecordedInUse(x) == \E s \in Slot : CandidateProtects(s, x)

InUse(x) == \E s \in Slot : CandidateProtects(s, x) \/ UnresolvedProtects(s, x)

-----------------------------------------------------------------------------
(* Rotations.                                                               *)

\* An incident and its first attempt, for the address that the slot has.
Begin(s) ==
  /\ ~Unfinished(s) /\ ~InFlight(s)
  /\ rot[s].attempt < MaxAttempts
  /\ \E n \in Numbers(s) :
       rot' = [rot EXCEPT ![s] = [stage |-> "cloud", attempt |-> rot[s].attempt + 1, step |-> Allocate,
                                  status |-> "prepared", left |-> {n}]]
  /\ UNCHANGED <<place, budget, batch, item, call>>

\* The candidate was not found healthy: another attempt of the same incident.
NextAttempt(s) ==
  /\ rot[s].stage = "candidate"
  /\ rot[s].attempt < MaxAttempts
  /\ rot' = [rot EXCEPT ![s] = [stage |-> "cloud", attempt |-> rot[s].attempt + 1, step |-> Allocate,
                                status |-> "prepared", left |-> rot[s].left \cup {rot[s].attempt}]]
  /\ UNCHANGED <<place, budget, batch, item, call>>

\* The candidate was published; the addresses before it are released.
Publish(s) ==
  /\ rot[s].stage = "candidate"
  /\ rot' = [rot EXCEPT ![s].stage = "cleanup", ![s].step = Release, ![s].status = "prepared"]
  /\ UNCHANGED <<place, budget, batch, item, call>>

\* terminateRotationIncident: an unanswered step stays with the instance.
Terminate(s) ==
  /\ Unfinished(s)
  /\ rot' = [rot EXCEPT ![s].stage = "over"]
  /\ budget' = [budget EXCEPT !.booked = {b \in @ : b[1] # s}]
  /\ UNCHANGED <<place, batch, item, call>>

\* RotationStore.dispatch, and the dispatch of the cleanup: the step and what it
\* costs are written together.  Releases are counted but not refused by the
\* window.  An attached address is not released ("cleanup_resource_attached").
Dispatch(s) ==
  /\ rot[s].stage \in {"cloud", "cleanup"}
  /\ rot[s].status \in {"prepared", "back"}
  /\ rot[s].step = Release => rot[s].left # {} /\ place[<<s, Oldest(s)>>] # "attached"
  /\ Admits(s)
  /\ rot' = [rot EXCEPT ![s].status = "sent"]
  /\ IF rot[s].step = Release
       THEN /\ budget.releases < MaxReleases
            /\ budget' = [budget EXCEPT !.releases = @ + 1]
       ELSE budget' = [budget EXCEPT !.writes = @ + 1,
                         !.booked = (@ \cup NewBookings(s)) \ {<<s, rot[s].attempt, rot[s].step>>}]
  /\ UNCHANGED <<place, batch, item, call>>

\* The effect of the step of s, where the cloud can bring it about.
Effect(s) ==
  LET to(x, p) == place' = [place EXCEPT ![x] = p]
      c == Candidate(s)
  IN CASE rot[s].step = Allocate -> place[c] = "none" /\ to(c, "idle")
       [] rot[s].step = Detach   -> \E n \in Numbers(s) : to(<<s, n>>, "idle")
       [] rot[s].step = Attach   -> place[c] = "idle" /\ Numbers(s) = {} /\ to(c, "attached")
       [] rot[s].step = Release  -> place[<<s, Oldest(s)>>] # "attached" /\ to(<<s, Oldest(s)>>, "none")

CloudActs(s) ==
  /\ rot[s].status = "sent"
  /\ \/ Effect(s) /\ rot' = [rot EXCEPT ![s].status = "made"]
     \/ rot' = [rot EXCEPT ![s].status = "lost"] /\ UNCHANGED place
  /\ UNCHANGED <<budget, batch, item, call>>

\* A write that the cloud refuses for its rate, recordCloudRotationThrottle: the
\* step goes back, and every write of the account pauses.
Throttled(s) ==
  /\ rot[s].status = "sent" /\ Unfinished(s)
  /\ rot' = [rot EXCEPT ![s].status = "back"]
  /\ budget' = [budget EXCEPT !.cooling = TRUE]
  /\ UNCHANGED <<place, batch, item, call>>

\* The row after a step that has had its effect.
Done(s) ==
  IF rot[s].step = Attach THEN [rot[s] EXCEPT !.stage = "candidate", !.status = "prepared"]
  ELSE IF rot[s].step # Release THEN [rot[s] EXCEPT !.step = @ + 1, !.status = "prepared"]
  ELSE [rot[s] EXCEPT !.left = @ \ {Oldest(s)}, !.status = "prepared"]

\* An observation that says what became of the step.  An answer after the end of
\* the incident is history.
Observe(s) ==
  /\ Unfinished(s)
  /\ \/ rot[s].status = "lost" /\ rot' = [rot EXCEPT ![s].status = "back"]
     \/ rot[s].status = "made" /\ rot' = [rot EXCEPT ![s] = Done(s)]
  /\ UNCHANGED <<place, budget, batch, item, call>>

Complete(s) ==
  /\ rot[s].stage = "cleanup" /\ rot[s].left = {}
  /\ rot' = [rot EXCEPT ![s].stage = "over"]
  /\ UNCHANGED <<place, budget, batch, item, call>>

-----------------------------------------------------------------------------
(* The cleanup of idle addresses.                                           *)

\* preview reads the addresses from the cloud ...
List ==
  /\ batch.number < MaxBatches
  /\ \A x \in Ip : item[x].st \notin {"waiting", "in_flight", "pending"}
  /\ batch' = [state |-> "listed", listed |-> {x \in Ip : place[x] = "idle"}, number |-> batch.number + 1]
  /\ item' = [x \in Ip |-> NoItem]
  /\ UNCHANGED <<place, rot, budget, call>>

\* ... and then, in one transaction, what of it may be released.
Preview ==
  /\ batch.state = "listed"
  /\ batch' = [batch EXCEPT !.state = "preview", !.listed = {}]
  /\ item' = [x \in Ip |->
       IF x \notin batch.listed THEN NoItem
       ELSE [st |-> IF InUse(x) \/ CleanupUnderWay THEN "skipped" ELSE "ready", dispatch |-> 0]]
  /\ UNCHANGED <<place, rot, budget, call>>

Confirm ==
  /\ batch.state = "preview"
  /\ batch' = [batch EXCEPT !.state = "confirmed"]
  /\ UNCHANGED <<place, rot, budget, item, call>>

\* execute, for an item whose release was sent: it is only looked at.
ClaimLook(x) ==
  /\ batch.state = "confirmed" /\ item[x].st \in {"in_flight", "pending"}
  /\ Cardinality(call) < MaxCalls
  /\ call' = call \cup {[ip |-> x, dispatch |-> item[x].dispatch, observe |-> TRUE, at |-> "look"]}
  /\ UNCHANGED <<place, rot, budget, batch, item>>

\* execute, for an item that is to be released: one transaction decides and, if
\* it admits the release, writes it down before it is sent.
ClaimRelease(x) ==
  /\ batch.state = "confirmed" /\ item[x].st \in {"ready", "waiting"}
  /\ \/ /\ InUse(x)
        /\ item' = [item EXCEPT ![x].st = "skipped"]
        /\ UNCHANGED <<budget, call>>
     \/ /\ ~InUse(x) /\ (CleanupUnderWay \/ budget.cooling)
        /\ item' = [item EXCEPT ![x].st = "waiting"]
        /\ UNCHANGED <<budget, call>>
     \/ /\ ~InUse(x) /\ ~CleanupUnderWay /\ ~budget.cooling
        /\ item[x].dispatch < MaxDispatch /\ budget.releases < MaxReleases
        /\ Cardinality(call) < MaxCalls
        /\ item' = [item EXCEPT ![x] = [st |-> "in_flight", dispatch |-> @.dispatch + 1]]
        /\ budget' = [budget EXCEPT !.releases = @ + 1]
        /\ call' = call \cup {[ip |-> x, dispatch |-> item[x].dispatch + 1, observe |-> FALSE, at |-> "check"]}
  /\ UNCHANGED <<place, rot, batch>>

Goes(c, at) == call' = (call \ {c}) \cup {[c EXCEPT !.at = at]}

\* releaseIdleStaticIp looks at the address before it releases it.
Check(c) ==
  /\ c.at = "check"
  /\ Goes(c, CASE place[c.ip] = "none" -> "missing" [] place[c.ip] = "attached" -> "skipped"
               [] OTHER -> "send")
  /\ UNCHANGED <<place, rot, budget, batch, item>>

CheckFails(c) ==
  /\ c.at = "check"
  /\ Goes(c, "failed")
  /\ UNCHANGED <<place, rot, budget, batch, item>>

\* The release: it happens, and that is seen or not; or it does not happen, and
\* the cloud says so, for its rate or for another reason, or not.
Send(c) ==
  /\ c.at = "send"
  /\ \/ /\ place[c.ip] = "idle"
        /\ place' = [place EXCEPT ![c.ip] = "none"]
        /\ \E a \in {"released", "pending"} : Goes(c, a)
     \/ /\ \E a \in {"pending", "throttled", "failed"} : Goes(c, a)
        /\ UNCHANGED place
  /\ UNCHANGED <<rot, budget, batch, item>>

\* observeIdleStaticIp; an observation that fails says nothing.
Look(c) ==
  /\ c.at = "look"
  /\ \E seen \in BOOLEAN :
       Goes(c, IF ~seen THEN "pending"
               ELSE CASE place[c.ip] = "none" -> "released" [] place[c.ip] = "attached" -> "skipped"
                      [] OTHER -> "pending")
  /\ UNCHANGED <<place, rot, budget, batch, item>>

\* The answers that the last transaction ignores.
Obsolete(c) ==
  \/ item[c.ip].st \in Settled \cup {"none"}
  \/ item[c.ip].dispatch # c.dispatch
  \/ c.observe /\ item[c.ip].st = "waiting"

Save(c) ==
  /\ c.at \in Answer
  /\ call' = call \ {c}
  /\ budget' = [budget EXCEPT !.cooling = @ \/ c.at = "throttled"]
  /\ item' = IF Obsolete(c) THEN item
             ELSE [item EXCEPT ![c.ip].st = IF c.at = "throttled" THEN "waiting" ELSE c.at]
  /\ UNCHANGED <<place, rot, batch>>

\* The process that serves the request stops.
Dies(c) ==
  /\ call' = call \ {c}
  /\ UNCHANGED <<place, rot, budget, batch, item>>

-----------------------------------------------------------------------------
(* Time.                                                                    *)

\* A write leaves the window.
Expire ==
  /\ \/ budget.writes > 0 /\ budget' = [budget EXCEPT !.writes = @ - 1]
     \/ budget.releases > 0 /\ budget' = [budget EXCEPT !.releases = @ - 1]
  /\ UNCHANGED <<place, rot, batch, item, call>>

CooledDown ==
  /\ budget.cooling
  /\ budget' = [budget EXCEPT !.cooling = FALSE]
  /\ UNCHANGED <<place, rot, batch, item, call>>

Next ==
  \/ \E s \in Slot : \/ Begin(s) \/ NextAttempt(s) \/ Publish(s) \/ Terminate(s) \/ Complete(s)
                     \/ Dispatch(s) \/ CloudActs(s) \/ Throttled(s) \/ Observe(s)
  \/ List \/ Preview \/ Confirm
  \/ \E x \in Ip : ClaimLook(x) \/ ClaimRelease(x)
  \/ \E c \in call : Check(c) \/ CheckFails(c) \/ Send(c) \/ Look(c) \/ Save(c) \/ Dies(c)
  \/ Expire \/ CooledDown

\* The worker looks at every incident again and again, the cloud does not refuse
\* or lose a write for ever, requests end, and time passes.
Fairness ==
  /\ \A s \in Slot : /\ SF_vars(Dispatch(s)) /\ WF_vars(CloudActs(s)) /\ WF_vars(Observe(s))
                     /\ SF_vars(CloudActs(s) /\ rot'[s].status = "made")
  /\ WF_vars(\E c \in call : ~c.observe /\ (Check(c) \/ Send(c) \/ Save(c)))
  /\ WF_vars(\E c \in call : c.observe /\ (Look(c) \/ Save(c)))
  /\ WF_vars(Expire) /\ WF_vars(CooledDown)

Spec == Init /\ [][Next]_vars /\ Fairness

-----------------------------------------------------------------------------

\* The window is never spent beyond its capacity by rotations: what they wrote
\* and what was promised to those under way fit into it, whatever was released,
\* terminated or begun again meanwhile.
WindowHolds == budget.writes + Cardinality(Pending) <= Capacity

\* Between the call that takes the address from the instance and the first call
\* that gives it the new one.
Detaches(s) ==
  /\ rot[s].stage = "cloud"
  /\ \/ rot[s].step = Attach /\ rot[s].status = "prepared"
     \/ rot[s].step = Detach /\ InFlight(s)

\* A rotation that has been allowed to take the address from its instance does
\* not wait for quota to give it the new one: until its attachment is first sent,
\* the write is promised to it (cloud-rotation-limits.ts:69).
AttachIsPaid ==
  \A s \in Slot : Detaches(s) => <<s, rot[s].attempt, Attach>> \in Pending

\* The address that a rotation is about to attach is not taken from it by the
\* cleanup, which sees it attached to nothing, neither while the answer of the
\* allocation is awaited nor after it.
CandidateIsKept ==
  \A s \in Slot :
    Unfinished(s) /\ (rot[s].step > Allocate \/ rot[s].status = "made") => place[Candidate(s)] # "none"

\* A release whose request ended without an outcome: it holds up the rotations of
\* the region until the owner looks at it again, and if it never reached the
\* cloud until the address is released by other means.
Forsaken ==
  \E x \in Ip : item[x].st \in {"in_flight", "pending"} /\ ~\E c \in call : c.ip = x /\ ~c.observe

\* An instance whose address was detached gets its new one, unless the rotation
\* is terminated or a release of the cleanup is forsaken.
SwapsEnd ==
  \A s \in Slot :
    (rot[s].stage = "cloud" /\ rot[s].step = Attach)
      ~> (rot[s].stage # "cloud" \/ Forsaken)

=============================================================================
