------------------------------- MODULE Probes -------------------------------
(***************************************************************************)
(* The health of one address family of a DDNS endpoint: the addresses its  *)
(* agent reports (ddns.service.ts), the rounds in which remote probes and  *)
(* the worker vote on them (probe-scheduler.service.ts, probe-rounds.ts,   *)
(* probe-leases.service.ts, probe-results.service.ts, probe-consensus.ts,  *)
(* probe-health.service.ts), the local checks of endpoints without remote  *)
(* probes (health.processor.ts), and what both do to the endpoint and its  *)
(* pool (health-result.service.ts).                                        *)
(*                                                                         *)
(* A clock is not modelled: a round is before or past its deadline, and    *)
(* that evidence is out of date is found, or not, by whoever looks.  A     *)
(* result "unavailable" votes as much as no result does.  Tokens of agents *)
(* are left out: who is revoked cannot call.                               *)
(***************************************************************************)
EXTENDS Integers, FiniteSets

CONSTANTS
  Probe,             \* remote probes
  Local,             \* the worker as a voter
  Value,             \* addresses that the agent of the endpoint may report
  NoValue,           \* that it has no address
  Consensus,         \* consensus of the health policy
  FirstMode,         \* mode of the policy that the endpoint begins with
  SuccessThreshold, FailureThreshold,
  MaxReports,        \* bound: addresses that are recorded
  MaxRounds,         \* bound: rounds of the endpoint
  MaxEvents          \* bound: edits of users

Mode == {"none", "local", "external", "mixed"}   \* "none": no health policy
Outcome == {"success", "failure"}

ASSUME ProbesAssumption ==
  /\ Local \notin Probe /\ IsFiniteSet(Probe) /\ NoValue \notin Value
  /\ Consensus \in [mode : {"any", "majority", "all", "at_least", "specified"},
                    minimumValid : Nat \ {0}, failureVotes : Nat \ {0},
                    specified : Probe \cup {Local}]
  /\ FirstMode \in Mode
  /\ {SuccessThreshold, FailureThreshold} \subseteq Nat \ {0}
  /\ {MaxReports, MaxRounds, MaxEvents} \subseteq Nat

Row == 1 .. MaxReports
Round == 1 .. MaxRounds
NoRow == 0

VARIABLES
  policy,     \* [mode, revision] of address_health_policies
  config,     \* counts changes of the health check that its endpoint is checked with
  group,      \* [members, revision] of the probe group
  active,     \* probes that are enabled and not revoked
  address,    \* endpoint_addresses, in the order they were reported
  evidence,   \* address_health_states, one for each address
  rounds,     \* probe_rounds with their tasks, by sequence
  checks,     \* local checks that are running
  told,       \* what the last reconcile intent could see of the endpoint
  events

users == <<policy, config, group, active>>
vars == <<users, address, evidence, rounds, checks, told, events>>

HealthState == {"unknown", "healthy", "degraded", "recovering", "unhealthy"}
Streak == [health : HealthState, good : 0 .. SuccessThreshold, bad : 0 .. FailureThreshold]
EpochSet == [policy : Nat, group : Nat]
Task == {"none", "pending", "leased", "stale"} \cup Outcome
AddressRow == [value : Value \cup {NoValue}, streak : Streak,
               role : {"none", "candidate", "current", "previous"}]
EvidenceRow == [epoch : EpochSet, streak : Streak, applied : 0 .. MaxRounds, live : BOOLEAN]
RoundRow == [row : Row \cup {NoRow}, epoch : EpochSet, cohort : SUBSET (Probe \cup {Local}),
             task : [Probe -> Task], local : Outcome \cup {"none"}, late : BOOLEAN,
             result : Outcome \cup {"unknown"},
             status : {"none", "pending", "completed", "superseded"}]

TypeOK ==
  /\ policy \in [mode : Mode, revision : Nat]
  /\ config \in Nat
  /\ group \in [members : SUBSET Probe, revision : Nat]
  /\ active \subseteq Probe
  /\ address \in [Row -> AddressRow]
  /\ evidence \in [Row -> EvidenceRow]
  /\ rounds \in [Round -> RoundRow]
  /\ checks \subseteq [row : Row, role : {"candidate", "current"}, config : Nat]
  /\ told \in [row : Row \cup {NoRow}, health : HealthState]
  /\ events \in 0 .. MaxEvents

Event == events < MaxEvents /\ events' = events + 1

-----------------------------------------------------------------------------
(* Consensus and streaks.                                                  *)

FailureVotes(n) ==
  CASE Consensus.mode = "any" -> 1
    [] Consensus.mode = "majority" -> (n \div 2) + 1
    [] Consensus.mode = "all" -> n
    [] OTHER -> Consensus.failureVotes

\* evaluateProbeRound.
Evaluate(cohort, vote) ==
  LET For(o) == {m \in cohort : vote[m] = o}
      failures == Cardinality(For("failure"))
      successes == Cardinality(For("success"))
      needed == FailureVotes(Cardinality(cohort))
  IN  IF failures + successes < Consensus.minimumValid THEN "unknown"
      ELSE IF Consensus.mode = "specified"
      THEN IF vote[Consensus.specified] \in Outcome THEN vote[Consensus.specified] ELSE "unknown"
      ELSE IF failures >= needed THEN "failure"
      ELSE IF successes > Cardinality(cohort) - needed THEN "success"
      ELSE "unknown"

NoStreak == [health |-> "unknown", good |-> 0, bad |-> 0]

\* The streaks are counted up to the thresholds they are compared with.
OneMore(n, threshold) == IF n < threshold THEN n + 1 ELSE n

\* applyHealthResult.
Succeed(s) ==
  LET good == OneMore(s.good, SuccessThreshold)
  IN  [health |-> IF s.health = "healthy" \/ good >= SuccessThreshold THEN "healthy"
                  ELSE IF s.health = "unhealthy" THEN "recovering" ELSE s.health,
       good |-> good, bad |-> 0]

Fail(s) ==
  LET bad == OneMore(s.bad, FailureThreshold)
  IN  [health |-> IF bad >= FailureThreshold \/ s.health \in {"unhealthy", "recovering"}
                  THEN "unhealthy"
                  ELSE IF s.health = "unknown" THEN "unknown" ELSE "degraded",
       good |-> 0, bad |-> bad]

\* Mutant of Advance: a round without a decision leaves the streak alone.
MutantAdvance(s, result) ==
  CASE result = "success" -> Succeed(s)
    [] result = "failure" -> Fail(s)
    [] OTHER -> s

\* advanceRoundHealth.
Advance(s, result) ==
  CASE result = "success" -> Succeed(s)
    [] result = "failure" -> Fail(s)
    [] OTHER -> [s EXCEPT !.good = 0, !.bad = 0]

-----------------------------------------------------------------------------
(* Addresses, and what the pool is told.                                   *)

In(role) == {a \in Row : address[a].role = role}
Targets == In("candidate") \cup In("current")
Reported == {a \in Row : address[a].role # "none"}

\* A reconcile intent is written with the change that it is about.
Tell(changed) ==
  told' = [row |-> IF \E a \in Row : changed[a].role = "current"
                   THEN CHOOSE a \in Row : changed[a].role = "current" ELSE NoRow,
           health |-> IF \E a \in Row : changed[a].role = "current"
                      THEN changed[CHOOSE a \in Row : changed[a].role = "current"].streak.health
                      ELSE "unknown"]

\* Mutant of Notable: who was not known to be healthy cannot fail.
MutantNotable(old, s) ==
  \/ s.health = "unhealthy" /\ old.health \in {"healthy", "degraded"}
  \/ s.health = "healthy" /\ old.health # "healthy"

\* The changes of a current address that its pool is to know.
Notable(old, s) == s.health \in {"unhealthy", "healthy"} /\ s.health # old.health

\* applyObserved: the new streak s of address a, which may end its candidacy.
\* The streak before it, of the same source, was old.
Settle(a, old, s, promotable) ==
  LET candidate == address[a].role = "candidate"
      promoted == candidate /\ s.health = "healthy" /\ promotable
      role(b) == IF b = a /\ promoted THEN "current"
                 ELSE IF promoted /\ address[b].role = "current" THEN "previous"
                 ELSE address[b].role
  IN  /\ address' = [b \in Row |->
           [address[b] EXCEPT !.streak = IF b = a THEN s ELSE @, !.role = role(b)]]
      /\ IF promoted \/ (~candidate /\ Notable(old, s))
         THEN Tell(address')
         ELSE UNCHANGED told

\* heartbeat of the DDNS agent: it has the address v, or none.
Heartbeat(v) ==
  LET kept == IF v = NoValue THEN {}
              ELSE {a \in In("current") : address[a].value = v}
      same == IF v = NoValue \/ kept # {} THEN {}
              ELSE {a \in In("candidate") : address[a].value = v}
      left == In("candidate") \ same
      gone == IF v = NoValue THEN In("current") ELSE {}
      next == Cardinality(Reported) + 1
      new == IF v = NoValue \/ kept \cup same # {} THEN {} ELSE {next}
  IN  /\ new \subseteq Row
      /\ left \cup gone \cup new # {}
      /\ address' = [a \in Row |->
           IF a \in new THEN [value |-> v, streak |-> NoStreak, role |-> "candidate"]
           ELSE IF a \in left \cup gone THEN [address[a] EXCEPT !.role = "previous"]
           ELSE address[a]]
      /\ IF gone # {} THEN Tell(address') ELSE UNCHANGED told
      /\ UNCHANGED <<users, evidence, rounds, checks, events>>

-----------------------------------------------------------------------------
(* Rounds.                                                                 *)

Remote == policy.mode \in {"external", "mixed"}

\* What evidence is bound to, besides its address.  The check of a policy never
\* changes: deleting it deletes the policy.
Epoch == [policy |-> policy.revision,
          group |-> IF Remote THEN group.revision ELSE 0]

CohortOf(mode) == group.members \cup IF mode = "mixed" THEN {Local} ELSE {}

\* createProbeRound and save refuse a consensus that the cohort cannot reach.
Reachable(cohort) ==
  /\ Consensus.minimumValid <= Cardinality(cohort)
  /\ Consensus.mode = "at_least" => Consensus.failureVotes <= Cardinality(cohort)
  /\ Consensus.mode = "specified" => Consensus.specified \in cohort

Pending(n) == rounds[n].status = "pending"
Last == Cardinality({n \in Round : rounds[n].status # "none"})

\* The rank of a target among those that get a round: the current one is first.
Place(a, T) == Last + 1 + Cardinality({b \in T \ {a} : address[b].role = "current"})

NewRound(a, online) ==
  [row |-> a, epoch |-> Epoch, cohort |-> CohortOf(policy.mode),
   task |-> [p \in Probe |-> IF p \in online THEN "pending" ELSE "none"],
   local |-> "none", late |-> FALSE, result |-> "unknown", status |-> "pending"]

\* The interval of a policy is no shorter than the window of its rounds.
MayBeDue(a) ==
  \A n \in Round : Pending(n) /\ rounds[n].row = a /\ rounds[n].epoch = Epoch => rounds[n].late

\* schedulePolicy for the targets T that are due; the evidence of some is out of date.
Schedule(T, online, lapsed) ==
  LET changed == {a \in Targets : evidence[a].epoch # Epoch}
  IN  /\ Remote /\ Reachable(CohortOf(policy.mode))
      /\ T # {} /\ changed \subseteq T /\ \A a \in T \ changed : MayBeDue(a)
      /\ Last + Cardinality(T) <= MaxRounds
      /\ lapsed \subseteq {a \in T \ changed : evidence[a].live}
      /\ evidence' = [a \in Row |->
           IF a \in T \cap changed
           THEN [evidence[a] EXCEPT !.epoch = Epoch, !.streak = NoStreak, !.live = FALSE]
           ELSE IF a \in lapsed
           THEN [evidence[a] EXCEPT !.streak.good = 0, !.streak.bad = 0, !.live = FALSE]
           ELSE evidence[a]]
      /\ rounds' = [n \in Round |->
           IF \E a \in T : n = Place(a, T)
           THEN NewRound(CHOOSE a \in T : n = Place(a, T), online)
           ELSE rounds[n]]
      /\ UNCHANGED <<users, address, checks, told, events>>

\* The deadline of the round passes.
Pass(n) ==
  /\ Pending(n) /\ ~rounds[n].late
  /\ rounds' = [rounds EXCEPT ![n].late = TRUE]
  /\ UNCHANGED <<users, address, evidence, checks, told, events>>

\* lockRoundState.
Fresh(n) ==
  /\ Remote /\ rounds[n].epoch = Epoch
  /\ rounds[n].row \in Targets
  /\ Pending(n) /\ ~rounds[n].late

\* lease: a probe fetches its task.
Lease(p, n) ==
  /\ p \in active /\ rounds[n].task[p] = "pending"
  /\ Pending(n) /\ ~rounds[n].late
  /\ rounds' = [rounds EXCEPT ![n].task[p] = IF Fresh(n) THEN "leased" ELSE "stale"]
  /\ UNCHANGED <<users, address, evidence, checks, told, events>>

\* accept: a probe reports; only its first report of a task counts.
Accept(p, n, outcome) ==
  /\ p \in active /\ rounds[n].task[p] = "leased"
  /\ rounds' = [rounds EXCEPT ![n].task[p] = IF Fresh(n) THEN outcome ELSE "stale"]
  /\ UNCHANGED <<users, address, evidence, checks, told, events>>

\* recordLocal, after the check that checkLocal makes.
RecordLocal(n, outcome) ==
  /\ Pending(n) /\ ~rounds[n].late /\ rounds[n].local = "none"
  /\ Local \in rounds[n].cohort
  /\ rounds' = [rounds EXCEPT ![n].local = outcome]
  /\ UNCHANGED <<users, address, evidence, checks, told, events>>

\* The votes of a round: those of probes revoked since do not count.
Votes(n) ==
  [m \in Probe \cup {Local} |->
     IF m = Local THEN rounds[n].local
     ELSE IF m \in active /\ rounds[n].task[m] \in Outcome THEN rounds[n].task[m]
     ELSE "none"]

\* Mutant of Current: the order of the rounds is not looked at.
MutantCurrent(n) ==
  LET a == rounds[n].row
  IN  /\ Remote /\ rounds[n].epoch = Epoch
      /\ a \in Targets
      /\ evidence[a].epoch = Epoch

\* The evidence is still of the target that the round was created for.
Current(n) ==
  LET a == rounds[n].row
  IN  /\ Remote /\ rounds[n].epoch = Epoch
      /\ a \in Targets
      /\ evidence[a].epoch = Epoch /\ evidence[a].applied < n

NoEpoch == [policy |-> 0, group |-> 0]
NoRound == [row |-> NoRow, epoch |-> NoEpoch, cohort |-> {}, task |-> [p \in Probe |-> "none"],
            local |-> "none", late |-> FALSE, result |-> "unknown", status |-> "none"]

\* Of a round that is closed only what the properties speak of is remembered.
Superseded == [NoRound EXCEPT !.status = "superseded"]
Completed(n, result) ==
  [NoRound EXCEPT !.status = "completed", !.row = rounds[n].row, !.epoch = rounds[n].epoch,
                  !.result = result]

\* closeRound; the results of a round that is closed late may be out of date.
Close(n, expired) ==
  LET a == rounds[n].row
      result == IF expired THEN "unknown" ELSE Evaluate(rounds[n].cohort, Votes(n))
      s == Advance(evidence[a].streak, result)
  IN  /\ Pending(n) /\ rounds[n].late
      /\ \/ /\ ~Current(n)
            /\ rounds' = [rounds EXCEPT ![n] = Superseded]
            /\ UNCHANGED <<address, evidence, told>>
         \/ /\ Current(n)
            /\ rounds' = [rounds EXCEPT ![n] = Completed(n, result)]
            /\ evidence' = [evidence EXCEPT ![a].streak = s, ![a].applied = n,
                                            ![a].live = result # "unknown"]
            /\ Settle(a, address[a].streak, s,
                      result = "success" /\ s.good >= SuccessThreshold)
      /\ UNCHANGED <<users, checks, events>>

-----------------------------------------------------------------------------
(* Local checks of an endpoint whose policy, if it has one, is local.      *)

\* buildScheduledHealthJobs: what the worker itself looks at from time to time.
Scheduled == IF Remote THEN {} ELSE In("current")

\* enqueueCandidateChecks: what a heartbeat asks it to look at.
Announced == IF Remote THEN {} ELSE In("candidate")

\* process of a health job: the target is loaded, its lock taken, the check begins.
Start(a) ==
  LET check == [row |-> a, role |-> address[a].role, config |-> config]
  IN  /\ a \in Scheduled \cup Announced
      /\ check \notin checks
      /\ checks' = checks \cup {check}
      /\ UNCHANGED <<users, address, evidence, rounds, told, events>>

\* The streak that a local result continues.
Observation(a) ==
  IF policy.mode = "none" THEN address[a].streak
  ELSE IF evidence[a].epoch = Epoch THEN evidence[a].streak ELSE NoStreak

\* isAddressStillIntended, isHealthCheckDefinitionCurrent.
Intended(c) == address[c.row].role = c.role /\ config = c.config

\* applyObserved for the result of a check, unless what was loaded is no more.
Finish(c, success) ==
  LET a == c.row
      old == Observation(a)
      s == IF success THEN Succeed(old) ELSE Fail(old)
  IN  /\ c \in checks
      /\ checks' = checks \ {c}
      /\ IF Intended(c) /\ ~Remote
         THEN /\ Settle(a, old, s, TRUE)
              /\ evidence' = IF policy.mode = "none" THEN evidence
                   ELSE [evidence EXCEPT ![a].epoch = Epoch, ![a].streak = s, ![a].live = TRUE]
         ELSE UNCHANGED <<address, told, evidence>>
      /\ UNCHANGED <<users, rounds, events>>

-----------------------------------------------------------------------------
(* Users.                                                                  *)

Forgotten == [a \in Row |-> [evidence[a] EXCEPT !.streak = NoStreak, !.live = FALSE]]

\* save of a health policy.
SavePolicy(mode) ==
  /\ Event
  /\ mode # "local" => group.members # {} /\ Reachable(CohortOf(mode))
  /\ policy' = [mode |-> mode, revision |-> policy.revision + 1]
  /\ evidence' = Forgotten
  /\ UNCHANGED <<config, group, active, address, rounds, checks, told>>

\* remove: its rounds are superseded and their tasks are stale.
RemovePolicy ==
  /\ Event
  /\ policy.mode # "none"
  /\ policy' = [mode |-> "none", revision |-> policy.revision]
  /\ evidence' = Forgotten
  /\ rounds' = [n \in Round |-> IF Pending(n) THEN Superseded ELSE rounds[n]]
  /\ UNCHANGED <<config, group, active, address, checks, told>>

\* deleteHealthCheck: the policy and the rounds that refer to it go with it.
DeleteCheck ==
  /\ Event
  /\ config' = config + 1
  /\ policy' = [policy EXCEPT !.mode = "none"]
  /\ rounds' = [n \in Round |-> IF rounds[n].status = "none" THEN rounds[n] ELSE Superseded]
  /\ UNCHANGED <<group, active, address, evidence, checks, told>>

\* A version of the pool with the same check is restored.
RestoreCheck ==
  /\ Event
  /\ config' = config + 1
  /\ UNCHANGED <<policy, group, active, address, evidence, rounds, checks, told>>

SetMembers(M) ==
  /\ Event
  /\ group' = [members |-> M, revision |-> group.revision + 1]
  /\ UNCHANGED <<policy, config, active, address, evidence, rounds, checks, told>>

\* revoke, or update with enabled = false.
Revoke(p) ==
  /\ Event
  /\ p \in active /\ active' = active \ {p}
  /\ UNCHANGED <<policy, config, group, address, evidence, rounds, checks, told>>

\* createInstallToken with the exchange of the token, or update with enabled = true.
Enrol(p) ==
  /\ p \notin active /\ active' = active \cup {p}
  /\ UNCHANGED <<policy, config, group, address, evidence, rounds, checks, told, events>>

-----------------------------------------------------------------------------
Init ==
  /\ policy = [mode |-> FirstMode, revision |-> 1]
  /\ config = 1
  /\ group = [members |-> Probe, revision |-> 1]
  /\ active = Probe
  /\ address = [a \in Row |-> [value |-> NoValue, streak |-> NoStreak, role |-> "none"]]
  /\ evidence = [a \in Row |-> [epoch |-> NoEpoch, streak |-> NoStreak,
                                applied |-> 0, live |-> FALSE]]
  /\ rounds = [n \in Round |-> NoRound]
  /\ checks = {}
  /\ told = [row |-> NoRow, health |-> "unknown"]
  /\ events = 0

Next ==
  \/ \E v \in Value \cup {NoValue} : Heartbeat(v)
  \/ \E T \in SUBSET Targets, online \in SUBSET (group.members \cap active) :
       \E lapsed \in SUBSET T : Schedule(T, online, lapsed)
  \/ \E n \in Round :
       \/ Pass(n)
       \/ \E p \in Probe : Lease(p, n)
       \/ \E p \in Probe, outcome \in Outcome : Accept(p, n, outcome)
       \/ \E outcome \in Outcome : RecordLocal(n, outcome)
       \/ \E expired \in BOOLEAN : Close(n, expired)
  \/ \E a \in Row : Start(a)
  \/ \E c \in checks, success \in BOOLEAN : Finish(c, success)
  \/ \E mode \in Mode \ {"none"} : SavePolicy(mode)
  \/ RemovePolicy
  \/ DeleteCheck \/ RestoreCheck
  \/ \E M \in SUBSET Probe : SetMembers(M)
  \/ \E p \in Probe : Revoke(p) \/ Enrol(p)

Spec == Init /\ [][Next]_vars

-----------------------------------------------------------------------------
(* Properties.                                                             *)

\* The rounds whose results the evidence of a may rest on.
Counted(a) == {n \in Round : /\ rounds[n].row = a /\ rounds[n].epoch = Epoch
                             /\ rounds[n].status = "completed"}

\* The newest k of them exist and have this result.
EndsWith(a, k, result) ==
  \E R \in SUBSET Counted(a) :
    /\ Cardinality(R) = k
    /\ \A n \in R : /\ rounds[n].result = result
                    /\ \A m \in Counted(a) \ R : m < n

\* A streak is no longer than the rounds that were decided alike, one after
\* the other, for this address under the policy and group of now: no
\* round is counted twice, out of order, or from before an edit
\* (advanceRoundHealth and closeRound).
StreaksAreRounds ==
  \A a \in Targets : Remote /\ evidence[a].epoch = Epoch =>
    /\ EndsWith(a, evidence[a].streak.good, "success")
    /\ EndsWith(a, evidence[a].streak.bad, "failure")

\* The pool has an intent for the last change of the endpoint that matters
\* to it: the address it has now, and that it is healthy or unhealthy.  A
\* current address whose evidence begins anew may be "unknown" unannounced
\* (applyObserved, heartbeat).
PoolIsTold ==
  /\ told.row = NoRow <=> In("current") = {}
  /\ \A a \in In("current") :
       /\ told.row = a
       /\ address[a].streak.health \in {"healthy", "unhealthy"} =>
            told.health = address[a].streak.health

\* An address that remote probes decide on becomes the current one only when
\* as many of its newest rounds as the threshold says were successful, each
\* under the policy and group of now (applyObserved, closeRound).
PromotionIsVerified ==
  [][\A a \in Row : address[a].role # "current" /\ address'[a].role = "current" /\ Remote
       => EndsWith(a, SuccessThreshold, "success")']_vars
=============================================================================
