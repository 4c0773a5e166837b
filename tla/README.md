# MasterDNS in TLA+

MasterDNS keeps DNS records pointed at healthy endpoints. It checks endpoints,
decides per *pool* which of them each *domain binding* should use, writes the
records at DNS providers, and rotates the public addresses of cloud instances
when they stop working. API, worker and scheduler processes share PostgreSQL
(all durable state), Redis (leases) and BullMQ queues (jobs that may run more
than once, late, or not at all).

This directory holds a TLA+ model of the parts where that is hard, TLC
configurations that check it on small instances, and proofs for all instances.

| module | models | run | proofs |
| --- | --- | --- | --- |
| `RedisLease` | `withRedisLease` of `packages/automation/src/dns-zone-lock.ts` | `RedisLease.cfg` | in `Operations_proofs` |
| `Operations` | the execution of a DNS operation (`operation.processor.ts`) and the other writers of its rows | `Operations.cfg` | `Operations_proofs` |
| `Strategy` | `evaluateStrategy`, `evaluateHealthySet` (`packages/automation/src/strategy.ts`) | with `Pool`, `Publication` | in `Pool_proofs` |
| `Publishing` | abstract: what readers of a name are promised | refined by `Pool` | in `Pool_proofs` |
| `Pool` | the pool API, intents and outbox, the reconcile job, steps of operations, synchronisation of the zone | `Pool.cfg`, `Deletion.cfg` | `Pool_proofs` |
| `Publication` | publication of a rotated address and the release of the old one | `Publication.cfg` | `Publication_proofs` |
| `Probes` | agents, probe rounds, local checks, promotion of an address | `Probes.cfg` | `Probes_proofs` |
| `Rotation` | the execution of address rotations on one instance | `Rotation.cfg` | `Rotation_proofs` |
| `Schedules` | scheduled rotations of one slot | `Schedules.cfg` | in `Workflows_proofs` |
| `Clouds`, `Ec2Steps`, `LightsailSteps`, `AzureSteps`, `LinodeSteps`, `Workflows` | the steps of an attempt and of its cleanup at each provider | `Workflows.cfg` | `Workflows_proofs` |
| `CloudAccount`, `Inventory` | rotations, idle-address cleanup, rate limits and scans of one account | `Inventory.cfg` | `Inventory_proofs` |
| `Lifecycle` | power operations of an instance and the traffic policy | `Lifecycle.cfg` | `Lifecycle_proofs` |
| `Notifications` | from a change of state to a message | `Notifications.cfg` | in `Inventory_proofs` |

Three of the proof modules hold the proofs of two components, which share no
state. So that both can be extended, `RedisLease`, `Schedules` and
`Notifications` name their specification `LeaseSpec`, `ScheduleSpec` and
`NotifySpec`, and likewise the rest that every module has.

`MC*.tla` give the constants of these modules values that a `.cfg` cannot
express. To check: `tlc -config Operations.cfg MCOperations`, and
`tlapm Operations_proofs.tla`. A definition whose comment begins with "Mutant
of" is no part of a specification: it is the form of a definition that a
plausible bug would give it, and it documents which property notices.

## 1. Inventory

### The parts

Each with its state, what makes it hard, and when it is correct.

**Redis lease** (`dns-zone-lock.ts`). One Redis key with a token and a time to
live; in the caller the acquisition deadline, the renew loop and `lostError`.
`SET NX PX` in a poll loop, renewal and release by scripts that compare the
token, release of a late acquisition. Hard: a command the client gave up on may
still be executed; the release of an earlier owner arrives late; owners crash.
Correct when two owners never overlap and keys are removed only by their owner
or by time.

**DNS operation executor** (`operation.processor.ts`) and **operations API**
(`operations.service.ts`, `binding-deletion.ts`). `operations`,
`operation_steps`, `domain_bindings`. A job takes the operation lease, claims the
operation, and for each unfinished step takes the zone lease, records the
attempt, and in one transaction (pool lock, row locks) checks that the step is
still wanted, calls the provider, reads back, and commits. `recoverPending` makes
new jobs every 30 s; `retry` revives failed steps. Hard: jobs that go on after
they lost a lease, crashes between the provider's answer and the commit, retries
that race with a running job, newer decisions, cancellations and deletions at any
point. Correct when nothing unwanted is written, nothing is created twice,
reported results are true, and every operation ends.

**Pool, strategy, reconcile, outbox, synchronisation** (`pools.service.ts`,
`strategy.ts`, `reconcile.processor.ts`, `reconcile-outbox.service.ts`,
`sync.processor.ts`, `binding-readback.service.ts`). Policy and decision revisions
of a pool, assignments, `reconcile_intents`, `dns_records`. An intent is written
with the change that causes it; the outbox enqueues open intents; the job drops
an intent that a newer decision has overtaken, evaluates the strategy, and plans
one operation. Hard: duplicated, lost and reordered jobs; revisions that move
between decision and execution; drift. Correct when what the executor may still
run fits the present, a name that is held keeps a record, records stay known, and
intents are decided.

**Rotation publication and cleanup** (`rotation-publication.service.ts`,
`rotation-cleanup.service.ts`). Per incident a publication with one child per
pool, and the resources to release with their due times. Hard: publications
overtake each other in one pool; evidence goes stale; time to live. Correct when
an address is released only when nothing points to it, a terminated incident is
not promoted, and incidents end.

**Health, probe rounds, DDNS agents** (`health-result.service.ts`,
`health.processor.ts`, `health-state.ts`, `probe-consensus.ts`,
`probe-rounds.ts`, `probe-scheduler.service.ts`, the API's `probes/` and
`ddns.service.ts`). Per address the state, its streak and its epoch; per round the
members, votes and deadline. Hard: results out of order or for an old epoch,
votes after the round was closed. Correct when streaks count rounds of now, once,
in order, and the pool hears of every change.

**Rotation** (`rotation-store.ts`, `rotation.processor.ts`, `rotation-lock.ts`,
`rotation-retry.ts`, `rotation-cloud-call.ts`, `rotation-machine.ts`,
`rotation-incidents.ts`, `rotation-termination.ts`, `cloud-state-reset.ts`, the
API's `rotation.service.ts`). Incidents, attempts, steps, budget segments, and one
row of `rotation_leases` per physical instance with a fence, the incident that
owns the instance and the step whose outcome is unknown. The cloud call runs
outside of any transaction, with a timeout whose late answer still arrives. Hard:
crash between dispatch and answer, late answers after a retry, leases that expire
under a running job, several incidents of one instance, pause, resume and
termination at any point, a budget that is charged and refunded. Correct when a
step takes effect at most once, an open call keeps the instance, plans do not
overlap, the budget adds up, and nothing sets going again what has ended.

**Steps at the providers** (`ec2-rotation.ts`, `lightsail-rotation.ts`,
`azure-rotation.ts`, `linode-rotation.ts`, `linode-swap.ts`). Each step reads,
decides whether to write, and is observed later. Hard: answers that are lost,
operations that are accepted and fail, resources that become visible late, events
that must be told from others. Correct when an attempt pays for one address, what
is settled is over, and a plan ends or needs a person.

**Rotation schedules** (`rotation-schedules.ts`, `rotation-scheduler.service.ts`,
`rotation-schedules.service.ts`). A schedule remembers the incident it started
and the time of the one it has handled. Hard: edits, resumptions and stops
between two scans. Correct when no rotation starts over a stop nobody has seen,
and a waiting schedule goes on.

**Cloud lifecycle** (`cloud-lifecycle.service.ts` of worker and API,
`cloud-lifecycle.ts`). Power operations with a claim of 120 s, the traffic policy,
and the lease shared with rotations. Hard: claims that lapse, crashes around the
write. Correct when one of them writes at a time, an uncertain write is not
repeated, and operations end.

**Idle addresses, rate limits, inventory** (`cloud-idle-ips.service.ts`,
`idle-ip-rotation-protection.ts`, `idle-ip-guards.ts`, `cloud-rotation-limits.ts`,
`cloud-sync.service.ts`). Batches of releases; a window of writes with
reservations; scans that read first and store later. Hard: an address that is
allocated and not yet attached looks idle; quota may run out half-way; a scan
stores the past. Correct when no swap is left half-way for lack of quota or by a
cleanup, and what the service believes converges to what the cloud has.

**Notifications** (`notification-state-scanner.service.ts`,
`notification.processor.ts`, `all-down-reminder.service.ts`,
`notifications.service.ts`). Jobs with fixed ids, rows of deliveries, a lock per
delivery. Hard: stalls, crashes, the loss of Redis, ids the queue still holds.
Correct when lasting states are told, deliveries end, and duplicates have a cause.

### How the parts interact

```
 agents, probes, checks ─> health ─> reconcile intent ─> decision ─> operation ─> DNS provider
                              │             ▲               ▲           ▲ leases (Redis)
 schedules, users ─> rotation incident      └── publication ┘           └ retry, recovery
                              │  ▲                 │
        lifecycle <─ lease ─> │  └ limits          └─> cleanup ─> release
                              ▼                                   ▲
                         cloud account <── scans    idle addresses ┘
```

Calls inside a process are synchronous; between processes everything goes
through rows that the receiver reads under locks, with a queue job as a hint.
A component therefore never trusts what a job carries or has read earlier: it
compares revisions, versions and fences in the transaction that writes. The
models keep every such comparison as a guard and every `await` between a read
and its use as a boundary between two actions.

Modules compose where parts share state: `Pool` and `Publication` extend
`Strategy`, `Pool` implements `Publishing`, `Inventory` extends `CloudAccount`,
`Workflows` extends the four modules of steps, which extend `Clouds`. Elsewhere
one part sees the other as an environment that may do what its own module lets it
do: `Rotation` takes a cloud step as a call with an open outcome (`Workflows` says
what the outcomes rest on: `SettledIsOver`), `Schedules` an incident as something
that goes on, stops or completes, `Lifecycle` a rotation as a holder of the lease.

### Not modelled

- The adapters of clouds and DNS providers apart from the rotation steps:
  translation to vendor requests; what their calls can do is the environment.
- Authentication, users, provider accounts, events: single rows without a
  protocol. The web console, agent scripts, contracts, schema.
- Calendar arithmetic of schedules, token buckets and the day window of rate
  limits: dates are due or not, waiting only delays.
- The inventory that a reset recovery compares with the rows.
- What each module leaves out of its own part is said with it below, and per
  component in `PROJECT.json`.

## 2. The modules
### RedisLease

A *session* is one call of `withRedisLease`; it draws a fresh token, so it is
its own token. `cmd[s][c]` is where the set, refresh or release command of the
session is: on its way, answered, or none. `RedisExecutes` is the atomic effect
in Redis, with the answer possibly lost; the client sees the answer in an action
of its own (`AcquireAnswered`, `RenewAnswered`, `ReleaseAnswered`) or gives up
(`AcquireTimesOut`, `RenewTimesOut`, `ReleaseTimesOut`), after which the command
is still out. Time is discrete: `Tick` lowers all timers and the time to live.
`Tick` waits while a timer is due, i.e. the event loop of a live process is not
stalled past a timer. A process that stalls longer than its lease is outside of
the module; the modules above it make no use of exclusion, see below.

### Operations

Variables `status`, `steps`, `binding` are the rows; `current` says which of the two
revisions of the pool, of its policy and of its decision, are still those the
operation was planned for (`isOperationDecisionCurrent`); `owner` and `zone` are the two Redis leases, `tx`
the job whose `executeStep` transaction is open. While `tx` is set, everybody
who locks the pool, the operation or the step waits (`Unlocked`): a cancellation, a
retry, `enqueueReconcile`, `deleteBinding`. An edit of the policy does not
(`recordPolicyChange` takes no lock of the pool, and `executeStep` reads
`endpoint_pools` without `FOR UPDATE`), nor does the end of a deletion.

| actions | code |
| --- | --- |
| `Start`, `ReadOperation`, `Claim`, `EnterStep`, `LastStepDone`, `NoticesLoss` | `process`, `processLocked` and its loop |
| `PrepareStep` | `prepareStep` |
| `BeginWrite`, `Call`, `CallLands`, `CallAnswered`, `CommitStep`, `ZoneLost` | `executeStep`, from its locks to its commit |
| `StepThrows`, `RecordFailure` | any error of a step, and the catch block |
| `SupersedeOperation`, `Finalize` | `supersedeOperation`, `finalizeOperation` |
| `RetryReads`, `RetryCommits` | `OperationsService.retry` |
| `PublicationRetries`, `Cancel` | rotation publication; termination, reset, account deletion |
| `NewDecision`, `PolicyChange`, `DeleteBinding`, `BindingDeleted` | `enqueueReconcile`; `recordPolicyChange`; `deleteBinding` of the API; the end of its operation |
| `Crash`, `OperationLeaseExpires`, `ZoneLeaseExpires`, `LateCallLands` | the environment |

The leases are *not* assumed to exclude: a lease may be lost under a running job
at any moment, and the job acts on until its next `assertOwned`. The safety
properties hold all the same, by the row locks and the checks made under them.

`provider[k]` counts how often the change of a step was made, and the calls
that were given up (`late`) and may have an effect all the same.
`shouldFinalizeOperationStepFailure` is a nondeterministic BOOLEAN, since it
depends on the error, the number of the attempt and the account. Left out: the
account status, the TTL that is saved for the cleanup, the notification after
the end, and the content of records. The checks of a cloud publication count
as a failure of the step.

### Strategy, Publishing, Pool

`Strategy` has `evaluateStrategy` and `evaluateHealthySet` as operators over a
*context* (endpoints with health and weight, bindings with their assignment, the
cursors), with every selection, trigger and recovery mode; the fold over the
bindings passes the counts and cursors of one to the next.

`Pool` is one pool. `local` are the rows of `dns_records`, `remote` what the
provider has; `request` is an API request between two of its transactions (the
edits of a pool are two or three of them) and `torn` that it stopped there.
Actions: `Edit` and `Answer` (the API), `Observation` (health), `Outbox`,
`Worker` (the reconcile transaction), `StepNext` (the executor by its effects; how
it gets there is `Operations`), `Deletion` with its readback, `SyncNext`, `World`
(drift, the account). Failures, lost answers and unfinished requests are events,
bounded by `MaxEvents`.

`Publishing` is what the readers of a name are promised: a name that the pool
holds is never left without a record, and a name that it lets go leaves none. The
promise for a name ends (`disturbed`) with the first outsider, lost answer or
final failure, and with a plan that reduces several records of the name to one
(`narrowed`, see 5 of the list in section 3). `Publishes == Promise!Spec` states that `Pool` implements it; the
refinement maps `tenure` to the phase of the binding and `shown` to the records at
the provider.

### Publication

A `healthy_set` pool with one slot per endpoint. `publication[s]` is the newest
version with its child, `intent` and `ops` those of the pool, `cached` the ticks
that resolvers still hold an address, `admitted` the slots whose candidate a
publisher is looking at outside of a transaction. `Publisher`: `publishSlot`,
`recover`, `intent`, `observe`; `Cleaner`: the due time, the release, its receipt
or refusal, completion; `Worker`, `Executor`: the reconcile and its operation;
`Pool`: edits, failures, pauses; `Terminate`. The revisions are reduced to *of the
current pair or not*. `missed` and `stray` are histories of the slots for which the
code gives no guarantee (4 and 16 of the list in section 3).

### Probes

One address family of a DDNS endpoint. Rounds are opened by `Schedule` for a set
of addresses and the members that are online, leased and answered by probes and by
the worker (`Lease`, `Accept`, `RecordLocal`), closed after their deadline
(`Pass`, `Close`); `Start` and `Finish` are the local checks of endpoints
without a policy; the rest are edits. `Advance` and `Settle` are
`advanceRoundHealth` and `applyObserved`. `told` is what the last intent of the
pool could see.

### Rotation

Each action is one transaction of `RotationStore` (they lock the account, the
instance and the slot first), one event of the cloud, or a deadline that passes.

| actions | code |
| --- | --- |
| `Start`, `Pause`, `Resume`, `Terminate`, `Reset`, `AuthorizationChanges` | API, `rotation-incidents.ts`, `rotation-termination.ts`, `cloud-state-reset.ts` |
| `Claim`, `ClaimForeign`, `LeaseExpires` | `claim`, the lease of `rotation_leases` |
| `Read`, `GoTo` | `read`, `snapshot`, `nextRotationAction` |
| `Prepare`, `Dispatch`, `Settle` and their refusals | `prepare`, `dispatch`, `settle` |
| `ExecuteReturns`, `ExecuteRefused`, `ExecuteUncertain`, `LateReceipt` | `executeCloud`, `saveReceipt`, `rejectNoEffect`, `rejectUncertain`, `lateResult` |
| `Observe`, `SaveObservation`, `ObserveFails` | `observe` and the receipt of what it saw |
| `Throws`, `PauseAfterError` | the catch block of the processor |
| `Promote`, `PublicationFails`, `CompleteIncident` | what publication and cleanup do to the incident, collapsed |
| `CloudApplies`, `CloudFails` | the cloud |

`write[f]` is the ghost of the call made under fence `f`: which step it was for,
and whether its effect is open, applied or ruled out. It is what the properties
compare the rows with. Times are abstracted: what a claim, a cooldown or a retry
waits for may have passed at any moment, except the recovery delay, which decides
what `read` does. Error codes are reduced to the classes the code tells apart.
Rate limits answer arbitrarily. Addresses that change outside of incidents and the
recovery after a reset are not modelled.

### Clouds, the four modules of steps, Workflows

`Clouds` has the addresses of one slot (`place`), the power events of the guest
(`log`, `booted`), the temporary instance of a swap, and the rows of the attempt
with its receipts. Each module of steps says what an adapter *looks* at before it
writes (it writes, has found the effect, refuses, or doubts), what an observation
*reports* and which candidate it *finds*. `Workflows` runs them: `Dispatch`, `Send`,
`Answer`, `TimesOut`, `LateAnswer`, `Crash`, `Observe`, `Retry` are the worker,
`ResumedByHand` a user (a step of a rotation that is refused for another reason than
the rate of its calls is `barred`: only a person can have it tried again, and not if
it is the first of its attempt, which is refunded and abandoned),
`Arrive`, `Refuse`, `Lose`, `Finish`, `Fail`, `Provision`, `Remove` the provider,
`Outsider` everybody else. The plans are those of an EC2 elastic address, an
automatic one and IPv6; Lightsail static, dynamic and dual stack; Azure; Linode
with a reboot, with a stop and a start, and by swap; each with its cleanup. Left
out: the convergence timeout (it pauses the incident), the identity of instances
and interfaces, power events that the same user makes elsewhere, Lightsail's
interim dynamic address, outsiders that add addresses, malformed answers.

### Schedules

The row of the schedule and the incidents of its slot in the order of creation;
`fresh` says that the schedule has handled the present state of an incident
(`updated_at` is compared for equality in the code). `Scan` is one turn of
`RotationScheduler` with `reconcileRotationSchedule` and the admission; `Update`,
`Resume`, `Pause`, `ResumeIncident`, `Terminate`, `Reset` the requests; `Wake`,
`LoseJob`, `Recover`, `Run` the jobs; `Hinder` what stands against an admission.
`unseen` are the stops no pause of the schedule and no user has answered.

### Lifecycle

`op` are the rows of the operations of an instance; `call[o]` the write at the
provider: open from its dispatch, it takes effect late, or is lost. `job[w]` is
what a worker holds after its claim of 120 s, which may lapse under it; `check` is
the policy lane with the traffic it has read. `lease` and `rotation` are the other
side: a rotation step, an incident. Left out: the change of the month, recreated
resources, idempotency keys, aliases, the fingerprint of the account.

### CloudAccount, Inventory

`CloudAccount`: the rotations of the Lightsail slots of an account (`rot`), the
window with its reservations (`budget`), a batch of idle addresses (`batch`,
`item`) and the requests that carry it out (`call`). `Dispatch` is the admission
(`admitCloudRotationDispatch`), which books the writes that a rotation still
needs. Left out: changes of the policy, token buckets, the day window, several
batches at once, several accounts with one external id. `Inventory` adds what the
service believes (`known`) and the scans (`scan`), with edits and an owner that
moves addresses. A pending or in-flight release that was lost and whose batch
nobody opens again holds up every Lightsail rotation of the region (`Forsaken`),
also between a detachment and an attachment; reservations of a paused incident do
not expire; a scan whose read precedes a rotation that ends before it is stored
stages the old address until the next scan. `InstalledIsCandidate` therefore speaks of
a rotation from its swap to its end, while the scan leaves the slot alone, and
`ScansConverge` of what comes after.

### Notifications

The watched states (`health`, `rotation`), notices that are queued after the
commit they report (`held`), jobs by id, rows of deliveries, and the lock of a
delivery with the jobs that hold it. `got` counts the receptions of a message that
have no cause. The id of a channel is random (`packages/db/src/schema/index.ts:448`),
so a channel that was removed does not come back (`removed`). Delays are not kept:
what waits for a retry may be due at any moment.
Not modelled: cursors, backoff, the two queries that read the channels, ids dropped
beyond the 5000 that are retained except as `Forget`.

## 3. Runs

Every constant that bounds a run is in its `.cfg`; `MCRotation` adds `Bounds` to the steps. All runs are exhaustive but
the one of `Deletion.cfg`, which ends with its counterexample.

| run | checks | bounds, and why |
| --- | --- | --- |
| `RedisLease.cfg` | `MutualExclusion`, `OnlyHolderReleases` | two calls; a lease of 5 ticks, refreshed every 2, commands given up after 1: the smallest numbers with refresh + 2·command < lease, the margin of the defaults. Two calls let a late command of one meet the key of the other; both properties are proved for any number. |
| `Rotation.cfg` | `StepTakesEffectOnce`, `BudgetAccounts`, `TerminalIsFinal`, `OpenCallsArePinned`, `PlanOwnsInstance` | two incidents, two workers, a plan of two steps, within either of two bounds (`Bounds` of `MCRotation`). One incident alone has five claims, two attempts, and one or (within four claims) two out of a recovery, a change of authorization and a new segment of the budget: a step is sent, given up, resumed and sent again, an attempt is refunded and another one made; with all three of them in five claims it passes too. Two rivals have three claims and an attempt each: one asks for the instance while the call of the other is open or late; with a fourth claim after a termination it passes too (5.6 million states). |
| `Operations.cfg` | `WritesAreWanted`, `CreatedOnce`, `SucceededIsMade`, `BindingFollowsSteps`, `OperationEnds` | two jobs, two steps of one binding, one retry, two faults (a lost lease and a crash suffice for a job that acts beside its successor and for one recovery); operations of pools, of deletions and of users |
| `Pool.cfg` | `CurrentPlansAreEligible`, `ManagedRecordsAreAssigned`, `Publishes`, `IntentsAreDecided` | two endpoints, one name, three records (two of the pool and one of somebody else), three events, both strategies and the switch of each into the other |
| `Deletion.cfg` | `DeletedIsUnpublished`, which fails | the instance of `Pool.cfg` |
| `Publication.cfg` | `OldAddressesRest`, `TerminatedIsNotPromoted`, `IncidentsEnd` | two slots with two addresses each, TTL 2 and grace 1 so that they are told apart, one event; the safety properties pass with two events as well (4.1 million states with TTL 1) |
| `Probes.cfg` | `StreaksAreRounds`, `PoolIsTold`, `PromotionIsVerified` | one remote probe and the worker, two addresses, three rounds with a success threshold of 2 (a round of before an edit could make up a streak), one edit |
| `Schedules.cfg` | `NoStartOverStop`, `ScheduleGoesOn` | three incidents (handled, running, new), three events; four pass too |
| `Lifecycle.cfg` | `DispatchedIsAlone`, `WritesAreNotRepeated`, `OperationsEnd` | two workers (a claim lapses under one and the other takes over), one checker, two operations, two events |
| `Workflows.cfg` | `OneAllocation`, `SettledIsOver`, `RestartFollows`, `PlansEnd` | ten plans, two new addresses, two tries, one move of an outsider; three addresses, three tries and two moves pass too |
| `Notifications.cfg` | `DuplicateHasCause`, `DeliveriesEnd`, `EventsAreTold` | two channels, two pools, two tries, two events; one live job of a row when it is recovered, edits between deliveries. Two live jobs and edits under a delivery pass for `DuplicateHasCause` |
| `Inventory.cfg` | `WindowHolds`, `AttachIsPaid`, `CandidateIsKept`, `SwapsEnd`, `InstalledIsCandidate`, `ScansConverge` | one slot, two scanners, a window of 3 (the writes of one rotation), one release, one edit, one move of the owner; a behaviour has a cleanup or scans. Two dispatches of a release pass too |

Bounds inside guards, besides those a policy has (`MaxAttempts`, `MaxRecoveries`,
`MaxTries` of `Notifications`): `MaxFaults`, `MaxRevision`, `MaxChanges`,
`MaxRows`, `MaxSegments`, `MaxEvents`, `MaxIncidents`, `MaxOps`, `MaxTries`,
`MaxOutside`, `MaxReports`, `MaxRounds`, `MaxLive`, `MaxEdits`, `MaxReleases`,
`MaxDispatch`, `MaxCalls`, `MaxBatches`; `Request` bounds retries, `Addresses`
rotations. They bound what starts things, so that the liveness properties say that
what was started ends. Most models therefore really stop, and deadlock is checked
only for the lease.

Symmetry is used where only safety is checked.

### Fairness

- `Operations`: a worker that is up runs its jobs, and `recoverPending` makes a
  new one for every unfinished operation every 30 s (`Execute`); a call that was
  sent lands in the end (`CallLands`); Redis drops the lease of a worker that is
  down. `OperationEnds` says that an operation ends once faults stop. An account
  that is disabled for ever keeps its operation unfinished, by design of the code.
- `Pool`: the outbox scans, workers take jobs, zones are synchronised.
- `Publication`: jobs run, the timers of publication and cleanup scan, time goes on.
- `Schedules`: the 10 s scan, the 5 s recovery, the queue and the clock.
- `Lifecycle`: the 5 s timer of the lanes; the provider acts on what it has
  accepted; leases run out; steps of a rotation are confirmed.
- `Workflows`: the worker runs every few seconds; the provider carries out, refuses
  or loses what is sent, and ends what it has accepted; `not_applied` steps and those
  refused for their rate are prepared again (`Retry`, `rotation-store.ts:44`). No user
  has to resume anything (`ResumedByHand` is not fair): a step that waits for one is
  an exception of `PlansEnd`.
- `Notifications`: scanner and recovery timers, the worker takes what waits, calls
  end, locks run out.
- `CloudAccount`: the worker looks at every incident again and again; the cloud does
  not refuse or lose a write for ever (strong fairness of an admitted dispatch and
  of its success); requests end; time passes. Scans run again and again.
- `RedisLease`, `Rotation` and `Probes` state no liveness.

### Where the code and its words differ

Met while modelling; a property that a run checks is stated so that the model,
which does what the code does, satisfies it, and says which exception it makes. The one of `Deletion.cfg` (item 5)
is stated as the repository states it, and fails.

1. *Lease margins.* Line 61 of `dns-zone-lock.ts` asks for refresh + command <
   lease. The answer that starts the refresh interval may itself be a command
   timeout old, so refresh + 2·command < lease is needed for a renewal that is
   still waited for to find the key. Exclusion is proved from the stronger bound
   (`RenewalFits`); all options used in the repository satisfy it.
2. *Late receipts.* A resumption prepares a step again whose call was confirmed as
   not applied, and keeps its fence; a late receipt of that call then overwrites
   the step, where `docs/ARCHITECTURE.md:229` says that it only enters the history.
3. *Retries of an operation.* `retry` does not read the status again inside its
   transaction. One that read a failed operation before another retry ran it again
   can put a step back behind the running job; the job finalizes the operation as
   succeeded with that step pending, and no later job runs it. When the decision is
   stale, `executeStep` marks the step as skipped whatever its status.
4. *Overtaken publications.* A repair that is overtaken before it is planned is
   taken for applied (`rotation-publication.service.ts:529`): the strategy then
   finds nothing to decide although the record still shows the old address, which
   is released after its grace. `OldAddressesRest` excepts these (`missed`).
5. *Narrowing a pool.* When a healthy set becomes a pool of one endpoint, the step
   that repoints the record clears the records of all other assignments; if the
   step that deletes the other record is then superseded, the record stays managed
   and belongs to nobody (`operation.processor.ts:358`). It needs no superseded step
   either: if the chosen endpoint's old record is the extra one, the update makes the
   other record its assignment, and the delete step of the extra record, which
   carries the same endpoint (`reconcile.processor.ts:401`), clears that assignment
   (`operation.processor.ts:354`). A deletion of the binding then has no target
   (`pools.service.ts:755`) and removes the binding at once, with its record still in
   the DNS, although `docs/validation/2026-09-21-deletion.md:16` has only a binding
   that is not published deleted at once. The run of `Deletion.cfg` shows this
   (`DeletedIsUnpublished`). `ManagedRecordsAreAssigned` and `Publishes` except the
   names of which a plan has reduced several records to one (`narrowed`).
6. *Intents that are not there.* `recordDrift` commits its intent before the rows
   are updated, so that a reconcile in between plans nothing; `createHealthCheck`,
   `deleteHealthCheck`, `deleteEndpoint` and `pause` make open decisions stale
   without an intent of their own; a delayed recovery that is superseded is lost; an
   edit of a pool is three transactions, and a crash between them loses the intent.
7. *Steps after a failure.* When the step that creates a record fails for good the
   loop goes on to the one that deletes the other: a healthy set may leave a name
   without records. `Publishing` ends its promise at a final failure.
8. *A failed binding* keeps that state while nothing is decided, and a publication
   waits for it (`Stranded` in `IncidentsEnd`).
9. *A terminated incident* whose candidate was not promoted leaves it behind, and
   later decisions for the slot are refused until it is verified or replaced.
10. *Edits of a health policy* reset the rows of the evidence but not
    `endpoint_addresses`: the first round of a new epoch can write "unknown" over a
    published address without an intent (`PoolIsTold` allows it), and after the
    policy is removed local checks continue counters of remote rounds.
11. *Schedules.* A paused incident in the candidate phase has its time changed by
    the processor, so a schedule that was resumed is paused again for it; a scan
    that accounts for an older completion admits at once although a later incident
    was stopped (the exception of `NoStartOverStop`); an error code missing in
    `prerequisiteErrors` makes the scan fail for ever (the obstacle "grant" of
    `ScheduleGoesOn`).
12. *Lifecycle.* A write that was lost leaves its operation "unknown" and observed
    for ever, and blocks the instance (`Unanswerable`); when the transactions of a
    result fail, the outer catch marks a dispatched operation as failed.
13. *Linode cleanup by stop and start.* `watermark` takes the first shutdown among
    the receipts, which in a cleanup are those of the rotation too, so the stop is
    refused each time and the cleanup does not end (the exception of `PlansEnd`).
14. *Notifications.* A fanout whose attempts are used up stays in the failed set and
    its id is ignored afterwards; an event that was fanned out while there was no
    channel is not told later; delivery jobs that are left over send again after a
    row has failed; reminders and notices of the end of an operation are lost by a
    crash between the commit and the queue.
15. *The status of what has ended.* Only a terminated incident keeps its status for
    good. A completed one can be shown as active, ambiguous or recoverable again: by
    a late receipt of one of its steps (`saveReceipt`, `rotation-store.ts:178`) or
    by a job that had stalled before it observed (`reject`, `rotation-store.ts:209`).
    Its phase stays "complete", so nothing is called or charged for it. The proof of
    `TerminalIsFinal` for two jobs found this; the property says what remains true.
16. *Records that nobody knows.* A record that was created and could not be confirmed
    (`operation.processor.ts:330` fails before the row is written) is in no row.
    Decisions are made from the rows, so none takes it down, and the cleanup
    releases the address that it still shows. It takes five events: the slot is
    hidden and shown again, the create is not confirmed, the address is rotated, the
    endpoint fails, and an edit finds the binding healthy. The proof of
    `OldAddressesRest` found this; the property excepts these slots (`stray`).
17. *Edits beside an open call.* `recordPolicyChange` (`pools.service.ts:891`) raises
    the policy's revision without the lock of the pool, and `executeStep` reads it
    without a row lock (`operation.processor.ts:255`), as `finalizeOperation` does at
    the end of a deletion (`operation.processor.ts:475`). A provider may therefore be
    written for a policy that is no longer the current one: the step is committed, and
    the steps after it are skipped. `WritesAreWanted` speaks of the decision, the
    operation and the step's own binding, which are locked.

## 4. Proofs

All proofs hold for every value of the constants that the named assumptions
(`OptionsAssumption`, `RotationAssumption`, ...) allow.

Every invariant and every action property that a run checks is proved. Each of
the inductive invariants below names its parts, and says why the property is not
inductive without them.

**RedisLease**, in `Operations_proofs`. `LeaseTypeCorrect`; under `RenewalFits`,
`OwnerHasKeyAlways` and `MutualExclusionAlways`; `OnlyHolderReleasesAlways` without it. The inductive
invariant `IInv` relates timers: while a SET is waited for, the key (if it was
set) outlives the rest of the wait plus a refresh (`AcquireMargin`); while the
call owns the key, its time to live exceeds the time until the renewal is sent
and given up (`LeaseMargin`); a release is not out before the action ends
(`NoEarlyRelease`). Exclusion follows since two owners would both be the holder.

**Rotation**, in `Rotation_proofs`. `TypeCorrect`, by one lemma for each
operator that writes a row and one step per action. `OpenCallsArePinnedAlways`:
an open call is the one the lease names. It is not inductive; `SafetyInv` adds
that a fence belongs to one dispatch of one job (`FencesDiffer`,
`JobsAreFenced`), that what a job has observed stays true until it stores it
(`AnswerIsTrue`), and that the step of an open call still carries its fence and
belongs to the current attempt (`StepsAreFenced`, `OpenCallsAreCurrent`).

Its second part, `RotationInv`, extends `SafetyInv` to what calls do and what they
cost; the other run properties are its consequences.

- `StepTakesEffectOnceAlways`. A step may be dispatched again when it is
  `prepared`, `rejected` or `not_applied` (`Idle`). The row of a step carries the
  fence of its own last call (`FencesAreOwn`); a row says `applied`, and an
  observation concludes it, only of a call that was applied (`AppliedIsTrue`,
  `AnswersHold`); and while a call of the current attempt has or may have an
  effect, its row still carries its fence and is not idle (`EffectsAreShown`). So
  whatever is dispatched again has had no effect.
- `BudgetAccountsAlways`. A refund is safe only when no other step of the attempt
  has reached the cloud. That rests on the order of the plan: what reached the
  cloud did so after all steps before it were applied (`PlanInOrder`), so a refund
  at the first step finds nothing else, and no refund happens elsewhere. The sums
  follow by comparing the set of charged attempts before and after a step
  (cardinalities of finite sets).
- `PlanOwnsInstanceAlways`, from the moves that can change the owner of the lease
  (`OwnerMoves`).
- `TerminalIsFinalAlways` and `CallsAreAdmittedAlways`, action properties, from the
  same moves. The second (a call is made under an unexpired lease, for what is
  authorized and not paused now) has no run of its own.

**Operations**, in `Operations_proofs`. `TypeCorrect` and all safety properties of the run:

- `NoUnwantedWrite` (`WritesAreWanted`): a job inside the transaction is the
  holder of `tx`, so nobody else writes the rows, decides for the pool or starts the
  deletion of the binding (`LockedOut`), and what `BeginWrite` has checked of these
  stays true (`Wanted`). The policy's revision is not among them: it may change
  while the provider is called, see 17 of the list in section 3.
- `NothingTwice` (`CreatedOnce`): a step without a recorded attempt has never been
  sent (`UntriedUntouched`, because the attempt is committed first); a job that
  has read "no attempt" and still holds the zone is therefore the first one
  (`FirstTry`); so a create is sent only when everything the provider has made
  came from calls that were given up (`CallsCounted`).
- `SuccessIsReal`, `BindingIsTrue`, `DoneStepsStay`, `EndedStaysEnded`.

**Schedules**, in `Workflows_proofs`. `ScheduleTypeCorrect` and `StopsAreSeen`
(`NoStartOverStop`).
The scan looks at one incident only. That it looks at the right one rests on the
order of the incidents (`Order`: only the last is not complete), on that the
schedule refers to incidents that exist (`Known`), keeps its link to one that is
under way (`HandledIsLinked`), and on what an unlinked (`LooseIsSeen`) or
unchanged (`FreshIsSeen`) handled incident says of stops.

**Lifecycle**, in `Lifecycle_proofs`. `DispatchedIsAloneAlways` and `WritesAreNotRepeatedAlways`.
Both properties speak of what other processes may have changed since a worker
claimed an operation. A claim that lapsed and was taken over leaves the row to the
new holder, so whoever still is the holder finds the status that it has claimed the
row with, or that it was cancelled (`HeldIsKnown`); and nothing has been sent for a
row that is queued (`QueuedIsUnsent`).

**Probes**, in `Probes_proofs`. `StreaksAreRoundsAlways`, `PoolIsToldAlways` and
`PromotionIsVerifiedAlways`. Addresses and rounds are numbered in the order of
their creation (`RowsInOrder`, `RoundsInOrder`); completed rounds are not newer than
the one that was applied last (`AppliedIsNewest`), so a round that is decided now is
newer than all that were counted; no evidence is of a policy or a group that is yet
to come (`EpochsAreKnown`), so an edit leaves no evidence of the new epoch behind.
Streaks are true of all addresses, not only of those that are checked
(`EveryStreakIsRounds`), because an address may become a target again. The pool is
told what the address shows, while results continue the streak of the evidence:
the two agree (`EvidenceIsShown`), a row that is not in use is blank
(`UnreportedIsBlank`), and there is one current address and one candidate
(`OneEach`). The invariant was checked by TLC before it was proved (8.8 million
states).

**Publication**, in `Publication_proofs`. `OldAddressesRestAlways` and
`TerminatedIsNotPromotedAlways`. A release waits for the row of the publication,
which was seen as applied at one moment, and the records may be written by others
until the end of the grace. The invariant says why none goes back: no record and no
step is newer than its slot or older than the row that it replaces
(`RecordsFollow`), what is released is older than the address of its slot
(`OldIsOld`), and while a decision stands each outdated row is mended by a step of
its own operation or the binding has failed (`DecisionsCover`, with `OpenIsFresh`
and `EndedIsDone`). A publication that is applied therefore finds the row current,
and from then on the old address is not shown and what resolvers hold ends before
the release is due (`ReleasesWait`). TLC checked the invariant with three events
(1.3 million states) before it was proved.

**Pool**, in `Pool_proofs`. `TypeCorrect`, `CurrentPlansAreEligibleAlways`,
`ManagedRecordsAreAssignedAlways` and `PublishesAlways`, the refinement of
`Publishing`.

- `TypeCorrect` needs that the strategy decides for endpoints that there are
  (`DecisionsChoose`): the counts and cursors are folds over the bindings, each with a
  type lemma, and the nth of an ordered set exists because a finite set that is
  strictly ordered has an element with any rank below its size (`Ranks`).
- `CurrentPlansAreEligibleAlways`. A plan is eligible when it is made
  (`PlanIsEligible`, from what the strategy decides), and its inductive invariant
  `EligibleInv` says that no plan is of a revision to come (`RevisionsGrow`). So a
  step that changes an endpoint either raises a revision and makes every plan stale,
  or leaves a request half-way, or changes a health that stays good enough
  (`NextKeeps`).
- `ManagedRecordsAreAssignedAlways`, from `ZoneInv`. Its parts: the assignments of a
  name have different records, which have rows unless the provider has lost them
  (`Sound`); without a fault, rows and provider agree (`Faithful`); a
  synchronisation finds something only where there was a fault (`SyncIsSound`); a
  step of a current plan finds its record where the plan saw it, and no other step
  or record is in its way (`Holds`); a current plan leaves each of its names a record
  (`StaysShown`); and one plan is made per decision (`OnePlan`), so that the step
  that runs disturbs only plans that are stale.
- `PublishesAlways`: initial states map to initial states, and each step to a step of
  `Publishing` or to a stutter (`EditKept`, ..., `StepKept`). The step that
  matters is the deletion of a record. Deletions come last (`Ready`), so no step that
  publishes is left and the name has another record (`AnotherStays`); and a name
  whose deletion is finished has no row, hence no record (`NothingIsLeft`).

Users may switch the strategy of the pool either way. What `Sound`, `Faithful`,
`Holds` and `StaysShown` say of records that stay, they say of the names that are not
`narrowed`; a name becomes that only by a plan that finds several records and wants
one, and for these the two properties are false, as item 5 of section 3 tells. TLC
checked `ZoneInv` in all states of the run.

**Workflows**, in `Workflows_proofs`. `TypeCorrect`, `OneAllocationAlways`,
`SettledIsOverAlways`, `RestartFollowsAlways` and `StoppedNeverEnds`, for ten plans
and any number of losses, tries and moves of others. The plans are known step by
step (`Plan_eip`, ...); their invariant `WorkflowsInv` says of the step that a plan
is at what its call may still do.

- `Allocated`: while an allocation may be sent, or an observation may take it for
  not made, nothing has been made. So it is sent again only when the provider has
  not carried it out, also where the provider can only say how many there are.
- `Settled`, which holds as long as no outsider moves anything: the call of a step
  that may be sent again has no effect to come; and while a call that is awaited
  still has its effect to come, what an observation looks for is not there
  (`Unplaced`, `Unanswered`, `Unlogged`). An observation that says applied, or not
  applied, is therefore made after the last effect.
- `Powered`: a power action is recognised by an event of the log that comes after a
  watermark. No watermark of a step lies before the first one that it took
  (`Marked`), and every event of the plan's own that comes after it has started the
  guest with the addresses of that moment (`Booted`); the steps before leave no
  event that would do (`Unstarted`).
- `StoppedNeverEnds`, of item 13 in section 3: the stop of the cleanup compares with
  the answer to the stop of the rotation (`StopsOnce`), which the start has
  followed, so it is never admitted and the plan stays at its fifth step. Hence the
  exception of `PlansEnd` is no oversight of a small instance.

**Inventory**, in `Inventory_proofs`: `WindowHoldsAlways`, `AttachIsPaidAlways`,
`CandidateIsKeptAlways` and `InstalledIsCandidateAlways`, for any number of slots,
scans, attempts and calls. `AccountInv` is their invariant under `InventorySpec`, and
`RotationInv` is that of an account whose inventory is not scanned.

- The addresses are bounded by how far their rotations are: what the cloud shows, a
  preview has listed or a cleanup has taken up has been allocated (`Given`), and a
  release that may yet be sent is of an address that no rotation wants any more
  (`Bygone`). `InUse` covers the rest: a release is admitted only when no rotation
  uses the address then, and until the release has gone out no rotation can come to
  use it, because a later attempt has a later address (`PlacesAreGiven`,
  `CallsAreBygone`).
- `WindowHolds` and `AttachIsPaid` compare the sets of promised writes before and
  after a step (`Pending`): an admission adds what the rest of the attempt needs only
  where it fits, a write that is made moves from the promises to the count, and a
  promise is never of an attempt to come (`BookingsAreGiven`).
- `InstalledIsCandidate` is inductive with these: a scan stages nothing for a slot
  whose rotation is not finished (`Busy`), and no other step changes the candidate
  of one. It says nothing of the time after the rotation's end.

**Notifications**, in `Inventory_proofs`: `NotifyTypeCorrect` and
`DuplicateHasCauseAlways`, for any number of events, channels, jobs and faults. A
cause excuses a call when it loses its lock, and the message may arrive much
later; so the number of receptions alone says little. The invariant counts the
`Charge` of a row: its receptions without a cause, less the excuses that were given,
and one for each call under way that has been excused (`Orphans`). It is one at
most, and zero as long as a job that has the lock, or may get it, could still send
the message (`Charged`). A call that loses its lock moves from one to the other,
and a job that finds its row delivered sends nothing. Rows that are inserted are
new: ids of events are not given twice, and a channel that was removed does not come
back (`RowsKnown`). The proof found that the model had allowed the latter.

TLC checked these three invariants in all states of the runs as well.

### Only model-checked

Liveness, which needs fairness and ENABLED: `OperationEnds`, `IntentsAreDecided`,
`IncidentsEnd`, `ScheduleGoesOn`, `OperationsEnd`, `PlansEnd`, `DeliveriesEnd`,
`EventsAreTold`, `SwapsEnd`, `ScansConverge`.
