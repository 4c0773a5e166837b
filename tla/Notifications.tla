--------------------------- MODULE Notifications ---------------------------
(***************************************************************************)
(* From a change of state to a message at a receiver: the scanner of       *)
(* durable states (notification-state-scanner.service.ts), the notices that *)
(* are queued after the commit they report (all-down-reminder.service.ts,  *)
(* operation.processor.ts), the fanout to the channels of an event and the *)
(* deliveries with their lock and their retries                            *)
(* (notification.processor.ts), and the edits of channels and links        *)
(* (notifications.service.ts).                                             *)
(*                                                                         *)
(* A job is kept by its id: the queue ignores an id that it still holds,   *)
(* finished and failed jobs included.  Delays are not kept: a job or a row *)
(* that waits for its retry may become due at any moment.                  *)
(***************************************************************************)
EXTENDS Integers, FiniteSets

CONSTANTS Channel, Pool,
          First,          \* the channel there is at the beginning, a default
          PoolsOf,        \* the pools of an event, by its source
          MaxTries,       \* deliveries of a row (5 in the code)
          FanoutTries,    \* attempts of a fanout job (3 in the code)
          Overlap,        \* bound: whether they change while one is delivered
          MaxLive,        \* bound: live jobs of a row when one is recovered
          MaxEvents       \* bound: changes of the watched states, requests
                          \* about channels, crashes and other events

ASSUME NotificationsAssumption ==
  /\ {MaxTries, FanoutTries} \subseteq Nat \ {0}
  /\ {MaxEvents, MaxLive} \subseteq Nat
  /\ Overlap \in BOOLEAN /\ First \in Channel
  /\ PoolsOf \in [{"health", "rotation", "notice", "test"} -> SUBSET Pool]

VARIABLES
  health,    \* the row of address_health_states and the policy it belongs to
  rotation,  \* the stage of the incident: what its event id is made of
  held,      \* notices that are committed and not yet queued
  channels,  \* enabled and isDefault of the channels there are
  removed,   \* history: the channels there were, whose ids are not given again
  links,     \* pool_notification_channels: <<pool, channel>> to its settings
  rows,      \* notification_deliveries: <<event, channel>> to status, attempts
  fanouts,   \* the fanout jobs that Redis holds, by event
  jobs,      \* the delivery jobs that Redis holds, by <<kind, row, attempts>>
  lock,      \* masterdns:notification-lock: the locked rows and their jobs
  got,       \* history: how often the message of a row reached its receiver,
             \* less the times that it was left unknown whether, or who, sent it
  events

source == <<health, rotation, held>>
setup  == <<channels, removed, links>>
queue  == <<fanouts, jobs>>
notifyVars   == <<source, setup, rows, queue, lock, got, events>>

------------------------------------------------------------------------------
(* Events.                                                                 *)

Stage == {"running", "paused", "complete", "terminated"}
Says  == {"confirmed", "insufficient", "all_down", "test"} \cup Stage

EventOf(s, n, w) == [source |-> s, at |-> n, says |-> w]
\* The latest decision of a health state: a failure or a recovery that the
\* thresholds confirm, too few valid probes, or neither.
Finding == {"confirmed", "insufficient", "nothing"}

Event == {EventOf(s, n, w) :
            s \in DOMAIN PoolsOf, n \in 0 .. MaxEvents, w \in Says}
Delivery == Event \X Channel

\* What a health state says of its target: a confirmed failure or recovery
\* only under the policy it was found with, and nothing without a policy.
HealthSays(h) ==
  IF h.policy = "current" THEN {h.found} \ {"nothing"}
  ELSE IF h.policy = "edited" THEN {h.found} \cap {"insufficient"} ELSE {}

\* Mutant of HealthEvents: the id does not hold the time of the change.
HealthEventsUntimed(h) == {EventOf("health", 0, w) : w \in HealthSays(h)}

\* healthEvent: the id holds the time of the last change.
HealthEvents(h) == {EventOf("health", h.changed, w) : w \in HealthSays(h)}

\* rotationEvent: every stage has its event; an incident that comes back to
\* a stage has the id it had before.
RotationEvents(s) == {EventOf("rotation", 0, s)} \ {EventOf("rotation", 0, "none")}

------------------------------------------------------------------------------
(* The queue.                                                              *)

FanoutJob == [state |-> "waiting", todo |-> {}, ready |-> {}, fails |-> 0]
DeliverJob(max) ==
  [state |-> "waiting", phase |-> "none", read |-> 0, fails |-> 0, max |-> max]
\* Queue.add: an id that is held, live or retained, is left alone.
AddFanouts(new) ==
  [e \in DOMAIN fanouts \cup new |-> IF e \in DOMAIN fanouts THEN fanouts[e] ELSE FanoutJob]

\* The tries left to a job that is added for a row with n attempts.
TriesLeft(n) == IF MaxTries > n THEN MaxTries - n ELSE 1
AddJobs(ids) ==
  [i \in DOMAIN jobs \cup ids |->
     IF i \in DOMAIN jobs THEN jobs[i] ELSE DeliverJob(TriesLeft(i[3]))]

\* A job that has finished or failed for good.
OverJob == [state |-> "over", phase |-> "none", read |-> 0, fails |-> 0, max |-> 1]
Live(d) == {i \in DOMAIN jobs : i[2] = d /\ jobs[i].state # "over"}
Open == {"pending", "retrying"}

Put(f, x, y) == [z \in DOMAIN f \cup {x} |-> IF z = x THEN y ELSE f[z]]
Without(f, S) == [x \in DOMAIN f \ S |-> f[x]]
\* The change of the count of S, which drops out of got when it is zero.
Counted(S, n) ==
  LET count == [d \in DOMAIN got \cup S |->
        (IF d \in DOMAIN got THEN got[d] ELSE 0) + (IF d \in S THEN n ELSE 0)]
  IN Without(count, {d \in DOMAIN count : count[d] = 0})

HealthRow == [found : Finding, changed : 0 .. MaxEvents,
              policy : {"current", "edited", "gone"}]
ChannelRow == [enabled : BOOLEAN, default : BOOLEAN]
DeliveryRow == [status : {"pending", "retrying", "delivered", "failed"},
                attempts : Nat]

NotifyTypeOK ==
  /\ health \in HealthRow
  /\ rotation \in Stage \cup {"none"}
  /\ held \subseteq Event
  /\ DOMAIN channels \subseteq Channel \ removed /\ removed \subseteq Channel
  /\ \A c \in DOMAIN channels : channels[c] \in ChannelRow
  /\ DOMAIN links \subseteq Pool \X DOMAIN channels
  /\ DOMAIN rows \subseteq Delivery
  /\ \A d \in DOMAIN rows : rows[d] \in DeliveryRow
  /\ DOMAIN fanouts \subseteq Event
  /\ DOMAIN lock \subseteq Delivery

NotifyInit ==
  /\ health = [found |-> "insufficient", changed |-> 0, policy |-> "gone"]
  /\ rotation = "none"
  /\ held = {}
  /\ channels = [c \in {First} |-> [enabled |-> TRUE, default |-> TRUE]]
  /\ removed = {}
  /\ links = <<>> /\ rows = <<>> /\ fanouts = <<>> /\ jobs = <<>>
  /\ lock = <<>> /\ got = <<>>
  /\ events = 0

------------------------------------------------------------------------------
(* What there is to tell.                                                  *)

Happens == events < MaxEvents /\ events' = events + 1

AtRest ==
  /\ \A e \in DOMAIN fanouts : fanouts[e].state \in {"done", "failed"}
  /\ \A i \in DOMAIN jobs : jobs[i] = OverJob
  /\ \A d \in DOMAIN rows : rows[d].status \in {"delivered", "failed"}

\* A change of one source, when what the others have to tell is queued.
Move(others) ==
  /\ Overlap \/ (AtRest /\ others \subseteq DOMAIN fanouts)
  /\ Happens
Told == UNCHANGED <<setup, rows, queue, lock, got>>

\* A round of the probes, the first of a policy or of an edited one included
\* (applyRound): the time of the last change moves with the decision or the
\* state.
Round ==
  /\ Move(RotationEvents(rotation) \cup held)
  /\ \E f \in Finding \ {health.found} :
       health' = [found |-> f, policy |-> "current", changed |-> events']
  /\ UNCHANGED <<rotation, held>> /\ Told

\* The policy is edited or deleted: its evidence is reset.
EditPolicy ==
  /\ Move(RotationEvents(rotation) \cup held)
  /\ \E p \in {"edited", "gone"} :
       health' = [found |-> "insufficient", policy |-> p, changed |-> events']
  /\ UNCHANGED <<rotation, held>> /\ Told

\* An incident begins, is paused, resumed, completed or terminated.
Rotate ==
  /\ Move(HealthEvents(health) \cup held)
  /\ \/ rotation = "none" /\ rotation' = "running"
     \/ rotation = "running" /\ rotation' \in Stage \ {"running"}
     \/ rotation = "paused" /\ rotation' \in {"running", "terminated"}
  /\ UNCHANGED <<health, held>> /\ Told

\* The end of an operation or a due reminder of a pool without healthy
\* endpoints: the event is committed, and queued only afterwards.
Notice ==
  /\ Move(HealthEvents(health) \cup RotationEvents(rotation))
  /\ held' = held \cup {EventOf("notice", events', "all_down")}
  /\ UNCHANGED <<health, rotation>> /\ Told

QueueNotice(e) ==
  /\ e \in held
  /\ held' = held \ {e}
  /\ fanouts' = AddFanouts({e})
  /\ UNCHANGED <<health, rotation, setup, rows, jobs, lock, got, events>>

\* scanHealth and scanRotations: the states there are, queued by event id.
ScanHealth ==
  /\ HealthEvents(health) \ DOMAIN fanouts # {}
  /\ fanouts' = AddFanouts(HealthEvents(health))
  /\ UNCHANGED <<source, setup, rows, jobs, lock, got, events>>

ScanRotations ==
  /\ RotationEvents(rotation) \ DOMAIN fanouts # {}
  /\ fanouts' = AddFanouts(RotationEvents(rotation))
  /\ UNCHANGED <<source, setup, rows, jobs, lock, got, events>>

------------------------------------------------------------------------------
(* The requests about channels.                                            *)

Kept == UNCHANGED <<source, fanouts, lock, got>>

\* create and update: a channel is enabled or not, a default or not.
SaveChannel(c) ==
  /\ Happens
  /\ c \notin removed
  /\ \E on, default \in BOOLEAN :
       channels' = Put(channels, c, [enabled |-> on, default |-> default])
  /\ channels' # channels
  /\ UNCHANGED <<removed, links, rows, jobs>> /\ Kept

\* remove: its links and its deliveries go with it.
RemoveChannel(c) ==
  /\ Happens
  /\ c \in DOMAIN channels
  /\ channels' = Without(channels, {c})
  /\ removed' = removed \cup {c}
  /\ links' = Without(links, Pool \X {c})
  /\ rows' = Without(rows, Event \X {c})
  /\ UNCHANGED jobs /\ Kept

\* linkPool: the events a pool sends to the channel (all of them when it
\* names none), and whether they replace the default channels.
LinkPool(p, c) ==
  /\ Happens
  /\ c \in DOMAIN channels
  /\ \E only \in {{}, {"confirmed"}}, overrides \in BOOLEAN :
       links' = Put(links, <<p, c>>, [only |-> only, overrides |-> overrides])
  /\ UNCHANGED <<channels, removed, rows, jobs>> /\ Kept

UnlinkPool(p, c) ==
  /\ Happens
  /\ <<p, c>> \in DOMAIN links
  /\ links' = Without(links, {<<p, c>>})
  /\ UNCHANGED <<channels, removed, rows, jobs>> /\ Kept

\* test: a delivery of its own, without a fanout; the process may stop before
\* its job is queued.
TestChannel(c) ==
  /\ Happens
  /\ c \in DOMAIN channels
  /\ LET d == <<EventOf("test", events', "test"), c>> IN
     /\ rows' = Put(rows, d, [status |-> "pending", attempts |-> 0])
     /\ jobs' \in {jobs, AddJobs({<<"test", d, 0>>})}
  /\ UNCHANGED setup /\ Kept

------------------------------------------------------------------------------
(* The fanout of an event.                                                 *)

\* The channels of an event: those its pools are linked to, and the default
\* ones unless every pool of the event replaces them.
Matching(e, p) ==
  {c \in DOMAIN channels :
     /\ <<p, c>> \in DOMAIN links /\ channels[c].enabled
     /\ links[p, c].only = {} \/ e.says \in links[p, c].only}
IncludesDefaults(e) ==
  LET pools == PoolsOf[e.source] IN
  pools = {} \/ \E p \in pools : \A c \in Matching(e, p) : ~links[p, c].overrides
Selected(e) ==
  {c \in DOMAIN channels :
     \/ IncludesDefaults(e) /\ channels[c].enabled /\ channels[c].default
     \/ \E p \in PoolsOf[e.source] : c \in Matching(e, p)}

Running(e) == e \in DOMAIN fanouts /\ fanouts[e].state = "active"

FanoutBegins(e) ==
  /\ e \in DOMAIN fanouts /\ fanouts[e].state = "waiting"
  /\ fanouts' = [fanouts EXCEPT ![e].state = "active", ![e].todo = Selected(e),
                                ![e].ready = {}]
  /\ UNCHANGED <<source, setup, rows, jobs, lock, got, events>>

\* The row of one channel: inserted, or found and still to be delivered.
FanoutInserts(e, c) ==
  /\ Running(e) /\ c \in fanouts[e].todo /\ c \in DOMAIN channels
  /\ LET d   == <<e, c>>
         row == IF d \in DOMAIN rows THEN rows[d]
                ELSE [status |-> "pending", attempts |-> 0]
     IN /\ rows' = Put(rows, d, row)
        /\ fanouts' = [fanouts EXCEPT
             ![e].todo = @ \ {c},
             ![e].ready = IF row.status \in Open THEN @ \cup {<<d, row.attempts>>}
                          ELSE @]
  /\ UNCHANGED <<source, setup, jobs, lock, got, events>>

FanoutQueues(e) ==
  /\ Running(e) /\ fanouts[e].todo = {}
  /\ jobs' = AddJobs({<<"deliver", r[1], r[2]>> : r \in fanouts[e].ready})
  /\ fanouts' = [fanouts EXCEPT ![e].state = "done", ![e].ready = {}]
  /\ UNCHANGED <<source, setup, rows, lock, got, events>>

\* A try of the job fails: it is tried again or kept as failed.
FanoutAgain(e) ==
  LET n == fanouts[e].fails + 1 IN
  fanouts' = [fanouts EXCEPT ![e] =
    [state |-> IF n < FanoutTries THEN "waiting" ELSE "failed", todo |-> {},
     ready |-> {}, fails |-> n]]

\* The channel is gone: the insertion of its row fails.
FanoutRefused(e, c) ==
  /\ Running(e) /\ c \in fanouts[e].todo /\ c \notin DOMAIN channels
  /\ FanoutAgain(e)
  /\ UNCHANGED <<source, setup, rows, jobs, lock, got, events>>

------------------------------------------------------------------------------
(* Deliveries.                                                             *)

Sending(i) == i \in DOMAIN jobs /\ jobs[i].state = "active"
Unlocked(i) == IF i[2] \in DOMAIN lock /\ lock[i[2]] = i
               THEN Without(lock, {i[2]}) ELSE lock

\* A job that is over stays under its id, unless Redis has lost it; the id
\* of a recovery job names its slot and is never added again.
Over(i) == IF jobs[i].max = 0 \/ i[1] = "recover" THEN Without(jobs, {i})
           ELSE Put(jobs, i, OverJob)

\* Mutant of Unneeded: a delivered row is sent again.
UnneededIfGone(d) == d \notin DOMAIN rows
\* What a job finds once it has the lock of its row.
Unneeded(d) == d \notin DOMAIN rows \/ rows[d].status = "delivered"

\* deliver and the first half of deliverLocked: without the lock, for a row
\* that is delivered or gone or whose channel is disabled, the job is over.
DeliverBegins(i) ==
  LET d == i[2] IN
  /\ i \in DOMAIN jobs /\ jobs[i].state = "waiting"
  /\ IF d \in DOMAIN lock \/ Unneeded(d)
       THEN jobs' = Over(i) /\ UNCHANGED <<rows, lock>>
     ELSE IF ~channels[d[2]].enabled
       THEN /\ jobs' = Over(i)
            /\ rows' = [rows EXCEPT ![d].status = "failed"]
            /\ UNCHANGED lock
     ELSE /\ jobs' = [jobs EXCEPT ![i].state = "active", ![i].phase = "send",
                                  ![i].read = rows[d].attempts]
          /\ lock' = Put(lock, d, i)
          /\ UNCHANGED rows
  /\ UNCHANGED <<source, setup, fanouts, got, events>>

\* The message reaches its receiver, or the call fails: it may have reached it
\* all the same, which nobody knows.
DeliverSends(i) ==
  /\ Sending(i) /\ jobs[i].phase = "send"
  /\ \/ /\ jobs' = [jobs EXCEPT ![i].phase = "sent"]
        /\ got' = Counted({i[2]}, 1)
     \/ /\ jobs' = [jobs EXCEPT ![i].phase = "error"]
        /\ UNCHANGED got
  /\ UNCHANGED <<source, setup, rows, fanouts, lock, events>>

\* The status is saved over whatever the row holds by now, the lock is given
\* back if it is still the job's, and a failed try is tried again.
Write(d, status, n) ==
  IF d \in DOMAIN rows
    THEN rows' = [rows EXCEPT ![d] = [status |-> status, attempts |-> n]]
    ELSE UNCHANGED rows

SaveDelivered(i) ==
  /\ Sending(i) /\ jobs[i].phase = "sent"
  /\ Write(i[2], "delivered", jobs[i].read + 1)
  /\ jobs' = Over(i)
  /\ lock' = Unlocked(i)
  /\ UNCHANGED <<source, setup, fanouts, got, events>>

SaveError(i) ==
  LET j == jobs[i]
      last == j.fails + 1 >= j.max
  IN
  /\ Sending(i) /\ j.phase = "error"
  /\ Write(i[2], IF last \/ j.read + 1 >= MaxTries THEN "failed" ELSE "retrying",
           j.read + 1)
  /\ jobs' = IF last THEN Over(i)
             ELSE Put(jobs, i, [DeliverJob(j.max) EXCEPT !.fails = j.fails + 1])
  /\ lock' = Unlocked(i)
  /\ UNCHANGED <<source, setup, fanouts, got, events>>

------------------------------------------------------------------------------
(* The recovery of deliveries, every 30 seconds.                           *)

\* Mutant of Due: only rows that wait for a retry are recovered.
DueIfRetrying == {d \in DOMAIN rows : rows[d].status = "retrying"}
Due == {d \in DOMAIN rows : rows[d].status \in Open}

RecoverJob(d) == <<"recover", d, rows[d].attempts>>

\* recoverDeliveries: rows out of tries have failed, for the others a job is
\* added, unless the one of an earlier slot is still live (bound: one, and
\* MaxLive of the row).
Recover ==
  LET spent == {d \in Due : rows[d].attempts >= MaxTries}
      ids   == {RecoverJob(d) : d \in
                  {x \in Due \ spent : Cardinality(Live(x)) < MaxLive}}
  IN
  /\ spent # {} \/ ~(ids \subseteq DOMAIN jobs)
  /\ rows' = [d \in DOMAIN rows |->
       IF d \in spent THEN [rows[d] EXCEPT !.status = "failed"] ELSE rows[d]]
  /\ jobs' = AddJobs(ids)
  /\ UNCHANGED <<source, setup, fanouts, lock, got, events>>

------------------------------------------------------------------------------
(* What goes wrong.                                                        *)

Active == {i \in DOMAIN jobs : jobs[i].state = "active"}

\* The worker stops: its jobs are found stalled and wait again, what was
\* committed and not queued is lost, the locks stay.
Crash ==
  /\ Happens
  /\ held' = {}
  /\ fanouts' = [e \in DOMAIN fanouts |->
       IF Running(e) THEN [FanoutJob EXCEPT !.fails = fanouts[e].fails]
       ELSE fanouts[e]]
  /\ jobs' = [i \in {k \in DOMAIN jobs : jobs[k].max > 0} |->
       IF Sending(i) THEN [jobs[i] EXCEPT !.state = "waiting", !.phase = "none",
                                          !.read = 0]
       ELSE jobs[i]]
  /\ got' = Counted({i[2] : i \in {k \in Active : jobs[k].phase = "sent"}}, -1)
  /\ UNCHANGED <<health, rotation, setup, rows, lock>>

\* Redis loses everything it holds, the locks of what is being sent included;
\* what runs goes on.
LoseRedis ==
  /\ Happens
  /\ fanouts' = <<>>
  /\ jobs' = [i \in Active |-> [jobs[i] EXCEPT !.max = 0]]
  /\ lock' = <<>>
  /\ got' = Counted({i[2] : i \in Active}, -1)
  /\ UNCHANGED <<source, setup, rows>>

\* A query or an addition of a fanout fails.
FanoutFails(e) ==
  /\ Happens
  /\ Running(e)
  /\ FanoutAgain(e)
  /\ UNCHANGED <<source, setup, rows, jobs, lock, got>>

\* A finished job is forgotten once enough others have finished after it.
Forget(e) ==
  /\ Happens
  /\ e \in DOMAIN fanouts /\ fanouts[e].state \in {"done", "failed"}
  /\ fanouts' = Without(fanouts, {e})
  /\ UNCHANGED <<source, setup, rows, jobs, lock, got>>

\* The lock of a row runs out, of a job that is gone or of a slow one.
LockExpires(d) ==
  /\ d \in DOMAIN lock
  /\ lock' = Without(lock, {d})
  /\ IF Sending(lock[d]) THEN Happens /\ got' = Counted({d}, -1)
                         ELSE UNCHANGED <<events, got>>
  /\ UNCHANGED <<source, setup, rows, queue>>

------------------------------------------------------------------------------
Watched == Round \/ EditPolicy \/ Rotate \/ Notice
User == \E c \in Channel :
          \/ SaveChannel(c) \/ RemoveChannel(c) \/ TestChannel(c)
          \/ \E p \in Pool : LinkPool(p, c) \/ UnlinkPool(p, c)
Fanout(e) ==
  \/ FanoutBegins(e) \/ FanoutQueues(e)
  \/ \E c \in Channel : FanoutInserts(e, c) \/ FanoutRefused(e, c)
DeliverGoesOn(i) == DeliverSends(i) \/ SaveDelivered(i) \/ SaveError(i)
Stale(d) == LockExpires(d) /\ UNCHANGED events
Environment == Crash \/ LoseRedis \/ \E e \in DOMAIN fanouts : FanoutFails(e) \/ Forget(e)

NotifyNext ==
  \/ Watched \/ User \/ ScanHealth \/ ScanRotations \/ Recover
  \/ \E e \in held : QueueNotice(e)
  \/ \E e \in DOMAIN fanouts : Fanout(e)
  \/ \E i \in DOMAIN jobs : DeliverBegins(i) \/ DeliverGoesOn(i)
  \/ \E d \in DOMAIN lock : LockExpires(d)
  \/ Environment

\* The timers of the scanner and of the recovery fire again and again, the
\* worker takes what waits, calls end, and locks run out.
NotifyFairness ==
  /\ WF_notifyVars(ScanHealth) /\ WF_notifyVars(ScanRotations)
  /\ WF_notifyVars(Recover)
  /\ WF_notifyVars(\E e \in DOMAIN fanouts : Fanout(e))
  /\ WF_notifyVars(\E i \in DOMAIN jobs : DeliverBegins(i))
  /\ WF_notifyVars(\E i \in DOMAIN jobs : DeliverGoesOn(i))
  /\ WF_notifyVars(\E d \in DOMAIN lock : Stale(d))

NotifySpec == NotifyInit /\ [][NotifyNext]_notifyVars /\ NotifyFairness

------------------------------------------------------------------------------
(* Properties.                                                             *)

\* A message reaches its receiver a second time only for a cause: a call that
\* failed and had been received, a crash between the call and its record, a
\* lock that ran out under a slow call, or the loss of Redis under one.  The
\* recovery, a fanout that is run again and a job that outlives the retries
\* of another one are no causes (ARCHITECTURE.md:258).
DuplicateHasCause == \A d \in DOMAIN got : got[d] <= 1

\* Every delivery is made or given up, whatever jobs are lost, stalled or
\* turned away by the lock of a call that will never end.
DeliveriesEnd ==
  (\E d \in DOMAIN rows : rows[d].status \in Open)
    ~> (\A d \in DOMAIN rows : rows[d].status \notin Open)

\* What an owner must hear of: the target is down, or the incident of it has
\* come to a stage; each change to a failure is news of its own.
News ==
  {EventOf("health", health.changed, "confirmed") :
     x \in {health} \cap [found : {"confirmed"}, changed : Nat, policy : {"current"}]}
  \cup {EventOf("rotation", 0, s) : s \in {rotation} \ {"none"}}

Spread(e) == \E c \in Channel : <<e, c>> \in DOMAIN rows
GivenUp(e) == e \in DOMAIN fanouts /\ fanouts[e].state \in {"done", "failed"}
Reachable == \E c \in DOMAIN channels : channels[c].enabled /\ channels[c].default

\* Such a state is told to a channel as long as it lasts and the owner has a
\* default one, through crashes and the loss of Redis (DEPLOYMENT.md:197).
\* The exceptions are a fanout that found no channel, or that failed for
\* good: their jobs are held and the scanner does not replace them.
EventsAreTold ==
  (\E e \in News : Reachable /\ ~Spread(e))
    ~> (\A e \in News : Reachable => Spread(e) \/ GivenUp(e))
=============================================================================
