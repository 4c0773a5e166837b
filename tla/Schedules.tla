----------------------------- MODULE Schedules -----------------------------
(***************************************************************************)
(* The schedule of one address slot: the rows of rotation_schedules and of *)
(* the slot's rotation_incidents under the requests of users               *)
(* (rotation-schedules.service.ts, rotation.service.ts), the scan of the   *)
(* scheduler (rotation-scheduler.service.ts, rotation-schedules.ts) and    *)
(* the jobs that run an incident (rotation-recovery.service.ts, the        *)
(* processor).  What an incident does is the subject of Rotation: here it  *)
(* goes on, stops or completes.                                            *)
(*                                                                         *)
(* A schedule compares updated_at of an incident with the one it has       *)
(* handled: fresh says that they are equal.  A request with an old         *)
(* revision of the schedule is refused and has no action.                  *)
(***************************************************************************)
EXTENDS Integers

CONSTANTS
  NoIncident,
  MaxIncidents,   \* bound: incidents of the slot
  MaxEvents       \* bound: requests of users, lost jobs and crashes

ASSUME SchedulesAssumption ==
  MaxIncidents \in Nat /\ MaxEvents \in Nat /\ NoIncident \notin 1 .. MaxIncidents

Incident == 1 .. MaxIncidents

VARIABLES
  schedule,   \* the row of rotation_schedules; row: it has been written once
  incident,   \* rotation_incidents of the slot, in the order of creation
  obstacle,   \* what stands against a scheduled rotation
  wake,       \* incidents that are committed, their job not yet added
  queued,     \* incidents with a job in the queue
  unseen,     \* stops that no pause of the schedule and no user has answered
  events

scheduleVars == <<schedule, incident, obstacle, wake, queued, unseen, events>>

Obstacle == {"none", "prerequisite", "authorization", "grant"}
Ongoing(i) == incident[i].status \in {"active", "stopped"}
Complete(i) == incident[i].status = "complete"

ScheduleRow ==
  [row : BOOLEAN, enabled : BOOLEAN, paused : BOOLEAN, next : {"none", "later", "due"},
   active : Incident \cup {NoIncident}, handled : Incident \cup {NoIncident}, fresh : BOOLEAN]
IncidentRow ==
  [status : {"none", "active", "stopped", "complete"}, terminated : BOOLEAN,
   trigger : {"scheduled", "other"}, run : BOOLEAN]

ScheduleTypeOK ==
  /\ schedule \in ScheduleRow
  /\ incident \in [Incident -> IncidentRow]
  /\ obstacle \in Obstacle
  /\ wake \subseteq Incident /\ queued \subseteq Incident /\ unseen \subseteq Incident
  /\ events \in 0 .. MaxEvents

ScheduleInit ==
  /\ schedule = [row |-> FALSE, enabled |-> FALSE, paused |-> FALSE, next |-> "none",
                 active |-> NoIncident, handled |-> NoIncident, fresh |-> FALSE]
  /\ incident = [i \in Incident |-> [status |-> "none", terminated |-> FALSE,
                                     trigger |-> "other", run |-> FALSE]]
  /\ obstacle = "none" /\ wake = {} /\ queued = {} /\ unseen = {} /\ events = 0

Happens == events < MaxEvents /\ events' = events + 1

\* One incident at a time is not complete, so they complete in their order.
IsLatest(i) == Complete(i) /\ \A j \in Incident : Complete(j) => j <= i
Latest == IF \E i \in Incident : Complete(i) THEN CHOOSE i \in Incident : IsLatest(i)
                                             ELSE NoIncident

-----------------------------------------------------------------------------
(* Requests for the schedule.                                              *)

\* validateEnabled: an incident that is linked has passed the prerequisites.
Valid == /\ obstacle \notin {"authorization", "grant"}
         /\ schedule.active = NoIncident => obstacle = "none"

\* Mutant of Linked: a completed incident is forgotten however it was completed.
LinkedNever(i) == IF i # NoIncident /\ Complete(i) THEN NoIncident ELSE i

\* A success that the user sees belongs to the baseline, a termination does not.
Linked(i) ==
  IF i # NoIncident /\ Complete(i) /\ ~incident[i].terminated THEN NoIncident ELSE i

\* PATCH: enabled or the interval changes.
Update(on) ==
  LET link == Linked(schedule.active)
      baseline == link = NoIncident /\ Latest # NoIncident
  IN  /\ Happens
      /\ on => Valid
      /\ schedule' = [schedule EXCEPT
           !.row = TRUE, !.enabled = on, !.active = link,
           !.next = IF on THEN "later" ELSE "none",
           !.handled = IF baseline THEN Latest ELSE @,
           !.fresh = IF baseline THEN TRUE ELSE @]
      /\ unseen' = {i \in unseen : ~Complete(i) \/ i = schedule.active}
      /\ UNCHANGED <<incident, obstacle, wake, queued>>

\* The observation that a resumption consumes.
Observed(link) == IF link # NoIncident THEN link ELSE Latest

Resumed ==
  LET link == IF schedule.active # NoIncident /\ Complete(schedule.active)
                THEN NoIncident ELSE schedule.active
      seen == Observed(link)
  IN  [schedule EXCEPT
         !.paused = FALSE, !.next = "later", !.active = link,
         !.handled = IF seen # NoIncident THEN seen ELSE @,
         !.fresh = IF seen # NoIncident THEN TRUE ELSE @]

Resume ==
  /\ Happens
  /\ schedule.row /\ schedule.enabled /\ schedule.paused /\ Valid
  /\ schedule' = Resumed
  /\ unseen' = {i \in unseen : ~Complete(i) /\ i # schedule'.handled}
  /\ UNCHANGED <<incident, obstacle, wake, queued>>

\* Grants, policies, addresses and other managers change what stands against it.
Hinder ==
  /\ Happens
  /\ obstacle' \in Obstacle
  /\ UNCHANGED <<schedule, incident, wake, queued, unseen>>

TimePasses ==
  /\ schedule.next = "later"
  /\ schedule' = [schedule EXCEPT !.next = "due"]
  /\ UNCHANGED <<incident, obstacle, wake, queued, unseen, events>>

-----------------------------------------------------------------------------
(* The scan.                                                               *)

\* The linked incident, else the one that is not complete, else the latest.
Subject ==
  IF schedule.active # NoIncident THEN schedule.active
  ELSE IF \E i \in Incident : Ongoing(i) THEN CHOOSE i \in Incident : Ongoing(i)
  ELSE Latest

Handled(i) == schedule.handled = i /\ schedule.fresh
Stopped(i) == incident[i].terminated \/ incident[i].status = "stopped"

\* A stop pauses the schedule once.
AfterStop(i) ==
  IF Handled(i)
    THEN [schedule EXCEPT !.active = IF Complete(i) THEN NoIncident ELSE @]
    ELSE [schedule EXCEPT !.active = IF Complete(i) THEN NoIncident ELSE i,
                          !.handled = i, !.fresh = TRUE, !.paused = TRUE, !.next = "none"]

\* The deadline counts from the completion and may be over when it is seen.
AfterSuccess(i, deadline) ==
  [schedule EXCEPT !.active = NoIncident, !.handled = i, !.fresh = TRUE,
     !.next = IF schedule.enabled /\ ~schedule.paused THEN deadline ELSE "none"]

\* Mutant of Reconciled: a completion is accounted for each time it is read.
ReconciledAgain(deadline) ==
  IF Subject = NoIncident THEN schedule
  ELSE IF Stopped(Subject) THEN AfterStop(Subject)
  ELSE IF Complete(Subject) THEN AfterSuccess(Subject, deadline)
  ELSE [schedule EXCEPT !.active = Subject]

\* reconcileRotationSchedule
Reconciled(deadline) ==
  LET i == Subject
  IN  IF i = NoIncident \/ (Complete(i) /\ schedule.active = NoIncident /\ schedule.handled = i)
        THEN schedule
      ELSE IF Stopped(i) THEN AfterStop(i)
      ELSE IF Complete(i) THEN AfterSuccess(i, deadline)
      ELSE [schedule EXCEPT !.active = i]

Admissible(s) == s.enabled /\ ~s.paused /\ s.active = NoIncident /\ s.next = "due"

Begin(i, trigger) ==
  incident' = [incident EXCEPT ![i] = [status |-> "active", terminated |-> FALSE,
                                       trigger |-> trigger, run |-> FALSE]]

IsNew(i) == incident[i].status = "none" /\ \A j \in Incident : j < i => Complete(j)

\* What createScheduledRotationIncident finds, in its order.  A missing grant for
\* a temporary instance is no error that the scan expects: it is rolled back.
Admit(s) ==
  \/ /\ ~Admissible(s)
     /\ schedule' = s /\ UNCHANGED <<incident, wake>>
  \/ /\ Admissible(s) /\ obstacle = "prerequisite"
     /\ schedule' = [s EXCEPT !.paused = TRUE, !.next = "none"]
     /\ UNCHANGED <<incident, wake>>
  \/ /\ Admissible(s) /\ obstacle # "prerequisite" /\ \E i \in Incident : Ongoing(i)
     /\ schedule' = s /\ UNCHANGED <<incident, wake>>
  \/ /\ Admissible(s) /\ obstacle = "authorization" /\ \A i \in Incident : ~Ongoing(i)
     /\ schedule' = [s EXCEPT !.paused = TRUE, !.next = "none"]
     /\ UNCHANGED <<incident, wake>>
  \/ /\ Admissible(s) /\ obstacle = "grant" /\ \A i \in Incident : ~Ongoing(i)
     /\ UNCHANGED <<schedule, incident, wake>>
  \/ /\ Admissible(s) /\ obstacle = "none"
     /\ \E i \in Incident :
          /\ IsNew(i)
          /\ Begin(i, "scheduled")
          /\ schedule' = [s EXCEPT !.active = i, !.next = "none"]
          /\ wake' = wake \cup {i}

\* One transaction: reconcile, then admit what is due.
Scan ==
  /\ schedule.row
  /\ \E deadline \in {"later", "due"} : Admit(Reconciled(deadline))
  /\ unseen' = IF schedule'.paused THEN {i \in unseen : i # schedule'.handled} ELSE unseen
  /\ UNCHANGED <<obstacle, queued, events>>

\* After the commit; a crash in between loses it.
Wake(i) ==
  /\ i \in wake
  /\ wake' = wake \ {i} /\ queued' = queued \cup {i}
  /\ UNCHANGED <<schedule, incident, obstacle, unseen, events>>

SchedulerDies ==
  /\ Happens
  /\ wake # {} /\ wake' = {}
  /\ UNCHANGED <<schedule, incident, obstacle, queued, unseen>>

LoseJob(i) ==
  /\ Happens
  /\ i \in queued /\ queued' = queued \ {i}
  /\ UNCHANGED <<schedule, incident, obstacle, wake, unseen>>

\* The rows, not the queue, say what is due.
Recover(i) ==
  /\ Ongoing(i) /\ i \notin queued
  /\ queued' = queued \cup {i}
  /\ UNCHANGED <<schedule, incident, obstacle, wake, unseen, events>>

-----------------------------------------------------------------------------
(* Incidents.                                                              *)

\* updated_at of an incident changes: what was handled of it is no longer.
Bumped(i) == [schedule EXCEPT !.fresh = @ /\ schedule.handled # i]

\* A failure of the health of the address, or a user, begins one as well.
StartOther(i) ==
  /\ Happens
  /\ IsNew(i) /\ obstacle \notin {"authorization", "grant"}
  /\ Begin(i, "other")
  /\ wake' = wake \cup {i}
  /\ UNCHANGED <<schedule, obstacle, queued, unseen>>

Goes(i, status) ==
  incident' = [incident EXCEPT ![i].status = status, ![i].run = TRUE]

\* It goes on, by itself also after a stop that is retried, or completes.
Proceeds(i) ==
  /\ \E status \in {"active", "complete"} : Goes(i, status)
  /\ schedule' = Bumped(i) /\ unseen' = unseen \ {i}

\* It pauses, is exhausted or has another reason to; a probe of a paused
\* candidate writes its row as well.
Stops(i) ==
  /\ Goes(i, "stopped")
  /\ schedule' = Bumped(i) /\ unseen' = unseen \cup {i}

\* The same stop again leaves updated_at alone.
Repeats(i) == /\ incident[i].status = "stopped" /\ Goes(i, "stopped")
              /\ UNCHANGED <<schedule, unseen>>

\* A reset recovery without retries left does not write updated_at either.
ExhaustsQuietly(i) == /\ incident[i].status = "active" /\ Goes(i, "stopped")
                      /\ unseen' = unseen \cup {i} /\ UNCHANGED schedule

\* A job: it is removed from the queue whatever comes of it.
Run(i) ==
  /\ i \in queued /\ queued' = queued \ {i}
  /\ \/ Ongoing(i) /\ (Proceeds(i) \/ Stops(i) \/ Repeats(i) \/ ExhaustsQuietly(i))
     \/ ~Ongoing(i) /\ UNCHANGED <<schedule, incident, unseen>>
  /\ UNCHANGED <<obstacle, wake, events>>

Pause(i) ==
  /\ Happens
  /\ Ongoing(i)
  /\ incident' = [incident EXCEPT ![i].status = "stopped"]
  /\ schedule' = Bumped(i) /\ unseen' = unseen \cup {i}
  /\ UNCHANGED <<obstacle, wake, queued>>

\* It does not resume the schedule.
ResumeIncident(i) ==
  /\ Happens
  /\ incident[i].status = "stopped" /\ obstacle \notin {"authorization", "grant"}
  /\ incident' = [incident EXCEPT ![i].status = "active"]
  /\ schedule' = Bumped(i) /\ unseen' = unseen \ {i}
  /\ wake' = wake \cup {i}
  /\ UNCHANGED <<obstacle, queued>>

Terminate(i) ==
  /\ Happens
  /\ Ongoing(i)
  /\ incident' = [incident EXCEPT ![i].status = "complete", ![i].terminated = TRUE]
  /\ schedule' = Bumped(i) /\ unseen' = unseen \cup {i}
  /\ UNCHANGED <<obstacle, wake, queued>>

\* A reset of the cloud state terminates what is complete, too; it is a stop of
\* what the schedule has not accounted for.
Accounted(i) == Complete(i) /\ schedule.handled = i /\ schedule.active = NoIncident
Reset ==
  LET touched == {i \in Incident : incident[i].status # "none"}
  IN  /\ Happens
      /\ touched # {}
      /\ incident' = [i \in Incident |->
           IF i \in touched THEN [incident[i] EXCEPT !.status = "complete", !.terminated = TRUE]
                            ELSE incident[i]]
      /\ schedule' = [schedule EXCEPT !.fresh = @ /\ schedule.handled \notin touched]
      /\ unseen' = unseen \cup {i \in touched : ~Accounted(i)}
      /\ UNCHANGED <<obstacle, wake, queued>>

-----------------------------------------------------------------------------
ScheduleNext ==
  \/ \E on \in BOOLEAN : Update(on)
  \/ Resume
  \/ Hinder
  \/ TimePasses
  \/ Scan
  \/ SchedulerDies
  \/ Reset
  \/ \E i \in Incident :
       Wake(i) \/ LoseJob(i) \/ Recover(i) \/ Run(i) \/ StartOther(i)
         \/ Pause(i) \/ ResumeIncident(i) \/ Terminate(i)

\* Timers of the scheduler and of the recovery, the queue and the clock go on.
ScheduleFairness ==
  /\ WF_scheduleVars(TimePasses)
  /\ WF_scheduleVars(Scan)
  /\ \A i \in Incident : WF_scheduleVars(Wake(i)) /\ WF_scheduleVars(Recover(i)) /\ WF_scheduleVars(Run(i))

ScheduleSpec == ScheduleInit /\ [][ScheduleNext]_scheduleVars /\ ScheduleFairness

-----------------------------------------------------------------------------
(* Properties.                                                             *)

Begins == \E i \in Incident : /\ incident[i].status = "none"
                              /\ incident'[i].status # "none"
                              /\ incident'[i].trigger = "scheduled"

\* No scheduled rotation begins after one that was stopped until the schedule has
\* been paused for the stop, or the user has changed the schedule and seen it
\* (updateRotationScheduleConfiguration, reconcileRotationSchedule); except in a
\* late scan that accounts for an older completion and admits at once.
NoStartOverStop ==
  [][Begins => \/ Latest \notin unseen
               \/ schedule.active # NoIncident /\ schedule.active < Latest]_scheduleVars

Idle == /\ schedule.enabled /\ ~schedule.paused
        /\ \E i \in Incident : IsNew(i)

\* A schedule that waits begins an incident, or pauses and says why, as far as
\* the scan knows the error (prerequisiteErrors, rotation-scheduler.service.ts:10).
ScheduleGoesOn == Idle ~> (~Idle \/ obstacle = "grant" \/ \E i \in Incident : Ongoing(i))

=============================================================================
