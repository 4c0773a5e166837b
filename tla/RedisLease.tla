----------------------------- MODULE RedisLease -----------------------------
(***************************************************************************)
(* The Redis lease of packages/automation/src/dns-zone-lock.ts, which the  *)
(* DNS zone locks and the operation locks are.  One key is modelled: keys  *)
(* do not interact.                                                        *)
(*                                                                         *)
(* A session is one call of withRedisLease: it draws a fresh token, so the *)
(* session is its own token.  Time is discrete; every timer counts down    *)
(* and Tick waits for a timer that is due, i.e. the event loop of a live   *)
(* worker runs a due callback before the next unit of time passes.         *)
(* Commands to Redis take any time: the client only bounds how long it     *)
(* waits for the reply, a command it gave up on may still be executed.     *)
(***************************************************************************)
EXTENDS Integers

CONSTANTS Session,          \* calls of withRedisLease on the key
          NoSession,        \* the key does not exist
          LeaseTime,        \* leaseMs
          WaitTimeout,      \* waitTimeoutMs
          PollInterval,     \* pollIntervalMs
          RefreshInterval,  \* refreshIntervalMs
          CommandTimeout,   \* commandTimeoutMs
          CleanupTimeout    \* cleanupTimeoutMs

Positive == Nat \ {0}

\* positiveOption on every option, and the check of line 61.
ASSUME OptionsAssumption ==
  /\ NoSession \notin Session
  /\ LeaseTime \in Positive /\ WaitTimeout \in Positive
  /\ PollInterval \in Positive /\ RefreshInterval \in Positive
  /\ CommandTimeout \in Positive /\ CleanupTimeout \in Positive
  /\ RefreshInterval + CommandTimeout < LeaseTime

VARIABLES
  holder,   \* the token stored at the key, NoSession when the key is absent
  ttl,      \* time to live of the key in Redis
  pc,       \* where the call of withRedisLease is
  renewal,  \* the renew loop of the call
  lost,     \* lostError is set
  failed,   \* actionFailed
  timer,    \* time left on the timer the call waits for
  wait,     \* time left before the acquisition deadline
  cmd       \* per call and command: where that command is

leaseVars == <<holder, ttl, pc, renewal, lost, failed, timer, wait, cmd>>

Command == {"set", "refresh", "release"}

\* A command is on its way ("sent"), answered and not yet seen by the client
\* ("ok", "no", or "error": the connection failed), or there is none.
CommandState == {"none", "sent", "ok", "no", "error"}

Location == {"idle", "setting", "polling", "action", "draining", "releasing",
             "returned", "threw", "crashed"}

LeaseTypeOK ==
  /\ holder \in Session \cup {NoSession}
  /\ ttl \in 0 .. LeaseTime
  /\ pc \in [Session -> Location]
  /\ renewal \in [Session -> {"stopped", "delay", "command"}]
  /\ lost \in [Session -> BOOLEAN]
  /\ failed \in [Session -> BOOLEAN]
  /\ timer \in [Session -> Nat]
  /\ wait \in [Session -> Nat]
  /\ cmd \in [Session -> [Command -> CommandState]]

LeaseInit ==
  /\ holder = NoSession
  /\ ttl = 0
  /\ pc = [s \in Session |-> "idle"]
  /\ renewal = [s \in Session |-> "stopped"]
  /\ lost = [s \in Session |-> FALSE]
  /\ failed = [s \in Session |-> FALSE]
  /\ timer = [s \in Session |-> 0]
  /\ wait = [s \in Session |-> 0]
  /\ cmd = [s \in Session |-> [c \in Command |-> "none"]]

Least(a, b) == IF a <= b THEN a ELSE b

-----------------------------------------------------------------------------
(* Redis *)

\* What a command does when Redis executes it: the answer.
Answer(s, c) ==
  CASE c = "set" -> IF holder = NoSession THEN "ok" ELSE "no"
    [] OTHER     -> IF holder = s THEN "ok" ELSE "no"

\* Mutant of Effect: the release script deletes the key without comparing tokens.
EffectReleaseUncompared(s, c) ==
  CASE c = "set" /\ holder = NoSession -> holder' = s /\ ttl' = LeaseTime
    [] c = "refresh" /\ holder = s     -> holder' = s /\ ttl' = LeaseTime
    [] c = "release"                   -> holder' = NoSession /\ ttl' = 0
    [] OTHER                           -> UNCHANGED <<holder, ttl>>

Effect(s, c) ==
  CASE c = "set" /\ holder = NoSession -> holder' = s /\ ttl' = LeaseTime
    [] c = "refresh" /\ holder = s     -> holder' = s /\ ttl' = LeaseTime
    [] c = "release" /\ holder = s     -> holder' = NoSession /\ ttl' = 0
    [] OTHER                           -> UNCHANGED <<holder, ttl>>

\* SET NX PX and the two token-comparing scripts are atomic in Redis.  The
\* answer may be lost on its way back.
RedisExecutes(s, c) ==
  /\ cmd[s][c] = "sent"
  /\ Effect(s, c)
  /\ \E answer \in {Answer(s, c), "error"} :
       cmd' = [cmd EXCEPT ![s][c] = answer]
  /\ UNCHANGED <<pc, renewal, lost, failed, timer, wait>>

\* The connection fails before the command reaches Redis.
RedisUnreachable(s, c) ==
  /\ cmd[s][c] = "sent"
  /\ cmd' = [cmd EXCEPT ![s][c] = "error"]
  /\ UNCHANGED <<holder, ttl, pc, renewal, lost, failed, timer, wait>>

-----------------------------------------------------------------------------
(* acquire *)

Throw(s) ==
  /\ pc' = [pc EXCEPT ![s] = "threw"]
  /\ timer' = [timer EXCEPT ![s] = 0]
  /\ wait' = [wait EXCEPT ![s] = 0]

SendSet(s, remaining) ==
  /\ pc' = [pc EXCEPT ![s] = "setting"]
  /\ cmd' = [cmd EXCEPT ![s]["set"] = "sent"]
  /\ timer' = [timer EXCEPT ![s] = Least(remaining, CommandTimeout)]
  /\ wait' = [wait EXCEPT ![s] = remaining]

CallStarts(s) ==
  /\ pc[s] = "idle"
  /\ SendSet(s, WaitTimeout)
  /\ UNCHANGED <<holder, ttl, renewal, lost, failed>>

\* OK: the call enters its action with the renew loop beside it; nil: it waits
\* before the next try or gives up; a failed command: "unavailable".
AcquireAnswered(s) ==
  /\ pc[s] = "setting" /\ cmd[s]["set"] \in {"ok", "no", "error"}
  /\ cmd' = [cmd EXCEPT ![s]["set"] = "none"]
  /\ \/ /\ cmd[s]["set"] = "ok"
        /\ pc' = [pc EXCEPT ![s] = "action"]
        /\ renewal' = [renewal EXCEPT ![s] = "delay"]
        /\ timer' = [timer EXCEPT ![s] = RefreshInterval]
        /\ wait' = [wait EXCEPT ![s] = 0]
     \/ /\ cmd[s]["set"] = "no" /\ wait[s] > 0
        /\ pc' = [pc EXCEPT ![s] = "polling"]
        /\ timer' = [timer EXCEPT ![s] = Least(PollInterval, wait[s])]
        /\ UNCHANGED <<renewal, wait>>
     \/ /\ cmd[s]["set"] = "error" \/ (cmd[s]["set"] = "no" /\ wait[s] = 0)
        /\ Throw(s)
        /\ UNCHANGED renewal
  /\ UNCHANGED <<holder, ttl, lost, failed>>

\* commandWithin rejects: the call throws, the SET stays on its way.
AcquireTimesOut(s) ==
  /\ pc[s] = "setting" /\ timer[s] = 0
  /\ Throw(s)
  /\ UNCHANGED <<holder, ttl, renewal, lost, failed, cmd>>

PollAgain(s) ==
  /\ pc[s] = "polling" /\ timer[s] = 0
  /\ \/ wait[s] > 0 /\ SendSet(s, wait[s])
     \/ wait[s] = 0 /\ Throw(s) /\ UNCHANGED cmd
  /\ UNCHANGED <<holder, ttl, renewal, lost, failed>>

\* The answer of a SET whose caller has timed out: releaseLateAcquisition.
LateSetAnswered(s) ==
  /\ pc[s] = "threw" /\ cmd[s]["set"] \in {"ok", "no", "error"}
  /\ cmd' = [cmd EXCEPT ![s]["set"] = "none",
                        ![s]["release"] = IF cmd[s]["set"] = "ok" THEN "sent" ELSE @]
  /\ UNCHANGED <<holder, ttl, pc, renewal, lost, failed, timer, wait>>

-----------------------------------------------------------------------------
(* renew *)

RenewSends(s) ==
  /\ pc[s] = "action" /\ renewal[s] = "delay" /\ timer[s] = 0
  /\ renewal' = [renewal EXCEPT ![s] = "command"]
  /\ cmd' = [cmd EXCEPT ![s]["refresh"] = "sent"]
  /\ timer' = [timer EXCEPT ![s] = CommandTimeout]
  /\ UNCHANGED <<holder, ttl, pc, lost, failed, wait>>

SendRelease(s) ==
  /\ pc' = [pc EXCEPT ![s] = "releasing"]
  /\ renewal' = [renewal EXCEPT ![s] = "stopped"]
  /\ timer' = [timer EXCEPT ![s] = CleanupTimeout]

\* The renew loop goes on, or stops: with a lost lease, or because the action
\* is over and the call was waiting for it ("draining") before the release.
RenewContinues(s, renewed) ==
  /\ lost' = [lost EXCEPT ![s] = @ \/ ~renewed]
  /\ \/ /\ pc[s] = "action" /\ renewed
        /\ renewal' = [renewal EXCEPT ![s] = "delay"]
        /\ timer' = [timer EXCEPT ![s] = RefreshInterval]
        /\ UNCHANGED pc
     \/ /\ pc[s] = "action" /\ ~renewed
        /\ renewal' = [renewal EXCEPT ![s] = "stopped"]
        /\ timer' = [timer EXCEPT ![s] = 0]
        /\ UNCHANGED pc
     \/ /\ pc[s] = "draining"
        /\ SendRelease(s)

RenewAnswered(s) ==
  /\ renewal[s] = "command" /\ cmd[s]["refresh"] \in {"ok", "no", "error"}
  /\ RenewContinues(s, cmd[s]["refresh"] = "ok")
  /\ cmd' = [cmd EXCEPT ![s]["refresh"] = "none",
                        ![s]["release"] = IF pc[s] = "draining" THEN "sent" ELSE @]
  /\ UNCHANGED <<holder, ttl, failed, wait>>

\* Mutant of RenewTimesOut: a refresh that timed out is tried again later.
RenewTimeoutForgiven(s) ==
  /\ renewal[s] = "command" /\ timer[s] = 0
  /\ RenewContinues(s, TRUE)
  /\ cmd' = [cmd EXCEPT ![s]["release"] = IF pc[s] = "draining" THEN "sent" ELSE @]
  /\ UNCHANGED <<holder, ttl, failed, wait>>

RenewTimesOut(s) ==
  /\ renewal[s] = "command" /\ timer[s] = 0
  /\ RenewContinues(s, FALSE)
  /\ cmd' = [cmd EXCEPT ![s]["release"] = IF pc[s] = "draining" THEN "sent" ELSE @]
  /\ UNCHANGED <<holder, ttl, failed, wait>>

-----------------------------------------------------------------------------
(* The end of the call *)

\* The action resolves (ok) or rejects; assertOwned follows a resolved one.
\* Renewal is aborted: its delay at once, a running command is waited for.
ActionEnds(s, ok) ==
  /\ pc[s] = "action"
  /\ failed' = [failed EXCEPT ![s] = ~ok \/ lost[s]]
  /\ \/ /\ renewal[s] = "command"
        /\ pc' = [pc EXCEPT ![s] = "draining"]
        /\ UNCHANGED <<renewal, timer, cmd>>
     \/ /\ renewal[s] # "command"
        /\ SendRelease(s)
        /\ cmd' = [cmd EXCEPT ![s]["release"] = "sent"]
  /\ UNCHANGED <<holder, ttl, lost, wait>>

Finish(s, nowLost) ==
  /\ lost' = [lost EXCEPT ![s] = nowLost]
  /\ pc' = [pc EXCEPT ![s] = IF failed[s] \/ nowLost THEN "threw" ELSE "returned"]
  /\ timer' = [timer EXCEPT ![s] = 0]

ReleaseAnswered(s) ==
  /\ pc[s] = "releasing" /\ cmd[s]["release"] \in {"ok", "no", "error"}
  /\ Finish(s, lost[s] \/ cmd[s]["release"] = "no")
  /\ cmd' = [cmd EXCEPT ![s]["release"] = "none"]
  /\ UNCHANGED <<holder, ttl, renewal, failed, wait>>

\* Only reported: the outcome of the action stands.
ReleaseTimesOut(s) ==
  /\ pc[s] = "releasing" /\ timer[s] = 0
  /\ Finish(s, lost[s])
  /\ UNCHANGED <<holder, ttl, renewal, failed, wait, cmd>>

\* The worker process dies; what it sent may still be executed.
CallDies(s) ==
  /\ pc[s] \in {"setting", "polling", "action", "draining", "releasing"}
  /\ pc' = [pc EXCEPT ![s] = "crashed"]
  /\ renewal' = [renewal EXCEPT ![s] = "stopped"]
  /\ timer' = [timer EXCEPT ![s] = 0]
  /\ wait' = [wait EXCEPT ![s] = 0]
  /\ UNCHANGED <<holder, ttl, lost, failed, cmd>>

-----------------------------------------------------------------------------
\* A call that has a timer running.
Waiting(s) ==
  \/ pc[s] \in {"setting", "polling", "draining", "releasing"}
  \/ pc[s] = "action" /\ renewal[s] # "stopped"

Down(n) == IF n > 0 THEN n - 1 ELSE 0

\* One unit of time passes; a key whose time to live runs out is gone.
Tick ==
  /\ \A s \in Session : Waiting(s) => timer[s] > 0
  /\ timer' = [s \in Session |-> Down(timer[s])]
  /\ wait' = [s \in Session |-> Down(wait[s])]
  /\ ttl' = Down(ttl)
  /\ holder' = IF ttl' = 0 THEN NoSession ELSE holder
  /\ UNCHANGED <<pc, renewal, lost, failed, cmd>>

CallGoesOn(s) ==
  \/ CallStarts(s) \/ AcquireAnswered(s) \/ AcquireTimesOut(s) \/ PollAgain(s)
  \/ LateSetAnswered(s)
  \/ RenewSends(s) \/ RenewAnswered(s) \/ RenewTimesOut(s)
  \/ \E ok \in BOOLEAN : ActionEnds(s, ok)
  \/ ReleaseAnswered(s) \/ ReleaseTimesOut(s)
  \/ CallDies(s)

Redis(s) == \E c \in Command : RedisExecutes(s, c) \/ RedisUnreachable(s, c)

LeaseNext == Tick \/ \E s \in Session : CallGoesOn(s) \/ Redis(s)

LeaseSpec == LeaseInit /\ [][LeaseNext]_leaseVars

-----------------------------------------------------------------------------
(* Properties *)

\* A call whose action runs and for which assertOwned would not throw.
Owns(s) == pc[s] = "action" /\ ~lost[s]

\* The options line 61 does not ask for and every caller in the repository
\* has: a refresh sent one interval after the last answer, which itself took a
\* command timeout to arrive, is still answered before the lease runs out.
RenewalFits == RefreshInterval + 2 * CommandTimeout < LeaseTime

\* Two calls never both run their action with assertOwned passing: DNS writes
\* of one zone, and jobs of one operation, do not overlap (withRedisLease).
MutualExclusion == \A s, t \in Session : Owns(s) /\ Owns(t) => s = t

\* A call that is not told its lease is lost has the key, with its token: the
\* renew loop notices an expired or overtaken key before the key is gone.
OwnerHasKey == \A s \in Session : Owns(s) => holder = s

\* A key is removed by a release of its own holder or because it expires, never
\* by the late release of a call that has lost it (RELEASE_SCRIPT).
OnlyHolderReleases ==
  [][\A s \in Session :
       holder = s /\ holder' # s => ttl = 1 \/ cmd[s]["release"] = "sent"]_leaseVars

=============================================================================
