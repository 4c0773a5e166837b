------------------------------ MODULE Workflows ------------------------------
(***************************************************************************)
(* The steps of one attempt and of the cleanup that follows it, between    *)
(* the worker, which writes a step before it is sent and never sends one   *)
(* again whose effect it does not know, and the provider, whose answers    *)
(* are late or lost, whose operations fail and whose resources others move.*)
(***************************************************************************)
EXTENDS Ec2Steps, LightsailSteps, AzureSteps, LinodeSteps

CONSTANTS Kinds,        \* the plans of an instance of the module
          MaxTries,     \* bound: dispatches of one step
          MaxOutside    \* bound: what others do to the resources

ASSUME BoundsAreGiven == Kinds \subseteq Kind /\ MaxTries \in Nat \ {0} /\ MaxOutside \in Nat

VARIABLES
  job,       \* what the worker does with the step: "look" before its call, "wait"
             \* for the answer, "late" when it has given up but still listens
  tries,     \* dispatches of the step
  made,      \* the addresses the attempt has made the provider give
  upset,     \* what went wrong: an outsider's move, a call lost, an answer not heard
  outside    \* how often others have moved something

rows == <<at, status, receipt, past, retry, tries>>
vars == <<kind, cloud, rows, call, job, made, upset, outside>>

Open == {"in_flight", "pending"}
Retried == {"rejected", "not_applied"}
\* "barred": refused for a reason that only a person can remove.
Refused == Retried \cup {"barred"}

TypeOK ==
  /\ kind \in Kinds
  /\ place \in [Address -> Place] /\ named \subseteq Address /\ fresh \subseteq New
  /\ helper \in Helper /\ log \in Seq(Event) /\ power \in {"running", "offline"} /\ booted \subseteq Address
  /\ at \in 1 .. 6 /\ status \in {"prepared", "ambiguous"} \cup Open \cup Refused
  /\ receipt \in Receipt /\ past \in Seq(Receipt) /\ retry \in Nat
  /\ call \in Call /\ job \in {"idle", "look", "wait", "late"} /\ tries \in 0 .. MaxTries
  /\ made \in Nat /\ upset \subseteq {"outsider", "lost", "deaf"} /\ outside \in 0 .. MaxOutside

Init ==
  /\ kind \in Kinds
  /\ place = [x \in Address |-> IF x = Old THEN "slot" ELSE "none"]
  /\ named = {} /\ fresh = New /\ helper = "none"
  /\ log = <<>> /\ power = "running" /\ booted = {Old}
  /\ at = 1 /\ status = "prepared" /\ receipt = NoReceipt /\ past = <<>> /\ retry = 0
  /\ call = NoCall /\ job = "idle" /\ tries = 0 /\ made = 0 /\ upset = {} /\ outside = 0

-----------------------------------------------------------------------------
\* The adapter of the service.
Look ==
  CASE kind \in {"eip", "auto", "ipv6"} -> Ec2Look
    [] kind \in {"static", "dynamic", "dualstack"} -> LightsailLook
    [] kind = "azure" -> AzureLook
    [] kind \in {"linode", "stopped"} -> LinodeLook
    [] kind = "swap" -> SwapLook
Observation ==
  CASE kind \in {"eip", "auto", "ipv6"} -> Ec2Observe
    [] kind \in {"static", "dynamic", "dualstack"} -> LightsailObserve
    [] kind = "azure" -> AzureObserve
    [] kind \in {"linode", "stopped"} -> LinodeObserve
    [] kind = "swap" -> SwapObserve
OfLinode == kind \in {"linode", "stopped", "swap"}
Finds ==
  CASE kind \in {"eip", "auto", "ipv6"} -> Ec2Finds
    [] kind \in {"static", "dynamic", "dualstack"} -> LightsailFinds
    [] kind = "azure" -> AzureFinds
    [] OfLinode -> LinodeFinds

Allocations == {"ec2.eip.allocate", "ec2.ipv6.assign", "lightsail.static-ip.allocate", "azure.public-ip.allocate",
                "linode.ipv4.allocate", "linode.swap.allocate"}

\* Whether the provider answers before it has carried the call out.
Delayed == kind \in {"static", "dynamic", "dualstack", "azure"} \/ Action \in PowerActions

\* The candidate that the answer of a call names.
Answered ==
  IF Action \in {"ec2.eip.allocate", "ec2.ipv6.assign", "linode.ipv4.allocate"} THEN call.new
  ELSE IF Action \in {"ec2.eip.associate", "lightsail.static-ip.attach", "azure.public-ip.associate", "linode.ipv4.swap"} THEN Candidate
  ELSE Nothing

\* saveReceipt: what is known of a step is kept, what is new is added.
Merged(op, cand, mark, event) ==
  [known |-> TRUE, op |-> op \/ receipt.op, cand |-> IF cand = Nothing THEN receipt.cand ELSE cand, mark |-> mark, event |-> event]
AnswerReceipt == Merged(kind \in {"static", "dynamic", "dualstack", "azure"}, Answered, call.mark, receipt.event)
FoundReceipt ==
  IF OfLinode THEN Merged(FALSE, LinodeFinds, LinodeMark, LinodeEvent) ELSE Merged(FALSE, Finds, receipt.mark, 0)

-----------------------------------------------------------------------------
\* The worker.

\* Before a cleanup the published address is on the slot, and the old one is
\* detached, unless the service releases it from the slot.
MayClean == Published \in On /\ (Old \notin On \/ kind \in {"ipv6", "linode", "stopped"})

Dispatch ==
  /\ ~Finished /\ job \in {"idle", "late"} /\ tries < MaxTries
  /\ status = "prepared" \/ (Cleaning /\ status \in Refused)
  /\ Cleaning => MayClean
  /\ status' = "in_flight" /\ receipt' = NoReceipt /\ call' = NoCall /\ job' = "look" /\ tries' = tries + 1
  /\ UNCHANGED <<kind, cloud, at, past, retry, made, upset, outside>>

Send ==
  /\ job = "look" /\ Look = "write"
  /\ call' = [st |-> "sent", new |-> Nothing, mark |-> IF Action \in PowerActions THEN Watermark ELSE Len(log)]
  /\ job' = "wait"
  /\ UNCHANGED <<kind, cloud, rows, made, upset, outside>>

FindsDone ==
  /\ job = "look" /\ Look = "found"
  /\ receipt' = Merged(FALSE, Finds, Len(log), 0) /\ status' = "pending" /\ job' = "idle"
  /\ UNCHANGED <<kind, cloud, at, past, retry, tries, call, made, upset, outside>>

\* reject: a rotation tries a step again by itself that was refused for the rate of
\* its calls, and is paused for a person by any other refusal; a cleanup goes on.
RateLimited == "rejected"
OtherRefusal == IF Cleaning THEN "rejected" ELSE "barred"

\* An error that proves that nothing was written: in a cleanup also a doubt about
\* the resources.  Any other error leaves the step to be observed.
Refuses ==
  /\ job = "look" /\ Look \in {"refuse", "doubt"}
  /\ job' = "idle"
  /\ IF Look = "refuse" \/ Cleaning
       THEN status' = OtherRefusal /\ UNCHANGED upset
       ELSE upset' = upset \cup {"lost"} /\ UNCHANGED status
  /\ UNCHANGED <<kind, cloud, at, receipt, past, retry, tries, call, made, outside>>

Accepted == call.st = "done" \/ (Delayed /\ call.st \in {"running", "failed"})

Answer ==
  /\ job = "wait" /\ job' = "idle"
  /\ \/ call.st = "refused" /\ status' \in {RateLimited, OtherRefusal} /\ UNCHANGED receipt
     \/ Accepted /\ status' = "pending" /\ receipt' = AnswerReceipt
  /\ UNCHANGED <<kind, cloud, at, past, retry, tries, call, made, upset, outside>>

TimesOut ==
  /\ job = "wait" /\ job' = "late" /\ upset' = upset \cup {"deaf"}
  /\ UNCHANGED <<kind, cloud, rows, call, made, outside>>

\* A late answer belongs to its step, unless the step was refused meanwhile.
LateAnswer ==
  /\ job = "late" /\ Accepted /\ job' = "idle"
  /\ IF status \in Refused THEN UNCHANGED <<status, receipt>>
     ELSE receipt' = AnswerReceipt /\ status' = (IF status = "ambiguous" THEN status ELSE "pending")
  /\ UNCHANGED <<kind, cloud, at, past, retry, tries, call, made, upset, outside>>

\* The process stops.  What it did not send is lost, what is answered is not heard.
Crash ==
  /\ job # "idle" /\ job' = "idle"
  /\ upset' = upset \cup {IF job = "look" THEN "lost" ELSE "deaf"}
  /\ UNCHANGED <<kind, cloud, rows, call, made, outside>>

Advance ==
  /\ past' = Append(past, FoundReceipt) /\ at' = at + 1
  /\ status' = "prepared" /\ receipt' = NoReceipt /\ call' = NoCall /\ job' = "idle" /\ tries' = 0 /\ retry' = 0
  /\ upset' = upset \ {"lost", "deaf"}

\* A step that was dispatched is observed, and never sent again for its silence.
Observe ==
  /\ ~Finished /\ job \in {"idle", "late"} /\ status \in Open
  /\ \/ Observation = "applied" /\ Advance
     \/ /\ Observation \in {"pending", "ambiguous", "not_applied"}
        /\ status' = Observation
        /\ receipt' = IF Observation = "ambiguous" THEN receipt ELSE FoundReceipt
        /\ UNCHANGED <<at, past, retry, tries, call, job, upset>>
  /\ UNCHANGED <<kind, cloud, made, outside>>

\* read: the recovery of a rotation prepares the step again.
Retry ==
  /\ ~Cleaning /\ status \in Retried
  /\ status' = "prepared" /\ retry' = (IF status = "not_applied" THEN receipt.event ELSE retry)
  /\ UNCHANGED <<kind, cloud, at, receipt, past, tries, call, job, made, upset, outside>>

\* resumeRotationIncident: a person resumes the rotation, and a charged attempt
\* goes on.  One whose first step was refused is refunded, and abandoned.
ResumedByHand ==
  /\ ~Cleaning /\ status = "barred" /\ at > 1
  /\ status' = "prepared"
  /\ UNCHANGED <<kind, cloud, at, receipt, past, retry, tries, call, job, made, upset, outside>>

-----------------------------------------------------------------------------
\* The provider.

\* What a call needs when it is carried out.
Possible ==
  CASE Action \in Allocations \cup {"ec2.auto-ipv4.enable", "lightsail.ipv6.enable"} -> fresh # {}
    [] Action \in {"ec2.eip.associate", "azure.public-ip.associate"} -> place[Candidate] = "free"
    [] Action = "lightsail.static-ip.attach" -> place[Candidate] = "free" /\ (kind = "dynamic" \/ On = {})
    [] Action \in {"lightsail.static-ip.detach", "ec2.ipv6.unassign", "linode.ipv4.release"} -> Old \in On
    [] Action \in {"ec2.eip.release", "lightsail.static-ip.release", "azure.public-ip.delete"} -> place[Old] = "free"
    [] Action = "linode.ipv4.swap" -> place[Old] = "slot" /\ place[Candidate] = "helper"
    [] Action = "linode.swap.delete" -> helper = "offline"
    [] OTHER -> TRUE

\* Where a call leaves the addresses; x is the one an allocation gives.
Effect(x) ==
  CASE Action \in {"ec2.auto-ipv4.disable", "lightsail.ipv6.disable"} -> [y \in Address |-> IF y \in On THEN "none" ELSE place[y]]
    [] Action \in {"ec2.auto-ipv4.enable", "lightsail.ipv6.enable", "ec2.ipv6.assign", "linode.ipv4.allocate"} -> [place EXCEPT ![x] = "slot"]
    [] Action \in {"ec2.eip.allocate", "lightsail.static-ip.allocate", "azure.public-ip.allocate"} -> [place EXCEPT ![x] = "free"]
    [] Action \in {"ec2.eip.associate", "lightsail.static-ip.attach", "azure.public-ip.associate"} ->
         [y \in Address |-> IF y = Candidate THEN "slot" ELSE IF y \in On THEN IF kind = "dynamic" THEN "none" ELSE "free" ELSE place[y]]
    [] Action = "lightsail.static-ip.detach" -> [place EXCEPT ![Old] = "free"]
    [] Action \in {"ec2.ipv6.unassign", "ec2.eip.release", "lightsail.static-ip.release", "azure.public-ip.delete", "linode.ipv4.release"} ->
         [place EXCEPT ![Old] = "none"]
    [] Action = "linode.ipv4.swap" -> [place EXCEPT ![Old] = "helper", ![Candidate] = "slot"]
    [] OTHER -> place

Gives == Action \in (Allocations \ {"linode.swap.allocate"}) \cup {"ec2.auto-ipv4.enable", "lightsail.ipv6.enable"}
CarryOut ==
  \E x \in IF Gives THEN fresh ELSE {Nothing} :
    /\ place' = Effect(x) /\ fresh' = fresh \ {x}
    /\ named' = IF Action \in {"ec2.eip.allocate", "lightsail.static-ip.allocate", "azure.public-ip.allocate"} THEN named \cup {x} ELSE named
    /\ helper' = CASE Action = "linode.swap.allocate" -> "provisioning" [] Action = "linode.swap.delete" -> "deleting" [] OTHER -> helper
    /\ call' = [call EXCEPT !.st = "done", !.new = x]
    /\ made' = IF Action \in Allocations THEN made + 1 ELSE made
    /\ UNCHANGED <<log, power, booted>>

\* A power action leaves an event when it is accepted, and the event its result.
PowerStarts ==
  /\ log' = Append(log, [what |-> PowerEvent, mine |-> TRUE, how |-> "started"])
  /\ UNCHANGED <<place, named, fresh, helper, power, booted, made>>
PowerEnds(how) ==
  /\ log' = [e \in 1 .. Len(log) |-> IF log[e].mine /\ log[e].how = "started" THEN [log[e] EXCEPT !.how = how] ELSE log[e]]
  /\ power' = IF how = "failed" THEN power ELSE IF Action = "linode.instance.stop" THEN "offline" ELSE "running"
  /\ booted' = IF how = "finished" /\ Action # "linode.instance.stop" THEN On ELSE booted
  /\ UNCHANGED <<place, named, fresh, helper, made>>

Arrive ==
  /\ call.st = "sent"
  /\ IF ~Possible THEN call' = [call EXCEPT !.st = "refused"] /\ UNCHANGED <<cloud, made>>
     ELSE IF ~Delayed THEN CarryOut
     ELSE /\ call' = [call EXCEPT !.st = "running"]
          /\ IF Action \in PowerActions THEN PowerStarts ELSE UNCHANGED <<cloud, made>>
  /\ UNCHANGED <<kind, rows, job, upset, outside>>

\* Quotas, permissions and rate limits; a request that never arrives.
Refuse ==
  /\ call.st = "sent" /\ call' = [call EXCEPT !.st = "refused"]
  /\ UNCHANGED <<kind, cloud, rows, job, made, upset, outside>>
Lose ==
  /\ call.st = "sent" /\ call' = [call EXCEPT !.st = "lost"] /\ upset' = upset \cup {"lost"}
  /\ UNCHANGED <<kind, cloud, rows, job, made, outside>>

Finish ==
  /\ call.st = "running" /\ Possible
  /\ IF Action \in PowerActions THEN PowerEnds("finished") /\ call' = [call EXCEPT !.st = "done"] ELSE CarryOut
  /\ UNCHANGED <<kind, rows, job, upset, outside>>
Fail ==
  /\ call.st = "running" /\ call' = [call EXCEPT !.st = "failed"]
  /\ IF Action \in PowerActions THEN PowerEnds("failed") ELSE UNCHANGED <<cloud, made>>
  /\ UNCHANGED <<kind, rows, job, upset, outside>>

Provision ==
  /\ helper = "provisioning" /\ helper' = "offline"
  /\ \E x \in fresh : place' = [place EXCEPT ![x] = "helper"] /\ fresh' = fresh \ {x}
  /\ UNCHANGED <<kind, named, log, power, booted, rows, call, job, made, upset, outside>>
Remove ==
  /\ helper = "deleting" /\ helper' = "none"
  /\ place' = [x \in Address |-> IF place[x] = "helper" THEN "none" ELSE place[x]]
  /\ UNCHANGED <<kind, named, fresh, log, power, booted, rows, call, job, made, upset, outside>>

\* Somebody else deletes, detaches or takes an address, or restarts the instance.
Attachable == kind \in {"eip", "static", "azure"}
Outsider ==
  /\ ~Finished /\ outside < MaxOutside /\ outside' = outside + 1 /\ upset' = upset \cup {"outsider"}
  /\ \/ \E x \in Address, p \in Place :
          /\ \/ p = "none" /\ place[x] \in {"free", "slot"}
             \/ p = "free" /\ place[x] = "slot" /\ Attachable
             \/ p = "other" /\ place[x] = "free"
          /\ place' = [place EXCEPT ![x] = p] /\ UNCHANGED <<log, booted>>
     \/ /\ OfLinode /\ power = "running"
        /\ log' = Append(log, [what |-> "reboot", mine |-> FALSE, how |-> "finished"]) /\ booted' = On
        /\ UNCHANGED place
  /\ UNCHANGED <<kind, named, fresh, helper, power, rows, call, job, made>>

Next ==
  \/ Dispatch \/ Send \/ FindsDone \/ Refuses \/ Answer \/ TimesOut \/ LateAnswer \/ Crash \/ Observe \/ Retry \/ ResumedByHand
  \/ Arrive \/ Refuse \/ Lose \/ Finish \/ Fail \/ Provision \/ Remove \/ Outsider

\* The worker runs every few seconds; the provider carries out or refuses what
\* reaches it, and ends what it has accepted.  Nobody has to resume anything.
Fairness ==
  /\ WF_vars(Dispatch) /\ WF_vars(Send \/ FindsDone \/ Refuses) /\ WF_vars(Answer \/ TimesOut)
  /\ WF_vars(Observe) /\ WF_vars(Retry) /\ WF_vars(Arrive \/ Refuse \/ Lose) /\ WF_vars(Finish \/ Fail)
  /\ WF_vars(Provision) /\ WF_vars(Remove)
Spec == Init /\ [][Next]_vars /\ Fairness

-----------------------------------------------------------------------------
InFlight == call.st \in {"sent", "running"}

\* A step that is reported as applied, as not applied or as rejected is over: no
\* call of it can have an effect any more, as long as nobody else moved the
\* resources.  (What the rest of the rotation takes for granted: Rotation.)
SettledIsOver ==
  [][~Finished /\ outside = 0 /\ status \in Open /\ (at' # at \/ status' \in Refused) => ~InFlight]_vars

\* The attempt makes the provider give one address at most, whatever is lost,
\* late, refused or moved.
OneAllocation == made <= 1

\* A restart that is reported as applied is one after the addresses have changed:
\* the guest has the new address, and after a cleanup no longer the old one.
RestartFollows ==
  [][~Finished /\ at' # at /\ Action \in {"linode.instance.reboot", "linode.instance.start"}
     => IF Cleaning THEN Published \in booted /\ Old \notin booted ELSE Candidate \in booted]_vars

\* A call that came to nothing without an answer: nothing ends its step.
Unheard == status \in Open /\ Observation = "pending" /\ job \notin {"look", "wait"} /\ call.st \in {"none", "refused", "lost", "failed"}
Halted ==
  \/ status \in {"ambiguous", "barred"} \/ "outsider" \in upset
  \/ status \in Open /\ Observation = "error"
  \/ Unheard
  \/ status \in Refused \cup {"prepared"} /\ tries = MaxTries

\* A plan ends unless it needs a person: somebody else moved the resources, an
\* operation of the provider failed, a call came to nothing and nobody heard it, a
\* step of the rotation was refused for another reason than the rate of its calls
\* (rotation-store.ts:222), or a step was refused as often as it may be tried.  The
\* cleanup by a stop and a start does not end (watermark in linode-rotation.ts:131).
PlansEnd == <>[](Finished \/ Halted \/ (kind = "stopped" /\ Cleaning))

=============================================================================
