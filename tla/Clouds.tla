------------------------------- MODULE Clouds -------------------------------
(***************************************************************************)
(* What a step of a rotation sees and changes at a cloud: the addresses of *)
(* one slot, the temporary instance of a swap, the power events of the     *)
(* instance, and the rows of one attempt (the step it is at, its receipt,  *)
(* the receipts of the steps that were applied).  The modules Ec2Steps,    *)
(* LightsailSteps, AzureSteps and LinodeSteps say what the adapter of each *)
(* provider reads and decides, module Workflows runs the steps.            *)
(***************************************************************************)
EXTENDS Naturals, Sequences, FiniteSets

CONSTANTS Old,      \* the address that is rotated away
          New,      \* the addresses the provider can still give
          Nothing   \* no address

ASSUME AddressesDiffer == Old \notin New /\ Nothing \notin New \cup {Old}

Address == New \cup {Old}

VARIABLES
  kind,      \* which plan the attempt follows
  place,     \* where each address is
  named,     \* the addresses with the name or the tags of the attempt
  fresh,     \* the addresses that were never given
  helper,    \* the temporary instance of a swap
  log,       \* the power events of the instance, the oldest first
  power,     \* the power state of the instance
  booted,    \* the addresses the guest configured when it last started
  at,        \* the number of the current step
  status,    \* its status
  receipt,   \* its receipt
  past,      \* the receipts of the steps before it
  retry,     \* the failed power event a retry follows, 0 if there is none
  call       \* the latest call of the step at the provider

cloud == <<place, named, fresh, helper, log, power, booted>>

\* "free": allocated and attached to nothing; "other": at a foreign resource.
Place == {"none", "free", "slot", "helper", "other"}
Helper == {"none", "provisioning", "offline", "deleting"}
Event == [what : {"reboot", "stop", "start"}, mine : BOOLEAN, how : {"started", "finished", "failed"}]

\* op: the receipt names the operations of the provider; mark: the newest event
\* before the write; event: the power event that answered it.
Receipt == [known : BOOLEAN, op : BOOLEAN, cand : Address \cup {Nothing}, mark : Nat, event : Nat]
NoReceipt == [known |-> FALSE, op |-> FALSE, cand |-> Nothing, mark |-> 0, event |-> 0]

\* "sent": on its way; "running": accepted, the operation is under way; "refused"
\* and "lost" calls have no effect and never will.  new: the address it gave.
Call == [st : {"none", "sent", "running", "done", "failed", "refused", "lost"}, new : Address \cup {Nothing}, mark : Nat]
NoCall == [st |-> "none", new |-> Nothing, mark |-> 0]

\* How the operations that the receipt names stand; without a name there is
\* nothing to ask for.
OperationStatus ==
  IF ~receipt.op \/ call.st = "done" THEN "ready" ELSE IF call.st = "failed" THEN "failed" ELSE "pending"

On == {x \in Address : place[x] = "slot"}
Gone(x) == x = Nothing \/ place[x] = "none"

\* The resource that the name or the tags of the attempt find.
Named == {x \in named : place[x] # "none"}
TheNamed == CHOOSE x \in Named : TRUE

\* The steps of a plan, and of the cleanup after its publication, by provider.
PowerPlan(mode) ==
  IF mode = "stop_start" THEN <<"linode.instance.stop", "linode.instance.start">> ELSE <<"linode.instance.reboot">>

AwsRotation ==
  [eip       |-> <<"ec2.eip.allocate", "ec2.eip.associate">>,
   auto      |-> <<"ec2.auto-ipv4.disable", "ec2.auto-ipv4.enable">>,
   ipv6      |-> <<"ec2.ipv6.assign">>,
   static    |-> <<"lightsail.static-ip.allocate", "lightsail.static-ip.detach", "lightsail.static-ip.attach">>,
   dynamic   |-> <<"lightsail.static-ip.allocate", "lightsail.static-ip.attach">>,
   dualstack |-> <<"lightsail.ipv6.disable", "lightsail.ipv6.enable">>]
AwsCleanup ==
  [eip       |-> <<"ec2.eip.release">>,
   auto      |-> <<>>,
   ipv6      |-> <<"ec2.ipv6.unassign">>,
   static    |-> <<"lightsail.static-ip.release">>,
   dynamic   |-> <<>>,
   dualstack |-> <<>>]

AzureRotation == [azure |-> <<"azure.public-ip.allocate", "azure.public-ip.associate">>]
AzureCleanup  == [azure |-> <<"azure.public-ip.delete">>]

LinodeRotation ==
  [linode  |-> <<"linode.ipv4.allocate">> \o PowerPlan("reboot"),
   stopped |-> <<"linode.ipv4.allocate">> \o PowerPlan("stop_start")]
LinodeCleanup ==
  [linode  |-> <<"linode.ipv4.release">> \o PowerPlan("reboot"),
   stopped |-> <<"linode.ipv4.release">> \o PowerPlan("stop_start")]

SwapRotation == [swap |-> <<"linode.swap.allocate", "linode.ipv4.swap">> \o PowerPlan("reboot")]
SwapCleanup  == [swap |-> <<"linode.swap.delete">>]

Kind == UNION {DOMAIN AwsRotation, DOMAIN AzureRotation, DOMAIN LinodeRotation, DOMAIN SwapRotation}
Rotation ==
  [k \in Kind |-> CASE k \in DOMAIN AwsRotation    -> AwsRotation[k]
                    [] k \in DOMAIN AzureRotation  -> AzureRotation[k]
                    [] k \in DOMAIN LinodeRotation -> LinodeRotation[k]
                    [] k \in DOMAIN SwapRotation   -> SwapRotation[k]]
Cleanup ==
  [k \in Kind |-> CASE k \in DOMAIN AwsCleanup    -> AwsCleanup[k]
                    [] k \in DOMAIN AzureCleanup  -> AzureCleanup[k]
                    [] k \in DOMAIN LinodeCleanup -> LinodeCleanup[k]
                    [] k \in DOMAIN SwapCleanup   -> SwapCleanup[k]]

Plan == Rotation[kind] \o Cleanup[kind]
Finished == at > Len(Plan)
Action == Plan[at]
Cleaning == at > Len(Rotation[kind])

\* The receipt of the allocation of this attempt, and the address that was
\* published, the candidate of the last step of the rotation.
Candidate == IF past = <<>> THEN Nothing ELSE past[1].cand
Published == past[Len(Rotation[kind])].cand

\* The allocation that was applied is the one the name or the tags find now.
SameCandidate == Named = {Candidate}
=============================================================================
