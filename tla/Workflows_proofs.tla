--------------------------- MODULE Workflows_proofs ---------------------------
(***************************************************************************)
(* The plans of the rotations and of their cleanups at the providers, for  *)
(* any number of faults and of rivals; and the schedules that begin        *)
(* rotations, for any number of incidents and of requests.                 *)
(*                                                                         *)
(* That a plan allocates once and restarts after its changes is not        *)
(* inductive.  WorkflowsInv says for each step what the cloud and the log  *)
(* of the instance show while its call may be sent again or is awaited     *)
(* (Allocated, Settled), and after which event of the log its answer is    *)
(* looked for (Powered).                                                   *)
(*                                                                         *)
(* The scan of a schedule looks at one incident only.  That it looks at    *)
(* the right one rests on the order of the incidents, and on what          *)
(* schedule.handled and schedule.fresh say of stops: HandledIsLinked,      *)
(* LooseIsSeen, FreshIsSeen.                                               *)
(***************************************************************************)
EXTENDS Workflows, Schedules, FiniteSetTheorems, WellFoundedInduction, TLAPS

-----------------------------------------------------------------------------
(* The plans, step by step.                                                *)

LEMMA Domains ==
  /\ DOMAIN AwsRotation = {"eip", "auto", "ipv6", "static", "dynamic", "dualstack"}
  /\ DOMAIN AwsCleanup = {"eip", "auto", "ipv6", "static", "dynamic", "dualstack"}
  /\ DOMAIN AzureRotation = {"azure"} /\ DOMAIN AzureCleanup = {"azure"}
  /\ DOMAIN LinodeRotation = {"linode", "stopped"} /\ DOMAIN LinodeCleanup = {"linode", "stopped"}
  /\ DOMAIN SwapRotation = {"swap"} /\ DOMAIN SwapCleanup = {"swap"}
BY DEF AwsRotation, AwsCleanup, AzureRotation, AzureCleanup, LinodeRotation, LinodeCleanup, SwapRotation, SwapCleanup

LEMMA Kinds10 ==
  Kind = {"eip", "auto", "ipv6", "static", "dynamic", "dualstack", "azure", "linode", "stopped", "swap"}
BY Domains DEF Kind

LEMMA OwnPlans ==
  ASSUME NEW k \in Kind
  PROVE  /\ k \in DOMAIN AwsRotation => Rotation[k] = AwsRotation[k] /\ Cleanup[k] = AwsCleanup[k]
         /\ k = "azure" => Rotation[k] = AzureRotation[k] /\ Cleanup[k] = AzureCleanup[k]
         /\ k \in {"linode", "stopped"} => Rotation[k] = LinodeRotation[k] /\ Cleanup[k] = LinodeCleanup[k]
         /\ k = "swap" => Rotation[k] = SwapRotation[k] /\ Cleanup[k] = SwapCleanup[k]
BY Domains DEF Rotation, Cleanup

LEMMA Plan_eip ==
  ASSUME kind = "eip"
  PROVE  /\ Len(Rotation[kind]) = 2 /\ Len(Plan) = 3
         /\ Plan[1] = "ec2.eip.allocate"
         /\ Plan[2] = "ec2.eip.associate"
         /\ Plan[3] = "ec2.eip.release"
<1>1. Rotation[kind] = <<"ec2.eip.allocate", "ec2.eip.associate">>
  BY Kinds10, Domains, OwnPlans DEF AwsRotation
<1>2. Cleanup[kind] = <<"ec2.eip.release">>
  BY Kinds10, Domains, OwnPlans DEF AwsCleanup
<1> QED BY <1>1, <1>2 DEF Plan

LEMMA Plan_auto ==
  ASSUME kind = "auto"
  PROVE  /\ Len(Rotation[kind]) = 2 /\ Len(Plan) = 2
         /\ Plan[1] = "ec2.auto-ipv4.disable"
         /\ Plan[2] = "ec2.auto-ipv4.enable"
<1>1. Rotation[kind] = <<"ec2.auto-ipv4.disable", "ec2.auto-ipv4.enable">>
  BY Kinds10, Domains, OwnPlans DEF AwsRotation
<1>2. Cleanup[kind] = <<>>
  BY Kinds10, Domains, OwnPlans DEF AwsCleanup
<1> QED BY <1>1, <1>2 DEF Plan

LEMMA Plan_ipv6 ==
  ASSUME kind = "ipv6"
  PROVE  /\ Len(Rotation[kind]) = 1 /\ Len(Plan) = 2
         /\ Plan[1] = "ec2.ipv6.assign"
         /\ Plan[2] = "ec2.ipv6.unassign"
<1>1. Rotation[kind] = <<"ec2.ipv6.assign">>
  BY Kinds10, Domains, OwnPlans DEF AwsRotation
<1>2. Cleanup[kind] = <<"ec2.ipv6.unassign">>
  BY Kinds10, Domains, OwnPlans DEF AwsCleanup
<1> QED BY <1>1, <1>2 DEF Plan

LEMMA Plan_static ==
  ASSUME kind = "static"
  PROVE  /\ Len(Rotation[kind]) = 3 /\ Len(Plan) = 4
         /\ Plan[1] = "lightsail.static-ip.allocate"
         /\ Plan[2] = "lightsail.static-ip.detach"
         /\ Plan[3] = "lightsail.static-ip.attach"
         /\ Plan[4] = "lightsail.static-ip.release"
<1>1. Rotation[kind] = <<"lightsail.static-ip.allocate", "lightsail.static-ip.detach", "lightsail.static-ip.attach">>
  BY Kinds10, Domains, OwnPlans DEF AwsRotation
<1>2. Cleanup[kind] = <<"lightsail.static-ip.release">>
  BY Kinds10, Domains, OwnPlans DEF AwsCleanup
<1> QED BY <1>1, <1>2 DEF Plan

LEMMA Plan_dynamic ==
  ASSUME kind = "dynamic"
  PROVE  /\ Len(Rotation[kind]) = 2 /\ Len(Plan) = 2
         /\ Plan[1] = "lightsail.static-ip.allocate"
         /\ Plan[2] = "lightsail.static-ip.attach"
<1>1. Rotation[kind] = <<"lightsail.static-ip.allocate", "lightsail.static-ip.attach">>
  BY Kinds10, Domains, OwnPlans DEF AwsRotation
<1>2. Cleanup[kind] = <<>>
  BY Kinds10, Domains, OwnPlans DEF AwsCleanup
<1> QED BY <1>1, <1>2 DEF Plan

LEMMA Plan_dualstack ==
  ASSUME kind = "dualstack"
  PROVE  /\ Len(Rotation[kind]) = 2 /\ Len(Plan) = 2
         /\ Plan[1] = "lightsail.ipv6.disable"
         /\ Plan[2] = "lightsail.ipv6.enable"
<1>1. Rotation[kind] = <<"lightsail.ipv6.disable", "lightsail.ipv6.enable">>
  BY Kinds10, Domains, OwnPlans DEF AwsRotation
<1>2. Cleanup[kind] = <<>>
  BY Kinds10, Domains, OwnPlans DEF AwsCleanup
<1> QED BY <1>1, <1>2 DEF Plan

LEMMA Plan_azure ==
  ASSUME kind = "azure"
  PROVE  /\ Len(Rotation[kind]) = 2 /\ Len(Plan) = 3
         /\ Plan[1] = "azure.public-ip.allocate"
         /\ Plan[2] = "azure.public-ip.associate"
         /\ Plan[3] = "azure.public-ip.delete"
<1>1. Rotation[kind] = <<"azure.public-ip.allocate", "azure.public-ip.associate">>
  BY Kinds10, Domains, OwnPlans DEF AzureRotation
<1>2. Cleanup[kind] = <<"azure.public-ip.delete">>
  BY Kinds10, Domains, OwnPlans DEF AzureCleanup
<1> QED BY <1>1, <1>2 DEF Plan

LEMMA Plan_linode ==
  ASSUME kind = "linode"
  PROVE  /\ Len(Rotation[kind]) = 2 /\ Len(Plan) = 4
         /\ Plan[1] = "linode.ipv4.allocate"
         /\ Plan[2] = "linode.instance.reboot"
         /\ Plan[3] = "linode.ipv4.release"
         /\ Plan[4] = "linode.instance.reboot"
<1>1. PowerPlan("reboot") = <<"linode.instance.reboot">>
  BY DEF PowerPlan
<1>2. Rotation[kind] = <<"linode.ipv4.allocate">> \o <<"linode.instance.reboot">>
  BY <1>1, Kinds10, Domains, OwnPlans DEF LinodeRotation
<1>3. Cleanup[kind] = <<"linode.ipv4.release">> \o <<"linode.instance.reboot">>
  BY <1>1, Kinds10, Domains, OwnPlans DEF LinodeCleanup
<1>4. Len(Rotation[kind]) = 2 /\ Len(Plan) = 4
  BY <1>2, <1>3 DEF Plan
<1> QED BY <1>2, <1>3, <1>4 DEF Plan

LEMMA Plan_stopped ==
  ASSUME kind = "stopped"
  PROVE  /\ Len(Rotation[kind]) = 3 /\ Len(Plan) = 6
         /\ Plan[1] = "linode.ipv4.allocate"
         /\ Plan[2] = "linode.instance.stop"
         /\ Plan[3] = "linode.instance.start"
         /\ Plan[4] = "linode.ipv4.release"
         /\ Plan[5] = "linode.instance.stop"
         /\ Plan[6] = "linode.instance.start"
<1>1. PowerPlan("stop_start") = <<"linode.instance.stop", "linode.instance.start">>
  BY DEF PowerPlan
<1>2. Rotation[kind] = <<"linode.ipv4.allocate">> \o <<"linode.instance.stop", "linode.instance.start">>
  BY <1>1, Kinds10, Domains, OwnPlans DEF LinodeRotation
<1>3. Cleanup[kind] = <<"linode.ipv4.release">> \o <<"linode.instance.stop", "linode.instance.start">>
  BY <1>1, Kinds10, Domains, OwnPlans DEF LinodeCleanup
<1>4. Len(Rotation[kind]) = 3 /\ Len(Plan) = 6
  BY <1>2, <1>3 DEF Plan
<1> QED BY <1>2, <1>3, <1>4 DEF Plan

LEMMA Plan_swap ==
  ASSUME kind = "swap"
  PROVE  /\ Len(Rotation[kind]) = 3 /\ Len(Plan) = 4
         /\ Plan[1] = "linode.swap.allocate"
         /\ Plan[2] = "linode.ipv4.swap"
         /\ Plan[3] = "linode.instance.reboot"
         /\ Plan[4] = "linode.swap.delete"
<1>1. PowerPlan("reboot") = <<"linode.instance.reboot">>
  BY DEF PowerPlan
<1>2. Rotation[kind] = <<"linode.swap.allocate", "linode.ipv4.swap">> \o <<"linode.instance.reboot">>
  BY <1>1, Kinds10, Domains, OwnPlans DEF SwapRotation
<1>3. Cleanup[kind] = <<"linode.swap.delete">>
  BY <1>1, Kinds10, Domains, OwnPlans DEF SwapCleanup
<1>4. Len(Rotation[kind]) = 3 /\ Len(Plan) = 4
  BY <1>2, <1>3 DEF Plan
<1> QED BY <1>2, <1>3, <1>4 DEF Plan
\* Where an attempt is: at a step of the rotation, or of the cleanup.
Rotates(k, n, a) == kind = k /\ at = n /\ Action = a /\ ~Cleaning
Cleans(k, n, a) == kind = k /\ at = n /\ Action = a /\ Cleaning

TheStep ==
  \/ Rotates("eip", 1, "ec2.eip.allocate")
  \/ Rotates("eip", 2, "ec2.eip.associate")
  \/ Cleans("eip", 3, "ec2.eip.release")
  \/ Rotates("auto", 1, "ec2.auto-ipv4.disable")
  \/ Rotates("auto", 2, "ec2.auto-ipv4.enable")
  \/ Rotates("ipv6", 1, "ec2.ipv6.assign")
  \/ Cleans("ipv6", 2, "ec2.ipv6.unassign")
  \/ Rotates("static", 1, "lightsail.static-ip.allocate")
  \/ Rotates("static", 2, "lightsail.static-ip.detach")
  \/ Rotates("static", 3, "lightsail.static-ip.attach")
  \/ Cleans("static", 4, "lightsail.static-ip.release")
  \/ Rotates("dynamic", 1, "lightsail.static-ip.allocate")
  \/ Rotates("dynamic", 2, "lightsail.static-ip.attach")
  \/ Rotates("dualstack", 1, "lightsail.ipv6.disable")
  \/ Rotates("dualstack", 2, "lightsail.ipv6.enable")
  \/ Rotates("azure", 1, "azure.public-ip.allocate")
  \/ Rotates("azure", 2, "azure.public-ip.associate")
  \/ Cleans("azure", 3, "azure.public-ip.delete")
  \/ Rotates("linode", 1, "linode.ipv4.allocate")
  \/ Rotates("linode", 2, "linode.instance.reboot")
  \/ Cleans("linode", 3, "linode.ipv4.release")
  \/ Cleans("linode", 4, "linode.instance.reboot")
  \/ Rotates("stopped", 1, "linode.ipv4.allocate")
  \/ Rotates("stopped", 2, "linode.instance.stop")
  \/ Rotates("stopped", 3, "linode.instance.start")
  \/ Cleans("stopped", 4, "linode.ipv4.release")
  \/ Cleans("stopped", 5, "linode.instance.stop")
  \/ Cleans("stopped", 6, "linode.instance.start")
  \/ Rotates("swap", 1, "linode.swap.allocate")
  \/ Rotates("swap", 2, "linode.ipv4.swap")
  \/ Rotates("swap", 3, "linode.instance.reboot")
  \/ Cleans("swap", 4, "linode.swap.delete")

LEMMA StepIsOne ==
  ASSUME kind \in Kind, at \in Nat \ {0}, ~Finished
  PROVE  TheStep
<1>1. CASE kind = "eip"
  <2>1. Len(Plan) = 3 /\ Len(Rotation[kind]) = 2
    BY <1>1, Plan_eip
  <2>2. at \in {1, 2, 3}
    BY <2>1 DEF Finished
  <2>3. CASE at = 1
    <3>1. Action = "ec2.eip.allocate"
      BY <1>1, <2>3, Plan_eip DEF Action
    <3> QED BY <1>1, <2>1, <2>3, <3>1 DEF TheStep, Rotates, Cleaning
  <2>4. CASE at = 2
    <3>1. Action = "ec2.eip.associate"
      BY <1>1, <2>4, Plan_eip DEF Action
    <3> QED BY <1>1, <2>1, <2>4, <3>1 DEF TheStep, Rotates, Cleaning
  <2>5. CASE at = 3
    <3>1. Action = "ec2.eip.release"
      BY <1>1, <2>5, Plan_eip DEF Action
    <3> QED BY <1>1, <2>1, <2>5, <3>1 DEF TheStep, Cleans, Cleaning
  <2> QED BY <2>2, <2>3, <2>4, <2>5
<1>2. CASE kind = "auto"
  <2>1. Len(Plan) = 2 /\ Len(Rotation[kind]) = 2
    BY <1>2, Plan_auto
  <2>2. at \in {1, 2}
    BY <2>1 DEF Finished
  <2>3. CASE at = 1
    <3>1. Action = "ec2.auto-ipv4.disable"
      BY <1>2, <2>3, Plan_auto DEF Action
    <3> QED BY <1>2, <2>1, <2>3, <3>1 DEF TheStep, Rotates, Cleaning
  <2>4. CASE at = 2
    <3>1. Action = "ec2.auto-ipv4.enable"
      BY <1>2, <2>4, Plan_auto DEF Action
    <3> QED BY <1>2, <2>1, <2>4, <3>1 DEF TheStep, Rotates, Cleaning
  <2> QED BY <2>2, <2>3, <2>4
<1>3. CASE kind = "ipv6"
  <2>1. Len(Plan) = 2 /\ Len(Rotation[kind]) = 1
    BY <1>3, Plan_ipv6
  <2>2. at \in {1, 2}
    BY <2>1 DEF Finished
  <2>3. CASE at = 1
    <3>1. Action = "ec2.ipv6.assign"
      BY <1>3, <2>3, Plan_ipv6 DEF Action
    <3> QED BY <1>3, <2>1, <2>3, <3>1 DEF TheStep, Rotates, Cleaning
  <2>4. CASE at = 2
    <3>1. Action = "ec2.ipv6.unassign"
      BY <1>3, <2>4, Plan_ipv6 DEF Action
    <3> QED BY <1>3, <2>1, <2>4, <3>1 DEF TheStep, Cleans, Cleaning
  <2> QED BY <2>2, <2>3, <2>4
<1>4. CASE kind = "static"
  <2>1. Len(Plan) = 4 /\ Len(Rotation[kind]) = 3
    BY <1>4, Plan_static
  <2>2. at \in {1, 2, 3, 4}
    BY <2>1 DEF Finished
  <2>3. CASE at = 1
    <3>1. Action = "lightsail.static-ip.allocate"
      BY <1>4, <2>3, Plan_static DEF Action
    <3> QED BY <1>4, <2>1, <2>3, <3>1 DEF TheStep, Rotates, Cleaning
  <2>4. CASE at = 2
    <3>1. Action = "lightsail.static-ip.detach"
      BY <1>4, <2>4, Plan_static DEF Action
    <3> QED BY <1>4, <2>1, <2>4, <3>1 DEF TheStep, Rotates, Cleaning
  <2>5. CASE at = 3
    <3>1. Action = "lightsail.static-ip.attach"
      BY <1>4, <2>5, Plan_static DEF Action
    <3> QED BY <1>4, <2>1, <2>5, <3>1 DEF TheStep, Rotates, Cleaning
  <2>6. CASE at = 4
    <3>1. Action = "lightsail.static-ip.release"
      BY <1>4, <2>6, Plan_static DEF Action
    <3> QED BY <1>4, <2>1, <2>6, <3>1 DEF TheStep, Cleans, Cleaning
  <2> QED BY <2>2, <2>3, <2>4, <2>5, <2>6
<1>5. CASE kind = "dynamic"
  <2>1. Len(Plan) = 2 /\ Len(Rotation[kind]) = 2
    BY <1>5, Plan_dynamic
  <2>2. at \in {1, 2}
    BY <2>1 DEF Finished
  <2>3. CASE at = 1
    <3>1. Action = "lightsail.static-ip.allocate"
      BY <1>5, <2>3, Plan_dynamic DEF Action
    <3> QED BY <1>5, <2>1, <2>3, <3>1 DEF TheStep, Rotates, Cleaning
  <2>4. CASE at = 2
    <3>1. Action = "lightsail.static-ip.attach"
      BY <1>5, <2>4, Plan_dynamic DEF Action
    <3> QED BY <1>5, <2>1, <2>4, <3>1 DEF TheStep, Rotates, Cleaning
  <2> QED BY <2>2, <2>3, <2>4
<1>6. CASE kind = "dualstack"
  <2>1. Len(Plan) = 2 /\ Len(Rotation[kind]) = 2
    BY <1>6, Plan_dualstack
  <2>2. at \in {1, 2}
    BY <2>1 DEF Finished
  <2>3. CASE at = 1
    <3>1. Action = "lightsail.ipv6.disable"
      BY <1>6, <2>3, Plan_dualstack DEF Action
    <3> QED BY <1>6, <2>1, <2>3, <3>1 DEF TheStep, Rotates, Cleaning
  <2>4. CASE at = 2
    <3>1. Action = "lightsail.ipv6.enable"
      BY <1>6, <2>4, Plan_dualstack DEF Action
    <3> QED BY <1>6, <2>1, <2>4, <3>1 DEF TheStep, Rotates, Cleaning
  <2> QED BY <2>2, <2>3, <2>4
<1>7. CASE kind = "azure"
  <2>1. Len(Plan) = 3 /\ Len(Rotation[kind]) = 2
    BY <1>7, Plan_azure
  <2>2. at \in {1, 2, 3}
    BY <2>1 DEF Finished
  <2>3. CASE at = 1
    <3>1. Action = "azure.public-ip.allocate"
      BY <1>7, <2>3, Plan_azure DEF Action
    <3> QED BY <1>7, <2>1, <2>3, <3>1 DEF TheStep, Rotates, Cleaning
  <2>4. CASE at = 2
    <3>1. Action = "azure.public-ip.associate"
      BY <1>7, <2>4, Plan_azure DEF Action
    <3> QED BY <1>7, <2>1, <2>4, <3>1 DEF TheStep, Rotates, Cleaning
  <2>5. CASE at = 3
    <3>1. Action = "azure.public-ip.delete"
      BY <1>7, <2>5, Plan_azure DEF Action
    <3> QED BY <1>7, <2>1, <2>5, <3>1 DEF TheStep, Cleans, Cleaning
  <2> QED BY <2>2, <2>3, <2>4, <2>5
<1>8. CASE kind = "linode"
  <2>1. Len(Plan) = 4 /\ Len(Rotation[kind]) = 2
    BY <1>8, Plan_linode
  <2>2. at \in {1, 2, 3, 4}
    BY <2>1 DEF Finished
  <2>3. CASE at = 1
    <3>1. Action = "linode.ipv4.allocate"
      BY <1>8, <2>3, Plan_linode DEF Action
    <3> QED BY <1>8, <2>1, <2>3, <3>1 DEF TheStep, Rotates, Cleaning
  <2>4. CASE at = 2
    <3>1. Action = "linode.instance.reboot"
      BY <1>8, <2>4, Plan_linode DEF Action
    <3> QED BY <1>8, <2>1, <2>4, <3>1 DEF TheStep, Rotates, Cleaning
  <2>5. CASE at = 3
    <3>1. Action = "linode.ipv4.release"
      BY <1>8, <2>5, Plan_linode DEF Action
    <3> QED BY <1>8, <2>1, <2>5, <3>1 DEF TheStep, Cleans, Cleaning
  <2>6. CASE at = 4
    <3>1. Action = "linode.instance.reboot"
      BY <1>8, <2>6, Plan_linode DEF Action
    <3> QED BY <1>8, <2>1, <2>6, <3>1 DEF TheStep, Cleans, Cleaning
  <2> QED BY <2>2, <2>3, <2>4, <2>5, <2>6
<1>9. CASE kind = "stopped"
  <2>1. Len(Plan) = 6 /\ Len(Rotation[kind]) = 3
    BY <1>9, Plan_stopped
  <2>2. at \in {1, 2, 3, 4, 5, 6}
    BY <2>1 DEF Finished
  <2>3. CASE at = 1
    <3>1. Action = "linode.ipv4.allocate"
      BY <1>9, <2>3, Plan_stopped DEF Action
    <3> QED BY <1>9, <2>1, <2>3, <3>1 DEF TheStep, Rotates, Cleaning
  <2>4. CASE at = 2
    <3>1. Action = "linode.instance.stop"
      BY <1>9, <2>4, Plan_stopped DEF Action
    <3> QED BY <1>9, <2>1, <2>4, <3>1 DEF TheStep, Rotates, Cleaning
  <2>5. CASE at = 3
    <3>1. Action = "linode.instance.start"
      BY <1>9, <2>5, Plan_stopped DEF Action
    <3> QED BY <1>9, <2>1, <2>5, <3>1 DEF TheStep, Rotates, Cleaning
  <2>6. CASE at = 4
    <3>1. Action = "linode.ipv4.release"
      BY <1>9, <2>6, Plan_stopped DEF Action
    <3> QED BY <1>9, <2>1, <2>6, <3>1 DEF TheStep, Cleans, Cleaning
  <2>7. CASE at = 5
    <3>1. Action = "linode.instance.stop"
      BY <1>9, <2>7, Plan_stopped DEF Action
    <3> QED BY <1>9, <2>1, <2>7, <3>1 DEF TheStep, Cleans, Cleaning
  <2>8. CASE at = 6
    <3>1. Action = "linode.instance.start"
      BY <1>9, <2>8, Plan_stopped DEF Action
    <3> QED BY <1>9, <2>1, <2>8, <3>1 DEF TheStep, Cleans, Cleaning
  <2> QED BY <2>2, <2>3, <2>4, <2>5, <2>6, <2>7, <2>8
<1>10. CASE kind = "swap"
  <2>1. Len(Plan) = 4 /\ Len(Rotation[kind]) = 3
    BY <1>10, Plan_swap
  <2>2. at \in {1, 2, 3, 4}
    BY <2>1 DEF Finished
  <2>3. CASE at = 1
    <3>1. Action = "linode.swap.allocate"
      BY <1>10, <2>3, Plan_swap DEF Action
    <3> QED BY <1>10, <2>1, <2>3, <3>1 DEF TheStep, Rotates, Cleaning
  <2>4. CASE at = 2
    <3>1. Action = "linode.ipv4.swap"
      BY <1>10, <2>4, Plan_swap DEF Action
    <3> QED BY <1>10, <2>1, <2>4, <3>1 DEF TheStep, Rotates, Cleaning
  <2>5. CASE at = 3
    <3>1. Action = "linode.instance.reboot"
      BY <1>10, <2>5, Plan_swap DEF Action
    <3> QED BY <1>10, <2>1, <2>5, <3>1 DEF TheStep, Rotates, Cleaning
  <2>6. CASE at = 4
    <3>1. Action = "linode.swap.delete"
      BY <1>10, <2>6, Plan_swap DEF Action
    <3> QED BY <1>10, <2>1, <2>6, <3>1 DEF TheStep, Cleans, Cleaning
  <2> QED BY <2>2, <2>3, <2>4, <2>5, <2>6
<1> QED BY <1>1, <1>2, <1>3, <1>4, <1>5, <1>6, <1>7, <1>8, <1>9, <1>10, Kinds10

LEMMA StepFacts ==
  ASSUME TheStep
  PROVE  /\ Action \in Allocations => at = 1 /\ ~Cleaning /\ kind \notin {"auto", "dualstack"}
         /\ at = 1 => ~Cleaning /\ Action \notin PowerActions
         /\ kind \in {"eip", "auto", "ipv6"} =>
              Action \in {"ec2.eip.allocate", "ec2.eip.associate", "ec2.eip.release", "ec2.auto-ipv4.disable",
                          "ec2.auto-ipv4.enable", "ec2.ipv6.assign", "ec2.ipv6.unassign"}
         /\ kind \in {"static", "dynamic", "dualstack"} =>
              Action \in {"lightsail.static-ip.allocate", "lightsail.static-ip.detach", "lightsail.static-ip.attach",
                          "lightsail.static-ip.release", "lightsail.ipv6.disable", "lightsail.ipv6.enable"}
         /\ kind = "azure" =>
              Action \in {"azure.public-ip.allocate", "azure.public-ip.associate", "azure.public-ip.delete"}
         /\ kind \in {"linode", "stopped"} =>
              Action \in PowerActions \cup {"linode.ipv4.allocate", "linode.ipv4.release"}
         /\ kind = "swap" => Action \in {"linode.swap.allocate", "linode.ipv4.swap", "linode.instance.reboot",
                                         "linode.swap.delete"}
BY DEF TheStep, Rotates, Cleans, Allocations, PowerActions

-----------------------------------------------------------------------------
(* Types.                                                                  *)

\* Next to the types: there is a receipt of every step that is past.
Types ==
  /\ kind \in Kinds
  /\ place \in [Address -> Place] /\ named \subseteq Address /\ fresh \subseteq New
  /\ helper \in Helper /\ log \in Seq(Event) /\ power \in {"running", "offline"} /\ booted \subseteq Address
  /\ at \in Nat \ {0} /\ status \in {"prepared", "ambiguous"} \cup Open \cup Refused
  /\ receipt \in Receipt /\ past \in Seq(Receipt) /\ Len(past) = at - 1 /\ retry \in Nat
  /\ call \in Call /\ job \in {"idle", "look", "wait", "late"} /\ tries \in 0 .. MaxTries
  /\ made \in Nat /\ upset \subseteq {"outsider", "lost", "deaf"} /\ outside \in 0 .. MaxOutside
  /\ kind # "swap" => helper = "none"
  /\ helper = "offline" => \E x \in Address : place[x] = "helper"
  /\ job = "look" => status = "in_flight" /\ receipt = NoReceipt /\ call = NoCall
  /\ Finished => job = "idle" /\ call = NoCall

LEMMA KindFits == ASSUME Types PROVE kind \in Kind
BY BoundsAreGiven DEF Types

LEMMA StepFits == ASSUME Types, ~Finished PROVE TheStep
BY KindFits, StepIsOne DEF Types

LEMMA Constants == Old \in Address /\ Nothing \notin Address /\ MaxTries \in Nat /\ MaxOutside \in Nat
BY AddressesDiffer, BoundsAreGiven DEF Address

LEMMA ChoiceFits == ASSUME NEW S, S # {} PROVE (CHOOSE x \in S : TRUE) \in S
OBVIOUS

\* The watermark of a power action before any of its own answers.
FirstMark ==
  IF kind = "stopped" /\ at > 2 THEN past[2].event
  ELSE IF kind = "linode" /\ at = 4 THEN past[3].mark
  ELSE IF kind = "swap" THEN past[2].mark ELSE past[1].mark

LEMMA PowerSteps ==
  ASSUME TheStep, Action \in PowerActions
  PROVE  \/ Rotates("linode", 2, "linode.instance.reboot")
         \/ Cleans("linode", 4, "linode.instance.reboot")
         \/ Rotates("stopped", 2, "linode.instance.stop")
         \/ Rotates("stopped", 3, "linode.instance.start")
         \/ Cleans("stopped", 5, "linode.instance.stop")
         \/ Cleans("stopped", 6, "linode.instance.start")
         \/ Rotates("swap", 3, "linode.instance.reboot")
BY DEF TheStep, Rotates, Cleans, PowerActions

LEMMA ShutdownsAre ==
  ASSUME Types, TheStep, kind = "stopped"
  PROVE  /\ at <= 2 => Shutdowns = {}
         /\ at > 2 => /\ Shutdowns # {}
                      /\ (CHOOSE i \in Shutdowns : \A j \in Shutdowns : i <= j) = 2
<1>1. at \in Nat \ {0} /\ Plan[1] # "linode.instance.stop" /\ Plan[2] = "linode.instance.stop"
  BY Plan_stopped DEF Types
<1>2. CASE at <= 2
  BY <1>1, <1>2 DEF Shutdowns
<1>3. CASE at > 2
  <2>1. 2 \in Shutdowns /\ \A j \in Shutdowns : j \in Nat /\ 2 <= j
    BY <1>1, <1>3 DEF Shutdowns
  <2> DEFINE P(i) == \A j \in Shutdowns : i <= j
  <2>2. 2 \in Shutdowns /\ P(2)
    BY <2>1
  <2>3. (CHOOSE i \in Shutdowns : P(i)) \in Shutdowns /\ P(CHOOSE i \in Shutdowns : P(i))
    BY <2>2
  <2>4. \A i \in Shutdowns : P(i) => i = 2
    BY <2>1
  <2>5. (CHOOSE i \in Shutdowns : P(i)) = 2
    BY <2>3, <2>4
  <2> QED BY <1>1, <1>3, <2>1, <2>5
<1> QED BY <1>1, <1>2, <1>3

LEMMA PastFits ==
  ASSUME Types
  PROVE  \A i \in 1 .. at - 1 : past[i] \in Receipt /\ past[i].mark \in Nat /\ past[i].event \in Nat
                                /\ past[i].cand \in Address \cup {Nothing}
<1>1. past \in Seq(Receipt) /\ Len(past) = at - 1
  BY DEF Types
<1>2. \A i \in 1 .. at - 1 : past[i] \in Receipt
  BY <1>1
<1> QED BY <1>2 DEF Receipt

LEMMA WatermarkIs ==
  ASSUME Types, ~Finished, Action \in PowerActions
  PROVE  /\ FirstMark \in Nat
         /\ Watermark = IF receipt.known THEN receipt.mark ELSE IF retry > 0 THEN retry ELSE FirstMark
         /\ Watermark \in Nat
<1>0. TheStep
  BY StepFits
<1>1. \A i \in 1 .. at - 1 : past[i].mark \in Nat /\ past[i].event \in Nat
  BY PastFits
<1>2. at \in Nat /\ receipt.mark \in Nat /\ retry \in Nat
  BY DEF Types, Receipt
<1>3. CASE kind = "stopped"
  <2>1. (at = 2 /\ ~Cleaning) \/ at = 3 \/ at = 5 \/ at = 6
    BY <1>0, <1>3, PowerSteps DEF Rotates, Cleans
  <2>2. FirstMark \in Nat
    BY <1>1, <1>2, <1>3, <2>1 DEF FirstMark
  <2>3. CASE at = 2 /\ ~Cleaning
    <3>1. Shutdowns = {}
      BY <1>0, <1>3, <2>3, ShutdownsAre
    <3> QED BY <1>2, <1>3, <2>2, <2>3, <3>1 DEF Watermark, FirstMark
  <2>4. CASE at \in {3, 5, 6}
    <3>1. Shutdowns # {} /\ (CHOOSE i \in Shutdowns : \A j \in Shutdowns : i <= j) = 2
      BY <1>0, <1>3, <2>4, ShutdownsAre
    <3>2. past[CHOOSE i \in Shutdowns : \A j \in Shutdowns : i <= j].event = past[2].event
      BY <3>1
    <3>3. FirstMark = past[2].event
      BY <1>3, <2>4 DEF FirstMark
    <3>4. Watermark = IF receipt.known THEN receipt.mark ELSE IF retry > 0 THEN retry ELSE FirstMark
      BY <1>3, <3>1, <3>2, <3>3 DEF Watermark
    <3> QED BY <1>2, <2>2, <3>4
  <2> QED BY <2>1, <2>3, <2>4
<1>4. CASE kind # "stopped"
  <2>1. \/ kind = "linode" /\ at = 2 /\ ~Cleaning
        \/ kind = "linode" /\ at = 4 /\ Cleaning
        \/ kind = "swap" /\ at = 3 /\ ~Cleaning
    BY <1>0, <1>4, PowerSteps DEF Rotates, Cleans
  <2> QED BY <1>1, <1>2, <2>1 DEF Watermark, FirstMark
<1> QED BY <1>3, <1>4

LEMMA MergedFits ==
  ASSUME Types, NEW op \in BOOLEAN, NEW cand \in Address \cup {Nothing}, NEW mark \in Nat, NEW event \in Nat
  PROVE  Merged(op, cand, mark, event) \in Receipt
BY DEF Merged, Types, Receipt

LEMMA CandidateFits ==
  ASSUME Types
  PROVE  Candidate \in Address \cup {Nothing} /\ (Cleaning => Published \in Address \cup {Nothing})
<1>1. at \in Nat \ {0} /\ Len(past) = at - 1
  BY DEF Types
<1>2. Candidate \in Address \cup {Nothing}
  <2>1. CASE past = <<>>
    BY <2>1 DEF Candidate
  <2>2. CASE past # <<>>
    <3>1. 1 \in 1 .. at - 1
      BY <1>1, <2>2 DEF Types
    <3> QED BY <2>2, <3>1, PastFits DEF Candidate
  <2> QED BY <2>1, <2>2
<1>3. Len(Rotation[kind]) \in {1, 2, 3}
  BY KindFits, Kinds10, Plan_eip, Plan_auto, Plan_ipv6, Plan_static, Plan_dynamic, Plan_dualstack,
     Plan_azure, Plan_linode, Plan_stopped, Plan_swap
<1>4. Cleaning => Len(Rotation[kind]) \in 1 .. at - 1
  <2> DEFINE n == Len(Rotation[kind])
  <2>1. n \in {1, 2, 3}
    BY <1>3
  <2>2. Cleaning => at > n
    BY DEF Cleaning
  <2> HIDE DEF n
  <2>3. Cleaning => n \in 1 .. at - 1
    BY <1>1, <2>1, <2>2
  <2> QED BY <2>3 DEF n
<1> QED BY <1>2, <1>4, PastFits DEF Published

LEMMA FoundFits ==
  ASSUME Types, ~Finished
  PROVE  FoundReceipt \in Receipt
<1>0. receipt.cand \in Address \cup {Nothing} /\ receipt.mark \in Nat /\ receipt.event \in Nat
  BY DEF Types, Receipt
<1>1. CASE OfLinode
  <2>1. LinodeFinds \in Address \cup {Nothing}
    BY <1>0, CandidateFits DEF LinodeFinds, Types
  <2>2. Len(log) \in Nat
    BY DEF Types
  <2>3. LinodeMark \in Nat
    BY <1>0, <2>2, WatermarkIs DEF LinodeMark
  <2>4. LinodeEvent \in Nat
    <3>1. Answers # {} => TheAnswer \in Answers
      BY ChoiceFits DEF TheAnswer
    <3> QED BY <1>0, <2>2, <3>1 DEF LinodeEvent, Answers
  <2> QED BY <1>1, <2>1, <2>3, <2>4, MergedFits DEF FoundReceipt
<1>2. CASE ~OfLinode
  <2>0. \A S : S # {} => (CHOOSE x \in S : TRUE) \in S
    BY ChoiceFits
  <2>1. Named # {} => TheNamed \in Address
    BY <2>0 DEF TheNamed, Named, Types
  <2>2. On # {} => (CHOOSE x \in On : TRUE) \in Address
    BY <2>0 DEF On
  <2>3. TheStep /\ kind \in {"eip", "auto", "ipv6", "static", "dynamic", "dualstack", "azure"}
    BY <1>2, StepFits, KindFits, Kinds10 DEF OfLinode
  <2>4. Finds \in Address \cup {Nothing}
    <3>1. CASE kind \in {"eip", "auto", "ipv6"}
      <4>1. Finds = Ec2Finds
        BY <3>1 DEF Finds, OfLinode
      <4>2. Ec2Finds \in {receipt.cand, Candidate} \/ (On # {} /\ Ec2Finds = CHOOSE x \in On : TRUE)
            \/ (Named # {} /\ Ec2Finds = TheNamed)
        BY DEF Ec2Finds
      <4> QED BY <1>0, <2>1, <2>2, <4>1, <4>2, CandidateFits
    <3>2. CASE kind \in {"static", "dynamic", "dualstack"}
      <4>1. Finds = LightsailFinds
        BY <3>2 DEF Finds, OfLinode
      <4>2. LightsailFinds \in {receipt.cand, Candidate} \/ (On # {} /\ LightsailFinds = CHOOSE x \in On : TRUE)
            \/ (Named # {} /\ LightsailFinds = TheNamed)
        BY DEF LightsailFinds
      <4> QED BY <1>0, <2>1, <2>2, <4>1, <4>2, CandidateFits
    <3>3. CASE kind = "azure"
      <4>1. Action = "azure.public-ip.delete" => Cleaning
        BY <2>3, <3>3 DEF TheStep, Rotates, Cleans
      <4> QED BY <2>1, <3>3, <4>1, CandidateFits DEF Finds, AzureFinds, OfLinode
    <3> QED BY <2>3, <3>1, <3>2, <3>3
  <2> QED BY <1>0, <1>2, <2>4, MergedFits DEF FoundReceipt
<1> QED BY <1>1, <1>2

LEMMA FindsFits ==
  ASSUME Types, ~Finished, ~OfLinode
  PROVE  Merged(FALSE, Finds, Len(log), 0) \in Receipt
<1>1. FoundReceipt.cand = IF Finds = Nothing THEN receipt.cand ELSE Finds
  BY DEF FoundReceipt, Merged
<1>2. FoundReceipt.cand \in Address \cup {Nothing} /\ Len(log) \in Nat
  BY FoundFits DEF Receipt, Types
<1> QED BY <1>1, <1>2 DEF Merged, Types, Receipt

LEMMA SameStep ==
  ASSUME UNCHANGED <<kind, at>>
  PROVE  /\ Plan' = Plan /\ Action' = Action
         /\ Finished' <=> Finished
         /\ Cleaning' <=> Cleaning
         /\ OfLinode' <=> OfLinode
BY DEF Plan, Action, Finished, Cleaning, OfLinode

LEMMA TypesInit == Init => Types
<1> SUFFICES ASSUME Init PROVE Types
  OBVIOUS
<1>1. receipt \in Receipt /\ call \in Call
  BY DEF Init, Receipt, Call, NoReceipt, NoCall
<1>2. place \in [Address -> Place] /\ booted \subseteq Address
  BY Constants DEF Init, Place
<1> QED BY <1>1, <1>2, Constants DEF Init, Types, Helper

\* What the worker does, but for observations, leaves the resources alone.
Works == Dispatch \/ Send \/ FindsDone \/ Refuses \/ Answer \/ TimesOut \/ LateAnswer \/ Crash \/ Retry \/ ResumedByHand

LEMMA WorkerKeeps ==
  ASSUME Works
  PROVE  UNCHANGED <<kind, place, named, fresh, helper, log, power, booted, at, past, made, outside>>
BY DEF Works, Dispatch, Send, FindsDone, Refuses, Answer, TimesOut, LateAnswer, Crash, Retry, ResumedByHand, cloud, rows, RateLimited, OtherRefusal

LEMMA AnswerFits ==
  ASSUME Types
  PROVE  AnswerReceipt \in Receipt
<1>1. Answered \in Address \cup {Nothing} /\ call.mark \in Nat /\ receipt.event \in Nat
  BY CandidateFits DEF Answered, Types, Call, Receipt
<1>2. (kind \in {"static", "dynamic", "dualstack", "azure"}) \in BOOLEAN
  OBVIOUS
<1> QED BY <1>1, <1>2, MergedFits DEF AnswerReceipt

LEMMA FindsAreNotLinode ==
  ASSUME Types, ~Finished, Look = "found"
  PROVE  ~OfLinode
<1>1. TheStep
  BY StepFits
<1>2. ASSUME kind \in {"linode", "stopped"} PROVE FALSE
  <2>1. Look = LinodeLook
    BY <1>2 DEF Look
  <2>2. Action \in PowerActions \cup {"linode.ipv4.allocate", "linode.ipv4.release"}
    BY <1>1, <1>2, StepFacts
  <2> QED BY <2>1, <2>2 DEF LinodeLook, PowerActions
<1>3. ASSUME kind = "swap" PROVE FALSE
  <2>1. Look = SwapLook
    BY <1>3 DEF Look
  <2>2. Action \in {"linode.swap.allocate", "linode.ipv4.swap", "linode.instance.reboot", "linode.swap.delete"}
    BY <1>1, <1>3, StepFacts
  <2> QED BY <2>1, <2>2 DEF SwapLook, PowerActions
<1> QED BY <1>2, <1>3 DEF OfLinode

LEMMA WorkerTypes ==
  ASSUME Types, Works
  PROVE  Types'
<1>0. UNCHANGED <<kind, place, named, fresh, helper, log, power, booted, at, past, made, outside>>
  BY WorkerKeeps
<1>1. Finished' <=> Finished
  BY <1>0, SameStep
<1>2. NoReceipt \in Receipt /\ NoCall \in Call
  BY DEF Receipt, Call, NoReceipt, NoCall
<1> USE DEF Open, Refused, Retried
<1>3. /\ status' \in {"prepared", "ambiguous"} \cup Open \cup Refused
      /\ job' \in {"idle", "look", "wait", "late"} /\ tries' \in 0 .. MaxTries
      /\ upset' \subseteq {"outsider", "lost", "deaf"}
  <2>1. CASE Dispatch
    <3>1. tries' \in 0 .. MaxTries
      BY <2>1, Constants DEF Types, Dispatch
    <3> QED BY <2>1, <3>1 DEF Types, Dispatch
  <2>2. CASE Send \/ FindsDone \/ Refuses \/ Answer
    BY <2>2 DEF Types, Send, FindsDone, Refuses, Answer, rows, RateLimited, OtherRefusal
  <2>3. CASE TimesOut \/ LateAnswer \/ Crash \/ Retry \/ ResumedByHand
    BY <2>3 DEF Types, TimesOut, LateAnswer, Crash, Retry, ResumedByHand, rows
  <2> QED BY <2>1, <2>2, <2>3 DEF Works
<1>4. receipt' \in Receipt
  <2>1. CASE FindsDone
    <3>1. ~Finished /\ ~OfLinode
      BY <2>1, FindsAreNotLinode DEF FindsDone, Types
    <3> QED BY <2>1, <3>1, FindsFits DEF FindsDone
  <2>2. CASE Answer \/ LateAnswer
    BY <2>2, AnswerFits DEF Answer, LateAnswer, Types, RateLimited, OtherRefusal
  <2>3. CASE Dispatch
    BY <2>3, <1>2 DEF Dispatch
  <2>4. CASE Send \/ Refuses \/ TimesOut \/ Crash \/ Retry \/ ResumedByHand
    BY <2>4 DEF Types, Send, Refuses, TimesOut, Crash, Retry, ResumedByHand, rows, RateLimited, OtherRefusal
  <2> QED BY <2>1, <2>2, <2>3, <2>4 DEF Works
<1>5. call' \in Call
  <2>1. CASE Send
    <3>1. ~Finished
      BY <2>1 DEF Send, Types
    <3>2. (IF Action \in PowerActions THEN Watermark ELSE Len(log)) \in Nat
      BY <3>1, WatermarkIs DEF Types
    <3> QED BY <2>1, <3>2 DEF Send, Call
  <2>2. CASE Dispatch
    BY <2>2, <1>2 DEF Dispatch
  <2>3. CASE FindsDone \/ Refuses \/ Answer \/ TimesOut \/ LateAnswer \/ Crash \/ Retry \/ ResumedByHand
    BY <2>3 DEF Types, FindsDone, Refuses, Answer, TimesOut, LateAnswer, Crash, Retry, ResumedByHand, RateLimited, OtherRefusal
  <2> QED BY <2>1, <2>2, <2>3 DEF Works
<1>6. retry' \in Nat
  <2>1. receipt.event \in Nat
    BY DEF Types, Receipt
  <2> QED BY <2>1 DEF Works, Types, Dispatch, Send, FindsDone, Refuses, Answer, TimesOut, LateAnswer, Crash, Retry, ResumedByHand, rows, RateLimited, OtherRefusal
<1>7. /\ job' = "look" => status' = "in_flight" /\ receipt' = NoReceipt /\ call' = NoCall
      /\ Finished => job' = "idle" /\ call' = NoCall
  <2>1. CASE Dispatch
    BY <2>1 DEF Dispatch
  <2>2. CASE Retry \/ ResumedByHand
    BY <2>2 DEF Retry, ResumedByHand, Types, Cleaning, Finished
  <2>3. CASE Send \/ FindsDone \/ Refuses \/ Answer \/ TimesOut \/ LateAnswer \/ Crash
    BY <2>3 DEF Send, FindsDone, Refuses, Answer, TimesOut, LateAnswer, Crash, Types, RateLimited, OtherRefusal
  <2> QED BY <2>1, <2>2, <2>3 DEF Works
<1> QED BY <1>0, <1>1, <1>3, <1>4, <1>5, <1>6, <1>7 DEF Types

LEMMA ObserveTypes ==
  ASSUME Types, Observe
  PROVE  Types'
<1>0. ~Finished /\ FoundReceipt \in Receipt /\ NoReceipt \in Receipt /\ NoCall \in Call /\ 0 \in 0 .. MaxTries
  BY FoundFits, Constants DEF Observe, Receipt, Call, NoReceipt, NoCall
<1>1. UNCHANGED <<kind, place, named, fresh, helper, log, power, booted, made, outside>>
  BY DEF Observe, cloud
<1>2. CASE Observation = "applied" /\ Advance
  <2>1. past' \in Seq(Receipt) /\ Len(past') = at' - 1 /\ at' \in Nat \ {0}
    BY <1>0, <1>2 DEF Advance, Types
  <2> QED BY <1>0, <1>1, <1>2, <2>1 DEF Advance, Types
<1>3. CASE /\ Observation \in {"pending", "ambiguous", "not_applied"}
           /\ status' = Observation
           /\ receipt' = IF Observation = "ambiguous" THEN receipt ELSE FoundReceipt
           /\ UNCHANGED <<at, past, retry, tries, call, job, upset>>
  <2>1. (Finished' <=> Finished) /\ job # "look"
    BY <1>1, <1>3, SameStep DEF Observe
  <2> QED BY <1>0, <1>1, <1>3, <2>1 DEF Types, Open, Refused, Retried
<1> QED BY <1>2, <1>3 DEF Observe

\* What the provider and others do.
Provides == Arrive \/ Refuse \/ Lose \/ Finish \/ Fail \/ Provision \/ Remove \/ Outsider

LEMMA ProviderKeeps ==
  ASSUME Provides
  PROVE  UNCHANGED <<kind, at, status, receipt, past, retry, tries, job>>
BY DEF Provides, Arrive, Refuse, Lose, Finish, Fail, Provision, Remove, Outsider, rows

LEMMA EffectFits ==
  ASSUME Types, NEW x \in Address \cup {Nothing}, Gives => x \in Address
  PROVE  Effect(x) \in [Address -> Place]
<1> USE DEF Place
<1>1. place \in [Address -> Place] /\ Old \in Address
  BY Constants DEF Types
<1>2. CASE Gives
  BY <1>1, <1>2 DEF Effect, Gives
<1>3. CASE ~Gives
  BY <1>1, <1>3 DEF Effect, Gives
<1> QED BY <1>2, <1>3

LEMMA CarryOutSteps ==
  ASSUME Types, ~Finished, CarryOut, Possible, kind' = kind
  PROVE  /\ place' \in [Address -> Place] /\ named' \subseteq Address /\ fresh' \subseteq New
         /\ helper' \in Helper /\ call' \in Call /\ call'.st = "done" /\ UNCHANGED <<log, power, booted>>
         /\ made' = IF Action \in Allocations THEN made + 1 ELSE made
         /\ kind # "swap" => helper' = "none"
         /\ helper' = "offline" => \E x \in Address : place'[x] = "helper"
<1>0. TheStep
  BY StepFits
<1>1. PICK x \in (IF Gives THEN fresh ELSE {Nothing}) :
        /\ place' = Effect(x) /\ fresh' = fresh \ {x}
        /\ named' = IF Action \in {"ec2.eip.allocate", "lightsail.static-ip.allocate", "azure.public-ip.allocate"} THEN named \cup {x} ELSE named
        /\ helper' = CASE Action = "linode.swap.allocate" -> "provisioning" [] Action = "linode.swap.delete" -> "deleting" [] OTHER -> helper
        /\ call' = [call EXCEPT !.st = "done", !.new = x]
        /\ made' = IF Action \in Allocations THEN made + 1 ELSE made
        /\ UNCHANGED <<log, power, booted>>
  BY DEF CarryOut
<1>2. x \in Address \cup {Nothing} /\ (Gives => x \in Address)
  BY <1>1 DEF Types, Address
<1>3. place' \in [Address -> Place]
  BY <1>1, <1>2, EffectFits
<1>4. named' \subseteq Address
  BY <1>1, <1>2 DEF Types, Gives, Allocations
<1>5. call' \in Call /\ call'.st = "done"
  BY <1>1, <1>2 DEF Types, Call
<1>6. helper' \in Helper /\ (kind # "swap" => helper' = "none")
  <2>1. kind # "swap" => Action # "linode.swap.allocate" /\ Action # "linode.swap.delete"
    BY <1>0 DEF TheStep, Rotates, Cleans
  <2> QED BY <1>1, <2>1 DEF Types, Helper
<1>7. ASSUME helper' = "offline" PROVE \E y \in Address : place'[y] = "helper"
  <2>1. helper = "offline" /\ kind = "swap"
    BY <1>1, <1>6, <1>7
  <2>2. PICK y \in Address : place[y] = "helper"
    BY <2>1 DEF Types
  <2>3. Action \in {"linode.swap.allocate", "linode.ipv4.swap", "linode.instance.reboot", "linode.swap.delete"}
    BY <1>0, <2>1, StepFacts
  <2>4. CASE Action = "linode.ipv4.swap"
    <3>1. place' = [place EXCEPT ![Old] = "helper", ![Candidate] = "slot"] /\ Old # Candidate
      BY <1>1, <2>4 DEF Effect, Possible, Allocations
    <3> QED BY <3>1, Constants DEF Types
  <2>5. CASE Action # "linode.ipv4.swap"
    <3>1. place' = place
      BY <1>1, <2>3, <2>5 DEF Effect
    <3> QED BY <2>2, <3>1
  <2> QED BY <2>4, <2>5
<1> QED BY <1>1, <1>3, <1>4, <1>5, <1>6, <1>7 DEF Types

LEMMA LogSteps ==
  ASSUME Types, ~Finished, Action \in PowerActions
  PROVE  /\ PowerStarts => log' \in Seq(Event) /\ Len(log') = Len(log) + 1
         /\ \A how \in {"finished", "failed"} :
              PowerEnds(how) => log' \in Seq(Event) /\ Len(log') = Len(log) /\ power' \in {"running", "offline"}
                                /\ booted' \subseteq Address
<1>1. log \in Seq(Event) /\ PowerEvent \in {"reboot", "stop", "start"}
  BY DEF Types, PowerEvent, PowerActions
<1>2. ASSUME PowerStarts PROVE log' \in Seq(Event) /\ Len(log') = Len(log) + 1
  <2>1. [what |-> PowerEvent, mine |-> TRUE, how |-> "started"] \in Event
    BY <1>1 DEF Event
  <2> QED BY <1>1, <1>2, <2>1 DEF PowerStarts
<1>3. ASSUME NEW how \in {"finished", "failed"}, PowerEnds(how)
      PROVE  log' \in Seq(Event) /\ Len(log') = Len(log)
  <2>0. \A v \in Event : [v EXCEPT !.how = how] \in Event
    BY DEF Event
  <2>1. \A e \in 1 .. Len(log) : log[e] \in Event /\ [log[e] EXCEPT !.how = how] \in Event
    BY <1>1, <2>0
  <2>2. log' = [e \in 1 .. Len(log) |-> IF log[e].mine /\ log[e].how = "started" THEN [log[e] EXCEPT !.how = how] ELSE log[e]]
    BY <1>3 DEF PowerEnds
  <2>3. Len(log) \in Nat /\ log' \in [1 .. Len(log) -> Event]
    BY <1>1, <2>1, <2>2
  <2> QED BY <2>3
<1>4. ASSUME NEW how \in {"finished", "failed"}, PowerEnds(how)
      PROVE  power' \in {"running", "offline"} /\ booted' \subseteq Address
  BY <1>4 DEF PowerEnds, Types, On
<1> QED BY <1>2, <1>3, <1>4

LEMMA ProviderTypes ==
  ASSUME Types, Provides
  PROVE  Types'
<1>0. UNCHANGED <<kind, at, status, receipt, past, retry, tries, job>> /\ (Finished' <=> Finished)
  BY ProviderKeeps, SameStep
<1>1. ASSUME NEW s \in {"running", "done", "failed", "refused", "lost"}
      PROVE  [call EXCEPT !.st = s] \in Call
  BY DEF Types, Call
<1>2. call.st \in {"sent", "running"} => ~Finished /\ job # "look"
  BY DEF Types, NoCall
<1>3. CASE UNCHANGED <<cloud, made, outside>> /\ upset' \subseteq {"outsider", "lost", "deaf"} /\ call' \in Call
           /\ ~Finished /\ job # "look"
  BY <1>0, <1>3 DEF Types, cloud
<1>4. CASE Refuse \/ Lose
  <2>1. upset' \subseteq {"outsider", "lost", "deaf"}
    BY <1>4 DEF Refuse, Lose, Types
  <2> QED BY <1>1, <1>2, <1>3, <1>4, <2>1 DEF Refuse, Lose
<1>5. ASSUME Possible, CarryOut, ~Finished, job # "look", UNCHANGED <<upset, outside>> PROVE Types'
  <2>1. made' \in Nat
    BY <1>0, <1>5, CarryOutSteps DEF Types
  <2> QED BY <1>0, <1>5, <2>1, CarryOutSteps DEF Types
<1>6. CASE Arrive
  <2>1. ~Finished /\ job # "look" /\ UNCHANGED <<upset, outside>> /\ upset' \subseteq {"outsider", "lost", "deaf"}
    BY <1>2, <1>6 DEF Arrive, Types
  <2>2. CASE ~Possible \/ (Delayed /\ Action \notin PowerActions)
    <3>1. call' \in Call /\ UNCHANGED <<cloud, made>>
      BY <1>1, <1>6, <2>2 DEF Arrive
    <3> QED BY <1>3, <2>1, <3>1
  <2>3. CASE Possible /\ ~Delayed
    BY <1>5, <1>6, <2>1, <2>3 DEF Arrive
  <2>4. CASE Possible /\ Delayed /\ Action \in PowerActions
    <3>1. call' \in Call /\ PowerStarts
      BY <1>1, <1>6, <2>4 DEF Arrive
    <3> QED BY <1>0, <2>1, <2>4, <3>1, LogSteps DEF Types, PowerStarts
  <2> QED BY <2>2, <2>3, <2>4
<1>7. CASE Finish
  <2>1. ~Finished /\ job # "look" /\ UNCHANGED <<upset, outside>>
    BY <1>2, <1>7 DEF Finish
  <2>2. CASE Action \in PowerActions
    <3>1. call' \in Call /\ PowerEnds("finished")
      BY <1>1, <1>7, <2>2 DEF Finish
    <3> QED BY <1>0, <2>1, <2>2, <3>1, LogSteps DEF Types, PowerEnds
  <2>3. CASE Action \notin PowerActions
    BY <1>5, <1>7, <2>1, <2>3 DEF Finish
  <2> QED BY <2>2, <2>3
<1>8. CASE Fail
  <2>1. ~Finished /\ job # "look" /\ UNCHANGED <<upset, outside>> /\ call' \in Call
    BY <1>1, <1>2, <1>8 DEF Fail
  <2>2. CASE Action \in PowerActions
    <3>1. PowerEnds("failed")
      BY <1>8, <2>2 DEF Fail
    <3> QED BY <1>0, <2>1, <2>2, <3>1, LogSteps DEF Types, PowerEnds
  <2>3. CASE Action \notin PowerActions
    <3>1. UNCHANGED <<cloud, made>>
      BY <1>8, <2>3 DEF Fail
    <3>2. upset' \subseteq {"outsider", "lost", "deaf"}
      BY <2>1 DEF Types
    <3> QED BY <1>3, <2>1, <3>1, <3>2
  <2> QED BY <2>2, <2>3
<1>9. CASE Provision
  <2>1. PICK x \in fresh : place' = [place EXCEPT ![x] = "helper"] /\ fresh' = fresh \ {x}
    BY <1>9 DEF Provision
  <2>2. x \in Address /\ place' \in [Address -> Place] /\ place'[x] = "helper"
    BY <2>1 DEF Types, Address, Place
  <2> QED BY <1>0, <1>9, <2>1, <2>2 DEF Provision, Types, Helper
<1>10. CASE Remove
  <2>1. place' \in [Address -> Place]
    BY <1>10 DEF Remove, Types, Place
  <2> QED BY <1>0, <1>10, <2>1 DEF Remove, Types, Helper
<1>11. CASE Outsider
  <2>1. UNCHANGED <<named, fresh, helper, power, made, call>> /\ ~Finished /\ outside' \in 0 .. MaxOutside
        /\ upset' \subseteq {"outsider", "lost", "deaf"}
    BY <1>11, Constants DEF Outsider, Types
  <2>2. CASE \E x \in Address, p \in Place : /\ place' = [place EXCEPT ![x] = p] /\ UNCHANGED <<log, booted>>
                                            /\ place[x] \in {"free", "slot"}
    <3>1. place' \in [Address -> Place]
      BY <2>2 DEF Types
    <3>2. helper = "offline" => \E x \in Address : place'[x] = "helper"
      BY <2>2 DEF Types
    <3> QED BY <1>0, <2>1, <2>2, <3>1, <3>2 DEF Types
  <2>3. CASE /\ log' = Append(log, [what |-> "reboot", mine |-> FALSE, how |-> "finished"]) /\ booted' = On
             /\ UNCHANGED place
    <3>1. [what |-> "reboot", mine |-> FALSE, how |-> "finished"] \in Event
      BY DEF Event
    <3>2. log' \in Seq(Event) /\ booted' \subseteq Address
      BY <2>3, <3>1 DEF Types, On
    <3> QED BY <1>0, <2>1, <2>3, <3>2 DEF Types
  <2> QED BY <1>11, <2>2, <2>3 DEF Outsider
<1> QED BY <1>4, <1>6, <1>7, <1>8, <1>9, <1>10, <1>11 DEF Provides

LEMMA TypesStep == Types /\ [Next]_vars => Types'
<1> SUFFICES ASSUME Types, [Next]_vars PROVE Types'
  OBVIOUS
<1>1. Next => Works \/ Observe \/ Provides
  BY DEF Next, Works, Provides
<1>2. CASE UNCHANGED vars
  BY <1>2, SameStep DEF vars, rows, cloud, Types
<1> QED BY <1>1, <1>2, WorkerTypes, ObserveTypes, ProviderTypes

-----------------------------------------------------------------------------
(* One allocation.                                                         *)

\* While an allocation may still be sent, nothing has been made.
Allocated ==
  /\ made <= 1
  /\ ~Finished /\ Action \in Allocations =>
       /\ status \in Refused \cup {"prepared"} => made = 0 /\ ~InFlight
       /\ job = "look" => made = 0
       /\ made = 1 => call.st = "done"
  /\ kind = "swap" /\ at = 1 /\ made = 0 => helper = "none"

LEMMA AllocationsAreNotRefuted ==
  ASSUME Types, ~Finished, Action \in Allocations
  PROVE  Observation # "not_applied"
<1>0. TheStep
  BY StepFits
<1>1. CASE kind \in {"eip", "auto", "ipv6"}
  <2>1. Action \in {"ec2.eip.allocate", "ec2.ipv6.assign"}
    BY <1>0, <1>1, StepFacts DEF Allocations
  <2> QED BY <1>1, <2>1 DEF Observation, Ec2Observe, Unnamed
<1>2. CASE kind \in {"static", "dynamic", "dualstack"}
  <2>1. Action = "lightsail.static-ip.allocate"
    BY <1>0, <1>2, StepFacts DEF Allocations
  <2> QED BY <1>2, <2>1 DEF Observation, LightsailObserve
<1>3. CASE kind = "azure"
  <2>1. Action = "azure.public-ip.allocate"
    BY <1>0, <1>3, StepFacts DEF Allocations
  <2> QED BY <1>3, <2>1 DEF Observation, AzureObserve, AzureRotated
<1>4. CASE kind \in {"linode", "stopped"}
  <2>1. Action = "linode.ipv4.allocate"
    BY <1>0, <1>4, StepFacts DEF Allocations, PowerActions
  <2> QED BY <1>4, <2>1 DEF Observation, LinodeObserve, Added, PowerActions
<1>5. CASE kind = "swap"
  <2>1. Action = "linode.swap.allocate"
    BY <1>0, <1>5, StepFacts DEF Allocations
  <2> QED BY <1>5, <2>1 DEF Observation, SwapObserve, PowerActions
<1> QED BY <1>1, <1>2, <1>3, <1>4, <1>5, KindFits, Kinds10

LEMMA AllocatedWorks ==
  ASSUME Types, Allocated, Works
  PROVE  Allocated'
<1>0. UNCHANGED <<kind, at, helper, made>>
  BY WorkerKeeps
<1>1. (Finished' <=> Finished) /\ Action' = Action /\ (Cleaning' <=> Cleaning)
  BY <1>0, SameStep
<1> SUFFICES ASSUME ~Finished, Action \in Allocations
             PROVE  /\ status' \in Refused \cup {"prepared"} => made = 0 /\ ~InFlight'
                    /\ job' = "look" => made = 0
                    /\ made = 1 => call'.st = "done"
  BY <1>0, <1>1 DEF Allocated
<1>2. ~Cleaning /\ made \in {0, 1}
  BY StepFits, StepFacts DEF Allocated, Types
<1>3. CASE Dispatch
  BY <1>2, <1>3 DEF Dispatch, Allocated, InFlight, NoCall, Refused, Retried
<1>4. CASE Send
  <2>1. status = "in_flight" /\ made = 0 /\ UNCHANGED status /\ job' = "wait"
    BY <1>2, <1>4 DEF Send, Types, Allocated, rows
  <2> QED BY <2>1 DEF Refused, Retried
<1>7. CASE FindsDone \/ Refuses
  <2>1. made = 0 /\ job' = "idle" /\ call' = NoCall
    BY <1>2, <1>7 DEF FindsDone, Refuses, Types, Allocated, RateLimited, OtherRefusal
  <2> QED BY <2>1 DEF InFlight, NoCall
<1>5. CASE Answer
  BY <1>2, <1>5 DEF Answer, Allocated, InFlight, Refused, Retried, RateLimited, OtherRefusal
<1>6. CASE TimesOut \/ LateAnswer \/ Crash \/ Retry \/ ResumedByHand
  BY <1>2, <1>6 DEF TimesOut, LateAnswer, Crash, Retry, ResumedByHand, Allocated, InFlight, Refused, Retried, rows
<1> QED BY <1>3, <1>4, <1>5, <1>6, <1>7 DEF Works

AllocatesFirst == ~Finished /\ Action \in Allocations => at = 1

LEMMA AllocationsAreFirst == Types => AllocatesFirst
BY StepFits, StepFacts DEF AllocatesFirst

LEMMA AllocatedObserve ==
  ASSUME Types, Allocated, Observe
  PROVE  Allocated'
<1>0. ~Finished /\ UNCHANGED <<kind, helper, made>>
  BY DEF Observe, cloud
<1>1. CASE Observation = "applied" /\ Advance
  <2>1. at' > 1 /\ at' \in Nat \ {0} /\ kind' \in Kind
    BY <1>0, <1>1, KindFits DEF Advance, Types
  <2>2. Types'
    BY ObserveTypes
  <2>3. ~Finished' => Action' \notin Allocations
    <3>1. AllocatesFirst'
      BY <2>2, AllocationsAreFirst, PTL
    <3> QED BY <2>1, <3>1 DEF AllocatesFirst, Allocations
  <2> QED BY <1>0, <2>1, <2>3 DEF Allocated
<1>2. CASE /\ Observation \in {"pending", "ambiguous", "not_applied"}
           /\ status' = Observation
           /\ UNCHANGED <<at, call, job>>
  <2>1. (Finished' <=> Finished) /\ Action' = Action
    BY <1>0, <1>2, SameStep
  <2>2. Action \in Allocations => status' \notin Refused \cup {"prepared"}
    BY <1>0, <1>2, AllocationsAreNotRefuted DEF Refused, Retried
  <2> QED BY <1>0, <1>2, <2>1, <2>2 DEF Allocated
<1> QED BY <1>1, <1>2 DEF Observe

LEMMA AllocatedProvides ==
  ASSUME Types, Allocated, Provides
  PROVE  Allocated'
<1>0. UNCHANGED <<kind, at, status, job>> /\ (Finished' <=> Finished) /\ Action' = Action
  BY ProviderKeeps, SameStep
<1>1. InFlight => ~Finished
  BY DEF Types, InFlight, NoCall
<1>2. made \in Nat
  BY DEF Types
<1>3. ASSUME InFlight, Possible, CarryOut PROVE Allocated'
  <2>1. call'.st = "done" /\ made' = IF Action \in Allocations THEN made + 1 ELSE made
    BY <1>0, <1>1, <1>3, CarryOutSteps
  <2>2. kind = "swap" /\ at = 1 => Action \in Allocations
    BY <1>1, <1>3, StepFits DEF TheStep, Rotates, Cleans, Allocations
  <2>3. Action \in Allocations => made = 0 /\ status \notin Refused \cup {"prepared"} /\ job # "look"
    BY <1>1, <1>2, <1>3 DEF Allocated, InFlight, Types, NoCall
  <2>4. kind = "swap" /\ at = 1 => made' # 0
    BY <1>2, <2>1, <2>2
  <2>5. made' <= 1
    BY <1>2, <2>1, <2>3 DEF Allocated
  <2> QED BY <1>0, <2>1, <2>3, <2>4, <2>5 DEF Allocated
<1>4. ASSUME InFlight, UNCHANGED <<made, helper>>, InFlight' \/ call'.st \in {"refused", "lost", "failed", "done"},
             Action \in Allocations => call'.st # "done"
      PROVE  Allocated'
  BY <1>0, <1>1, <1>4 DEF Allocated, InFlight
<1>5. Action \in Allocations => Action \notin PowerActions
  BY DEF Allocations, PowerActions
<1>6. CASE Arrive
  <2>1. InFlight
    BY <1>6 DEF Arrive, InFlight
  <2>2. CASE Possible /\ ~Delayed
    BY <1>3, <1>6, <2>1, <2>2 DEF Arrive
  <2>3. CASE ~(Possible /\ ~Delayed)
    <3>1. UNCHANGED <<made, helper>>
      BY <1>6, <2>3 DEF Arrive, PowerStarts, cloud
    <3>2. call'.st \in {"refused", "running"}
      BY <1>6, <2>3 DEF Arrive, Types, Call
    <3> QED BY <1>4, <2>1, <3>1, <3>2 DEF InFlight
  <2> QED BY <2>2, <2>3
<1>7. CASE Refuse \/ Lose
  <2>1. InFlight /\ UNCHANGED <<made, helper>> /\ call'.st \in {"refused", "lost"}
    BY <1>7 DEF Refuse, Lose, InFlight, cloud, Types, Call
  <2> QED BY <1>4, <2>1
<1>8. CASE Finish
  <2>1. InFlight
    BY <1>8 DEF Finish, InFlight
  <2>2. CASE Action \in PowerActions
    <3>1. UNCHANGED <<made, helper>> /\ call'.st = "done"
      BY <1>8, <2>2 DEF Finish, PowerEnds, Types, Call
    <3> QED BY <1>4, <1>5, <2>1, <2>2, <3>1
  <2>3. CASE Action \notin PowerActions
    BY <1>3, <1>8, <2>1, <2>3 DEF Finish
  <2> QED BY <2>2, <2>3
<1>9. CASE Fail
  <2>1. InFlight /\ UNCHANGED <<made, helper>> /\ call'.st = "failed"
    BY <1>9 DEF Fail, InFlight, PowerEnds, cloud, Types, Call
  <2> QED BY <1>4, <2>1
<1>10. CASE Provision \/ Remove \/ Outsider
  <2>1. UNCHANGED <<made, call>> /\ (helper = "none" => helper' = "none")
    BY <1>10 DEF Provision, Remove, Outsider
  <2> QED BY <1>0, <2>1 DEF Allocated, InFlight
<1> QED BY <1>6, <1>7, <1>8, <1>9, <1>10 DEF Provides

LEMMA AllocatedInit == Init => Allocated
BY DEF Init, Allocated, InFlight, NoCall

LEMMA AllocatedStep == Types /\ Allocated /\ [Next]_vars => Allocated'
<1>1. Next => Works \/ Observe \/ Provides
  BY DEF Next, Works, Provides
<1>2. Types /\ Allocated /\ UNCHANGED vars => Allocated'
  BY SameStep DEF vars, rows, cloud, Allocated, InFlight
<1> QED BY <1>1, <1>2, AllocatedWorks, AllocatedObserve, AllocatedProvides

-----------------------------------------------------------------------------
(* A call that can still have an effect has had none that is seen.         *)

\* What is seen of the resources before the effect of the call of a step.
Unplaced ==
  /\ Action \in {"ec2.auto-ipv4.disable", "lightsail.ipv6.disable"} => On # {}
  /\ Action \in {"ec2.auto-ipv4.enable", "lightsail.ipv6.enable"} => On = {}
  /\ Action \in {"ec2.eip.allocate", "lightsail.static-ip.allocate", "azure.public-ip.allocate"} => Named = {}
  /\ Action \in {"ec2.eip.associate", "lightsail.static-ip.attach", "azure.public-ip.associate", "linode.ipv4.swap"} => Candidate \notin On
  /\ Action \in {"ec2.ipv6.unassign", "lightsail.static-ip.detach", "linode.ipv4.release"} => Old \in On
  /\ Action \in {"ec2.eip.release", "lightsail.static-ip.release", "azure.public-ip.delete"} => place[Old] = "free"
  /\ Action = "linode.swap.allocate" => helper = "none"
  /\ Action \in {"linode.ipv4.swap", "linode.swap.delete"} => helper = "offline"

\* An allocation in flight that the receipt alone can tell of has not told of it.
Unanswered ==
  Action \in {"ec2.ipv6.assign", "linode.ipv4.allocate"} => receipt.cand = Nothing

\* The event of a power action in flight is the next one of the log.
Unlogged ==
  Action \in PowerActions =>
    /\ Watermark = call.mark
    /\ call.st = "sent" => Len(log) = call.mark
    /\ call.st = "running" => Len(log) = call.mark + 1 /\ log[Len(log)].how = "started"

\* Without outsiders, the call of a step that may be sent again has no effect to
\* come, and the call of one that is awaited has had none that an observation sees.
Settled ==
  outside = 0 =>
    /\ status \in Refused \cup {"prepared"} => ~InFlight
    /\ InFlight => Unplaced /\ Unanswered /\ Unlogged

LEMMA SameWatermark ==
  ASSUME Types, UNCHANGED <<kind, at, past, retry>>,
         receipt' = receipt \/ (receipt'.known /\ receipt'.mark = Watermark)
  PROVE  Watermark' = Watermark
<1>1. UNCHANGED <<Plan, Shutdowns, Cleaning>>
  BY DEF Plan, Shutdowns, Cleaning
<1> QED BY <1>1 DEF Watermark

LEMMA SamePlaces ==
  ASSUME UNCHANGED <<kind, at, past, place, named, helper>>, Unplaced
  PROVE  Unplaced'
<1>1. Action' = Action
  BY SameStep
<1>2. UNCHANGED <<On, Named, Candidate>>
  BY DEF On, Named, Candidate
<1> QED BY <1>1, <1>2 DEF Unplaced

LEMMA SendIsBefore ==
  ASSUME Types, Allocated, Send
  PROVE  Unplaced /\ Unanswered /\ (Action \in PowerActions => Len(log) = Watermark)
<1>0. TheStep /\ ~Finished /\ Look = "write" /\ receipt = NoReceipt
  BY StepFits DEF Send, Types
<1>1. Unanswered
  BY <1>0 DEF Unanswered, NoReceipt
<1>2. CASE kind \in {"eip", "auto", "ipv6"}
  <2>1. Ec2Look = "write"
    BY <1>0, <1>2 DEF Look
  <2>2. Action \in {"ec2.eip.allocate", "ec2.eip.associate", "ec2.eip.release", "ec2.auto-ipv4.disable",
                    "ec2.auto-ipv4.enable", "ec2.ipv6.assign", "ec2.ipv6.unassign"}
    BY <1>0, <1>2, StepFacts
  <2> QED BY <1>1, <2>1, <2>2 DEF Ec2Look, Unplaced, PowerActions
<1>3. CASE kind \in {"static", "dynamic", "dualstack"}
  <2>1. LightsailLook = "write"
    BY <1>0, <1>3 DEF Look
  <2>2. Action \in {"lightsail.static-ip.allocate", "lightsail.static-ip.detach", "lightsail.static-ip.attach",
                    "lightsail.static-ip.release", "lightsail.ipv6.disable", "lightsail.ipv6.enable"}
    BY <1>0, <1>3, StepFacts
  <2> QED BY <1>1, <2>1, <2>2 DEF LightsailLook, Unplaced, PowerActions
<1>4. CASE kind = "azure"
  <2>1. AzureLook = "write"
    BY <1>0, <1>4 DEF Look
  <2>2. Action \in {"azure.public-ip.allocate", "azure.public-ip.associate", "azure.public-ip.delete"}
    BY <1>0, <1>4, StepFacts
  <2> QED BY <1>1, <2>1, <2>2 DEF AzureLook, AzureReleasable, Unplaced, PowerActions
<1>5. CASE kind \in {"linode", "stopped"}
  <2>1. LinodeLook = "write"
    BY <1>0, <1>5 DEF Look
  <2>2. Action \in PowerActions \cup {"linode.ipv4.allocate", "linode.ipv4.release"}
    BY <1>0, <1>5, StepFacts
  <2> QED BY <1>1, <2>1, <2>2 DEF LinodeLook, Unplaced, PowerActions
<1>6. CASE kind = "swap"
  <2>1. SwapLook = "write"
    BY <1>0, <1>6 DEF Look
  <2>2. Action \in {"linode.swap.allocate", "linode.ipv4.swap", "linode.instance.reboot", "linode.swap.delete"}
    BY <1>0, <1>6, StepFacts
  <2>3. Action = "linode.swap.allocate" => helper = "none"
    <3>1. Action = "linode.swap.allocate" => at = 1 /\ made = 0
      BY <1>0, StepFacts DEF Allocated, Allocations, Send
    <3> QED BY <1>6, <3>1 DEF Allocated
  <2>4. PairState = "before" => helper = "offline" /\ place[Candidate] = "helper"
    BY DEF PairState
  <2> QED BY <1>1, <2>1, <2>2, <2>3, <2>4 DEF SwapLook, Unplaced, PowerActions, On
<1> QED BY <1>2, <1>3, <1>4, <1>5, <1>6, KindFits, Kinds10

LEMMA UnloggedSettles ==
  ASSUME Types, ~Finished, Action \in PowerActions, InFlight, Unlogged
  PROVE  PowerObserve \notin {"applied", "not_applied", "error"}
<1>1. Len(log) \in Nat /\ Watermark \in Nat
  BY WatermarkIs DEF Types
<1>2. CASE call.st = "sent"
  <2>1. Answers = {}
    BY <1>1, <1>2 DEF Unlogged, Answers
  <2> QED BY <2>1 DEF PowerObserve
<1>3. CASE call.st = "running"
  <2>1. Answers \subseteq {Len(log)} /\ log[Len(log)].how = "started"
    BY <1>1, <1>3 DEF Unlogged, Answers
  <2>2. Answers # {} => TheAnswer \in Answers
    BY ChoiceFits DEF TheAnswer
  <2>3. Answers # {} => log[TheAnswer].how = "started"
    BY <2>1, <2>2
  <2> QED BY <2>3 DEF PowerObserve
<1> QED BY <1>2, <1>3 DEF InFlight

LEMMA InFlightIsUnsettled ==
  ASSUME Types, InFlight, Unplaced, Unanswered, Unlogged
  PROVE  Observation \notin {"applied", "not_applied"}
<1>0. TheStep /\ ~Finished
  BY StepFits DEF Types, InFlight, NoCall
<1>1. OperationStatus # "failed" /\ Nothing \notin On /\ (place[Old] = "free" => ~Gone(Old))
  BY Constants DEF OperationStatus, InFlight, On, Gone
<1>2. CASE kind \in {"eip", "auto", "ipv6"}
  <2>1. Observation = Ec2Observe
    BY <1>2 DEF Observation
  <2>2. Action \in {"ec2.eip.allocate", "ec2.eip.associate", "ec2.eip.release", "ec2.auto-ipv4.disable",
                    "ec2.auto-ipv4.enable", "ec2.ipv6.assign", "ec2.ipv6.unassign"}
    BY <1>0, <1>2, StepFacts
  <2> QED BY <1>1, <2>1, <2>2 DEF Ec2Observe, Unnamed, Unplaced, Unanswered
<1>3. CASE kind \in {"static", "dynamic", "dualstack"}
  <2>1. Observation = LightsailObserve
    BY <1>3 DEF Observation
  <2>2. Action \in {"lightsail.static-ip.allocate", "lightsail.static-ip.detach", "lightsail.static-ip.attach",
                    "lightsail.static-ip.release", "lightsail.ipv6.disable", "lightsail.ipv6.enable"}
    BY <1>0, <1>3, StepFacts
  <2>3. Action # "lightsail.static-ip.release" => ~LightsailDone
    BY <2>2 DEF LightsailDone, Unplaced
  <2>4. Action = "lightsail.static-ip.release" => ~Gone(Old)
    BY <1>1 DEF Unplaced
  <2> QED BY <1>1, <2>1, <2>3, <2>4 DEF LightsailObserve
<1>4. CASE kind = "azure"
  <2>1. Observation = AzureObserve
    BY <1>4 DEF Observation
  <2>2. Action \in {"azure.public-ip.allocate", "azure.public-ip.associate", "azure.public-ip.delete"}
    BY <1>0, <1>4, StepFacts
  <2>3. Action = "azure.public-ip.delete" => AzureDeleted \notin {"applied", "not_applied"}
    BY <1>1 DEF AzureDeleted, Unplaced
  <2>4. Action # "azure.public-ip.delete" => AzureRotated \notin {"applied", "not_applied"}
    BY <2>2 DEF AzureRotated, Unplaced
  <2> QED BY <2>1, <2>3, <2>4 DEF AzureObserve
<1>5. CASE kind \in {"linode", "stopped"}
  <2>1. Observation = LinodeObserve
    BY <1>5 DEF Observation
  <2>2. Action \in PowerActions \cup {"linode.ipv4.allocate", "linode.ipv4.release"}
    BY <1>0, <1>5, StepFacts
  <2>3. CASE Action \in PowerActions
    BY <1>0, <2>1, <2>3, UnloggedSettles DEF LinodeObserve, PowerActions
  <2>4. CASE Action \notin PowerActions
    BY <1>1, <2>1, <2>2, <2>4 DEF LinodeObserve, Added, Unplaced, Unanswered
  <2> QED BY <2>3, <2>4
<1>6. CASE kind = "swap"
  <2>1. Observation = SwapObserve
    BY <1>6 DEF Observation
  <2>2. Action \in {"linode.swap.allocate", "linode.ipv4.swap", "linode.instance.reboot", "linode.swap.delete"}
    BY <1>0, <1>6, StepFacts
  <2>3. CASE Action \in PowerActions
    BY <1>0, <2>1, <2>2, <2>3, UnloggedSettles DEF SwapObserve, PowerActions
  <2>4. CASE Action \notin PowerActions
    <3>1. PairState = "after" => Candidate \in On
      BY DEF PairState
    <3> QED BY <1>1, <2>1, <2>2, <2>4, <3>1 DEF SwapObserve, Unplaced, PowerActions
  <2> QED BY <2>3, <2>4
<1> QED BY <1>2, <1>3, <1>4, <1>5, <1>6, KindFits, Kinds10

LEMMA SettledWorks ==
  ASSUME Types, Allocated, Settled, Works
  PROVE  Settled'
<1>0. UNCHANGED <<kind, place, named, fresh, helper, log, power, booted, at, past, made, outside>>
  BY WorkerKeeps
<1> SUFFICES ASSUME outside = 0
             PROVE  /\ status' \in Refused \cup {"prepared"} => ~InFlight'
                    /\ InFlight' => Unplaced' /\ Unanswered' /\ Unlogged'
  BY <1>0 DEF Settled
<1>1. Action' = Action /\ (Unplaced => Unplaced')
  BY <1>0, SameStep, SamePlaces
<1>2. CASE Dispatch
  BY <1>2 DEF Dispatch, InFlight, NoCall
<1>3. CASE Send
  <2>1. Unplaced /\ Unanswered /\ (Action \in PowerActions => Len(log) = Watermark)
    BY <1>3, SendIsBefore
  <2>2. UNCHANGED <<receipt, retry, status>> /\ status = "in_flight" /\ call'.st = "sent"
        /\ (Action \in PowerActions => call'.mark = Watermark)
    BY <1>3 DEF Send, rows, Types
  <2>3. Watermark' = Watermark
    BY <1>0, <2>2, SameWatermark
  <2>4. Unanswered' /\ Unlogged'
    BY <1>0, <1>1, <2>1, <2>2, <2>3 DEF Unanswered, Unlogged
  <2> QED BY <1>1, <2>1, <2>2, <2>4 DEF Refused, Retried
<1>4. CASE FindsDone \/ Refuses
  <2>1. call' = NoCall
    BY <1>4 DEF FindsDone, Refuses, Types, RateLimited, OtherRefusal
  <2> QED BY <2>1 DEF InFlight, NoCall
<1>5. CASE Retry \/ ResumedByHand
  <2>1. ~InFlight /\ call' = call
    BY <1>5 DEF Retry, ResumedByHand, Refused, Retried, Settled
  <2> QED BY <2>1 DEF InFlight
<1>6. CASE TimesOut \/ Crash
  <2>1. UNCHANGED <<receipt, retry, status, call>>
    BY <1>6 DEF TimesOut, Crash, rows
  <2>2. Watermark' = Watermark
    BY <1>0, <2>1, SameWatermark
  <2> QED BY <1>0, <1>1, <2>1, <2>2 DEF Settled, InFlight, Unanswered, Unlogged
<1>7. CASE Answer \/ LateAnswer
  <2>1. UNCHANGED <<retry, call>>
    BY <1>7 DEF Answer, LateAnswer, RateLimited, OtherRefusal
  <2>2. CASE ~InFlight
    BY <2>1, <2>2 DEF InFlight
  <2>3. CASE InFlight
    <3>1. status \notin Refused \cup {"prepared"} /\ Unplaced /\ Unanswered /\ Unlogged
      BY <2>3 DEF Settled
    <3>2. Delayed /\ call.st = "running" /\ receipt' = AnswerReceipt /\ status' \notin Refused \cup {"prepared"}
      BY <1>7, <2>3, <3>1 DEF Answer, LateAnswer, Accepted, InFlight, Refused, Retried, RateLimited, OtherRefusal
    <3>3. ~Finished /\ TheStep
      BY <2>3, StepFits DEF Types, InFlight, NoCall
    <3>4. Action \notin {"ec2.ipv6.assign", "linode.ipv4.allocate"}
      BY <3>2, <3>3 DEF Delayed, TheStep, Rotates, Cleans, PowerActions
    <3>5. receipt'.known /\ receipt'.mark = call.mark
      BY <3>2 DEF AnswerReceipt, Merged
    <3>6. Action \in PowerActions => Watermark' = Watermark
      BY <1>0, <2>1, <3>1, <3>5, SameWatermark DEF Unlogged
    <3> QED BY <1>0, <1>1, <2>1, <3>1, <3>2, <3>4, <3>6 DEF Unanswered, Unlogged
  <2> QED BY <2>2, <2>3
<1> QED BY <1>2, <1>3, <1>4, <1>5, <1>6, <1>7 DEF Works

LEMMA SettledObserve ==
  ASSUME Types, Settled, Observe
  PROVE  Settled'
<1>0. ~Finished /\ UNCHANGED <<kind, cloud, made, outside>> /\ status \in Open
  BY DEF Observe
<1> SUFFICES ASSUME outside = 0
             PROVE  /\ status' \in Refused \cup {"prepared"} => ~InFlight'
                    /\ InFlight' => Unplaced' /\ Unanswered' /\ Unlogged'
  BY <1>0 DEF Settled
<1>1. CASE Observation = "applied" /\ Advance
  BY <1>1 DEF Advance, InFlight, NoCall
<1>2. CASE /\ Observation \in {"pending", "ambiguous", "not_applied"}
           /\ status' = Observation
           /\ receipt' = IF Observation = "ambiguous" THEN receipt ELSE FoundReceipt
           /\ UNCHANGED <<at, past, retry, tries, call, job, upset>>
  <2>1. CASE ~InFlight
    BY <1>2, <2>1 DEF InFlight
  <2>2. CASE InFlight
    <3>1. Unplaced /\ Unanswered /\ Unlogged
      BY <2>2 DEF Settled
    <3>2. Observation \notin {"applied", "not_applied"}
      BY <2>2, <3>1, InFlightIsUnsettled
    <3>3. Action' = Action /\ Unplaced'
      BY <1>0, <1>2, <3>1, SameStep, SamePlaces DEF cloud
    <3>4. TheStep
      BY <1>0, StepFits
    <3>5. Unanswered'
      <4>1. ASSUME Action = "ec2.ipv6.assign" PROVE Observation = "ambiguous"
        <5>1. kind = "ipv6"
          BY <3>4, <4>1 DEF TheStep, Rotates, Cleans
        <5> QED BY <3>1, <4>1, <5>1 DEF Observation, Ec2Observe, Unanswered
      <4>2. ASSUME Action = "linode.ipv4.allocate" PROVE Observation = "ambiguous"
        <5>1. kind \in {"linode", "stopped"}
          BY <3>4, <4>2 DEF TheStep, Rotates, Cleans
        <5>2. receipt.cand \notin On
          BY <3>1, <4>2, Constants DEF Unanswered, On
        <5> QED BY <4>2, <5>1, <5>2 DEF Observation, LinodeObserve, Added, PowerActions
      <4> QED BY <1>2, <3>1, <3>3, <4>1, <4>2 DEF Unanswered
    <3>6. Action \in PowerActions => Watermark' = Watermark
      <4>1. Action \in PowerActions => OfLinode
        BY <3>4, PowerSteps DEF OfLinode, Rotates, Cleans
      <4>2. Action \in PowerActions => FoundReceipt.known /\ FoundReceipt.mark = Watermark
        BY <4>1 DEF FoundReceipt, Merged, LinodeMark
      <4> QED BY <1>0, <1>2, <4>2, SameWatermark
    <3>7. Unlogged'
      BY <1>0, <1>2, <3>1, <3>3, <3>6 DEF Unlogged, cloud
    <3> QED BY <1>2, <3>2, <3>3, <3>5, <3>7 DEF Refused, Retried
  <2> QED BY <2>1, <2>2
<1> QED BY <1>1, <1>2 DEF Observe

LEMMA SettledProvides ==
  ASSUME Types, Settled, Provides
  PROVE  Settled'
<1>0. UNCHANGED <<kind, at, status, receipt, past, retry, tries, job>> /\ Action' = Action
  BY ProviderKeeps, SameStep
<1>1. InFlight => ~Finished /\ TheStep
  BY StepFits DEF Types, InFlight, NoCall
<1>2. Watermark' = Watermark
  BY <1>0, SameWatermark
<1>3. CASE Outsider
  BY <1>3 DEF Outsider, Settled, Types
<1>4. CASE Refuse \/ Lose
  <2>1. ~InFlight'
    BY <1>4 DEF Refuse, Lose, InFlight, Types, Call
  <2> QED BY <2>1 DEF Settled
<1>5. ASSUME InFlight, Possible, CarryOut PROVE ~InFlight'
  BY <1>0, <1>1, <1>5, CarryOutSteps DEF InFlight
<1>6. CASE Finish \/ Fail
  <2>1. InFlight
    BY <1>6 DEF Finish, Fail, InFlight
  <2>2. ~InFlight'
    BY <1>5, <1>6, <2>1 DEF Finish, Fail, InFlight, Types, Call
  <2> QED BY <2>2 DEF Settled
<1>7. CASE Arrive
  <2>1. InFlight /\ call.st = "sent" /\ outside' = outside
    BY <1>7 DEF Arrive, InFlight
  <2>2. CASE ~Possible \/ ~Delayed
    <3>1. ~InFlight'
      BY <1>5, <1>7, <2>1, <2>2 DEF Arrive, InFlight, Types, Call
    <3> QED BY <3>1 DEF Settled
  <2>3. CASE Possible /\ Delayed
    <3>1. call' = [call EXCEPT !.st = "running"] /\ call'.st = "running" /\ call'.mark = call.mark
          /\ UNCHANGED <<place, named, helper>>
      BY <1>7, <2>3 DEF Arrive, PowerStarts, cloud, Types, Call
    <3>2. InFlight'
      BY <3>1 DEF InFlight
    <3>3. ASSUME Unlogged PROVE Unlogged'
      <4> SUFFICES ASSUME Action \in PowerActions
                   PROVE  Len(log') = Len(log) + 1 /\ log'[Len(log')].how = "started"
        BY <1>0, <1>2, <2>1, <3>1, <3>3 DEF Unlogged
      <4>1. PowerStarts
        BY <1>7, <2>3 DEF Arrive
      <4> QED BY <4>1 DEF PowerStarts, Types
    <3>4. Unplaced => Unplaced'
      BY <1>0, <3>1, SamePlaces
    <3> QED BY <1>0, <2>1, <3>2, <3>3, <3>4 DEF Settled, Unanswered
  <2> QED BY <2>2, <2>3
<1>8. CASE Provision \/ Remove
  <2>1. UNCHANGED <<named, log, call, outside>> /\ helper \in {"provisioning", "deleting"}
    BY <1>8 DEF Provision, Remove
  <2>2. kind = "swap"
    BY <2>1 DEF Types
  <2>3. ASSUME InFlight, Unplaced PROVE Unplaced'
    <3>1. Action \in {"linode.swap.allocate", "linode.ipv4.swap", "linode.instance.reboot", "linode.swap.delete"}
      BY <1>1, <2>2, <2>3, StepFacts
    <3>2. Action = "linode.instance.reboot"
      BY <2>1, <2>3, <3>1 DEF Unplaced
    <3> QED BY <1>0, <3>2 DEF Unplaced
  <2> QED BY <1>0, <1>2, <2>1, <2>3 DEF Settled, InFlight, Unanswered, Unlogged
<1> QED BY <1>3, <1>4, <1>6, <1>7, <1>8 DEF Provides

LEMMA SettledInit == Init => Settled
BY DEF Init, Settled, InFlight, NoCall

LEMMA SettledStep == Types /\ Allocated /\ Settled /\ [Next]_vars => Settled'
<1> SUFFICES ASSUME Types, Allocated, Settled, [Next]_vars PROVE Settled'
  OBVIOUS
<1>1. Next => Works \/ Observe \/ Provides
  BY DEF Next, Works, Provides
<1>2. CASE UNCHANGED vars
  <2>1. Watermark' = Watermark /\ (Unplaced => Unplaced') /\ Action' = Action
    BY <1>2, SameWatermark, SamePlaces, SameStep DEF vars, rows, cloud
  <2> QED BY <1>2, <2>1 DEF vars, rows, cloud, Settled, InFlight, Unanswered, Unlogged
<1> QED BY <1>1, <1>2, SettledWorks, SettledObserve, SettledProvides

-----------------------------------------------------------------------------
(* What a restart that is found has changed.                               *)

Restarts == {"linode.instance.reboot", "linode.instance.start"}

\* The steps before a restart leave no event that could be taken for its answer.
Unstarted ==
  /\ kind = "linode" /\ at = 1 => \A e \in 1 .. Len(log) : ~log[e].mine
  /\ kind = "swap" /\ at <= 2 => \A e \in 1 .. Len(log) : ~log[e].mine
  /\ kind = "stopped" /\ at <= 2 => \A e \in 1 .. Len(log) : log[e].mine => log[e].what = "stop"

\* No watermark of a power action is before its first one.
Marked ==
  ~Finished /\ Action \in PowerActions =>
    /\ receipt.known => receipt.mark >= FirstMark
    /\ retry > 0 => retry >= FirstMark
    /\ receipt.event > 0 => receipt.event >= FirstMark
    /\ call.st # "none" => call.mark >= FirstMark

\* The guest that an event of the step has started has every address of the slot.
Booted ==
  ~Finished /\ Action \in Restarts =>
    \A e \in 1 .. Len(log) :
      e > FirstMark /\ log[e].mine /\ log[e].what = PowerEvent /\ log[e].how = "finished" =>
        On \subseteq booted /\ (kind = "linode" /\ at = 4 => Old \notin booted)

Released == kind = "linode" /\ at = 4 => Old \notin On

\* The stop of a cleanup looks for an answer after that of the stop of the
\* rotation, and the start in between keeps it from being sent.
StopsOnce ==
  kind = "stopped" =>
    /\ at <= 5
    /\ at \in 3 .. 5 => \A e \in 1 .. Len(log) : e > past[2].event => log[e].what # "stop"
    /\ at \in 4 .. 5 => Len(log) > past[2].event
    /\ at = 5 => call = NoCall /\ retry = 0 /\ (receipt.known => receipt.mark = past[2].event)

\* What the log of the instance says, from the first power action on.
Powered == Unstarted /\ Marked /\ Booted /\ Released /\ StopsOnce

LEMMA MarkedWatermark ==
  ASSUME Types, Marked, ~Finished, Action \in PowerActions
  PROVE  FirstMark \in Nat /\ Watermark \in Nat /\ Watermark >= FirstMark
BY WatermarkIs DEF Marked

LEMMA PowerInFive ==
  ASSUME Types, StopsOnce, kind = "stopped", at = 5
  PROVE  ~Finished /\ Action = "linode.instance.stop" /\ Cleaning /\ Watermark = past[2].event /\ FirstMark = past[2].event
<1>1. ~Finished /\ Action = "linode.instance.stop" /\ Cleaning
  <2>1. Len(Rotation[kind]) = 3 /\ Len(Plan) = 6 /\ Plan[5] = "linode.instance.stop"
    BY Plan_stopped
  <2>2. Action = "linode.instance.stop"
    BY <2>1 DEF Action
  <2> QED BY <2>1, <2>2 DEF Finished, Cleaning
<1>2. Watermark = past[2].event /\ FirstMark = past[2].event
  BY <1>1, WatermarkIs DEF PowerActions, FirstMark, StopsOnce
<1> QED BY <1>1, <1>2

LEMMA AnswerIsLogged ==
  ASSUME Types, Marked, ~Finished, Action \in PowerActions, Answers # {}
  PROVE  TheAnswer \in 1 .. Len(log) /\ TheAnswer > Watermark /\ TheAnswer > FirstMark /\ log[TheAnswer].what = PowerEvent
<1>1. TheAnswer \in Answers
  BY ChoiceFits DEF TheAnswer
<1>2. Len(log) \in Nat
  BY DEF Types
<1> QED BY <1>1, <1>2, MarkedWatermark DEF Answers

LEMMA PoweredWorks ==
  ASSUME Types, Powered, Works
  PROVE  Powered'
<1>0. UNCHANGED <<kind, place, named, fresh, helper, log, power, booted, at, past, made, outside>>
  BY WorkerKeeps
<1>1. /\ Action' = Action /\ (Finished' <=> Finished) /\ FirstMark' = FirstMark /\ On' = On
      /\ PowerEvent' = PowerEvent
  BY <1>0, SameStep DEF FirstMark, On, PowerEvent
<1>2. Unstarted' /\ Booted' /\ Released'
  <2>1. Unstarted'
    BY <1>0 DEF Unstarted, Powered
  <2>2. Booted'
    BY <1>0, <1>1 DEF Booted, Powered
  <2>3. Released'
    BY <1>0, <1>1 DEF Released, Powered
  <2> QED BY <2>1, <2>2, <2>3
<1>3. Marked'
  <2> SUFFICES ASSUME ~Finished, Action \in PowerActions
               PROVE  /\ receipt'.known => receipt'.mark >= FirstMark
                      /\ retry' > 0 => retry' >= FirstMark
                      /\ receipt'.event > 0 => receipt'.event >= FirstMark
                      /\ call'.st # "none" => call'.mark >= FirstMark
    BY <1>1 DEF Marked
  <2>0. FirstMark \in Nat /\ Watermark \in Nat /\ Watermark >= FirstMark
    BY MarkedWatermark DEF Powered
  <2>1. CASE Dispatch
    BY <2>1 DEF Dispatch, NoReceipt, NoCall, Powered, Marked
  <2>2. CASE Send
    BY <2>0, <2>2 DEF Send, rows, Powered, Marked
  <2>3. CASE FindsDone
    <3>1. OfLinode
      BY StepFits, PowerSteps DEF OfLinode, Rotates, Cleans
    <3> QED BY <2>3, <3>1, FindsAreNotLinode DEF FindsDone
  <2>4. CASE Refuses \/ TimesOut \/ Crash
    BY <2>4 DEF Refuses, TimesOut, Crash, rows, Powered, Marked, RateLimited, OtherRefusal
  <2>5. CASE Answer \/ LateAnswer
    <3>1. UNCHANGED <<retry, call>> /\ (receipt' = receipt \/ (receipt' = AnswerReceipt /\ call.st # "none"))
      BY <2>5 DEF Answer, LateAnswer, Accepted, RateLimited, OtherRefusal
    <3>2. AnswerReceipt.mark = call.mark /\ AnswerReceipt.event = receipt.event
      BY DEF AnswerReceipt, Merged
    <3> QED BY <3>1, <3>2 DEF Powered, Marked
  <2>6. CASE Retry \/ ResumedByHand
    BY <2>6 DEF Retry, ResumedByHand, Powered, Marked
  <2> QED BY <2>1, <2>2, <2>3, <2>4, <2>5, <2>6 DEF Works
<1>4. StopsOnce'
  <2> SUFFICES ASSUME kind = "stopped", at = 5
               PROVE  call' = NoCall /\ retry' = 0 /\ (receipt'.known => receipt'.mark = past[2].event)
    BY <1>0 DEF Powered, StopsOnce
  <2>0. /\ ~Finished /\ Action = "linode.instance.stop" /\ Cleaning /\ Watermark = past[2].event
        /\ call = NoCall /\ retry = 0 /\ (receipt.known => receipt.mark = past[2].event) /\ Len(log) > past[2].event
    BY PowerInFive DEF Powered, StopsOnce
  <2>1. CASE Dispatch
    BY <2>0, <2>1 DEF Dispatch, NoReceipt
  <2>2. ~Send
    <3>1. Look = LinodeLook
      BY DEF Look
    <3>2. LinodeLook # "write"
      <4>1. Len(log) \in Nat /\ past[2].event \in Nat
        <5>1. 2 \in 1 .. at - 1
          OBVIOUS
        <5> QED BY <5>1, PastFits DEF Types
      <4> QED BY <2>0, <4>1 DEF LinodeLook, PowerActions
    <3> QED BY <3>1, <3>2 DEF Send
  <2>3. ~FindsDone
    BY <2>0, FindsAreNotLinode DEF FindsDone, OfLinode
  <2>4. CASE Refuses \/ TimesOut \/ Crash
    BY <2>0, <2>4 DEF Refuses, TimesOut, Crash, rows, RateLimited, OtherRefusal
  <2>5. CASE Answer \/ LateAnswer
    BY <2>0, <2>5 DEF Answer, LateAnswer, Accepted, NoCall, RateLimited, OtherRefusal
  <2>6. ~Retry /\ ~ResumedByHand
    BY <2>0 DEF Retry, ResumedByHand
  <2> QED BY <2>1, <2>2, <2>3, <2>4, <2>5, <2>6 DEF Works
<1> QED BY <1>2, <1>3, <1>4 DEF Powered

\* What an answer that ends a power action says.
LEMMA AppliedAnswer ==
  ASSUME Types, Marked, ~Finished, Action \in PowerActions, Observation = "applied"
  PROVE  /\ TheAnswer \in 1 .. Len(log) /\ TheAnswer > Watermark /\ TheAnswer > FirstMark
         /\ log[TheAnswer].what = PowerEvent /\ log[TheAnswer].mine /\ log[TheAnswer].how = "finished"
         /\ \A e \in 1 .. Len(log) : e > Watermark /\ log[e].what = PowerEvent => e = TheAnswer
         /\ FoundReceipt.event = TheAnswer
         /\ kind = "linode" /\ at = 4 => Published \in On /\ Old \notin On
         /\ at # 4 /\ kind \in {"linode", "stopped", "swap"} /\ ~Cleaning => Candidate \in On
<1>0. TheStep /\ OfLinode
  BY StepFits, PowerSteps DEF OfLinode, Rotates, Cleans
<1>1. PowerObserve = "applied"
  <2>1. CASE kind \in {"linode", "stopped"}
    BY <2>1 DEF Observation, LinodeObserve, PowerActions
  <2>2. CASE kind = "swap"
    BY <2>2 DEF Observation, SwapObserve, PowerActions
  <2> QED BY <1>0, <2>1, <2>2 DEF OfLinode
<1>2. Answers # {} /\ ~(Cardinality(Answers) > 1) /\ log[TheAnswer].mine /\ log[TheAnswer].how = "finished"
  <2>1. Answers # {}
    BY <1>1 DEF PowerObserve
  <2>2. ~(Cardinality(Answers) > 1) /\ log[TheAnswer].mine
    BY <1>1, <2>1 DEF PowerObserve
  <2>3. log[TheAnswer].how = "finished"
    BY <1>1, <2>1, <2>2 DEF PowerObserve
  <2> QED BY <2>1, <2>2, <2>3
<1>3. TheAnswer \in 1 .. Len(log) /\ TheAnswer > Watermark /\ TheAnswer > FirstMark /\ log[TheAnswer].what = PowerEvent
      /\ TheAnswer \in Answers
  BY <1>2, AnswerIsLogged, ChoiceFits DEF TheAnswer
<1>4. ASSUME NEW e \in 1 .. Len(log), e > Watermark, log[e].what = PowerEvent PROVE e = TheAnswer
  <2>1. e \in Answers
    BY <1>4 DEF Answers
  <2>2. IsFiniteSet(Answers)
    <3>1. Len(log) \in Nat /\ Answers \subseteq 1 .. Len(log)
      BY DEF Types, Answers
    <3>2. IsFiniteSet(1 .. Len(log))
      BY <3>1, FS_Interval
    <3> QED BY <3>1, <3>2, FS_Subset
  <2>3. ASSUME e # TheAnswer PROVE FALSE
    <3>1. Cardinality({e, TheAnswer}) = 2 /\ {e, TheAnswer} \subseteq Answers
      <4>1. Cardinality({e}) = 1 /\ IsFiniteSet({e})
        BY FS_Singleton
      <4>2. TheAnswer \notin {e}
        BY <2>3
      <4>3. Cardinality({e} \cup {TheAnswer}) = 2
        <5>1. Cardinality({e} \cup {TheAnswer}) = IF TheAnswer \in {e} THEN Cardinality({e}) ELSE Cardinality({e}) + 1
          BY <4>1, FS_AddElement
        <5>2. Cardinality({e} \cup {TheAnswer}) = Cardinality({e}) + 1
          BY <4>2, <5>1
        <5>3. 1 + 1 = 2
          OBVIOUS
        <5> QED BY <4>1, <5>2, <5>3
      <4>4. {e} \cup {TheAnswer} = {e, TheAnswer}
        OBVIOUS
      <4> QED BY <1>3, <2>1, <4>3, <4>4
    <3>2. Cardinality({e, TheAnswer}) <= Cardinality(Answers) /\ Cardinality(Answers) \in Nat
      BY <2>2, <3>1, FS_Subset, FS_CardinalityType
    <3> QED BY <1>2, <3>1, <3>2
  <2> QED BY <2>3
<1>5. FoundReceipt.event = TheAnswer
  BY <1>0, <1>2 DEF FoundReceipt, Merged, LinodeEvent
<1>6. kind = "linode" /\ at = 4 => Published \in On /\ Old \notin On
  <2> SUFFICES ASSUME kind = "linode", at = 4 PROVE Published \in On /\ Old \notin On
    OBVIOUS
  <2>1. Cleaning
    BY <1>0, PowerSteps DEF Rotates, Cleans
  <2>2. Published \in On /\ Gone(Old)
    BY <2>1 DEF Observation, LinodeObserve, PowerActions
  <2> QED BY <2>2, Constants DEF Gone, On, Address
<1>7. ASSUME kind \in {"linode", "stopped", "swap"}, ~Cleaning PROVE Candidate \in On
  <2>1. CASE kind \in {"linode", "stopped"}
    BY <1>7, <2>1 DEF Observation, LinodeObserve, PowerActions
  <2>2. CASE kind = "swap"
    <3>1. PairState = "after"
      BY <1>7, <2>2 DEF Observation, SwapObserve, PowerActions
    <3> QED BY <3>1 DEF PairState
  <2> QED BY <1>7, <2>1, <2>2
<1> QED BY <1>2, <1>3, <1>4, <1>5, <1>6, <1>7

LEMMA NoFifthAnswer ==
  ASSUME Types, Powered, kind = "stopped", at = 5
  PROVE  Observation # "applied"
<1>1. ~Finished /\ Action = "linode.instance.stop" /\ FirstMark = past[2].event /\ Marked
  BY PowerInFive DEF Powered
<1>2. \A e \in 1 .. Len(log) : e > past[2].event => log[e].what # "stop"
  BY DEF Powered, StopsOnce
<1>3. PowerEvent = "stop" /\ Action \in PowerActions
  BY <1>1 DEF PowerEvent, PowerActions
<1> QED BY <1>1, <1>2, <1>3, AppliedAnswer

LEMMA PoweredObserve ==
  ASSUME Types, Powered, Observe
  PROVE  Powered'
<1>0. ~Finished /\ UNCHANGED <<kind, place, log, booted>> /\ TheStep
  BY StepFits DEF Observe, cloud
<1>1. CASE Observation = "applied" /\ Advance
  <2>0. /\ at \in Nat \ {0} /\ at' = at + 1 /\ Len(past) = at - 1 /\ past \in Seq(Receipt)
        /\ past' = Append(past, FoundReceipt) /\ receipt' = NoReceipt /\ call' = NoCall /\ retry' = 0
    BY <1>1 DEF Advance, Types
  <2>1. past'[at] = FoundReceipt /\ \A i \in 1 .. at - 1 : past'[i] = past[i]
    BY <2>0
  <2>2. Len(log) \in Nat
    BY DEF Types
  <2>3. Types' /\ (~Finished' => TheStep')
    <3>1. Types'
      BY ObserveTypes
    <3>2. ~Finished' => TheStep'
      BY <3>1, StepFits, PTL
    <3> QED BY <3>1, <3>2
  <2>4. Unstarted'
    BY <1>0, <2>0 DEF Unstarted, Powered
  <2>5. Marked'
    BY <2>0 DEF Marked, NoReceipt, NoCall
  <2>6. Released'
    <3> SUFFICES ASSUME kind = "linode", at = 3 PROVE Old \notin On'
      BY <1>0, <2>0 DEF Released
    <3>1. Action = "linode.ipv4.release"
      BY <1>0 DEF TheStep, Rotates, Cleans
    <3>2. Gone(Old)
      BY <1>1, <3>1 DEF Observation, LinodeObserve, PowerActions
    <3> QED BY <1>0, <3>2, Constants DEF Gone, On, Address
  <2>7. StopsOnce'
    <3> SUFFICES ASSUME kind = "stopped" PROVE StopsOnce'
      BY <1>0 DEF StopsOnce
    <3>1. at \in 1 .. 4
      BY <1>1, <2>0, NoFifthAnswer DEF Powered, StopsOnce
    <3>2. at = 2 => /\ past'[2].event = TheAnswer
                    /\ \A e \in 1 .. Len(log) : e > past'[2].event => log[e].what # "stop"
      <4> SUFFICES ASSUME at = 2
                   PROVE  /\ past'[2].event = TheAnswer
                          /\ \A e \in 1 .. Len(log) : e > past'[2].event => log[e].what # "stop"
        OBVIOUS
      <4>1. Action = "linode.instance.stop"
        BY <1>0 DEF TheStep, Rotates, Cleans
      <4>2. PowerEvent = "stop" /\ Action \in PowerActions
        BY <4>1 DEF PowerEvent, PowerActions
      <4>3. Watermark \in Nat
        BY <1>0, <4>2, WatermarkIs
      <4> QED BY <1>0, <1>1, <2>1, <4>2, <4>3, AppliedAnswer DEF Powered
    <3>3. at = 3 => Len(log) > past[2].event
      <4> SUFFICES ASSUME at = 3 PROVE Len(log) > past[2].event
        OBVIOUS
      <4>1. Action \in PowerActions /\ FirstMark = past[2].event
        BY <1>0 DEF TheStep, Rotates, Cleans, PowerActions, FirstMark
      <4> QED BY <1>0, <1>1, <4>1, <2>2, AppliedAnswer, MarkedWatermark DEF Powered
    <3>4. at \in {3, 4} => past'[2] = past[2]
      BY <2>1
    <3> QED BY <1>0, <2>0, <3>1, <3>2, <3>3, <3>4 DEF StopsOnce, Powered, NoReceipt
  <2>8. Booted'
    <3> SUFFICES ASSUME ~Finished', Action' \in Restarts, NEW e \in 1 .. Len(log),
                        e > FirstMark', log[e].mine, log[e].what = PowerEvent'
                 PROVE  FALSE
      BY <1>0 DEF Booted
    <3>1. TheStep'
      BY <2>3
    <3>2. \/ kind = "linode" /\ at = 1
          \/ kind = "linode" /\ at = 3
          \/ kind = "swap" /\ at = 2
          \/ kind = "stopped" /\ at = 2 /\ Action' = "linode.instance.start"
          \/ kind = "stopped" /\ at = 5
      BY <1>0, <2>0, <3>1 DEF TheStep, Rotates, Cleans, Restarts
    <3>3. CASE (kind = "linode" /\ at = 1) \/ (kind = "swap" /\ at = 2)
      BY <3>3 DEF Powered, Unstarted
    <3>4. CASE kind = "linode" /\ at = 3
      <4>1. Action = "linode.ipv4.release"
        BY <1>0, <3>4 DEF TheStep, Rotates, Cleans
      <4>2. FoundReceipt.mark = Len(log)
        BY <3>4, <4>1 DEF FoundReceipt, Merged, LinodeMark, OfLinode, PowerActions
      <4>3. FirstMark' = Len(log)
        BY <1>0, <2>0, <2>1, <3>4, <4>2 DEF FirstMark
      <4> QED BY <2>2, <4>3
    <3>5. CASE kind = "stopped" /\ at = 2 /\ Action' = "linode.instance.start"
      <4>1. PowerEvent' = "start"
        BY <3>5 DEF PowerEvent
      <4> QED BY <3>5, <4>1 DEF Powered, Unstarted
    <3>6. CASE kind = "stopped" /\ at = 5
      BY <1>1, <3>6, NoFifthAnswer
    <3> QED BY <3>2, <3>3, <3>4, <3>5, <3>6
  <2> QED BY <2>4, <2>5, <2>6, <2>7, <2>8 DEF Powered
<1>2. CASE /\ Observation \in {"pending", "ambiguous", "not_applied"}
           /\ status' = Observation
           /\ receipt' = IF Observation = "ambiguous" THEN receipt ELSE FoundReceipt
           /\ UNCHANGED <<at, past, retry, tries, call, job, upset>>
  <2>1. /\ Action' = Action /\ (Finished' <=> Finished) /\ FirstMark' = FirstMark /\ On' = On
        /\ PowerEvent' = PowerEvent
    BY <1>0, <1>2, SameStep DEF FirstMark, On, PowerEvent
  <2>2. Unstarted' /\ Booted' /\ Released'
    <3>1. Unstarted'
      BY <1>0, <1>2 DEF Unstarted, Powered
    <3>2. Booted'
      BY <1>0, <1>2, <2>1 DEF Booted, Powered
    <3>3. Released'
      BY <1>0, <1>2, <2>1 DEF Released, Powered
    <3> QED BY <3>1, <3>2, <3>3
  <2>3. Action \in PowerActions => FoundReceipt.mark = Watermark /\ FoundReceipt.event = IF Answers # {} THEN TheAnswer ELSE receipt.event
    <3>1. Action \in PowerActions => OfLinode
      BY <1>0, PowerSteps DEF OfLinode, Rotates, Cleans
    <3> QED BY <3>1 DEF FoundReceipt, Merged, LinodeMark, LinodeEvent
  <2>4. Marked'
    <3> SUFFICES ASSUME Action \in PowerActions
                 PROVE  /\ receipt'.known => receipt'.mark >= FirstMark
                        /\ receipt'.event > 0 => receipt'.event >= FirstMark
      BY <1>0, <1>2, <2>1 DEF Marked, Powered
    <3>1. FirstMark \in Nat /\ Watermark \in Nat /\ Watermark >= FirstMark
      BY <1>0, MarkedWatermark DEF Powered
    <3>2. Answers # {} => TheAnswer > FirstMark /\ TheAnswer \in 1 .. Len(log)
      BY <1>0, AnswerIsLogged DEF Powered
    <3>3. CASE receipt' = receipt
      BY <1>0, <3>3 DEF Powered, Marked
    <3>4. CASE receipt' = FoundReceipt
      BY <1>0, <2>3, <3>1, <3>2, <3>4 DEF Powered, Marked
    <3> QED BY <1>2, <3>3, <3>4
  <2>5. StopsOnce'
    <3> SUFFICES ASSUME kind = "stopped", at = 5 PROVE receipt'.known => receipt'.mark = past[2].event
      BY <1>0, <1>2 DEF Powered, StopsOnce
    <3>1. Action \in PowerActions /\ Watermark = past[2].event
      BY PowerInFive DEF PowerActions, Powered
    <3> QED BY <1>2, <2>3, <3>1 DEF Powered, StopsOnce
  <2> QED BY <2>2, <2>4, <2>5 DEF Powered
<1> QED BY <1>1, <1>2 DEF Observe

\* How the log, what the guest has configured and the slot change.
LEMMA ProviderLogs ==
  ASSUME Types, Provides
  PROVE  /\ call.st = "none" => call' = call
         /\ call'.mark = call.mark /\ (call'.st = "none" => call.st = "none")
         /\ \/ UNCHANGED <<log, booted>> /\ (Action \in PowerActions => On' \subseteq On)
            \/ Action \in PowerActions /\ ~Finished /\ PowerStarts /\ call.st # "none"
            \/ Action \in PowerActions /\ ~Finished /\ call.st # "none" /\ \E how \in {"finished", "failed"} : PowerEnds(how)
            \/ /\ log' = Append(log, [what |-> "reboot", mine |-> FALSE, how |-> "finished"])
               /\ booted' = On /\ UNCHANGED place /\ OfLinode
<1>0. call.st \in {"sent", "running"} => ~Finished
  BY DEF Types, NoCall
<1>1. \A s \in {"running", "done", "failed", "refused", "lost"} :
        LET c == [call EXCEPT !.st = s] IN c.mark = call.mark /\ c.st = s
  BY DEF Types, Call
<1>2. CarryOut => call'.mark = call.mark /\ call'.st = "done" /\ UNCHANGED <<log, booted>>
  BY DEF CarryOut, Types, Call
<1>3. Delayed \/ Action \notin PowerActions
  BY DEF Delayed
<1>4. CASE Arrive
  BY <1>0, <1>1, <1>2, <1>3, <1>4 DEF Arrive, cloud, On
<1>5. CASE Refuse \/ Lose
  BY <1>1, <1>5 DEF Refuse, Lose, cloud, On
<1>6. CASE Finish
  BY <1>0, <1>1, <1>2, <1>6 DEF Finish
<1>7. CASE Fail
  BY <1>0, <1>1, <1>7 DEF Fail, cloud, On
<1>8. CASE Provision
  <2>1. PICK x \in fresh : place' = [place EXCEPT ![x] = "helper"]
    BY <1>8 DEF Provision
  <2>2. On' \subseteq On
    BY <2>1 DEF On, Types
  <2> QED BY <1>8, <2>2 DEF Provision
<1>9. CASE Remove
  <2>1. On' \subseteq On
    BY <1>9 DEF Remove, On
  <2> QED BY <1>9, <2>1 DEF Remove
<1>10. CASE Outsider
  <2>1. call' = call
    BY <1>10 DEF Outsider
  <2>2. CASE \E x \in Address, p \in {"none", "free", "other"} : place' = [place EXCEPT ![x] = p] /\ UNCHANGED <<log, booted>>
    <3>1. On' \subseteq On
      BY <2>2 DEF On, Types
    <3> QED BY <2>1, <2>2, <3>1
  <2> QED BY <1>10, <2>1, <2>2 DEF Outsider
<1> QED BY <1>4, <1>5, <1>6, <1>7, <1>8, <1>9, <1>10 DEF Provides

\* An event is added, or the result of events that were started is written.
LEMMA LogGrows ==
  ASSUME Types, Provides
  PROVE  /\ Len(log) \in Nat /\ Len(log') \in Nat /\ Len(log') >= Len(log)
         /\ \A e \in 1 .. Len(log) :
              log'[e].what = log[e].what /\ log'[e].mine = log[e].mine
         /\ \A e \in 1 .. Len(log') : e \notin 1 .. Len(log) =>
              /\ log'[e].mine => log'[e].what = PowerEvent /\ log'[e].how = "started" /\ Action \in PowerActions /\ call.st # "none"
              /\ ~log'[e].mine => log'[e].what = "reboot"
              /\ e = Len(log) + 1
         /\ \A e \in 1 .. Len(log) : log'[e].how = "finished" /\ log[e].how # "finished" =>
              ~Finished /\ PowerEnds("finished")
<1>1. log \in Seq(Event) /\ Len(log) \in Nat /\ \A e \in 1 .. Len(log) : log[e] \in Event
  BY DEF Types
<1>2. CASE log' = log
  BY <1>1, <1>2
<1>3. CASE Action \in PowerActions /\ PowerStarts /\ call.st # "none"
  <2>1. log' = Append(log, [what |-> PowerEvent, mine |-> TRUE, how |-> "started"])
    BY <1>3 DEF PowerStarts
  <2> QED BY <1>1, <1>3, <2>1
<1>4. ASSUME NEW how \in {"finished", "failed"}, Action \in PowerActions, ~Finished, PowerEnds(how)
      PROVE  /\ Len(log') = Len(log)
             /\ \A e \in 1 .. Len(log) :
                  /\ log'[e].what = log[e].what /\ log'[e].mine = log[e].mine
                  /\ log'[e].how = "finished" /\ log[e].how # "finished" => how = "finished"
  <2>1. Len(log') = Len(log)
    BY <1>4, LogSteps
  <2>2. \A e \in 1 .. Len(log) :
          log'[e] = IF log[e].mine /\ log[e].how = "started" THEN [log[e] EXCEPT !.how = how] ELSE log[e]
    BY <1>1, <1>4 DEF PowerEnds
  <2>3. \A v \in Event : [v EXCEPT !.how = how].what = v.what /\ [v EXCEPT !.how = how].mine = v.mine /\ [v EXCEPT !.how = how].how = how
    BY DEF Event
  <2>4. ASSUME NEW e \in 1 .. Len(log)
        PROVE  /\ log'[e].what = log[e].what /\ log'[e].mine = log[e].mine
               /\ log'[e].how = "finished" /\ log[e].how # "finished" => how = "finished"
    <3>1. log'[e] = log[e] \/ log'[e] = [log[e] EXCEPT !.how = how]
      BY <2>2
    <3>2. log[e] \in Event
      BY <1>1
    <3>3. CASE log'[e] = log[e]
      BY <3>3
    <3>4. CASE log'[e] = [log[e] EXCEPT !.how = how]
      BY <2>3, <3>2, <3>4
    <3> QED BY <3>1, <3>3, <3>4
  <2> QED BY <2>1, <2>4
<1>5. CASE Action \in PowerActions /\ ~Finished /\ \E how \in {"finished", "failed"} : PowerEnds(how)
  BY <1>1, <1>4, <1>5
<1>6. CASE log' = Append(log, [what |-> "reboot", mine |-> FALSE, how |-> "finished"])
  BY <1>1, <1>6
<1> QED BY <1>2, <1>3, <1>5, <1>6, ProviderLogs

LEMMA SlotShrinks ==
  ASSUME Types, Provides, Action \in PowerActions
  PROVE  On' \subseteq On
<1>1. CASE UNCHANGED place
  BY <1>1 DEF On
<1>2. PowerStarts => UNCHANGED place
  BY DEF PowerStarts
<1>3. \A how \in {"finished", "failed"} : PowerEnds(how) => UNCHANGED place
  BY DEF PowerEnds
<1>4. On' \subseteq On \/ UNCHANGED place
  BY <1>2, <1>3, ProviderLogs
<1> QED BY <1>1, <1>4

LEMMA PoweredProvides ==
  ASSUME Types, Powered, Provides
  PROVE  Powered'
<1>0. UNCHANGED <<kind, at, status, receipt, past, retry, tries, job>>
  BY ProviderKeeps
<1>1. /\ Action' = Action /\ (Finished' <=> Finished) /\ FirstMark' = FirstMark /\ PowerEvent' = PowerEvent
  BY <1>0, SameStep DEF FirstMark, PowerEvent
<1>2. at \in Nat \ {0}
  BY DEF Types
<1>3. (kind \in {"linode", "stopped"} /\ at = 1) \/ (kind = "swap" /\ at <= 2) => Finished \/ Action \notin PowerActions
  BY StepFits, <1>2 DEF TheStep, Rotates, Cleans, PowerActions
<1>4. call.st # "none" => ~Finished
  BY DEF Types, NoCall
<1>5. kind = "stopped" /\ at = 2 => Finished \/ PowerEvent = "stop"
  BY StepFits DEF TheStep, Rotates, Cleans, PowerEvent
<1>6. Unstarted'
  BY <1>0, <1>2, <1>3, <1>4, <1>5, LogGrows DEF Unstarted, Powered
<1>7. Marked'
  BY <1>0, <1>1, ProviderLogs DEF Marked, Powered
<1>8. Released'
  <2> SUFFICES ASSUME kind = "linode", at = 4 PROVE Old \notin On'
    BY <1>0 DEF Released
  <2>1. Old \notin On /\ Action \in PowerActions
    <3>1. Old \notin On
      BY DEF Powered, Released
    <3>2. Action = "linode.instance.reboot"
      BY Plan_linode DEF Action
    <3> QED BY <3>1, <3>2 DEF PowerActions
  <2>2. On' \subseteq On
    BY <2>1, SlotShrinks
  <2> QED BY <2>1, <2>2
<1>9. StopsOnce'
  <2> SUFFICES ASSUME kind = "stopped" PROVE StopsOnce'
    BY <1>0 DEF StopsOnce
  <2>1. at = 5 => call' = NoCall
    BY ProviderLogs DEF Powered, StopsOnce, NoCall
  <2>2. at \in 4 .. 5 => Len(log') > past[2].event
    <3>1. at \in 4 .. 5 => past[2].event \in Nat
      <4>1. at \in 4 .. 5 => 2 \in 1 .. at - 1
        OBVIOUS
      <4> QED BY <4>1, PastFits
    <3> QED BY <3>1, LogGrows DEF Powered, StopsOnce
  <2>3. ASSUME at \in 3 .. 5, NEW e \in 1 .. Len(log'), e > past[2].event PROVE log'[e].what # "stop"
    <3>1. CASE e \in 1 .. Len(log)
      BY <2>3, <3>1, LogGrows DEF Powered, StopsOnce
    <3>2. CASE e \notin 1 .. Len(log)
      <4>1. CASE ~log'[e].mine
        BY <3>2, <4>1, LogGrows
      <4>2. CASE log'[e].mine
        <5>1. log'[e].what = PowerEvent /\ Action \in PowerActions /\ call.st # "none"
          BY <3>2, <4>2, LogGrows
        <5>2. at # 5
          BY <5>1 DEF Powered, StopsOnce, NoCall
        <5>3. Action = "linode.instance.start"
          BY <1>4, <2>3, <5>1, <5>2, StepFits DEF TheStep, Rotates, Cleans, PowerActions
        <5> QED BY <5>1, <5>3 DEF PowerEvent
      <4> QED BY <4>1, <4>2
    <3> QED BY <3>1, <3>2
  <2> QED BY <1>0, <2>1, <2>2, <2>3 DEF Powered, StopsOnce
<1>10. Booted'
  <2> SUFFICES ASSUME ~Finished, Action \in Restarts, NEW e \in 1 .. Len(log'),
                      e > FirstMark, log'[e].mine, log'[e].what = PowerEvent, log'[e].how = "finished"
               PROVE  On' \subseteq booted' /\ (kind = "linode" /\ at = 4 => Old \notin booted')
    BY <1>0, <1>1 DEF Booted
  <2>1. e \in 1 .. Len(log) /\ log[e].mine /\ log[e].what = PowerEvent
    BY LogGrows
  <2>2. Action \in PowerActions /\ Action # "linode.instance.stop"
    BY DEF Restarts, PowerActions
  <2>3. kind = "linode" /\ at = 4 => Old \notin On
    BY DEF Powered, Released
  <2>4. CASE booted' = On /\ UNCHANGED place
    BY <2>3, <2>4 DEF On
  <2>5. CASE log[e].how # "finished"
    <3>1. PowerEnds("finished")
      BY <2>1, <2>5, LogGrows
    <3> QED BY <2>2, <2>4, <3>1 DEF PowerEnds
  <2>6. CASE log[e].how = "finished"
    <3>1. On \subseteq booted /\ (kind = "linode" /\ at = 4 => Old \notin booted)
      BY <2>1, <2>6 DEF Powered, Booted
    <3>2. CASE booted' = booted /\ On' \subseteq On
      BY <3>1, <3>2
    <3>3. CASE PowerStarts
      BY <3>2, <3>3 DEF PowerStarts, On
    <3>4. ASSUME NEW how \in {"finished", "failed"}, PowerEnds(how)
          PROVE  On' \subseteq booted' /\ (kind = "linode" /\ at = 4 => Old \notin booted')
      <4>1. On' = On
        BY <3>4 DEF PowerEnds, On
      <4> QED BY <2>3, <3>1, <3>4, <4>1 DEF PowerEnds
    <3>5. CASE \E how \in {"finished", "failed"} : PowerEnds(how)
      BY <3>4, <3>5
    <3>6. \/ UNCHANGED <<log, booted>> /\ On' \subseteq On
          \/ PowerStarts
          \/ \E how \in {"finished", "failed"} : PowerEnds(how)
          \/ booted' = On /\ UNCHANGED place
      BY <2>2, ProviderLogs
    <3> QED BY <2>4, <3>2, <3>3, <3>5, <3>6
  <2> QED BY <2>5, <2>6
<1> QED BY <1>6, <1>7, <1>8, <1>9, <1>10 DEF Powered

LEMMA PoweredInit == Init => Powered
<1> SUFFICES ASSUME Init PROVE Powered
  OBVIOUS
<1>1. log = <<>> /\ receipt = NoReceipt /\ call = NoCall /\ retry = 0 /\ at = 1
  BY DEF Init
<1>2. Len(log) = 0
  BY <1>1
<1> QED BY <1>1, <1>2 DEF Powered, Unstarted, Marked, Booted, Released, StopsOnce, NoReceipt, NoCall

LEMMA PoweredStep == Types /\ Powered /\ [Next]_vars => Powered'
<1> SUFFICES ASSUME Types, Powered, [Next]_vars PROVE Powered'
  OBVIOUS
<1>1. Next => Works \/ Observe \/ Provides
  BY DEF Next, Works, Provides
<1>2. CASE UNCHANGED vars
  <2>1. UNCHANGED <<kind, place, log, booted, at, receipt, past, retry, call>>
    BY <1>2 DEF vars, rows, cloud
  <2>2. /\ Action' = Action /\ (Finished' <=> Finished) /\ FirstMark' = FirstMark /\ On' = On
        /\ PowerEvent' = PowerEvent
    BY <2>1, SameStep DEF FirstMark, On, PowerEvent
  <2>3. Unstarted' /\ Released' /\ StopsOnce'
    BY <2>1, <2>2 DEF Powered, Unstarted, Released, StopsOnce
  <2>4. Marked'
    BY <2>1, <2>2 DEF Powered, Marked
  <2>5. Booted'
    BY <2>1, <2>2 DEF Powered, Booted
  <2> QED BY <2>3, <2>4, <2>5 DEF Powered
<1> QED BY <1>1, <1>2, PoweredWorks, PoweredObserve, PoweredProvides

LEMMA AppliedRestart ==
  ASSUME Types, Powered, Observe, at' # at, Action \in Restarts
  PROVE  IF Cleaning THEN Published \in booted /\ Old \notin booted ELSE Candidate \in booted
<1>1. ~Finished /\ Observation = "applied" /\ Action \in PowerActions /\ TheStep
  BY StepFits DEF Observe, Restarts, PowerActions
<1>2. On \subseteq booted /\ (kind = "linode" /\ at = 4 => Old \notin booted)
  <2>1. /\ TheAnswer \in 1 .. Len(log) /\ TheAnswer > FirstMark
        /\ log[TheAnswer].what = PowerEvent /\ log[TheAnswer].mine /\ log[TheAnswer].how = "finished"
    BY <1>1, AppliedAnswer DEF Powered
  <2> QED BY <1>1, <2>1 DEF Powered, Booted
<1>3. CASE Cleaning
  <2>1. kind = "linode" /\ at = 4
    <3>1. kind = "stopped" => at <= 5
      BY DEF Powered, StopsOnce
    <3> QED BY <1>1, <1>3, <3>1, PowerSteps DEF Rotates, Cleans, Restarts
  <2>2. Published \in On
    BY <1>1, <2>1, AppliedAnswer DEF Powered
  <2> QED BY <1>2, <1>3, <2>1, <2>2
<1>4. CASE ~Cleaning
  <2>1. at # 4 /\ kind \in {"linode", "stopped", "swap"}
    BY <1>1, <1>4, PowerSteps DEF Rotates, Cleans
  <2>2. Candidate \in On
    BY <1>1, <1>4, <2>1, AppliedAnswer DEF Powered
  <2> QED BY <1>2, <1>4, <2>2
<1> QED BY <1>3, <1>4

-----------------------------------------------------------------------------
(* The theorems.                                                           *)

WorkflowsInv == Types /\ Allocated /\ Settled /\ Powered /\ at \in 1 .. 6

LEMMA InvInit == Init => WorkflowsInv
<1>1. Init => at \in 1 .. 6
  BY DEF Init
<1> QED BY <1>1, TypesInit, AllocatedInit, SettledInit, PoweredInit DEF WorkflowsInv

LEMMA InvStep == WorkflowsInv /\ [Next]_vars => WorkflowsInv'
<1> SUFFICES ASSUME WorkflowsInv, [Next]_vars PROVE WorkflowsInv'
  OBVIOUS
<1>1. Types' /\ Allocated' /\ Settled' /\ Powered'
  BY TypesStep, AllocatedStep, SettledStep, PoweredStep DEF WorkflowsInv
<1>2. at' \in 1 .. 6
  <2>1. CASE at' = at
    BY <2>1 DEF WorkflowsInv
  <2>2. CASE at' # at
    <3>1. Observe
      BY <2>2, WorkerKeeps, ProviderKeeps DEF Next, Works, Provides, vars, rows
    <3>2. at' = at + 1 /\ TheStep /\ Observation = "applied"
      BY <2>2, <3>1, StepFits DEF Observe, Advance, WorkflowsInv
    <3>3. kind = "stopped" => at <= 5
      BY DEF WorkflowsInv, Powered, StopsOnce
    <3>4. kind # "stopped" => at <= 4
      BY <3>2 DEF TheStep, Rotates, Cleans
    <3> QED BY <3>2, <3>3, <3>4 DEF WorkflowsInv
  <2> QED BY <2>1, <2>2
<1> QED BY <1>1, <1>2 DEF WorkflowsInv

\* Every state of a run satisfies the invariant: the types of the rows, that an
\* allocation is made once and answered, that a call under way has had no visible
\* effect, and that a restart that is found as finished has brought up the slot.
THEOREM WorkflowsInvariant == Spec => []WorkflowsInv
BY InvInit, InvStep, PTL DEF Spec

\* The rows of an attempt and the state of the provider have their types: no step
\* is taken after the last one of a plan, and no receipt is of another form.
THEOREM TypeCorrect == Spec => []TypeOK
<1>1. WorkflowsInv => TypeOK
  BY DEF WorkflowsInv, Types, TypeOK
<1> QED BY <1>1, WorkflowsInvariant, PTL

\* Whatever is lost, late, refused or moved, and however often the worker stops,
\* an attempt makes the provider give one address at most (the dispatch of
\* cloud-rotation.processor.ts, the adapters' allocation steps).
THEOREM OneAllocationAlways == Spec => []OneAllocation
<1>1. WorkflowsInv => OneAllocation
  BY DEF WorkflowsInv, Allocated, OneAllocation
<1> QED BY <1>1, WorkflowsInvariant, PTL

\* As long as nobody else moves the resources, a step that the worker takes for
\* applied, not applied or rejected has no call under way that could still act.
THEOREM SettledIsOverAlways == Spec => SettledIsOver
<1> DEFINE Settles == ~Finished /\ outside = 0 /\ status \in Open /\ (at' # at \/ status' \in Refused) => ~InFlight
<1>1. ASSUME WorkflowsInv, [Next]_vars, ~Finished, outside = 0, status \in Open, at' # at \/ status' \in Refused
      PROVE  ~InFlight
  <2>0. Types /\ Settled
    BY <1>1 DEF WorkflowsInv
  <2>1. Next
    BY <1>1 DEF vars, rows, Open, Refused, Retried
  <2>2. CASE Works
    <3>1. at' = at
      BY <2>2, WorkerKeeps
    <3>2. status' \in Refused /\ status \notin Refused
      BY <1>1, <3>1 DEF Open, Refused, Retried
    <3>3. CASE Refuses
      <4>1. job = "look"
        BY <3>3 DEF Refuses, RateLimited, OtherRefusal
      <4>2. call = NoCall
        BY <2>0, <4>1 DEF Types
      <4> QED BY <4>2 DEF InFlight, NoCall
    <3>4. CASE Answer
      BY <3>2, <3>4 DEF Answer, InFlight, Refused, Retried, RateLimited, OtherRefusal
    <3> QED BY <2>2, <3>2, <3>3, <3>4 DEF Works, Dispatch, Send, FindsDone, TimesOut, LateAnswer, Crash, Retry, ResumedByHand, rows, Refused, Retried
  <2>3. CASE Observe
    <3>1. Observation \in {"applied", "not_applied"}
      BY <1>1, <2>3 DEF Observe, Refused, Retried
    <3> QED BY <1>1, <2>0, <3>1, InFlightIsUnsettled DEF Settled
  <2>4. CASE Provides
    <3>1. at' = at /\ status' = status
      BY <2>4, ProviderKeeps
    <3> QED BY <1>1, <3>1 DEF Open, Refused, Retried
  <2> QED BY <2>1, <2>2, <2>3, <2>4 DEF Next, Works, Provides
<1>2. WorkflowsInv /\ [Next]_vars => [Settles]_vars
  BY <1>1
<1>3. SettledIsOver <=> [][Settles]_vars
  BY PTL DEF SettledIsOver
<1> QED BY <1>2, <1>3, WorkflowsInvariant, PTL DEF Spec

\* A reboot or a start that an observation takes for the answer of the step came
\* after the addresses had changed: the guest runs with the new one, and after a
\* cleanup without the old one (the watermarks of linode-rotation.ts).
THEOREM RestartFollowsAlways == Spec => RestartFollows
<1> DEFINE Follows == ~Finished /\ at' # at /\ Action \in {"linode.instance.reboot", "linode.instance.start"}
                        => IF Cleaning THEN Published \in booted /\ Old \notin booted ELSE Candidate \in booted
<1>1. ASSUME WorkflowsInv, [Next]_vars PROVE [Follows]_vars
  <2> SUFFICES ASSUME ~Finished, at' # at, Action \in Restarts
               PROVE  IF Cleaning THEN Published \in booted /\ Old \notin booted ELSE Candidate \in booted
    BY DEF Restarts
  <2>1. Observe
    BY <1>1, WorkerKeeps, ProviderKeeps DEF Next, Works, Provides, vars, rows
  <2> QED BY <1>1, <2>1, AppliedRestart DEF WorkflowsInv
<1>2. WorkflowsInv /\ [Next]_vars => [Follows]_vars
  BY <1>1
<1>3. RestartFollows <=> [][Follows]_vars
  BY PTL DEF RestartFollows
<1> QED BY <1>2, <1>3, WorkflowsInvariant, PTL DEF Spec

\* The cleanup of a rotation by a stop and a start never ends: its stop compares
\* the log with the answer of the stop of the rotation, which the start between
\* them has already followed, and is refused for ever.
THEOREM StoppedNeverEnds == Spec => [](kind = "stopped" => at <= 5 /\ ~Finished)
<1>1. ASSUME WorkflowsInv, kind = "stopped" PROVE at <= 5 /\ ~Finished
  <2>1. Len(Plan) = 6 /\ at \in 1 .. 6 /\ at <= 5
    BY <1>1, Plan_stopped DEF WorkflowsInv, Powered, StopsOnce
  <2>2. ~(at > Len(Plan))
    BY <2>1
  <2> QED BY <2>1, <2>2 DEF Finished
<1>2. WorkflowsInv => (kind = "stopped" => at <= 5 /\ ~Finished)
  BY <1>1
<1> QED BY <1>2, WorkflowsInvariant, PTL

-----------------------------------------------------------------------------
(* Schedules.                                                              *)

\* Only the last incident may be other than complete.
Order == \A i, j \in Incident : i < j /\ incident[j].status # "none" => Complete(i)

TerminatedIsComplete == \A i \in Incident : incident[i].terminated => Complete(i)

\* The schedule refers to incidents that exist.
Known ==
  /\ schedule.active # NoIncident => incident[schedule.active].status # "none"
  /\ schedule.handled # NoIncident => incident[schedule.handled].status # "none"

HandledIsLinked ==
  schedule.handled # NoIncident /\ Ongoing(schedule.handled) => schedule.active = schedule.handled

UnseenStands == \A i \in unseen : Stopped(i)

\* Of a completed incident, what has been handled and is no longer linked, or has
\* not changed since, has been seen.
HandledIsComplete == schedule.handled # NoIncident /\ Complete(schedule.handled)
LooseIsSeen == HandledIsComplete /\ schedule.active = NoIncident => schedule.handled \notin unseen
FreshIsSeen == HandledIsComplete /\ schedule.fresh => schedule.handled \notin unseen

IInv ==
  /\ ScheduleTypeOK /\ Order /\ TerminatedIsComplete /\ Known /\ HandledIsLinked
  /\ UnseenStands /\ LooseIsSeen /\ FreshIsSeen

-----------------------------------------------------------------------------

LEMMA LatestExists ==
  ASSUME ScheduleTypeOK, NEW k \in Incident, Complete(k)
  PROVE  \E i \in Incident : IsLatest(i)
<1> DEFINE T == {n \in Nat : \E i \in Incident : Complete(i) /\ n = MaxIncidents - i}
<1>1. MaxIncidents - k \in T
  BY SchedulesAssumption DEF Incident
<1>2. PICK x \in T : \A y \in T : ~(<<y, x>> \in OpToRel(<, Nat))
  <2>1. T \subseteq Nat /\ T # {}
    BY <1>1
  <2> HIDE DEF T
  <2>2. QED BY <2>1, NatLessThanWellFounded, WFMin
<1>3. PICK i \in Incident : Complete(i) /\ x = MaxIncidents - i
  OBVIOUS
<1>4. ASSUME NEW j \in Incident, Complete(j) PROVE j <= i
  <2>1. MaxIncidents - j \in T
    BY <1>4, SchedulesAssumption DEF Incident
  <2>2. ~(MaxIncidents - j < x)
    BY <1>2, <2>1 DEF OpToRel
  <2>3. QED BY <1>3, <2>2, SchedulesAssumption DEF Incident
<1>5. QED BY <1>3, <1>4 DEF IsLatest

LEMMA LatestFacts ==
  ASSUME ScheduleTypeOK
  PROVE  /\ Latest \in Incident \cup {NoIncident}
         /\ Latest # NoIncident => IsLatest(Latest)
<1>1. CASE \E k \in Incident : Complete(k)
  <2>1. \E i \in Incident : IsLatest(i)
    BY <1>1, LatestExists
  <2>2. QED BY <1>1, <2>1 DEF Latest
<1>2. CASE ~\E k \in Incident : Complete(k)
  BY <1>2 DEF Latest
<1>3. QED BY <1>1, <1>2

LEMMA SubjectFacts ==
  ASSUME ScheduleTypeOK
  PROVE  Subject \in Incident \cup {NoIncident}
BY LatestFacts DEF Subject, ScheduleTypeOK, ScheduleRow

LEMMA ReconciledType ==
  ASSUME ScheduleTypeOK, NEW deadline \in {"later", "due"}
  PROVE  Reconciled(deadline) \in ScheduleRow
BY SubjectFacts DEF Reconciled, AfterStop, AfterSuccess, Handled, ScheduleTypeOK, ScheduleRow

\* Every variable keeps its type, along the requests, the scan and the jobs.
THEOREM ScheduleTypeCorrect == ScheduleSpec => []ScheduleTypeOK
<1>1. ScheduleInit => ScheduleTypeOK
  BY SchedulesAssumption DEF ScheduleInit, ScheduleTypeOK, ScheduleRow, IncidentRow, Obstacle
<1>2. ScheduleTypeOK /\ [ScheduleNext]_scheduleVars => ScheduleTypeOK'
  <2> SUFFICES ASSUME ScheduleTypeOK, [ScheduleNext]_scheduleVars PROVE ScheduleTypeOK'
    OBVIOUS
  <2> USE SchedulesAssumption DEF ScheduleTypeOK, ScheduleRow, IncidentRow, Happens
  <2>1. ASSUME NEW on \in BOOLEAN, Update(on) PROVE ScheduleTypeOK'
    <3>1. Linked(schedule.active) \in Incident \cup {NoIncident}
      BY DEF Linked
    <3>2. Latest \in Incident \cup {NoIncident}
      BY LatestFacts
    <3>3. schedule' \in ScheduleRow
      BY <2>1, <3>1, <3>2 DEF Update
    <3>4. unseen' \subseteq Incident /\ events' \in 0 .. MaxEvents
      BY <2>1 DEF Update
    <3>5. QED BY <2>1, <3>3, <3>4 DEF Update
  <2>2. CASE Resume
    <3>1. Latest \in Incident \cup {NoIncident}
      BY LatestFacts
    <3>2. schedule' \in ScheduleRow
      BY <2>2, <3>1 DEF Resume, Resumed, Observed
    <3>3. unseen' \subseteq Incident /\ events' \in 0 .. MaxEvents
      BY <2>2 DEF Resume
    <3>4. QED BY <2>2, <3>2, <3>3 DEF Resume
  <2>3. CASE Hinder
    BY <2>3 DEF Hinder
  <2>4. CASE TimePasses
    BY <2>4 DEF TimePasses
  <2>5. CASE Scan
    <3>1. PICK deadline \in {"later", "due"} : Admit(Reconciled(deadline))
      BY <2>5 DEF Scan
    <3>2. Reconciled(deadline) \in ScheduleRow
      BY ReconciledType
    <3> DEFINE s == Reconciled(deadline)
    <3>3. s \in ScheduleRow /\ Admit(s)
      BY <3>1, <3>2
    <3> HIDE DEF s
    <3>4. schedule' \in ScheduleRow
      BY <3>3 DEF Admit
    <3>5. incident' \in [Incident -> IncidentRow]
      <4>1. UNCHANGED incident \/ \E i \in Incident : Begin(i, "scheduled")
        BY <3>3 DEF Admit
      <4>2. ASSUME NEW i \in Incident, Begin(i, "scheduled")
            PROVE  incident' \in [Incident -> IncidentRow]
        BY <4>2 DEF Begin
      <4>3. QED BY <4>1, <4>2
    <3>6. wake' \subseteq Incident
      <4>1. UNCHANGED wake \/ \E i \in Incident : wake' = wake \cup {i}
        BY <3>3 DEF Admit
      <4>2. QED BY <4>1
    <3>7. QED BY <2>5, <3>4, <3>5, <3>6 DEF Scan
  <2>6. CASE SchedulerDies
    BY <2>6 DEF SchedulerDies
  <2>7. CASE Reset
    <3>1. incident' \in [Incident -> IncidentRow]
      BY <2>7 DEF Reset
    <3>2. schedule' \in ScheduleRow
      BY <2>7 DEF Reset
    <3>3. unseen' \subseteq Incident
      BY <2>7 DEF Reset
    <3>6. events' \in 0 .. MaxEvents
      <4>1. events < MaxEvents /\ events' = events + 1
        BY <2>7 DEF Reset
      <4>2. QED BY <4>1
    <3>4. UNCHANGED <<obstacle, wake, queued>>
      BY <2>7 DEF Reset
    <3>5. QED BY <3>1, <3>2, <3>3, <3>4, <3>6
  <2>8. ASSUME NEW i \in Incident, Wake(i) \/ LoseJob(i) \/ Recover(i) PROVE ScheduleTypeOK'
    BY <2>8 DEF Wake, LoseJob, Recover
  <2>9. ASSUME NEW i \in Incident, Run(i) PROVE ScheduleTypeOK'
    <3>1. schedule' \in ScheduleRow
      BY <2>9 DEF Run, Proceeds, Stops, Repeats, ExhaustsQuietly, Bumped
    <3>2. incident' \in [Incident -> IncidentRow]
      BY <2>9 DEF Run, Proceeds, Stops, Repeats, ExhaustsQuietly, Goes
    <3>3. unseen' \subseteq Incident
      BY <2>9 DEF Run, Proceeds, Stops, Repeats, ExhaustsQuietly
    <3>4. QED BY <2>9, <3>1, <3>2, <3>3 DEF Run
  <2>10. ASSUME NEW i \in Incident, StartOther(i) PROVE ScheduleTypeOK'
    BY <2>10 DEF StartOther, Begin
  <2>11. ASSUME NEW i \in Incident, Pause(i) \/ ResumeIncident(i) \/ Terminate(i) PROVE ScheduleTypeOK'
    <3>1. incident' \in [Incident -> IncidentRow]
      BY <2>11 DEF Pause, ResumeIncident, Terminate
    <3>2. schedule' \in ScheduleRow
      BY <2>11 DEF Pause, ResumeIncident, Terminate, Bumped
    <3>3. QED BY <2>11, <3>1, <3>2 DEF Pause, ResumeIncident, Terminate
  <2>12. CASE UNCHANGED scheduleVars
    BY <2>12 DEF scheduleVars
  <2>13. QED
    BY <2>1, <2>2, <2>3, <2>4, <2>5, <2>6, <2>7, <2>8, <2>9, <2>10, <2>11, <2>12 DEF ScheduleNext
<1>3. QED BY <1>1, <1>2, PTL DEF ScheduleSpec

-----------------------------------------------------------------------------

LEMMA IInvInit == ScheduleInit => IInv
<1> SUFFICES ASSUME ScheduleInit PROVE IInv
  OBVIOUS
<1>1. ScheduleTypeOK
  BY SchedulesAssumption DEF ScheduleInit, ScheduleTypeOK, ScheduleRow, IncidentRow, Obstacle
<1>2. QED
  BY <1>1 DEF ScheduleInit, IInv, Order, TerminatedIsComplete, Known, HandledIsLinked, UnseenStands,
    HandledIsComplete, LooseIsSeen, FreshIsSeen, Ongoing, Complete, Stopped

\* What a request for the schedule leaves of the invariant is about three fields.
LEMMA SameIncidents ==
  ASSUME IInv, UNCHANGED incident, ScheduleTypeOK', unseen' \subseteq unseen,
         Known', HandledIsLinked', LooseIsSeen', FreshIsSeen'
  PROVE  IInv'
BY DEF IInv, Order, TerminatedIsComplete, UnseenStands, Complete, Stopped

LEMMA UpdateKeeps ==
  ASSUME IInv, ScheduleTypeOK', NEW on \in BOOLEAN, Update(on)
  PROVE  IInv'
<1>1. Latest \in Incident \cup {NoIncident} /\ (Latest # NoIncident => Complete(Latest))
  BY LatestFacts DEF IInv, IsLatest
<1> DEFINE link == Linked(schedule.active)
<1>2. /\ schedule'.active = link
      /\ \/ schedule'.handled = schedule.handled /\ schedule'.fresh = schedule.fresh
         \/ link = NoIncident /\ Latest # NoIncident /\ schedule'.handled = Latest
      /\ unseen' = {i \in unseen : ~Complete(i) \/ i = schedule.active}
      /\ UNCHANGED incident
  BY DEF Update, IInv, ScheduleTypeOK, ScheduleRow
<1>3. link = NoIncident \/ link = schedule.active
  BY DEF Linked
<1>4. Known'
  BY <1>1, <1>2, <1>3 DEF IInv, Known, Complete
<1>5. HandledIsLinked'
  BY <1>1, <1>2, <1>3 DEF IInv, HandledIsLinked, Complete, Ongoing, Linked
<1>6. schedule.active # NoIncident /\ link = NoIncident => schedule.active \notin unseen
  BY DEF Linked, IInv, UnseenStands, Stopped, Complete
<1>7. LooseIsSeen'
  BY <1>1, <1>2, <1>3, <1>6 DEF IInv, LooseIsSeen, HandledIsComplete, Complete, ScheduleTypeOK
<1>8. FreshIsSeen'
  BY <1>1, <1>2, <1>3, <1>6 DEF IInv, FreshIsSeen, LooseIsSeen, HandledIsComplete, Complete, ScheduleTypeOK
<1>9. QED BY <1>2, <1>4, <1>5, <1>7, <1>8, SameIncidents

LEMMA ResumeKeeps ==
  ASSUME IInv, ScheduleTypeOK', Resume
  PROVE  IInv'
<1>1. Latest \in Incident \cup {NoIncident} /\ (Latest # NoIncident => Complete(Latest))
  BY LatestFacts DEF IInv, IsLatest
<1> DEFINE link == IF schedule.active # NoIncident /\ Complete(schedule.active)
                     THEN NoIncident ELSE schedule.active
<1>2. /\ schedule'.active = link
      /\ \/ schedule'.handled = schedule.handled /\ schedule'.fresh = schedule.fresh
         \/ link = NoIncident /\ Latest # NoIncident /\ schedule'.handled = Latest
         \/ link # NoIncident /\ schedule'.handled = link
      /\ unseen' = {i \in unseen : ~Complete(i) /\ i # schedule'.handled}
      /\ UNCHANGED incident
  BY DEF Resume, Resumed, Observed, IInv, ScheduleTypeOK, ScheduleRow
<1>3. Known'
  BY <1>1, <1>2 DEF IInv, Known, Complete
<1>4. HandledIsLinked'
  BY <1>1, <1>2 DEF IInv, HandledIsLinked, Complete, Ongoing
<1>5. LooseIsSeen' /\ FreshIsSeen'
  BY <1>2 DEF LooseIsSeen, FreshIsSeen
<1>6. QED BY <1>2, <1>3, <1>4, <1>5, SameIncidents

\* What the reconciliation of a scan leaves.
LEMMA ReconciledFacts ==
  ASSUME IInv, NEW deadline \in {"later", "due"}, NEW s, s = Reconciled(deadline)
  PROVE  /\ s \in ScheduleRow
         /\ s.active # NoIncident => incident[s.active].status # "none"
         /\ s.handled # NoIncident => incident[s.handled].status # "none"
         /\ s.handled # NoIncident /\ Ongoing(s.handled) => s.active = s.handled
         /\ s.handled # NoIncident /\ Complete(s.handled) /\ (s.active = NoIncident \/ s.fresh)
              => s.paused \/ s.handled \notin unseen
<1> USE DEF IInv, ScheduleTypeOK, ScheduleRow
<1>1. s \in ScheduleRow
  BY ReconciledType
<1>2. Subject # NoIncident => Subject \in Incident /\ incident[Subject].status # "none"
  <2>1. Latest # NoIncident => Complete(Latest)
    BY LatestFacts DEF IsLatest
  <2>2. QED BY SubjectFacts, <2>1 DEF Subject, Known, Ongoing, Complete
<1>3. CASE s = schedule
  BY <1>1, <1>3 DEF Known, HandledIsLinked, LooseIsSeen, FreshIsSeen, HandledIsComplete
<1>4. ASSUME NEW i \in Incident, i = Subject, Handled(i), s = AfterStop(i), Complete(i)
      PROVE  /\ s.active = NoIncident /\ s.handled = i
             /\ i \notin unseen
  <2>1. schedule.handled = i /\ schedule.fresh /\ i # NoIncident
    BY <1>4, SchedulesAssumption DEF Handled, Incident
  <2>2. i \notin unseen
    BY <1>4, <2>1 DEF FreshIsSeen, HandledIsComplete
  <2>3. s = [schedule EXCEPT !.active = NoIncident]
    BY <1>4 DEF AfterStop
  <2>4. QED BY <2>1, <2>2, <2>3
<1>5. ASSUME NEW i \in Incident, i = Subject, Handled(i), s = AfterStop(i), ~Complete(i)
      PROVE  s = schedule
  BY <1>5 DEF AfterStop
<1>6. ASSUME NEW i \in Incident, i = Subject, ~Handled(i), s = AfterStop(i)
      PROVE  s.handled = i /\ s.paused /\ (~Complete(i) => s.active = i)
  BY <1>6 DEF AfterStop
<1>7. ASSUME NEW i \in Incident, i = Subject, Complete(i), ~Stopped(i), s = AfterSuccess(i, deadline)
      PROVE  s.handled = i /\ s.active = NoIncident /\ i \notin unseen
  BY <1>7 DEF AfterSuccess, UnseenStands
<1>8. ASSUME NEW i \in Incident, i = Subject, ~Complete(i), s = [schedule EXCEPT !.active = i]
      PROVE  s.active = i /\ s.handled = schedule.handled /\ s.fresh = schedule.fresh
  BY <1>8
<1>9. \/ s = schedule
      \/ \E i \in Incident :
           /\ i = Subject
           /\ \/ s = AfterStop(i)
              \/ Complete(i) /\ ~Stopped(i) /\ s = AfterSuccess(i, deadline)
              \/ ~Complete(i) /\ s = [schedule EXCEPT !.active = i]
  BY <1>2 DEF Reconciled
<1>10. ASSUME NEW i \in Incident, i = Subject, s = AfterStop(i) PROVE
         \/ s = schedule
         \/ s.handled = i /\ (~Complete(i) => s.active = i) /\ (s.paused \/ i \notin unseen)
  BY <1>4, <1>5, <1>6, <1>10
<1>11. CASE \E i \in Incident : /\ i = Subject /\ s.handled = i
                                /\ ~Complete(i) => s.active = i
                                /\ s.paused \/ i \notin unseen
                                /\ s.active \in {i, NoIncident, schedule.active}
  BY <1>1, <1>2, <1>11 DEF Ongoing, Complete, Known
<1>12. CASE \E i \in Incident : /\ i = Subject /\ ~Complete(i) /\ s.active = i
                                /\ s.handled = schedule.handled /\ s.fresh = schedule.fresh
  <2>1. PICK i \in Incident : /\ i = Subject /\ ~Complete(i) /\ s.active = i
                              /\ s.handled = schedule.handled /\ s.fresh = schedule.fresh
    BY <1>12
  <2>2. i # NoIncident /\ incident[i].status # "none"
    BY <1>2, <2>1, SchedulesAssumption DEF Incident
  <2>3. s.handled # NoIncident /\ Ongoing(s.handled) => i = s.handled
    BY <2>1, <2>2 DEF Ongoing, Complete, Order, HandledIsLinked, Known, Subject, IncidentRow, Incident
  <2>4. QED BY <1>1, <2>1, <2>2, <2>3 DEF Known, FreshIsSeen, HandledIsComplete
<1>13. ASSUME NEW i \in Incident, i = Subject, s = AfterStop(i) \/ s = AfterSuccess(i, deadline)
       PROVE  s.active \in {i, NoIncident, schedule.active}
  BY <1>13 DEF AfterStop, AfterSuccess
<1>14. QED BY <1>3, <1>7, <1>8, <1>9, <1>10, <1>11, <1>12, <1>13

LEMMA ScanKeeps ==
  ASSUME IInv, ScheduleTypeOK', Scan
  PROVE  IInv'
<1> USE DEF IInv, ScheduleTypeOK
<1>1. PICK deadline \in {"later", "due"} : Admit(Reconciled(deadline))
  BY DEF Scan
<1> DEFINE s == Reconciled(deadline)
<1>2. /\ s \in ScheduleRow
      /\ s.active # NoIncident => incident[s.active].status # "none"
      /\ s.handled # NoIncident => incident[s.handled].status # "none"
      /\ s.handled # NoIncident /\ Ongoing(s.handled) => s.active = s.handled
      /\ s.handled # NoIncident /\ Complete(s.handled) /\ (s.active = NoIncident \/ s.fresh)
           => s.paused \/ s.handled \notin unseen
  BY ReconciledFacts
<1>3. Admit(s) /\ unseen' = IF schedule'.paused THEN {i \in unseen : i # schedule'.handled} ELSE unseen
  BY <1>1 DEF Scan
<1> HIDE DEF s
<1>4. CASE UNCHANGED incident /\ schedule'.active = s.active /\ schedule'.handled = s.handled
             /\ schedule'.fresh = s.fresh /\ (s.paused => schedule'.paused)
  <2>1. Known' /\ HandledIsLinked'
    BY <1>2, <1>4 DEF Known, HandledIsLinked, Ongoing
  <2>2. LooseIsSeen' /\ FreshIsSeen'
    BY <1>2, <1>3, <1>4 DEF LooseIsSeen, FreshIsSeen, HandledIsComplete, Complete, ScheduleRow
  <2>3. unseen' \subseteq unseen
    BY <1>3
  <2>4. QED BY <1>4, <2>1, <2>2, <2>3, SameIncidents
<1>5. CASE UNCHANGED <<incident, schedule>>
  <2>1. unseen' \subseteq unseen
    BY <1>3
  <2>2. Known' /\ HandledIsLinked' /\ LooseIsSeen' /\ FreshIsSeen'
    BY <1>5, <2>1 DEF Known, HandledIsLinked, LooseIsSeen, FreshIsSeen, HandledIsComplete, Ongoing, Complete
  <2>3. QED BY <1>5, <2>1, <2>2, SameIncidents
<1>6. ASSUME NEW i \in Incident, IsNew(i), Begin(i, "scheduled"), ~s.paused, s.active = NoIncident,
             schedule' = [s EXCEPT !.active = i, !.next = "none"]
      PROVE  IInv'
  <2>1. /\ schedule'.active = i /\ schedule'.handled = s.handled /\ unseen' = unseen
        /\ \A j \in Incident : j # i => incident'[j] = incident[j]
        /\ incident'[i].status = "active" /\ ~incident'[i].terminated
    BY <1>2, <1>3, <1>6 DEF Begin, ScheduleRow
  <2>2. i \notin unseen /\ s.handled # i
    BY <1>2, <1>6, SchedulesAssumption DEF UnseenStands, Stopped, TerminatedIsComplete, Complete, IsNew, Incident
  <2>3. Order'
    BY <1>6, <2>1 DEF Order, IsNew, Complete, Incident
  <2>4. TerminatedIsComplete' /\ UnseenStands'
    BY <2>1, <2>2 DEF TerminatedIsComplete, UnseenStands, Complete, Stopped
  <2>5. Known'
    BY <1>2, <2>1, <2>2 DEF Known, ScheduleRow
  <2>6. s.handled \in Incident \cup {NoIncident}
    BY <1>2 DEF ScheduleRow
  <2>7. HandledIsLinked'
    BY <1>2, <1>6, <2>1, <2>2, <2>6 DEF HandledIsLinked, Ongoing
  <2>8. LooseIsSeen' /\ FreshIsSeen'
    BY <1>2, <1>6, <2>1, <2>2, <2>6 DEF LooseIsSeen, FreshIsSeen, HandledIsComplete, Complete
  <2>9. QED BY <2>3, <2>4, <2>5, <2>7, <2>8
<1>7. QED
  <2>1. \/ UNCHANGED <<incident, schedule>>
        \/ UNCHANGED incident /\ schedule' = s
        \/ UNCHANGED incident /\ schedule' = [s EXCEPT !.paused = TRUE, !.next = "none"]
        \/ /\ Admissible(s)
           /\ \E i \in Incident : /\ IsNew(i) /\ Begin(i, "scheduled")
                                  /\ schedule' = [s EXCEPT !.active = i, !.next = "none"]
    BY <1>3 DEF Admit
  <2>2. ASSUME schedule' = [s EXCEPT !.paused = TRUE, !.next = "none"]
        PROVE  schedule'.active = s.active /\ schedule'.handled = s.handled
                 /\ schedule'.fresh = s.fresh /\ (s.paused => schedule'.paused)
    BY <1>2, <2>2 DEF ScheduleRow
  <2>3. QED BY <1>4, <1>5, <1>6, <2>1, <2>2 DEF Admissible

\* What becomes of one incident that is not complete.
LEMMA IncidentKeeps ==
  ASSUME IInv, ScheduleTypeOK', NEW i \in Incident, Ongoing(i),
         \A j \in Incident : j # i => incident'[j] = incident[j],
         incident'[i].status \in {"active", "stopped", "complete"},
         incident'[i].terminated => incident'[i].status = "complete",
         \/ /\ schedule' = Bumped(i)
            /\ \/ unseen' = unseen \ {i}
               \/ unseen' = unseen \cup {i} /\ Stopped(i)'
         \/ /\ UNCHANGED schedule
            /\ incident'[i].status = "stopped" /\ unseen' \in {unseen, unseen \cup {i}}
  PROVE  IInv'
<1> USE DEF IInv, ScheduleTypeOK
<1>1. Order'
  BY DEF Order, Ongoing, Complete, Incident
<1>2. TerminatedIsComplete'
  BY DEF TerminatedIsComplete, Complete
<1>3. /\ schedule'.active = schedule.active /\ schedule'.handled = schedule.handled
      /\ schedule'.fresh => schedule.fresh /\ (schedule.handled # i \/ incident'[i].status = "stopped")
  BY DEF Bumped, ScheduleRow
<1>4. Known'
  BY <1>3 DEF Known, ScheduleRow
<1>5. HandledIsLinked'
  BY <1>3 DEF HandledIsLinked, Ongoing, ScheduleRow
<1>6. UnseenStands'
  BY DEF UnseenStands, Stopped
<1>7. schedule.handled = i => schedule.active = i /\ i # NoIncident
  BY SchedulesAssumption DEF HandledIsLinked, Incident
<1>8. LooseIsSeen'
  BY <1>3, <1>7 DEF LooseIsSeen, HandledIsComplete, Complete, ScheduleRow
<1>9. FreshIsSeen'
  BY <1>3 DEF FreshIsSeen, HandledIsComplete, Complete, ScheduleRow
<1>10. QED BY <1>1, <1>2, <1>4, <1>5, <1>6, <1>8, <1>9

LEMMA RunKeeps ==
  ASSUME IInv, ScheduleTypeOK', NEW i \in Incident, Run(i)
  PROVE  IInv'
<1> USE DEF IInv, ScheduleTypeOK, IncidentRow
<1>1. CASE ~Ongoing(i)
  <2>1. UNCHANGED <<schedule, incident, unseen>>
    BY <1>1 DEF Run
  <2>2. QED
    BY <2>1, SameIncidents
      DEF Known, HandledIsLinked, LooseIsSeen, FreshIsSeen, HandledIsComplete, Ongoing, Complete
<1>2. CASE Ongoing(i)
  <2>1. ~incident[i].terminated
    BY <1>2 DEF TerminatedIsComplete, Ongoing, Complete
  <2>2. ASSUME NEW st \in {"active", "stopped", "complete"}, Goes(i, st)
        PROVE  /\ \A j \in Incident : j # i => incident'[j] = incident[j]
               /\ incident'[i].status = st /\ ~incident'[i].terminated
    BY <2>1, <2>2 DEF Goes
  <2>3. CASE Proceeds(i)
    BY <1>2, <2>2, <2>3, IncidentKeeps DEF Proceeds
  <2>4. CASE Stops(i)
    BY <1>2, <2>2, <2>4, IncidentKeeps DEF Stops, Stopped
  <2>5. CASE Repeats(i) \/ ExhaustsQuietly(i)
    BY <1>2, <2>2, <2>5, IncidentKeeps DEF Repeats, ExhaustsQuietly
  <2>6. QED BY <1>2, <2>3, <2>4, <2>5 DEF Run
<1>3. QED BY <1>1, <1>2

LEMMA RequestKeeps ==
  ASSUME IInv, ScheduleTypeOK', NEW i \in Incident, Pause(i) \/ ResumeIncident(i) \/ Terminate(i)
  PROVE  IInv'
<1> USE DEF IInv, ScheduleTypeOK, IncidentRow
<1>1. Ongoing(i)
  BY DEF Pause, ResumeIncident, Terminate, Ongoing
<1>2. \A j \in Incident : j # i => incident'[j] = incident[j]
  BY DEF Pause, ResumeIncident, Terminate
<1>3. ~incident[i].terminated
  BY <1>1 DEF TerminatedIsComplete, Ongoing, Complete
<1>4. CASE Pause(i)
  BY <1>1, <1>2, <1>3, <1>4, IncidentKeeps DEF Pause, Stopped
<1>5. CASE ResumeIncident(i)
  BY <1>1, <1>2, <1>3, <1>5, IncidentKeeps DEF ResumeIncident
<1>6. CASE Terminate(i)
  BY <1>1, <1>2, <1>6, IncidentKeeps DEF Terminate, Stopped
<1>7. QED BY <1>4, <1>5, <1>6

LEMMA StartKeeps ==
  ASSUME IInv, ScheduleTypeOK', NEW i \in Incident, StartOther(i)
  PROVE  IInv'
<1> USE DEF IInv, ScheduleTypeOK
<1>1. /\ \A j \in Incident : j # i => incident'[j] = incident[j]
      /\ incident'[i].status = "active" /\ ~incident'[i].terminated
      /\ UNCHANGED <<schedule, unseen>>
  BY DEF StartOther, Begin
<1>2. i \notin unseen /\ schedule.handled # i
  BY SchedulesAssumption DEF StartOther, UnseenStands, Stopped, TerminatedIsComplete, Complete, IsNew, Incident, Known
<1>3. Order'
  BY <1>1 DEF StartOther, Order, IsNew, Complete, Incident
<1>4. TerminatedIsComplete' /\ UnseenStands'
  BY <1>1, <1>2 DEF TerminatedIsComplete, UnseenStands, Complete, Stopped
<1>5. Known' /\ HandledIsLinked' /\ LooseIsSeen' /\ FreshIsSeen'
  BY <1>1, <1>2 DEF Known, HandledIsLinked, LooseIsSeen, FreshIsSeen, HandledIsComplete,
    Ongoing, Complete, ScheduleRow
<1>6. QED BY <1>3, <1>4, <1>5

LEMMA ResetKeeps ==
  ASSUME IInv, ScheduleTypeOK', Reset
  PROVE  IInv'
<1> USE DEF IInv, ScheduleTypeOK
<1> DEFINE touched == {i \in Incident : incident[i].status # "none"}
<1>1. /\ \A i \in touched : incident'[i].status = "complete" /\ incident'[i].terminated
      /\ \A i \in Incident \ touched : incident'[i] = incident[i]
      /\ schedule'.active = schedule.active /\ schedule'.handled = schedule.handled
      /\ schedule'.fresh => schedule.handled \notin touched
      /\ unseen' = unseen \cup {i \in touched : ~Accounted(i)}
  <2>1. /\ \A i \in touched : incident'[i].status = "complete" /\ incident'[i].terminated
        /\ \A i \in Incident \ touched : incident'[i] = incident[i]
    <3>1. incident' = [i \in Incident |->
            IF i \in touched THEN [incident[i] EXCEPT !.status = "complete", !.terminated = TRUE]
                             ELSE incident[i]]
      BY DEF Reset
    <3>2. \A i \in Incident : incident[i] \in IncidentRow
      OBVIOUS
    <3> HIDE DEF touched, IInv, ScheduleTypeOK
    <3>3. ASSUME NEW i \in touched, touched \subseteq Incident
          PROVE  incident'[i].status = "complete" /\ incident'[i].terminated
      BY <3>1, <3>2, <3>3 DEF IncidentRow
    <3>4. touched \subseteq Incident
      BY DEF touched
    <3>5. QED BY <3>1, <3>3, <3>4
  <2>2. /\ schedule'.active = schedule.active /\ schedule'.handled = schedule.handled
        /\ schedule'.fresh => schedule.handled \notin touched
    BY DEF Reset, ScheduleRow
  <2>3. unseen' = unseen \cup {i \in touched : ~Accounted(i)}
    BY DEF Reset
  <2>4. QED BY <2>1, <2>2, <2>3
<1>2. Order' /\ TerminatedIsComplete'
  BY <1>1 DEF Order, TerminatedIsComplete, Complete
<1>3. unseen \subseteq touched
  BY DEF UnseenStands, Stopped, TerminatedIsComplete, Complete
<1>4. UnseenStands'
  BY <1>1, <1>3 DEF UnseenStands, Stopped
<1>5. Known' /\ HandledIsLinked'
  BY <1>1 DEF Known, HandledIsLinked, Ongoing, ScheduleRow
<1>6. schedule.handled # NoIncident => schedule.handled \in touched
  BY DEF Known, ScheduleRow
<1>7. schedule.handled # NoIncident /\ schedule.active = NoIncident
        => Complete(schedule.handled) /\ schedule.handled \notin unseen
  BY <1>6 DEF HandledIsLinked, Ongoing, Complete, LooseIsSeen, HandledIsComplete, IncidentRow
<1>8. LooseIsSeen'
  BY <1>1, <1>6, <1>7 DEF LooseIsSeen, HandledIsComplete, Complete, Accounted
<1>9. FreshIsSeen'
  BY <1>1, <1>6 DEF FreshIsSeen, HandledIsComplete
<1>10. QED BY <1>2, <1>4, <1>5, <1>8, <1>9

LEMMA NextKeeps == IInv /\ ScheduleTypeOK' /\ [ScheduleNext]_scheduleVars => IInv'
<1> SUFFICES ASSUME IInv, ScheduleTypeOK', [ScheduleNext]_scheduleVars PROVE IInv'
  OBVIOUS
<1>1. ASSUME UNCHANGED <<incident, unseen, schedule>> PROVE IInv'
  BY <1>1, SameIncidents
    DEF IInv, Known, HandledIsLinked, LooseIsSeen, FreshIsSeen, HandledIsComplete, Ongoing, Complete
<1>2. ASSUME TimePasses PROVE IInv'
  <2>1. UNCHANGED <<incident, unseen>> /\ schedule'.active = schedule.active
          /\ schedule'.handled = schedule.handled /\ schedule'.fresh = schedule.fresh
    BY <1>2 DEF TimePasses, IInv, ScheduleTypeOK, ScheduleRow
  <2>2. QED
    BY <2>1, SameIncidents
      DEF IInv, Known, HandledIsLinked, LooseIsSeen, FreshIsSeen, HandledIsComplete, Ongoing, Complete
<1>3. ASSUME NEW i \in Incident, Wake(i) \/ LoseJob(i) \/ Recover(i) PROVE IInv'
  BY <1>1, <1>3 DEF Wake, LoseJob, Recover
<1>4. CASE Hinder \/ SchedulerDies \/ UNCHANGED scheduleVars
  BY <1>1, <1>4 DEF Hinder, SchedulerDies, scheduleVars
<1>5. QED
  BY <1>2, <1>3, <1>4, UpdateKeeps, ResumeKeeps, ScanKeeps, RunKeeps, RequestKeeps, StartKeeps, ResetKeeps
    DEF ScheduleNext

LEMMA Invariance == ScheduleSpec => []IInv
<1>1. IInv /\ ScheduleTypeOK' /\ [ScheduleNext]_scheduleVars => IInv'
  BY NextKeeps
<1>2. QED BY IInvInit, ScheduleTypeCorrect, <1>1, PTL DEF ScheduleSpec

\* Only a scan begins a scheduled rotation, and then nothing else is going on.
LEMMA BeginsOnceSeen ==
  ASSUME IInv, [ScheduleNext]_scheduleVars, Begins
  PROVE  Latest \notin unseen \/ (schedule.active # NoIncident /\ schedule.active < Latest)
<1> USE DEF IInv, ScheduleTypeOK, IncidentRow
<1>1. PICK i \in Incident : /\ incident[i].status = "none" /\ incident'[i].status # "none"
                            /\ incident'[i].trigger = "scheduled"
  BY DEF Begins
<1>2. Scan
  <2>1. ASSUME NEW j \in Incident, Run(j) PROVE FALSE
    BY <1>1, <2>1 DEF Run, Ongoing, Proceeds, Stops, Repeats, ExhaustsQuietly, Goes
  <2>2. ASSUME NEW j \in Incident, StartOther(j) PROVE FALSE
    BY <1>1, <2>2 DEF StartOther, Begin
  <2>3. ASSUME NEW j \in Incident, Pause(j) \/ ResumeIncident(j) \/ Terminate(j) PROVE FALSE
    BY <1>1, <2>3 DEF Pause, ResumeIncident, Terminate, Ongoing
  <2>4. ASSUME NEW j \in Incident, Wake(j) \/ LoseJob(j) \/ Recover(j) PROVE FALSE
    BY <1>1, <2>4 DEF Wake, LoseJob, Recover
  <2>5. ASSUME Reset PROVE FALSE
    BY <1>1, <2>5 DEF Reset
  <2>6. QED
    BY <1>1, <2>1, <2>2, <2>3, <2>4, <2>5
      DEF ScheduleNext, scheduleVars, Update, Resume, Hinder, TimePasses, SchedulerDies
<1>3. PICK deadline \in {"later", "due"} : Admit(Reconciled(deadline))
  BY <1>2 DEF Scan
<1> DEFINE s == Reconciled(deadline)
<1>4. Admissible(s) /\ \E j \in Incident : IsNew(j)
  <2> HIDE DEF s
  <2>1. Admit(s)
    BY <1>3 DEF s
  <2>2. QED BY <1>1, <2>1 DEF Admit
<1>5. SUFFICES ASSUME Latest \in unseen, schedule.active # NoIncident => ~(schedule.active < Latest)
               PROVE  FALSE
  OBVIOUS
<1>6. Latest \in Incident /\ IsLatest(Latest)
  BY <1>5, LatestFacts, SchedulesAssumption DEF Incident
<1>7. Stopped(Latest) /\ Complete(Latest)
  BY <1>5, <1>6 DEF UnseenStands, IsLatest
<1>8. \A j \in Incident : ~Ongoing(j)
  BY <1>4 DEF Order, IsNew, Ongoing, Complete, Incident
<1>9. Subject = Latest
  <2>1. CASE schedule.active = NoIncident
    BY <1>8, <2>1 DEF Subject
  <2>2. CASE schedule.active # NoIncident
    <3>1. schedule.active \in Incident /\ Complete(schedule.active)
      BY <1>8, <2>2 DEF Known, Ongoing, Complete, ScheduleRow
    <3>2. schedule.active <= Latest
      BY <1>6, <3>1 DEF IsLatest
    <3>3. QED BY <1>5, <1>6, <2>2, <3>1, <3>2 DEF Subject, Incident
  <2>3. QED BY <2>1, <2>2
<1>10. Latest # NoIncident
  BY <1>6, SchedulesAssumption DEF Incident
<1>11. CASE schedule.active = NoIncident /\ schedule.handled = Latest
  BY <1>5, <1>7, <1>10, <1>11 DEF LooseIsSeen, HandledIsComplete
<1>12. CASE ~(schedule.active = NoIncident /\ schedule.handled = Latest)
  <2>1. s = AfterStop(Latest)
    BY <1>7, <1>9, <1>10, <1>12 DEF Reconciled
  <2>2. ~Handled(Latest)
    BY <1>5, <1>7, <1>10 DEF Handled, FreshIsSeen, HandledIsComplete
  <2>3. s.paused
    BY <2>1, <2>2 DEF AfterStop, ScheduleRow
  <2>4. QED BY <1>4, <2>3 DEF Admissible
<1>13. QED BY <1>11, <1>12

\* For any number of incidents and requests, a scheduled rotation does not begin
\* over a stop that is unseen (reconcileRotationSchedule and the scan).
THEOREM StopsAreSeen == ScheduleSpec => NoStartOverStop
<1>1. IInv /\ [ScheduleNext]_scheduleVars =>
        [Begins => Latest \notin unseen \/ (schedule.active # NoIncident /\ schedule.active < Latest)]_scheduleVars
  BY BeginsOnceSeen
<1>2. QED BY Invariance, <1>1, PTL DEF ScheduleSpec, NoStartOverStop

=============================================================================
