----------------------------- MODULE AzureSteps -----------------------------
(***************************************************************************)
(* The steps of Azure: a public address with a name derived from the       *)
(* attempt is created, the configuration of the interface is rewritten to  *)
(* point to it, and the old address is deleted.                            *)
(***************************************************************************)
EXTENDS Clouds

AzurePublished == Published \in On

\* context: while an address is rotated, the configuration points to the old one
\* or to the one with the attempt's name; afterwards to the published one.
AzureBinding == IF Cleaning THEN AzurePublished ELSE On # {} /\ On \subseteq Named \cup {Old}

\* checkCandidateIdentity, with the receipt of the allocation once there is one.
AzureCandidate == SameCandidate /\ place[Candidate] # "other"

\* cleanupOwnership, checkOld: the old address, which nothing is bound to.
AzureReleasable == place[Old] = "free"

AzureLook ==
  IF ~AzureBinding THEN "doubt" ELSE
  CASE Action = "azure.public-ip.allocate" ->
         IF Old \notin On THEN "doubt"
         ELSE IF Named = {} THEN "write"
         ELSE IF place[TheNamed] = "other" THEN "doubt" ELSE "found"
    [] Action = "azure.public-ip.associate" ->
         IF Gone(Old) \/ ~AzureCandidate THEN "doubt"
         ELSE IF Candidate \in On THEN IF place[Old] = "free" THEN "found" ELSE "doubt"
         ELSE IF Old \in On /\ place[Candidate] = "free" THEN "write" ELSE "doubt"
    [] Action = "azure.public-ip.delete" ->
         IF Gone(Old) THEN "found" ELSE IF AzureReleasable THEN "write" ELSE "doubt"

\* A missing candidate is never taken for a write that was not made: the write may
\* still be on its way.
AzureRotated ==
  IF ~AzureBinding \/ Named = {} \/ place[TheNamed] = "other" THEN "ambiguous"
  ELSE IF Action = "azure.public-ip.allocate" THEN IF Gone(Old) THEN "ambiguous" ELSE "applied"
  ELSE IF ~AzureCandidate THEN "ambiguous"
  ELSE IF Old \in On /\ place[Candidate] = "free" THEN "pending"
  ELSE IF Candidate \in On /\ place[Old] = "free" THEN "applied" ELSE "ambiguous"

AzureDeleted ==
  IF ~AzureBinding THEN "ambiguous" ELSE IF Gone(Old) THEN "applied" ELSE IF ~AzureReleasable THEN "ambiguous"
  ELSE IF OperationStatus = "failed" THEN "not_applied" ELSE "pending"

AzureObserve ==
  IF Action = "azure.public-ip.delete" THEN AzureDeleted
  ELSE IF OperationStatus = "failed" THEN "error"
  ELSE IF OperationStatus = "pending" THEN "pending" ELSE AzureRotated

AzureFinds ==
  CASE Action = "azure.public-ip.allocate" /\ Named # {} -> TheNamed
    [] Action = "azure.public-ip.delete" -> Published
    [] OTHER -> Candidate
=============================================================================
