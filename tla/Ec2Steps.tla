------------------------------ MODULE Ec2Steps ------------------------------
(***************************************************************************)
(* The steps of Amazon EC2: an elastic address is allocated with the tags  *)
(* of the attempt and associated, an automatic address is switched off and *)
(* on again, an IPv6 address is added to the interface.                    *)
(***************************************************************************)
EXTENDS Clouds

\* What a step finds before it writes: it sends its call ("write"), it returns
\* what is there already ("found"), it fails with an error that proves that
\* nothing was written ("refuse"), or with one that does not ("doubt").
Ec2Look ==
  CASE Action = "ec2.auto-ipv4.disable" -> IF On = {Old} THEN "write" ELSE "refuse"
    [] Action = "ec2.auto-ipv4.enable"  -> IF On = {} THEN "write" ELSE "refuse"
    [] Action = "ec2.eip.allocate" ->
         IF Named # {}
           THEN IF Cardinality(Named) = 1 /\ place[TheNamed] # "other" THEN "found" ELSE "doubt"
           ELSE IF Old \in On THEN "write" ELSE "refuse"
    [] Action = "ec2.eip.associate" ->
         IF ~SameCandidate \/ place[Candidate] = "other" THEN "doubt"
         ELSE IF Candidate \in On THEN "found"
         ELSE IF Old \in On THEN "write" ELSE "refuse"
    [] Action = "ec2.ipv6.assign" -> IF Old \in On THEN "write" ELSE "refuse"
    [] Action = "ec2.ipv6.unassign" ->
         IF Published \notin On THEN "refuse" ELSE IF Old \in On THEN "write" ELSE "found"
    [] Action = "ec2.eip.release" ->
         IF Published \notin On THEN "refuse" ELSE IF place[Old] = "free" THEN "write" ELSE "doubt"

\* Mutant of Unnamed: no resource with the tags means that none was made.
UnnamedUnmade == IF receipt.known THEN "pending" ELSE "not_applied"

\* allocationResult: no resource with the tags, which may be seen later than the
\* answer, proves nothing about a call without an answer.
Unnamed == IF receipt.known THEN "pending" ELSE "ambiguous"

\* What an observation of the step reports.
Ec2Observe ==
  CASE Action = "ec2.auto-ipv4.disable" -> IF On = {} THEN "applied" ELSE "pending"
    [] Action = "ec2.auto-ipv4.enable"  -> IF On # {} THEN "applied" ELSE "pending"
    [] Action = "ec2.ipv6.assign" ->
         IF receipt.cand = Nothing THEN "ambiguous" ELSE IF receipt.cand \in On THEN "applied" ELSE "pending"
    [] Action = "ec2.ipv6.unassign" -> IF Old \in On THEN "pending" ELSE "applied"
    [] Action = "ec2.eip.release"   -> IF Gone(Old) THEN "applied" ELSE "pending"
    [] Action = "ec2.eip.allocate" ->
         IF Named = {} THEN Unnamed
         ELSE IF Cardinality(Named) > 1 \/ place[TheNamed] = "other" \/ receipt.cand \notin Named \cup {Nothing} THEN "ambiguous"
         ELSE "applied"
    [] Action = "ec2.eip.associate" ->
         IF ~SameCandidate \/ place[Candidate] = "other" THEN "ambiguous"
         ELSE IF Candidate \in On THEN "applied" ELSE "pending"

\* The candidate an observation finds.
Ec2Finds ==
  CASE Action = "ec2.auto-ipv4.enable" /\ On # {} -> CHOOSE x \in On : TRUE
    [] Action = "ec2.eip.allocate" /\ Named # {} -> TheNamed
    [] Action = "ec2.eip.associate" -> Candidate
    [] OTHER -> receipt.cand
=============================================================================
