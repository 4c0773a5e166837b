--------------------------- MODULE LightsailSteps ---------------------------
(***************************************************************************)
(* The steps of Amazon Lightsail: a static address with the name of the    *)
(* attempt is allocated, the old one detached, the new one attached; or    *)
(* IPv6 is switched off and on again.  Every write is answered with the    *)
(* operations that will carry it out.                                      *)
(***************************************************************************)
EXTENDS Clouds

\* verifyOriginal: the old address is not at a foreign instance.
LightsailOriginal == place[Old] # "other"

\* verifyCandidate of a later step: the allocation that was applied, attached to
\* nothing foreign.
LightsailCandidate == SameCandidate /\ place[Candidate] # "other"

LightsailLook ==
  CASE Action = "lightsail.ipv6.disable" -> IF Old \in On THEN "write" ELSE "refuse"
    [] Action = "lightsail.ipv6.enable"  -> IF On = {} THEN "write" ELSE "refuse"
    [] Action = "lightsail.static-ip.allocate" ->
         IF kind = "dynamic" /\ On # {Old} THEN "refuse"
         ELSE IF Named # {} THEN "doubt"
         ELSE IF Old \in On THEN "write"
         ELSE IF place[Old] = "free" THEN "refuse" ELSE "doubt"
    [] Action = "lightsail.static-ip.detach" ->
         IF Gone(Old) \/ ~LightsailOriginal \/ ~LightsailCandidate THEN "doubt"
         ELSE IF Old \in On THEN "write" ELSE "found"
    [] Action = "lightsail.static-ip.attach" ->
         IF ~LightsailCandidate THEN "doubt"
         ELSE IF Candidate \in On THEN "found"
         ELSE IF kind = "dynamic" THEN IF On = {Old} THEN "write" ELSE "refuse"
         ELSE IF On # {} THEN "refuse"
         ELSE IF ~LightsailOriginal THEN "doubt" ELSE "write"
    [] Action = "lightsail.static-ip.release" ->
         IF Published \notin On THEN "doubt"
         ELSE IF Gone(Old) THEN "found"
         ELSE IF place[Old] = "free" THEN "write" ELSE "doubt"

\* Whether the resources that an observation reads are not the attempt's.  The
\* answer of an allocation says the name but not the address, so that without an
\* answer the name proves nothing.
LightsailDoubt ==
  CASE Action = "lightsail.static-ip.allocate" ->
         IF Named = {} THEN OperationStatus = "ready" /\ ~receipt.known
         ELSE ~receipt.known \/ place[TheNamed] = "other" \/ receipt.cand \notin Named \cup {Nothing}
    [] Action = "lightsail.static-ip.detach" ->
         ~LightsailOriginal \/ ~LightsailCandidate \/ (OperationStatus = "ready" /\ Gone(Old))
    [] Action = "lightsail.static-ip.attach" ->
         IF Named = {} THEN OperationStatus = "ready" /\ ~receipt.known ELSE ~LightsailCandidate
    [] Action = "lightsail.static-ip.release" -> place[Old] \in {"slot", "other"}
    [] OTHER -> FALSE

LightsailDone ==
  CASE Action = "lightsail.ipv6.disable" -> On = {}
    [] Action = "lightsail.ipv6.enable"  -> On # {}
    [] Action = "lightsail.static-ip.allocate" -> Named # {}
    [] Action = "lightsail.static-ip.detach"   -> Old \notin On
    [] Action = "lightsail.static-ip.attach"   -> Candidate \in On

\* An operation that failed makes the observation fail; that of a release, whose
\* result is looked at first, allows another try.
LightsailObserve ==
  IF Action = "lightsail.static-ip.release"
    THEN IF Gone(Old) THEN "applied" ELSE IF LightsailDoubt THEN "ambiguous"
         ELSE IF OperationStatus = "failed" THEN "not_applied" ELSE "pending"
    ELSE IF OperationStatus = "failed" THEN "error" ELSE IF LightsailDoubt THEN "ambiguous"
         ELSE IF OperationStatus = "ready" /\ LightsailDone THEN "applied" ELSE "pending"

LightsailFinds ==
  CASE Action = "lightsail.ipv6.enable" /\ On # {} -> CHOOSE x \in On : TRUE
    [] Action = "lightsail.static-ip.allocate" /\ Named # {} -> TheNamed
    [] Action = "lightsail.static-ip.attach" -> Candidate
    [] OTHER -> receipt.cand
=============================================================================
