----------------------------- MODULE LinodeSteps -----------------------------
(***************************************************************************)
(* The steps of Linode: an address is added and the guest restarted, or    *)
(* the address of a temporary instance is swapped in.  A power action has  *)
(* no answer of its own: it is found as the one event of its kind after    *)
(* the newest event that was there before it, the watermark.               *)
(***************************************************************************)
EXTENDS Clouds

PowerActions == {"linode.instance.reboot", "linode.instance.stop", "linode.instance.start"}
PowerEvent == CASE Action = "linode.instance.reboot" -> "reboot"
                [] Action = "linode.instance.stop"   -> "stop"
                [] Action = "linode.instance.start"  -> "start"
PowerBefore == IF Action = "linode.instance.start" THEN "offline" ELSE "running"
\* Mutant of PowerAfter: the guest of an event that has finished runs.
AlwaysRunning == "running"
PowerAfter == IF Action = "linode.instance.stop" THEN "offline" ELSE "running"

\* watermark: of the receipt, of the event that a retry follows, of the first
\* shutdown among the receipts, of the release in a cleanup, of the allocation or
\* the swap else.  (A cleanup is given the receipts of the rotation as well.)
Shutdowns == {i \in 1 .. at - 1 : Plan[i] = "linode.instance.stop"}
Watermark ==
  IF receipt.known THEN receipt.mark
  ELSE IF retry > 0 THEN retry
  ELSE IF kind = "stopped" /\ Shutdowns # {} THEN past[CHOOSE i \in Shutdowns : \A j \in Shutdowns : i <= j].event
  ELSE past[IF Cleaning THEN at - 1 ELSE IF kind = "swap" THEN 2 ELSE 1].mark

\* The guest was started with the addresses a power action is about.
Assigned ==
  IF Cleaning THEN Published \in On /\ Gone(Old)
  ELSE Candidate \in On /\ (kind = "swap" \/ Old \in On)

LinodeLook ==
  IF power # PowerBefore THEN "refuse" ELSE
  CASE Action = "linode.ipv4.allocate" -> IF On = {Old} THEN "write" ELSE "doubt"
    [] Action = "linode.ipv4.release"  -> IF {Published, Old} \subseteq On THEN "write" ELSE "doubt"
    [] Action \in PowerActions -> IF ~Assigned THEN "doubt" ELSE IF Len(log) = Watermark THEN "write" ELSE "refuse"

\* Mutant of Answers: every event of the kind.
AnswersEver == {e \in 1 .. Len(log) : log[e].what = PowerEvent}
Answers == {e \in 1 .. Len(log) : e > Watermark /\ log[e].what = PowerEvent}
TheAnswer == CHOOSE e \in Answers : TRUE

PowerObserve ==
  IF Answers = {} THEN "pending"
  ELSE IF Cardinality(Answers) > 1 \/ ~log[TheAnswer].mine \/ receipt.event \notin Answers \cup {0} THEN "ambiguous"
  ELSE IF log[TheAnswer].how = "failed"
    THEN IF Cleaning \/ power # PowerBefore THEN "error" ELSE "not_applied"
  ELSE IF log[TheAnswer].how = "finished" /\ power = PowerAfter THEN "applied" ELSE "pending"

\* Mutant of Added: an allocation without an answer is tried again.
AddedAgain == IF receipt.known /\ receipt.cand \in On THEN "applied" ELSE IF receipt.known THEN "ambiguous" ELSE "not_applied"

\* Only the answer of an allocation says which address it has given.
Added == IF receipt.known /\ receipt.cand \in On THEN "applied" ELSE "ambiguous"

LinodeObserve ==
  CASE Action = "linode.ipv4.allocate" -> Added
    [] Action = "linode.ipv4.release" ->
         IF Published \notin On THEN "ambiguous"
         ELSE IF Old \in On THEN "pending" ELSE IF Gone(Old) THEN "applied" ELSE "ambiguous"
    [] Action \in PowerActions ->
         IF (IF Cleaning THEN Published \notin On \/ ~Gone(Old) ELSE Candidate \notin On) THEN "ambiguous" ELSE PowerObserve

\* pairState: who has the old address and who has that of the temporary instance.
PairState ==
  IF helper # "offline" \/ Candidate = Nothing THEN "ambiguous"
  ELSE IF On = {Old} /\ place[Candidate] = "helper" THEN "before"
  ELSE IF On = {Candidate} /\ place[Old] = "helper" THEN "after" ELSE "ambiguous"

SwapLook ==
  IF Action = "linode.swap.delete"
    THEN IF Published \in On /\ helper = "offline" /\ place[Old] = "helper" THEN "write" ELSE "doubt"
  ELSE IF power # PowerBefore THEN "refuse" ELSE
  CASE Action = "linode.swap.allocate" -> IF On = {Old} THEN "write" ELSE "doubt"
    [] Action = "linode.ipv4.swap"     -> IF PairState = "before" THEN "write" ELSE "doubt"
    [] Action \in PowerActions ->
         IF PairState # "after" THEN "doubt" ELSE IF Len(log) = Watermark THEN "write" ELSE "refuse"

SwapObserve ==
  CASE Action = "linode.swap.allocate" ->
         IF ~receipt.known \/ On # {Old} \/ helper = "none" THEN "ambiguous"
         ELSE IF helper = "provisioning" THEN "pending" ELSE "applied"
    [] Action = "linode.ipv4.swap" ->
         CASE PairState = "after" -> "applied" [] PairState = "before" -> "pending" [] OTHER -> "ambiguous"
    [] Action = "linode.swap.delete" ->
         IF Published \notin On \/ Old \in On THEN "ambiguous"
         ELSE IF helper = "none" THEN IF Gone(Old) THEN "applied" ELSE "ambiguous"
         ELSE IF helper = "deleting" \/ place[Old] = "helper" THEN "pending" ELSE "ambiguous"
    [] Action \in PowerActions -> IF PairState # "after" THEN "ambiguous" ELSE PowerObserve

\* The candidate, the watermark and the event an observation writes.
LinodeFinds ==
  IF Action = "linode.swap.allocate" THEN IF helper = "offline" THEN CHOOSE x \in Address : place[x] = "helper" ELSE Nothing
  ELSE IF Action = "linode.ipv4.allocate" THEN receipt.cand
  ELSE IF Cleaning THEN Published ELSE Candidate
LinodeMark ==
  IF Action \in PowerActions THEN Watermark
  ELSE IF Action \in {"linode.ipv4.release", "linode.ipv4.swap"} THEN Len(log) ELSE receipt.mark
LinodeEvent == IF Action \in PowerActions /\ Answers # {} THEN TheAnswer ELSE receipt.event
=============================================================================
