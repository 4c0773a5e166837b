---------------------------- MODULE Probes_proofs ----------------------------
(***************************************************************************)
(* The health of an endpoint is what its newest rounds say, an address is  *)
(* promoted on that ground only, and the pool has been told of it: for any *)
(* number of probes, addresses, rounds and edits.                          *)
(*                                                                         *)
(* A streak is compared with the newest rounds of its address.  That a     *)
(* round which is closed is newer than all that were counted rests on the  *)
(* order in which rounds are created (RoundsInOrder) and on the number of  *)
(* the round applied last (AppliedIsNewest); that no round of another      *)
(* policy or group is counted, on the revisions that evidence may carry    *)
(* (EpochsAreKnown).  What the pool is told is compared with the address   *)
(* itself, while a local result continues the streak of its evidence: the  *)
(* two say the same (EvidenceIsShown).                                     *)
(***************************************************************************)
EXTENDS Probes, FiniteSetTheorems, WellFoundedInduction, TLAPS

\* Addresses and rounds are numbered in the order of their creation.
RowsInOrder == Reported = 1 .. Cardinality(Reported)

Created == {n \in Round : rounds[n].status # "none"}
RoundsInOrder == Created = 1 .. Cardinality(Created)

OneEach ==
  \A a, b \in Row : address[a].role \in {"candidate", "current"} /\ address[b].role = address[a].role
                      => a = b

UnreportedIsBlank == \A a \in Row : address[a].role = "none" => evidence[a].streak = NoStreak

EvidenceIsShown ==
  policy.mode # "none" =>
    \A a \in Row : evidence[a].streak.health \in {"healthy", "unhealthy"} =>
                     address[a].streak.health = evidence[a].streak.health

AppliedIsNewest ==
  \A n \in Round : rounds[n].status = "completed" =>
    rounds[n].row \in Row /\ n <= evidence[rounds[n].row].applied

EpochsAreKnown ==
  \A a \in Row : /\ evidence[a].epoch.policy <= policy.revision
                 /\ evidence[a].epoch.group <= group.revision

\* StreaksAreRounds for all addresses, those that are no target any more as well.
EveryStreakIsRounds ==
  \A a \in Row, k \in Nat : Remote /\ evidence[a].epoch = Epoch =>
    /\ evidence[a].streak.good = k => EndsWith(a, k, "success")
    /\ evidence[a].streak.bad = k => EndsWith(a, k, "failure")

Orders == RowsInOrder /\ RoundsInOrder /\ OneEach
IInv ==
  /\ TypeOK /\ Orders /\ UnreportedIsBlank /\ EvidenceIsShown
  /\ AppliedIsNewest /\ EpochsAreKnown /\ EveryStreakIsRounds /\ PoolIsTold

-----------------------------------------------------------------------------
(* The operators of the streaks.                                           *)

LEMMA OneMoreType ==
  ASSUME NEW t \in Nat \ {0}, NEW n \in 0 .. t
  PROVE  OneMore(n, t) \in 0 .. t
BY DEF OneMore

LEMMA NoStreakType == NoStreak \in Streak
BY ProbesAssumption DEF NoStreak, Streak, HealthState

LEMMA SucceedType ==
  ASSUME NEW s \in Streak
  PROVE  /\ Succeed(s) \in Streak /\ Succeed(s).bad = 0
         /\ Succeed(s).good = OneMore(s.good, SuccessThreshold)
<1>1. OneMore(s.good, SuccessThreshold) \in 0 .. SuccessThreshold
  BY OneMoreType, ProbesAssumption DEF Streak
<1>2. 0 \in 0 .. FailureThreshold
  BY ProbesAssumption
<1>3. QED BY <1>1, <1>2 DEF Succeed, Streak, HealthState

LEMMA FailType ==
  ASSUME NEW s \in Streak
  PROVE  /\ Fail(s) \in Streak /\ Fail(s).good = 0
         /\ Fail(s).bad = OneMore(s.bad, FailureThreshold)
<1>1. OneMore(s.bad, FailureThreshold) \in 0 .. FailureThreshold
  BY OneMoreType, ProbesAssumption DEF Streak
<1>2. 0 \in 0 .. SuccessThreshold
  BY ProbesAssumption
<1>3. QED BY <1>1, <1>2 DEF Fail, Streak, HealthState

LEMMA AdvanceType ==
  ASSUME NEW s \in Streak, NEW result \in Outcome \cup {"unknown"}
  PROVE  Advance(s, result) \in Streak
<1>1. [s EXCEPT !.good = 0, !.bad = 0] \in Streak
  <2>1. 0 \in 0 .. SuccessThreshold /\ 0 \in 0 .. FailureThreshold
    BY ProbesAssumption
  <2>2. QED BY <2>1 DEF Streak
<1>2. QED BY <1>1, SucceedType, FailType, Zenon DEF Advance, Outcome

LEMMA EvaluateType ==
  ASSUME NEW cohort, NEW vote
  PROVE  Evaluate(cohort, vote) \in Outcome \cup {"unknown"}
BY DEF Evaluate, Outcome

-----------------------------------------------------------------------------
(* What the pool is told.                                                  *)

LEMMA TellNone ==
  ASSUME NEW changed, \A b \in Row : changed[b].role # "current", Tell(changed)
  PROVE  told' = [row |-> NoRow, health |-> "unknown"]
BY DEF Tell

LEMMA TellOne ==
  ASSUME NEW changed, NEW a \in Row, changed[a].role = "current",
         \A b \in Row : changed[b].role = "current" => b = a, Tell(changed)
  PROVE  told' = [row |-> a, health |-> changed[a].streak.health]
<1>1. (CHOOSE b \in Row : changed[b].role = "current") = a
  OBVIOUS
<1>2. \E b \in Row : changed[b].role = "current"
  OBVIOUS
<1>3. QED BY <1>1, <1>2, Zenon DEF Tell

LEMMA TellType ==
  ASSUME NEW changed \in [Row -> AddressRow], Tell(changed)
  PROVE  told' \in [row : Row \cup {NoRow}, health : HealthState]
<1>1. CASE \E b \in Row : changed[b].role = "current"
  <2>1. (CHOOSE b \in Row : changed[b].role = "current") \in Row
    BY <1>1
  <2> DEFINE a == CHOOSE b \in Row : changed[b].role = "current"
  <2>2. told' = [row |-> a, health |-> changed[a].streak.health]
    BY <1>1, Zenon DEF Tell
  <2> HIDE DEF a
  <2>3. changed[a].streak.health \in HealthState
    BY <2>1 DEF AddressRow, Streak, a
  <2>4. QED BY <2>1, <2>2, <2>3 DEF a
<1>2. CASE ~\E b \in Row : changed[b].role = "current"
  BY <1>2, TellNone DEF HealthState
<1>3. QED BY <1>1, <1>2

-----------------------------------------------------------------------------
(* The end of a candidacy.                                                 *)

Promotes(a, s, promotable) == address[a].role = "candidate" /\ s.health = "healthy" /\ promotable

\* Settle, address by address.
LEMMA SettleRows ==
  ASSUME TypeOK, NEW a \in Row, NEW old, NEW s \in Streak, NEW p, Settle(a, old, s, p)
  PROVE  /\ address' \in [Row -> AddressRow]
         /\ address'[a].streak = s
         /\ \A b \in Row : /\ b # a => address'[b].streak = address[b].streak
                           /\ address'[b].value = address[b].value
         /\ Promotes(a, s, p) =>
              /\ address'[a].role = "current"
              /\ \A b \in Row \ {a} : address'[b].role =
                   IF address[b].role = "current" THEN "previous" ELSE address[b].role
         /\ ~Promotes(a, s, p) => \A b \in Row : address'[b].role = address[b].role
<1>0. address \in [Row -> AddressRow]
  BY DEF TypeOK
<1> DEFINE role(b) == IF b = a /\ Promotes(a, s, p) THEN "current"
                      ELSE IF Promotes(a, s, p) /\ address[b].role = "current" THEN "previous"
                      ELSE address[b].role
<1>1. address' = [b \in Row |->
         [address[b] EXCEPT !.streak = IF b = a THEN s ELSE @, !.role = role(b)]]
  BY DEF Settle, Promotes
<1>2. \A b \in Row : role(b) \in {"none", "candidate", "current", "previous"}
  BY <1>0 DEF AddressRow
<1>3. \A b \in Row : /\ address'[b] \in AddressRow
                     /\ address'[b].streak = (IF b = a THEN s ELSE address[b].streak)
                     /\ address'[b].value = address[b].value
                     /\ address'[b].role = role(b)
  <2> SUFFICES ASSUME NEW b \in Row
               PROVE  /\ address'[b] \in AddressRow
                      /\ address'[b].streak = (IF b = a THEN s ELSE address[b].streak)
                      /\ address'[b].value = address[b].value
                      /\ address'[b].role = role(b)
    OBVIOUS
  <2>1. PICK r \in {"none", "candidate", "current", "previous"} : r = role(b)
    BY <1>2
  <2>2. PICK t \in Streak : t = IF b = a THEN s ELSE address[b].streak
    BY <1>0 DEF AddressRow
  <2>3. address'[b] = [address[b] EXCEPT !.streak = t, !.role = r]
    BY <1>1, <2>1, <2>2
  <2> HIDE DEF role
  <2>4. \A x \in AddressRow : LET y == [x EXCEPT !.streak = t, !.role = r]
                             IN  y \in AddressRow /\ y.streak = t /\ y.role = r /\ y.value = x.value
    BY <2>1, <2>2 DEF AddressRow
  <2>5. address[b] \in AddressRow
    BY <1>0
  <2>6. QED BY <2>1, <2>2, <2>3, <2>4, <2>5
<1>4. address' \in [Row -> AddressRow]
  BY <1>1, <1>3
<1>5. QED BY <1>3, <1>4

\* Settle, towards the pool.
LEMMA SettleTold ==
  ASSUME NEW a \in Row, NEW old, NEW s \in Streak, NEW p, Settle(a, old, s, p)
  PROVE  IF Promotes(a, s, p) \/ (address[a].role # "candidate" /\ Notable(old, s))
         THEN Tell(address') ELSE UNCHANGED told
BY DEF Settle, Promotes

LEMMA SettleTypes ==
  ASSUME TypeOK, NEW a \in Row, NEW old, NEW s \in Streak, NEW p, Settle(a, old, s, p)
  PROVE  /\ address' \in [Row -> AddressRow]
         /\ told' \in [row : Row \cup {NoRow}, health : HealthState]
<1>1. address' \in [Row -> AddressRow]
  BY SettleRows
<1>2. CASE Tell(address')
  BY <1>1, <1>2, TellType
<1>3. CASE UNCHANGED told
  <2>1. told \in [row : Row \cup {NoRow}, health : HealthState]
    BY DEF TypeOK
  <2>2. QED BY <1>1, <1>3, <2>1
<1>4. QED BY <1>1, <1>2, <1>3, SettleTold

-----------------------------------------------------------------------------
(* Numbers in the order of creation.                                       *)

LEMMA IntervalSize == ASSUME NEW k \in Nat PROVE Cardinality(1 .. k) = k
BY FS_Interval

LEMMA InOrder ==
  ASSUME NEW N \in Nat, NEW S \in SUBSET (1 .. N), S = 1 .. Cardinality(S)
  PROVE  /\ Cardinality(S) \in Nat
         /\ \A n \in S : n <= Cardinality(S)
         /\ \A j \in {1, 2} : Cardinality(S) + j \notin S
<1>1. IsFiniteSet(S)
  <2>1. IsFiniteSet(1 .. N)
    BY FS_Interval
  <2>2. QED BY <2>1, FS_Subset
<1>2. Cardinality(S) \in Nat
  BY <1>1, FS_CardinalityType
<1> DEFINE k == Cardinality(S)
<1>3. S = 1 .. k /\ k \in Nat
  BY <1>2
<1> HIDE DEF k
<1>4. k \in Nat /\ (\A n \in S : n <= k) /\ \A j \in {1, 2} : k + j \notin S
  BY <1>3
<1>5. QED BY <1>4 DEF k

LEMMA RowsFacts ==
  ASSUME TypeOK, RowsInOrder
  PROVE  /\ Cardinality(Reported) \in Nat
         /\ Cardinality(Reported) + 1 \notin Reported
BY InOrder, ProbesAssumption DEF RowsInOrder, Reported, Row

LEMMA RoundsFacts ==
  ASSUME TypeOK, RoundsInOrder
  PROVE  /\ Last \in Nat /\ Last = Cardinality(Created)
         /\ \A n \in Created : n <= Last
<1>1. Created \in SUBSET (1 .. MaxRounds) /\ Created = 1 .. Cardinality(Created)
  BY DEF RoundsInOrder, Created, Round
<1>2. Last = Cardinality(Created)
  BY DEF Last, Created
<1>3. QED BY <1>1, <1>2, InOrder, ProbesAssumption

-----------------------------------------------------------------------------
(* A heartbeat, address by address.                                        *)

NewAddress(v) == [value |-> v, streak |-> NoStreak, role |-> "candidate"]
Put(a) == [address[a] EXCEPT !.role = "previous"]

LEMMA HeartbeatRows ==
  ASSUME TypeOK, RowsInOrder, NEW v \in Value \cup {NoValue}, Heartbeat(v)
  PROVE  \E new \in SUBSET {Cardinality(Reported) + 1} :
           /\ new \subseteq Row /\ (new # {} => v # NoValue)
           /\ address' \in [Row -> AddressRow]
           /\ \A a \in new : address[a].role = "none" /\ address'[a] = NewAddress(v)
           /\ \A a \in Row \ new :
                \/ address'[a] = address[a]
                \/ address'[a] = Put(a) /\ address[a].role = "candidate"
                \/ address'[a] = Put(a) /\ address[a].role = "current" /\ v = NoValue
           /\ new # {} => \A a \in Row : address[a].role = "candidate" => address'[a] = Put(a)
           /\ v = NoValue => \A a \in Row : address[a].role = "current" => address'[a] = Put(a)
           /\ IF v = NoValue /\ \E a \in Row : address[a].role = "current"
              THEN Tell(address') ELSE UNCHANGED told
<1> DEFINE kept == IF v = NoValue THEN {} ELSE {a \in In("current") : address[a].value = v}
           same == IF v = NoValue \/ kept # {} THEN {}
                   ELSE {a \in In("candidate") : address[a].value = v}
           left == In("candidate") \ same
           gone == IF v = NoValue THEN In("current") ELSE {}
           next == Cardinality(Reported) + 1
           new == IF v = NoValue \/ kept \cup same # {} THEN {} ELSE {next}
<1>1. /\ new \subseteq Row
      /\ address' = [a \in Row |->
           IF a \in new THEN NewAddress(v)
           ELSE IF a \in left \cup gone THEN Put(a)
           ELSE address[a]]
      /\ IF gone # {} THEN Tell(address') ELSE UNCHANGED told
  BY Zenon DEF Heartbeat, NewAddress, Put
<1>2. next \notin Reported
  BY RowsFacts
<1>3. /\ new \in SUBSET {next} /\ new \cap Reported = {}
      /\ new # {} => v # NoValue /\ same = {}
  BY <1>2
<1>4. /\ left \subseteq In("candidate") /\ (v # NoValue => gone = {})
      /\ (v = NoValue => gone = In("current")) /\ (new # {} => left = In("candidate"))
  BY <1>3
<1> HIDE DEF kept, same, left, gone, new
<1>5. \A a \in Row \ new :
        \/ address'[a] = address[a]
        \/ address'[a] = Put(a) /\ address[a].role = "candidate"
        \/ address'[a] = Put(a) /\ address[a].role = "current" /\ v = NoValue
  BY <1>1, <1>4 DEF In
<1>6. new # {} => \A a \in Row : address[a].role = "candidate" => address'[a] = Put(a)
  BY <1>1, <1>3, <1>4 DEF In, Reported
<1>7. v = NoValue => \A a \in Row : address[a].role = "current" => address'[a] = Put(a)
  BY <1>1, <1>3, <1>4 DEF In
<1>8. IF v = NoValue /\ \E a \in Row : address[a].role = "current"
      THEN Tell(address') ELSE UNCHANGED told
  BY <1>1, <1>4 DEF In
<1>9. \A a \in new : address[a].role = "none" /\ address'[a] = NewAddress(v)
  BY <1>1, <1>3 DEF Reported
<1>10. address' \in [Row -> AddressRow]
  <2>1. NewAddress(v) \in AddressRow
    BY NoStreakType DEF NewAddress, AddressRow
  <2>2. \A a \in Row : address[a] \in AddressRow /\ Put(a) \in AddressRow
    <3>1. \A x \in AddressRow : [x EXCEPT !.role = "previous"] \in AddressRow
      BY DEF AddressRow
    <3>2. address \in [Row -> AddressRow]
      BY DEF TypeOK
    <3>3. QED BY <3>1, <3>2 DEF Put
  <2>3. QED BY <1>1, <2>1, <2>2
<1>11. QED BY <1>1, <1>3, <1>5, <1>6, <1>7, <1>8, <1>9, <1>10

-----------------------------------------------------------------------------
(* Types.                                                                  *)

LEMMA NoRoundTypes ==
  /\ NoRound \in RoundRow /\ Superseded \in RoundRow /\ NoEpoch \in EpochSet
  /\ NoRound.status = "none"
  /\ Superseded.status = "superseded"
<1>1. NoEpoch \in EpochSet
  BY DEF NoEpoch, EpochSet
<1>2. NoRound \in RoundRow /\ NoRound.status = "none"
  BY <1>1 DEF NoRound, RoundRow, Task, Outcome
<1>3. \A x \in RoundRow : LET y == [x EXCEPT !.status = "superseded"]
                          IN  y \in RoundRow /\ y.status = "superseded"
  BY DEF RoundRow
<1>4. QED BY <1>1, <1>2, <1>3 DEF Superseded

LEMMA EpochType == ASSUME TypeOK PROVE Epoch \in EpochSet
BY DEF TypeOK, Epoch, EpochSet

LEMMA CompletedType ==
  ASSUME TypeOK, NEW n \in Round, NEW result \in Outcome \cup {"unknown"}
  PROVE  /\ Completed(n, result) \in RoundRow
         /\ Completed(n, result).status = "completed"
         /\ Completed(n, result).row = rounds[n].row
         /\ Completed(n, result).epoch = rounds[n].epoch
         /\ Completed(n, result).result = result
<1>1. PICK r \in Row \cup {NoRow}, e \in EpochSet : r = rounds[n].row /\ e = rounds[n].epoch
  BY DEF TypeOK, RoundRow
<1> DEFINE y == [NoRound EXCEPT !.status = "completed", !.row = r, !.epoch = e,
                                !.result = result]
<1>2. y \in RoundRow
  BY NoRoundTypes DEF RoundRow
<1>3. y.status = "completed" /\ y.row = r /\ y.epoch = e /\ y.result = result
  BY DEF NoRound
<1>4. Completed(n, result) = y
  BY <1>1, Zenon DEF Completed
<1> HIDE DEF y
<1>5. QED BY <1>1, <1>2, <1>3, <1>4

LEMMA NewRoundType ==
  ASSUME TypeOK, NEW a \in Row, NEW online
  PROVE  NewRound(a, online) \in RoundRow /\ NewRound(a, online).status = "pending"
<1>1. Epoch \in EpochSet
  BY EpochType
<1>2. CohortOf(policy.mode) \subseteq Probe \cup {Local}
  BY DEF CohortOf, TypeOK
<1>3. [p \in Probe |-> IF p \in online THEN "pending" ELSE "none"] \in [Probe -> Task]
  BY DEF Task
<1>4. QED BY <1>1, <1>2, <1>3 DEF NewRound, RoundRow

LEMMA ForgottenType ==
  ASSUME TypeOK
  PROVE  /\ Forgotten \in [Row -> EvidenceRow]
         /\ \A a \in Row : /\ Forgotten[a].streak = NoStreak
                           /\ Forgotten[a].epoch = evidence[a].epoch
                           /\ Forgotten[a].applied = evidence[a].applied
<1>1. \A x \in EvidenceRow : LET y == [x EXCEPT !.streak = NoStreak, !.live = FALSE]
                             IN  /\ y \in EvidenceRow /\ y.streak = NoStreak
                                 /\ y.epoch = x.epoch /\ y.applied = x.applied
  BY NoStreakType DEF EvidenceRow
<1>2. evidence \in [Row -> EvidenceRow]
  BY DEF TypeOK
<1>3. QED BY <1>1, <1>2 DEF Forgotten

LEMMA EventType == ASSUME TypeOK, Event PROVE events' \in 0 .. MaxEvents
BY ProbesAssumption DEF TypeOK, Event

LEMMA TypeInit == Init => TypeOK
<1> SUFFICES ASSUME Init PROVE TypeOK
  OBVIOUS
<1>1. policy \in [mode : Mode, revision : Nat] /\ group \in [members : SUBSET Probe, revision : Nat]
  BY ProbesAssumption DEF Init
<1>2. address \in [Row -> AddressRow]
  <2>1. [value |-> NoValue, streak |-> NoStreak, role |-> "none"] \in AddressRow
    BY NoStreakType DEF AddressRow
  <2>2. QED BY <2>1, Zenon DEF Init
<1>3. evidence \in [Row -> EvidenceRow]
  <2>1. 0 \in 0 .. MaxRounds
    BY ProbesAssumption
  <2>2. [epoch |-> NoEpoch, streak |-> NoStreak, applied |-> 0, live |-> FALSE] \in EvidenceRow
    BY <2>1, NoStreakType, NoRoundTypes DEF EvidenceRow
  <2>3. QED BY <2>2, Zenon DEF Init
<1>4. rounds \in [Round -> RoundRow]
  BY NoRoundTypes, Zenon DEF Init
<1>5. told \in [row : Row \cup {NoRow}, health : HealthState]
  BY DEF Init, HealthState
<1>6. events \in 0 .. MaxEvents /\ config \in Nat /\ active \subseteq Probe /\ checks = {}
  BY ProbesAssumption DEF Init
<1>7. QED BY <1>1, <1>2, <1>3, <1>4, <1>5, <1>6 DEF TypeOK

LEMMA UserTypes ==
  ASSUME TypeOK,
         \/ \E mode \in Mode \ {"none"} : SavePolicy(mode)
         \/ RemovePolicy \/ DeleteCheck \/ RestoreCheck
         \/ \E M \in SUBSET Probe : SetMembers(M)
         \/ \E p \in Probe : Revoke(p) \/ Enrol(p)
  PROVE  TypeOK'
<1>0. policy \in [mode : Mode, revision : Nat] /\ rounds \in [Round -> RoundRow]
  BY DEF TypeOK
<1>1. ASSUME NEW mode \in Mode \ {"none"}, SavePolicy(mode) PROVE TypeOK'
  <2>1. policy' \in [mode : Mode, revision : Nat]
    BY <1>0, <1>1 DEF SavePolicy
  <2>2. evidence' \in [Row -> EvidenceRow] /\ events' \in 0 .. MaxEvents
    BY <1>1, ForgottenType, EventType DEF SavePolicy
  <2>3. QED BY <1>1, <2>1, <2>2, Zenon DEF SavePolicy, TypeOK
<1>2. CASE RemovePolicy
  <2>1. policy' \in [mode : Mode, revision : Nat]
    BY <1>0, <1>2 DEF RemovePolicy, Mode
  <2>2. evidence' \in [Row -> EvidenceRow] /\ events' \in 0 .. MaxEvents
    BY <1>2, ForgottenType, EventType DEF RemovePolicy
  <2>3. rounds' \in [Round -> RoundRow]
    BY <1>0, <1>2, NoRoundTypes DEF RemovePolicy
  <2>4. QED BY <1>2, <2>1, <2>2, <2>3, Zenon DEF RemovePolicy, TypeOK
<1>3. CASE DeleteCheck
  <2>1. policy' \in [mode : Mode, revision : Nat]
    BY <1>0, <1>3 DEF DeleteCheck, Mode
  <2>2. config' \in Nat /\ events' \in 0 .. MaxEvents
    BY <1>3, EventType DEF DeleteCheck, TypeOK
  <2>3. rounds' \in [Round -> RoundRow]
    BY <1>0, <1>3, NoRoundTypes DEF DeleteCheck
  <2>4. QED BY <1>3, <2>1, <2>2, <2>3, Zenon DEF DeleteCheck, TypeOK
<1>4. CASE RestoreCheck
  <2>1. config' \in Nat /\ events' \in 0 .. MaxEvents
    BY <1>4, EventType DEF RestoreCheck, TypeOK
  <2>2. QED BY <1>4, <2>1, Zenon DEF RestoreCheck, TypeOK
<1>5. ASSUME NEW M \in SUBSET Probe, SetMembers(M) PROVE TypeOK'
  <2>1. group' \in [members : SUBSET Probe, revision : Nat]
    BY <1>5 DEF SetMembers, TypeOK
  <2>2. events' \in 0 .. MaxEvents
    BY <1>5, EventType DEF SetMembers
  <2>3. QED BY <1>5, <2>1, <2>2, Zenon DEF SetMembers, TypeOK
<1>6. ASSUME NEW p \in Probe, Revoke(p) \/ Enrol(p) PROVE TypeOK'
  <2>1. active' \subseteq Probe
    BY <1>6 DEF Revoke, Enrol, TypeOK
  <2>2. events' \in 0 .. MaxEvents
    BY <1>6, EventType DEF Revoke, Enrol, TypeOK
  <2>3. UNCHANGED <<policy, config, group, address, evidence, rounds, checks, told>>
    BY <1>6 DEF Revoke, Enrol
  <2>4. QED BY <2>1, <2>2, <2>3, Zenon DEF TypeOK
<1>7. QED BY <1>1, <1>2, <1>3, <1>4, <1>5, <1>6

\* What a vote changes in its round.
LEMMA RoundFields ==
  ASSUME NEW x \in RoundRow, NEW p \in Probe, NEW t \in Task
  PROVE  LET y == [x EXCEPT !.task[p] = t]
         IN  /\ y \in RoundRow
             /\ y.status = x.status /\ y.row = x.row /\ y.epoch = x.epoch /\ y.result = x.result
<1>1. [x.task EXCEPT ![p] = t] \in [Probe -> Task]
  BY DEF RoundRow
<1>2. QED BY <1>1 DEF RoundRow

\* A vote of a round, or the end of its time.
Voting ==
  \E n \in Round : \/ Pass(n)
                   \/ \E p \in Probe : Lease(p, n)
                   \/ \E p \in Probe, outcome \in Outcome : Accept(p, n, outcome)
                   \/ \E outcome \in Outcome : RecordLocal(n, outcome)

LEMMA VotingRows ==
  ASSUME TypeOK, Voting
  PROVE  /\ UNCHANGED <<users, address, evidence, checks, told, events>>
         /\ rounds' \in [Round -> RoundRow]
         /\ \A n \in Round : /\ rounds'[n].status = rounds[n].status
                             /\ rounds'[n].row = rounds[n].row
                             /\ rounds'[n].epoch = rounds[n].epoch
                             /\ rounds'[n].result = rounds[n].result
<1>1. PICK n \in Round : \/ Pass(n)
                         \/ \E p \in Probe : Lease(p, n)
                         \/ \E p \in Probe, outcome \in Outcome : Accept(p, n, outcome)
                         \/ \E outcome \in Outcome : RecordLocal(n, outcome)
  BY DEF Voting
<1>2. UNCHANGED <<users, address, evidence, checks, told, events>>
  BY <1>1 DEF Pass, Lease, Accept, RecordLocal
<1>3. rounds \in [Round -> RoundRow]
  BY DEF TypeOK
<1>4. ASSUME NEW x \in RoundRow, rounds' = [rounds EXCEPT ![n] = x],
             x.status = rounds[n].status, x.row = rounds[n].row,
             x.epoch = rounds[n].epoch, x.result = rounds[n].result
      PROVE  /\ rounds' \in [Round -> RoundRow]
             /\ \A m \in Round : /\ rounds'[m].status = rounds[m].status
                                 /\ rounds'[m].row = rounds[m].row
                                 /\ rounds'[m].epoch = rounds[m].epoch
                                 /\ rounds'[m].result = rounds[m].result
  BY <1>3, <1>4
<1>5. CASE Pass(n)
  <2>1. \A x \in RoundRow : LET y == [x EXCEPT !.late = TRUE] IN
          /\ y \in RoundRow
          /\ y.status = x.status /\ y.row = x.row /\ y.epoch = x.epoch /\ y.result = x.result
    BY DEF RoundRow
  <2>2. QED BY <1>2, <1>3, <1>4, <1>5, <2>1 DEF Pass
<1>6. ASSUME NEW p \in Probe, NEW t \in Task, rounds' = [rounds EXCEPT ![n].task[p] = t]
      PROVE  \E x \in RoundRow :
               /\ rounds' = [rounds EXCEPT ![n] = x]
               /\ x.status = rounds[n].status /\ x.row = rounds[n].row
               /\ x.epoch = rounds[n].epoch /\ x.result = rounds[n].result
  <2>1. rounds' = [rounds EXCEPT ![n] = [rounds[n] EXCEPT !.task[p] = t]]
    BY <1>3, <1>6
  <2>2. rounds[n] \in RoundRow
    BY <1>3
  <2> DEFINE y == [rounds[n] EXCEPT !.task[p] = t]
  <2>3. /\ y \in RoundRow
        /\ y.status = rounds[n].status /\ y.row = rounds[n].row
        /\ y.epoch = rounds[n].epoch /\ y.result = rounds[n].result
    BY <2>2, RoundFields
  <2> HIDE DEF y
  <2>4. rounds' = [rounds EXCEPT ![n] = y]
    BY <2>1 DEF y
  <2>5. QED BY <2>3, <2>4
<1>7. ASSUME NEW p \in Probe, Lease(p, n)
      PROVE  \E t \in Task : rounds' = [rounds EXCEPT ![n].task[p] = t]
  BY <1>7 DEF Lease, Task
<1>8. ASSUME NEW p \in Probe, NEW outcome \in Outcome, Accept(p, n, outcome)
      PROVE  \E t \in Task : rounds' = [rounds EXCEPT ![n].task[p] = t]
  BY <1>8 DEF Accept, Task
<1>9. ASSUME NEW outcome \in Outcome, RecordLocal(n, outcome)
      PROVE  \E x \in RoundRow :
               /\ rounds' = [rounds EXCEPT ![n] = x]
               /\ x.status = rounds[n].status /\ x.row = rounds[n].row
               /\ x.epoch = rounds[n].epoch /\ x.result = rounds[n].result
  <2>1. rounds' = [rounds EXCEPT ![n] = [rounds[n] EXCEPT !.local = outcome]]
    BY <1>3, <1>9 DEF RecordLocal
  <2>2. \A x \in RoundRow : LET y == [x EXCEPT !.local = outcome] IN
          /\ y \in RoundRow
          /\ y.status = x.status /\ y.row = x.row /\ y.epoch = x.epoch /\ y.result = x.result
    BY DEF RoundRow, Outcome
  <2>3. QED BY <1>3, <2>1, <2>2
<1>10. QED BY <1>1, <1>2, <1>4, <1>5, <1>6, <1>7, <1>8, <1>9

-----------------------------------------------------------------------------
(* Where new rounds are placed.                                            *)

LEMMA PlaceOf ==
  ASSUME TypeOK, RoundsInOrder, OneEach, NEW T \in SUBSET Targets, NEW a \in T
  PROVE  Place(a, T) = IF \E b \in T \ {a} : address[b].role = "current" THEN Last + 2 ELSE Last + 1
<1> DEFINE S == {b \in T \ {a} : address[b].role = "current"}
<1>0. Last \in Nat
  BY RoundsFacts
<1>1. Place(a, T) = Last + 1 + Cardinality(S)
  BY DEF Place
<1>2. CASE S = {}
  <2>1. Cardinality(S) = 0
    BY <1>2, FS_EmptySet
  <2>2. QED BY <1>0, <1>1, <1>2, <2>1
<1>3. ASSUME NEW b \in S PROVE Cardinality(S) = 1
  <2>1. S = {b}
    BY <1>3 DEF OneEach, Targets, In
  <2> HIDE DEF S
  <2>2. QED BY <2>1, FS_Singleton
<1>4. QED BY <1>0, <1>1, <1>2, <1>3

LEMMA PlaceFree ==
  ASSUME TypeOK, RoundsInOrder, OneEach, NEW T \in SUBSET Targets, NEW a \in T,
         NEW n \in Round, n = Place(a, T)
  PROVE  rounds[n].status = "none"
<1>1. n \notin Created
  BY PlaceOf, RoundsFacts
<1>2. QED BY <1>1 DEF Created

\* The places are the next ones, without a gap.
LEMMA PlacesInOrder ==
  ASSUME TypeOK, RoundsInOrder, OneEach, NEW T \in SUBSET Targets, T # {},
         Last + Cardinality(T) <= MaxRounds
  PROVE  \E k \in Nat : /\ k <= MaxRounds
                        /\ 1 .. k = (1 .. Last) \cup {Place(a, T) : a \in T}
<1>0. Last \in Nat
  BY RoundsFacts
<1>1. PICK a \in T : TRUE
  OBVIOUS
<1>2. CASE T = {a}
  <2>1. Place(a, T) = Last + 1
    BY <1>2, PlaceOf
  <2>2. Cardinality(T) = 1
    BY <1>2, FS_Singleton
  <2>3. {Place(b, T) : b \in T} = {Last + 1}
    BY <1>2, <2>1
  <2>4. 1 .. (Last + 1) = (1 .. Last) \cup {Last + 1}
    BY <1>0
  <2>5. QED BY <1>0, <2>2, <2>3, <2>4
<1>3. CASE T # {a}
  <2>1. PICK b \in T : b # a
    BY <1>3
  <2>2. \A x \in T : x \in Row /\ address[x].role \in {"candidate", "current"}
    BY DEF Targets, In
  <2>3. PICK c \in T, d \in T : /\ address[c].role = "current"
                                /\ address[d].role = "candidate"
    BY <1>1, <2>1, <2>2 DEF OneEach
  <2>4. T = {c, d} /\ c # d
    BY <2>2, <2>3 DEF OneEach
  <2>5. Cardinality(T) = 2
    <3>1. Cardinality({c}) = 1 /\ IsFiniteSet({c})
      BY FS_Singleton
    <3>2. Cardinality({c} \cup {d}) = 2
      BY <2>4, <3>1, FS_AddElement
    <3>3. T = {c} \cup {d}
      BY <2>4
    <3>4. QED BY <3>2, <3>3
  <2>6. Place(c, T) = Last + 1 /\ Place(d, T) = Last + 2
    BY <2>3, <2>4, PlaceOf
  <2>7. {Place(x, T) : x \in T} = {Last + 1, Last + 2}
    BY <2>4, <2>6
  <2>8. 1 .. (Last + 2) = (1 .. Last) \cup {Last + 1, Last + 2}
    BY <1>0
  <2>9. QED BY <1>0, <2>5, <2>7, <2>8
<1>4. QED BY <1>2, <1>3

LEMMA ScheduleRounds ==
  ASSUME TypeOK, RoundsInOrder, OneEach, NEW T \in SUBSET Targets, NEW online, NEW lapsed,
         Schedule(T, online, lapsed)
  PROVE  /\ rounds' \in [Round -> RoundRow]
         /\ \A n \in Round : \/ rounds'[n] = rounds[n]
                             \/ rounds[n].status = "none" /\ rounds'[n].status = "pending"
         /\ RoundsInOrder'
<1> DEFINE R(n) == NewRound(CHOOSE a \in T : n = Place(a, T), online)
<1>1. /\ T # {} /\ Last + Cardinality(T) <= MaxRounds
      /\ rounds' = [n \in Round |-> IF \E a \in T : n = Place(a, T) THEN R(n) ELSE rounds[n]]
  BY DEF Schedule
<1>2. ASSUME NEW n, \E a \in T : n = Place(a, T)
      PROVE  R(n) \in RoundRow /\ R(n).status = "pending"
  <2>1. (CHOOSE a \in T : n = Place(a, T)) \in Row
    BY <1>2 DEF Targets, In
  <2>2. QED BY <2>1, NewRoundType
<1> HIDE DEF R
<1>3. rounds' \in [Round -> RoundRow]
  BY <1>1, <1>2 DEF TypeOK
<1>4. \A n \in Round : \/ rounds'[n] = rounds[n]
                       \/ rounds[n].status = "none" /\ rounds'[n].status = "pending"
  BY <1>1, <1>2, PlaceFree
<1>5. PICK k \in Nat : k <= MaxRounds /\ 1 .. k = (1 .. Last) \cup {Place(a, T) : a \in T}
  BY <1>1, PlacesInOrder
<1>6. Created' = 1 .. k
  <2>1. Created = 1 .. Last
    BY RoundsFacts DEF RoundsInOrder
  <2>2. \A n \in Round : n \in Created' <=> n \in Created \/ n \in {Place(a, T) : a \in T}
    BY <1>1, <1>2 DEF Created
  <2>3. Created' \subseteq Round /\ 1 .. k \subseteq Round
    BY <1>5, ProbesAssumption DEF Created, Round
  <2>4. QED BY <1>5, <2>1, <2>2, <2>3
<1>7. RoundsInOrder'
  BY <1>6, IntervalSize DEF RoundsInOrder
<1>8. QED BY <1>3, <1>4, <1>7

LEMMA ScheduleEvidence ==
  ASSUME TypeOK, NEW T \in SUBSET Targets, NEW online, NEW lapsed, Schedule(T, online, lapsed)
  PROVE  /\ evidence' \in [Row -> EvidenceRow]
         /\ \A a \in Row :
              /\ evidence'[a].applied = evidence[a].applied
              /\ \/ evidence'[a] = evidence[a]
                 \/ /\ a \in T
                    /\ evidence'[a].streak = NoStreak
                    /\ evidence'[a].epoch = Epoch
                 \/ /\ a \in T
                    /\ evidence'[a].streak = [evidence[a].streak EXCEPT !.good = 0, !.bad = 0]
                    /\ evidence'[a].epoch = evidence[a].epoch
<1> DEFINE New(x) == [x EXCEPT !.epoch = Epoch, !.streak = NoStreak, !.live = FALSE]
           Old(x) == [x EXCEPT !.streak.good = 0, !.streak.bad = 0, !.live = FALSE]
<1>1. evidence \in [Row -> EvidenceRow] /\ Epoch \in EpochSet
  BY EpochType DEF TypeOK
<1>2. evidence' = [a \in Row |->
        IF a \in T \cap {b \in Targets : evidence[b].epoch # Epoch} THEN New(evidence[a])
        ELSE IF a \in lapsed THEN Old(evidence[a])
        ELSE evidence[a]]
  BY DEF Schedule
<1>3. lapsed \subseteq T
  BY DEF Schedule
<1>4. ASSUME NEW x \in EvidenceRow
      PROVE  /\ New(x) \in EvidenceRow /\ New(x).streak = NoStreak /\ New(x).epoch = Epoch
             /\ New(x).applied = x.applied
  BY <1>1, NoStreakType DEF EvidenceRow
<1>5. ASSUME NEW x \in EvidenceRow
      PROVE  /\ Old(x) \in EvidenceRow /\ Old(x).streak = [x.streak EXCEPT !.good = 0, !.bad = 0]
             /\ Old(x).epoch = x.epoch /\ Old(x).applied = x.applied
  <2>1. [x.streak EXCEPT !.good = 0, !.bad = 0] \in Streak
    <3>1. 0 \in 0 .. SuccessThreshold /\ 0 \in 0 .. FailureThreshold
      BY ProbesAssumption
    <3>2. QED BY <3>1 DEF Streak, EvidenceRow
  <2>2. QED BY <2>1 DEF EvidenceRow, Streak
<1> HIDE DEF New, Old
<1>6. QED BY <1>1, <1>2, <1>3, <1>4, <1>5

-----------------------------------------------------------------------------
(* The end of a round, and of a local check.                               *)

Decides(n, a, result, s) ==
  /\ Remote /\ rounds[n].row = a /\ a \in Targets
  /\ rounds[n].epoch = Epoch /\ evidence[a].epoch = Epoch /\ evidence[a].applied < n
  /\ s = Advance(evidence[a].streak, result)
  /\ rounds' = [rounds EXCEPT ![n] = Completed(n, result)]
  /\ evidence' = [evidence EXCEPT ![a].streak = s, ![a].applied = n,
                                  ![a].live = result # "unknown"]

LEMMA CloseRows ==
  ASSUME TypeOK, NEW n \in Round, NEW expired \in BOOLEAN, Close(n, expired)
  PROVE  /\ rounds[n].status = "pending" /\ UNCHANGED <<users, checks, events>>
         /\ \/ /\ rounds' = [rounds EXCEPT ![n] = Superseded]
               /\ UNCHANGED <<address, evidence, told>>
            \/ \E a \in Row, result \in Outcome \cup {"unknown"}, s \in Streak, p \in BOOLEAN :
                 /\ Decides(n, a, result, s)
                 /\ p => result = "success" /\ s.good >= SuccessThreshold
                 /\ Settle(a, address[a].streak, s, p)
<1> DEFINE a == rounds[n].row
           result == IF expired THEN "unknown" ELSE Evaluate(rounds[n].cohort, Votes(n))
           s == Advance(evidence[a].streak, result)
<1>1. /\ Pending(n) /\ UNCHANGED <<users, checks, events>>
      /\ \/ /\ rounds' = [rounds EXCEPT ![n] = Superseded]
            /\ UNCHANGED <<address, evidence, told>>
         \/ /\ Current(n)
            /\ rounds' = [rounds EXCEPT ![n] = Completed(n, result)]
            /\ evidence' = [evidence EXCEPT ![a].streak = s, ![a].applied = n,
                                            ![a].live = result # "unknown"]
            /\ Settle(a, address[a].streak, s, result = "success" /\ s.good >= SuccessThreshold)
  BY Zenon DEF Close
<1>2. result \in Outcome \cup {"unknown"}
  BY EvaluateType
<1> HIDE DEF result
<1>3. ASSUME Current(n),
             rounds' = [rounds EXCEPT ![n] = Completed(n, result)],
             evidence' = [evidence EXCEPT ![a].streak = s, ![a].applied = n,
                                          ![a].live = result # "unknown"],
             Settle(a, address[a].streak, s, result = "success" /\ s.good >= SuccessThreshold)
      PROVE  \E b \in Row, r \in Outcome \cup {"unknown"}, t \in Streak, p \in BOOLEAN :
               /\ Decides(n, b, r, t)
               /\ p => r = "success" /\ t.good >= SuccessThreshold
               /\ Settle(b, address[b].streak, t, p)
  <2>1. a \in Targets /\ a \in Row
    BY <1>3 DEF Current, Targets, In
  <2>2. s \in Streak
    <3>1. evidence[a].streak \in Streak
      BY <2>1 DEF TypeOK, EvidenceRow
    <3>2. QED BY <1>2, <3>1, AdvanceType
  <2>3. Decides(n, a, result, s)
    BY <1>3, <2>1, Zenon DEF Decides, Current
  <2> DEFINE p == result = "success" /\ s.good >= SuccessThreshold
  <2>4. p \in BOOLEAN /\ (p => result = "success" /\ s.good >= SuccessThreshold)
    OBVIOUS
  <2>5. Settle(a, address[a].streak, s, p)
    BY <1>3
  <2> HIDE DEF s, p
  <2>6. QED BY <1>2, <2>1, <2>2, <2>3, <2>4, <2>5
<1>4. QED BY <1>1, <1>3 DEF Pending

LEMMA DecidesTypes ==
  ASSUME TypeOK, NEW n \in Round, NEW a \in Row, NEW result \in Outcome \cup {"unknown"},
         NEW s \in Streak, Decides(n, a, result, s)
  PROVE  /\ rounds' \in [Round -> RoundRow] /\ evidence' \in [Row -> EvidenceRow]
         /\ rounds'[n].status = "completed" /\ rounds'[n].row = a
         /\ rounds'[n].epoch = Epoch /\ rounds'[n].result = result
         /\ \A m \in Round \ {n} : rounds'[m] = rounds[m]
         /\ evidence'[a].streak = s /\ evidence'[a].applied = n /\ evidence'[a].epoch = Epoch
         /\ \A b \in Row \ {a} : evidence'[b] = evidence[b]
<1>1. rounds \in [Round -> RoundRow] /\ evidence \in [Row -> EvidenceRow]
  BY DEF TypeOK
<1>2. /\ Completed(n, result) \in RoundRow /\ Completed(n, result).status = "completed"
      /\ Completed(n, result).row = a /\ Completed(n, result).epoch = Epoch
      /\ Completed(n, result).result = result
  BY CompletedType DEF Decides
<1>3. rounds' = [rounds EXCEPT ![n] = Completed(n, result)]
  BY DEF Decides
<1>4. /\ rounds' \in [Round -> RoundRow] /\ rounds'[n] = Completed(n, result)
      /\ \A m \in Round \ {n} : rounds'[m] = rounds[m]
  BY <1>1, <1>2, <1>3
<1> DEFINE New(x) == [x EXCEPT !.streak = s, !.applied = n, !.live = result # "unknown"]
<1>5. ASSUME NEW x \in EvidenceRow
      PROVE  /\ New(x) \in EvidenceRow /\ New(x).streak = s /\ New(x).applied = n
             /\ New(x).epoch = x.epoch
  <2>1. n \in 0 .. MaxRounds
    BY ProbesAssumption DEF Round
  <2>2. QED BY <2>1 DEF EvidenceRow
<1>6. evidence' = [evidence EXCEPT ![a] = New(evidence[a])]
  BY <1>1 DEF Decides
<1> HIDE DEF New
<1>7. /\ evidence' \in [Row -> EvidenceRow] /\ evidence'[a] = New(evidence[a])
      /\ \A b \in Row \ {a} : evidence'[b] = evidence[b]
  BY <1>1, <1>5, <1>6
<1>8. evidence[a].epoch = Epoch /\ evidence[a] \in EvidenceRow
  BY <1>1 DEF Decides
<1>9. QED BY <1>2, <1>4, <1>5, <1>7, <1>8

\* What a local result changes, if it counts.
Counts(a, old, s) ==
  /\ ~Remote /\ address[a].role \in {"candidate", "current"}
  /\ old = Observation(a) /\ s \in {Succeed(old), Fail(old)}
  /\ Settle(a, old, s, TRUE)
  /\ evidence' = IF policy.mode = "none" THEN evidence
       ELSE [evidence EXCEPT ![a].epoch = Epoch, ![a].streak = s, ![a].live = TRUE]

LEMMA ObservationType ==
  ASSUME TypeOK, NEW a \in Row
  PROVE  Observation(a) \in Streak
BY NoStreakType DEF Observation, TypeOK, AddressRow, EvidenceRow

LEMMA FinishRows ==
  ASSUME TypeOK, NEW c \in checks, NEW success \in BOOLEAN, Finish(c, success)
  PROVE  /\ UNCHANGED <<users, rounds, events>> /\ checks' \subseteq checks
         /\ \/ UNCHANGED <<address, told, evidence>>
            \/ \E a \in Row, old \in Streak, s \in Streak : Counts(a, old, s)
<1> DEFINE a == c.row
           old == Observation(a)
           s == IF success THEN Succeed(old) ELSE Fail(old)
<1>1. /\ UNCHANGED <<users, rounds, events>> /\ checks' \subseteq checks
      /\ IF Intended(c) /\ ~Remote
         THEN /\ Settle(a, old, s, TRUE)
              /\ evidence' = IF policy.mode = "none" THEN evidence
                   ELSE [evidence EXCEPT ![a].epoch = Epoch, ![a].streak = s, ![a].live = TRUE]
         ELSE UNCHANGED <<address, told, evidence>>
  BY DEF Finish
<1>2. a \in Row /\ c.role \in {"candidate", "current"}
  BY DEF TypeOK
<1>3. old \in Streak
  BY <1>2, ObservationType
<1>4. s \in Streak /\ s \in {Succeed(old), Fail(old)}
  BY <1>3, SucceedType, FailType
<1>5. CASE Intended(c) /\ ~Remote
  <2>1. Counts(a, old, s)
    BY <1>1, <1>2, <1>4, <1>5, Zenon DEF Counts, Intended
  <2> HIDE DEF a, old, s
  <2>2. QED BY <1>1, <1>2, <1>3, <1>4, <2>1
<1>6. CASE ~(Intended(c) /\ ~Remote)
  BY <1>1, <1>6
<1>7. QED BY <1>5, <1>6

LEMMA CountsTypes ==
  ASSUME TypeOK, NEW a \in Row, NEW old \in Streak, NEW s \in Streak, Counts(a, old, s)
  PROVE  /\ evidence' \in [Row -> EvidenceRow]
         /\ policy.mode = "none" => evidence' = evidence
         /\ policy.mode # "none" => evidence'[a].streak = s /\ evidence'[a].epoch = Epoch
         /\ evidence'[a].applied = evidence[a].applied
         /\ \A b \in Row \ {a} : evidence'[b] = evidence[b]
<1>1. evidence \in [Row -> EvidenceRow] /\ Epoch \in EpochSet
  BY EpochType DEF TypeOK
<1> DEFINE New(x) == [x EXCEPT !.epoch = Epoch, !.streak = s, !.live = TRUE]
<1>2. ASSUME NEW x \in EvidenceRow
      PROVE  /\ New(x) \in EvidenceRow /\ New(x).streak = s /\ New(x).applied = x.applied
             /\ New(x).epoch = Epoch
  BY <1>1 DEF EvidenceRow
<1>3. evidence' = IF policy.mode = "none" THEN evidence
                  ELSE [evidence EXCEPT ![a] = New(evidence[a])]
  BY <1>1 DEF Counts
<1> HIDE DEF New
<1>4. QED BY <1>1, <1>2, <1>3

LEMMA TypeStep == TypeOK /\ Orders /\ [Next]_vars => TypeOK'
<1> SUFFICES ASSUME TypeOK, Orders, [Next]_vars PROVE TypeOK'
  OBVIOUS
<1>1. CASE UNCHANGED vars
  BY <1>1, Zenon DEF vars, users, TypeOK
<1>2. ASSUME NEW v \in Value \cup {NoValue}, Heartbeat(v) PROVE TypeOK'
  <2>1. address' \in [Row -> AddressRow] /\ (Tell(address') \/ UNCHANGED told)
    BY <1>2, HeartbeatRows DEF Orders
  <2>2. told' \in [row : Row \cup {NoRow}, health : HealthState]
    <3>1. told \in [row : Row \cup {NoRow}, health : HealthState]
      BY DEF TypeOK
    <3>2. QED BY <2>1, <3>1, TellType
  <2>3. UNCHANGED <<users, evidence, rounds, checks, events>>
    BY <1>2 DEF Heartbeat
  <2>4. QED BY <2>1, <2>2, <2>3, Zenon DEF users, TypeOK
<1>3. ASSUME NEW T \in SUBSET Targets, NEW online, NEW lapsed, Schedule(T, online, lapsed)
      PROVE  TypeOK'
  <2>1. rounds' \in [Round -> RoundRow] /\ evidence' \in [Row -> EvidenceRow]
    BY <1>3, ScheduleRounds, ScheduleEvidence DEF Orders
  <2>2. UNCHANGED <<users, address, checks, told, events>>
    BY <1>3 DEF Schedule
  <2>3. QED BY <2>1, <2>2, Zenon DEF users, TypeOK
<1>4. CASE Voting
  <2>1. rounds' \in [Round -> RoundRow] /\ UNCHANGED <<users, address, evidence, checks, told, events>>
    BY <1>4, VotingRows
  <2>2. QED BY <2>1, Zenon DEF users, TypeOK
<1>5. ASSUME NEW n \in Round, NEW expired \in BOOLEAN, Close(n, expired) PROVE TypeOK'
  <2>1. UNCHANGED <<users, checks, events>>
    BY <1>5, CloseRows
  <2>2. CASE /\ rounds' = [rounds EXCEPT ![n] = Superseded]
             /\ UNCHANGED <<address, evidence, told>>
    <3>1. rounds' \in [Round -> RoundRow]
      BY <2>2, NoRoundTypes DEF TypeOK
    <3>2. QED BY <2>1, <2>2, <3>1, Zenon DEF users, TypeOK
  <2>3. ASSUME NEW a \in Row, NEW result \in Outcome \cup {"unknown"}, NEW s \in Streak,
               NEW p \in BOOLEAN, Decides(n, a, result, s), Settle(a, address[a].streak, s, p)
        PROVE  TypeOK'
    <3>1. rounds' \in [Round -> RoundRow] /\ evidence' \in [Row -> EvidenceRow]
      BY <2>3, DecidesTypes
    <3>2. /\ address' \in [Row -> AddressRow]
          /\ told' \in [row : Row \cup {NoRow}, health : HealthState]
      BY <2>3, SettleTypes
    <3>3. QED BY <2>1, <3>1, <3>2, Zenon DEF users, TypeOK
  <2>4. QED BY <1>5, <2>2, <2>3, CloseRows
<1>6. ASSUME NEW a \in Row, Start(a) PROVE TypeOK'
  <2>1. checks' \subseteq [row : Row, role : {"candidate", "current"}, config : Nat]
    BY <1>6 DEF Start, Scheduled, Announced, In, TypeOK
  <2>2. QED BY <1>6, <2>1, Zenon DEF Start, users, TypeOK
<1>7. ASSUME NEW c \in checks, NEW success \in BOOLEAN, Finish(c, success) PROVE TypeOK'
  <2>1. UNCHANGED <<users, rounds, events>>
    BY <1>7, FinishRows
  <2>2. checks' \subseteq [row : Row, role : {"candidate", "current"}, config : Nat]
    BY <1>7, FinishRows DEF TypeOK
  <2>3. CASE UNCHANGED <<address, told, evidence>>
    BY <2>1, <2>2, <2>3, Zenon DEF users, TypeOK
  <2>4. ASSUME NEW a \in Row, NEW old \in Streak, NEW s \in Streak, Counts(a, old, s)
        PROVE  TypeOK'
    <3>1. evidence' \in [Row -> EvidenceRow]
      BY <2>4, CountsTypes
    <3>2. Settle(a, old, s, TRUE)
      BY <2>4 DEF Counts
    <3>3. /\ address' \in [Row -> AddressRow]
          /\ told' \in [row : Row \cup {NoRow}, health : HealthState]
      BY <3>2, SettleTypes
    <3>4. QED BY <2>1, <2>2, <3>1, <3>3, Zenon DEF users, TypeOK
  <2>5. QED BY <1>7, <2>3, <2>4, FinishRows
<1>8. CASE \/ \E mode \in Mode \ {"none"} : SavePolicy(mode)
           \/ RemovePolicy \/ DeleteCheck \/ RestoreCheck
           \/ \E M \in SUBSET Probe : SetMembers(M)
           \/ \E p \in Probe : Revoke(p) \/ Enrol(p)
  BY <1>8, UserTypes
<1>9. QED BY <1>1, <1>2, <1>3, <1>4, <1>5, <1>6, <1>7, <1>8, Zenon DEF Next, Voting

-----------------------------------------------------------------------------
(* Numbers and roles.                                                      *)

LEMMA SameRows ==
  ASSUME RowsInOrder, \A a \in Row : address'[a].role = "none" <=> address[a].role = "none"
  PROVE  RowsInOrder'
<1>1. Reported' = Reported
  BY DEF Reported
<1>2. QED BY <1>1 DEF RowsInOrder

LEMMA SameRounds ==
  ASSUME RoundsInOrder, \A n \in Round : rounds'[n].status = "none" <=> rounds[n].status = "none"
  PROVE  RoundsInOrder'
<1>1. Created' = Created
  BY DEF Created
<1>2. QED BY <1>1 DEF RoundsInOrder

LEMMA SettleOrders ==
  ASSUME TypeOK, RowsInOrder, OneEach, NEW a \in Row, address[a].role \in {"candidate", "current"},
         NEW old, NEW s \in Streak, NEW p, Settle(a, old, s, p)
  PROVE  RowsInOrder' /\ OneEach'
<1>1. /\ Promotes(a, s, p) =>
           /\ address'[a].role = "current"
           /\ \A b \in Row \ {a} : address'[b].role =
                IF address[b].role = "current" THEN "previous" ELSE address[b].role
      /\ ~Promotes(a, s, p) => \A b \in Row : address'[b].role = address[b].role
  BY SettleRows
<1>2. RowsInOrder'
  BY <1>1, SameRows
<1>3. OneEach'
  BY <1>1 DEF OneEach
<1>4. QED BY <1>2, <1>3

LEMMA HeartbeatOrders ==
  ASSUME TypeOK, RowsInOrder, OneEach, NEW v \in Value \cup {NoValue}, Heartbeat(v)
  PROVE  RowsInOrder' /\ OneEach'
<1> DEFINE k == Cardinality(Reported)
           next == k + 1
<1>0. address \in [Row -> AddressRow] /\ k \in Nat /\ Reported = 1 .. k
  BY RowsFacts DEF TypeOK, RowsInOrder
<1>1. PICK new \in SUBSET {next} :
        /\ new \subseteq Row
        /\ \A a \in new : address[a].role = "none" /\ address'[a] = NewAddress(v)
        /\ \A a \in Row \ new :
             \/ address'[a] = address[a]
             \/ address'[a] = Put(a) /\ address[a].role = "candidate"
             \/ address'[a] = Put(a) /\ address[a].role = "current" /\ v = NoValue
        /\ new # {} => \A a \in Row : address[a].role = "candidate" => address'[a] = Put(a)
  BY HeartbeatRows
<1> HIDE DEF k
<1>2. \A a \in Row : Put(a).role = "previous"
  BY <1>0 DEF Put, AddressRow
<1>3. \A a \in new : address'[a].role = "candidate"
  BY <1>1 DEF NewAddress
<1>4. \A a \in Row \ new : address'[a].role \in {address[a].role, "previous"}
  BY <1>1, <1>2
<1>5. OneEach'
  BY <1>1, <1>2, <1>3, <1>4 DEF OneEach
<1>6. CASE new = {}
  <2>1. \A a \in Row : address'[a].role = "none" <=> address[a].role = "none"
    BY <1>1, <1>2, <1>6
  <2>2. QED BY <1>5, <2>1, SameRows
<1>7. CASE new # {}
  <2>1. new = {next} /\ next \in Row
    BY <1>1, <1>7
  <2>2. Reported' = Reported \cup {next}
    BY <1>1, <1>2, <1>3, <2>1 DEF Reported
  <2>3. Reported' = 1 .. next /\ next \in Nat
    BY <1>0, <2>2
  <2>4. RowsInOrder'
    BY <2>3, IntervalSize DEF RowsInOrder
  <2>5. QED BY <1>5, <2>4
<1>8. QED BY <1>6, <1>7

LEMMA OrdersStep == TypeOK /\ Orders /\ [Next]_vars => Orders'
<1> SUFFICES ASSUME TypeOK, Orders, [Next]_vars PROVE Orders'
  OBVIOUS
<1>0. RowsInOrder /\ RoundsInOrder /\ OneEach
  BY DEF Orders
<1>1. ASSUME UNCHANGED <<address, rounds>> PROVE Orders'
  BY <1>0, <1>1, SameRows, SameRounds DEF Orders, OneEach
<1>2. ASSUME NEW v \in Value \cup {NoValue}, Heartbeat(v) PROVE Orders'
  BY <1>0, <1>2, HeartbeatOrders, SameRounds DEF Orders, Heartbeat
<1>3. ASSUME UNCHANGED address PROVE RowsInOrder' /\ OneEach'
  BY <1>0, <1>3, SameRows DEF OneEach
<1>4. ASSUME NEW T \in SUBSET Targets, NEW online, NEW lapsed, Schedule(T, online, lapsed)
      PROVE  Orders'
  BY <1>0, <1>3, <1>4, ScheduleRounds DEF Orders, Schedule
<1>5. CASE Voting
  BY <1>0, <1>3, <1>5, VotingRows, SameRounds DEF Orders
<1>6. ASSUME NEW n \in Round, NEW expired \in BOOLEAN, Close(n, expired) PROVE Orders'
  <2>0. rounds \in [Round -> RoundRow]
    BY DEF TypeOK
  <2>1. rounds[n].status = "pending"
    BY <1>6, CloseRows
  <2>2. CASE /\ rounds' = [rounds EXCEPT ![n] = Superseded]
             /\ UNCHANGED <<address, evidence, told>>
    <3>1. \A m \in Round : rounds'[m].status = "none" <=> rounds[m].status = "none"
      BY <2>0, <2>1, <2>2, NoRoundTypes
    <3>2. QED BY <1>0, <1>3, <2>2, <3>1, SameRounds DEF Orders
  <2>3. ASSUME NEW a \in Row, NEW result \in Outcome \cup {"unknown"}, NEW s \in Streak,
               NEW p \in BOOLEAN, Decides(n, a, result, s), Settle(a, address[a].streak, s, p)
        PROVE  Orders'
    <3>1. \A m \in Round : rounds'[m].status = "none" <=> rounds[m].status = "none"
      BY <2>1, <2>3, DecidesTypes
    <3>2. address[a].role \in {"candidate", "current"}
      BY <2>3 DEF Decides, Targets, In
    <3>3. RowsInOrder' /\ OneEach'
      BY <1>0, <2>3, <3>2, SettleOrders
    <3>4. QED BY <1>0, <3>1, <3>3, SameRounds DEF Orders
  <2>4. QED BY <1>6, <2>2, <2>3, CloseRows
<1>7. ASSUME NEW a \in Row, Start(a) PROVE Orders'
  BY <1>1, <1>7 DEF Start
<1>8. ASSUME NEW c \in checks, NEW success \in BOOLEAN, Finish(c, success) PROVE Orders'
  <2>1. UNCHANGED rounds
    BY <1>8, FinishRows
  <2>2. ASSUME NEW a \in Row, NEW old \in Streak, NEW s \in Streak, Counts(a, old, s)
        PROVE  Orders'
    <3>1. RowsInOrder' /\ OneEach'
      BY <1>0, <2>2, SettleOrders DEF Counts
    <3>2. QED BY <1>0, <2>1, <3>1, SameRounds DEF Orders
  <2>3. QED BY <1>1, <1>8, <2>1, <2>2, FinishRows
<1>9. CASE RemovePolicy \/ DeleteCheck
  <2>1. \A m \in Round : rounds'[m].status = "none" <=> rounds[m].status = "none"
    BY <1>9, NoRoundTypes DEF RemovePolicy, DeleteCheck, Pending
  <2>2. UNCHANGED address
    BY <1>9 DEF RemovePolicy, DeleteCheck
  <2>3. QED BY <1>0, <1>3, <2>1, <2>2, SameRounds DEF Orders
<1>10. CASE \/ \E mode \in Mode \ {"none"} : SavePolicy(mode)
            \/ RestoreCheck
            \/ \E M \in SUBSET Probe : SetMembers(M)
            \/ \E p \in Probe : Revoke(p) \/ Enrol(p)
            \/ UNCHANGED vars
  BY <1>1, <1>10 DEF SavePolicy, RestoreCheck, SetMembers, Revoke, Enrol, vars
<1>11. QED
  BY <1>2, <1>4, <1>5, <1>6, <1>7, <1>8, <1>9, <1>10, Zenon DEF Next, Voting

-----------------------------------------------------------------------------
(* Evidence, addresses and the pool.                                       *)

LEMMA BlankStreak == NoStreak.health = "unknown" /\ NoStreak.good = 0 /\ NoStreak.bad = 0
BY DEF NoStreak

LEMMA BlankStep ==
  ASSUME TypeOK, Orders, UnreportedIsBlank, [Next]_vars
  PROVE  UnreportedIsBlank'
<1>0. address \in [Row -> AddressRow]
  BY DEF TypeOK
<1>1. ASSUME \A a \in Row : address'[a].role = "none" =>
               address[a].role = "none" /\ evidence'[a].streak \in {evidence[a].streak, NoStreak}
      PROVE  UnreportedIsBlank'
  BY <1>1 DEF UnreportedIsBlank
<1>2. ASSUME NEW v \in Value \cup {NoValue}, Heartbeat(v) PROVE UnreportedIsBlank'
  <2>1. PICK new \in SUBSET {Cardinality(Reported) + 1} :
          /\ \A a \in new : address[a].role = "none"
          /\ \A a \in Row \ new : address'[a] \in {address[a], Put(a)}
    BY <1>2, HeartbeatRows DEF Orders
  <2>2. \A a \in Row : Put(a).role = "previous"
    BY <1>0 DEF Put, AddressRow
  <2>3. \A a \in Row : address'[a].role = "none" => address[a].role = "none"
    BY <2>1, <2>2
  <2>4. QED BY <1>1, <1>2, <2>3 DEF Heartbeat
<1>3. ASSUME NEW T \in SUBSET Targets, NEW online, NEW lapsed, Schedule(T, online, lapsed)
      PROVE  UnreportedIsBlank'
  <2>1. \A a \in Row : evidence'[a] = evidence[a] \/ a \in T
    BY <1>3, ScheduleEvidence
  <2>2. \A a \in T : address[a].role # "none"
    BY DEF Targets, In
  <2>3. QED BY <1>1, <1>3, <2>1, <2>2 DEF Schedule
<1>4. ASSUME NEW a \in Row, address[a].role \in {"candidate", "current"}, NEW old,
             NEW s \in Streak, NEW p, Settle(a, old, s, p),
             \A b \in Row \ {a} : evidence'[b] = evidence[b]
      PROVE  UnreportedIsBlank'
  <2>1. \A b \in Row : address'[b].role = "none" => b # a /\ address[b].role = "none"
    BY <1>4, SettleRows
  <2>2. QED BY <1>1, <1>4, <2>1
<1>5. ASSUME NEW n \in Round, NEW expired \in BOOLEAN, Close(n, expired) PROVE UnreportedIsBlank'
  <2>1. ASSUME NEW a \in Row, NEW result \in Outcome \cup {"unknown"}, NEW s \in Streak,
               NEW p \in BOOLEAN, Decides(n, a, result, s), Settle(a, address[a].streak, s, p)
        PROVE  UnreportedIsBlank'
    <3>1. address[a].role \in {"candidate", "current"}
      BY <2>1 DEF Decides, Targets, In
    <3>2. QED BY <1>4, <2>1, <3>1, DecidesTypes
  <2>2. QED BY <1>1, <1>5, <2>1, CloseRows
<1>6. ASSUME NEW c \in checks, NEW success \in BOOLEAN, Finish(c, success)
      PROVE  UnreportedIsBlank'
  <2>1. ASSUME NEW a \in Row, NEW old \in Streak, NEW s \in Streak, Counts(a, old, s)
        PROVE  UnreportedIsBlank'
    BY <1>4, <2>1, CountsTypes DEF Counts
  <2>2. QED BY <1>1, <1>6, <2>1, FinishRows
<1>7. ASSUME UNCHANGED address, evidence' = evidence \/ evidence' = Forgotten
      PROVE  UnreportedIsBlank'
  BY <1>1, <1>7, ForgottenType
<1>8. CASE Voting \/ \E a \in Row : Start(a)
  BY <1>7, <1>8, VotingRows DEF Start
<1>9. CASE \/ \E mode \in Mode \ {"none"} : SavePolicy(mode)
           \/ RemovePolicy \/ DeleteCheck \/ RestoreCheck
           \/ \E M \in SUBSET Probe : SetMembers(M)
           \/ \E p \in Probe : Revoke(p) \/ Enrol(p)
           \/ UNCHANGED vars
  BY <1>7, <1>9
    DEF SavePolicy, RemovePolicy, DeleteCheck, RestoreCheck, SetMembers, Revoke, Enrol, vars
<1>10. QED BY <1>2, <1>3, <1>5, <1>6, <1>8, <1>9, Zenon DEF Next, Voting

LEMMA ShownStep ==
  ASSUME TypeOK, Orders, UnreportedIsBlank, EvidenceIsShown, [Next]_vars
  PROVE  EvidenceIsShown'
<1>0. address \in [Row -> AddressRow]
  BY DEF TypeOK
<1>1. ASSUME policy'.mode # "none" => policy.mode # "none",
             \A a \in Row :
               \/ evidence'[a].streak = NoStreak
               \/ address'[a].streak = evidence'[a].streak
               \/ /\ evidence'[a].streak.health = evidence[a].streak.health
                  /\ address'[a].streak = address[a].streak
      PROVE  EvidenceIsShown'
  BY <1>1, BlankStreak DEF EvidenceIsShown
<1>2. ASSUME NEW v \in Value \cup {NoValue}, Heartbeat(v) PROVE EvidenceIsShown'
  <2>1. PICK new \in SUBSET {Cardinality(Reported) + 1} :
          /\ \A a \in new : address[a].role = "none"
          /\ \A a \in Row \ new : address'[a] \in {address[a], Put(a)}
          /\ new \subseteq Row
    BY <1>2, HeartbeatRows DEF Orders
  <2>2. \A a \in Row : Put(a).streak = address[a].streak
    BY <1>0 DEF Put, AddressRow
  <2>3. \A a \in Row : evidence'[a].streak = NoStreak \/ address'[a].streak = address[a].streak
    BY <1>2, <2>1, <2>2 DEF UnreportedIsBlank, Heartbeat
  <2>4. QED BY <1>1, <1>2, <2>3 DEF Heartbeat, users
<1>3. ASSUME NEW T \in SUBSET Targets, NEW online, NEW lapsed, Schedule(T, online, lapsed)
      PROVE  EvidenceIsShown'
  <2>1. \A a \in Row : [evidence[a].streak EXCEPT !.good = 0, !.bad = 0].health
                         = evidence[a].streak.health
    BY DEF TypeOK, EvidenceRow, Streak
  <2>2. \A a \in Row : \/ evidence'[a].streak = NoStreak
                       \/ evidence'[a].streak.health = evidence[a].streak.health
    BY <1>3, <2>1, ScheduleEvidence
  <2>3. QED BY <1>1, <1>3, <2>2 DEF Schedule, users
<1>4. ASSUME NEW n \in Round, NEW expired \in BOOLEAN, Close(n, expired) PROVE EvidenceIsShown'
  <2>1. UNCHANGED policy
    BY <1>4, CloseRows DEF users
  <2>2. ASSUME NEW a \in Row, NEW result \in Outcome \cup {"unknown"}, NEW s \in Streak,
               NEW p \in BOOLEAN, Decides(n, a, result, s), Settle(a, address[a].streak, s, p)
        PROVE  EvidenceIsShown'
    <3>1. evidence'[a].streak = s /\ \A b \in Row \ {a} : evidence'[b] = evidence[b]
      BY <2>2, DecidesTypes
    <3>2. address'[a].streak = s /\ \A b \in Row \ {a} : address'[b].streak = address[b].streak
      BY <2>2, SettleRows
    <3>3. QED BY <1>1, <2>1, <3>1, <3>2
  <2>3. QED BY <1>1, <1>4, <2>1, <2>2, CloseRows
<1>5. ASSUME NEW c \in checks, NEW success \in BOOLEAN, Finish(c, success) PROVE EvidenceIsShown'
  <2>1. UNCHANGED policy
    BY <1>5, FinishRows DEF users
  <2>2. ASSUME NEW a \in Row, NEW old \in Streak, NEW s \in Streak, Counts(a, old, s),
               policy.mode # "none"
        PROVE  EvidenceIsShown'
    <3>1. evidence'[a].streak = s /\ \A b \in Row \ {a} : evidence'[b] = evidence[b]
      BY <2>2, CountsTypes
    <3>2. address'[a].streak = s /\ \A b \in Row \ {a} : address'[b].streak = address[b].streak
      BY <2>2, SettleRows DEF Counts
    <3>3. QED BY <1>1, <2>1, <3>1, <3>2
  <2>3. CASE policy.mode = "none"
    BY <2>1, <2>3 DEF EvidenceIsShown
  <2>4. QED BY <1>1, <1>5, <2>1, <2>2, <2>3, FinishRows
<1>6. CASE Voting \/ \E a \in Row : Start(a)
  BY <1>1, <1>6, VotingRows DEF Start, users
<1>7. CASE RemovePolicy \/ DeleteCheck
  <2>1. policy'.mode = "none"
    BY <1>7 DEF RemovePolicy, DeleteCheck, TypeOK
  <2>2. QED BY <2>1 DEF EvidenceIsShown
<1>8. ASSUME NEW mode \in Mode \ {"none"}, SavePolicy(mode) PROVE EvidenceIsShown'
  BY <1>8, ForgottenType, BlankStreak DEF SavePolicy, EvidenceIsShown
<1>9. CASE \/ RestoreCheck
           \/ \E M \in SUBSET Probe : SetMembers(M)
           \/ \E p \in Probe : Revoke(p) \/ Enrol(p)
           \/ UNCHANGED vars
  BY <1>1, <1>9 DEF RestoreCheck, SetMembers, Revoke, Enrol, vars, users
<1>10. QED BY <1>2, <1>3, <1>4, <1>5, <1>6, <1>7, <1>8, <1>9, Zenon DEF Next, Voting

\* A result of a current address that the pool is not told leaves its health
\* as it was.
LEMMA SettleTells ==
  ASSUME TypeOK, OneEach, PoolIsTold, NEW a \in Row,
         address[a].role \in {"candidate", "current"},
         NEW old, NEW s \in Streak, NEW p, Settle(a, old, s, p),
         s.health \in {"healthy", "unhealthy"} /\ old.health = s.health
           => address[a].streak.health = s.health
  PROVE  PoolIsTold'
<1>1. /\ address'[a].streak = s
      /\ \A b \in Row \ {a} : address'[b].streak = address[b].streak
  BY SettleRows
<1>2. CASE Promotes(a, s, p)
  <2>1. address'[a].role = "current" /\ \A b \in Row \ {a} : address'[b].role # "current"
    BY <1>2, SettleRows
  <2>2. told' = [row |-> a, health |-> s.health]
    BY <1>1, <1>2, <2>1, SettleTold, TellOne
  <2>3. a # NoRow
    BY DEF Row, NoRow
  <2>4. QED BY <1>1, <2>1, <2>2, <2>3 DEF PoolIsTold, In
<1>3. CASE ~Promotes(a, s, p)
  <2>1. \A b \in Row : address'[b].role = address[b].role
    BY <1>3, SettleRows
  <2>2. CASE address[a].role = "current" /\ Notable(old, s)
    <3>1. \A b \in Row : address'[b].role = "current" => b = a
      BY <2>1, <2>2 DEF OneEach
    <3>2. told' = [row |-> a, health |-> s.health]
      BY <1>1, <2>1, <2>2, <3>1, SettleTold, TellOne
    <3>3. a # NoRow
      BY DEF Row, NoRow
    <3>4. QED BY <1>1, <2>1, <2>2, <3>1, <3>2, <3>3 DEF PoolIsTold, In
  <2>3. CASE ~(address[a].role = "current" /\ Notable(old, s))
    <3>1. UNCHANGED told
      BY <1>3, <2>3, SettleTold
    <3>2. ASSUME NEW b \in Row, address[b].role = "current",
                 address'[b].streak.health \in {"healthy", "unhealthy"}
          PROVE  address[b].streak.health = address'[b].streak.health
      BY <1>1, <2>3, <3>2 DEF Notable
    <3>3. QED BY <2>1, <3>1, <3>2 DEF PoolIsTold, In
  <2>4. QED BY <2>2, <2>3
<1>4. QED BY <1>2, <1>3

LEMMA ToldStep ==
  ASSUME TypeOK, Orders, EvidenceIsShown, PoolIsTold, [Next]_vars
  PROVE  PoolIsTold'
<1>0. address \in [Row -> AddressRow] /\ OneEach
  BY DEF TypeOK, Orders
<1>1. ASSUME UNCHANGED <<address, told>> PROVE PoolIsTold'
  BY <1>1 DEF PoolIsTold, In
<1>2. ASSUME NEW v \in Value \cup {NoValue}, Heartbeat(v) PROVE PoolIsTold'
  <2>1. PICK new \in SUBSET {Cardinality(Reported) + 1} :
          /\ new # {} => v # NoValue
          /\ \A a \in new : address[a].role = "none" /\ address'[a] = NewAddress(v)
          /\ \A a \in Row \ new :
               \/ address'[a] = address[a]
               \/ address'[a] = Put(a) /\ address[a].role = "candidate"
               \/ address'[a] = Put(a) /\ address[a].role = "current" /\ v = NoValue
          /\ v = NoValue => \A a \in Row : address[a].role = "current" => address'[a] = Put(a)
          /\ IF v = NoValue /\ \E a \in Row : address[a].role = "current"
             THEN Tell(address') ELSE UNCHANGED told
    BY <1>2, HeartbeatRows DEF Orders
  <2>2. \A a \in Row : Put(a).role = "previous"
    BY <1>0 DEF Put, AddressRow
  <2>3. \A a \in new : address'[a].role = "candidate"
    BY <2>1 DEF NewAddress
  <2>4. CASE v = NoValue /\ \E a \in Row : address[a].role = "current"
    <3>1. \A a \in Row : address'[a].role # "current"
      BY <2>1, <2>2, <2>3, <2>4
    <3>2. told'.row = NoRow
      BY <2>1, <2>4, <3>1, TellNone
    <3>3. QED BY <3>1, <3>2 DEF PoolIsTold, In
  <2>5. CASE ~(v = NoValue /\ \E a \in Row : address[a].role = "current")
    <3>1. \A a \in Row : /\ address'[a].role = "current" <=> address[a].role = "current"
                         /\ address[a].role = "current" => address'[a] = address[a]
      BY <2>1, <2>2, <2>3, <2>5
    <3>2. UNCHANGED told
      BY <2>1, <2>5
    <3>3. QED BY <3>1, <3>2 DEF PoolIsTold, In
  <2>6. QED BY <2>4, <2>5
<1>3. ASSUME NEW n \in Round, NEW expired \in BOOLEAN, Close(n, expired) PROVE PoolIsTold'
  <2>1. ASSUME NEW a \in Row, NEW result \in Outcome \cup {"unknown"}, NEW s \in Streak,
               NEW p \in BOOLEAN, Decides(n, a, result, s), Settle(a, address[a].streak, s, p)
        PROVE  PoolIsTold'
    <3>1. address[a].role \in {"candidate", "current"}
      BY <2>1 DEF Decides, Targets, In
    <3>2. QED BY <1>0, <2>1, <3>1, SettleTells
  <2>2. QED BY <1>1, <1>3, <2>1, CloseRows
<1>4. ASSUME NEW c \in checks, NEW success \in BOOLEAN, Finish(c, success) PROVE PoolIsTold'
  <2>1. ASSUME NEW a \in Row, NEW old \in Streak, NEW s \in Streak, Counts(a, old, s)
        PROVE  PoolIsTold'
    <3>1. old.health \in {"healthy", "unhealthy"} => address[a].streak.health = old.health
      BY <2>1, BlankStreak DEF Counts, Observation, EvidenceIsShown
    <3>2. QED BY <1>0, <2>1, <3>1, SettleTells DEF Counts
  <2>2. QED BY <1>1, <1>4, <2>1, FinishRows
<1>5. CASE Voting \/ \E a \in Row : Start(a)
  BY <1>1, <1>5, VotingRows DEF Start
<1>6. ASSUME NEW T \in SUBSET Targets, NEW online, NEW lapsed, Schedule(T, online, lapsed)
      PROVE  PoolIsTold'
  BY <1>1, <1>6 DEF Schedule
<1>7. CASE \/ \E mode \in Mode \ {"none"} : SavePolicy(mode)
           \/ RemovePolicy \/ DeleteCheck \/ RestoreCheck
           \/ \E M \in SUBSET Probe : SetMembers(M)
           \/ \E p \in Probe : Revoke(p) \/ Enrol(p)
           \/ UNCHANGED vars
  BY <1>1, <1>7
    DEF SavePolicy, RemovePolicy, DeleteCheck, RestoreCheck, SetMembers, Revoke, Enrol, vars
<1>8. QED BY <1>2, <1>3, <1>4, <1>5, <1>6, <1>7, Zenon DEF Next, Voting

-----------------------------------------------------------------------------
(* Streaks and rounds.                                                     *)

\* What is remembered of the completed rounds, and of the evidence of every
\* address, stays.
RoundsKept ==
  \A n \in Round :
    /\ rounds'[n].status = "completed" <=> rounds[n].status = "completed"
    /\ rounds[n].status = "completed" =>
         /\ rounds'[n].row = rounds[n].row /\ rounds'[n].epoch = rounds[n].epoch
         /\ rounds'[n].result = rounds[n].result

AppliedKept == \A a \in Row : evidence'[a].applied = evidence[a].applied

LEMMA AppliedSame ==
  ASSUME AppliedIsNewest, RoundsKept, AppliedKept
  PROVE  AppliedIsNewest'
BY DEF AppliedIsNewest, RoundsKept, AppliedKept

LEMMA SupersededKept ==
  ASSUME TypeOK, NEW n \in Round, rounds[n].status = "pending",
         rounds' = [rounds EXCEPT ![n] = Superseded]
  PROVE  RoundsKept
BY NoRoundTypes DEF TypeOK, RoundsKept

\* The steps that neither count a round nor delete one.
Uncounting ==
  \/ \E v \in Value \cup {NoValue} : Heartbeat(v)
  \/ Voting \/ \E a \in Row : Start(a)
  \/ \E c \in checks, success \in BOOLEAN : Finish(c, success)
  \/ \E mode \in Mode \ {"none"} : SavePolicy(mode)
  \/ RemovePolicy \/ RestoreCheck
  \/ \E M \in SUBSET Probe : SetMembers(M)
  \/ \E p \in Probe : Revoke(p) \/ Enrol(p)
  \/ UNCHANGED vars

LEMMA UncountingKeeps ==
  ASSUME TypeOK, Uncounting
  PROVE  RoundsKept /\ AppliedKept
<1>1. ASSUME UNCHANGED rounds PROVE RoundsKept
  BY <1>1 DEF RoundsKept
<1>2. ASSUME evidence' = evidence \/ evidence' = Forgotten PROVE AppliedKept
  BY <1>2, ForgottenType DEF AppliedKept
<1>3. CASE \/ \E v \in Value \cup {NoValue} : Heartbeat(v)
           \/ \E a \in Row : Start(a)
           \/ \E mode \in Mode \ {"none"} : SavePolicy(mode)
           \/ RestoreCheck
           \/ \E M \in SUBSET Probe : SetMembers(M)
           \/ \E p \in Probe : Revoke(p) \/ Enrol(p)
           \/ UNCHANGED vars
  BY <1>1, <1>2, <1>3
    DEF Heartbeat, Start, SavePolicy, RestoreCheck, SetMembers, Revoke, Enrol, vars
<1>4. CASE Voting
  BY <1>2, <1>4, VotingRows DEF RoundsKept
<1>5. CASE RemovePolicy
  <2>1. RoundsKept
    BY <1>5, NoRoundTypes DEF RemovePolicy, Pending, RoundsKept
  <2>2. QED BY <1>2, <1>5, <2>1 DEF RemovePolicy
<1>6. ASSUME NEW c \in checks, NEW success \in BOOLEAN, Finish(c, success)
      PROVE  RoundsKept /\ AppliedKept
  <2>1. ASSUME NEW a \in Row, NEW old \in Streak, NEW s \in Streak, Counts(a, old, s)
        PROVE  AppliedKept
    BY <2>1, CountsTypes DEF AppliedKept
  <2>2. QED BY <1>1, <1>2, <1>6, <2>1, FinishRows
<1>7. QED BY <1>3, <1>4, <1>5, <1>6 DEF Uncounting

LEMMA ScheduleKeeps ==
  ASSUME TypeOK, Orders, NEW T \in SUBSET Targets, NEW online, NEW lapsed,
         Schedule(T, online, lapsed)
  PROVE  RoundsKept /\ AppliedKept
<1>1. RoundsKept
  BY ScheduleRounds DEF Orders, RoundsKept
<1>2. QED BY <1>1, ScheduleEvidence DEF AppliedKept

LEMMA AppliedStep ==
  ASSUME TypeOK, Orders, AppliedIsNewest, [Next]_vars
  PROVE  AppliedIsNewest'
<1>1. CASE Uncounting
  BY <1>1, UncountingKeeps, AppliedSame
<1>2. ASSUME NEW T \in SUBSET Targets, NEW online, NEW lapsed, Schedule(T, online, lapsed)
      PROVE  AppliedIsNewest'
  BY <1>2, ScheduleKeeps, AppliedSame
<1>3. CASE DeleteCheck
  <2>1. \A n \in Round : rounds'[n].status # "completed"
    BY <1>3, NoRoundTypes DEF DeleteCheck
  <2>2. QED BY <2>1 DEF AppliedIsNewest
<1>4. ASSUME NEW n \in Round, NEW expired \in BOOLEAN, Close(n, expired) PROVE AppliedIsNewest'
  <2>1. ASSUME rounds' = [rounds EXCEPT ![n] = Superseded], UNCHANGED evidence
        PROVE  AppliedIsNewest'
    BY <1>4, <2>1, CloseRows, SupersededKept, AppliedSame DEF AppliedKept
  <2>2. ASSUME NEW a \in Row, NEW result \in Outcome \cup {"unknown"}, NEW s \in Streak,
               Decides(n, a, result, s)
        PROVE  AppliedIsNewest'
    <3>1. SUFFICES ASSUME NEW m \in Round, rounds'[m].status = "completed"
                   PROVE  rounds'[m].row \in Row /\ m <= evidence'[rounds'[m].row].applied
      BY DEF AppliedIsNewest
    <3>2. /\ rounds'[n].row = a /\ evidence'[a].applied = n
          /\ \A k \in Round \ {n} : rounds'[k] = rounds[k]
          /\ \A b \in Row \ {a} : evidence'[b] = evidence[b]
      BY <2>2, DecidesTypes
    <3>3. evidence[a].applied < n /\ evidence[a].applied \in Int
      BY <2>2 DEF Decides, TypeOK, EvidenceRow
    <3>4. CASE m = n
      BY <3>2, <3>4 DEF Round
    <3>5. CASE m # n
      <4>1. rounds[m].row \in Row /\ m <= evidence[rounds[m].row].applied /\ rounds'[m] = rounds[m]
        BY <3>1, <3>2, <3>5 DEF AppliedIsNewest
      <4>2. QED BY <3>2, <3>3, <4>1 DEF Round
    <3>6. QED BY <3>4, <3>5
  <2>3. QED BY <1>4, <2>1, <2>2, CloseRows
<1>5. QED
  BY <1>1, <1>2, <1>3, <1>4, Zenon DEF Next, Uncounting, Voting

LEMMA EpochsStep ==
  ASSUME TypeOK, EpochsAreKnown, [Next]_vars
  PROVE  EpochsAreKnown'
<1>0. /\ policy.revision \in Nat /\ group.revision \in Nat
      /\ \A a \in Row : evidence[a].epoch \in [policy : Nat, group : Nat]
  BY DEF TypeOK, EvidenceRow, EpochSet
<1>1. Epoch.policy = policy.revision /\ Epoch.group <= group.revision
  BY <1>0 DEF Epoch
<1>2. ASSUME policy'.revision \in {policy.revision, policy.revision + 1},
             group'.revision \in {group.revision, group.revision + 1},
             \A a \in Row : evidence'[a].epoch \in {evidence[a].epoch, Epoch}
      PROVE  EpochsAreKnown'
  <2> SUFFICES ASSUME NEW a \in Row
               PROVE  /\ evidence'[a].epoch.policy <= policy'.revision
                      /\ evidence'[a].epoch.group <= group'.revision
    BY DEF EpochsAreKnown
  <2>1. /\ evidence'[a].epoch.policy <= policy.revision
        /\ evidence'[a].epoch.group <= group.revision
        /\ evidence'[a].epoch.policy \in Nat /\ evidence'[a].epoch.group \in Nat
    <3>1. Epoch \in [policy : Nat, group : Nat]
      BY EpochType DEF EpochSet
    <3>2. QED BY <1>0, <1>1, <1>2, <3>1 DEF EpochsAreKnown
  <2>2. QED BY <1>0, <1>2, <2>1
<1>3. ASSUME UNCHANGED <<policy, group>>,
             \A a \in Row : evidence'[a].epoch \in {evidence[a].epoch, Epoch}
      PROVE  EpochsAreKnown'
  BY <1>0, <1>2, <1>3
<1>4. ASSUME NEW T \in SUBSET Targets, NEW online, NEW lapsed, Schedule(T, online, lapsed)
      PROVE  EpochsAreKnown'
  BY <1>3, <1>4, ScheduleEvidence DEF Schedule, users
<1>5. ASSUME NEW n \in Round, NEW expired \in BOOLEAN, Close(n, expired) PROVE EpochsAreKnown'
  <2>1. UNCHANGED <<policy, group>>
    BY <1>5, CloseRows DEF users
  <2>2. ASSUME NEW a \in Row, NEW result \in Outcome \cup {"unknown"}, NEW s \in Streak,
               Decides(n, a, result, s)
        PROVE  EpochsAreKnown'
    BY <1>3, <2>1, <2>2, DecidesTypes
  <2>3. QED BY <1>3, <1>5, <2>1, <2>2, CloseRows
<1>6. ASSUME NEW c \in checks, NEW success \in BOOLEAN, Finish(c, success) PROVE EpochsAreKnown'
  <2>1. UNCHANGED <<policy, group>>
    BY <1>6, FinishRows DEF users
  <2>2. ASSUME NEW a \in Row, NEW old \in Streak, NEW s \in Streak, Counts(a, old, s)
        PROVE  EpochsAreKnown'
    <3>1. \A b \in Row : evidence'[b].epoch \in {evidence[b].epoch, Epoch}
      BY <2>2, CountsTypes
    <3>2. QED BY <1>3, <2>1, <3>1
  <2>3. QED BY <1>3, <1>6, <2>1, <2>2, FinishRows
<1>7. CASE Voting
  BY <1>3, <1>7, VotingRows DEF users
<1>8. CASE \/ \E v \in Value \cup {NoValue} : Heartbeat(v)
           \/ \E a \in Row : Start(a)
           \/ \E p \in Probe : Revoke(p) \/ Enrol(p)
           \/ RestoreCheck \/ UNCHANGED vars
  BY <1>3, <1>8 DEF Heartbeat, Start, Revoke, Enrol, RestoreCheck, vars, users
<1>9. ASSUME NEW mode \in Mode \ {"none"}, SavePolicy(mode) PROVE EpochsAreKnown'
  BY <1>2, <1>9, ForgottenType DEF SavePolicy
<1>10. CASE RemovePolicy
  BY <1>2, <1>10, ForgottenType DEF RemovePolicy
<1>11. CASE DeleteCheck
  <2>1. policy'.revision = policy.revision
    BY <1>11 DEF DeleteCheck, TypeOK
  <2>2. QED BY <1>2, <1>11, <2>1 DEF DeleteCheck
<1>12. ASSUME NEW M \in SUBSET Probe, SetMembers(M) PROVE EpochsAreKnown'
  BY <1>2, <1>12 DEF SetMembers
<1>13. QED
  BY <1>4, <1>5, <1>6, <1>7, <1>8, <1>9, <1>10, <1>11, <1>12, Zenon DEF Next, Voting

LEMMA EmptyEnd ==
  ASSUME NEW a, NEW result
  PROVE  EndsWith(a, 0, result) /\ EndsWith(a, 0, result)'
BY FS_EmptySet DEF EndsWith

LEMMA SameEnd ==
  ASSUME NEW a, NEW k, NEW result, EndsWith(a, k, result), Counted(a)' = Counted(a),
         \A n \in Counted(a) : rounds'[n].result = rounds[n].result
  PROVE  EndsWith(a, k, result)'
<1>1. PICK R \in SUBSET Counted(a) :
        /\ Cardinality(R) = k
        /\ \A n \in R : /\ rounds[n].result = result
                        /\ \A m \in Counted(a) \ R : m < n
  BY DEF EndsWith
<1>2. QED BY <1>1 DEF EndsWith

\* A round is dropped from as many as the threshold.
LEMMA WithoutOldest ==
  ASSUME NEW R \in SUBSET Round, NEW k \in Nat \ {0}, Cardinality(R) = k
  PROVE  \E x \in R : /\ \A y \in R \ {x} : x < y
                      /\ Cardinality(R \ {x}) = k - 1
<1>1. IsFiniteSet(R)
  <2>1. IsFiniteSet(Round)
    BY FS_Interval, ProbesAssumption DEF Round
  <2>2. QED BY <2>1, FS_Subset
<1>2. R # {}
  BY FS_EmptySet
<1>3. PICK x \in R : \A y \in R : ~(<<y, x>> \in OpToRel(<, Nat))
  <2>1. R \subseteq Nat
    BY DEF Round
  <2>2. QED BY <1>2, <2>1, NatLessThanWellFounded, WFMin
<1>4. ASSUME NEW y \in R \ {x} PROVE x < y
  <2>1. x \in Nat /\ y \in Nat
    BY DEF Round
  <2>2. ~(y < x)
    BY <1>3, <2>1 DEF OpToRel
  <2>3. QED BY <2>1, <2>2
<1>5. Cardinality(R \ {x}) = k - 1
  BY <1>1, FS_RemoveElement
<1>6. QED BY <1>4, <1>5

\* One more round that is newer than all that are counted lengthens the streak,
\* up to its threshold.
LEMMA OneMoreRound ==
  ASSUME NEW a, NEW t \in Nat \ {0}, NEW k \in 0 .. t, NEW j, j = OneMore(k, t),
         NEW result, EndsWith(a, k, result),
         NEW n \in Round, \A m \in Counted(a) : m < n,
         Counted(a)' = Counted(a) \cup {n}, rounds'[n].result = result,
         \A m \in Counted(a) : rounds'[m].result = rounds[m].result
  PROVE  EndsWith(a, j, result)'
<1> DEFINE C == Counted(a)
<1>1. PICK R \in SUBSET C :
        /\ Cardinality(R) = k
        /\ \A m \in R : /\ rounds[m].result = result
                        /\ \A l \in C \ R : l < m
  BY DEF EndsWith
<1>0. C \subseteq Round /\ Round \subseteq Nat /\ n \in Nat
  BY DEF Counted, Round
<1>2. ASSUME NEW S \in SUBSET R, Cardinality(S) = j - 1, \A m \in S, l \in R \ S : l < m
      PROVE  EndsWith(a, j, result)'
  <2>1. n \notin C
    BY <1>0
  <2>2. IsFiniteSet(S)
    <3>1. IsFiniteSet(Round)
      BY FS_Interval, ProbesAssumption DEF Round
    <3>2. QED BY <1>0, <3>1, FS_Subset
  <2>3. Cardinality(S \cup {n}) = j
    <3>1. j \in Nat
      BY DEF OneMore
    <3>2. n \notin S
      BY <2>1
    <3>3. Cardinality(S \cup {n}) = Cardinality(S) + 1
      BY <2>2, <3>2, FS_AddElement
    <3>4. QED BY <1>2, <3>1, <3>3
  <2> DEFINE T == S \cup {n}
  <2>4. T \in SUBSET (C \cup {n})
    OBVIOUS
  <2>5. ASSUME NEW m \in T
        PROVE  rounds'[m].result = result /\ \A l \in (C \cup {n}) \ T : l < m
    <3>1. CASE m = n
      BY <3>1
    <3>2. CASE m \in S
      <4>1. rounds'[m].result = result
        BY <1>1, <3>2
      <4>2. ASSUME NEW l \in C \ S PROVE l < m
        <5>1. CASE l \in R
          BY <1>2, <3>2, <5>1
        <5>2. CASE l \notin R
          BY <1>1, <3>2, <5>2
        <5>3. QED BY <5>1, <5>2
      <4>3. QED BY <4>1, <4>2
    <3>3. QED BY <3>1, <3>2
  <2>6. Counted(a)' = C \cup {n}
    OBVIOUS
  <2> HIDE DEF T, C
  <2>7. \E U \in SUBSET Counted(a)' :
          /\ Cardinality(U) = j
          /\ \A m \in U : rounds'[m].result = result /\ \A l \in Counted(a)' \ U : l < m
    <3>1. Cardinality(T) = j
      BY <2>3 DEF T
    <3>2. QED BY <2>4, <2>5, <2>6, <3>1
  <2>8. QED BY <2>7 DEF EndsWith
<1>3. CASE k < t
  <2>1. j - 1 = k
    BY <1>3 DEF OneMore
  <2>2. QED BY <1>1, <1>2, <2>1
<1>4. CASE k = t
  <2>1. j = k /\ k \in Nat \ {0}
    BY <1>4 DEF OneMore
  <2>2. R \in SUBSET Round
    BY <1>0
  <2>3. PICK x \in R : /\ \A y \in R \ {x} : x < y
                       /\ Cardinality(R \ {x}) = k - 1
    BY <1>1, <2>1, <2>2, WithoutOldest
  <2>4. QED BY <1>2, <2>1, <2>3
<1>5. QED BY <1>3, <1>4

LEMMA CountedSame ==
  ASSUME RoundsKept, Epoch' = Epoch, NEW a
  PROVE  /\ Counted(a)' = Counted(a)
         /\ \A n \in Counted(a) : rounds'[n].result = rounds[n].result
<1>1. ASSUME NEW n \in Round
      PROVE  (rounds'[n].row = a /\ rounds'[n].epoch = Epoch' /\ rounds'[n].status = "completed")
             <=> (rounds[n].row = a /\ rounds[n].epoch = Epoch /\ rounds[n].status = "completed")
  BY DEF RoundsKept
<1>2. Counted(a)' = Counted(a)
  BY <1>1 DEF Counted
<1>3. QED BY <1>2 DEF Counted, RoundsKept

\* The policy and the group stay, and every streak stays or begins anew.
LEMMA StreaksKept ==
  ASSUME TypeOK, EveryStreakIsRounds, RoundsKept, UNCHANGED <<policy, group>>,
         \A a \in Row :
           \/ /\ evidence'[a].epoch = evidence[a].epoch
              /\ evidence'[a].streak = evidence[a].streak
           \/ evidence'[a].streak.good = 0 /\ evidence'[a].streak.bad = 0
  PROVE  EveryStreakIsRounds'
<1>1. Epoch' = Epoch /\ Remote' = Remote
  BY DEF Epoch, Remote
<1> SUFFICES ASSUME NEW a \in Row, NEW k \in Nat, Remote', evidence'[a].epoch = Epoch'
             PROVE  /\ evidence'[a].streak.good = k => EndsWith(a, k, "success")'
                    /\ evidence'[a].streak.bad = k => EndsWith(a, k, "failure")'
  BY DEF EveryStreakIsRounds
<1>2. CASE evidence'[a].streak.good = 0 /\ evidence'[a].streak.bad = 0
  BY <1>2, EmptyEnd
<1>3. CASE evidence'[a].epoch = evidence[a].epoch /\ evidence'[a].streak = evidence[a].streak
  <2>1. /\ evidence[a].streak.good = k => EndsWith(a, k, "success")
        /\ evidence[a].streak.bad = k => EndsWith(a, k, "failure")
    BY <1>1, <1>3 DEF EveryStreakIsRounds
  <2>2. \A result : EndsWith(a, k, result) => EndsWith(a, k, result)'
    BY <1>1, CountedSame, SameEnd
  <2>3. QED BY <1>3, <2>1, <2>2
<1>4. QED BY <1>2, <1>3

LEMMA DecidesStreaks ==
  ASSUME TypeOK, AppliedIsNewest, EveryStreakIsRounds, UNCHANGED <<policy, group>>,
         NEW n \in Round, rounds[n].status = "pending",
         NEW a \in Row, NEW result \in Outcome \cup {"unknown"}, NEW s \in Streak,
         Decides(n, a, result, s)
  PROVE  EveryStreakIsRounds'
<1>1. Epoch' = Epoch /\ Remote' = Remote
  BY DEF Epoch, Remote
<1>2. /\ rounds'[n].status = "completed" /\ rounds'[n].row = a /\ rounds'[n].epoch = Epoch
      /\ rounds'[n].result = result
      /\ \A m \in Round \ {n} : rounds'[m] = rounds[m]
      /\ evidence'[a].streak = s
      /\ \A b \in Row \ {a} : evidence'[b] = evidence[b]
  BY DecidesTypes
<1>3. n \notin Counted(a) /\ Counted(a)' = Counted(a) \cup {n}
  BY <1>1, <1>2 DEF Counted
<1>4. \A m \in Counted(a) : m < n /\ rounds'[m].result = rounds[m].result
  <2>1. evidence[a].applied < n /\ evidence[a].applied \in Int
    BY DEF Decides, TypeOK, EvidenceRow
  <2>2. \A m \in Counted(a) : m <= evidence[a].applied /\ m \in Int /\ m # n
    BY <1>3 DEF AppliedIsNewest, Counted, Round
  <2>3. QED BY <1>2, <2>1, <2>2 DEF Counted, Round
<1>5. ASSUME NEW b \in Row \ {a}
      PROVE  /\ Counted(b)' = Counted(b)
             /\ \A m \in Counted(b) : rounds'[m].result = rounds[m].result
  <2>1. \A m \in Round : m \in Counted(b)' <=> m \in Counted(b)
    BY <1>1, <1>2, <1>5 DEF Counted
  <2>2. n \notin Counted(b)
    BY DEF Counted
  <2>3. Counted(b)' \subseteq Round /\ Counted(b) \subseteq Round
    BY DEF Counted
  <2>4. QED BY <1>2, <2>1, <2>2, <2>3
<1> SUFFICES ASSUME NEW b \in Row, NEW k \in Nat, Remote', evidence'[b].epoch = Epoch'
             PROVE  /\ evidence'[b].streak.good = k => EndsWith(b, k, "success")'
                    /\ evidence'[b].streak.bad = k => EndsWith(b, k, "failure")'
  BY DEF EveryStreakIsRounds
<1>6. CASE b # a
  <2>1. /\ evidence[b].streak.good = k => EndsWith(b, k, "success")
        /\ evidence[b].streak.bad = k => EndsWith(b, k, "failure")
    BY <1>1, <1>2, <1>6 DEF EveryStreakIsRounds
  <2>2. \A r : EndsWith(b, k, r) => EndsWith(b, k, r)'
    BY <1>5, <1>6, SameEnd
  <2>3. QED BY <1>2, <1>6, <2>1, <2>2
<1>7. CASE b = a
  <2>0. /\ evidence[a].streak \in Streak /\ evidence[a].epoch = Epoch /\ Remote
        /\ s = Advance(evidence[a].streak, result)
    BY DEF Decides, TypeOK, EvidenceRow
  <2> DEFINE g == evidence[a].streak.good
             f == evidence[a].streak.bad
  <2>1. /\ g \in 0 .. SuccessThreshold /\ f \in 0 .. FailureThreshold
        /\ {SuccessThreshold, FailureThreshold} \subseteq Nat \ {0}
    BY <2>0, ProbesAssumption DEF Streak
  <2>2. EndsWith(a, g, "success") /\ EndsWith(a, f, "failure")
    <3>1. g \in Nat /\ f \in Nat
      BY <2>1
    <3>2. QED BY <2>0, <3>1 DEF EveryStreakIsRounds
  <2>3. CASE result = "success"
    <3>1. s.good = OneMore(g, SuccessThreshold) /\ s.bad = 0
      BY <2>0, <2>3, SucceedType DEF Advance
    <3>2. s.good = k => EndsWith(a, k, "success")'
      <4>1. PICK x \in 0 .. SuccessThreshold : x = g
        BY <2>1
      <4>2. EndsWith(a, x, "success") /\ rounds'[n].result = "success"
        BY <1>2, <2>2, <2>3, <4>1
      <4>3. SuccessThreshold \in Nat \ {0}
        BY <2>1
      <4>4. ASSUME NEW y, y = OneMore(x, SuccessThreshold) PROVE EndsWith(a, y, "success")'
        BY <1>3, <1>4, <4>2, <4>3, <4>4, OneMoreRound
      <4>5. QED BY <3>1, <4>1, <4>4
    <3>3. QED BY <1>2, <1>7, <3>1, <3>2, EmptyEnd
  <2>4. CASE result = "failure"
    <3>1. s.bad = OneMore(f, FailureThreshold) /\ s.good = 0
      BY <2>0, <2>4, FailType DEF Advance
    <3>2. s.bad = k => EndsWith(a, k, "failure")'
      <4>1. PICK x \in 0 .. FailureThreshold : x = f
        BY <2>1
      <4>2. EndsWith(a, x, "failure") /\ rounds'[n].result = "failure"
        BY <1>2, <2>2, <2>4, <4>1
      <4>3. FailureThreshold \in Nat \ {0}
        BY <2>1
      <4>4. ASSUME NEW y, y = OneMore(x, FailureThreshold) PROVE EndsWith(a, y, "failure")'
        BY <1>3, <1>4, <4>2, <4>3, <4>4, OneMoreRound
      <4>5. QED BY <3>1, <4>1, <4>4
    <3>3. QED BY <1>2, <1>7, <3>1, <3>2, EmptyEnd
  <2>5. CASE result = "unknown"
    <3>1. s.good = 0 /\ s.bad = 0
      BY <2>0, <2>5 DEF Advance, Streak
    <3>2. QED BY <1>2, <1>7, <3>1, EmptyEnd
  <2>6. QED BY <2>3, <2>4, <2>5 DEF Outcome
<1>8. QED BY <1>6, <1>7

LEMMA StreaksStep ==
  ASSUME TypeOK, Orders, AppliedIsNewest, EpochsAreKnown, EveryStreakIsRounds, [Next]_vars
  PROVE  EveryStreakIsRounds'
<1>0. \A a \in Row : evidence[a].streak \in Streak
  BY DEF TypeOK, EvidenceRow
<1>1. ASSUME policy'.mode \notin {"external", "mixed"} PROVE EveryStreakIsRounds'
  BY <1>1 DEF EveryStreakIsRounds, Remote
<1>2. ASSUME Uncounting, UNCHANGED <<policy, group, evidence>> PROVE EveryStreakIsRounds'
  BY <1>2, UncountingKeeps, StreaksKept
<1>3. CASE \/ \E v \in Value \cup {NoValue} : Heartbeat(v)
           \/ Voting \/ \E a \in Row : Start(a)
           \/ RestoreCheck \/ (\E p \in Probe : Revoke(p) \/ Enrol(p)) \/ UNCHANGED vars
  <2>1. UNCHANGED <<policy, group, evidence>>
    BY <1>3, VotingRows DEF Heartbeat, Start, RestoreCheck, Revoke, Enrol, vars, users
  <2>2. Uncounting
    BY <1>3, Zenon DEF Uncounting
  <2>3. QED BY <1>2, <2>1, <2>2
<1>4. ASSUME NEW T \in SUBSET Targets, NEW online, NEW lapsed, Schedule(T, online, lapsed)
      PROVE  EveryStreakIsRounds'
  <2>1. \A s \in Streak : /\ [s EXCEPT !.good = 0, !.bad = 0].good = 0
                          /\ [s EXCEPT !.good = 0, !.bad = 0].bad = 0
    BY DEF Streak
  <2>2. \A a \in Row : \/ /\ evidence'[a].epoch = evidence[a].epoch
                          /\ evidence'[a].streak = evidence[a].streak
                       \/ evidence'[a].streak.good = 0 /\ evidence'[a].streak.bad = 0
    <3>1. ASSUME NEW a \in Row
          PROVE  \/ evidence'[a] = evidence[a]
                 \/ evidence'[a].streak = NoStreak
                 \/ evidence'[a].streak = [evidence[a].streak EXCEPT !.good = 0, !.bad = 0]
      BY <1>4, <3>1, ScheduleEvidence
    <3>2. \A a \in Row : evidence'[a] = evidence[a] =>
            /\ evidence'[a].epoch = evidence[a].epoch
            /\ evidence'[a].streak = evidence[a].streak
      BY Zenon
    <3>3. \A a \in Row : evidence'[a].streak = NoStreak =>
            evidence'[a].streak.good = 0 /\ evidence'[a].streak.bad = 0
      BY BlankStreak, Zenon
    <3>4. \A a \in Row :
            evidence'[a].streak = [evidence[a].streak EXCEPT !.good = 0, !.bad = 0] =>
              evidence'[a].streak.good = 0 /\ evidence'[a].streak.bad = 0
      BY <1>0, <2>1, Zenon
    <3>5. QED BY <3>1, <3>2, <3>3, <3>4, Zenon
  <2>3. RoundsKept /\ UNCHANGED <<policy, group>>
    BY <1>4, ScheduleKeeps DEF Schedule, users
  <2>4. QED BY <2>2, <2>3, StreaksKept
<1>5. ASSUME NEW n \in Round, NEW expired \in BOOLEAN, Close(n, expired)
      PROVE  EveryStreakIsRounds'
  <2>1. UNCHANGED <<policy, group>> /\ rounds[n].status = "pending"
    BY <1>5, CloseRows DEF users
  <2>2. ASSUME rounds' = [rounds EXCEPT ![n] = Superseded], UNCHANGED evidence
        PROVE  EveryStreakIsRounds'
    <3>1. RoundsKept
      BY <2>1, <2>2, SupersededKept
    <3>2. QED BY <2>1, <2>2, <3>1, StreaksKept
  <2>3. ASSUME NEW a \in Row, NEW result \in Outcome \cup {"unknown"}, NEW s \in Streak,
               Decides(n, a, result, s)
        PROVE  EveryStreakIsRounds'
    BY <2>1, <2>3, DecidesStreaks
  <2>4. QED BY <1>5, <2>2, <2>3, CloseRows
<1>6. ASSUME NEW c \in checks, NEW success \in BOOLEAN, Finish(c, success)
      PROVE  EveryStreakIsRounds'
  <2>1. UNCHANGED <<policy, group>>
    BY <1>6, FinishRows DEF users
  <2>2. ASSUME NEW a \in Row, NEW old \in Streak, NEW s \in Streak, Counts(a, old, s)
        PROVE  EveryStreakIsRounds'
    BY <1>1, <2>1, <2>2 DEF Counts, Remote
  <2>3. CASE UNCHANGED evidence
    BY <1>2, <1>6, <2>1, <2>3 DEF Uncounting
  <2>4. QED BY <1>6, <2>2, <2>3, FinishRows
<1>7. ASSUME NEW mode \in Mode \ {"none"}, SavePolicy(mode) PROVE EveryStreakIsRounds'
  <2>1. \A a \in Row : evidence'[a].streak = NoStreak
    BY <1>7, ForgottenType DEF SavePolicy
  <2>2. QED BY <2>1, BlankStreak, EmptyEnd DEF EveryStreakIsRounds
<1>8. CASE RemovePolicy \/ DeleteCheck
  <2>1. policy'.mode = "none"
    BY <1>8 DEF RemovePolicy, DeleteCheck, TypeOK
  <2>2. QED BY <1>1, <2>1
<1>9. ASSUME NEW M \in SUBSET Probe, SetMembers(M) PROVE EveryStreakIsRounds'
  <2>1. UNCHANGED <<policy, evidence>> /\ group'.revision = group.revision + 1
    BY <1>9 DEF SetMembers
  <2>2. CASE Remote
    <3>1. Epoch'.group = group.revision + 1
      BY <2>1, <2>2 DEF Epoch, Remote
    <3>2. ASSUME NEW a \in Row PROVE evidence'[a].epoch # Epoch'
      <4>1. /\ evidence[a].epoch.group <= group.revision
            /\ evidence[a].epoch.group \in Nat /\ group.revision \in Nat
        BY DEF EpochsAreKnown, TypeOK, EvidenceRow, EpochSet
      <4>2. QED BY <2>1, <3>1, <4>1
    <3>3. QED BY <3>2 DEF EveryStreakIsRounds
  <2>3. CASE ~Remote
    BY <1>1, <2>1, <2>3 DEF Remote
  <2>4. QED BY <2>2, <2>3
<1>10. QED
  BY <1>3, <1>4, <1>5, <1>6, <1>7, <1>8, <1>9, Zenon DEF Next, Voting

-----------------------------------------------------------------------------
(* The theorems.                                                           *)

LEMMA InvInit == Init => IInv
<1> SUFFICES ASSUME Init PROVE IInv
  OBVIOUS
<1>0. TypeOK
  BY TypeInit
<1>1. \A a \in Row : address[a].role = "none" /\ evidence[a].streak = NoStreak
  BY DEF Init
<1>2. \A n \in Round : rounds[n].status = "none"
  BY NoRoundTypes DEF Init
<1>3. Reported = {} /\ Created = {}
  BY <1>1, <1>2 DEF Reported, Created
<1>4. RowsInOrder /\ RoundsInOrder
  <2>1. Cardinality({}) = 0 /\ 1 .. 0 = {}
    BY FS_EmptySet
  <2>2. QED BY <1>3, <2>1 DEF RowsInOrder, RoundsInOrder
<1>5. OneEach /\ UnreportedIsBlank /\ AppliedIsNewest
  BY <1>1, <1>2 DEF OneEach, UnreportedIsBlank, AppliedIsNewest
<1>6. EvidenceIsShown
  BY <1>1, BlankStreak DEF EvidenceIsShown
<1>7. EpochsAreKnown
  BY DEF Init, EpochsAreKnown, NoEpoch
<1>8. EveryStreakIsRounds
  BY <1>1, BlankStreak, EmptyEnd DEF EveryStreakIsRounds
<1>9. PoolIsTold
  BY <1>1 DEF Init, PoolIsTold, In
<1>10. QED BY <1>0, <1>4, <1>5, <1>6, <1>7, <1>8, <1>9 DEF IInv, Orders

\* For any number of probes, addresses, rounds and edits: the types, the order of
\* addresses and rounds, what evidence may carry, and the streaks of all
\* addresses (heartbeat, schedulePolicy, closeRound, applyObserved).
THEOREM ProbesInvariant == Spec => []IInv
<1>1. IInv /\ [Next]_vars => IInv'
  BY TypeStep, OrdersStep, BlankStep, ShownStep, AppliedStep, EpochsStep, StreaksStep, ToldStep
    DEF IInv
<1>2. QED BY InvInit, <1>1, PTL DEF Spec

\* For every consensus and both thresholds, the streak of a target is no longer
\* than its newest rounds were decided alike, under the policy and the group of
\* now (advanceRoundHealth and closeRound).
THEOREM StreaksAreRoundsAlways == Spec => []StreaksAreRounds
<1>1. IInv => StreaksAreRounds
  <2> SUFFICES ASSUME IInv, NEW a \in Targets, Remote, evidence[a].epoch = Epoch
               PROVE  /\ EndsWith(a, evidence[a].streak.good, "success")
                      /\ EndsWith(a, evidence[a].streak.bad, "failure")
    BY DEF StreaksAreRounds
  <2>1. a \in Row
    BY DEF Targets, In
  <2>2. evidence[a].streak.good \in Nat /\ evidence[a].streak.bad \in Nat
    BY <2>1, ProbesAssumption DEF IInv, TypeOK, EvidenceRow, Streak
  <2>3. QED BY <2>1, <2>2 DEF IInv, EveryStreakIsRounds
<1>2. QED BY ProbesInvariant, <1>1, PTL

\* For any number of addresses and of results from both sources, the pool has
\* been told of the address that the endpoint has and of its health
\* (applyObserved, heartbeat).
THEOREM PoolIsToldAlways == Spec => []PoolIsTold
BY ProbesInvariant, PTL DEF IInv

LEMMA PromotedByRounds ==
  ASSUME IInv, IInv', [Next]_vars, NEW a \in Row,
         address[a].role # "current", address'[a].role = "current", Remote
  PROVE  EndsWith(a, SuccessThreshold, "success")'
<1>0. address \in [Row -> AddressRow] /\ TypeOK /\ Orders /\ EveryStreakIsRounds'
  BY DEF IInv, TypeOK
<1>1. ASSUME NEW n \in Round, NEW expired \in BOOLEAN, Close(n, expired)
      PROVE  EndsWith(a, SuccessThreshold, "success")'
  <2>1. PICK b \in Row, result \in Outcome \cup {"unknown"}, s \in Streak, p \in BOOLEAN :
          /\ Decides(n, b, result, s)
          /\ p => result = "success" /\ s.good >= SuccessThreshold
          /\ Settle(b, address[b].streak, s, p)
    BY <1>0, <1>1, CloseRows
  <2>2. b = a /\ Promotes(a, s, p)
    BY <1>0, <2>1, SettleRows
  <2>3. s.good = SuccessThreshold
    BY <2>1, <2>2, ProbesAssumption DEF Promotes, Streak
  <2>4. evidence'[a].streak = s /\ evidence'[a].epoch = Epoch
    BY <1>0, <2>1, <2>2, DecidesTypes
  <2>5. UNCHANGED <<policy, group>>
    BY <1>0, <1>1, CloseRows DEF users
  <2>6. Epoch' = Epoch /\ Remote'
    BY <2>5 DEF Epoch, Remote
  <2>7. QED
    BY <1>0, <2>3, <2>4, <2>6, ProbesAssumption DEF EveryStreakIsRounds
<1>2. ASSUME NEW c \in checks, NEW success \in BOOLEAN, Finish(c, success) PROVE FALSE
  BY <1>0, <1>2, FinishRows DEF Counts
<1>3. ASSUME NEW v \in Value \cup {NoValue}, Heartbeat(v) PROVE FALSE
  <2>1. PICK new \in SUBSET {Cardinality(Reported) + 1} :
          /\ \A b \in new : address'[b] = NewAddress(v)
          /\ \A b \in Row \ new : address'[b] \in {address[b], Put(b)}
    BY <1>0, <1>3, HeartbeatRows DEF Orders
  <2>2. \A b \in Row : \A r : r = Put(b) => r.role = "previous"
    BY <1>0 DEF Put, AddressRow
  <2>3. \A r : r = NewAddress(v) => r.role = "candidate"
    BY DEF NewAddress
  <2>4. CASE a \in new
    <3>1. address'[a] = NewAddress(v)
      BY <2>1, <2>4
    <3>2. address'[a].role = "candidate"
      BY <2>3, <3>1
    <3>3. QED BY <3>2
  <2>5. CASE a \notin new
    <3>1. address'[a] = address[a] \/ address'[a] = Put(a)
      BY <2>1, <2>5
    <3>2. address'[a].role # "current"
      BY <2>2, <3>1
    <3>3. QED BY <3>2
  <2>6. QED BY <2>4, <2>5
<1>4. ASSUME UNCHANGED address PROVE FALSE
  BY <1>4
<1>5. CASE \/ Voting \/ \E b \in Row : Start(b)
           \/ \E T \in SUBSET Targets, online \in SUBSET (group.members \cap active) :
                \E lapsed \in SUBSET T : Schedule(T, online, lapsed)
           \/ \E mode \in Mode \ {"none"} : SavePolicy(mode)
           \/ RemovePolicy \/ DeleteCheck \/ RestoreCheck
           \/ \E M \in SUBSET Probe : SetMembers(M)
           \/ \E p \in Probe : Revoke(p) \/ Enrol(p)
           \/ UNCHANGED vars
  BY <1>0, <1>4, <1>5, VotingRows
    DEF Start, Schedule, SavePolicy, RemovePolicy, DeleteCheck, RestoreCheck, SetMembers, Revoke,
        Enrol, vars
<1>6. QED BY <1>1, <1>2, <1>3, <1>5, Zenon DEF Next, Voting

\* For every consensus and any number of addresses and edits, an address that
\* remote probes decide on becomes the current one only after as many rounds of
\* success, one after the other and the newest ones, as the threshold says
\* (closeRound with applyObserved).
THEOREM PromotionIsVerifiedAlways == Spec => PromotionIsVerified
<1>1. IInv /\ IInv' /\ [Next]_vars =>
        [\A a \in Row : address[a].role # "current" /\ address'[a].role = "current" /\ Remote
           => EndsWith(a, SuccessThreshold, "success")']_vars
  BY PromotedByRounds
<1>2. QED BY ProbesInvariant, <1>1, PTL DEF Spec, PromotionIsVerified

=============================================================================
