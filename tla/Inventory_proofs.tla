--------------------------- MODULE Inventory_proofs ---------------------------
(***************************************************************************)
(* The rotations of a cloud account with its budget, the cleanup of its    *)
(* idle addresses and the scans of its inventory, for any number of slots, *)
(* scans and attempts; and the notifications, for any number of events,    *)
(* channels and faults.                                                    *)
(*                                                                         *)
(* An address is known by the attempt that allocated it.  So what the      *)
(* cloud, the cleanup and the budget may hold is bounded by how far the    *)
(* rotation is: Given is what has been allocated, Bygone what nobody will  *)
(* attach.                                                                 *)
(*                                                                         *)
(* That a message was received once is not inductive: an excuse is given   *)
(* to a call when it loses its lock, and used when the message arrives.    *)
(* The charge of a row counts both, and says when another job may send it. *)
(***************************************************************************)
EXTENDS Inventory, Notifications, FiniteSetTheorems, WellFoundedInduction, TLAPS

\* A number that a rotation has used up, or is using since its allocation.
Given(x) ==
  LET r == rot[x[1]] IN
  \/ x[2] < r.attempt
  \/ x[2] = r.attempt /\ (r.stage = "over" \/ r.step > Allocate \/ r.status = "made")

\* No rotation, of now or later, means to attach it.
Bygone(x) ==
  LET r == rot[x[1]] IN x[2] < r.attempt \/ (x[2] = r.attempt /\ r.stage = "over")

\* The step of a rotation fits its stage, and what is left to clean up is of
\* earlier attempts.
Fits(s) ==
  LET r == rot[s] IN
  /\ r.stage = "cloud" => r.step < Release
  /\ r.stage = "candidate" => r.step = Attach /\ r.status = "prepared"
  /\ r.stage = "cleanup" => r.step = Release
  /\ r.step = Release /\ InFlight(s) => r.left # {}
  /\ \A n \in r.left : n < r.attempt

StagesFit == \A s \in Slot : Fits(s)

\* What the cloud holds, what a scan of the cleanup has listed and what it has
\* begun to release are addresses that a rotation has allocated.
PlacesAreGiven ==
  /\ \A x \in Ip : place[x] # "none" => Given(x)
  /\ \A x \in batch.listed : Given(x)
  /\ \A x \in Ip : item[x].st \notin Settled \cup {"none"} => Given(x)

\* A release under way that may still be sent is of an address that nobody wants.
CallsAreBygone == \A c \in call : c.at \in {"check", "send"} => Bygone(c.ip)

\* No promise of the budget is for an attempt to come.
BookingsAreGiven == \A b \in budget.booked : b[2] <= rot[b[1]].attempt

\* What the rotations and the cleanup owe each other, and what they owe the budget.
Swap == StagesFit /\ PlacesAreGiven /\ CallsAreBygone /\ CandidateIsKept
Quota == BookingsAreGiven /\ WindowHolds /\ AttachIsPaid

-----------------------------------------------------------------------------
(* Numbers.                                                                *)

LEMMA Attempts == 0 .. MaxAttempts \subseteq Nat /\ MaxAttempts \in Nat
BY AccountAssumption

LEMMA Parts ==
  ASSUME NEW x \in Ip
  PROVE  x[1] \in Slot /\ x[2] \in 0 .. MaxAttempts /\ x = <<x[1], x[2]>>
BY DEF Ip

\* A set of numbers that is not empty has a least one, which Oldest chooses.
LEMMA OldestIsLeft ==
  ASSUME NEW s, rot[s].left \in SUBSET (0 .. MaxAttempts), rot[s].left # {}
  PROVE  Oldest(s) \in rot[s].left
<1>1. rot[s].left \in SUBSET Nat
  BY Attempts
<1>2. PICK n \in rot[s].left : \A m \in rot[s].left : ~(<<m, n>> \in OpToRel(<, Nat))
  BY <1>1, NatLessThanWellFounded, WFMin
<1>3. ASSUME NEW m \in rot[s].left PROVE n <= m
  <2>1. ~(<<m, n>> \in OpToRel(<, Nat))
    BY <1>2
  <2>2. m \in Nat /\ n \in Nat
    BY <1>1
  <2>3. ~(m < n)
    BY <2>1, <2>2 DEF OpToRel
  <2> QED BY <2>2, <2>3
<1> QED BY <1>3 DEF Oldest

-----------------------------------------------------------------------------
(* Types.                                                                  *)

LEMMA TypeInit == Init => TypeOK
<1> SUFFICES ASSUME Init PROVE TypeOK
  OBVIOUS
<1> USE Attempts, AccountAssumption DEF Init
<1>1. place \in [Ip -> Place]
  BY DEF Place
<1>2. rot \in [Slot -> Row]
  BY DEF Row, Allocate, Attach, Release
<1>3. item \in [Ip -> Item]
  BY DEF Item, NoItem
<1>4. budget \in [writes : Nat, releases : 0 .. MaxReleases, cooling : BOOLEAN,
                  booked : SUBSET Booking]
  OBVIOUS
<1>5. batch \in [state : {"none", "listed", "preview", "confirmed"}, listed : SUBSET Ip,
                 number : 0 .. MaxBatches]
  OBVIOUS
<1> QED BY <1>1, <1>2, <1>3, <1>4, <1>5 DEF TypeOK

LEMMA KnownInit ==
  ASSUME InventoryInit
  PROVE  /\ known \in [Slot -> Slots] /\ scan \in [Scanner -> Scan]
         /\ edits \in 0 .. MaxEdits /\ outside \in 0 .. MaxOutside
         /\ InstalledIsCandidate
<1> USE Attempts, AccountAssumption, InventoryAssumption DEF InventoryInit, Init
<1>1. known \in [Slot -> Slots]
  BY DEF Slots, Shown
<1>2. scan \in [Scanner -> Scan]
  BY DEF Scan, Idle, Shown
<1>3. InstalledIsCandidate
  BY DEF InstalledIsCandidate
<1>4. edits \in 0 .. MaxEdits /\ outside \in 0 .. MaxOutside
  OBVIOUS
<1> QED BY <1>1, <1>2, <1>3, <1>4

\* The types of the rows and places after a step of a rotation.
LEMMA RotationTypes ==
  ASSUME TypeOK, NEW s \in Slot,
         \/ Begin(s) \/ NextAttempt(s) \/ Publish(s) \/ Terminate(s) \/ Complete(s)
         \/ Dispatch(s) \/ CloudActs(s) \/ Throttled(s) \/ Observe(s)
  PROVE  rot' \in [Slot -> Row]
<1> USE Attempts DEF TypeOK, Allocate, Detach, Attach, Release
<1>0. rot[s] \in Row
  OBVIOUS
<1>1. CASE Begin(s)
  BY <1>0, <1>1 DEF Begin, Row, Numbers
<1>2. CASE NextAttempt(s)
  BY <1>0, <1>2 DEF NextAttempt, Row
<1>3. CASE Publish(s)
  <2>1. 4 \in 1 .. 4
    OBVIOUS
  <2>2. [rot[s] EXCEPT !.stage = "cleanup", !.step = 4, !.status = "prepared"] \in Row
    BY <1>0, <2>1 DEF Row
  <2>3. rot' = [rot EXCEPT ![s] = [rot[s] EXCEPT !.stage = "cleanup", !.step = 4, !.status = "prepared"]]
    BY <1>3 DEF Publish
  <2> QED BY <2>2, <2>3
<1>4. CASE Terminate(s)
  BY <1>0, <1>4 DEF Terminate, Row
<1>5. CASE Complete(s)
  BY <1>0, <1>5 DEF Complete, Row
<1>6. CASE Dispatch(s)
  BY <1>0, <1>6 DEF Dispatch, Row
<1>7. CASE CloudActs(s)
  <2>1. [rot[s] EXCEPT !.status = "made"] \in Row /\ [rot[s] EXCEPT !.status = "lost"] \in Row
    BY <1>0 DEF Row
  <2> QED BY <1>7, <2>1 DEF CloudActs
<1>8. CASE Throttled(s)
  BY <1>0, <1>8 DEF Throttled, Row
<1>9. CASE Observe(s)
  <2>1. [rot[s] EXCEPT !.status = "back"] \in Row
    BY <1>0 DEF Row
  <2>2. Done(s) \in Row
    <3>1. rot[s].step \in 1 .. 4
      BY <1>0 DEF Row
    <3>2. CASE rot[s].step = Attach
      BY <1>0, <3>2 DEF Done, Row
    <3>3. CASE rot[s].step \notin {Attach, Release}
      <4>1. rot[s].step + 1 \in 1 .. 4
        BY <3>1, <3>3
      <4> QED BY <1>0, <3>3, <4>1 DEF Done, Row
    <3>4. CASE rot[s].step = Release
      BY <1>0, <3>4 DEF Done, Row
    <3> QED BY <3>2, <3>3, <3>4
  <2> QED BY <1>9, <2>1, <2>2 DEF Observe
<1> QED BY <1>1, <1>2, <1>3, <1>4, <1>5, <1>6, <1>7, <1>8, <1>9

\* What a call of a rotation does to one address of its slot.
LEMMA EffectMoves ==
  ASSUME NEW s, Effect(s), rot[s].step \in Allocate .. Release
  PROVE  \/ rot[s].step = Allocate /\ place' = [place EXCEPT ![Candidate(s)] = "idle"]
         \/ /\ rot[s].step = Detach
            /\ \E n \in Numbers(s) : place' = [place EXCEPT ![<<s, n>>] = "idle"]
         \/ rot[s].step = Attach /\ place' = [place EXCEPT ![Candidate(s)] = "attached"]
         \/ rot[s].step = Release /\ place' = [place EXCEPT ![<<s, Oldest(s)>>] = "none"]
<1> USE DEF Allocate, Detach, Attach, Release
<1>1. CASE rot[s].step = Allocate
  BY <1>1 DEF Effect
<1>2. CASE rot[s].step = Detach
  BY <1>2 DEF Effect
<1>3. CASE rot[s].step = Attach
  BY <1>3 DEF Effect
<1>4. CASE rot[s].step = Release
  BY <1>4 DEF Effect
<1>5. rot[s].step \in {Allocate, Detach, Attach, Release}
  OBVIOUS
<1> QED BY <1>1, <1>2, <1>3, <1>4, <1>5

LEMMA EffectTypes ==
  ASSUME TypeOK, NEW s \in Slot, CloudActs(s)
  PROVE  place' \in [Ip -> Place]
<1>1. CASE Effect(s)
  <2>1. rot[s].step \in Allocate .. Release
    BY DEF TypeOK, Row
  <2>2. \E x : \E p \in Place : place' = [place EXCEPT ![x] = p]
    BY <1>1, <2>1, EffectMoves DEF Place
  <2> QED BY <2>2 DEF TypeOK
<1>2. CASE UNCHANGED place
  BY <1>2 DEF TypeOK
<1> QED BY <1>1, <1>2 DEF CloudActs

\* The types of what a step of a rotation writes besides its row.
LEMMA BudgetTypes ==
  ASSUME TypeOK, NEW s \in Slot,
         \/ Terminate(s) \/ Dispatch(s) \/ Throttled(s)
  PROVE  budget' \in [writes : Nat, releases : 0 .. MaxReleases, cooling : BOOLEAN,
                      booked : SUBSET Booking]
<1> USE Attempts, AccountAssumption DEF TypeOK
<1>0. rot[s] \in Row /\ NewBookings(s) \subseteq Booking
  BY DEF Row, NewBookings, Remaining, Booking
<1>1. CASE Terminate(s)
  BY <1>1 DEF Terminate
<1>2. CASE Throttled(s)
  BY <1>2 DEF Throttled
<1>3. CASE Dispatch(s)
  <2>1. CASE budget' = [budget EXCEPT !.releases = @ + 1] /\ budget.releases < MaxReleases
    BY <2>1
  <2>2. CASE budget' = [budget EXCEPT !.writes = @ + 1,
                 !.booked = (@ \cup NewBookings(s)) \ {<<s, rot[s].attempt, rot[s].step>>}]
    <3>1. budget.writes + 1 \in Nat
      OBVIOUS
    <3> QED BY <1>0, <2>2, <3>1
  <2> QED BY <1>3, <2>1, <2>2 DEF Dispatch
<1> QED BY <1>1, <1>2, <1>3

LEMMA CleanupTypes ==
  ASSUME TypeOK,
         \/ List \/ Preview \/ Confirm
         \/ \E x \in Ip : ClaimLook(x) \/ ClaimRelease(x)
         \/ \E c \in call : Check(c) \/ CheckFails(c) \/ Send(c) \/ Look(c) \/ Save(c) \/ Dies(c)
         \/ Expire \/ CooledDown
  PROVE  TypeOK'
<1> USE Attempts, AccountAssumption DEF TypeOK
<1>1. CASE List
  <2>1. item' \in [Ip -> Item]
    BY <1>1 DEF List, Item, NoItem
  <2>2. batch' \in [state : {"none", "listed", "preview", "confirmed"}, listed : SUBSET Ip,
                    number : 0 .. MaxBatches]
    BY <1>1 DEF List
  <2> QED BY <1>1, <2>1, <2>2 DEF List
<1>2. CASE Preview
  <2>1. item' \in [Ip -> Item]
    BY <1>2 DEF Preview, Item, NoItem, Settled
  <2> QED BY <1>2, <2>1 DEF Preview
<1>3. CASE Confirm
  BY <1>3 DEF Confirm
<1>4. ASSUME NEW x \in Ip, ClaimLook(x) PROVE TypeOK'
  <2>1. [ip |-> x, dispatch |-> item[x].dispatch, observe |-> TRUE, at |-> "look"] \in Call
    BY DEF Call, Item
  <2> QED BY <1>4, <2>1 DEF ClaimLook
<1>5. ASSUME NEW x \in Ip, ClaimRelease(x) PROVE TypeOK'
  <2>0. item[x] \in Item
    OBVIOUS
  <2>1. CASE item' = [item EXCEPT ![x].st = "skipped"] /\ UNCHANGED <<budget, call>>
    <3>1. item' \in [Ip -> Item]
      BY <2>0, <2>1 DEF Item, Settled
    <3> QED BY <1>5, <2>1, <3>1 DEF ClaimRelease
  <2>2. CASE item' = [item EXCEPT ![x].st = "waiting"] /\ UNCHANGED <<budget, call>>
    <3>1. item' \in [Ip -> Item]
      BY <2>0, <2>2 DEF Item, Settled
    <3> QED BY <1>5, <2>2, <3>1 DEF ClaimRelease
  <2>3. CASE /\ item[x].dispatch < MaxDispatch /\ budget.releases < MaxReleases
             /\ item' = [item EXCEPT ![x] = [st |-> "in_flight", dispatch |-> @.dispatch + 1]]
             /\ budget' = [budget EXCEPT !.releases = @ + 1]
             /\ call' = call \cup {[ip |-> x, dispatch |-> item[x].dispatch + 1, observe |-> FALSE, at |-> "check"]}
    <3>1. item[x].dispatch + 1 \in 0 .. MaxDispatch
      BY <2>0, <2>3 DEF Item
    <3>2. item' \in [Ip -> Item]
      BY <2>3, <3>1 DEF Item
    <3>3. [ip |-> x, dispatch |-> item[x].dispatch + 1, observe |-> FALSE, at |-> "check"] \in Call
      BY <3>1 DEF Call
    <3>4. budget' \in [writes : Nat, releases : 0 .. MaxReleases, cooling : BOOLEAN,
                       booked : SUBSET Booking]
      BY <2>3
    <3> QED BY <1>5, <2>3, <3>2, <3>3, <3>4 DEF ClaimRelease
  <2> QED BY <1>5, <2>1, <2>2, <2>3 DEF ClaimRelease
<1>6. ASSUME NEW c \in call, \E at \in {"check", "send", "look"} \cup Answer : Goes(c, at) PROVE call' \subseteq Call
  BY <1>6 DEF Goes, Call
<1>7. ASSUME NEW c \in call, Check(c) \/ CheckFails(c) PROVE TypeOK'
  <2>1. call' \subseteq Call
    BY <1>6, <1>7 DEF Check, CheckFails, Answer
  <2> QED BY <1>7, <2>1 DEF Check, CheckFails
<1>8. ASSUME NEW c \in call, Send(c) PROVE TypeOK'
  <2>1. call' \subseteq Call
    BY <1>6, <1>8 DEF Send, Answer
  <2>2. place' \in [Ip -> Place]
    BY <1>8 DEF Send, Place
  <2> QED BY <1>8, <2>1, <2>2 DEF Send
<1>9. ASSUME NEW c \in call, Look(c) PROVE TypeOK'
  <2>1. call' \subseteq Call
    BY <1>6, <1>9 DEF Look, Answer
  <2> QED BY <1>9, <2>1 DEF Look
<1>10. ASSUME NEW c \in call, Save(c) PROVE TypeOK'
  <2>0. c \in Call /\ item[c.ip] \in Item
    BY DEF Call
  <2>1. (IF c.at = "throttled" THEN "waiting" ELSE c.at) \in {"none", "ready", "waiting", "in_flight", "pending"} \cup Settled
    BY <1>10 DEF Save, Answer, Settled
  <2>2. item' \in [Ip -> Item]
    BY <1>10, <2>0, <2>1 DEF Save, Item
  <2>3. budget' \in [writes : Nat, releases : 0 .. MaxReleases, cooling : BOOLEAN,
                     booked : SUBSET Booking]
    BY <1>10 DEF Save
  <2> QED BY <1>10, <2>2, <2>3 DEF Save
<1>11. ASSUME NEW c \in call, Dies(c) PROVE TypeOK'
  BY <1>11 DEF Dies
<1>12. CASE Expire
  BY <1>12 DEF Expire
<1>13. CASE CooledDown
  BY <1>13 DEF CooledDown
<1> QED BY <1>1, <1>2, <1>3, <1>4, <1>5, <1>7, <1>8, <1>9, <1>10, <1>11, <1>12, <1>13

-----------------------------------------------------------------------------
(* What a step of a rotation does to its row.                              *)

\* The row of s has these fields after the step, and the other rows are as before.
Turns(s, stage, attempt, step, status) ==
  /\ rot'[s].stage = stage /\ rot'[s].attempt = attempt
  /\ rot'[s].step = step /\ rot'[s].status = status
  /\ \A t \in Slot \ {s} : rot'[t] = rot[t]

LEMMA RowTurns ==
  ASSUME TypeOK, NEW s \in Slot
  PROVE  LET r == rot[s] IN
         /\ Begin(s) =>
              /\ Turns(s, "cloud", r.attempt + 1, Allocate, "prepared")
              /\ \E n \in Numbers(s) : rot'[s].left = {n}
         /\ NextAttempt(s) =>
              /\ Turns(s, "cloud", r.attempt + 1, Allocate, "prepared")
              /\ rot'[s].left = r.left \cup {r.attempt}
         /\ Publish(s) =>
              /\ r.stage = "candidate"
              /\ Turns(s, "cleanup", r.attempt, Release, "prepared") /\ rot'[s].left = r.left
         /\ Terminate(s) => Turns(s, "over", r.attempt, r.step, r.status) /\ rot'[s].left = r.left
         /\ Complete(s) => Turns(s, "over", r.attempt, r.step, r.status) /\ rot'[s].left = r.left
         /\ Dispatch(s) => Turns(s, r.stage, r.attempt, r.step, "sent") /\ rot'[s].left = r.left
         /\ Throttled(s) => Turns(s, r.stage, r.attempt, r.step, "back") /\ rot'[s].left = r.left
         /\ CloudActs(s) =>
              /\ rot'[s].left = r.left
              /\ \/ Turns(s, r.stage, r.attempt, r.step, "made") /\ Effect(s)
                 \/ Turns(s, r.stage, r.attempt, r.step, "lost") /\ UNCHANGED place
         /\ Observe(s) =>
              \/ /\ r.status = "lost"
                 /\ Turns(s, r.stage, r.attempt, r.step, "back") /\ rot'[s].left = r.left
              \/ /\ r.step = Attach /\ r.status = "made"
                 /\ Turns(s, "candidate", r.attempt, Attach, "prepared") /\ rot'[s].left = r.left
              \/ /\ r.step \in {Allocate, Detach} /\ r.status = "made"
                 /\ Turns(s, r.stage, r.attempt, r.step + 1, "prepared") /\ rot'[s].left = r.left
              \/ /\ r.step = Release
                 /\ Turns(s, r.stage, r.attempt, Release, "prepared")
                 /\ rot'[s].left \subseteq r.left
<1> USE DEF TypeOK, Turns
<1>0. rot[s] \in Row
  OBVIOUS
<1>1. ASSUME Begin(s)
      PROVE  /\ Turns(s, "cloud", rot[s].attempt + 1, Allocate, "prepared")
             /\ \E n \in Numbers(s) : rot'[s].left = {n}
  BY <1>0, <1>1 DEF Begin, Row
<1>2. ASSUME NextAttempt(s)
      PROVE  /\ Turns(s, "cloud", rot[s].attempt + 1, Allocate, "prepared")
             /\ rot'[s].left = rot[s].left \cup {rot[s].attempt}
  BY <1>0, <1>2 DEF NextAttempt, Row
<1>3. ASSUME Publish(s)
      PROVE  /\ rot[s].stage = "candidate"
             /\ Turns(s, "cleanup", rot[s].attempt, Release, "prepared") /\ rot'[s].left = rot[s].left
  BY <1>0, <1>3 DEF Publish, Row
<1>4. ASSUME Terminate(s) \/ Complete(s)
      PROVE  Turns(s, "over", rot[s].attempt, rot[s].step, rot[s].status) /\ rot'[s].left = rot[s].left
  BY <1>0, <1>4 DEF Terminate, Complete, Row
<1>5. ASSUME Dispatch(s)
      PROVE  Turns(s, rot[s].stage, rot[s].attempt, rot[s].step, "sent") /\ rot'[s].left = rot[s].left
  BY <1>0, <1>5 DEF Dispatch, Row
<1>6. ASSUME Throttled(s)
      PROVE  Turns(s, rot[s].stage, rot[s].attempt, rot[s].step, "back") /\ rot'[s].left = rot[s].left
  BY <1>0, <1>6 DEF Throttled, Row
<1>7. ASSUME CloudActs(s)
      PROVE  /\ rot'[s].left = rot[s].left
             /\ \/ Turns(s, rot[s].stage, rot[s].attempt, rot[s].step, "made") /\ Effect(s)
                \/ Turns(s, rot[s].stage, rot[s].attempt, rot[s].step, "lost") /\ UNCHANGED place
  BY <1>0, <1>7 DEF CloudActs, Row
<1>8. ASSUME Observe(s)
      PROVE  \/ /\ rot[s].status = "lost"
                /\ Turns(s, rot[s].stage, rot[s].attempt, rot[s].step, "back")
                /\ rot'[s].left = rot[s].left
             \/ /\ rot[s].step = Attach /\ rot[s].status = "made"
                /\ Turns(s, "candidate", rot[s].attempt, Attach, "prepared") /\ rot'[s].left = rot[s].left
             \/ /\ rot[s].step \in {Allocate, Detach} /\ rot[s].status = "made"
                /\ Turns(s, rot[s].stage, rot[s].attempt, rot[s].step + 1, "prepared")
                /\ rot'[s].left = rot[s].left
             \/ /\ rot[s].step = Release
                /\ Turns(s, rot[s].stage, rot[s].attempt, Release, "prepared")
                /\ rot'[s].left \subseteq rot[s].left
  <2>0. rot[s].step \in {Allocate, Detach, Attach, Release}
    BY <1>0 DEF Row, Allocate, Detach, Attach, Release
  <2>1. CASE rot' = [rot EXCEPT ![s].status = "back"] /\ rot[s].status = "lost"
    BY <1>0, <2>1 DEF Row
  <2>2. CASE rot' = [rot EXCEPT ![s] = Done(s)] /\ rot[s].status = "made"
    <3>1. rot'[s] = Done(s) /\ \A t \in Slot \ {s} : rot'[t] = rot[t]
      BY <2>2
    <3>2. CASE rot[s].step = Attach
      BY <1>0, <2>2, <3>1, <3>2 DEF Done, Row
    <3>3. CASE rot[s].step \in {Allocate, Detach}
      BY <1>0, <2>2, <3>1, <3>3 DEF Done, Row, Allocate, Detach, Attach, Release
    <3>4. CASE rot[s].step = Release
      BY <1>0, <2>2, <3>1, <3>4 DEF Done, Row, Attach, Release
    <3> QED BY <2>0, <3>2, <3>3, <3>4
  <2> QED BY <1>8, <2>1, <2>2 DEF Observe
<1> HIDE DEF TypeOK, Turns
<1> QED BY <1>1, <1>2, <1>3, <1>4, <1>5, <1>6, <1>7, <1>8

-----------------------------------------------------------------------------
(* Addresses.                                                              *)

\* The steps of the rotation of one slot.
SlotStep(s) ==
  \/ Begin(s) \/ NextAttempt(s) \/ Publish(s) \/ Terminate(s) \/ Complete(s)
  \/ Dispatch(s) \/ CloudActs(s) \/ Throttled(s) \/ Observe(s)

\* Steps that leave the rows of the rotations alone.
CleanupStep ==
  \/ List \/ Preview \/ Confirm
  \/ \E x \in Ip : ClaimLook(x) \/ ClaimRelease(x)
  \/ \E c \in call : Check(c) \/ CheckFails(c) \/ Send(c) \/ Look(c) \/ Save(c) \/ Dies(c)
  \/ Expire \/ CooledDown

LEMMA RowFields ==
  ASSUME TypeOK, NEW s \in Slot
  PROVE  /\ rot[s].attempt \in Nat /\ rot[s].attempt \in 0 .. MaxAttempts
         /\ rot[s].step \in {1, 2, 3, 4}
         /\ rot[s].left \subseteq Nat /\ rot[s].left \in SUBSET (0 .. MaxAttempts)
         /\ rot[s].stage \in {"over", "cloud", "candidate", "cleanup"}
         /\ rot[s].status \in {"prepared", "sent", "made", "lost", "back"}
BY Attempts DEF TypeOK, Row, Allocate, Release

LEMMA StagesFitStep ==
  ASSUME TypeOK, StagesFit, PlacesAreGiven, NEW s \in Slot, SlotStep(s)
  PROVE  StagesFit'
<1> SUFFICES Fits(s)' /\ \A t \in Slot \ {s} : Fits(t)'
  BY DEF StagesFit
<1>1. \A t \in Slot \ {s} : rot'[t] = rot[t]
  BY RowTurns DEF SlotStep, Turns
<1>2. \A t \in Slot \ {s} : Fits(t)'
  BY <1>1 DEF StagesFit, Fits, InFlight
<1>3. Fits(s)'
  <2> USE RowFields, RowTurns DEF Turns, Fits, InFlight, Unfinished, Allocate, Detach, Attach, Release
  <2>0. Fits(s)
    BY DEF StagesFit
  <2>1. CASE Begin(s)
    <3>1. \A n \in Numbers(s) : n <= rot[s].attempt /\ n \in Nat
      BY Attempts DEF Numbers, PlacesAreGiven, Given, Ip
    <3> QED BY <2>1, <3>1
  <2>2. CASE NextAttempt(s)
    BY <2>0, <2>2
  <2>3. CASE Publish(s)
    BY <2>0, <2>3
  <2>4. CASE Terminate(s)
    BY <2>0, <2>4
  <2>5. CASE Complete(s)
    BY <2>0, <2>5
  <2>6. CASE Dispatch(s)
    BY <2>0, <2>6 DEF Dispatch
  <2>7. CASE CloudActs(s)
    BY <2>0, <2>7 DEF CloudActs
  <2>8. CASE Throttled(s)
    BY <2>0, <2>8 DEF Throttled
  <2>9. CASE Observe(s)
    BY <2>0, <2>9 DEF Observe
  <2> QED BY <2>1, <2>2, <2>3, <2>4, <2>5, <2>6, <2>7, <2>8, <2>9 DEF SlotStep
<1> QED BY <1>2, <1>3

\* What is given stays given, what is past stays past.
LEMMA GivenStays ==
  ASSUME TypeOK, StagesFit, NEW s \in Slot, SlotStep(s), NEW x \in Ip
  PROVE  (Given(x) => Given(x)') /\ (Bygone(x) => Bygone(x)')
<1> USE DEF Given, Bygone
<1>0. x[1] \in Slot /\ x[2] \in Nat
  BY Parts, Attempts
<1>1. CASE x[1] # s
  <2>1. rot'[x[1]] = rot[x[1]]
    BY <1>0, <1>1, RowTurns DEF SlotStep, Turns
  <2> QED BY <2>1
<1>2. CASE x[1] = s
  <2> USE RowFields, RowTurns DEF Turns, Unfinished, Allocate, Detach, Attach, Release
  <2>1. CASE Begin(s) \/ NextAttempt(s)
    BY <1>0, <1>2, <2>1
  <2>2. CASE Publish(s)
    BY <1>2, <2>2
  <2>7. CASE Terminate(s) \/ Complete(s)
    BY <1>2, <2>7
  <2>3. CASE Dispatch(s)
    BY <1>2, <2>3 DEF Dispatch
  <2>4. CASE CloudActs(s)
    BY <1>2, <2>4 DEF CloudActs
  <2>5. CASE Throttled(s)
    BY <1>2, <2>5 DEF Throttled
  <2>6. CASE Observe(s)
    BY <1>2, <2>6 DEF Observe
  <2> QED BY <2>1, <2>2, <2>3, <2>4, <2>5, <2>6, <2>7 DEF SlotStep
<1> QED BY <1>1, <1>2

\* A step of a rotation moves addresses of its slot only, gives none but its own
\* candidate, and takes none but one that is left.
LEMMA SlotMoves ==
  ASSUME TypeOK, NEW s \in Slot, SlotStep(s), NEW x \in Ip, place'[x] # place[x]
  PROVE  /\ x[1] = s /\ CloudActs(s) /\ rot'[s].status = "made"
         /\ place[x] = "none" => x[2] = rot[s].attempt
         /\ place'[x] = "none" => rot[s].step = Release /\ x[2] = Oldest(s)
<1>1. CloudActs(s) /\ Effect(s)
  BY DEF SlotStep, Begin, NextAttempt, Publish, Terminate, Complete, Dispatch, CloudActs, Throttled, Observe
<1>2. rot'[s].status = "made"
  BY <1>1, RowTurns DEF Turns, CloudActs
<1>3. rot[s].step \in Allocate .. Release
  BY RowFields DEF Allocate, Release
<1>4. \A y, v : place' = [place EXCEPT ![y] = v] => x = y /\ place'[x] = v
  BY DEF TypeOK
<1>5. CASE rot[s].step = Allocate /\ place' = [place EXCEPT ![Candidate(s)] = "idle"]
  BY <1>1, <1>2, <1>4, <1>5 DEF Candidate
<1>6. CASE rot[s].step = Detach /\ \E n \in Numbers(s) : place' = [place EXCEPT ![<<s, n>>] = "idle"]
  <2>1. PICK n \in Numbers(s) : place' = [place EXCEPT ![<<s, n>>] = "idle"]
    BY <1>6
  <2>2. x = <<s, n>> /\ place'[x] = "idle"
    BY <1>4, <2>1
  <2>3. place[x] = "attached"
    BY <2>1, <2>2 DEF Numbers
  <2> QED BY <1>1, <1>2, <2>2, <2>3
<1>7. CASE rot[s].step = Attach /\ place' = [place EXCEPT ![Candidate(s)] = "attached"]
  BY <1>1, <1>2, <1>4, <1>7 DEF Candidate
<1>8. CASE rot[s].step = Release /\ place' = [place EXCEPT ![<<s, Oldest(s)>>] = "none"]
  <2>1. x = <<s, Oldest(s)>> /\ place'[x] = "none"
    BY <1>4, <1>8
  <2>2. place[x] # "none"
    BY <2>1
  <2> QED BY <1>1, <1>2, <1>8, <2>1, <2>2
<1> QED BY <1>1, <1>3, <1>5, <1>6, <1>7, <1>8, EffectMoves

LEMMA PlacesAreGivenStep ==
  ASSUME TypeOK, StagesFit, PlacesAreGiven, CallsAreBygone, NEW s \in Slot, SlotStep(s)
  PROVE  PlacesAreGiven' /\ CallsAreBygone'
<1>1. UNCHANGED <<batch, item, call>>
  BY DEF SlotStep, Begin, NextAttempt, Publish, Terminate, Complete, Dispatch, CloudActs, Throttled, Observe
<1>2. ASSUME NEW x \in Ip, place'[x] # "none" PROVE Given(x)'
  <2>1. CASE place[x] # "none"
    BY <2>1, GivenStays DEF PlacesAreGiven
  <2>2. CASE place[x] = "none"
    <3>1. x[1] = s /\ x[2] = rot[s].attempt /\ CloudActs(s) /\ rot'[s].status = "made"
      BY <1>2, <2>2, SlotMoves
    <3>2. rot'[s].attempt = rot[s].attempt
      BY <3>1, RowTurns DEF Turns
    <3> QED BY <3>1, <3>2 DEF Given
  <2> QED BY <2>1, <2>2
<1>3. \A x \in batch.listed : Given(x)'
  BY GivenStays DEF PlacesAreGiven, TypeOK
<1>4. \A x \in Ip : item[x].st \notin Settled \cup {"none"} => Given(x)'
  BY GivenStays DEF PlacesAreGiven
<1>5. \A c \in call : c.ip \in Ip
  BY DEF TypeOK, Call
<1>6. CallsAreBygone'
  BY <1>1, <1>5, GivenStays DEF CallsAreBygone
<1> QED BY <1>1, <1>2, <1>3, <1>4, <1>6 DEF PlacesAreGiven

\* The address that is to be attached is neither the oldest that is left nor
\* given back by a late call of the cleanup.
LEMMA CandidateIsKeptStep ==
  ASSUME TypeOK, StagesFit, CandidateIsKept, NEW s \in Slot, SlotStep(s)
  PROVE  CandidateIsKept'
<1> SUFFICES ASSUME NEW t \in Slot, (Unfinished(t) /\ (rot[t].step > Allocate \/ rot[t].status = "made"))'
             PROVE  place'[Candidate(t)'] # "none"
  BY DEF CandidateIsKept
<1>0. \A n \in 0 .. MaxAttempts : <<t, n>> \in Ip
  BY DEF Ip
<1>1. CASE t # s
  <2>1. rot'[t] = rot[t]
    BY <1>1, RowTurns DEF SlotStep, Turns
  <2>2. Candidate(t) \in Ip /\ Candidate(t)' = Candidate(t) /\ Candidate(t)[1] = t
    BY <1>0, <2>1, RowFields DEF Candidate
  <2>3. place[Candidate(t)] # "none"
    BY <2>1 DEF CandidateIsKept, Unfinished
  <2>4. place'[Candidate(t)] = place[Candidate(t)]
    BY <1>1, <2>2, SlotMoves
  <2> QED BY <2>2, <2>3, <2>4
<1>2. CASE t = s
  <2> USE RowFields, RowTurns DEF Turns, Unfinished, Allocate, Detach, Attach, Release
  <2>0. Fits(s)
    BY DEF StagesFit
  <2>1. ~(Begin(s) \/ NextAttempt(s))
    BY <1>2
  <2>2. rot'[s].attempt = rot[s].attempt /\ Candidate(s)' = Candidate(s)
    BY <2>1 DEF SlotStep, Candidate
  <2>3. Candidate(s) \in Ip /\ Candidate(s)[1] = s /\ Candidate(s)[2] = rot[s].attempt
    BY <1>0, <1>2 DEF Candidate
  <2>4. CASE rot[s].stage # "over" /\ (rot[s].step > Allocate \/ rot[s].status = "made")
    <3>1. place[Candidate(s)] # "none"
      BY <2>4 DEF CandidateIsKept
    <3>2. CASE place'[Candidate(s)] = place[Candidate(s)]
      BY <1>2, <2>2, <3>1, <3>2
    <3>3. CASE place'[Candidate(s)] # place[Candidate(s)]
      <4>1. place'[Candidate(s)] = "none" => rot[s].step = Release /\ rot[s].attempt = Oldest(s)
        BY <2>3, <3>3, SlotMoves
      <4>2. rot[s].status = "sent"
        BY <2>3, <3>3, SlotMoves DEF CloudActs
      <4>3. rot[s].step = Release => rot[s].left # {} /\ rot[s].attempt \notin rot[s].left
        BY <2>0, <4>2 DEF Fits, InFlight
      <4>4. rot[s].step = Release => Oldest(s) \in rot[s].left
        BY <4>3, OldestIsLeft
      <4> QED BY <1>2, <2>2, <4>1, <4>3, <4>4
    <3> QED BY <3>2, <3>3
  <2>5. CASE rot[s].stage # "over" /\ rot[s].step = Allocate /\ rot[s].status # "made"
    <3>0. rot'[s].stage # "over" /\ (rot'[s].step > 1 \/ rot'[s].status = "made")
      BY <1>2
    <3>1. CloudActs(s) /\ Effect(s)
      <4>1. ~Publish(s)
        BY <2>0, <2>5 DEF Fits
      <4>2. ~(Terminate(s) \/ Complete(s))
        BY <3>0
      <4>3. ~(Dispatch(s) \/ Throttled(s))
        BY <2>5, <3>0
      <4>4. ~Observe(s)
        BY <2>5, <3>0
      <4>5. CloudActs(s)
        BY <2>1, <4>1, <4>2, <4>3, <4>4 DEF SlotStep
      <4> QED BY <2>5, <3>0, <4>5
    <3>2. place' = [place EXCEPT ![Candidate(s)] = "idle"]
      <4> HIDE RowTurns, RowFields
      <4> QED BY <2>5, <3>1 DEF Effect
    <3> QED BY <1>2, <2>2, <2>3, <3>2 DEF TypeOK
  <2>6. rot[s].stage # "over"
    <3>0. rot'[s].stage # "over"
      BY <1>2
    <3>1. ~(Terminate(s) \/ Complete(s))
      BY <3>0
    <3>2. CASE Publish(s)
      BY <3>2
    <3>3. CASE Dispatch(s)
      BY <3>3 DEF Dispatch
    <3>4. CASE CloudActs(s) \/ Throttled(s)
      BY <3>0, <3>4
    <3>5. CASE Observe(s)
      BY <3>5 DEF Observe
    <3> QED BY <2>1, <3>1, <3>2, <3>3, <3>4, <3>5 DEF SlotStep
  <2> QED BY <2>4, <2>5, <2>6
<1> QED BY <1>1, <1>2

LEMMA CleanupKeepsRows == CleanupStep => UNCHANGED rot
BY DEF CleanupStep, List, Preview, Confirm, ClaimLook, ClaimRelease, Check, CheckFails, Send, Look,
       Save, Dies, Expire, CooledDown

\* What the cleanup may release was given, and no rotation protects it.
LEMMA UnprotectedIsBygone ==
  ASSUME TypeOK, NEW x \in Ip, Given(x), ~InUse(x)
  PROVE  Bygone(x)
<1>0. x[1] \in Slot /\ x = <<x[1], x[2]>>
  BY Parts
<1> DEFINE s == x[1]
<1>1. ~CandidateProtects(s, x) /\ ~UnresolvedProtects(s, x)
  BY <1>0 DEF InUse
<1>2. CASE rot[s].stage # "over" /\ x[2] = rot[s].attempt
  <2>1. x = Candidate(s)
    BY <1>0, <1>2 DEF Candidate
  <2>2. rot[s].step = Allocate
    <3>1. ~(rot[s].step > Allocate)
      BY <1>1, <1>2, <2>1 DEF CandidateProtects, Unfinished
    <3> QED BY <1>0, <3>1, RowFields DEF Allocate
  <2>3. rot[s].status # "made"
    BY <1>1, <2>1, <2>2 DEF UnresolvedProtects, InFlight
  <2> QED BY <1>0, <1>2, <2>2, <2>3, RowFields DEF Given, Allocate
<1>3. CASE rot[s].stage = "over" \/ x[2] # rot[s].attempt
  BY <1>3 DEF Given, Bygone
<1> QED BY <1>2, <1>3

LEMMA CleanupPlaces ==
  ASSUME TypeOK, CleanupStep, NEW x \in Ip, place'[x] # place[x]
  PROVE  /\ place[x] # "none"
         /\ \E c \in call : c.at = "send" /\ c.ip = x
<1>1. PICK c \in call : Send(c)
  BY DEF CleanupStep, List, Preview, Confirm, ClaimLook, ClaimRelease, Check, CheckFails, Look,
         Save, Dies, Expire, CooledDown
<1>2. place[c.ip] = "idle" /\ place' = [place EXCEPT ![c.ip] = "none"] /\ c.at = "send"
  BY <1>1 DEF Send
<1> QED BY <1>2 DEF TypeOK

LEMMA CleanupCalls ==
  ASSUME TypeOK, PlacesAreGiven, CallsAreBygone, CleanupStep
  PROVE  \A c \in call' : c.at \in {"check", "send"} => Bygone(c.ip)
<1> SUFFICES ASSUME NEW c \in call', c.at \in {"check", "send"} PROVE Bygone(c.ip)
  OBVIOUS
<1>1. CASE c \in call
  BY <1>1 DEF CallsAreBygone
<1>2. CASE c \notin call
  <2>1. ASSUME NEW d \in call, NEW at, Goes(d, at), at = "send" => d.at = "check", at # "check"
        PROVE  Bygone(c.ip)
    <3>1. c = [d EXCEPT !.at = at]
      BY <1>2, <2>1 DEF Goes
    <3>2. d \in Call
      BY DEF TypeOK
    <3>3. c.ip = d.ip /\ c.at = at
      BY <3>1, <3>2 DEF Call
    <3> QED BY <2>1, <3>3 DEF CallsAreBygone
  <2>2. ASSUME NEW d \in call, Check(d) PROVE Bygone(c.ip)
    <3>1. PICK at : Goes(d, at) /\ d.at = "check" /\ at # "check"
      BY <2>2 DEF Check
    <3> QED BY <2>1, <3>1
  <2>3. ASSUME NEW d \in call, CheckFails(d) PROVE Bygone(c.ip)
    BY <2>1, <2>3 DEF CheckFails
  <2>4. ASSUME NEW d \in call, Send(d) PROVE Bygone(c.ip)
    <3>1. PICK at \in {"released", "pending", "throttled", "failed"} : Goes(d, at)
      BY <2>4 DEF Send
    <3> QED BY <2>1, <3>1
  <2>5. ASSUME NEW d \in call, Look(d) PROVE Bygone(c.ip)
    <3>1. PICK at \in {"released", "pending", "skipped"} : Goes(d, at)
      BY <2>5 DEF Look
    <3> QED BY <2>1, <3>1
  <2>6. ASSUME NEW x \in Ip, ClaimLook(x) PROVE Bygone(c.ip)
    BY <1>2, <2>6 DEF ClaimLook
  <2>7. ASSUME NEW x \in Ip, ClaimRelease(x) PROVE Bygone(c.ip)
    <3>1. c = [ip |-> x, dispatch |-> item[x].dispatch + 1, observe |-> FALSE, at |-> "check"] /\ ~InUse(x)
      BY <1>2, <2>7 DEF ClaimRelease
    <3>2. Given(x)
      BY <2>7 DEF ClaimRelease, PlacesAreGiven, Settled
    <3> QED BY <3>1, <3>2, UnprotectedIsBygone
  <2>8. \/ call' \subseteq call
        \/ \E d \in call : Check(d) \/ CheckFails(d) \/ Send(d) \/ Look(d)
        \/ \E x \in Ip : ClaimLook(x) \/ ClaimRelease(x)
    BY DEF CleanupStep, List, Preview, Confirm, Save, Dies, Expire, CooledDown
  <2> QED BY <1>2, <2>2, <2>3, <2>4, <2>5, <2>6, <2>7, <2>8
<1> QED BY <1>1, <1>2

LEMMA CleanupItems ==
  ASSUME TypeOK, PlacesAreGiven, CleanupStep
  PROVE  /\ \A x \in batch'.listed : Given(x)
         /\ \A x \in Ip : item'[x].st \notin Settled \cup {"none"} => Given(x)
<1>1. ASSUME NEW x \in batch'.listed PROVE Given(x)
  <2>1. CASE List
    BY <1>1, <2>1 DEF List, PlacesAreGiven
  <2>2. CASE ~List
    <3>1. x \in batch.listed
      BY <1>1, <2>2 DEF TypeOK, CleanupStep, Preview, Confirm, ClaimLook, ClaimRelease, Check, CheckFails,
           Send, Look, Save, Dies, Expire, CooledDown
    <3> QED BY <3>1 DEF PlacesAreGiven
  <2> QED BY <2>1, <2>2
<1>2. ASSUME NEW x \in Ip, item'[x].st \notin Settled \cup {"none"} PROVE Given(x)
  <2>1. CASE item[x].st \notin Settled \cup {"none"}
    BY <2>1 DEF PlacesAreGiven
  <2>2. CASE x \in batch.listed
    BY <2>2 DEF PlacesAreGiven
  <2>3. ASSUME item[x].st \in Settled \cup {"none"}, x \notin batch.listed PROVE FALSE
    <3>1. CASE List
      BY <1>2, <3>1 DEF List, NoItem
    <3>2. CASE Preview
      BY <1>2, <2>3, <3>2 DEF Preview, NoItem
    <3>3. ASSUME NEW y \in Ip, ClaimRelease(y) PROVE FALSE
      <4>1. item[y].st \notin Settled \cup {"none"}
        BY <3>3 DEF ClaimRelease, Settled
      <4>2. y # x
        BY <2>3, <4>1
      <4>3. item'[x] = item[x]
        BY <3>3, <4>2 DEF ClaimRelease, TypeOK
      <4> QED BY <1>2, <2>3, <4>3
    <3>4. ASSUME NEW c \in call, Save(c) PROVE FALSE
      <4>1. c.ip \in Ip
        BY DEF TypeOK, Call
      <4>2. item'[x] = item[x]
        BY <2>3, <3>4, <4>1 DEF Save, Obsolete, TypeOK
      <4> QED BY <1>2, <2>3, <4>2
    <3>5. CASE UNCHANGED item
      BY <1>2, <2>3, <3>5
    <3> QED BY <3>1, <3>2, <3>3, <3>4, <3>5 DEF CleanupStep, Confirm, ClaimLook, Check, CheckFails,
           Send, Look, Dies, Expire, CooledDown
  <2> QED BY <2>1, <2>2, <2>3
<1> QED BY <1>1, <1>2

LEMMA CleanupSwap ==
  ASSUME TypeOK, StagesFit, PlacesAreGiven, CallsAreBygone, CandidateIsKept, CleanupStep
  PROVE  StagesFit' /\ PlacesAreGiven' /\ CallsAreBygone' /\ CandidateIsKept'
<1>1. UNCHANGED rot
  BY CleanupKeepsRows
<1>2. StagesFit'
  BY <1>1 DEF StagesFit, Fits, InFlight
<1>3. \A x : (Given(x)' <=> Given(x)) /\ (Bygone(x)' <=> Bygone(x))
  BY <1>1 DEF Given, Bygone
<1>4. \A x \in Ip : place'[x] # "none" => Given(x)
  BY CleanupPlaces DEF PlacesAreGiven
<1>5. PlacesAreGiven'
  BY <1>3, <1>4, CleanupItems DEF PlacesAreGiven
<1>6. CallsAreBygone'
  BY <1>3, CleanupCalls DEF CallsAreBygone
<1>7. CandidateIsKept'
  <2> SUFFICES ASSUME NEW s \in Slot, rot[s].stage # "over", rot[s].step > Allocate \/ rot[s].status = "made"
               PROVE  place'[Candidate(s)] # "none"
    BY <1>1 DEF CandidateIsKept, Candidate, Unfinished
  <2>1. place[Candidate(s)] # "none"
    BY DEF CandidateIsKept, Unfinished
  <2>2. Candidate(s) \in Ip /\ Candidate(s)[1] = s /\ Candidate(s)[2] = rot[s].attempt
    BY RowFields DEF Candidate, Ip
  <2>3. ~Bygone(Candidate(s))
    BY <2>2, RowFields DEF Bygone
  <2>4. place'[Candidate(s)] = place[Candidate(s)]
    BY <2>2, <2>3, CleanupPlaces DEF CallsAreBygone
  <2> QED BY <2>1, <2>4
<1> QED BY <1>2, <1>5, <1>6, <1>7

-----------------------------------------------------------------------------
(* Quota.                                                                  *)

LEMMA BookingIsFinite == IsFiniteSet(Booking)
<1> DEFINE A == 0 .. MaxAttempts
           B == {Detach, Attach}
           P == (Slot \X A) \X B
           f == [p \in P |-> <<p[1][1], p[1][2], p[2]>>]
<1>1. IsFiniteSet(A) /\ IsFiniteSet(B)
  <2>1. IsFiniteSet(A)
    BY Attempts, FS_Interval
  <2>2. IsFiniteSet({Detach}) /\ IsFiniteSet({Detach} \cup {Attach})
    BY FS_Singleton, FS_AddElement
  <2>3. B = {Detach} \cup {Attach}
    OBVIOUS
  <2> QED BY <2>1, <2>2, <2>3
<1>2. IsFiniteSet(P)
  <2>1. IsFiniteSet(Slot \X A)
    BY <1>1, AccountAssumption, FS_Product
  <2> QED BY <1>1, <2>1, FS_Product
<1>3. f \in Surjection(P, Booking)
  <2>1. f \in [P -> Booking]
    BY DEF Booking
  <2>2. ASSUME NEW b \in Booking PROVE \E p \in P : f[p] = b
    <3>1. <<<<b[1], b[2]>>, b[3]>> \in P /\ b = <<b[1], b[2], b[3]>>
      BY DEF Booking
    <3>2. f[<<<<b[1], b[2]>>, b[3]>>] = b
      BY <3>1
    <3> QED BY <3>1, <3>2
  <2> QED BY <2>1, <2>2 DEF Surjection
<1> QED BY <1>2, <1>3, FS_Surjection

LEMMA BookingsAreFinite ==
  ASSUME TypeOK
  PROVE  /\ budget.writes \in Nat /\ budget.releases \in Nat /\ Capacity \in Nat
         /\ IsFiniteSet(Pending) /\ Cardinality(Pending) \in Nat
         /\ \A s \in Slot : IsFiniteSet(NewBookings(s)) /\ Cardinality(NewBookings(s)) \in Nat
<1>1. Pending \in SUBSET Booking
  BY DEF TypeOK, Pending
<1>2. \A s \in Slot : NewBookings(s) \in SUBSET Booking
  BY RowFields DEF NewBookings, Remaining, Booking
<1>3. budget.writes \in Nat /\ budget.releases \in Nat
  BY AccountAssumption DEF TypeOK
<1> QED BY <1>1, <1>2, <1>3, AccountAssumption, BookingIsFinite, FS_Subset, FS_CardinalityType

\* What is promised grows only by what a dispatch books.
LEMMA PendingShrinks ==
  ASSUME TypeOK, BookingsAreGiven, NEW s \in Slot, SlotStep(s), ~Dispatch(s)
  PROVE  Pending' \subseteq Pending /\ budget'.writes = budget.writes
<1> SUFFICES ASSUME NEW b \in Pending' PROVE b \in Pending
  BY DEF SlotStep, Begin, NextAttempt, Publish, Terminate, Complete, CloudActs, Throttled, Observe, TypeOK
<1>1. budget'.booked \subseteq budget.booked
  BY DEF SlotStep, Begin, NextAttempt, Publish, Terminate, Complete, CloudActs, Throttled, Observe, TypeOK
<1>2. b \in budget.booked /\ b[2] = rot'[b[1]].attempt /\ rot'[b[1]].stage # "over"
  BY <1>1 DEF Pending, Unfinished
<1>3. b[1] \in Slot /\ b[2] \in Nat
  BY <1>2, Attempts DEF TypeOK, Booking
<1>4. CASE b[1] # s
  <2>1. rot'[b[1]] = rot[b[1]]
    BY <1>3, <1>4, RowTurns DEF SlotStep, Turns
  <2> QED BY <1>2, <2>1 DEF Pending, Unfinished
<1>5. CASE b[1] = s
  <2>1. b[2] <= rot[s].attempt
    BY <1>2, <1>5 DEF BookingsAreGiven
  <2>2. rot'[s].attempt # rot[s].attempt + 1
    BY <1>2, <1>3, <1>5, <2>1, RowFields
  <2>3. ~Begin(s) /\ ~NextAttempt(s) /\ ~Terminate(s) /\ ~Complete(s)
    BY <1>2, <1>5, <2>2, RowTurns DEF Turns
  <2>4. rot'[s].attempt = rot[s].attempt
    BY <2>3, RowTurns DEF SlotStep, Turns
  <2>5. rot[s].stage # "over"
    BY <1>2, <1>5, <2>3, RowTurns DEF SlotStep, Turns, Observe, Unfinished
  <2> QED BY <1>2, <1>5, <2>4, <2>5 DEF Pending, Unfinished
<1> QED BY <1>4, <1>5

\* A dispatch moves one write from what is promised, or from what the window
\* still has, to what is written, and promises the writes that follow it.
LEMMA DispatchPays ==
  ASSUME TypeOK, StagesFit, WindowHolds, NEW s \in Slot, Dispatch(s), rot[s].step # Release
  PROVE  /\ WindowHolds'
         /\ Pending' = (Pending \cup NewBookings(s)) \ {<<s, rot[s].attempt, rot[s].step>>}
<1> DEFINE this == <<s, rot[s].attempt, rot[s].step>>
           new  == NewBookings(s)
<1>0. rot[s].stage = "cloud"
  BY DEF Dispatch, StagesFit, Fits
<1>1. /\ budget'.writes = budget.writes + 1
      /\ budget'.booked = (budget.booked \cup new) \ {this}
  BY DEF Dispatch, TypeOK
<1>2. \A t \in Slot : rot'[t].stage = rot[t].stage /\ rot'[t].attempt = rot[t].attempt
  BY RowTurns DEF Turns
<1>3. Pending' = (Pending \cup new) \ {this}
  <2>1. \A b \in budget'.booked : b[1] \in Slot
    BY <1>1 DEF TypeOK, Booking, NewBookings
  <2>2. \A b \in budget'.booked : (Unfinished(b[1])' <=> Unfinished(b[1])) /\ rot'[b[1]].attempt = rot[b[1]].attempt
    BY <1>2, <2>1 DEF Unfinished
  <2>3. Pending' = {b \in budget'.booked : Unfinished(b[1]) /\ b[2] = rot[b[1]].attempt}
    BY <2>2 DEF Pending
  <2>4. \A b \in new : Unfinished(b[1]) /\ b[2] = rot[b[1]].attempt
    BY <1>0 DEF NewBookings, Unfinished
  <2> QED BY <1>1, <2>3, <2>4 DEF Pending
<1>4. this \notin new /\ new \cap Pending = {}
  BY RowFields DEF NewBookings, Remaining, Pending
<1>5. WindowAdmits(s)
  BY DEF Dispatch, Admits
<1> DEFINE p == Cardinality(Pending)
           n == Cardinality(new)
<1>6. IsFiniteSet(Pending) /\ IsFiniteSet(new) /\ p \in Nat /\ n \in Nat
  BY BookingsAreFinite
<1>7. /\ IsFiniteSet(Pending \cup new)
      /\ Cardinality(Pending \cup new) = p + n
  <2>1. Cardinality(Pending \cap new) = 0
    BY <1>4, FS_EmptySet
  <2>2. /\ IsFiniteSet(Pending \cup new)
        /\ Cardinality(Pending \cup new) = p + n - Cardinality(Pending \cap new)
    BY <1>6, FS_Union
  <2> HIDE DEF p, n
  <2> QED BY <1>6, <2>1, <2>2
<1>8. Cardinality(Pending') = IF Booked(s) THEN p + n - 1 ELSE p + n
  <2>1. this \in Pending \cup new <=> Booked(s)
    BY <1>4 DEF Booked
  <2>2. Cardinality((Pending \cup new) \ {this}) =
          IF this \in Pending \cup new THEN Cardinality(Pending \cup new) - 1 ELSE Cardinality(Pending \cup new)
    BY <1>7, FS_RemoveElement
  <2>3. Cardinality(Pending') = Cardinality((Pending \cup new) \ {this})
    BY <1>3
  <2>4. CASE Booked(s)
    <3>1. Cardinality((Pending \cup new) \ {this}) = Cardinality(Pending \cup new) - 1
      BY <2>1, <2>2, <2>4
    <3> HIDE DEF p, n, this, new
    <3> QED BY <1>6, <1>7, <2>3, <2>4, <3>1
  <2>5. CASE ~Booked(s)
    <3>1. Cardinality((Pending \cup new) \ {this}) = Cardinality(Pending \cup new)
      BY <2>1, <2>2, <2>5
    <3> HIDE DEF p, n, this, new
    <3> QED BY <1>7, <2>3, <2>5, <3>1
  <2> QED BY <2>4, <2>5
<1>9. budget'.writes + Cardinality(Pending') <= Capacity
  <2> USE BookingsAreFinite
  <2>1. CASE Booked(s) /\ n = 0
    BY <1>1, <1>6, <1>8, <2>1 DEF WindowHolds
  <2>2. CASE Booked(s) /\ n # 0
    BY <1>1, <1>5, <1>6, <1>8, <2>2 DEF WindowAdmits, Used
  <2>3. CASE ~Booked(s)
    BY <1>1, <1>5, <1>6, <1>8, <2>3 DEF WindowAdmits, Used
  <2> QED BY <2>1, <2>2, <2>3
<1> QED BY <1>3, <1>9 DEF WindowHolds

LEMMA ReleaseCostsNoWrite ==
  ASSUME TypeOK, NEW s \in Slot, Dispatch(s), rot[s].step = Release
  PROVE  Pending' = Pending /\ budget'.writes = budget.writes /\ budget'.booked = budget.booked
<1>1. budget'.writes = budget.writes /\ budget'.booked = budget.booked
  BY DEF Dispatch, TypeOK
<1>2. \A t \in Slot : rot'[t].stage = rot[t].stage /\ rot'[t].attempt = rot[t].attempt
  BY RowTurns DEF Turns
<1>3. \A b \in budget.booked : b[1] \in Slot
  BY DEF TypeOK, Booking
<1> QED BY <1>1, <1>2, <1>3 DEF Pending, Unfinished

LEMMA BookedByDispatch ==
  ASSUME TypeOK, NEW s \in Slot, Dispatch(s)
  PROVE  \/ budget'.booked = budget.booked
         \/ budget'.booked = (budget.booked \cup NewBookings(s)) \ {<<s, rot[s].attempt, rot[s].step>>}
<1>1. CASE budget' = [budget EXCEPT !.releases = @ + 1]
  BY <1>1 DEF TypeOK
<1>2. CASE budget' = [budget EXCEPT !.writes = @ + 1,
                 !.booked = (@ \cup NewBookings(s)) \ {<<s, rot[s].attempt, rot[s].step>>}]
  BY <1>2 DEF TypeOK
<1> QED BY <1>1, <1>2 DEF Dispatch

\* What is promised to one slot is not taken away by the steps of another, nor by
\* the call and its answer.
LEMMA PendingStays ==
  ASSUME TypeOK, NEW s \in Slot, SlotStep(s), NEW b \in Pending,
         b[1] # s \/ CloudActs(s) \/ Observe(s)
  PROVE  b \in Pending'
<1>0. b \in budget.booked /\ b[1] \in Slot /\ rot[b[1]].stage # "over" /\ b[2] = rot[b[1]].attempt
  BY DEF Pending, Unfinished, TypeOK, Booking
<1>1. CASE b[1] # s
  <2>1. rot'[b[1]] = rot[b[1]]
    BY <1>0, <1>1, RowTurns DEF SlotStep, Turns
  <2>2. b \in budget'.booked
    <3>1. CASE Dispatch(s)
      BY <1>0, <1>1, <3>1, BookedByDispatch
    <3>2. CASE ~Dispatch(s)
      BY <1>0, <1>1, <3>2 DEF SlotStep, Begin, NextAttempt, Publish, Terminate, Complete, CloudActs, Throttled, Observe, TypeOK
    <3> QED BY <3>1, <3>2
  <2> QED BY <1>0, <2>1, <2>2 DEF Pending, Unfinished
<1>2. CASE b[1] = s
  <2>1. CloudActs(s) \/ Observe(s)
    BY <1>2
  <2>2. rot'[s].attempt = rot[s].attempt /\ rot'[s].stage # "over"
    BY <1>0, <1>2, <2>1, RowTurns DEF Turns
  <2>3. budget' = budget
    BY <2>1 DEF CloudActs, Observe
  <2> QED BY <1>0, <1>2, <2>2, <2>3 DEF Pending, Unfinished
<1> QED BY <1>1, <1>2

LEMMA BookingsAreGivenStep ==
  ASSUME TypeOK, BookingsAreGiven, NEW s \in Slot, SlotStep(s)
  PROVE  BookingsAreGiven'
<1> SUFFICES ASSUME NEW b \in budget'.booked PROVE b[2] <= rot'[b[1]].attempt
  BY DEF BookingsAreGiven
<1>1. ASSUME NEW t \in Slot PROVE rot[t].attempt <= rot'[t].attempt /\ rot[t].attempt \in Nat
                                   /\ rot'[t].attempt \in {rot[t].attempt, rot[t].attempt + 1}
  <2>1. rot[t].attempt \in Nat
    BY RowFields
  <2>2. rot'[t].attempt \in {rot[t].attempt, rot[t].attempt + 1}
    BY RowTurns DEF SlotStep, Turns
  <2> QED BY <2>1, <2>2
<1>2. CASE b \in budget.booked
  <2>1. b[1] \in Slot /\ b[2] \in Nat
    BY <1>2, Attempts DEF TypeOK, Booking
  <2>2. b[2] <= rot[b[1]].attempt
    BY <1>2 DEF BookingsAreGiven
  <2> QED BY <1>1, <2>1, <2>2
<1>3. CASE b \notin budget.booked
  <2>1. Dispatch(s)
    BY <1>3 DEF SlotStep, Begin, NextAttempt, Publish, Terminate, Complete, CloudActs, Throttled,
         Observe, TypeOK
  <2>2. b[1] = s /\ b[2] = rot[s].attempt
    BY <1>3, <2>1, BookedByDispatch DEF NewBookings
  <2> QED BY <1>1, <2>2
<1> QED BY <1>2, <1>3

LEMMA WindowHoldsStep ==
  ASSUME TypeOK, StagesFit, BookingsAreGiven, WindowHolds, NEW s \in Slot, SlotStep(s)
  PROVE  WindowHolds'
<1>1. CASE Dispatch(s) /\ rot[s].step # Release
  BY <1>1, DispatchPays
<1>2. CASE Dispatch(s) /\ rot[s].step = Release
  BY <1>2, ReleaseCostsNoWrite DEF WindowHolds
<1>3. CASE ~Dispatch(s)
  <2>1. Pending' \subseteq Pending /\ budget'.writes = budget.writes
    BY <1>3, PendingShrinks
  <2>2. Cardinality(Pending') \in Nat /\ Cardinality(Pending') <= Cardinality(Pending)
    BY <2>1, BookingsAreFinite, FS_Subset, FS_CardinalityType
  <2> QED BY <2>1, <2>2, BookingsAreFinite DEF WindowHolds
<1> QED BY <1>1, <1>2, <1>3

\* The detaching call is admitted together with the write that follows it.
LEMMA AttachIsPaidStep ==
  ASSUME TypeOK, StagesFit, WindowHolds, AttachIsPaid, NEW s \in Slot, SlotStep(s)
  PROVE  AttachIsPaid'
<1> SUFFICES ASSUME NEW t \in Slot, Detaches(t)' PROVE <<t, rot'[t].attempt, Attach>> \in Pending'
  BY DEF AttachIsPaid
<1>1. CASE t # s
  <2>1. rot'[t] = rot[t]
    BY <1>1, RowTurns DEF SlotStep, Turns
  <2>2. <<t, rot[t].attempt, Attach>> \in Pending
    BY <2>1 DEF AttachIsPaid, Detaches, InFlight
  <2> QED BY <1>1, <2>1, <2>2, PendingStays
<1>2. CASE t = s
  <2> DEFINE paid == <<s, rot[s].attempt, Attach>>
  <2>0. /\ rot'[s].stage = "cloud"
        /\ \/ rot'[s].step = 3 /\ rot'[s].status = "prepared"
           \/ rot'[s].step = 2 /\ rot'[s].status \in {"sent", "made", "lost"}
    BY <1>2 DEF Detaches, InFlight, Attach, Detach
  <2>1. CASE Dispatch(s)
    <3>1. rot[s].step = Detach /\ rot'[s].attempt = rot[s].attempt /\ rot[s].stage = "cloud"
      BY <2>0, <2>1, RowTurns DEF Turns, Detach
    <3>2. Pending' = (Pending \cup NewBookings(s)) \ {<<s, rot[s].attempt, rot[s].step>>}
      BY <2>1, <3>1, DispatchPays DEF Detach, Release
    <3>3. paid \in Pending \cup NewBookings(s)
      BY <3>1 DEF Pending, Unfinished, NewBookings, Remaining, Detach, Attach
    <3>4. paid # <<s, rot[s].attempt, rot[s].step>>
      BY <3>1 DEF Detach, Attach
    <3> QED BY <1>2, <3>1, <3>2, <3>3, <3>4
  <2>2. CASE ~Dispatch(s)
    <3>1. (CloudActs(s) \/ Observe(s)) /\ rot'[s].attempt = rot[s].attempt /\ rot[s].stage = "cloud"
          /\ rot[s].step = Detach /\ rot[s].status \in {"sent", "made", "lost"}
      <4> USE RowTurns, RowFields DEF Turns, Allocate, Detach, Attach, Release
      <4>1. ~(Begin(s) \/ NextAttempt(s) \/ Publish(s) \/ Terminate(s) \/ Complete(s) \/ Throttled(s))
        BY <2>0
      <4>2. CASE CloudActs(s)
        BY <2>0, <4>2 DEF CloudActs
      <4>3. CASE Observe(s)
        BY <2>0, <4>3
      <4> QED BY <2>2, <4>1, <4>2, <4>3 DEF SlotStep
    <3>2. paid \in Pending
      BY <3>1 DEF AttachIsPaid, Detaches, InFlight
    <3> QED BY <1>2, <3>1, <3>2, PendingStays
  <2> QED BY <2>1, <2>2
<1> QED BY <1>1, <1>2

LEMMA CleanupQuota ==
  ASSUME TypeOK, BookingsAreGiven, WindowHolds, AttachIsPaid, CleanupStep
  PROVE  BookingsAreGiven' /\ WindowHolds' /\ AttachIsPaid'
<1>1. UNCHANGED rot
  BY CleanupKeepsRows
<1>2. budget'.booked = budget.booked /\ (budget'.writes = budget.writes \/ budget'.writes = budget.writes - 1)
  BY DEF CleanupStep, List, Preview, Confirm, ClaimLook, ClaimRelease, Check, CheckFails, Send, Look,
       Save, Dies, Expire, CooledDown, TypeOK
<1>3. Pending' = Pending
  BY <1>1, <1>2 DEF Pending, Unfinished
<1>4. BookingsAreGiven'
  BY <1>1, <1>2 DEF BookingsAreGiven
<1>5. WindowHolds'
  BY <1>2, <1>3, BookingsAreFinite DEF WindowHolds
<1>6. AttachIsPaid'
  BY <1>1, <1>3 DEF AttachIsPaid, Detaches, InFlight
<1> QED BY <1>4, <1>5, <1>6

-----------------------------------------------------------------------------
(* The inventory.                                                          *)

\* The owner gives and takes addresses, but none comes or goes.
LEMMA OutsideMoves ==
  ASSUME TypeOK, NEW s \in Slot, Outside(s)
  PROVE  /\ place' \in [Ip -> Place]
         /\ \A x \in Ip : place'[x] = "none" <=> place[x] = "none"
         /\ UNCHANGED <<rot, budget, batch, item, call, known>>
<1>1. CASE \E n \in Numbers(s) : place' = [place EXCEPT ![<<s, n>>] = "idle"]
  <2>1. PICK n \in Numbers(s) : place' = [place EXCEPT ![<<s, n>>] = "idle"]
    BY <1>1
  <2>2. place[<<s, n>>] = "attached"
    BY <2>1 DEF Numbers
  <2> QED BY <2>1, <2>2 DEF TypeOK, Place, Outside
<1>2. CASE \E n \in 0 .. MaxAttempts :
             place[<<s, n>>] = "idle" /\ place' = [place EXCEPT ![<<s, n>>] = "attached"]
  BY <1>2 DEF TypeOK, Place, Outside
<1> QED BY <1>1, <1>2 DEF Outside

\* The steps of the account, with the instances that the owner changes.
AccountStep ==
  \/ \E s \in Slot : SlotStep(s)
  \/ CleanupStep
  \/ \E s \in Slot : Outside(s)
  \/ UNCHANGED vars

\* A step of the account by itself, with its inventory, or of its inventory alone.
LEMMA AccountSteps == [Next]_vars => AccountStep
BY DEF Next, AccountStep, SlotStep, CleanupStep

LEMMA InventorySteps == [InventoryNext]_allVars => AccountStep
<1> USE DEF AccountStep
<1> SUFFICES ASSUME InventoryNext PROVE AccountStep
  BY DEF allVars
<1>1. CASE Elsewhere
  BY <1>1 DEF Elsewhere, SlotStep, CleanupStep
<1>2. CASE \E s \in Slot : BeginKnown(s) \/ ObserveKnown(s) \/ PublishKnown(s) \/ Promote(s) \/ Outside(s)
  BY <1>2 DEF BeginKnown, ObserveKnown, PublishKnown, Promote, SlotStep
<1>3. CASE \E c \in Scanner : StartScan(c) \/ ReadCloud(c) \/ Commit(c) \/ ScanFails(c)
  BY <1>3 DEF StartScan, ReadCloud, Commit, ScanFails
<1>4. CASE EditAccount
  BY <1>4 DEF EditAccount
<1> QED BY <1>1, <1>2, <1>3, <1>4 DEF InventoryNext

LEMMA SlotStepTypes ==
  ASSUME TypeOK, NEW s \in Slot, SlotStep(s)
  PROVE  TypeOK'
<1>1. rot' \in [Slot -> Row]
  BY RotationTypes DEF SlotStep
<1>2. place' \in [Ip -> Place]
  BY EffectTypes DEF SlotStep, Begin, NextAttempt, Publish, Terminate, Complete, Dispatch, Throttled,
     Observe, TypeOK
<1>3. budget' \in [writes : Nat, releases : 0 .. MaxReleases, cooling : BOOLEAN, booked : SUBSET Booking]
  BY BudgetTypes DEF SlotStep, Begin, NextAttempt, Publish, Complete, CloudActs, Observe, TypeOK
<1>4. UNCHANGED <<batch, item, call>>
  BY DEF SlotStep, Begin, NextAttempt, Publish, Terminate, Complete, Dispatch, CloudActs, Throttled, Observe
<1> QED BY <1>1, <1>2, <1>3, <1>4 DEF TypeOK

LEMMA TypeOKStep ==
  ASSUME TypeOK, AccountStep
  PROVE  TypeOK'
<1>1. ASSUME NEW s \in Slot, SlotStep(s) PROVE TypeOK'
  BY <1>1, SlotStepTypes
<1>2. CASE CleanupStep
  BY <1>2, CleanupTypes DEF CleanupStep
<1>3. ASSUME NEW s \in Slot, Outside(s) PROVE TypeOK'
  BY <1>3, OutsideMoves DEF TypeOK
<1>4. CASE UNCHANGED vars
  BY <1>4 DEF vars, TypeOK
<1> QED BY <1>1, <1>2, <1>3, <1>4 DEF AccountStep

LEMMA ShowsType ==
  ASSUME NEW s
  PROVE  Shows(s) \in Shown
BY DEF Shows, Numbers, Shown

LEMMA KnownTypes ==
  ASSUME InventoryTypeOK, [InventoryNext]_allVars
  PROVE  known' \in [Slot -> Slots]
<1> USE DEF InventoryTypeOK
<1>0. \A s \in Slot : known[s] \in Slots /\ rot[s].attempt \in Shown
  BY RowFields DEF Shown
<1>1. ASSUME NEW s \in Slot, ObserveKnown(s) PROVE known' \in [Slot -> Slots]
  <2>1. Install(s) \in Slots
    BY <1>0 DEF Install, Slots
  <2> QED BY <1>1, <2>1 DEF ObserveKnown
<1>2. ASSUME NEW s \in Slot, PublishKnown(s) \/ Promote(s) PROVE known' \in [Slot -> Slots]
  <2>1. known[s].candidate \in Shown
    BY <1>0, <1>2 DEF PublishKnown, Promote, Slots
  <2>2. Promoted(s) \in Slots
    BY <1>0, <2>1 DEF Promoted, Slots
  <2> QED BY <1>2, <2>2 DEF PublishKnown, Promote
<1>3. ASSUME NEW c \in Scanner, Commit(c) PROVE known' \in [Slot -> Slots]
  <2>1. \A s \in Slot : scan[c].seen[s] \in Shown
    BY DEF Scan
  <2>2. ASSUME NEW s \in Slot, NEW d \in Shown \cup {Nothing}
        PROVE  [known[s] EXCEPT !.observed = {scan[c].seen[s]}, !.candidate = d] \in Slots
    BY <1>0, <2>1 DEF Slots
  <2>3. \A s \in Slot : known[s].candidate \in Shown \cup {Nothing}
    BY <1>0 DEF Slots
  <2> QED BY <1>3, <2>1, <2>2, <2>3 DEF Commit
<1>4. CASE UNCHANGED known
  BY <1>4
<1> QED BY <1>1, <1>2, <1>3, <1>4 DEF InventoryNext, allVars, BeginKnown, Outside, StartScan, ReadCloud,
           ScanFails, EditAccount

LEMMA ScanTypes ==
  ASSUME InventoryTypeOK, [InventoryNext]_allVars
  PROVE  scan' \in [Scanner -> Scan] /\ edits' \in 0 .. MaxEdits /\ outside' \in 0 .. MaxOutside
<1> USE InventoryAssumption DEF InventoryTypeOK, scanVars
<1>0. Idle \in Scan /\ [Idle EXCEPT !.at = "started"] \in Scan
  BY DEF Idle, Scan, Shown
<1>1. ASSUME NEW c \in Scanner, ReadCloud(c)
      PROVE  scan' \in [Scanner -> Scan] /\ UNCHANGED <<edits, outside>>
  <2>1. [s \in Slot |-> Shows(s)] \in [Slot -> Shown]
    BY ShowsType
  <2>2. [scan[c] EXCEPT !.at = "read", !.seen = [s \in Slot |-> Shows(s)]] \in Scan
    BY <2>1 DEF Scan
  <2>3. scan' = [scan EXCEPT ![c] = [scan[c] EXCEPT !.at = "read", !.seen = [s \in Slot |-> Shows(s)]]]
    BY <1>1 DEF ReadCloud
  <2> QED BY <1>1, <2>2, <2>3 DEF ReadCloud
<1>2. ASSUME NEW c \in Scanner, StartScan(c) \/ Commit(c) \/ ScanFails(c)
      PROVE  scan' \in [Scanner -> Scan] /\ UNCHANGED <<edits, outside>>
  BY <1>0, <1>2 DEF StartScan, Commit, ScanFails
<1>3. CASE EditAccount
  BY <1>0, <1>3 DEF EditAccount
<1>4. ASSUME NEW s \in Slot, Outside(s)
      PROVE  outside' \in 0 .. MaxOutside /\ UNCHANGED <<scan, edits>>
  BY <1>4 DEF Outside
<1>5. CASE UNCHANGED scanVars
  BY <1>5
<1> QED BY <1>1, <1>2, <1>3, <1>4, <1>5 DEF InventoryNext, allVars, BeginKnown, ObserveKnown, PublishKnown, Promote

-----------------------------------------------------------------------------
(* The candidate that a rotation has installed.                            *)

\* InstalledIsCandidate, of one slot.
Installed(s) ==
  /\ rot[s].stage = "candidate" => known[s].candidate = rot[s].attempt
  /\ rot[s].stage = "cleanup" => known[s].current = rot[s].attempt /\ known[s].candidate = Nothing

\* What leaves the row of the slot in its stage and the inventory of it alone.
LEMMA InstalledStays ==
  ASSUME NEW t \in Slot, Installed(t),
         /\ rot'[t].stage \in {"candidate", "cleanup"} =>
              /\ rot'[t].stage = rot[t].stage /\ rot'[t].attempt = rot[t].attempt
              /\ known'[t].current = known[t].current /\ known'[t].candidate = known[t].candidate
  PROVE  Installed(t)'
BY DEF Installed

LEMMA InstalledStep ==
  ASSUME InventoryTypeOK, StagesFit, InstalledIsCandidate, [InventoryNext]_allVars
  PROVE  InstalledIsCandidate'
<1> SUFFICES ASSUME NEW t \in Slot PROVE Installed(t)'
  BY DEF InstalledIsCandidate, Installed
<1>0. Installed(t) /\ TypeOK
  BY DEF InstalledIsCandidate, Installed, InventoryTypeOK
<1>1. CASE UNCHANGED <<rot, known>>
  BY <1>0, <1>1, InstalledStays
<1>2. ASSUME NEW s \in Slot, UNCHANGED known,
             NextAttempt(s) \/ Terminate(s) \/ Complete(s) \/ Dispatch(s) \/ CloudActs(s) \/ Throttled(s)
      PROVE  Installed(t)'
  BY <1>0, <1>2, InstalledStays, RowTurns DEF Turns
<1>3. CASE Elsewhere /\ UNCHANGED known
  <2>1. CleanupStep \/ \E s \in Slot : NextAttempt(s) \/ Terminate(s) \/ Complete(s) \/ Dispatch(s)
                                       \/ CloudActs(s) \/ Throttled(s)
    BY <1>3 DEF Elsewhere, CleanupStep
  <2> QED BY <1>1, <1>2, <1>3, <2>1, CleanupKeepsRows
<1>4. ASSUME NEW s \in Slot, BeginKnown(s) PROVE Installed(t)'
  <2>1. Begin(s) /\ UNCHANGED known
    BY <1>4 DEF BeginKnown
  <2> QED BY <1>0, <2>1, InstalledStays, RowTurns DEF Turns
<1>5. ASSUME NEW s \in Slot, ObserveKnown(s) PROVE Installed(t)'
  <2>0. Observe(s)
    BY <1>5 DEF ObserveKnown
  <2>1. CASE t # s
    <3>1. rot'[t] = rot[t]
      BY <1>0, <2>0, <2>1, RowTurns DEF Turns
    <3>2. known'[t] = known[t]
      BY <1>5, <2>1 DEF ObserveKnown, InventoryTypeOK
    <3> QED BY <1>0, <3>1, <3>2, InstalledStays
  <2>2. CASE t = s /\ rot'[s].stage = "candidate"
    <3>1. rot'[s].attempt = rot[s].attempt
      BY <1>0, <2>0, RowTurns DEF Turns
    <3>2. known'[s] = Install(s) /\ known[s] \in Slots
      BY <1>5, <2>2 DEF ObserveKnown, InventoryTypeOK
    <3>3. known'[s].candidate = rot[s].attempt
      BY <3>2 DEF Install, Slots
    <3> QED BY <2>2, <3>1, <3>3 DEF Installed
  <2>3. CASE t = s /\ rot'[s].stage # "candidate"
    <3>1. UNCHANGED known
      BY <1>5, <2>3 DEF ObserveKnown
    <3>2. rot'[s].stage = rot[s].stage /\ rot'[s].attempt = rot[s].attempt
      BY <1>0, <2>0, <2>3, RowTurns DEF Turns
    <3> QED BY <1>0, <2>3, <3>1, <3>2, InstalledStays
  <2> QED BY <2>1, <2>2, <2>3
<1>6. ASSUME NEW s \in Slot, PublishKnown(s) PROVE Installed(t)'
  <2>0. /\ rot'[s].stage = "cleanup" /\ rot'[s].attempt = rot[s].attempt
        /\ \A u \in Slot \ {s} : rot'[u] = rot[u]
    BY <1>0, <1>6, RowTurns DEF Turns, PublishKnown
  <2>1. CASE t # s
    <3>1. known'[t] = known[t]
      BY <1>6, <2>1 DEF PublishKnown, InventoryTypeOK
    <3> QED BY <1>0, <2>0, <2>1, <3>1, InstalledStays
  <2>2. CASE t = s
    <3>1. known'[s] = Promoted(s) /\ known[s] \in Slots /\ known[s].candidate = rot[s].attempt
      BY <1>6 DEF PublishKnown, InventoryTypeOK
    <3>2. known'[s].current = rot[s].attempt /\ known'[s].candidate = Nothing
      BY <3>1 DEF Promoted, Slots
    <3> QED BY <2>0, <2>2, <3>2 DEF Installed
  <2> QED BY <2>1, <2>2
<1>7. ASSUME NEW s \in Slot, Promote(s) PROVE Installed(t)'
  <2>1. rot' = rot /\ (t = s => rot[t].stage = "over")
    BY <1>7 DEF Promote, vars, Quiet, Unfinished
  <2>2. t # s => known'[t] = known[t]
    BY <1>7 DEF Promote, InventoryTypeOK
  <2> QED BY <1>0, <2>1, <2>2, InstalledStays
<1>8. ASSUME NEW c \in Scanner, Commit(c) PROVE Installed(t)'
  <2>1. rot' = rot
    BY <1>8 DEF Commit, vars
  <2>2. known[t] \in Slots
    BY DEF InventoryTypeOK
  <2>3. known'[t] = [known[t] EXCEPT !.observed = {scan[c].seen[t]},
                       !.candidate = IF Stages(t, scan[c].seen[t]) THEN scan[c].seen[t] ELSE @]
    BY <1>8 DEF Commit
  <2>4. rot[t].stage # "over" => ~Stages(t, scan[c].seen[t])
    BY DEF Stages, Busy, Unfinished
  <2>5. rot[t].stage # "over" => known'[t].current = known[t].current /\ known'[t].candidate = known[t].candidate
    BY <2>2, <2>3, <2>4 DEF Slots
  <2> QED BY <1>0, <2>1, <2>5, InstalledStays
<1> QED BY <1>1, <1>3, <1>4, <1>5, <1>6, <1>7, <1>8 DEF InventoryNext, allVars, vars, Outside, StartScan,
           ReadCloud, ScanFails, EditAccount, scanVars

-----------------------------------------------------------------------------
(* The invariant.                                                          *)

LEMMA SwapStep ==
  ASSUME TypeOK, Swap, AccountStep
  PROVE  Swap'
<1> USE DEF Swap
<1>1. ASSUME NEW s \in Slot, SlotStep(s) PROVE Swap'
  BY <1>1, StagesFitStep, PlacesAreGivenStep, CandidateIsKeptStep
<1>2. CASE CleanupStep
  BY <1>2, CleanupSwap
<1>3. CASE \E s \in Slot : Outside(s)
  <2>1. /\ \A x \in Ip : place'[x] = "none" <=> place[x] = "none"
        /\ UNCHANGED <<rot, batch, item, call>>
    BY <1>3, OutsideMoves
  <2>2. StagesFit' /\ PlacesAreGiven' /\ CallsAreBygone'
    BY <2>1 DEF StagesFit, Fits, InFlight, PlacesAreGiven, Given, CallsAreBygone, Bygone
  <2>3. \A s \in Slot : Candidate(s) \in Ip
    BY RowFields DEF Candidate, Ip
  <2>4. CandidateIsKept'
    BY <2>1, <2>3 DEF CandidateIsKept, Candidate, Unfinished
  <2> QED BY <2>2, <2>4
<1>4. CASE UNCHANGED vars
  BY <1>4 DEF vars, StagesFit, Fits, InFlight, PlacesAreGiven, Given, CallsAreBygone, Bygone,
     CandidateIsKept, Candidate, Unfinished
<1> QED BY <1>1, <1>2, <1>3, <1>4 DEF AccountStep

LEMMA QuotaStep ==
  ASSUME TypeOK, StagesFit, Quota, AccountStep
  PROVE  Quota'
<1> USE DEF Quota
<1>1. ASSUME NEW s \in Slot, SlotStep(s) PROVE Quota'
  BY <1>1, BookingsAreGivenStep, WindowHoldsStep, AttachIsPaidStep
<1>2. CASE CleanupStep
  BY <1>2, CleanupQuota
<1>3. CASE UNCHANGED <<rot, budget>>
  BY <1>3 DEF BookingsAreGiven, WindowHolds, AttachIsPaid, Pending, Unfinished, Detaches, InFlight
<1> QED BY <1>1, <1>2, <1>3, OutsideMoves DEF AccountStep, vars

\* What the invariant says of the account itself.
RotationInv == TypeOK /\ Swap /\ Quota

LEMMA AccountInit == Init => Swap /\ Quota
<1> SUFFICES ASSUME Init PROVE Swap /\ Quota
  OBVIOUS
<1> USE Attempts, AccountAssumption DEF Init
<1>1. StagesFit /\ CallsAreBygone /\ BookingsAreGiven
  BY DEF StagesFit, Fits, InFlight, CallsAreBygone, BookingsAreGiven, Attach, Release
<1>2. PlacesAreGiven
  BY Parts DEF PlacesAreGiven, Given, NoItem, Attach, Allocate
<1>3. CandidateIsKept
  BY DEF CandidateIsKept, Candidate, Ip
<1>4. WindowHolds
  <2>1. Pending = {}
    BY DEF Pending
  <2> QED BY <2>1, FS_EmptySet DEF WindowHolds
<1>5. AttachIsPaid
  BY DEF AttachIsPaid, Detaches
<1> QED BY <1>1, <1>2, <1>3, <1>4, <1>5 DEF Swap, Quota

LEMMA RotationStep == RotationInv /\ AccountStep => RotationInv'
BY TypeOKStep, SwapStep, QuotaStep DEF RotationInv, Swap

\* The invariant of an account by itself, without an inventory that is scanned:
\* rotations, cleanup and budget (cloud-rotation-limits.ts).
THEOREM RotationInvariant == Spec => []RotationInv
<1>1. Init => RotationInv
  BY AccountInit, TypeInit DEF RotationInv
<1>2. RotationInv /\ [Next]_vars => RotationInv'
  BY RotationStep, AccountSteps
<1> QED BY <1>1, <1>2, PTL DEF Spec

\* The invariant of an account with its inventory, which scans change as well.
AccountInv == InventoryTypeOK /\ Swap /\ Quota /\ InstalledIsCandidate

LEMMA InvStep == AccountInv /\ [InventoryNext]_allVars => AccountInv'
<1> SUFFICES ASSUME AccountInv, [InventoryNext]_allVars PROVE AccountInv'
  OBVIOUS
<1>1. InventoryTypeOK /\ RotationInv /\ StagesFit /\ InstalledIsCandidate
  BY DEF AccountInv, RotationInv, InventoryTypeOK, Swap
<1>2. RotationInv'
  BY <1>1, RotationStep, InventorySteps
<1>3. known' \in [Slot -> Slots]
  BY <1>1, KnownTypes
<1>4. scan' \in [Scanner -> Scan] /\ edits' \in 0 .. MaxEdits /\ outside' \in 0 .. MaxOutside
  BY <1>1, ScanTypes
<1>5. InstalledIsCandidate'
  BY <1>1, InstalledStep
<1> QED BY <1>2, <1>3, <1>4, <1>5 DEF AccountInv, RotationInv, InventoryTypeOK

\* It is one of the account with its inventory, for any number of scans.
THEOREM AccountInvariant == InventorySpec => []AccountInv
<1>1. InventoryInit => AccountInv
  BY TypeInit, AccountInit, KnownInit DEF AccountInv, InventoryTypeOK, InventoryInit
<1> QED BY <1>1, InvStep, PTL DEF InventorySpec

\* The writes of rotations and the promises to them stay within the capacity of
\* the window, for any capacity and any number of slots.
THEOREM WindowHoldsAlways == InventorySpec => []WindowHolds
BY AccountInvariant, PTL DEF AccountInv, Quota

\* Who may detach an address has the attachment of the next one promised to it.
THEOREM AttachIsPaidAlways == InventorySpec => []AttachIsPaid
BY AccountInvariant, PTL DEF AccountInv, Quota

\* The cleanup of idle addresses does not release an address that a rotation is
\* about to attach, however late its calls and those of the rotation arrive.
THEOREM CandidateIsKeptAlways == InventorySpec => []CandidateIsKept
BY AccountInvariant, PTL DEF AccountInv, Swap

\* While a rotation holds an address that it has installed, or cleans up after its
\* publication, no scan that read the cloud before the swap takes it from the slot.
THEOREM InstalledIsCandidateAlways == InventorySpec => []InstalledIsCandidate
BY AccountInvariant, PTL DEF AccountInv

-----------------------------------------------------------------------------
(* Notifications.                                                          *)

\* A job has the id of its row and of the try that queued it.
JobId == {"deliver", "test", "recover"} \X Delivery \X Nat

\* A job is in a phase of its delivery exactly as long as it is active.
JobRow ==
  [state : {"active"}, phase : {"send", "sent", "error"}, read : Nat, fails : Nat, max : Nat]
  \cup [state : {"waiting", "over"}, phase : {"none"}, read : Nat, fails : Nat, max : Nat]

\* What a fanout has still to insert and to queue.
FanoutRow == [state : {"waiting", "active", "done", "failed"}, todo : SUBSET Channel,
              ready : SUBSET (Delivery \X Nat), fails : Nat]

FanoutsFit == DOMAIN fanouts \subseteq Event /\ \A e \in DOMAIN fanouts : fanouts[e] \in FanoutRow
JobsFit == DOMAIN jobs \subseteq JobId /\ \A i \in DOMAIN jobs : jobs[i] \in JobRow
LocksFit == \A d \in DOMAIN lock : lock[d] \in JobId /\ lock[d][2] = d
GotFits == DOMAIN got \subseteq Delivery /\ \A d \in DOMAIN got : got[d] \in Int

Types ==
  /\ NotifyTypeOK
  /\ events \in 0 .. MaxEvents
  /\ FanoutsFit /\ JobsFit /\ LocksFit /\ GotFits

-----------------------------------------------------------------------------
(* Types.                                                                  *)

LEMMA Bounds ==
  /\ MaxTries \in Nat /\ FanoutTries \in Nat /\ MaxEvents \in Nat /\ MaxLive \in Nat
  /\ First \in Channel
  /\ DOMAIN PoolsOf = {"health", "rotation", "notice", "test"}
BY NotificationsAssumption

LEMMA EventsFit ==
  ASSUME NEW s \in {"health", "rotation", "notice", "test"}, NEW n \in 0 .. MaxEvents, NEW w \in Says
  PROVE  EventOf(s, n, w) \in Event
BY Bounds DEF Event

LEMMA HealthEventsFit ==
  ASSUME health \in HealthRow
  PROVE  HealthEvents(health) \subseteq Event /\ \A e \in HealthEvents(health) : e.source = "health"
<1>1. HealthSays(health) \subseteq Says
  BY DEF HealthSays, HealthRow, Finding, Says
<1>2. health.changed \in 0 .. MaxEvents
  BY DEF HealthRow
<1> QED BY <1>1, <1>2, EventsFit DEF HealthEvents, EventOf

LEMMA RotationEventsFit ==
  ASSUME rotation \in Stage \cup {"none"}
  PROVE  RotationEvents(rotation) \subseteq Event /\ \A e \in RotationEvents(rotation) : e.source = "rotation"
<1>1. CASE rotation = "none"
  BY <1>1 DEF RotationEvents
<1>2. CASE rotation \in Stage
  <2>1. EventOf("rotation", 0, rotation) \in Event
    <3>1. 0 \in 0 .. MaxEvents
      BY Bounds
    <3>2. rotation \in Says
      BY <1>2 DEF Says
    <3> QED BY <3>1, <3>2, EventsFit
  <2> QED BY <2>1 DEF RotationEvents, EventOf
<1> QED BY <1>1, <1>2

LEMMA TypesInit == NotifyInit => Types
<1> SUFFICES ASSUME NotifyInit PROVE Types
  OBVIOUS
<1>1. health \in HealthRow
  BY Bounds DEF NotifyInit, HealthRow, Finding
<1>2. NotifyTypeOK
  BY <1>1, Bounds DEF NotifyInit, NotifyTypeOK, ChannelRow
<1> QED BY <1>2, Bounds DEF NotifyInit, Types, JobsFit, LocksFit, FanoutsFit, GotFits

LEMMA EventsTypes ==
  ASSUME Types, NotifyNext
  PROVE  events' \in 0 .. MaxEvents /\ events' \in {events, events + 1}
<1>1. events \in 0 .. MaxEvents
  BY DEF Types
<1>2. CASE Happens
  BY <1>1, <1>2, Bounds DEF Happens
<1>3. CASE UNCHANGED events
  BY <1>1, <1>3
<1>4. CASE \E d \in DOMAIN lock : LockExpires(d)
  BY <1>2, <1>3, <1>4 DEF LockExpires
<1> QED BY <1>2, <1>3, <1>4 DEF NotifyNext, Watched, Round, EditPolicy, Rotate, Notice, Move, User, SaveChannel,
           RemoveChannel, TestChannel, LinkPool, UnlinkPool, ScanHealth, ScanRotations, Recover,
           QueueNotice, Fanout, FanoutBegins, FanoutQueues, FanoutInserts, FanoutRefused, DeliverBegins, DeliverGoesOn, DeliverSends,
           SaveDelivered, SaveError, Environment, Crash, LoseRedis, FanoutFails, Forget

LEMMA SourceTypes ==
  ASSUME Types, NotifyNext
  PROVE  health' \in HealthRow /\ rotation' \in Stage \cup {"none"} /\ held' \subseteq Event
<1> USE DEF Types, NotifyTypeOK
<1>0. events' \in 0 .. MaxEvents
  BY EventsTypes
<1>1. CASE Round \/ EditPolicy
  <2>1. health' \in HealthRow
    BY <1>0, <1>1 DEF Round, EditPolicy, HealthRow, Finding
  <2> QED BY <1>1, <2>1 DEF Round, EditPolicy
<1>2. CASE Rotate
  BY <1>2 DEF Rotate, Stage
<1>3. CASE Notice
  <2>1. EventOf("notice", events', "all_down") \in Event
    BY <1>0, EventsFit DEF Says
  <2> QED BY <1>3, <2>1 DEF Notice
<1>4. CASE \E e \in held : QueueNotice(e)
  BY <1>4 DEF QueueNotice
<1>5. CASE Crash
  BY <1>5 DEF Crash
<1>6. CASE UNCHANGED source
  BY <1>6 DEF source
<1> QED BY <1>1, <1>2, <1>3, <1>4, <1>5, <1>6 DEF NotifyNext, Watched, User, SaveChannel, Kept,
           RemoveChannel, TestChannel, LinkPool, UnlinkPool, ScanHealth, ScanRotations, Recover,
           Fanout, FanoutBegins, FanoutQueues, FanoutInserts, FanoutRefused, DeliverBegins, DeliverGoesOn, DeliverSends,
           SaveDelivered, SaveError, Environment, LoseRedis, FanoutFails, Forget, LockExpires

LEMMA SetupTypes ==
  ASSUME Types, NotifyNext
  PROVE  /\ DOMAIN channels' \subseteq Channel \ removed' /\ removed' \subseteq Channel
         /\ \A c \in DOMAIN channels' : channels'[c] \in ChannelRow
         /\ DOMAIN links' \subseteq Pool \X DOMAIN channels'
<1> USE DEF Types, NotifyTypeOK
<1>1. ASSUME NEW c \in Channel, SaveChannel(c)
      PROVE  /\ DOMAIN channels' \subseteq Channel \ removed' /\ removed' \subseteq Channel
             /\ \A x \in DOMAIN channels' : channels'[x] \in ChannelRow
             /\ DOMAIN links' \subseteq Pool \X DOMAIN channels'
  BY <1>1 DEF SaveChannel, Put, ChannelRow
<1>2. ASSUME NEW c \in Channel, RemoveChannel(c)
      PROVE  /\ DOMAIN channels' \subseteq Channel \ removed' /\ removed' \subseteq Channel
             /\ \A x \in DOMAIN channels' : channels'[x] \in ChannelRow
             /\ DOMAIN links' \subseteq Pool \X DOMAIN channels'
  BY <1>2 DEF RemoveChannel, Without
<1>3. ASSUME NEW c \in Channel, NEW p \in Pool, LinkPool(p, c) \/ UnlinkPool(p, c)
      PROVE  DOMAIN links' \subseteq Pool \X DOMAIN channels' /\ UNCHANGED <<channels, removed>>
  BY <1>3 DEF LinkPool, UnlinkPool, Put, Without
<1>4. CASE UNCHANGED setup
  BY <1>4 DEF setup
<1> QED BY <1>1, <1>2, <1>3, <1>4 DEF NotifyNext, Watched, Round, EditPolicy, Rotate, Notice, Told, User,
           TestChannel, ScanHealth, ScanRotations, Recover, QueueNotice,
           Fanout, FanoutBegins, FanoutQueues, FanoutInserts, FanoutRefused, DeliverBegins, DeliverGoesOn, DeliverSends,
           SaveDelivered, SaveError, Environment, Crash, LoseRedis, FanoutFails, Forget, LockExpires

LEMMA WriteTypes ==
  ASSUME Types, NEW d, NEW s \in {"pending", "retrying", "delivered", "failed"}, NEW n \in Nat,
         Write(d, s, n)
  PROVE  /\ DOMAIN rows' = DOMAIN rows
         /\ \A x \in DOMAIN rows : rows'[x] \in DeliveryRow
BY DEF Types, NotifyTypeOK, Write, DeliveryRow

LEMMA RowTypes ==
  ASSUME Types, NotifyNext
  PROVE  /\ DOMAIN rows' \subseteq Delivery
         /\ \A d \in DOMAIN rows' : rows'[d] \in DeliveryRow
<1> USE DEF Types, NotifyTypeOK
<1>0. [status |-> "pending", attempts |-> 0] \in DeliveryRow
  BY DEF DeliveryRow
<1>1. ASSUME NEW c \in Channel, RemoveChannel(c)
      PROVE  DOMAIN rows' \subseteq Delivery /\ \A d \in DOMAIN rows' : rows'[d] \in DeliveryRow
  BY <1>1 DEF RemoveChannel, Without
<1>2. ASSUME NEW c \in Channel, TestChannel(c)
      PROVE  DOMAIN rows' \subseteq Delivery /\ \A d \in DOMAIN rows' : rows'[d] \in DeliveryRow
  <2>1. <<EventOf("test", events', "test"), c>> \in Delivery
    BY EventsTypes, EventsFit DEF Delivery, Says
  <2> QED BY <1>0, <1>2, <2>1 DEF TestChannel, Put
<1>3. ASSUME NEW e \in DOMAIN fanouts, NEW c \in Channel, FanoutInserts(e, c)
      PROVE  DOMAIN rows' \subseteq Delivery /\ \A d \in DOMAIN rows' : rows'[d] \in DeliveryRow
  <2>1. <<e, c>> \in Delivery
    BY DEF Delivery
  <2> QED BY <1>0, <1>3, <2>1 DEF FanoutInserts, Put
<1>4. ASSUME NEW i \in DOMAIN jobs, DeliverBegins(i)
      PROVE  DOMAIN rows' \subseteq Delivery /\ \A d \in DOMAIN rows' : rows'[d] \in DeliveryRow
  BY <1>4 DEF DeliverBegins, DeliveryRow
<1>5. ASSUME NEW i \in DOMAIN jobs, SaveDelivered(i) \/ SaveError(i)
      PROVE  DOMAIN rows' \subseteq Delivery /\ \A d \in DOMAIN rows' : rows'[d] \in DeliveryRow
  <2>1. jobs[i].read + 1 \in Nat
    BY DEF JobsFit, JobRow
  <2> QED BY <1>5, <2>1, WriteTypes DEF SaveDelivered, SaveError
<1>6. CASE Recover
  BY <1>6 DEF Recover, DeliveryRow
<1>7. CASE UNCHANGED rows
  BY <1>7
<1> QED BY <1>1, <1>2, <1>3, <1>4, <1>5, <1>6, <1>7 DEF NotifyNext, Watched, Round, EditPolicy, Rotate, Notice,
           Told, User, SaveChannel, LinkPool, UnlinkPool, ScanHealth, ScanRotations, QueueNotice, Fanout,
           FanoutBegins, FanoutQueues, FanoutRefused, DeliverGoesOn, DeliverSends, Environment, Crash,
           LoseRedis, FanoutFails, Forget, LockExpires

LEMMA FanoutTypes ==
  ASSUME Types, NotifyNext
  PROVE  FanoutsFit'
<1> USE DEF Types, NotifyTypeOK, FanoutsFit
<1>0. FanoutJob \in FanoutRow
  BY DEF FanoutJob, FanoutRow
<1>1. ASSUME NEW new \in SUBSET Event, fanouts' = AddFanouts(new) PROVE FanoutsFit'
  BY <1>0, <1>1 DEF AddFanouts
<1>2. CASE ScanHealth \/ ScanRotations
  BY <1>1, <1>2, HealthEventsFit, RotationEventsFit DEF ScanHealth, ScanRotations
<1>3. CASE \E e \in held : QueueNotice(e)
  BY <1>1, <1>3 DEF QueueNotice
<1>4. ASSUME NEW e \in DOMAIN fanouts, FanoutBegins(e) PROVE FanoutsFit'
  <2>1. Selected(e) \subseteq Channel
    BY DEF Selected, Matching
  <2>2. [fanouts[e] EXCEPT !.state = "active", !.todo = Selected(e), !.ready = {}] \in FanoutRow
    BY <2>1 DEF FanoutRow
  <2>3. fanouts' = [fanouts EXCEPT ![e] = [fanouts[e] EXCEPT !.state = "active", !.todo = Selected(e), !.ready = {}]]
    BY <1>4 DEF FanoutBegins
  <2> QED BY <2>2, <2>3
<1>5. ASSUME NEW e \in DOMAIN fanouts, NEW c \in Channel, FanoutInserts(e, c) PROVE FanoutsFit'
  <2> DEFINE d == <<e, c>>
             n == (IF d \in DOMAIN rows THEN rows[d] ELSE [status |-> "pending", attempts |-> 0])
             more == IF n.status \in Open THEN fanouts[e].ready \cup {<<d, n.attempts>>} ELSE fanouts[e].ready
  <2>1. n.attempts \in Nat /\ d \in Delivery
    BY DEF DeliveryRow, Delivery
  <2>2. more \subseteq Delivery \X Nat
    BY <2>1 DEF FanoutRow
  <2>3. [fanouts[e] EXCEPT !.todo = @ \ {c}, !.ready = more] \in FanoutRow
    BY <2>2 DEF FanoutRow
  <2>4. fanouts' = [fanouts EXCEPT ![e] = [fanouts[e] EXCEPT !.todo = @ \ {c}, !.ready = more]]
    BY <1>5 DEF FanoutInserts
  <2> QED BY <2>3, <2>4
<1>6. ASSUME NEW e \in DOMAIN fanouts, FanoutQueues(e) PROVE FanoutsFit'
  <2>1. [fanouts[e] EXCEPT !.state = "done", !.ready = {}] \in FanoutRow
    BY DEF FanoutRow
  <2>2. fanouts' = [fanouts EXCEPT ![e] = [fanouts[e] EXCEPT !.state = "done", !.ready = {}]]
    BY <1>6 DEF FanoutQueues
  <2> QED BY <2>1, <2>2
<1>7. ASSUME NEW e \in DOMAIN fanouts, FanoutAgain(e) PROVE FanoutsFit'
  BY <1>7 DEF FanoutAgain, FanoutRow
<1>8. ASSUME NEW e \in DOMAIN fanouts, NEW c \in Channel, FanoutRefused(e, c) PROVE FanoutsFit'
  BY <1>7, <1>8 DEF FanoutRefused
<1>9. ASSUME NEW e \in DOMAIN fanouts, FanoutFails(e) PROVE FanoutsFit'
  BY <1>7, <1>9 DEF FanoutFails
<1>10. ASSUME NEW e \in DOMAIN fanouts, Forget(e) PROVE FanoutsFit'
  BY <1>10 DEF Forget, Without
<1>11. CASE Crash
  <2>1. \A e \in DOMAIN fanouts : [FanoutJob EXCEPT !.fails = fanouts[e].fails] \in FanoutRow
    BY DEF FanoutJob, FanoutRow
  <2> QED BY <1>11, <2>1 DEF Crash
<1>12. CASE LoseRedis
  BY <1>12 DEF LoseRedis
<1>13. CASE UNCHANGED fanouts
  BY <1>13
<1> HIDE DEF FanoutsFit, Types, NotifyTypeOK
<1>14. CASE \E e \in DOMAIN fanouts : Fanout(e)
  BY <1>4, <1>5, <1>6, <1>8, <1>14 DEF Fanout
<1>15. CASE Environment
  BY <1>9, <1>10, <1>11, <1>12, <1>15 DEF Environment
<1> QED
  BY <1>2, <1>3, <1>13, <1>14, <1>15 DEF NotifyNext, Watched, Round, EditPolicy, Rotate, Notice, Told, queue,
     User, SaveChannel, RemoveChannel, TestChannel, Kept, LinkPool, UnlinkPool, Recover, DeliverBegins, DeliverGoesOn, DeliverSends,
     SaveDelivered, SaveError, LockExpires

\* Jobs that are added leave those there are alone.
LEMMA JobsAdded ==
  ASSUME Types, NEW ids \in SUBSET JobId, jobs' = AddJobs(ids)
  PROVE  /\ JobsFit'
         /\ DOMAIN jobs' = DOMAIN jobs \cup ids
         /\ \A i \in DOMAIN jobs : jobs'[i] = jobs[i]
         /\ \A i \in ids \ DOMAIN jobs : jobs'[i].phase = "none"
<1>1. ASSUME NEW n \in Nat PROVE DeliverJob(TriesLeft(n)) \in JobRow /\ DeliverJob(TriesLeft(n)).phase = "none"
  <2>1. TriesLeft(n) \in Nat
    BY Bounds DEF TriesLeft
  <2> QED BY <2>1 DEF DeliverJob, JobRow
<1>2. \A i \in JobId : i[3] \in Nat
  BY DEF JobId
<1>3. DOMAIN jobs' = DOMAIN jobs \cup ids /\ \A i \in DOMAIN jobs : jobs'[i] = jobs[i]
  BY DEF AddJobs
<1>4. ASSUME NEW i \in ids \ DOMAIN jobs PROVE jobs'[i] \in JobRow /\ jobs'[i].phase = "none"
  <2>1. jobs'[i] = DeliverJob(TriesLeft(i[3]))
    BY DEF AddJobs, DeliverJob
  <2> QED BY <1>1, <1>2, <2>1
<1> QED BY <1>3, <1>4 DEF Types, JobsFit

LEMMA OverFits ==
  ASSUME Types, NEW i \in DOMAIN jobs, jobs' = Over(i)
  PROVE  /\ JobsFit'
         /\ DOMAIN jobs' \subseteq DOMAIN jobs
         /\ \A k \in DOMAIN jobs' \ {i} : jobs'[k] = jobs[k]
         /\ DOMAIN jobs \ {i} \subseteq DOMAIN jobs'
         /\ i \in DOMAIN jobs' => jobs'[i].phase = "none"
<1>1. OverJob \in JobRow /\ OverJob.phase = "none"
  BY DEF OverJob, JobRow
<1>2. CASE jobs' = Without(jobs, {i})
  BY <1>2 DEF Without, Types, JobsFit
<1>3. CASE jobs' = Put(jobs, i, OverJob)
  BY <1>1, <1>3 DEF Put, Types, JobsFit
<1> QED BY <1>2, <1>3 DEF Over

-----------------------------------------------------------------------------
(* What the jobs of a row have done, and what they may still do.           *)

\* The phase of a job, and how often a message has been received, excuses deducted.
Phase(i) == IF i \in DOMAIN jobs THEN jobs[i].phase ELSE "none"
Times(d) == IF d \in DOMAIN got THEN got[d] ELSE 0

\* What a step does to the phases: nothing, or it moves one job to p.
SamePhases == \A k : Phase(k)' = Phase(k)
PhaseTurns(i, p) == Phase(i)' = p /\ \A k : k # i => Phase(k)' = Phase(k)

LEMMA PhaseIsState ==
  ASSUME Types, NEW i
  PROVE  /\ Sending(i) <=> Phase(i) # "none"
         /\ Phase(i) \in {"none", "send", "sent", "error"}
         /\ Phase(i) # "none" => i \in JobId /\ i[2] \in Delivery /\ i \in DOMAIN jobs
BY DEF Types, JobsFit, JobRow, JobId, Sending, Phase

LEMMA AddedPhases ==
  ASSUME Types, NEW ids \in SUBSET JobId, jobs' = AddJobs(ids)
  PROVE  JobsFit' /\ SamePhases
BY JobsAdded DEF SamePhases, Phase

LEMMA OverTurns ==
  ASSUME Types, NEW i \in DOMAIN jobs, jobs' = Over(i)
  PROVE  JobsFit' /\ PhaseTurns(i, "none")
BY OverFits DEF PhaseTurns, Phase

LEMMA DeliveryTurns ==
  ASSUME Types, NEW i \in DOMAIN jobs, NEW j \in JobRow, jobs' = [jobs EXCEPT ![i] = j] \/ jobs' = Put(jobs, i, j)
  PROVE  JobsFit' /\ PhaseTurns(i, j.phase)
BY DEF Types, JobsFit, PhaseTurns, Phase, Put

LEMMA CountedTimes ==
  ASSUME Types, NEW S \in SUBSET Delivery, NEW n \in Int, got' = Counted(S, n)
  PROVE  /\ GotFits'
         /\ \A d : Times(d)' = IF d \in S THEN Times(d) + n ELSE Times(d)
<1> DEFINE count == [d \in DOMAIN got \cup S |->
             (IF d \in DOMAIN got THEN got[d] ELSE 0) + (IF d \in S THEN n ELSE 0)]
<1>1. got' = Without(count, {d \in DOMAIN count : count[d] = 0})
  BY DEF Counted
<1>2. DOMAIN count = DOMAIN got \cup S
  OBVIOUS
<1>3. ASSUME NEW d \in DOMAIN got \cup S
      PROVE  count[d] \in Int /\ count[d] = (IF d \in S THEN Times(d) + n ELSE Times(d))
  BY <1>3 DEF Types, GotFits, Times
<1> HIDE DEF count
<1>4. DOMAIN got' = {d \in DOMAIN got \cup S : count[d] # 0} /\ \A d \in DOMAIN got' : got'[d] = count[d]
  BY <1>1, <1>2 DEF Without
<1>5. GotFits'
  BY <1>3, <1>4 DEF Types, GotFits
<1>6. ASSUME NEW d PROVE Times(d)' = IF d \in S THEN Times(d) + n ELSE Times(d)
  <2>1. CASE d \in DOMAIN got \cup S
    BY <1>3, <1>4, <2>1 DEF Times
  <2>2. CASE d \notin DOMAIN got \cup S
    BY <1>4, <2>2 DEF Times
  <2> QED BY <2>1, <2>2
<1> QED BY <1>5, <1>6

\* The steps that add jobs.
LEMMA QueueStep ==
  ASSUME Types, NotifyNext,
         \/ \E e \in DOMAIN fanouts : FanoutQueues(e)
         \/ \E c \in Channel : TestChannel(c)
         \/ Recover
  PROVE  JobsFit' /\ SamePhases /\ UNCHANGED <<lock, got>>
<1> USE DEF JobId
<1>1. ASSUME NEW e \in DOMAIN fanouts, FanoutQueues(e) PROVE JobsFit' /\ SamePhases
  <2>1. \A r \in fanouts[e].ready : r[1] \in Delivery /\ r[2] \in Nat
    BY DEF Types, FanoutsFit, FanoutRow
  <2>2. {<<"deliver", r[1], r[2]>> : r \in fanouts[e].ready} \in SUBSET JobId
    BY <2>1
  <2> QED BY <1>1, <2>2, AddedPhases DEF FanoutQueues
<1>2. ASSUME NEW c \in Channel, TestChannel(c) PROVE JobsFit' /\ SamePhases
  <2> DEFINE d == <<EventOf("test", events', "test"), c>>
  <2>1. d \in Delivery
    BY EventsTypes, EventsFit DEF Delivery, Says
  <2>2. {<<"test", d, 0>>} \in SUBSET JobId
    BY <2>1
  <2>3. CASE jobs' = jobs
    BY <2>3 DEF Types, JobsFit, SamePhases, Phase
  <2> QED BY <1>2, <2>2, <2>3, AddedPhases DEF TestChannel
<1>3. CASE Recover
  <2> DEFINE D == {x \in Due \ {d \in Due : rows[d].attempts >= MaxTries} : Cardinality(Live(x)) < MaxLive}
             ids == {RecoverJob(d) : d \in D}
  <2>1. \A d \in D : d \in Delivery /\ rows[d].attempts \in Nat
    BY DEF Due, Types, NotifyTypeOK, DeliveryRow
  <2>2. ids \in SUBSET JobId
    BY <2>1 DEF RecoverJob
  <2>3. jobs' = AddJobs(ids)
    BY <1>3 DEF Recover
  <2> HIDE DEF ids, JobId
  <2>4. JobsFit' /\ SamePhases
    BY <2>2, <2>3, AddedPhases
  <2> QED BY <1>3, <2>4 DEF Recover
<1> QED BY <1>1, <1>2, <1>3 DEF FanoutQueues, TestChannel, Kept, Recover

\* A row that no job has seen delivered.
Fresh(d) == d \in DOMAIN rows /\ rows[d].status # "delivered"

LEMMA BeginStep ==
  ASSUME Types, NEW i \in DOMAIN jobs, DeliverBegins(i)
  PROVE  /\ JobsFit' /\ LocksFit' /\ UNCHANGED got
         /\ \/ /\ SamePhases /\ UNCHANGED lock
               /\ \A d : Fresh(d)' => Fresh(d)
            \/ /\ PhaseTurns(i, "send") /\ Phase(i) = "none" /\ UNCHANGED rows
               /\ i[2] \notin DOMAIN lock /\ Fresh(i[2])
               /\ lock' = Put(lock, i[2], i)
<1>0. i \in JobId /\ jobs[i] \in JobRow /\ jobs[i].state = "waiting" /\ Phase(i) = "none"
  BY DEF Types, JobsFit, DeliverBegins, JobRow, Phase
<1>1. CASE jobs' = Over(i) /\ UNCHANGED <<rows, lock>>
  <2>1. JobsFit' /\ SamePhases
    BY <1>0, <1>1, OverTurns DEF PhaseTurns, SamePhases
  <2> QED BY <1>1, <2>1 DEF DeliverBegins, Types, LocksFit, Fresh
<1>2. CASE /\ jobs' = Over(i) /\ ~Unneeded(i[2])
           /\ rows' = [rows EXCEPT ![i[2]].status = "failed"]
           /\ UNCHANGED lock
  <2>1. JobsFit' /\ SamePhases
    BY <1>0, <1>2, OverTurns DEF PhaseTurns, SamePhases
  <2>2. \A d : Fresh(d)' => Fresh(d)
    BY <1>2 DEF Fresh, Unneeded
  <2> QED BY <1>2, <2>1, <2>2 DEF DeliverBegins, Types, LocksFit
<1>3. CASE /\ i[2] \notin DOMAIN lock /\ ~Unneeded(i[2])
           /\ jobs' = [jobs EXCEPT ![i].state = "active", ![i].phase = "send", ![i].read = rows[i[2]].attempts]
           /\ lock' = Put(lock, i[2], i)
           /\ UNCHANGED rows
  <2> DEFINE j == [jobs[i] EXCEPT !.state = "active", !.phase = "send", !.read = rows[i[2]].attempts]
  <2>1. rows[i[2]].attempts \in Nat
    BY <1>3 DEF Types, NotifyTypeOK, DeliveryRow, Unneeded
  <2>2. j \in JobRow /\ j.phase = "send"
    BY <1>0, <2>1 DEF JobRow
  <2>3. jobs' = [jobs EXCEPT ![i] = j]
    BY <1>3
  <2>4. JobsFit' /\ PhaseTurns(i, "send")
    BY <2>2, <2>3, DeliveryTurns
  <2>5. LocksFit'
    BY <1>0, <1>3 DEF Types, LocksFit, Put
  <2> QED BY <1>0, <1>3, <2>4, <2>5 DEF DeliverBegins, Fresh, Unneeded
<1> QED BY <1>1, <1>2, <1>3 DEF DeliverBegins

LEMMA SendStep ==
  ASSUME Types, NEW i \in DOMAIN jobs, DeliverSends(i)
  PROVE  /\ JobsFit' /\ GotFits' /\ Phase(i) = "send" /\ UNCHANGED <<rows, lock>>
         /\ \/ PhaseTurns(i, "sent") /\ \A d : Times(d)' = IF d = i[2] THEN Times(d) + 1 ELSE Times(d)
            \/ PhaseTurns(i, "error") /\ UNCHANGED got
<1>0. jobs[i] \in JobRow /\ jobs[i].state = "active" /\ Phase(i) = "send" /\ i[2] \in Delivery
  BY DEF Types, JobsFit, DeliverSends, Sending, Phase, JobId
<1>1. [jobs[i] EXCEPT !.phase = "sent"] \in JobRow /\ [jobs[i] EXCEPT !.phase = "error"] \in JobRow
      /\ [jobs[i] EXCEPT !.phase = "sent"].phase = "sent" /\ [jobs[i] EXCEPT !.phase = "error"].phase = "error"
  BY <1>0 DEF JobRow
<1>2. CASE jobs' = [jobs EXCEPT ![i].phase = "sent"] /\ got' = Counted({i[2]}, 1)
  <2>1. JobsFit' /\ PhaseTurns(i, "sent")
    BY <1>1, <1>2, DeliveryTurns
  <2>2. GotFits' /\ \A d : Times(d)' = IF d \in {i[2]} THEN Times(d) + 1 ELSE Times(d)
    <3>1. {i[2]} \in SUBSET Delivery /\ 1 \in Int
      BY <1>0
    <3> HIDE DEF Counted
    <3> QED BY <1>2, <3>1, CountedTimes
  <2> QED BY <1>0, <2>1, <2>2 DEF DeliverSends
<1>3. CASE jobs' = [jobs EXCEPT ![i].phase = "error"] /\ UNCHANGED got
  <2>1. JobsFit' /\ PhaseTurns(i, "error")
    BY <1>1, <1>3, DeliveryTurns
  <2> QED BY <1>0, <1>3, <2>1 DEF DeliverSends, Types, GotFits
<1> QED BY <1>2, <1>3 DEF DeliverSends

LEMMA UnlockedFits ==
  ASSUME Types, NEW i, lock' = Unlocked(i)
  PROVE  LocksFit'
BY DEF Unlocked, Without, Types, LocksFit

LEMMA SaveStep ==
  ASSUME Types, NEW i \in DOMAIN jobs, SaveDelivered(i) \/ SaveError(i)
  PROVE  /\ JobsFit' /\ LocksFit' /\ PhaseTurns(i, "none") /\ UNCHANGED got
         /\ lock' = Unlocked(i)
         /\ DOMAIN rows' = DOMAIN rows
         /\ \A d \in DOMAIN rows \ {i[2]} : rows'[d] = rows[d]
         /\ \/ Phase(i) = "sent" /\ ~Fresh(i[2])'
            \/ Phase(i) = "error"
<1>0. jobs[i] \in JobRow /\ i[2] \in Delivery
  BY DEF Types, JobsFit, JobId
<1>1. ASSUME NEW s, NEW n, Write(i[2], s, n)
      PROVE  /\ DOMAIN rows' = DOMAIN rows
             /\ \A d \in DOMAIN rows \ {i[2]} : rows'[d] = rows[d]
             /\ i[2] \in DOMAIN rows => rows'[i[2]].status = s
  BY <1>1 DEF Write
<1>2. CASE SaveDelivered(i)
  <2>1. Write(i[2], "delivered", jobs[i].read + 1) /\ Phase(i) = "sent" /\ jobs' = Over(i) /\ lock' = Unlocked(i)
    BY <1>2 DEF SaveDelivered, Phase
  <2>2. ~Fresh(i[2])'
    BY <1>1, <2>1 DEF Fresh
  <2> QED BY <1>1, <1>2, <2>1, <2>2, OverTurns, UnlockedFits DEF SaveDelivered
<1>3. CASE SaveError(i)
  <2>1. /\ \E s : Write(i[2], s, jobs[i].read + 1)
        /\ Phase(i) = "error" /\ lock' = Unlocked(i) /\ UNCHANGED got
    BY <1>3 DEF SaveError, Phase
  <2>2. JobsFit' /\ PhaseTurns(i, "none")
    <3> DEFINE j == [DeliverJob(jobs[i].max) EXCEPT !.fails = jobs[i].fails + 1]
    <3>1. jobs[i].max \in Nat /\ jobs[i].fails + 1 \in Nat
      BY <1>0 DEF JobRow
    <3>2. j \in JobRow /\ j.phase = "none"
      BY <3>1 DEF JobRow, DeliverJob
    <3>3. jobs' = Over(i) \/ jobs' = Put(jobs, i, j)
      BY <1>3 DEF SaveError
    <3> HIDE DEF j
    <3> QED BY <3>2, <3>3, OverTurns, DeliveryTurns
  <2> QED BY <1>1, <2>1, <2>2, UnlockedFits
<1> QED BY <1>2, <1>3

LEMMA CrashStep ==
  ASSUME Types, Crash
  PROVE  /\ JobsFit' /\ GotFits' /\ UNCHANGED <<rows, lock>>
         /\ \A k : Phase(k)' = "none"
         /\ \A d : IF \E i \in DOMAIN jobs : i[2] = d /\ Phase(i) = "sent"
                     THEN Times(d)' = Times(d) - 1 ELSE Times(d)' = Times(d)
<1> DEFINE S == {i[2] : i \in {k \in Active : jobs[k].phase = "sent"}}
<1>0. \A i \in DOMAIN jobs : jobs[i] \in JobRow /\ i[2] \in Delivery
  BY DEF Types, JobsFit, JobId
<1>1. \A i \in DOMAIN jobs :
        [jobs[i] EXCEPT !.state = "waiting", !.phase = "none", !.read = 0] \in JobRow
        /\ [jobs[i] EXCEPT !.state = "waiting", !.phase = "none", !.read = 0].phase = "none"
  BY <1>0 DEF JobRow
<1>2. /\ DOMAIN jobs' \subseteq DOMAIN jobs
      /\ \A i \in DOMAIN jobs' :
           jobs'[i] = IF Sending(i) THEN [jobs[i] EXCEPT !.state = "waiting", !.phase = "none", !.read = 0]
                      ELSE jobs[i]
  BY DEF Crash
<1>3. \A i \in DOMAIN jobs : ~Sending(i) => jobs[i].phase = "none"
  BY <1>0 DEF JobRow, Sending
<1>4. JobsFit' /\ \A k : Phase(k)' = "none"
  BY <1>0, <1>1, <1>2, <1>3 DEF Types, JobsFit, Phase
<1>5. S \in SUBSET Delivery /\ -1 \in Int
  BY <1>0 DEF Active
<1>6. \A d : d \in S <=> \E i \in DOMAIN jobs : i[2] = d /\ Phase(i) = "sent"
  BY <1>0 DEF Active, Phase, JobRow
<1>7. got' = Counted(S, -1) /\ UNCHANGED <<rows, lock>>
  BY DEF Crash
<1> HIDE DEF S
<1>8. GotFits' /\ \A d : Times(d)' = IF d \in S THEN Times(d) + (-1) ELSE Times(d)
  BY <1>5, <1>7, CountedTimes
<1>9. \A d : Times(d) \in Int
  BY DEF Types, GotFits, Times
<1> QED BY <1>4, <1>6, <1>7, <1>8, <1>9

LEMMA LoseRedisStep ==
  ASSUME Types, LoseRedis
  PROVE  /\ JobsFit' /\ GotFits' /\ SamePhases /\ UNCHANGED rows /\ DOMAIN lock' = {}
         /\ \A d : IF \E i \in DOMAIN jobs : i[2] = d /\ Phase(i) # "none"
                     THEN Times(d)' = Times(d) - 1 ELSE Times(d)' = Times(d)
<1> DEFINE S == {i[2] : i \in Active}
<1>0. \A i \in DOMAIN jobs : jobs[i] \in JobRow /\ i[2] \in Delivery
  BY DEF Types, JobsFit, JobId
<1>1. \A i \in DOMAIN jobs : [jobs[i] EXCEPT !.max = 0] \in JobRow
        /\ [jobs[i] EXCEPT !.max = 0].phase = jobs[i].phase
  BY <1>0 DEF JobRow
<1>2. DOMAIN jobs' = Active /\ \A i \in Active : jobs'[i] = [jobs[i] EXCEPT !.max = 0]
  BY DEF LoseRedis
<1>3. \A i \in DOMAIN jobs \ Active : jobs[i].phase = "none"
  BY <1>0 DEF JobRow, Active
<1>4. JobsFit' /\ SamePhases
  BY <1>0, <1>1, <1>2, <1>3 DEF Types, JobsFit, Phase, SamePhases, Active
<1>5. S \in SUBSET Delivery /\ -1 \in Int
  BY <1>0 DEF Active
<1>6. \A d : d \in S <=> \E i \in DOMAIN jobs : i[2] = d /\ Phase(i) # "none"
  BY <1>0 DEF Active, Phase, JobRow
<1>7. got' = Counted(S, -1) /\ UNCHANGED rows /\ DOMAIN lock' = {}
  BY DEF LoseRedis
<1> HIDE DEF S
<1>8. GotFits' /\ \A d : Times(d)' = IF d \in S THEN Times(d) + (-1) ELSE Times(d)
  BY <1>5, <1>7, CountedTimes
<1>9. \A d : Times(d) \in Int
  BY DEF Types, GotFits, Times
<1> QED BY <1>4, <1>6, <1>7, <1>8, <1>9

LEMMA LockExpiresStep ==
  ASSUME Types, NEW d \in DOMAIN lock, LockExpires(d)
  PROVE  /\ LocksFit' /\ GotFits' /\ UNCHANGED <<rows, jobs>> /\ SamePhases
         /\ DOMAIN lock' = DOMAIN lock \ {d} /\ \A x \in DOMAIN lock' : lock'[x] = lock[x]
         /\ \A x : IF x = d /\ Phase(lock[d]) # "none"
                     THEN Times(x)' = Times(x) - 1 ELSE Times(x)' = Times(x)
<1>1. UNCHANGED <<rows, jobs>> /\ SamePhases
  BY DEF LockExpires, queue, SamePhases, Phase
<1>2. DOMAIN lock' = DOMAIN lock \ {d} /\ \A x \in DOMAIN lock' : lock'[x] = lock[x]
  BY DEF LockExpires, Without
<1>3. LocksFit'
  BY <1>2 DEF Types, LocksFit
<1>4. \A x : Times(x) \in Int
  BY DEF Types, GotFits, Times
<1>5. CASE Phase(lock[d]) # "none"
  <2>1. got' = Counted({d}, -1)
    BY <1>5, PhaseIsState DEF LockExpires
  <2>2. {d} \in SUBSET Delivery /\ -1 \in Int
    BY DEF Types, NotifyTypeOK
  <2>3. GotFits' /\ \A x : Times(x)' = IF x \in {d} THEN Times(x) + (-1) ELSE Times(x)
    BY <2>1, <2>2, CountedTimes
  <2> QED BY <1>1, <1>2, <1>3, <1>4, <1>5, <2>3
<1>6. CASE Phase(lock[d]) = "none"
  <2>1. UNCHANGED got
    BY <1>6, PhaseIsState DEF LockExpires
  <2> QED BY <1>1, <1>2, <1>3, <1>6, <2>1 DEF Types, GotFits, Times
<1> QED BY <1>5, <1>6

\* The other steps have to do with events, channels and fanouts only.
OtherStep ==
  \/ Watched \/ ScanHealth \/ ScanRotations \/ \E e \in held : QueueNotice(e)
  \/ \E c \in Channel : \/ SaveChannel(c) \/ RemoveChannel(c)
                        \/ \E p \in Pool : LinkPool(p, c) \/ UnlinkPool(p, c)
  \/ \E e \in DOMAIN fanouts : \/ FanoutBegins(e) \/ FanoutFails(e) \/ Forget(e)
                               \/ \E c \in Channel : FanoutInserts(e, c) \/ FanoutRefused(e, c)

\* The steps that insert rows or queue jobs.
QueueingStep ==
  \/ \E e \in DOMAIN fanouts : FanoutQueues(e)
  \/ \E c \in Channel : TestChannel(c)
  \/ Recover

\* The steps of a job.
DeliveryStep == \E i \in DOMAIN jobs : DeliverBegins(i) \/ DeliverSends(i) \/ SaveDelivered(i) \/ SaveError(i)

LEMMA Steps ==
  ASSUME NotifyNext
  PROVE  \/ OtherStep \/ QueueingStep \/ DeliveryStep
         \/ Crash \/ LoseRedis \/ \E d \in DOMAIN lock : LockExpires(d)
<1>1. CASE User
  BY <1>1 DEF User, OtherStep, QueueingStep
<1>2. CASE \E e \in DOMAIN fanouts : Fanout(e)
  BY <1>2 DEF Fanout, OtherStep, QueueingStep
<1>3. CASE \E i \in DOMAIN jobs : DeliverBegins(i) \/ DeliverGoesOn(i)
  BY <1>3 DEF DeliverGoesOn, DeliveryStep
<1>4. CASE Environment
  BY <1>4 DEF Environment, OtherStep
<1> QED BY <1>1, <1>2, <1>3, <1>4 DEF NotifyNext, OtherStep, QueueingStep

LEMMA OtherStepKeeps ==
  ASSUME OtherStep
  PROVE  UNCHANGED <<jobs, lock, got>>
BY DEF OtherStep, Watched, Round, EditPolicy, Rotate, Notice, Told, queue, ScanHealth, ScanRotations, QueueNotice,
       SaveChannel, RemoveChannel, Kept, LinkPool, UnlinkPool, FanoutBegins, FanoutFails, Forget,
       FanoutInserts, FanoutRefused

LEMMA TypesStep == Types /\ [NotifyNext]_notifyVars => Types'
<1> SUFFICES ASSUME Types, [NotifyNext]_notifyVars PROVE Types'
  OBVIOUS
<1>1. CASE NotifyNext
  <2>1. JobsFit' /\ LocksFit' /\ GotFits' /\ DOMAIN lock' \subseteq Delivery
    <3> DEFINE Goal == JobsFit' /\ LocksFit' /\ GotFits' /\ DOMAIN lock' \subseteq Delivery
    <3>0. JobsFit /\ LocksFit /\ GotFits /\ DOMAIN lock \subseteq Delivery
      BY DEF Types, NotifyTypeOK
    <3>1. CASE OtherStep
      BY <3>0, <3>1, OtherStepKeeps DEF JobsFit, LocksFit, GotFits
    <3>2. CASE QueueingStep
      BY <1>1, <3>0, <3>2, QueueStep DEF QueueingStep, LocksFit, GotFits
    <3>3. ASSUME NEW i \in DOMAIN jobs, DeliverBegins(i) PROVE Goal
      <4>1. i[2] \in Delivery
        BY <3>0 DEF JobsFit, JobId
      <4>2. DOMAIN lock' \subseteq Delivery
        BY <3>0, <3>3, <4>1 DEF DeliverBegins, Put
      <4> QED BY <3>0, <3>3, <4>2, BeginStep DEF GotFits
    <3>4. ASSUME NEW i \in DOMAIN jobs, DeliverSends(i) PROVE Goal
      BY <3>0, <3>4, SendStep DEF LocksFit
    <3>5. ASSUME NEW i \in DOMAIN jobs, SaveDelivered(i) \/ SaveError(i) PROVE Goal
      <4>1. DOMAIN lock' \subseteq DOMAIN lock
        BY <3>5 DEF SaveDelivered, SaveError, Unlocked, Without
      <4> QED BY <3>0, <3>5, <4>1, SaveStep DEF GotFits
    <3>6. CASE Crash
      BY <3>0, <3>6, CrashStep DEF LocksFit
    <3>7. CASE LoseRedis
      BY <3>0, <3>7, LoseRedisStep DEF LocksFit
    <3>8. ASSUME NEW d \in DOMAIN lock, LockExpires(d) PROVE Goal
      BY <3>0, <3>8, LockExpiresStep DEF JobsFit
    <3> QED BY <1>1, <3>1, <3>2, <3>3, <3>4, <3>5, <3>6, <3>7, <3>8, Steps DEF DeliveryStep
  <2>2. NotifyTypeOK'
    BY <1>1, <2>1, SourceTypes, SetupTypes, RowTypes, FanoutTypes DEF NotifyTypeOK, FanoutsFit
  <2> QED BY <1>1, <2>1, <2>2, EventsTypes, FanoutTypes DEF Types
<1>2. CASE UNCHANGED notifyVars
  BY <1>2 DEF notifyVars, source, setup, queue, Types, NotifyTypeOK, FanoutsFit, JobsFit, LocksFit, GotFits
<1> QED BY <1>1, <1>2

\* Every variable has its type, for any number of events, channels and faults.
THEOREM NotifyTypeCorrect == NotifySpec => []NotifyTypeOK
<1>1. Types => NotifyTypeOK
  BY DEF Types
<1> QED BY <1>1, TypesInit, TypesStep, PTL DEF NotifySpec

-----------------------------------------------------------------------------
(* The charge of a row.                                                    *)

\* A job that has not been received yet or whose call has failed; who has the
\* lock of a row, and whether that job is in a phase of P.
Unsent == {"send", "error"}
Locks(i) == i[2] \in DOMAIN lock /\ lock[i[2]] = i
Holder(d, P) == d \in DOMAIN lock /\ Phase(lock[d]) \in P

\* Calls of the row under way that have lost its lock: each of them was excused
\* when it lost the lock, and has not made use of that.
Orphans(d) == {i \in DOMAIN jobs : i[2] = d /\ Phase(i) \in Unsent /\ ~Locks(i)}
Charge(d) == Times(d) + Cardinality(Orphans(d))

\* One that has the lock, or may yet get it, may still send the message.
Sendable(d) == Holder(d, Unsent) \/ (Fresh(d) /\ ~Holder(d, {"sent"}))

\* A row is charged once at most, and not at all while a job may still send it.
Charged(d) ==
  /\ IsFiniteSet(Orphans(d))
  /\ Charge(d) <= 1
  /\ Sendable(d) => Charge(d) <= 0

LEMMA ChargeIsInt ==
  ASSUME Types, NEW d, IsFiniteSet(Orphans(d))
  PROVE  Times(d) \in Int /\ Cardinality(Orphans(d)) \in Nat /\ Charge(d) \in Int
<1>1. Times(d) \in Int
  BY DEF Types, GotFits, Times
<1>2. Cardinality(Orphans(d)) \in Nat
  BY FS_CardinalityType
<1> QED BY <1>1, <1>2 DEF Charge

LEMMA SameOrphans ==
  ASSUME NEW d, \A k : k[2] = d => Phase(k)' = Phase(k) /\ (Phase(k) \in Unsent => (Locks(k)' <=> Locks(k)))
  PROVE  Orphans(d)' = Orphans(d)
<1>1. \A k : Phase(k) \in Unsent => k \in DOMAIN jobs
  BY DEF Phase, Unsent
<1>2. \A k : Phase(k)' \in Unsent => k \in DOMAIN jobs'
  BY DEF Phase, Unsent
<1> QED BY <1>1, <1>2 DEF Orphans

\* What leaves the calls of the row, its lock and its count alone, and does not
\* make it one that is to be sent.
LEMMA ChargedStays ==
  ASSUME Types, NEW d \in Delivery, Charged(d),
         \A k : k[2] = d => Phase(k)' = Phase(k),
         d \in DOMAIN lock' <=> d \in DOMAIN lock,
         d \in DOMAIN lock => lock'[d] = lock[d] /\ lock[d][2] = d,
         Times(d)' = Times(d),
         Fresh(d)' => Fresh(d)
  PROVE  Charged(d)'
<1>1. Orphans(d)' = Orphans(d)
  BY SameOrphans DEF Locks
<1>2. \A P : Holder(d, P)' <=> Holder(d, P)
  BY DEF Holder
<1> QED BY <1>1, <1>2 DEF Charged, Charge, Sendable

\* A row that nobody has touched is not charged.
LEMMA UntouchedIsCharged ==
  ASSUME NEW d, Times(d) = 0, \A k : k[2] = d => Phase(k) = "none"
  PROVE  Charged(d)
<1>1. Orphans(d) = {}
  BY DEF Orphans, Unsent
<1> QED BY <1>1, FS_EmptySet DEF Charged, Charge

LEMMA ChargedBegin ==
  ASSUME Types, NEW d \in Delivery, Charged(d), NEW i \in DOMAIN jobs, DeliverBegins(i)
  PROVE  Charged(d)'
<1>0. \A x \in DOMAIN lock : lock[x][2] = x
  BY DEF Types, LocksFit
<1>1. CASE SamePhases /\ UNCHANGED lock /\ \A x : Fresh(x)' => Fresh(x)
  BY <1>0, <1>1, BeginStep, ChargedStays DEF SamePhases, Times
<1>2. CASE /\ PhaseTurns(i, "send") /\ Phase(i) = "none" /\ UNCHANGED rows
           /\ i[2] \notin DOMAIN lock /\ Fresh(i[2])
           /\ lock' = Put(lock, i[2], i)
  <2>0. UNCHANGED got
    BY BeginStep
  <2>1. /\ DOMAIN lock' = DOMAIN lock \cup {i[2]} /\ lock'[i[2]] = i
        /\ \A x \in DOMAIN lock : lock'[x] = lock[x]
    BY <1>2 DEF Put
  <2>2. CASE d # i[2]
    BY <1>0, <1>2, <2>0, <2>1, <2>2, ChargedStays DEF PhaseTurns, Times, Fresh
  <2>3. CASE d = i[2]
    <3>1. Orphans(d)' = Orphans(d)
      <4>1. \A k : Phase(k) \in Unsent => k \in DOMAIN jobs
        BY DEF Phase, Unsent
      <4>2. \A k : Phase(k)' \in Unsent => k \in DOMAIN jobs'
        BY DEF Phase, Unsent
      <4>3. Locks(i)' /\ \A k : k # i /\ k[2] = d => ~Locks(k) /\ ~Locks(k)'
        BY <1>2, <2>1, <2>3 DEF Locks
      <4>4. Phase(i) \notin Unsent /\ \A k : k # i => Phase(k)' = Phase(k)
        BY <1>2 DEF PhaseTurns, Unsent
      <4> QED BY <4>1, <4>2, <4>3, <4>4 DEF Orphans
    <3>2. Charge(d) <= 0
      BY <1>2, <2>3 DEF Charged, Sendable, Holder
    <3>3. Charge(d)' = Charge(d)
      BY <2>0, <3>1 DEF Charge, Times
    <3>4. Charge(d) \in Int
      BY ChargeIsInt DEF Charged
    <3> QED BY <3>1, <3>2, <3>3, <3>4 DEF Charged
  <2> QED BY <2>2, <2>3
<1> QED BY <1>1, <1>2, BeginStep

LEMMA ChargedSend ==
  ASSUME Types, NEW d \in Delivery, Charged(d), NEW i \in DOMAIN jobs, DeliverSends(i)
  PROVE  Charged(d)'
<1>0. \A x \in DOMAIN lock : lock[x][2] = x
  BY DEF Types, LocksFit
<1>1. Phase(i) = "send" /\ UNCHANGED <<rows, lock>>
  BY SendStep
<1>2. CASE d # i[2]
  BY <1>0, <1>1, <1>2, SendStep, ChargedStays DEF PhaseTurns, Times, Fresh
<1>3. CASE d = i[2] /\ PhaseTurns(i, "error") /\ UNCHANGED got
  <2>1. Orphans(d)' = Orphans(d)
    <3>1. \A k : Phase(k) \in Unsent <=> Phase(k)' \in Unsent
      BY <1>1, <1>3 DEF PhaseTurns, Unsent
    <3>2. \A k : Phase(k) \in Unsent => k \in DOMAIN jobs /\ k \in DOMAIN jobs'
      BY <3>1 DEF Phase, Unsent
    <3> QED BY <1>1, <3>1, <3>2 DEF Orphans, Locks
  <2>2. Holder(d, Unsent)' <=> Holder(d, Unsent)
    BY <1>1, <1>3 DEF Holder, PhaseTurns, Unsent
  <2>3. Holder(d, {"sent"})' <=> Holder(d, {"sent"})
    BY <1>1, <1>3 DEF Holder, PhaseTurns
  <2> QED BY <1>1, <1>3, <2>1, <2>2, <2>3 DEF Charged, Charge, Sendable, Times, Fresh
<1>4. CASE d = i[2] /\ PhaseTurns(i, "sent") /\ Times(d)' = Times(d) + 1 /\ Locks(i)
  <2>1. Orphans(d)' = Orphans(d)
    <3>1. \A k : k # i => (Phase(k) \in Unsent <=> Phase(k)' \in Unsent)
      BY <1>1, <1>4 DEF PhaseTurns, Unsent
    <3>2. \A k : (Phase(k) \in Unsent => k \in DOMAIN jobs) /\ (Phase(k)' \in Unsent => k \in DOMAIN jobs')
      BY DEF Phase, Unsent
    <3>3. Phase(i)' \notin Unsent
      BY <1>4 DEF PhaseTurns, Unsent
    <3> QED BY <1>1, <1>4, <3>1, <3>2, <3>3 DEF Orphans, Locks
  <2>2. Charge(d) <= 0 /\ ~Sendable(d)'
    BY <1>1, <1>4 DEF Charged, Sendable, Holder, Locks, PhaseTurns, Unsent
  <2>3. Charge(d)' = Charge(d) + 1
    BY <1>4, <2>1, ChargeIsInt DEF Charge, Charged
  <2> QED BY <2>1, <2>2, <2>3, ChargeIsInt DEF Charged
<1>5. CASE d = i[2] /\ PhaseTurns(i, "sent") /\ Times(d)' = Times(d) + 1 /\ ~Locks(i)
  <2>1. i \in Orphans(d) /\ Orphans(d)' = Orphans(d) \ {i}
    <3>1. \A k : k # i => (Phase(k) \in Unsent <=> Phase(k)' \in Unsent)
      BY <1>1, <1>5 DEF PhaseTurns, Unsent
    <3>2. \A k : (Phase(k) \in Unsent => k \in DOMAIN jobs) /\ (Phase(k)' \in Unsent => k \in DOMAIN jobs')
      BY DEF Phase, Unsent
    <3>3. Phase(i)' \notin Unsent /\ Phase(i) \in Unsent
      BY <1>1, <1>5 DEF PhaseTurns, Unsent
    <3> QED BY <1>1, <1>5, <3>1, <3>2, <3>3 DEF Orphans, Locks
  <2>2. IsFiniteSet(Orphans(d)') /\ Cardinality(Orphans(d)') = Cardinality(Orphans(d)) - 1
    BY <2>1, FS_RemoveElement DEF Charged
  <2>3. Charge(d)' = Charge(d)
    BY <1>5, <2>2, ChargeIsInt DEF Charge, Charged
  <2>4. Sendable(d)' <=> Sendable(d)
    BY <1>1, <1>5 DEF Sendable, Holder, Locks, PhaseTurns, Fresh
  <2> QED BY <2>2, <2>3, <2>4 DEF Charged
<1> QED BY <1>2, <1>3, <1>4, <1>5, SendStep

LEMMA ChargedSave ==
  ASSUME Types, NEW d \in Delivery, Charged(d), NEW i \in DOMAIN jobs, SaveDelivered(i) \/ SaveError(i)
  PROVE  Charged(d)'
<1>0. \A x \in DOMAIN lock : lock[x][2] = x
  BY DEF Types, LocksFit
<1>1. /\ PhaseTurns(i, "none") /\ UNCHANGED got
      /\ DOMAIN rows' = DOMAIN rows /\ \A x \in DOMAIN rows \ {i[2]} : rows'[x] = rows[x]
  BY SaveStep
<1>2. /\ DOMAIN lock' = DOMAIN lock \ (IF Locks(i) THEN {i[2]} ELSE {})
      /\ \A x \in DOMAIN lock' : lock'[x] = lock[x]
  <2>1. lock' = Unlocked(i)
    BY SaveStep
  <2>2. CASE Locks(i)
    BY <2>1, <2>2 DEF Unlocked, Locks, Without
  <2>3. CASE ~Locks(i)
    BY <2>1, <2>3 DEF Unlocked, Locks
  <2> QED BY <2>2, <2>3
<1>3. CASE d # i[2]
  BY <1>0, <1>1, <1>2, <1>3, ChargedStays DEF PhaseTurns, Times, Fresh
<1>4. /\ \A k : k # i => Phase(k)' = Phase(k)
      /\ \A k : (Phase(k) \in Unsent => k \in DOMAIN jobs) /\ (Phase(k)' \in Unsent => k \in DOMAIN jobs')
      /\ Phase(i)' \notin Unsent
  BY <1>1 DEF PhaseTurns, Phase, Unsent
<1>5. d = i[2] => \A k : k # i /\ k[2] = d => (Locks(k)' <=> Locks(k))
  BY <1>2 DEF Locks
<1>6. CASE d = i[2] /\ (Locks(i) \/ Phase(i) = "sent")
  <2>1. Orphans(d)' = Orphans(d)
    <3>1. i \notin Orphans(d)
      BY <1>6 DEF Orphans, Unsent
    <3> QED BY <1>4, <1>5, <1>6, <3>1 DEF Orphans
  <2>2. Charge(d)' = Charge(d)
    BY <1>1, <2>1 DEF Charge, Times
  <2>3. CASE Phase(i) = "sent" /\ ~Fresh(d)'
    <3>1. Sendable(d)' => Sendable(d)
      BY <1>2, <1>4, <1>1, <1>6, <2>3 DEF Sendable, Holder, PhaseTurns, Unsent
    <3> QED BY <2>1, <2>2, <3>1 DEF Charged
  <2>4. CASE Phase(i) = "error"
    <3>1. Sendable(d)
      BY <1>6, <2>4 DEF Sendable, Holder, Locks, Unsent
    <3> QED BY <2>1, <2>2, <3>1, ChargeIsInt DEF Charged
  <2> QED BY <1>6, <2>3, <2>4, SaveStep
<1>7. CASE d = i[2] /\ ~Locks(i) /\ Phase(i) = "error"
  <2>1. i \in Orphans(d) /\ Orphans(d)' = Orphans(d) \ {i}
    <3>1. i \in Orphans(d)
      BY <1>7 DEF Orphans, Unsent
    <3> QED BY <1>4, <1>5, <1>7, <3>1 DEF Orphans
  <2>2. IsFiniteSet(Orphans(d)') /\ Cardinality(Orphans(d)') = Cardinality(Orphans(d)) - 1
    BY <2>1, FS_RemoveElement DEF Charged
  <2>3. Charge(d)' = Charge(d) - 1
    BY <1>1, <2>2, ChargeIsInt DEF Charge, Charged, Times
  <2> QED BY <2>2, <2>3, ChargeIsInt DEF Charged
<1> QED BY <1>3, <1>6, <1>7, SaveStep

LEMMA ChargedCrash ==
  ASSUME Types, NEW d \in Delivery, Charged(d), Crash
  PROVE  Charged(d)'
<1>1. \A k : Phase(k)' = "none"
  BY CrashStep
<1>2. Orphans(d)' = {}
  BY <1>1 DEF Orphans, Unsent
<1>3. Charge(d)' = Times(d)'
  BY <1>2, FS_EmptySet, CrashStep DEF Charge, Types, GotFits, Times
<1>4. Times(d)' = Times(d) \/ Times(d)' = Times(d) - 1
  BY CrashStep
<1>5. Times(d) \in Int /\ Times(d) <= Charge(d) /\ Charge(d) <= 1 /\ Charge(d) \in Int
  BY ChargeIsInt DEF Charged, Charge
<1>6. ASSUME Sendable(d)' PROVE Times(d)' <= 0
  <2>1. Fresh(d)
    BY <1>1, <1>6, CrashStep DEF Sendable, Holder, Unsent, Fresh
  <2>2. CASE Holder(d, {"sent"})
    <3>1. lock[d][2] = d /\ lock[d] \in DOMAIN jobs /\ Phase(lock[d]) = "sent"
      BY <2>2 DEF Holder, Types, LocksFit, Phase
    <3>2. Times(d)' = Times(d) - 1
      BY <3>1, CrashStep
    <3> QED BY <1>5, <3>2
  <2>3. CASE ~Holder(d, {"sent"})
    <3>1. Charge(d) <= 0
      BY <2>1, <2>3 DEF Charged, Sendable
    <3> QED BY <1>4, <1>5, <3>1
  <2> QED BY <2>2, <2>3
<1> QED BY <1>2, <1>3, <1>4, <1>5, <1>6, FS_EmptySet DEF Charged

\* A row that loses its lock: the call that had it is excused, and becomes an
\* orphan unless it has sent the message.
LEMMA ChargedUnlocked ==
  ASSUME Types, NEW d \in Delivery, Charged(d), SamePhases, UNCHANGED rows, d \notin DOMAIN lock',
         Times(d)' = Times(d) \/ Times(d)' = Times(d) - 1,
         Holder(d, {"send", "sent", "error"}) => Times(d)' = Times(d) - 1
  PROVE  Charged(d)'
<1>0. /\ Times(d) \in Int /\ Cardinality(Orphans(d)) \in Nat /\ Charge(d) = Times(d) + Cardinality(Orphans(d))
      /\ IsFiniteSet(Orphans(d)) /\ Charge(d) <= 1
  BY ChargeIsInt DEF Charged, Charge
<1>1. \A k : (Phase(k)' \in Unsent <=> Phase(k) \in Unsent)
             /\ (Phase(k) \in Unsent => k \in DOMAIN jobs /\ k \in DOMAIN jobs')
  BY DEF SamePhases, Phase, Unsent
<1>2. \A k : k[2] = d => ~Locks(k)'
  BY DEF Locks
<1>3. d \in DOMAIN lock => lock[d][2] = d
  BY DEF Types, LocksFit
<1>4. Sendable(d)' => Fresh(d)
  BY DEF Sendable, Holder, Fresh
<1>5. CASE Holder(d, Unsent)
  <2>1. lock[d] \notin Orphans(d) /\ Orphans(d)' = Orphans(d) \cup {lock[d]}
    BY <1>1, <1>2, <1>3, <1>5 DEF Orphans, Holder, Locks
  <2>2. IsFiniteSet(Orphans(d)') /\ Cardinality(Orphans(d)') = Cardinality(Orphans(d)) + 1
    BY <1>0, <2>1, FS_AddElement
  <2>3. Times(d)' = Times(d) - 1
    BY <1>5 DEF Holder, Unsent
  <2>4. Charge(d)' = Charge(d) /\ Charge(d) <= 0
    BY <1>0, <1>5, <2>2, <2>3 DEF Charge, Charged, Sendable
  <2> QED BY <1>0, <2>2, <2>4 DEF Charged
<1>6. CASE ~Holder(d, Unsent)
  <2>1. Orphans(d)' = Orphans(d)
    BY <1>1, <1>2, <1>3, <1>6 DEF Orphans, Holder, Locks
  <2>2. Charge(d)' = Charge(d) \/ Charge(d)' = Charge(d) - 1
    BY <1>0, <2>1 DEF Charge
  <2>3. CASE Holder(d, {"sent"})
    <3>1. Charge(d)' = Charge(d) - 1
      BY <1>0, <2>1, <2>3 DEF Charge, Holder
    <3> QED BY <1>0, <2>1, <3>1 DEF Charged
  <2>4. CASE ~Holder(d, {"sent"})
    <3>1. Sendable(d)' => Charge(d) <= 0
      BY <1>4, <2>4 DEF Charged, Sendable
    <3> QED BY <1>0, <2>1, <2>2, <3>1 DEF Charged
  <2> QED BY <2>3, <2>4
<1> QED BY <1>5, <1>6

LEMMA ChargedLoseRedis ==
  ASSUME Types, NEW d \in Delivery, Charged(d), LoseRedis
  PROVE  Charged(d)'
<1>1. Holder(d, {"send", "sent", "error"}) => \E i \in DOMAIN jobs : i[2] = d /\ Phase(i) # "none"
  BY DEF Holder, Types, LocksFit, Phase
<1> QED BY <1>1, LoseRedisStep, ChargedUnlocked

LEMMA ChargedLockExpires ==
  ASSUME Types, NEW d \in Delivery, Charged(d), NEW x \in DOMAIN lock, LockExpires(x)
  PROVE  Charged(d)'
<1>1. CASE d = x
  <2>1. Holder(d, {"send", "sent", "error"}) => Times(d)' = Times(d) - 1
    BY <1>1, LockExpiresStep DEF Holder
  <2> QED BY <1>1, <2>1, LockExpiresStep, ChargedUnlocked
<1>2. CASE d # x
  <2>1. d \in DOMAIN lock => lock[d][2] = d
    BY DEF Types, LocksFit
  <2> QED BY <1>2, <2>1, LockExpiresStep, ChargedStays DEF SamePhases, Fresh
<1> QED BY <1>1, <1>2

-----------------------------------------------------------------------------
(* Rows that are inserted.                                                 *)

\* A row that a job has worked on.
Touched(d) == Times(d) # 0 \/ \E k : k[2] = d /\ Phase(k) # "none"

\* The ids of rows are not given twice: a row that has been sent is there as
\* long as its channel, and the row of a test is named after its request.
RowsKnown == \A d \in Delivery : Touched(d) => d \in DOMAIN rows \/ d[2] \in removed
TestsNamed == \A d \in DOMAIN rows : d[1].source = "test" => d[1].at <= events
NoTestSpread == \A e \in DOMAIN fanouts \cup held : e.source # "test"

\* The invariant: types, rows that are known, and the charge of each.
NotificationsInv ==
  /\ Types /\ RowsKnown /\ TestsNamed /\ NoTestSpread
  /\ \A d \in Delivery : Charged(d)

LEMMA TouchedStep ==
  ASSUME Types, NotifyNext, NEW d \in Delivery, Touched(d)'
  PROVE  Touched(d) \/ d \in DOMAIN rows
<1>1. CASE OtherStep
  BY <1>1, OtherStepKeeps DEF Touched, Times, Phase
<1>2. CASE QueueingStep
  BY <1>2, QueueStep DEF QueueingStep, Touched, Times, SamePhases
<1>3. ASSUME NEW i \in DOMAIN jobs, DeliverBegins(i) PROVE Touched(d) \/ d \in DOMAIN rows
  <2>1. CASE SamePhases
    BY <1>3, <2>1, BeginStep DEF Touched, Times, SamePhases
  <2>2. CASE PhaseTurns(i, "send") /\ Fresh(i[2])
    BY <1>3, <2>2, BeginStep DEF Touched, Times, PhaseTurns, Fresh
  <2> QED BY <1>3, <2>1, <2>2, BeginStep
<1>4. ASSUME NEW i \in DOMAIN jobs, DeliverSends(i) PROVE Touched(d) \/ d \in DOMAIN rows
  BY <1>4, SendStep DEF Touched, Times, PhaseTurns
<1>5. ASSUME NEW i \in DOMAIN jobs, SaveDelivered(i) \/ SaveError(i) PROVE Touched(d) \/ d \in DOMAIN rows
  BY <1>5, SaveStep DEF Touched, Times, PhaseTurns
<1>6. CASE Crash
  BY <1>6, CrashStep DEF Touched
<1>7. CASE LoseRedis
  BY <1>7, LoseRedisStep DEF Touched, SamePhases
<1>8. ASSUME NEW x \in DOMAIN lock, LockExpires(x) PROVE Touched(d) \/ d \in DOMAIN rows
  <2>1. lock[x][2] = x
    BY DEF Types, LocksFit
  <2> QED BY <1>8, <2>1, LockExpiresStep DEF Touched, SamePhases
<1> QED BY <1>1, <1>2, <1>3, <1>4, <1>5, <1>6, <1>7, <1>8, Steps DEF DeliveryStep

LEMMA RowsStay ==
  ASSUME Types, NotifyNext
  PROVE  /\ removed \subseteq removed'
         /\ \A d \in DOMAIN rows : d \in DOMAIN rows' \/ d[2] \in removed'
         /\ \A d \in DOMAIN rows' \ DOMAIN rows :
              \/ \E c \in Channel : TestChannel(c) /\ d = <<EventOf("test", events', "test"), c>>
              \/ \E e \in DOMAIN fanouts, c \in Channel : FanoutInserts(e, c) /\ d = <<e, c>>
<1> DEFINE IsNew(d) ==
             \/ \E c \in Channel : TestChannel(c) /\ d = <<EventOf("test", events', "test"), c>>
             \/ \E e \in DOMAIN fanouts, c \in Channel : FanoutInserts(e, c) /\ d = <<e, c>>
           Goal == /\ removed \subseteq removed'
                   /\ \A d \in DOMAIN rows : d \in DOMAIN rows' \/ d[2] \in removed'
                   /\ \A d \in DOMAIN rows' \ DOMAIN rows : IsNew(d)
<1>1. ASSUME NEW c \in Channel, RemoveChannel(c)
      PROVE  Goal
  <2>1. removed' = removed \cup {c} /\ DOMAIN rows' = DOMAIN rows \ (Event \X {c})
    BY <1>1 DEF RemoveChannel, Without
  <2> QED BY <2>1
<1>2. ASSUME NEW c \in Channel, TestChannel(c)
      PROVE  Goal
  <2>1. removed' = removed /\ DOMAIN rows' = DOMAIN rows \cup {<<EventOf("test", events', "test"), c>>}
    BY <1>2 DEF TestChannel, Put, setup
  <2> QED BY <1>2, <2>1
<1>3. ASSUME NEW e \in DOMAIN fanouts, NEW c \in Channel, FanoutInserts(e, c)
      PROVE  Goal
  <2>1. removed' = removed /\ DOMAIN rows' = DOMAIN rows \cup {<<e, c>>}
    BY <1>3 DEF FanoutInserts, Put, setup
  <2> QED BY <1>3, <2>1
<1> HIDE DEF IsNew
<1>0. ASSUME removed' = removed, DOMAIN rows' = DOMAIN rows PROVE Goal
  BY <1>0
<1> HIDE DEF Goal
<1>4. ASSUME NEW i \in DOMAIN jobs, DeliverBegins(i) PROVE Goal
  BY <1>0, <1>4 DEF DeliverBegins, setup
<1>5. ASSUME NEW i \in DOMAIN jobs, DeliverGoesOn(i) PROVE Goal
  BY <1>0, <1>5, SaveStep DEF DeliverGoesOn, DeliverSends, SaveDelivered, SaveError, setup
<1>6. ASSUME Recover PROVE Goal
  BY <1>0, <1>6 DEF Recover, setup
<1>7. ASSUME User PROVE Goal
  BY <1>0, <1>1, <1>2, <1>7 DEF User, SaveChannel, LinkPool, UnlinkPool
<1>8. ASSUME \E e \in DOMAIN fanouts : Fanout(e) PROVE Goal
  BY <1>0, <1>3, <1>8 DEF Fanout, FanoutBegins, FanoutQueues, FanoutRefused, setup
<1>9. ASSUME Watched PROVE Goal
  BY <1>0, <1>9 DEF Watched, Round, EditPolicy, Rotate, Notice, Told, setup
<1>10. ASSUME Environment PROVE Goal
  BY <1>0, <1>10 DEF Environment, Crash, LoseRedis, FanoutFails, Forget, setup
<1>11. ASSUME ScanHealth \/ ScanRotations \/ (\E e \in held : QueueNotice(e)) \/ \E d \in DOMAIN lock : LockExpires(d) PROVE Goal
  BY <1>0, <1>11 DEF ScanHealth, ScanRotations, QueueNotice, LockExpires, setup
<1>12. Goal
  BY <1>4, <1>5, <1>6, <1>7, <1>8, <1>9, <1>10, <1>11 DEF NotifyNext
<1> QED BY <1>12 DEF Goal, IsNew

LEMMA RowsKnownStep ==
  ASSUME Types, NotifyNext, RowsKnown
  PROVE  RowsKnown'
<1> SUFFICES ASSUME NEW d \in Delivery, Touched(d)' PROVE d \in DOMAIN rows' \/ d[2] \in removed'
  BY DEF RowsKnown
<1>1. d \in DOMAIN rows \/ d[2] \in removed
  BY TouchedStep DEF RowsKnown
<1> QED BY <1>1, RowsStay

LEMMA TestsNamedStep ==
  ASSUME Types, NotifyNext, TestsNamed, NoTestSpread
  PROVE  TestsNamed'
<1>0. events \in Nat /\ events' \in Nat /\ events <= events'
  BY EventsTypes, Bounds DEF Types
<1>1. ASSUME NEW d \in DOMAIN rows', d[1].source = "test" PROVE d[1].at <= events'
  <2>1. CASE d \in DOMAIN rows
    <3>1. d[1].at \in Nat
      BY <2>1, Bounds DEF Types, NotifyTypeOK, Delivery, Event, EventOf
    <3> QED BY <1>0, <1>1, <2>1, <3>1 DEF TestsNamed
  <2>2. ASSUME NEW c \in Channel, d = <<EventOf("test", events', "test"), c>> PROVE d[1].at <= events'
    BY <1>0, <2>2 DEF EventOf
  <2>3. ASSUME NEW e \in DOMAIN fanouts, NEW c \in Channel, d = <<e, c>> PROVE FALSE
    BY <1>1, <2>3 DEF NoTestSpread
  <2> QED BY <2>1, <2>2, <2>3, RowsStay
<1> QED BY <1>1 DEF TestsNamed

LEMMA NoTestSpreadStep ==
  ASSUME Types, NotifyNext, NoTestSpread
  PROVE  NoTestSpread'
<1>0. health \in HealthRow /\ rotation \in Stage \cup {"none"}
  BY DEF Types, NotifyTypeOK
<1>1. ASSUME NEW new, \A e \in new : e.source # "test", fanouts' = AddFanouts(new), held' \subseteq held
      PROVE  NoTestSpread'
  <2>1. DOMAIN fanouts' = DOMAIN fanouts \cup new
    BY <1>1 DEF AddFanouts
  <2> QED BY <1>1, <2>1 DEF NoTestSpread
<1>2. CASE ScanHealth
  <2>1. \A e \in HealthEvents(health) : e.source # "test"
    BY <1>0, HealthEventsFit
  <2> QED BY <1>1, <1>2, <2>1 DEF ScanHealth, source
<1>3. CASE ScanRotations
  <2>1. \A e \in RotationEvents(rotation) : e.source # "test"
    BY <1>0, RotationEventsFit
  <2> QED BY <1>1, <1>3, <2>1 DEF ScanRotations, source
<1>4. ASSUME NEW e \in held, QueueNotice(e) PROVE NoTestSpread'
  <2>1. \A x \in {e} : x.source # "test"
    BY DEF NoTestSpread
  <2> QED BY <1>1, <1>4, <2>1 DEF QueueNotice
<1>5. CASE Notice
  <2>1. EventOf("notice", events', "all_down").source # "test"
    BY DEF EventOf
  <2>2. held' = held \cup {EventOf("notice", events', "all_down")} /\ fanouts' = fanouts
    BY <1>5 DEF Notice, Told, queue
  <2> HIDE DEF EventOf
  <2> QED BY <2>1, <2>2 DEF NoTestSpread
<1>6. CASE DOMAIN fanouts' \subseteq DOMAIN fanouts /\ held' \subseteq held
  BY <1>6 DEF NoTestSpread
<1>7. ASSUME NEW e \in DOMAIN fanouts,
             \/ Fanout(e) \/ FanoutFails(e) \/ Forget(e)
      PROVE  DOMAIN fanouts' \subseteq DOMAIN fanouts /\ held' \subseteq held
  BY <1>7 DEF Fanout, FanoutFails, Forget, FanoutBegins, FanoutQueues, FanoutInserts, FanoutRefused,
              FanoutAgain, Without, source
<1>8. CASE Environment
  <2>1. Crash => DOMAIN fanouts' \subseteq DOMAIN fanouts /\ held' \subseteq held
    BY DEF Crash
  <2>2. LoseRedis => DOMAIN fanouts' \subseteq DOMAIN fanouts /\ held' \subseteq held
    BY DEF LoseRedis, source
  <2> QED BY <1>6, <1>7, <1>8, <2>1, <2>2 DEF Environment
<1>9. CASE UNCHANGED <<fanouts, held>>
  BY <1>6, <1>9
<1> HIDE DEF NoTestSpread
<1>10. CASE User \/ Recover \/ (\E i \in DOMAIN jobs : DeliverBegins(i) \/ DeliverGoesOn(i)) \/ \E d \in DOMAIN lock : LockExpires(d)
  BY <1>9, <1>10 DEF User, SaveChannel, RemoveChannel, TestChannel, LinkPool, UnlinkPool, Recover, DeliverBegins,
           DeliverGoesOn, DeliverSends, SaveDelivered, SaveError, LockExpires, Kept, source, queue
<1>11. CASE Round \/ EditPolicy \/ Rotate
  BY <1>9, <1>11 DEF Round, EditPolicy, Rotate, Told, queue
<1> QED BY <1>2, <1>3, <1>4, <1>5, <1>6, <1>7, <1>8, <1>10, <1>11 DEF NotifyNext, Watched

\* A row becomes one that is to be sent when it is inserted, and then nobody
\* has touched it, or when a job of it is begun, which is no news to it.
LEMMA FreshRows ==
  ASSUME NotificationsInv, NotifyNext, OtherStep \/ QueueingStep, NEW d \in Delivery, Fresh(d)'
  PROVE  Fresh(d) \/ ~Touched(d)
<1>1. CASE d \in DOMAIN rows
  <2>1. ASSUME NEW c \in Channel, RemoveChannel(c) PROVE Fresh(d)
    BY <2>1 DEF RemoveChannel, Without, Fresh
  <2>2. ASSUME NEW c \in Channel, TestChannel(c) PROVE Fresh(d)
    <3>1. <<EventOf("test", events', "test"), c>> \notin DOMAIN rows
      BY <2>2 DEF NotificationsInv, Types, TestsNamed, TestChannel, Happens, EventOf
    <3> QED BY <1>1, <2>2, <3>1 DEF TestChannel, Put, Fresh
  <2>3. ASSUME NEW e \in DOMAIN fanouts, NEW c \in Channel, FanoutInserts(e, c) PROVE Fresh(d)
    BY <1>1, <2>3 DEF FanoutInserts, Put, Fresh
  <2>4. CASE Recover
    <3>1. \A x \in Due : rows[x].status # "delivered"
      BY DEF Due, Open
    <3> QED BY <1>1, <2>4, <3>1 DEF Recover, Fresh
  <2>5. CASE UNCHANGED rows
    BY <2>5 DEF Fresh
  <2> QED BY <2>1, <2>2, <2>3, <2>4, <2>5 DEF OtherStep, QueueingStep, Watched, Round, EditPolicy, Rotate,
       Notice, Told, ScanHealth, ScanRotations, QueueNotice, SaveChannel, LinkPool, UnlinkPool, FanoutBegins,
       FanoutFails, Forget, FanoutRefused, FanoutQueues
<1>2. CASE d \notin DOMAIN rows
  <2>0. d \in DOMAIN rows' /\ Types
    BY DEF Fresh, NotificationsInv
  <2>1. d[2] \in DOMAIN channels
    <3>1. CASE \E c \in Channel : TestChannel(c) /\ d = <<EventOf("test", events', "test"), c>>
      BY <3>1 DEF TestChannel
    <3>2. CASE \E e \in DOMAIN fanouts, c \in Channel : FanoutInserts(e, c) /\ d = <<e, c>>
      BY <3>2 DEF FanoutInserts
    <3> QED BY <1>2, <2>0, <3>1, <3>2, RowsStay
  <2>2. d[2] \notin removed
    BY <2>1 DEF NotificationsInv, Types, NotifyTypeOK
  <2> QED BY <1>2, <2>2 DEF NotificationsInv, RowsKnown
<1> QED BY <1>1, <1>2

LEMMA ChargedOther ==
  ASSUME NotificationsInv, NotifyNext, OtherStep \/ QueueingStep, NEW d \in Delivery
  PROVE  Charged(d)'
<1>1. SamePhases /\ UNCHANGED <<lock, got>>
  BY OtherStepKeeps, QueueStep DEF NotificationsInv, QueueingStep, SamePhases, Phase
<1>2. CASE Touched(d)
  <2>1. Types /\ Charged(d) /\ Times(d)' = Times(d) /\ (d \in DOMAIN lock => lock[d][2] = d)
    BY <1>1 DEF NotificationsInv, Times, Types, LocksFit
  <2>2. Fresh(d)' => Fresh(d)
    BY <1>2, FreshRows
  <2> QED BY <1>1, <2>1, <2>2, ChargedStays DEF SamePhases
<1>3. CASE ~Touched(d)
  <2>1. Times(d)' = 0 /\ \A k : k[2] = d => Phase(k)' = "none"
    BY <1>1, <1>3 DEF Touched, Times, SamePhases
  <2>2. Orphans(d)' = {}
    BY <2>1 DEF Orphans, Unsent
  <2> QED BY <2>1, <2>2, FS_EmptySet DEF Charged, Charge
<1> QED BY <1>2, <1>3

LEMMA NotificationsInit == NotifyInit => NotificationsInv
<1> SUFFICES ASSUME NotifyInit PROVE NotificationsInv
  OBVIOUS
<1>1. Types
  BY TypesInit
<1>2. \A d : Times(d) = 0 /\ \A k : Phase(k) = "none"
  BY DEF NotifyInit, Times, Phase
<1>3. \A d \in Delivery : Charged(d)
  BY <1>2, UntouchedIsCharged
<1>4. RowsKnown /\ TestsNamed /\ NoTestSpread
  BY <1>2 DEF NotifyInit, RowsKnown, TestsNamed, NoTestSpread, Touched
<1> QED BY <1>1, <1>3, <1>4 DEF NotificationsInv

LEMMA NotificationsStep == NotificationsInv /\ [NotifyNext]_notifyVars => NotificationsInv'
<1> SUFFICES ASSUME NotificationsInv, [NotifyNext]_notifyVars PROVE NotificationsInv'
  OBVIOUS
<1>0. Types'
  BY TypesStep DEF NotificationsInv
<1>1. CASE NotifyNext
  <2>1. RowsKnown' /\ TestsNamed' /\ NoTestSpread'
    BY <1>1, RowsKnownStep, TestsNamedStep, NoTestSpreadStep DEF NotificationsInv
  <2>2. ASSUME NEW d \in Delivery PROVE Charged(d)'
    <3>1. Types /\ Charged(d)
      BY DEF NotificationsInv
    <3>2. CASE OtherStep \/ QueueingStep
      BY <1>1, <3>2, ChargedOther
    <3>3. CASE DeliveryStep
      BY <3>1, <3>3, ChargedBegin, ChargedSend, ChargedSave DEF DeliveryStep
    <3>4. CASE Crash \/ LoseRedis
      BY <3>1, <3>4, ChargedCrash, ChargedLoseRedis
    <3>5. CASE \E x \in DOMAIN lock : LockExpires(x)
      BY <3>1, <3>5, ChargedLockExpires
    <3> QED BY <1>1, <3>2, <3>3, <3>4, <3>5, Steps
  <2> QED BY <1>0, <2>1, <2>2 DEF NotificationsInv
<1>2. CASE UNCHANGED notifyVars
  BY <1>0, <1>2 DEF notifyVars, source, setup, queue, NotificationsInv, RowsKnown, TestsNamed, NoTestSpread,
     Touched, Times, Phase,
     Charged, Charge, Orphans, Locks, Sendable, Holder, Fresh
<1> QED BY <1>1, <1>2

\* Every row is charged once at most: what is sent again was excused before.
THEOREM NotificationsInvariant == NotifySpec => []NotificationsInv
BY NotificationsInit, NotificationsStep, PTL DEF NotifySpec

\* A message is received a second time only for a cause (ARCHITECTURE.md:258),
\* for any number of events, channels, jobs and faults.
THEOREM DuplicateHasCauseAlways == NotifySpec => []DuplicateHasCause
<1>1. NotificationsInv => DuplicateHasCause
  <2> SUFFICES ASSUME NotificationsInv, NEW d \in DOMAIN got PROVE got[d] <= 1
    BY DEF DuplicateHasCause
  <2>1. Types /\ d \in Delivery /\ Charged(d)
    BY DEF NotificationsInv, Types, GotFits
  <2>2. Times(d) <= Charge(d) /\ Charge(d) <= 1 /\ Times(d) \in Int /\ Charge(d) \in Int
    BY <2>1, ChargeIsInt DEF Charged, Charge
  <2> QED BY <2>2 DEF Times
<1> QED BY <1>1, NotificationsInvariant, PTL

=============================================================================
