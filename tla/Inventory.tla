----------------------------- MODULE Inventory -----------------------------
(***************************************************************************)
(* What the service believes about the addresses of an account, next to    *)
(* what CloudAccount's rotations and cleanup make of them.                 *)
(*                                                                         *)
(* A slot has a current address and perhaps a candidate, an address that   *)
(* becomes the current one when the probes find it healthy.  Candidates    *)
(* come from two sides: a rotation installs the address that it attached,  *)
(* and a scan of the cloud stages an address that it found and that nobody *)
(* announced.  A scan reads the cloud outside of any transaction, for as   *)
(* long as the cloud takes to answer, and stores what it read afterwards:  *)
(* by then rotations may have begun or ended, another scan may have been   *)
(* stored, or the account may have been edited.                            *)
(***************************************************************************)
EXTENDS CloudAccount

CONSTANTS Scanner,       \* processes that scan, and requests for a scan
          MaxEdits,      \* bound: edits of the account
          MaxOutside,    \* bound: changes that the owner makes at the cloud
          Dynamic,       \* the address that an instance has of itself
          Nothing        \* no candidate

Shown == (0 .. MaxAttempts) \cup {Dynamic}

ASSUME InventoryAssumption ==
  /\ Nothing \notin Shown /\ Dynamic \notin 0 .. MaxAttempts
  /\ MaxEdits \in Nat /\ MaxOutside \in Nat

VARIABLES
  known,    \* the rows of the slots
  scan,     \* the scans
  edits,    \* edits of the account so far
  outside   \* changes of the owner so far

scanVars == <<scan, edits, outside>>
allVars == <<vars, known, scanVars>>

\* observed: the addresses whose generation is that of their instance.
Slots == [current : Shown, candidate : Shown \cup {Nothing}, observed : SUBSET Shown]

\* A scan that finds the generation of the scope or the account changed when it
\* comes to store what it read does nothing but fail.  It is dropped here when
\* the change happens.
Scan == [at : {"idle", "started", "read"}, seen : [Slot -> Shown]]

Idle == [at |-> "idle", seen |-> [s \in Slot |-> Dynamic]]

InventoryTypeOK ==
  /\ TypeOK
  /\ known \in [Slot -> Slots]
  /\ scan \in [Scanner -> Scan]
  /\ edits \in 0 .. MaxEdits /\ outside \in 0 .. MaxOutside

InventoryInit ==
  /\ Init
  /\ known = [s \in Slot |->
       IF rot[s].stage = "over"
         THEN [current |-> 0, candidate |-> Nothing, observed |-> {0}]
         ELSE [current |-> Dynamic, candidate |-> 0, observed |-> {Dynamic, 0}]]
  /\ scan = [c \in Scanner |-> Idle]
  /\ edits = 0 /\ outside = 0

-----------------------------------------------------------------------------

\* What the cloud answers about the instance of s.
Shows(s) == IF Numbers(s) = {} THEN Dynamic ELSE CHOOSE n \in Numbers(s) : TRUE

\* The slot's newer address, candidateAddressId ?? currentAddressId.
Newest(s) == IF known[s].candidate # Nothing THEN known[s].candidate ELSE known[s].current

Quiet(s) == ~Unfinished(s) /\ ~InFlight(s)

\* A rotation is admitted for a slot without a candidate, whose current address
\* is the one that the plan is made for.
BeginKnown(s) ==
  /\ known[s].candidate = Nothing /\ known[s].current = Shows(s)
  /\ Begin(s)
  /\ UNCHANGED <<known, scanVars>>

\* saveReceipt of the last step installs the candidate.
Install(s) == [known[s] EXCEPT !.candidate = rot[s].attempt, !.observed = @ \cup {rot[s].attempt}]

ObserveKnown(s) ==
  /\ Observe(s)
  /\ known' = IF rot'[s].stage = "candidate" THEN [known EXCEPT ![s] = Install(s)] ELSE known
  /\ UNCHANGED scanVars

\* The promotion of a candidate that the probes found healthy: to be probed it has
\* to be the instance's, and in the inventory or of the rotation under way.
Promoted(s) == [known[s] EXCEPT !.current = known[s].candidate, !.candidate = Nothing,
                                !.observed = @ \cup {known[s].candidate}]

Probed(s) == known[s].candidate = Shows(s)

PublishKnown(s) ==
  /\ Probed(s) /\ known[s].candidate = rot[s].attempt
  /\ Publish(s)
  /\ known' = [known EXCEPT ![s] = Promoted(s)]
  /\ UNCHANGED scanVars

Promote(s) ==
  /\ Quiet(s)
  /\ Probed(s) /\ known[s].candidate \in known[s].observed
  /\ known' = [known EXCEPT ![s] = Promoted(s)]
  /\ UNCHANGED <<vars, scanVars>>

-----------------------------------------------------------------------------
(* Scans.                                                                   *)

\* Bound: a behaviour has a cleanup or it has scans.  The cleanup takes addresses
\* that are attached to nothing, and a scan does not see those.
Scanning == batch.number = MaxBatches /\ batch.state = "none"

\* scanScope reads the account and the generation of the scope ...
StartScan(c) ==
  /\ Scanning /\ scan[c].at = "idle"
  /\ scan' = [scan EXCEPT ![c] = [Idle EXCEPT !.at = "started"]]
  /\ UNCHANGED <<vars, known, edits, outside>>

\* ... asks the cloud ...
ReadCloud(c) ==
  /\ scan[c].at = "started"
  /\ scan' = [scan EXCEPT ![c].at = "read", ![c].seen = [s \in Slot |-> Shows(s)]]
  /\ UNCHANGED <<vars, known, edits, outside>>

\* Mutant of Busy: only an unanswered write keeps the scan from the slot.
BusyIfUnanswered(s) == InFlight(s)

\* A rotation of the instance that is not finished, or that has left a step
\* unanswered.
Busy(s) == Unfinished(s) \/ InFlight(s)

\* Mutant of Stages: a scan only ever stages into an empty slot.
StagesOnce(s, address) == known[s].candidate = Nothing /\ address # known[s].current /\ ~Busy(s)

Stages(s, address) == address # Newest(s) /\ ~Busy(s)

\* ... and stores what it read, unless it is overtaken.
Commit(c) ==
  /\ scan[c].at = "read"
  /\ known' = [s \in Slot |->
       [known[s] EXCEPT !.observed = {scan[c].seen[s]},
                        !.candidate = IF Stages(s, scan[c].seen[s]) THEN scan[c].seen[s] ELSE @]]
  /\ scan' = [d \in Scanner |-> Idle]
  /\ UNCHANGED <<vars, edits, outside>>

\* The cloud does not answer.
ScanFails(c) ==
  /\ scan[c].at = "started"
  /\ scan' = [scan EXCEPT ![c] = Idle]
  /\ UNCHANGED <<vars, known, edits, outside>>

\* An edit of the account, its credentials, its regions or its switch, when there
\* is a scan that it can overtake.
EditAccount ==
  /\ \E c \in Scanner : scan[c].at # "idle"
  /\ edits < MaxEdits
  /\ edits' = edits + 1
  /\ scan' = [c \in Scanner |-> Idle]
  /\ UNCHANGED <<vars, known, outside>>

\* The owner takes the address from an instance that has no rotation, or gives it
\* an idle one.
Outside(s) ==
  /\ outside < MaxOutside /\ Quiet(s) /\ Scanning
  /\ outside' = outside + 1
  /\ \/ \E n \in Numbers(s) : place' = [place EXCEPT ![<<s, n>>] = "idle"]
     \/ /\ Numbers(s) = {}
        /\ \E n \in 0 .. MaxAttempts :
             place[<<s, n>>] = "idle" /\ place' = [place EXCEPT ![<<s, n>>] = "attached"]
  /\ UNCHANGED <<rot, budget, batch, item, call, known, scan, edits>>

Elsewhere ==
  \/ \E s \in Slot : NextAttempt(s) \/ Terminate(s) \/ Complete(s) \/ Dispatch(s) \/ CloudActs(s) \/ Throttled(s)
  \/ List \/ Preview \/ Confirm
  \/ \E x \in Ip : ClaimLook(x) \/ ClaimRelease(x)
  \/ \E c \in call : Check(c) \/ CheckFails(c) \/ Send(c) \/ Look(c) \/ Save(c) \/ Dies(c)
  \/ Expire \/ CooledDown

InventoryNext ==
  \/ Elsewhere /\ UNCHANGED <<known, scanVars>>
  \/ \E s \in Slot : BeginKnown(s) \/ ObserveKnown(s) \/ PublishKnown(s) \/ Promote(s) \/ Outside(s)
  \/ \E c \in Scanner : StartScan(c) \/ ReadCloud(c) \/ Commit(c) \/ ScanFails(c)
  \/ EditAccount

\* The account is scanned again and again and the cloud does not fail every scan;
\* candidates are probed again and again.
ScanFairness ==
  /\ WF_allVars(\E c \in Scanner : StartScan(c))
  /\ SF_allVars(\E c \in Scanner : ReadCloud(c))
  /\ WF_allVars(\E c \in Scanner : Commit(c))
  /\ \A s \in Slot : WF_allVars(Promote(s))

InventorySpec == InventoryInit /\ [][InventoryNext]_allVars /\ Fairness /\ ScanFairness

-----------------------------------------------------------------------------

\* While a rotation has its address installed and not yet published, the address is
\* its slot's candidate, and while it cleans up it is the slot's current one with no
\* other staged: a scan that read the cloud before the swap may be stored then, but
\* it leaves a busy slot alone (cloud-sync.service.ts:168-176).  Once the rotation is
\* over, such a scan does stage the old address, until the next scan mends it: of
\* that, ScansConverge speaks.
InstalledIsCandidate ==
  \A s \in Slot :
    /\ rot[s].stage = "candidate" => known[s].candidate = rot[s].attempt
    /\ rot[s].stage = "cleanup" => known[s].current = rot[s].attempt /\ known[s].candidate = Nothing

\* When the rotations of an instance have ended and the owner no longer changes
\* it, the service comes to know the address that the instance has.
ScansConverge ==
  \A s \in Slot :
    <>[](Quiet(s) /\ Scanning) => <>[](known[s].current = Shows(s) /\ known[s].candidate = Nothing)

=============================================================================
