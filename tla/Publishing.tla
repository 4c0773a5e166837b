----------------------------- MODULE Publishing -----------------------------
(***************************************************************************)
(* What a pool promises the readers of a domain name, whatever its         *)
(* reconciles, operations and deletions do in between: while it holds a    *)
(* name it never takes down the last record of it, and it lets go of a     *)
(* name only when nothing of it is left in the DNS.                        *)
(*                                                                         *)
(* The promise is made for a zone that nobody else edits and a provider    *)
(* whose answers arrive.  A name is marked disturbed as soon as an         *)
(* outsider changes one of its records, an answer is lost, a step has      *)
(* failed for good, or the pool is made to keep one of several records of  *)
(* the name; from then on its records may come to any state.               *)
(* Module Pool implements this specification.                              *)
(***************************************************************************)
CONSTANTS Name,     \* the names a pool may hold
          Record,   \* identities of the DNS records of a name
          Content   \* what a record can point to

VARIABLES tenure,     \* tenure[n]: the pool does not have, holds, or leaves n
          shown,      \* shown[n] is the set of <<record, content>> in the DNS
          disturbed   \* names for which the promise has ended

promise == <<tenure, shown, disturbed>>

Tenure == {"free", "held", "leaving"}
Shown == SUBSET (Record \X Content)

Without(n, r) == {p \in shown[n] : p[1] # r}

Init ==
  /\ tenure \in [Name -> Tenure]
  /\ shown \in [Name -> Shown]
  /\ disturbed = {}

\* The pool takes a name with the records it finds.
Hold(n) ==
  /\ tenure[n] = "free"
  /\ tenure' = [tenure EXCEPT ![n] = "held"]
  /\ UNCHANGED <<shown, disturbed>>

\* A record is added to a name, or changed in place.
Show(n, r, c) ==
  /\ tenure[n] = "held"
  /\ shown' = [shown EXCEPT ![n] = Without(n, r) \cup {<<r, c>>}]
  /\ UNCHANGED <<tenure, disturbed>>

\* A record is taken down: another one of the name stays, or it is leaving.
Hide(n, r) ==
  /\ \/ tenure[n] = "leaving"
     \/ tenure[n] = "held" /\ Without(n, r) # {}
  /\ shown' = [shown EXCEPT ![n] = Without(n, r)]
  /\ UNCHANGED <<tenure, disturbed>>

Leave(n) ==
  /\ tenure[n] = "held"
  /\ tenure' = [tenure EXCEPT ![n] = "leaving"]
  /\ UNCHANGED <<shown, disturbed>>

Free(n) ==
  /\ tenure[n] # "free"
  /\ shown[n] = {} \/ n \in disturbed
  /\ tenure' = [tenure EXCEPT ![n] = "free"]
  /\ UNCHANGED <<shown, disturbed>>

\* The end of the promise for some names, and whatever happens to them afterwards.
Disturb(N) ==
  /\ disturbed' = disturbed \cup N
  /\ shown' \in [Name -> Shown]
  /\ \A m \in Name \ N : shown'[m] = shown[m]
  /\ UNCHANGED tenure

Next ==
  \/ \E n \in Name :
       \/ Hold(n) \/ Leave(n) \/ Free(n)
       \/ \E r \in Record : \/ Hide(n, r)
                            \/ \E c \in Content : Show(n, r, c)
  \/ \E N \in SUBSET Name : Disturb(N)

Spec == Init /\ [][Next]_promise
=============================================================================
