----------------------------- MODULE TripLedger -----------------------------
(***************************************************************************)
(* What the service promises of a trip, with no requests and no copies:    *)
(* a trip is drafted, published once, and cancelled for good; members join *)
(* a published trip while it has room and leave it; a published trip's     *)
(* capacity never falls below the number of members that are going.        *)
(*                                                                         *)
(* Next is the promise kept when requests do not overlap.  StaleNext adds  *)
(* what a handler can still do on Postgres by saving a copy it loaded      *)
(* before another request committed.                                       *)
(***************************************************************************)
EXTENDS Integers, FiniteSets

CONSTANTS TripIDs, Members, MaxCapacity

VARIABLES
  status,    \* "NONE" before the trip exists
  capacity,  \* 0 when the trip has none
  going      \* the members that are going

ledger == <<status, capacity, going>>

\* A capacity that a published trip may take on: none, the one it has, or one
\* with room for all who are going.
Roomy(id, c) == c = 0 \/ c = capacity[id] \/ c >= Cardinality(going[id])

Init ==
  /\ status = [id \in TripIDs |-> "NONE"]
  /\ capacity = [id \in TripIDs |-> 0]
  /\ going = [id \in TripIDs |-> {}]

Draft(id) ==
  /\ status[id] = "NONE"
  /\ status' = [status EXCEPT ![id] = "DRAFT"]
  /\ UNCHANGED <<capacity, going>>

SetCapacity(id, c) ==
  /\ \/ status[id] = "DRAFT"
     \/ status[id] = "PUBLISHED" /\ Roomy(id, c)
  /\ capacity' = [capacity EXCEPT ![id] = c]
  /\ UNCHANGED <<status, going>>

Publish(id, c) ==
  /\ status[id] = "DRAFT"
  /\ c >= 1
  /\ status' = [status EXCEPT ![id] = "PUBLISHED"]
  /\ capacity' = [capacity EXCEPT ![id] = c]
  /\ UNCHANGED going

Cancel(id, c) ==
  /\ \/ status[id] = "DRAFT"
     \/ status[id] = "PUBLISHED" /\ Roomy(id, c)
  /\ status' = [status EXCEPT ![id] = "CANCELED"]
  /\ capacity' = [capacity EXCEPT ![id] = c]
  /\ UNCHANGED going

Join(id, m) ==
  /\ status[id] = "PUBLISHED"
  /\ Cardinality(going[id]) < capacity[id]
  /\ going' = [going EXCEPT ![id] = @ \cup {m}]
  /\ UNCHANGED <<status, capacity>>

Leave(id, m) ==
  /\ status[id] = "PUBLISHED"
  /\ going' = [going EXCEPT ![id] = @ \ {m}]
  /\ UNCHANGED <<status, capacity>>

Next ==
  \E id \in TripIDs :
    \/ Draft(id)
    \/ \E c \in 0..MaxCapacity : SetCapacity(id, c)
    \/ Publish(id, capacity[id])
    \/ Cancel(id, capacity[id])
    \/ \E m \in Members : Join(id, m) \/ Leave(id, m)

Spec == Init /\ [][Next]_ledger

-----------------------------------------------------------------------------
\* A save of a draft's old copy takes a trip that was published meanwhile back
\* to a draft.
Reopen(id, c) ==
  /\ status[id] = "PUBLISHED"
  /\ Roomy(id, c)
  /\ status' = [status EXCEPT ![id] = "DRAFT"]
  /\ capacity' = [capacity EXCEPT ![id] = c]
  /\ UNCHANGED going

\* A second cancel's old copy rewrites the capacity of a cancelled trip.
Restate(id, c) ==
  /\ status[id] = "CANCELED"
  /\ capacity' = [capacity EXCEPT ![id] = c]
  /\ UNCHANGED <<status, going>>

StaleNext ==
  \/ Next
  \/ \E id \in TripIDs, c \in 0..MaxCapacity :
       Publish(id, c) \/ Cancel(id, c) \/ Reopen(id, c) \/ Restate(id, c)

StaleSpec == Init /\ [][StaleNext]_ledger

=============================================================================
