----------------------------- MODULE TripService -----------------------------
(***************************************************************************)
(* The trips application service under concurrent requests.                *)
(*                                                                         *)
(* Every HTTP request runs in a goroutine of its own and the service holds *)
(* no lock: a handler loads the trip, decides on its copy and saves the    *)
(* whole copy back, and requests for one trip interleave between any two   *)
(* of their repository calls.  A handler that makes a single write is one  *)
(* step after its load, because its decision is local and its Save is      *)
(* atomic; SetMyRSVP makes four repository calls after its load.           *)
(*                                                                         *)
(* Nothing before a handler's first check depends on who calls or with     *)
(* which arguments, so a job chooses them at that check.                   *)
(***************************************************************************)
EXTENDS TripStore

CONSTANTS
  TripIDs,    \* identifiers newTripID can return
  Workers,    \* requests in flight at one time
  Responses,  \* responses clients send: a subset of YES, NO and UNSET
  Patches,    \* patches clients send: a subset of Patch
  NoTrip,     \* no such trip
  Idle,       \* a worker that serves no request
  Nobody      \* no member

ASSUME ServiceAssumption ==
  /\ Responses \subseteq {"YES", "NO", "UNSET"}
  /\ Patches \subseteq Patch
  /\ NoTrip \notin Trip
  /\ Nobody \notin Members

VARIABLES
  trips,   \* the trips repository
  rsvps,   \* the RSVP repository: "NONE" is no record
  job      \* what each worker is doing

vars == <<trips, rsvps, job>>

RSVPs == {"NONE", "YES", "NO", "UNSET"}

\* A request in flight: the repository call it makes next, the trip it works
\* on, its copy of the trip, and for SetMyRSVP the caller, the RSVP found and
\* the response asked for.
Job == [pc       : {"organizers", "attendance", "loaded", "count", "save", "upsert"},
        id       : TripIDs,
        trip     : Trip,
        caller   : Members \cup {Nobody},
        existing : RSVPs,
        response : RSVPs]

ASSUME IdleAssumption == Idle \notin Job

TypeOK ==
  /\ trips \in [TripIDs -> Trip \cup {NoTrip}]
  /\ rsvps \in [TripIDs -> [Members -> RSVPs]]
  /\ job \in [Workers -> Job \cup {Idle}]

Going(id) == {m \in Members : rsvps[id][m] = "YES"}

At(w, pc) == job[w] # Idle /\ job[w].pc = pc

Finish(w) == job' = [job EXCEPT ![w] = Idle]

Fetched(pc, id, t) ==
  [pc |-> pc, id |-> id, trip |-> t,
   caller |-> Nobody, existing |-> "NONE", response |-> "NONE"]

-----------------------------------------------------------------------------
Init ==
  /\ trips = [id \in TripIDs |-> NoTrip]
  /\ rsvps = [id \in TripIDs |-> [m \in Members |-> "NONE"]]
  /\ job = [w \in Workers |-> Idle]

CreateTripDraft(caller, id) ==
  /\ trips[id] = NoTrip
  /\ trips' = [trips EXCEPT ![id] = Stored(NewDraft(caller))]
  /\ UNCHANGED <<rsvps, job>>

-----------------------------------------------------------------------------
(* GetByID: one critical section in memory; in Postgres a query for the    *)
(* row, one for the organizers and, when the row read is PUBLISHED, one    *)
(* that counts the YES responses, each on a snapshot of its own.           *)

LoadTrip(w, id) ==
  /\ Memory
  /\ job[w] = Idle
  /\ trips[id] # NoTrip
  /\ job' = [job EXCEPT ![w] = Fetched("loaded", id, trips[id])]
  /\ UNCHANGED <<trips, rsvps>>

LoadRow(w, id) ==
  /\ Postgres
  /\ job[w] = Idle
  /\ trips[id] # NoTrip
  /\ job' = [job EXCEPT ![w] =
               Fetched("organizers", id, [trips[id] EXCEPT !.organizers = {}])]
  /\ UNCHANGED <<trips, rsvps>>

LoadOrganizers(w) ==
  /\ At(w, "organizers")
  /\ job' = [job EXCEPT ![w].trip.organizers = trips[job[w].id].organizers,
                        ![w].pc = IF job[w].trip.status = "PUBLISHED"
                                  THEN "attendance" ELSE "loaded"]
  /\ UNCHANGED <<trips, rsvps>>

LoadAttendance(w) ==
  /\ At(w, "attendance")
  /\ job' = [job EXCEPT ![w].trip.attending = Cardinality(Going(job[w].id)),
                        ![w].pc = "loaded"]
  /\ UNCHANGED <<trips, rsvps>>

-----------------------------------------------------------------------------
(* The handlers, from the loaded copy on.                                  *)

\* Save the record t over the trip that w works on.  A transaction that the
\* database refuses changes nothing and ends the request with an error.
Save(w, t) ==
  IF SaveAccepted(trips[job[w].id], t, Going(job[w].id))
  THEN trips' = [trips EXCEPT ![job[w].id] = Stored(t)]
  ELSE UNCHANGED trips

SaveAndFinish(w, t) == Save(w, t) /\ Finish(w) /\ UNCHANGED rsvps

UpdateTrip(w) ==
  /\ At(w, "loaded")
  /\ \E caller \in Members, patch \in Patches :
       /\ MayUpdate(job[w].trip, caller)
       /\ PatchAccepted(job[w].trip, patch)
       /\ SaveAndFinish(w, Patched(job[w].trip, patch))

SetTripDraftVisibility(w) ==
  /\ At(w, "loaded")
  /\ \E caller \in Members, dv \in {"PRIVATE", "PUBLIC"} :
       /\ MaySetVisibility(job[w].trip, caller)
       /\ SaveAndFinish(w, [job[w].trip EXCEPT !.visibility = dv])

AddTripOrganizer(w) ==
  /\ At(w, "loaded")
  /\ \E caller, target \in Members :
       /\ MayManage(job[w].trip, caller)
       /\ ~isOrganizer(job[w].trip, target)
       /\ SaveAndFinish(w, [job[w].trip EXCEPT !.organizers = @ \cup {target}])

\* Mutant: the removal deletes the one organizer instead of saving the copy's
\* list.  In Postgres a DELETE alone does not lock the trip's row, and the
\* trigger of one request does not see what another has yet to commit.
RemoveOrganizerInPlace(w) ==
  /\ At(w, "loaded")
  /\ \E caller, target \in Members :
       /\ MayManage(job[w].trip, caller)
       /\ isOrganizer(job[w].trip, target)
       /\ job[w].trip.organizers # {target}
       /\ trips' = [trips EXCEPT ![job[w].id].organizers = @ \ {target}]
  /\ Finish(w)
  /\ UNCHANGED rsvps

RemoveTripOrganizer(w) ==
  /\ At(w, "loaded")
  /\ \E caller, target \in Members :
       /\ MayManage(job[w].trip, caller)
       /\ isOrganizer(job[w].trip, target)
       /\ job[w].trip.organizers # {target}
       /\ SaveAndFinish(w, [job[w].trip EXCEPT !.organizers = @ \ {target}])

CancelTrip(w) ==
  /\ At(w, "loaded")
  /\ \E caller \in Members : MayManage(job[w].trip, caller)
  /\ job[w].trip.status # "CANCELED"
  /\ SaveAndFinish(w, [job[w].trip EXCEPT !.status = "CANCELED"])

PublishTrip(w) ==
  /\ At(w, "loaded")
  /\ \E caller \in Members : MayPublish(job[w].trip, caller)
  /\ SaveAndFinish(w, Published(job[w].trip))

\* Every answer that follows the load with no write: a refusal, an idempotent
\* no-op, a read.
Answer(w) ==
  /\ At(w, "loaded")
  /\ Finish(w)
  /\ UNCHANGED <<trips, rsvps>>

-----------------------------------------------------------------------------
(* SetMyRSVP: Get, CountYesByTrip, Save, Upsert.                           *)

SetMyRSVP(w) ==
  /\ At(w, "loaded")
  /\ \E caller \in Members, response \in Responses :
       /\ MayRSVP(job[w].trip, caller)
       /\ rsvps[job[w].id][caller] # response
       /\ job' = [job EXCEPT ![w].pc = "count",
                             ![w].caller = caller,
                             ![w].existing = rsvps[job[w].id][caller],
                             ![w].response = response]
  /\ UNCHANGED <<trips, rsvps>>

\* Mutant: taking a YES back does not free its place.
DeltaNeverDown(existing, response) ==
  IF existing # "YES" /\ response = "YES" THEN 1 ELSE 0

Delta(existing, response) ==
  IF existing = "YES" THEN (IF response = "YES" THEN 0 ELSE -1)
  ELSE (IF response = "YES" THEN 1 ELSE 0)

NewAttendance(current, delta) ==
  IF current + delta < 0 THEN 0 ELSE current + delta

\* Mutant: the attendance before the answer is compared with the capacity.
CountBeforeAnswer(w) ==
  /\ At(w, "count")
  /\ LET current == Cardinality(Going(job[w].id))
     IN  IF job[w].response = "YES" /\ current > job[w].trip.capacity
         THEN Finish(w)
         ELSE job' = [job EXCEPT ![w].pc = "save",
                                 ![w].trip.attending = NewAttendance(current,
                                    Delta(job[w].existing, job[w].response))]
  /\ UNCHANGED <<trips, rsvps>>

CountYesByTrip(w) ==
  /\ At(w, "count")
  /\ LET att == NewAttendance(Cardinality(Going(job[w].id)),
                              Delta(job[w].existing, job[w].response))
     IN  IF job[w].response = "YES" /\ att > job[w].trip.capacity
         THEN Finish(w)
         ELSE job' = [job EXCEPT ![w].pc = "save", ![w].trip.attending = att]
  /\ UNCHANGED <<trips, rsvps>>

SaveAttendance(w) ==
  /\ At(w, "save")
  /\ Save(w, job[w].trip)
  /\ IF SaveAccepted(trips[job[w].id], job[w].trip, Going(job[w].id))
     THEN job' = [job EXCEPT ![w].pc = "upsert"]
     ELSE Finish(w)
  /\ UNCHANGED rsvps

UpsertRSVP(w) ==
  /\ At(w, "upsert")
  /\ IF UpsertAccepted(trips[job[w].id], Going(job[w].id), job[w].response)
     THEN rsvps' = [rsvps EXCEPT ![job[w].id][job[w].caller] = job[w].response]
     ELSE UNCHANGED rsvps
  /\ Finish(w)
  /\ UNCHANGED trips

\* A Postgres call may fail, and the client may go away, which cancels the
\* request's context, between any two calls.  The memory repositories ignore
\* the context and never fail.
Abandon(w) ==
  /\ Postgres
  /\ job[w] # Idle
  /\ Finish(w)
  /\ UNCHANGED <<trips, rsvps>>

-----------------------------------------------------------------------------
Step(w) ==
  \/ \E id \in TripIDs : LoadTrip(w, id)
  \/ \E id \in TripIDs : LoadRow(w, id)
  \/ LoadOrganizers(w)
  \/ LoadAttendance(w)
  \/ UpdateTrip(w)
  \/ SetTripDraftVisibility(w)
  \/ AddTripOrganizer(w)
  \/ RemoveTripOrganizer(w)
  \/ CancelTrip(w)
  \/ PublishTrip(w)
  \/ Answer(w)
  \/ SetMyRSVP(w)
  \/ CountYesByTrip(w)
  \/ SaveAttendance(w)
  \/ UpsertRSVP(w)
  \/ Abandon(w)

Next ==
  \/ \E caller \in Members, id \in TripIDs : CreateTripDraft(caller, id)
  \/ \E w \in Workers : Step(w)

Spec == Init /\ [][Next]_vars

-----------------------------------------------------------------------------
(* Properties *)

Exists(id) == trips[id] # NoTrip
HasStatus(id, s) == Exists(id) /\ trips[id].status = s

\* Whatever copies are saved over each other, and even when a copy was read
\* in several queries, no trip is left without an organizer: two organizers
\* that remove each other at the same time both find one left, each on the list
\* of the copy it loaded (RemoveTripOrganizer).
OrganizersNeverEmpty == \A id \in TripIDs : Exists(id) => trips[id].organizers # {}

\* On Postgres no save hands a trip over to other people altogether: whatever
\* copy is saved, some organizer stays.  Copies may well be that old: of two
\* organizers that remove each other, or when an answer restores the list from
\* before a change of hands.  syncOrganizers deletes such a list row by row, is
\* refused at the last, and takes the whole Save back.
SomeOrganizerStays ==
  [][\A id \in TripIDs :
       Exists(id) => trips[id].organizers \cap trips'[id].organizers # {}]_vars

\* A cancelled trip stays cancelled: UpdateTrip answers 409 for one and the
\* database refuses to un-cancel it.
CancelIsFinal ==
  [][\A id \in TripIDs : HasStatus(id, "CANCELED") => HasStatus(id, "CANCELED")']_vars

\* A published trip with a capacity has room for everyone who said YES.
NeverOverbooked ==
  \A id \in TripIDs :
    HasStatus(id, "PUBLISHED") /\ trips[id].capacity # NoCapacity
      => Cardinality(Going(id)) <= trips[id].capacity

\* Once published a trip is never a draft again.
NeverUnpublished ==
  [][\A id \in TripIDs : HasStatus(id, "PUBLISHED") => ~HasStatus(id, "DRAFT")']_vars

\* A published trip has a capacity, without which nobody can RSVP to it.
PublishedHasCapacity ==
  \A id \in TripIDs : HasStatus(id, "PUBLISHED") => trips[id].capacity >= 1

\* Nobody has answered a trip that is still a draft.
DraftsHaveNoRSVP ==
  \A id \in TripIDs : HasStatus(id, "DRAFT") => \A m \in Members : rsvps[id][m] = "NONE"

\* Whoever is removed and however the visibility changes, there is always a
\* member that can move the trip on: an organizer that sees it, or, for a private
\* draft whose organizers do not, its creator, who can make it public.
NobodyLockedOut ==
  \A id \in TripIDs : Exists(id) =>
    \E m \in Members : MayManage(trips[id], m) \/ MaySetVisibility(trips[id], m)

\* The trips, seen as a ledger of status, capacity and attendance.
LedgerStatus == [id \in TripIDs |-> IF Exists(id) THEN trips[id].status ELSE "NONE"]
LedgerCapacity == [id \in TripIDs |-> IF Exists(id) THEN trips[id].capacity ELSE NoCapacity]
LedgerGoing == [id \in TripIDs |-> Going(id)]

Ledger == INSTANCE TripLedger WITH
  status <- LedgerStatus, capacity <- LedgerCapacity, going <- LedgerGoing

\* Requests served one after the other keep the ledger's whole promise: every
\* step of a handler is a step of the ledger or leaves it unchanged.
ImplementsLedger == Ledger!Spec

\* Overlapping requests on Postgres keep it except for the steps that
\* StaleNext adds.
ImplementsStaleLedger == Ledger!StaleSpec

=============================================================================
