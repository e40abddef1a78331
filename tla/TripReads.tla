------------------------------ MODULE TripReads ------------------------------
(***************************************************************************)
(* What the reading operations of the trips service answer: the two lists, *)
(* the details with their RSVP fields, the RSVP summary and the caller's   *)
(* own RSVP.  Each is a function of the repositories; when no request      *)
(* writes meanwhile, the several queries of one read see one state.        *)
(*                                                                         *)
(* Access is decided in three places: by the service for the details, by   *)
(* isDraftVisibleTo for the lists in memory, and by a WHERE clause for     *)
(* those in Postgres.  The attendance comes from two: the trip's own       *)
(* column or a count for the list and the details, the RSVPs for the       *)
(* summary.                                                                *)
(***************************************************************************)
EXTENDS TripService

GetByID(id) ==
  IF Postgres /\ trips[id].status = "PUBLISHED"
  THEN [trips[id] EXCEPT !.attending = Cardinality(Going(id))]
  ELSE trips[id]

\* The fields of an entry of a list, which the details repeat.
toDomainSummary(t) ==
  [status     |-> t.status,
   visibility |-> IF t.status = "DRAFT" THEN t.visibility ELSE "NONE",
   capacity   |-> t.capacity,
   attending  |-> IF t.status = "PUBLISHED" THEN t.attending ELSE Unset]

-----------------------------------------------------------------------------
(* The lists, as functions from the trips listed to their entries *)

\* The trips that GetByID finds.
Existing == {id \in TripIDs : trips[id] # NoTrip}

\* Mutant: every draft is listed for its organizers.
isDraftVisibleToOrganizer(t, caller) == caller \in t.organizers

\* The repository in memory: a PUBLIC draft for its organizers, a PRIVATE one
\* for its creator, and no other.
isDraftVisibleTo(t, caller) ==
  CASE t.visibility = "PUBLIC"  -> caller \in t.organizers
    [] t.visibility = "PRIVATE" -> caller = t.creator
    [] OTHER                    -> FALSE

\* The WHERE clause of the query.
draftRowVisibleTo(t, caller) ==
  \/ t.visibility = "PRIVATE" /\ t.creator = caller
  \/ t.visibility = "PUBLIC" /\ \E o \in t.organizers : o = caller

\* Mutant: a private draft is listed for its organizers.
ListDraftsOfOrganizer(caller) ==
  LET listed == {id \in Existing : trips[id].status = "DRAFT" /\ caller \in trips[id].organizers}
  IN  [id \in listed |-> toDomainSummary(trips[id])]

ListDraftsVisibleTo(caller) ==
  LET listed == {id \in Existing :
                   /\ trips[id].status = "DRAFT"
                   /\ IF Memory THEN isDraftVisibleTo(trips[id], caller)
                      ELSE draftRowVisibleTo(trips[id], caller)}
  IN  [id \in listed |->
         \* The query of Postgres leaves the capacity out.
         toDomainSummary(IF Memory THEN trips[id]
                         ELSE [trips[id] EXCEPT !.capacity = NoCapacity])]

\* v_trip_summary joins each trip's count of YES responses.
ListPublishedAndCanceled ==
  LET listed == {id \in Existing : trips[id].status \in {"PUBLISHED", "CANCELED"}}
  IN  [id \in listed |->
         toDomainSummary(IF Memory THEN trips[id]
                         ELSE [trips[id] EXCEPT !.attending = Cardinality(Going(id))])]

-----------------------------------------------------------------------------
(* The reads of one trip.  The guards of the last two are their 404 and 409. *)

GetTripDetailsFinds(caller, id) == isTripVisibleToCaller(GetByID(id), caller)

RSVPsAvailable(caller, id) ==
  isTripVisibleToCaller(GetByID(id), caller) /\ GetByID(id).status # "DRAFT"

tripRSVPSummary(id) ==
  [capacity            |-> GetByID(id).capacity,
   attendingMembers    |-> {m \in Members : rsvps[id][m] = "YES"},
   notAttendingMembers |-> {m \in Members : rsvps[id][m] = "NO"}]

-----------------------------------------------------------------------------
(* Properties *)

\* A member finds a trip in one of the lists exactly when its details are not
\* answered 404, in whatever state overlapping requests leave the records.
ListsMatchAccess ==
  \A caller \in Members, id \in Existing :
    id \in DOMAIN ListPublishedAndCanceled \cup DOMAIN ListDraftsVisibleTo(caller)
      <=> GetTripDetailsFinds(caller, id)

\* Between requests a member who reads a trip in several ways is told the same:
\* the entry in the list is the head of the details, and on a published trip
\* the attendance shown is the number of members that the summary names.
ReadsAgree ==
  (\A w \in Workers : ~At(w, "upsert")) =>
    \A caller \in Members, id \in Existing : RSVPsAvailable(caller, id) =>
      LET entry   == ListPublishedAndCanceled[id]
          summary == tripRSVPSummary(id)
      IN  /\ entry = toDomainSummary(GetByID(id))
          /\ entry.capacity = summary.capacity
          /\ entry.status = "PUBLISHED" =>
               entry.attending = Cardinality(summary.attendingMembers)

=============================================================================
