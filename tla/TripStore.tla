------------------------------ MODULE TripStore ------------------------------
(***************************************************************************)
(* What the trip and RSVP repositories accept and what they then hold, for *)
(* the two backends that the server can be started with.                   *)
(*                                                                         *)
(* Each operator describes ONE atomic repository call.  In memory that is  *)
(* the critical section of the repository's mutex.  In Postgres it is one  *)
(* transaction: Save updates the trip's row first, which locks it until    *)
(* the commit, and the trigger on trip_rsvps takes the same lock with      *)
(* SELECT ... FOR UPDATE, so the two never overlap for one trip.           *)
(***************************************************************************)
EXTENDS TripDomain

CONSTANT Backend  \* "memory" or "postgres"

ASSUME BackendAssumption == Backend \in {"memory", "postgres"}

Memory == Backend = "memory"
Postgres == Backend = "postgres"

-----------------------------------------------------------------------------
(* Save: the whole record replaces the stored one *)

draftVisibilityForDB(t) ==
  IF t.status # "DRAFT" THEN "NONE"
  ELSE IF t.visibility = "NONE" THEN "PRIVATE" ELSE t.visibility

\* Postgres has no column for the attending-rigs count.
Stored(t) ==
  IF Memory THEN t
  ELSE [t EXCEPT !.attending = Unset, !.visibility = draftVisibilityForDB(t)]

\* Mutant: the trigger does not protect a cancelled trip.
TransitionUncancels(cur, t) ==
  cur.status # "PUBLISHED" /\ t.status = "PUBLISHED"
    => /\ cur.visibility = "PUBLIC"
       /\ t.missing = {}
       /\ t.capacity >= 1
       /\ cur.organizers # {}

\* trips_enforce_transitions, the part on the status.
TransitionAllowed(cur, t) ==
  /\ cur.status = "CANCELED" => t.status = "CANCELED"
  /\ cur.status # "PUBLISHED" /\ t.status = "PUBLISHED"
       => /\ cur.status = "DRAFT"
          /\ cur.visibility = "PUBLIC"
          /\ t.missing = {}
          /\ t.capacity >= 1
          /\ cur.organizers # {}

\* trips_enforce_transitions, the part on the capacity; "going" is the set of
\* members whose RSVP is YES when the trigger counts them.
CapacityAllowed(cur, t, going) ==
  cur.status = "PUBLISHED" /\ t.capacity \notin {NoCapacity, cur.capacity}
    => t.capacity >= Cardinality(going)

\* Mutant: syncOrganizers inserts the new organizers before it deletes the old.
OrganizersInsertedFirst(cur, t) == t.organizers # {}

\* syncOrganizers deletes one by one the organizers that are no longer wanted
\* and then inserts the new ones; prevent_removing_last_organizer refuses a
\* delete that would leave none.
OrganizersAllowed(cur, t) ==
  \/ cur.organizers \subseteq t.organizers
  \/ cur.organizers \cap t.organizers # {}

\* The CHECK trips_draft_visibility_consistency on the row that is written.
VisibilityConsistent(row) == row.status = "DRAFT" <=> row.visibility # "NONE"

SaveAccepted(cur, t, going) ==
  Postgres => /\ t.creator = cur.creator
              /\ TransitionAllowed(cur, t)
              /\ CapacityAllowed(cur, t, going)
              /\ OrganizersAllowed(cur, t)
              /\ VisibilityConsistent(Stored(t))

-----------------------------------------------------------------------------
(* Upsert of an RSVP *)

\* Mutant: the last place is given away twice.
UpsertAcceptedOneMore(cur, going, response) ==
  Postgres => /\ cur.status = "PUBLISHED"
              /\ cur.capacity >= 1
              /\ response = "YES" => Cardinality(going) <= cur.capacity

\* enforce_rsvp_rules.  The trigger first fires for the INSERT half of the
\* upsert, where the member's own YES is still among those it counts.
UpsertAccepted(cur, going, response) ==
  Postgres => /\ cur.status = "PUBLISHED"
              /\ cur.capacity >= 1
              /\ response = "YES" => Cardinality(going) < cur.capacity

=============================================================================
