-------------------------- MODULE TripSerialProofs --------------------------
(***************************************************************************)
(* The trips service when requests are served one after the other, on      *)
(* either backend: then the copy a handler works on is the stored record,  *)
(* the attendance it carries is the number of members going, and every     *)
(* step is a step of the ledger.  On Postgres a request may still be       *)
(* abandoned between any two of its calls.                                 *)
(*                                                                         *)
(* And what the reads answer: the access rules, which are the same in      *)
(* every state, and the attendance, which is the same between requests.    *)
(***************************************************************************)
EXTENDS TripReads, TripSafetyProofs

\* There is one worker, so a request ends before the next one starts.
OneAtATime == \A v, w \in Workers : v = w

-----------------------------------------------------------------------------
(* The inductive invariant *)

\* The attendance once the RSVP that the job j is writing is in.
After(j) == NewAttendance(Cardinality(Going(j.id)), Delta(j.existing, j.response))

\* A job's copy is the stored record, as far as the ledger sees it; from the
\* count on, the job still has the right idea of the caller's RSVP; and the
\* capacity that it checked still has room for it.
CopyFresh(j) ==
  /\ j.trip.status = trips[j.id].status
  /\ j.trip.capacity = trips[j.id].capacity
  /\ j.pc \in {"loaded", "count"} /\ j.trip.status = "PUBLISHED"
       => j.trip.attending = Cardinality(Going(j.id))
  /\ j.pc \in {"count", "save", "upsert"}
       => /\ j.caller \in Members
          /\ j.existing = rsvps[j.id][j.caller]
          /\ j.trip.status = "PUBLISHED"
          /\ j.trip.capacity >= 1
  /\ j.pc \in {"save", "upsert"}
       => /\ j.trip.attending = After(j)
          /\ j.response = "YES" => After(j) <= j.trip.capacity
  /\ j.pc = "upsert" /\ Memory => trips[j.id].attending = After(j)

CopiesFresh == \A w \in Workers : job[w] # Idle => CopyFresh(job[w])

NoRSVPYet(id) == \A m \in Members : rsvps[id][m] = "NONE"

\* In memory the attendance of a published trip is a field of its record, which
\* SetMyRSVP writes just before the RSVP.
AttendanceStored ==
  \A id \in TripIDs :
    /\ Memory
    /\ HasStatus(id, "PUBLISHED")
    /\ \A w \in Workers : At(w, "upsert") => job[w].id # id
    => trips[id].attending = Cardinality(Going(id))

SerialInv ==
  /\ \A id \in TripIDs : ~Exists(id) => NoRSVPYet(id)
  /\ DraftsHaveNoRSVP
  /\ NeverOverbooked
  /\ AttendanceStored
  /\ CopiesFresh

LEMMA SerialInit == Init => SerialInv
<1> SUFFICES ASSUME Init
             PROVE  SerialInv
  OBVIOUS
<1>1. \A id \in TripIDs : ~Exists(id) /\ NoRSVPYet(id)
  BY DEF Init, Exists, NoRSVPYet
<1>2. \A w \in Workers : job[w] = Idle
  BY DEF Init
<1> QED
  BY <1>1, <1>2
     DEF SerialInv, DraftsHaveNoRSVP, NeverOverbooked, AttendanceStored, CopiesFresh, HasStatus

-----------------------------------------------------------------------------
(* What one write does *)

\* How a save may change the record of a trip with n members going: it keeps the
\* status and leaves the capacity alone unless there is room, or it publishes a
\* draft or cancels a trip as it is.
SerialChange(cur, t, n) ==
  \/ /\ t.status = cur.status
     /\ \/ t.capacity = cur.capacity
        \/ cur.status = "DRAFT"
        \/ cur.status = "PUBLISHED" /\ (t.capacity = NoCapacity \/ t.capacity >= n)
  \/ /\ t.status = "PUBLISHED" /\ cur.status = "DRAFT"
     /\ t.capacity = cur.capacity /\ t.capacity >= 1
  \/ /\ t.status = "CANCELED" /\ cur.status # "CANCELED"
     /\ t.capacity = cur.capacity

LEMMA StoredLedger ==
  ASSUME NEW t \in Trip
  PROVE  /\ Stored(t) \in Trip
         /\ Stored(t) # NoTrip
         /\ Stored(t).status = t.status
         /\ Stored(t).capacity = t.capacity
         /\ Memory => Stored(t).attending = t.attending
BY StoredType, ServiceAssumption DEF Stored, Trip

\* Everyone's RSVP but one is untouched by an upsert, and the number of members
\* going changes by what the handler computed.
LEMMA UpsertCounts ==
  ASSUME TypeInv, NEW id \in TripIDs, NEW m \in Members, NEW r \in RSVPs,
         rsvps' = [rsvps EXCEPT ![id][m] = r]
  PROVE  /\ Going(id)' = IF r = "YES" THEN Going(id) \cup {m} ELSE Going(id) \ {m}
         /\ \A i \in TripIDs \ {id} : Going(i)' = Going(i)
         /\ \A i \in TripIDs \ {id} : rsvps'[i] = rsvps[i]
         /\ Cardinality(Going(id)') = NewAttendance(Cardinality(Going(id)), Delta(rsvps[id][m], r))
<1>1. /\ \A i \in TripIDs \ {id} : rsvps'[i] = rsvps[i]
      /\ rsvps'[id] = [rsvps[id] EXCEPT ![m] = r]
      /\ rsvps[id] \in [Members -> RSVPs]
  BY DEF TypeInv, TypeOK
<1>2. Going(id)' = IF r = "YES" THEN Going(id) \cup {m} ELSE Going(id) \ {m}
  BY <1>1 DEF Going
<1>3. \A i \in TripIDs \ {id} : Going(i)' = Going(i)
  BY <1>1 DEF Going
<1>4. IsFiniteSet(Going(id)) /\ Cardinality(Going(id)) \in Nat
  BY GoingFinite
<1>5. m \in Going(id) <=> rsvps[id][m] = "YES"
  BY DEF Going
<1>6. CASE r = "YES"
  <2>1. Cardinality(Going(id) \cup {m})
          = IF m \in Going(id) THEN Cardinality(Going(id)) ELSE Cardinality(Going(id)) + 1
    BY <1>4, FS_AddElement
  <2> QED
    BY <1>1, <1>2, <1>3, <1>4, <1>5, <1>6, <2>1 DEF NewAttendance, Delta
<1>7. CASE r # "YES"
  <2>1. Cardinality(Going(id) \ {m})
          = IF m \in Going(id) THEN Cardinality(Going(id)) - 1 ELSE Cardinality(Going(id))
    BY <1>4, FS_RemoveElement
  <2>2. Cardinality(Going(id)') \in Nat
    <3>1. IsFiniteSet(Going(id) \ {m})
      BY <1>4, FS_RemoveElement
    <3> QED
      BY <1>2, <1>7, <3>1, FS_CardinalityType
  <2> QED
    BY <1>1, <1>2, <1>3, <1>4, <1>5, <1>7, <2>1, <2>2 DEF NewAttendance, Delta
<1> QED
  BY <1>6, <1>7

\* The one write of a handler that has just loaded its copy.
LEMMA HandlerSaves ==
  ASSUME TypeInv, RecordInv, SerialInv, NEW w \in Workers,
         \/ UpdateTrip(w) \/ SetTripDraftVisibility(w) \/ AddTripOrganizer(w)
         \/ RemoveTripOrganizer(w) \/ CancelTrip(w) \/ PublishTrip(w)
  PROVE  \E t \in Trip :
           /\ At(w, "loaded")
           /\ SaveAndFinish(w, t)
           /\ SerialChange(trips[job[w].id], t, Cardinality(Going(job[w].id)))
           /\ Memory /\ t.status = "PUBLISHED" => t.attending = Cardinality(Going(job[w].id))
<1>1. PICK id : id = job[w].id
  OBVIOUS
<1>2. PICK t : t = job[w].trip
  OBVIOUS
<1>3. PICK n : n = Cardinality(Going(id))
  OBVIOUS
<1>4. At(w, "loaded")
  BY DEF UpdateTrip, SetTripDraftVisibility, AddTripOrganizer, RemoveTripOrganizer,
         CancelTrip, PublishTrip
<1>5. /\ id \in TripIDs /\ trips[id] \in Trip /\ t \in Trip /\ Exists(id)
      /\ Memory => Whole(t)
      /\ CopyFresh(job[w])
  BY <1>1, <1>2, <1>4, AtJob, LoadedCopy, ServiceAssumption
     DEF TypeInv, JobsHaveTrips, At, Exists, SerialInv, CopiesFresh, Sound
<1>6. /\ t.status = trips[id].status
      /\ t.capacity = trips[id].capacity
      /\ t.status = "PUBLISHED" => t.attending = n
      /\ t.status = "DRAFT" => n = 0
  <2>1. t.status = "DRAFT" => Going(id) = {}
    BY <1>1, <1>2, <1>5 DEF CopyFresh, SerialInv, DraftsHaveNoRSVP, HasStatus, Going
  <2> QED
    BY <1>1, <1>2, <1>3, <1>4, <1>5, <2>1, FS_EmptySet DEF CopyFresh, At
<1>7. n \in Nat
  BY <1>3, <1>5, GoingFinite
<1>8. SUFFICES \E u \in Trip : /\ SaveAndFinish(w, u)
                               /\ SerialChange(trips[id], u, n)
                               /\ Memory /\ u.status = "PUBLISHED" => u.attending = n
  BY <1>1, <1>3, <1>4
<1>9. CASE UpdateTrip(w)
  <2>1. PICK patch \in Patches : PatchAccepted(t, patch) /\ SaveAndFinish(w, Patched(t, patch))
    BY <1>2, <1>9 DEF UpdateTrip
  <2>2. /\ Patched(t, patch) \in Trip
        /\ Patched(t, patch).status = t.status
        /\ Patched(t, patch).attending = t.attending
        /\ Patched(t, patch).capacity = IF patch.capacity = Keep THEN t.capacity ELSE patch.capacity
    BY <1>5, PatchedType DEF Patched, Trip
  <2>3. patch.capacity \in Keep..MaxCapacity
    BY ServiceAssumption DEF Patch
  <2>4. t.status = "PUBLISHED" /\ patch.capacity >= 1 => patch.capacity >= n
    BY <1>6, <1>7, <2>1 DEF PatchAccepted, AttendingOrZero, Unset
  <2>5. t.status \in Statuses
    BY <1>5 DEF Trip
  <2>6. SerialChange(trips[id], Patched(t, patch), n)
    <3>1. t.status # "CANCELED"
      BY <1>2, <1>9 DEF UpdateTrip, MayUpdate, isDraftVisibleToCaller
    <3> QED
      BY <1>6, <1>7, <2>2, <2>3, <2>4, <2>5, <3>1, MaxCapacityAssumption
         DEF SerialChange, Statuses, Keep, NoCapacity
  <2> QED
    BY <1>6, <2>1, <2>2, <2>6
<1>10. CASE SetTripDraftVisibility(w)
  <2>1. PICK dv \in {"PRIVATE", "PUBLIC"} : SaveAndFinish(w, [t EXCEPT !.visibility = dv])
    BY <1>2, <1>10 DEF SetTripDraftVisibility
  <2>2. PICK u : u = [t EXCEPT !.visibility = dv]
    OBVIOUS
  <2>3. /\ u \in Trip /\ u.status = t.status /\ u.capacity = t.capacity
        /\ u.attending = t.attending
    BY <1>5, <2>2 DEF Trip, Visibilities
  <2> QED
    BY <1>6, <2>1, <2>2, <2>3 DEF SerialChange
<1>11. CASE AddTripOrganizer(w) \/ RemoveTripOrganizer(w)
  <2>1. PICK m \in Members :
          \/ SaveAndFinish(w, [t EXCEPT !.organizers = @ \cup {m}])
          \/ SaveAndFinish(w, [t EXCEPT !.organizers = @ \ {m}])
    BY <1>2, <1>11 DEF AddTripOrganizer, RemoveTripOrganizer
  <2>2. PICK u : /\ u = [t EXCEPT !.organizers = @ \cup {m}] \/ u = [t EXCEPT !.organizers = @ \ {m}]
                 /\ SaveAndFinish(w, u)
    BY <2>1
  <2>3. /\ u \in Trip /\ u.status = t.status /\ u.capacity = t.capacity
        /\ u.attending = t.attending
    BY <1>5, <2>2 DEF Trip
  <2> QED
    BY <1>6, <2>2, <2>3 DEF SerialChange
<1>12. CASE CancelTrip(w)
  <2>1. PICK u : u = [t EXCEPT !.status = "CANCELED"]
    OBVIOUS
  <2>2. SaveAndFinish(w, u) /\ t.status # "CANCELED"
    BY <1>2, <1>12, <2>1 DEF CancelTrip
  <2>3. u \in Trip /\ u.status = "CANCELED" /\ u.capacity = t.capacity
    BY <1>5, <2>1 DEF Trip, Statuses
  <2> QED
    BY <1>6, <2>2, <2>3 DEF SerialChange
<1>13. CASE PublishTrip(w)
  <2>1. SaveAndFinish(w, Published(t)) /\ t.status = "DRAFT" /\ ~(t.capacity < 1)
    BY <1>2, <1>13 DEF PublishTrip, MayPublish, requiredPublishFieldsMissing
  <2>2. /\ Published(t) \in Trip
        /\ Published(t).status = "PUBLISHED"
        /\ Published(t).capacity = t.capacity
        /\ Published(t).attending = AttendingOrZero(t)
    BY <1>5, PublishedType DEF Published, Trip
  <2>3. Memory => AttendingOrZero(t) = n
    BY <1>5, <1>6, <2>1 DEF AttendingOrZero, Whole
  <2>4. t.capacity \in 0..MaxCapacity
    BY <1>5 DEF Trip
  <2>5. SerialChange(trips[id], Published(t), n)
    BY <1>6, <2>1, <2>2, <2>4, MaxCapacityAssumption DEF SerialChange
  <2> QED
    BY <2>1, <2>2, <2>3, <2>5
<1> QED
  BY <1>9, <1>10, <1>11, <1>12, <1>13

-----------------------------------------------------------------------------
(* The invariant is inductive when requests are served one by one *)

\* A step that changes no repository, by a job that goes on with a fresh copy
\* or ends with no RSVP left to write.
LEMMA LocalKeepsSerialInv ==
  ASSUME TypeInv, SerialInv, OneAtATime, NEW w \in Workers, NEW j,
         job' = [job EXCEPT ![w] = j], UNCHANGED <<trips, rsvps>>,
         j # Idle => CopyFresh(j),
         At(w, "upsert") => Postgres
  PROVE  SerialInv'
<1>1. \A v \in Workers : v = w /\ job'[v] = j
  BY DEF OneAtATime, TypeInv, TypeOK
<1>2. \A id \in TripIDs : Going(id)' = Going(id) /\ Exists(id)' = Exists(id)
  BY DEF Going, Exists
<1>3. CopiesFresh'
  <2>1. j # Idle => CopyFresh(j)'
    BY <1>2 DEF CopyFresh, After, Going
  <2> QED
    BY <1>1, <2>1 DEF CopiesFresh, CopyFresh, After
<1>4. AttendanceStored'
  <2>1. SUFFICES ASSUME Memory, NEW id \in TripIDs, HasStatus(id, "PUBLISHED")
                 PROVE  trips[id].attending = Cardinality(Going(id))
    BY <1>2 DEF AttendanceStored, HasStatus, Exists, Memory
  <2>2. ~At(w, "upsert")
    BY <2>1 DEF Memory, Postgres
  <2>3. \A v \in Workers : ~At(v, "upsert")
    BY <1>1, <2>2
  <2> QED
    BY <2>1, <2>3 DEF SerialInv, AttendanceStored
<1> QED
  BY <1>2, <1>3, <1>4
     DEF SerialInv, NoRSVPYet, DraftsHaveNoRSVP, NeverOverbooked, HasStatus, Exists

\* A save that changes a record as a ledger may, by a job that goes on with a
\* fresh copy or ends, and that leaves the attendance right in memory unless an
\* RSVP still has to be written.
LEMMA SaveKeepsSerialInv ==
  ASSUME TypeInv, SerialInv, OneAtATime, NEW w \in Workers, NEW id, NEW t \in Trip, NEW j,
         id = job[w].id, job[w] # Idle, ~At(w, "upsert"),
         Save(w, t), UNCHANGED rsvps,
         job' = [job EXCEPT ![w] = j],
         SerialChange(trips[id], t, Cardinality(Going(id))),
         \/ Memory /\ t.status = "PUBLISHED" => t.attending = Cardinality(Going(id))
         \/ j # Idle /\ j.pc = "upsert" /\ j.id = id,
         j # Idle => CopyFresh(j)'
  PROVE  SerialInv'
<1>1. \A v \in Workers : v = w /\ job'[v] = j
  BY DEF OneAtATime, TypeInv, TypeOK
<1>2. /\ id \in TripIDs /\ trips[id] \in Trip /\ Exists(id)
      /\ Cardinality(Going(id)) \in Nat
  BY GoingFinite, ServiceAssumption DEF TypeInv, TypeOK, JobsHaveTrips, Job, Exists
<1>3. \A i \in TripIDs : Going(i)' = Going(i)
  BY DEF Going
<1>4. CopiesFresh'
  BY <1>1 DEF CopiesFresh, CopyFresh, After
<1>5. CASE trips' = [trips EXCEPT ![id] = Stored(t)]
  <2>1. /\ trips'[id] = Stored(t)
        /\ \A i \in TripIDs \ {id} : trips'[i] = trips[i]
    BY <1>2, <1>5 DEF TypeInv, TypeOK
  <2>2. /\ Exists(id)' /\ trips'[id].status = t.status /\ trips'[id].capacity = t.capacity
        /\ Memory => trips'[id].attending = t.attending
    BY <2>1, StoredLedger DEF Exists
  <2>3. t.status = "DRAFT" => trips[id].status = "DRAFT"
    BY DEF SerialChange
  <2>4. trips[id].status = "DRAFT" => NoRSVPYet(id) /\ Cardinality(Going(id)) = 0
    <3>1. trips[id].status = "DRAFT" => NoRSVPYet(id)
      BY <1>2 DEF SerialInv, DraftsHaveNoRSVP, HasStatus, NoRSVPYet
    <3>2. NoRSVPYet(id) => Going(id) = {}
      BY DEF NoRSVPYet, Going
    <3> QED
      BY <3>1, <3>2, FS_EmptySet
  <2>5. t.status = "PUBLISHED" /\ t.capacity # NoCapacity => Cardinality(Going(id)) <= t.capacity
    BY <1>2, <2>4 DEF SerialChange, SerialInv, NeverOverbooked, HasStatus, NoCapacity, Trip
  <2>6. \A i \in TripIDs : ~Exists(i)' => NoRSVPYet(i)'
    BY <2>1, <2>2 DEF SerialInv, Exists, NoRSVPYet
  <2>7. DraftsHaveNoRSVP'
    BY <2>1, <2>2, <2>3, <2>4 DEF SerialInv, DraftsHaveNoRSVP, HasStatus, Exists, NoRSVPYet
  <2>8. NeverOverbooked'
    <3>1. ASSUME NEW i \in TripIDs, HasStatus(i, "PUBLISHED")', trips'[i].capacity # NoCapacity
          PROVE  Cardinality(Going(i)') <= trips'[i].capacity
      BY <1>3, <2>1, <2>2, <2>5, <3>1 DEF SerialInv, NeverOverbooked, HasStatus, Exists
    <3> QED
      BY <3>1 DEF NeverOverbooked
  <2>9. AttendanceStored'
    <3>1. ASSUME Memory, NEW i \in TripIDs, HasStatus(i, "PUBLISHED")',
                 \A v \in Workers : At(v, "upsert")' => job'[v].id # i
          PROVE  trips'[i].attending = Cardinality(Going(i)')
      <4>1. CASE i = id
        <5>1. ~(j # Idle /\ j.pc = "upsert" /\ j.id = id)
          BY <1>1, <3>1, <4>1 DEF At
        <5>2. t.status = "PUBLISHED"
          BY <2>2, <3>1, <4>1 DEF HasStatus
        <5> QED
          BY <1>3, <2>2, <3>1, <4>1, <5>1, <5>2
      <4>2. CASE i # id
        <5>1. \A v \in Workers : ~At(v, "upsert")
          BY <1>1
        <5> QED
          BY <1>3, <2>1, <3>1, <4>2, <5>1 DEF SerialInv, AttendanceStored, HasStatus, Exists
      <4> QED
        BY <4>1, <4>2
    <3> QED
      BY <3>1 DEF AttendanceStored, Memory
  <2> QED
    BY <1>4, <2>6, <2>7, <2>8, <2>9 DEF SerialInv
<1>6. CASE UNCHANGED trips /\ Postgres
  <2>1. \A i \in TripIDs : Exists(i)' = Exists(i)
    BY <1>6 DEF Exists
  <2>2. AttendanceStored'
    BY <1>6 DEF AttendanceStored, Memory, Postgres
  <2> QED
    BY <1>3, <1>4, <1>6, <2>1, <2>2
       DEF SerialInv, NoRSVPYet, DraftsHaveNoRSVP, NeverOverbooked, HasStatus, Exists
<1> QED
  BY <1>5, <1>6 DEF Save, SaveAccepted

\* The last step of SetMyRSVP brings the RSVPs to the attendance already stored.
LEMMA UpsertKeepsSerialInv ==
  ASSUME TypeInv, SerialInv, OneAtATime, NEW w \in Workers, UpsertRSVP(w)
  PROVE  SerialInv'
<1>1. PICK id, m, r : id = job[w].id /\ m = job[w].caller /\ r = job[w].response
  OBVIOUS
<1>2. /\ id \in TripIDs /\ trips[id] \in Trip /\ Exists(id) /\ r \in RSVPs
      /\ job[w] # Idle /\ job[w].pc = "upsert"
  BY <1>1, AtJob, ServiceAssumption DEF UpsertRSVP, TypeInv, JobsHaveTrips, At, Exists, Job
<1>3. /\ m \in Members /\ job[w].existing = rsvps[id][m]
      /\ job[w].trip.status = "PUBLISHED" /\ trips[id].status = "PUBLISHED"
      /\ trips[id].capacity = job[w].trip.capacity
      /\ r = "YES" => After(job[w]) <= trips[id].capacity
      /\ Memory => trips[id].attending = After(job[w])
  BY <1>1, <1>2 DEF SerialInv, CopiesFresh, CopyFresh
<1>4. After(job[w]) = NewAttendance(Cardinality(Going(id)), Delta(rsvps[id][m], r))
  BY <1>1, <1>3 DEF After
<1>5. \A v \in Workers : v = w /\ job'[v] = Idle
  BY DEF UpsertRSVP, Finish, OneAtATime, TypeInv, TypeOK
<1>6. UNCHANGED trips
  BY DEF UpsertRSVP
<1>7. CASE rsvps' = [rsvps EXCEPT ![id][m] = r]
  <2>1. /\ \A i \in TripIDs \ {id} : Going(i)' = Going(i) /\ rsvps'[i] = rsvps[i]
        /\ Cardinality(Going(id)') = After(job[w])
        /\ Going(id)' = IF r = "YES" THEN Going(id) \cup {m} ELSE Going(id) \ {m}
    BY <1>2, <1>3, <1>4, <1>7, UpsertCounts
  <2>2. trips[id].capacity # NoCapacity => Cardinality(Going(id)') <= trips[id].capacity
    <3>1. CASE r = "YES"
      BY <1>3, <2>1, <3>1
    <3>2. CASE r # "YES"
      <4>1. IsFiniteSet(Going(id)) /\ Going(id)' \subseteq Going(id)
        BY <1>2, <2>1, <3>2, GoingFinite
      <4>2. Cardinality(Going(id)') <= Cardinality(Going(id)) /\ Cardinality(Going(id)') \in Nat
        BY <4>1, FS_Subset, FS_CardinalityType
      <4>3. Cardinality(Going(id)) \in Nat /\ trips[id].capacity \in Nat
        BY <1>2, GoingFinite, MaxCapacityAssumption DEF Trip
      <4> QED
        BY <1>2, <1>3, <4>2, <4>3 DEF SerialInv, NeverOverbooked, HasStatus
    <3> QED
      BY <3>1, <3>2
  <2>3. \A i \in TripIDs : ~Exists(i)' => NoRSVPYet(i)'
    BY <1>2, <1>6, <2>1 DEF SerialInv, Exists, NoRSVPYet
  <2>4. DraftsHaveNoRSVP'
    BY <1>3, <1>6, <2>1 DEF SerialInv, DraftsHaveNoRSVP, HasStatus, Exists
  <2>5. NeverOverbooked'
    <3>1. ASSUME NEW i \in TripIDs, HasStatus(i, "PUBLISHED"), trips[i].capacity # NoCapacity
          PROVE  Cardinality(Going(i)') <= trips[i].capacity
      BY <2>1, <2>2, <3>1 DEF SerialInv, NeverOverbooked
    <3> QED
      BY <1>6, <3>1 DEF NeverOverbooked, HasStatus, Exists
  <2>6. AttendanceStored'
    <3>1. ASSUME Memory, NEW i \in TripIDs, HasStatus(i, "PUBLISHED")
          PROVE  trips[i].attending = Cardinality(Going(i)')
      <4>1. CASE i = id
        BY <1>3, <2>1, <3>1, <4>1
      <4>2. CASE i # id
        <5>1. \A v \in Workers : At(v, "upsert") => job[v].id # i
          BY <1>1, <1>5, <4>2
        <5> QED
          BY <2>1, <3>1, <4>2, <5>1 DEF SerialInv, AttendanceStored
      <4> QED
        BY <4>1, <4>2
    <3> QED
      BY <1>6, <3>1 DEF AttendanceStored, HasStatus, Exists, Memory
  <2> QED
    BY <1>5, <2>3, <2>4, <2>5, <2>6 DEF SerialInv, CopiesFresh
<1>8. CASE UNCHANGED rsvps /\ Postgres
  <2>1. job' = [job EXCEPT ![w] = Idle]
    BY DEF UpsertRSVP, Finish
  <2> QED
    BY <1>6, <1>8, <2>1, LocalKeepsSerialInv
<1> QED
  BY <1>1, <1>7, <1>8 DEF UpsertRSVP, UpsertAccepted

LEMMA CreateKeepsSerialInv ==
  ASSUME TypeInv, SerialInv, NEW c \in Members, NEW id \in TripIDs, CreateTripDraft(c, id)
  PROVE  SerialInv'
<1>1. PICK t : t = Stored(NewDraft(c))
  OBVIOUS
<1>2. t # NoTrip /\ t.status = "DRAFT"
  BY <1>1, NewDraftType, StoredLedger DEF NewDraft
<1>3. /\ trips'[id] = t /\ \A i \in TripIDs \ {id} : trips'[i] = trips[i]
      /\ UNCHANGED <<rsvps, job>>
      /\ ~Exists(id) /\ NoRSVPYet(id)
  BY <1>1 DEF CreateTripDraft, TypeInv, TypeOK, SerialInv, Exists
<1>4. \A i \in TripIDs : Going(i)' = Going(i)
  BY <1>3 DEF Going
<1>5. \A i \in TripIDs : ~Exists(i)' => NoRSVPYet(i)'
  BY <1>2, <1>3 DEF SerialInv, Exists, NoRSVPYet
<1>6. DraftsHaveNoRSVP'
  BY <1>3 DEF SerialInv, DraftsHaveNoRSVP, HasStatus, Exists, NoRSVPYet
<1>7. NeverOverbooked'
  <2>1. ASSUME NEW i \in TripIDs, HasStatus(i, "PUBLISHED")', trips'[i].capacity # NoCapacity
        PROVE  Cardinality(Going(i)') <= trips'[i].capacity
    BY <1>2, <1>3, <1>4, <2>1 DEF SerialInv, NeverOverbooked, HasStatus, Exists
  <2> QED
    BY <2>1 DEF NeverOverbooked
<1>8. AttendanceStored'
  <2>1. ASSUME Memory, NEW i \in TripIDs, HasStatus(i, "PUBLISHED")',
               \A w \in Workers : At(w, "upsert")' => job'[w].id # i
        PROVE  trips'[i].attending = Cardinality(Going(i)')
    BY <1>2, <1>3, <1>4, <2>1 DEF SerialInv, AttendanceStored, HasStatus, Exists, At
  <2> QED
    BY <2>1 DEF AttendanceStored, Memory
<1>9. CopiesFresh'
  <2>1. ASSUME NEW w \in Workers, job[w] # Idle
        PROVE  CopyFresh(job[w])'
    <3>1. PICK j : j = job[w]
      OBVIOUS
    <3>2. j.id \in TripIDs /\ trips'[j.id] = trips[j.id]
      BY <1>3, <2>1, <3>1, ServiceAssumption DEF TypeInv, TypeOK, JobsHaveTrips, Job, Exists
    <3>3. CopyFresh(j)'
      BY <1>3, <1>4, <2>1, <3>1, <3>2 DEF SerialInv, CopiesFresh, CopyFresh, After, Memory
    <3> QED
      BY <1>3, <3>1, <3>3 DEF CopyFresh, After
  <2> QED
    BY <1>3, <2>1 DEF CopiesFresh
<1> QED
  BY <1>5, <1>6, <1>7, <1>8, <1>9 DEF SerialInv

\* One step per action, for the actions that are not covered above.
LEMMA SerialStep ==
  ASSUME TypeInv, RecordInv, SerialInv, OneAtATime, [Next]_vars
  PROVE  SerialInv'
<1>1. ASSUME NEW w \in Workers, NEW id \in TripIDs, LoadTrip(w, id)
      PROVE  SerialInv'
  <2>1. PICK j : j = Fetched("loaded", id, trips[id])
    OBVIOUS
  <2>2. /\ job' = [job EXCEPT ![w] = j] /\ UNCHANGED <<trips, rsvps>>
        /\ job[w] = Idle /\ Exists(id) /\ Memory
    BY <1>1, <2>1 DEF LoadTrip, Exists
  <2>3. \A v \in Workers : ~At(v, "upsert")
    BY <2>2 DEF OneAtATime, At
  <2>4. trips[id].status = "PUBLISHED" => trips[id].attending = Cardinality(Going(id))
    BY <2>2, <2>3 DEF SerialInv, AttendanceStored, HasStatus
  <2>5. CopyFresh(j)
    BY <2>1, <2>4 DEF CopyFresh, Fetched
  <2> QED
    BY <2>2, <2>3, <2>5, LocalKeepsSerialInv
<1>2. ASSUME NEW w \in Workers, NEW id \in TripIDs, LoadRow(w, id)
      PROVE  SerialInv'
  <2>1. PICK j : j = Fetched("organizers", id, [trips[id] EXCEPT !.organizers = {}])
    OBVIOUS
  <2>2. /\ job' = [job EXCEPT ![w] = j] /\ UNCHANGED <<trips, rsvps>>
        /\ job[w] = Idle /\ trips[id] \in Trip
    BY <1>2, <2>1 DEF LoadRow, TypeInv, TypeOK
  <2>3. CopyFresh(j)
    BY <2>1, <2>2 DEF CopyFresh, Fetched, Trip
  <2> QED
    BY <2>2, <2>3, LocalKeepsSerialInv DEF At
<1>3. ASSUME NEW w \in Workers, LoadOrganizers(w)
      PROVE  SerialInv'
  <2>1. /\ job[w] \in Job /\ job[w].trip \in Trip /\ job[w].pc = "organizers"
        /\ CopyFresh(job[w])
    BY <1>3, AtJob DEF LoadOrganizers, At, TypeInv, SerialInv, CopiesFresh
  <2>2. PICK o : o = trips[job[w].id].organizers
    OBVIOUS
  <2>3. PICK p : p = IF job[w].trip.status = "PUBLISHED" THEN "attendance" ELSE "loaded"
    OBVIOUS
  <2>4. PICK j : j = [job[w] EXCEPT !.trip.organizers = o, !.pc = p]
    OBVIOUS
  <2>5. job' = [job EXCEPT ![w] = j] /\ UNCHANGED <<trips, rsvps>>
    BY <1>3, <2>1, <2>2, <2>3, <2>4 DEF LoadOrganizers, TypeInv, TypeOK
  <2>6. /\ j.pc = p /\ j.id = job[w].id
        /\ j.trip.status = job[w].trip.status
        /\ j.trip.capacity = job[w].trip.capacity
    BY <2>1, <2>4 DEF Job, Trip
  <2>7. CopyFresh(j)
    BY <2>1, <2>3, <2>6 DEF CopyFresh
  <2> QED
    BY <2>1, <2>5, <2>7, LocalKeepsSerialInv DEF At
<1>4. ASSUME NEW w \in Workers, LoadAttendance(w)
      PROVE  SerialInv'
  <2>1. /\ job[w] \in Job /\ job[w].trip \in Trip /\ job[w].pc = "attendance"
        /\ CopyFresh(job[w])
    BY <1>4, AtJob DEF LoadAttendance, At, TypeInv, SerialInv, CopiesFresh
  <2>2. PICK n : n = Cardinality(Going(job[w].id))
    OBVIOUS
  <2>3. PICK j : j = [job[w] EXCEPT !.trip.attending = n, !.pc = "loaded"]
    OBVIOUS
  <2>4. job' = [job EXCEPT ![w] = j] /\ UNCHANGED <<trips, rsvps>>
    BY <1>4, <2>1, <2>2, <2>3 DEF LoadAttendance, TypeInv, TypeOK
  <2>5. /\ j.pc = "loaded" /\ j.id = job[w].id
        /\ j.trip.status = job[w].trip.status
        /\ j.trip.capacity = job[w].trip.capacity
        /\ j.trip.attending = n
    BY <2>1, <2>3 DEF Job, Trip
  <2>6. CopyFresh(j)
    BY <2>1, <2>2, <2>5 DEF CopyFresh
  <2> QED
    BY <2>1, <2>4, <2>6, LocalKeepsSerialInv DEF At
<1>5. ASSUME NEW w \in Workers,
             \/ UpdateTrip(w) \/ SetTripDraftVisibility(w) \/ AddTripOrganizer(w)
             \/ RemoveTripOrganizer(w) \/ CancelTrip(w) \/ PublishTrip(w)
      PROVE  SerialInv'
  <2>1. PICK id : id = job[w].id
    OBVIOUS
  <2>2. PICK t \in Trip :
          /\ At(w, "loaded")
          /\ SaveAndFinish(w, t)
          /\ SerialChange(trips[id], t, Cardinality(Going(id)))
          /\ Memory /\ t.status = "PUBLISHED" => t.attending = Cardinality(Going(id))
    BY <1>5, <2>1, HandlerSaves
  <2> QED
    BY <2>1, <2>2, SaveKeepsSerialInv DEF SaveAndFinish, Finish, At
<1>6. ASSUME NEW w \in Workers, Answer(w) \/ Abandon(w)
      PROVE  SerialInv'
  BY <1>6, LocalKeepsSerialInv DEF Answer, Abandon, Finish, At
<1>7. ASSUME NEW w \in Workers, SetMyRSVP(w)
      PROVE  SerialInv'
  <2>1. /\ job[w] \in Job /\ job[w].trip \in Trip /\ job[w].pc = "loaded"
        /\ CopyFresh(job[w])
    BY <1>7, AtJob DEF SetMyRSVP, At, TypeInv, SerialInv, CopiesFresh
  <2>2. PICK c \in Members, r \in Responses :
          /\ MayRSVP(job[w].trip, c)
          /\ job' = [job EXCEPT ![w].pc = "count",
                                ![w].caller = c,
                                ![w].existing = rsvps[job[w].id][c],
                                ![w].response = r]
    BY <1>7 DEF SetMyRSVP
  <2>3. PICK j : j = [job[w] EXCEPT !.pc = "count",
                                    !.caller = c,
                                    !.existing = rsvps[job[w].id][c],
                                    !.response = r]
    OBVIOUS
  <2>4. job' = [job EXCEPT ![w] = j] /\ UNCHANGED <<trips, rsvps>>
    BY <1>7, <2>1, <2>2, <2>3 DEF SetMyRSVP, TypeInv, TypeOK
  <2>5. /\ j.pc = "count" /\ j.id = job[w].id /\ j.trip = job[w].trip
        /\ j.caller = c /\ j.existing = rsvps[job[w].id][c]
    BY <2>1, <2>3 DEF Job
  <2>6. CopyFresh(j)
    BY <2>1, <2>2, <2>5 DEF CopyFresh, MayRSVP
  <2> QED
    BY <2>1, <2>4, <2>6, LocalKeepsSerialInv DEF At
<1>8. ASSUME NEW w \in Workers, CountYesByTrip(w)
      PROVE  SerialInv'
  <2>1. /\ job[w] \in Job /\ job[w].trip \in Trip /\ job[w].pc = "count"
        /\ CopyFresh(job[w])
    BY <1>8, AtJob DEF CountYesByTrip, At, TypeInv, SerialInv, CopiesFresh
  <2>2. PICK att : att = After(job[w])
    OBVIOUS
  <2>3. att \in Int /\ job[w].trip.capacity \in Int
    <3>1. Cardinality(Going(job[w].id)) \in Int
      BY <2>1, GoingFinite DEF Job
    <3>2. Delta(job[w].existing, job[w].response) \in Int
      BY DEF Delta
    <3> QED
      BY <2>1, <2>2, <3>1, <3>2, MaxCapacityAssumption DEF After, NewAttendance, Trip
  <2>4. PICK j : j = [job[w] EXCEPT !.pc = "save", !.trip.attending = att]
    OBVIOUS
  <2>5. /\ UNCHANGED <<trips, rsvps>>
        /\ \/ job' = [job EXCEPT ![w] = Idle]
           \/ /\ job' = [job EXCEPT ![w] = j]
              /\ ~(job[w].response = "YES" /\ att > job[w].trip.capacity)
    BY <1>8, <2>1, <2>2, <2>4 DEF CountYesByTrip, Finish, After, TypeInv, TypeOK
  <2>6. /\ j.pc = "save" /\ j.id = job[w].id /\ j.caller = job[w].caller
        /\ j.existing = job[w].existing /\ j.response = job[w].response
        /\ j.trip.status = job[w].trip.status
        /\ j.trip.capacity = job[w].trip.capacity
        /\ j.trip.attending = att
    BY <2>1, <2>4 DEF Job, Trip
  <2>7. After(j) = att
    BY <2>2, <2>6 DEF After
  <2>8. ~(job[w].response = "YES" /\ att > job[w].trip.capacity) => CopyFresh(j)
    BY <2>1, <2>3, <2>6, <2>7 DEF CopyFresh
  <2> QED
    BY <2>1, <2>5, <2>8, LocalKeepsSerialInv DEF At
<1>9. ASSUME NEW w \in Workers, SaveAttendance(w)
      PROVE  SerialInv'
  <2>1. PICK id, t : id = job[w].id /\ t = job[w].trip
    OBVIOUS
  <2>2. /\ job[w] \in Job /\ t \in Trip /\ id \in TripIDs /\ trips[id] \in Trip
        /\ job[w].pc = "save" /\ CopyFresh(job[w]) /\ At(w, "save") /\ job[w] # Idle
        /\ Save(w, t) /\ UNCHANGED rsvps
    BY <1>9, <2>1, AtJob
       DEF SaveAttendance, At, TypeInv, JobsHaveTrips, SerialInv, CopiesFresh
  <2>3. SerialChange(trips[id], t, Cardinality(Going(id))) /\ t.status = "PUBLISHED"
    BY <2>1, <2>2 DEF SerialChange, CopyFresh
  <2>4. PICK j : j = [job[w] EXCEPT !.pc = "upsert"]
    OBVIOUS
  <2>5. /\ j.pc = "upsert" /\ j.id = id /\ j.trip = t /\ j.caller = job[w].caller
        /\ j.existing = job[w].existing /\ j.response = job[w].response /\ j # Idle
    BY <2>1, <2>2, <2>4, IdleAssumption DEF Job
  <2>6. After(j) = After(job[w]) /\ After(j)' = After(j)
    BY <2>1, <2>2, <2>5 DEF After, Going
  <2>7. CASE SaveAccepted(trips[id], t, Going(id))
    <3>1. trips' = [trips EXCEPT ![id] = Stored(t)] /\ job' = [job EXCEPT ![w] = j]
      BY <1>9, <2>1, <2>2, <2>4, <2>7 DEF SaveAttendance, Save, TypeInv, TypeOK
    <3>2. trips'[id] = Stored(t)
      BY <2>2, <3>1 DEF TypeInv, TypeOK
    <3>3. CopyFresh(j)'
      BY <2>1, <2>2, <2>5, <2>6, <3>2, StoredLedger DEF CopyFresh, Memory
    <3> QED
      BY <2>1, <2>2, <2>3, <2>5, <3>1, <3>3, SaveKeepsSerialInv DEF At
  <2>8. CASE ~SaveAccepted(trips[id], t, Going(id))
    <3>1. UNCHANGED trips /\ job' = [job EXCEPT ![w] = Idle]
      BY <1>9, <2>1, <2>2, <2>8 DEF SaveAttendance, Save, Finish
    <3> QED
      BY <2>2, <3>1, LocalKeepsSerialInv DEF At
  <2> QED
    BY <2>7, <2>8
<1>10. CASE UNCHANGED vars
  BY <1>10
     DEF vars, SerialInv, NoRSVPYet, DraftsHaveNoRSVP, NeverOverbooked, AttendanceStored,
         CopiesFresh, CopyFresh, After, HasStatus, Exists, Going, At, Memory
<1>11. CASE Next
  <2>1. ASSUME NEW w \in Workers, Step(w)
        PROVE  SerialInv'
    BY <2>1, <1>1, <1>2, <1>3, <1>4, <1>5, <1>6, <1>7, <1>8, <1>9, UpsertKeepsSerialInv
       DEF Step
  <2> QED
    BY <1>11, <2>1, CreateKeepsSerialInv DEF Next
<1> QED
  BY <1>10, <1>11

LEMMA SerialCorrect ==
  ASSUME OneAtATime
  PROVE  Spec => [](TypeInv /\ RecordInv /\ SerialInv)
<1>1. Init => TypeInv /\ RecordInv /\ SerialInv
  BY TypeInit, RecordInit, SerialInit
<1>2. TypeInv /\ RecordInv /\ SerialInv /\ [Next]_vars => (TypeInv /\ RecordInv /\ SerialInv)'
  BY TypeStep, RecordStep, SerialStep
<1> QED
  BY <1>1, <1>2, PTL DEF Spec

\* Served one by one, requests never overbook a trip: neither an RSVP nor a
\* smaller capacity, in memory or in Postgres, whoever abandons a request.
THEOREM SerialNeverOverbooked ==
  ASSUME OneAtATime
  PROVE  Spec => []NeverOverbooked
<1>1. SerialInv => NeverOverbooked
  BY DEF SerialInv
<1> QED
  BY <1>1, SerialCorrect, PTL

\* Served one by one, requests never leave an RSVP on a trip that is a draft.
THEOREM SerialDraftsHaveNoRSVP ==
  ASSUME OneAtATime
  PROVE  Spec => []DraftsHaveNoRSVP
<1>1. SerialInv => DraftsHaveNoRSVP
  BY DEF SerialInv
<1> QED
  BY <1>1, SerialCorrect, PTL

-----------------------------------------------------------------------------
(* The refinement: each step maps to a step of the ledger or to a stutter.  *)

LEMMA SaveIsSerialLedgerStep ==
  ASSUME TypeInv, NEW w \in Workers, NEW id, NEW t \in Trip,
         job[w] # Idle, id = job[w].id,
         Save(w, t), UNCHANGED rsvps,
         SerialChange(trips[id], t, Cardinality(Going(id)))
  PROVE  Ledger!Next \/ UNCHANGED Ledger!ledger
<1>1. id \in TripIDs /\ trips[id] \in Trip /\ trips[id] # NoTrip
  BY ServiceAssumption DEF TypeInv, TypeOK, JobsHaveTrips, Job
<1>2. LedgerGoing' = LedgerGoing /\ LedgerGoing[id] = Going(id)
  BY <1>1 DEF LedgerGoing, Going
<1>3. CASE UNCHANGED trips
  BY <1>2, <1>3 DEF Ledger!ledger, LedgerStatus, LedgerCapacity, Exists
<1>4. CASE trips' = [trips EXCEPT ![id] = Stored(t)]
  <2>1. /\ Stored(t) # NoTrip
        /\ Stored(t).status = t.status
        /\ Stored(t).capacity = t.capacity
    BY StoredLedger
  <2>2. trips'[id] = Stored(t) /\ \A i \in TripIDs \ {id} : trips'[i] = trips[i]
    BY <1>1, <1>4 DEF TypeInv, TypeOK
  <2>3. PICK cur : cur = trips[id]
    OBVIOUS
  <2>4. /\ LedgerStatus[id] = cur.status
        /\ LedgerStatus' = [LedgerStatus EXCEPT ![id] = t.status]
        /\ t.status = cur.status => LedgerStatus' = LedgerStatus
    BY <1>1, <2>1, <2>2, <2>3 DEF LedgerStatus, Exists
  <2>5. /\ LedgerCapacity[id] = cur.capacity
        /\ LedgerCapacity' = [LedgerCapacity EXCEPT ![id] = t.capacity]
        /\ t.capacity = cur.capacity => LedgerCapacity' = LedgerCapacity
    BY <1>1, <2>1, <2>2, <2>3 DEF LedgerCapacity, Exists
  <2>6. /\ t.capacity \in 0..MaxCapacity
        /\ cur.status \in Statuses
        /\ SerialChange(cur, t, Cardinality(Going(id)))
    BY <1>1, <2>3 DEF Trip
  <2>7. CASE t.status = cur.status
    <3>1. CASE t.capacity = cur.capacity
      BY <1>2, <2>4, <2>5, <2>7, <3>1 DEF Ledger!ledger
    <3>2. CASE t.capacity # cur.capacity
      <4>1. Ledger!SetCapacity(id, t.capacity)
        BY <1>2, <2>4, <2>5, <2>6, <2>7, <3>2, LedgerCardinality
           DEF Ledger!SetCapacity, Ledger!Roomy, SerialChange, NoCapacity
      <4> QED
        BY <1>1, <2>6, <4>1 DEF Ledger!Next
    <3> QED
      BY <3>1, <3>2
  <2>8. CASE t.status = "PUBLISHED" /\ cur.status = "DRAFT"
    <3>1. Ledger!Publish(id, LedgerCapacity[id])
      BY <1>2, <2>4, <2>5, <2>6, <2>8 DEF Ledger!Publish, SerialChange
    <3> QED
      BY <1>1, <3>1 DEF Ledger!Next
  <2>9. CASE t.status = "CANCELED" /\ cur.status # "CANCELED"
    <3>1. Ledger!Cancel(id, LedgerCapacity[id])
      BY <1>2, <2>4, <2>5, <2>6, <2>9 DEF Ledger!Cancel, Ledger!Roomy, SerialChange, Statuses
    <3> QED
      BY <1>1, <3>1 DEF Ledger!Next
  <2> QED
    BY <2>6, <2>7, <2>8, <2>9 DEF SerialChange
<1> QED
  BY <1>3, <1>4 DEF Save

\* A YES that was counted to fit joins; any other answer leaves, which is no
\* change for a member who was not going.
LEMMA UpsertIsSerialLedgerStep ==
  ASSUME TypeInv, SerialInv, NEW w \in Workers, UpsertRSVP(w)
  PROVE  Ledger!Next \/ UNCHANGED Ledger!ledger
<1>1. PICK id, m, r : id = job[w].id /\ m = job[w].caller /\ r = job[w].response
  OBVIOUS
<1>2. /\ id \in TripIDs /\ trips[id] \in Trip /\ Exists(id) /\ r \in RSVPs
      /\ job[w] # Idle /\ job[w].pc = "upsert"
  BY <1>1, AtJob, ServiceAssumption DEF UpsertRSVP, TypeInv, JobsHaveTrips, At, Exists, Job
<1>3. /\ m \in Members /\ trips[id].status = "PUBLISHED"
      /\ r = "YES" => NewAttendance(Cardinality(Going(id)), Delta(rsvps[id][m], r))
                        <= trips[id].capacity
  BY <1>1, <1>2 DEF SerialInv, CopiesFresh, CopyFresh, After
<1>4. LedgerStatus' = LedgerStatus /\ LedgerCapacity' = LedgerCapacity
  BY DEF UpsertRSVP, LedgerStatus, LedgerCapacity, Exists
<1>5. /\ LedgerStatus[id] = "PUBLISHED"
      /\ LedgerCapacity[id] = trips[id].capacity
      /\ LedgerGoing[id] = Going(id)
  BY <1>2, <1>3 DEF LedgerStatus, LedgerCapacity, LedgerGoing
<1>6. CASE rsvps' = [rsvps EXCEPT ![id][m] = r]
  <2>1. LedgerGoing' = [LedgerGoing EXCEPT ![id] = IF r = "YES" THEN @ \cup {m} ELSE @ \ {m}]
    BY <1>2, <1>3, <1>6, UpsertCounts DEF LedgerGoing
  <2>2. CASE r = "YES" /\ m \in Going(id)
    <3>1. LedgerGoing' = LedgerGoing
      BY <1>2, <1>5, <2>1, <2>2 DEF LedgerGoing
    <3> QED
      BY <1>4, <3>1 DEF Ledger!ledger
  <2>3. CASE r = "YES" /\ m \notin Going(id)
    <3>1. Delta(rsvps[id][m], r) = 1
      BY <1>3, <2>3 DEF Delta, Going
    <3>2. Cardinality(Going(id)) < trips[id].capacity
      BY <1>2, <1>3, <2>3, <3>1, GoingFinite, MaxCapacityAssumption DEF NewAttendance, Trip
    <3>3. Ledger!Join(id, m)
      BY <1>4, <1>5, <2>1, <2>3, <3>2, LedgerCardinality DEF Ledger!Join
    <3> QED
      BY <1>2, <1>3, <3>3 DEF Ledger!Next
  <2>4. CASE r # "YES"
    <3>1. Ledger!Leave(id, m)
      BY <1>4, <1>5, <2>1, <2>4 DEF Ledger!Leave
    <3> QED
      BY <1>2, <1>3, <3>1 DEF Ledger!Next
  <2> QED
    BY <2>2, <2>3, <2>4
<1>7. CASE UNCHANGED rsvps
  BY <1>4, <1>7 DEF Ledger!ledger, LedgerGoing, Going
<1> QED
  BY <1>1, <1>6, <1>7 DEF UpsertRSVP

LEMMA SerialStepIsLedgerStep ==
  ASSUME TypeInv, RecordInv, SerialInv, [Next]_vars
  PROVE  Ledger!Next \/ UNCHANGED Ledger!ledger
<1>1. ASSUME UNCHANGED <<trips, rsvps>>
      PROVE  UNCHANGED Ledger!ledger
  BY <1>1 DEF Ledger!ledger, LedgerStatus, LedgerCapacity, LedgerGoing, Exists, Going
<1>2. ASSUME NEW w \in Workers, Step(w)
      PROVE  Ledger!Next \/ UNCHANGED Ledger!ledger
  <2>1. CASE \/ \E id \in TripIDs : LoadTrip(w, id) \/ LoadRow(w, id)
             \/ LoadOrganizers(w) \/ LoadAttendance(w) \/ Answer(w)
             \/ SetMyRSVP(w) \/ CountYesByTrip(w) \/ Abandon(w)
    BY <1>1, <2>1 DEF LoadTrip, LoadRow, LoadOrganizers, LoadAttendance, Answer,
                      SetMyRSVP, CountYesByTrip, Abandon
  <2>2. CASE \/ UpdateTrip(w) \/ SetTripDraftVisibility(w) \/ AddTripOrganizer(w)
             \/ RemoveTripOrganizer(w) \/ CancelTrip(w) \/ PublishTrip(w)
    <3>1. PICK id : id = job[w].id
      OBVIOUS
    <3>2. PICK t \in Trip :
            /\ At(w, "loaded")
            /\ SaveAndFinish(w, t)
            /\ SerialChange(trips[id], t, Cardinality(Going(id)))
      BY <2>2, <3>1, HandlerSaves
    <3> QED
      BY <3>1, <3>2, SaveIsSerialLedgerStep DEF SaveAndFinish, At
  <2>3. CASE SaveAttendance(w)
    <3>1. PICK id, t : id = job[w].id /\ t = job[w].trip
      OBVIOUS
    <3>2. /\ t \in Trip /\ job[w] # Idle /\ Save(w, t) /\ UNCHANGED rsvps
          /\ t.status = trips[id].status /\ t.capacity = trips[id].capacity
      BY <2>3, <3>1, AtJob
         DEF SaveAttendance, At, TypeInv, SerialInv, CopiesFresh, CopyFresh
    <3> QED
      BY <3>1, <3>2, SaveIsSerialLedgerStep DEF SerialChange
  <2>4. CASE UpsertRSVP(w)
    BY <2>4, UpsertIsSerialLedgerStep
  <2> QED
    BY <1>2, <2>1, <2>2, <2>3, <2>4 DEF Step
<1>3. CASE UNCHANGED vars
  BY <1>1, <1>3 DEF vars
<1>4. ASSUME NEW c \in Members, NEW id \in TripIDs, CreateTripDraft(c, id)
      PROVE  Ledger!Next
  BY <1>4, CreateIsLedgerStep
<1>5. CASE Next
  BY <1>2, <1>4, <1>5 DEF Next
<1> QED
  BY <1>3, <1>5

\* Served one by one, requests keep the whole promise of the ledger on either
\* backend: a trip is drafted, published once and cancelled for good, members
\* join it while there is room, and its capacity always leaves room for them.
THEOREM SerialImplementsLedger ==
  ASSUME OneAtATime
  PROVE  Spec => ImplementsLedger
<1>1. Init => Ledger!Init
  BY DEF Init, Ledger!Init, LedgerStatus, LedgerCapacity, LedgerGoing, Exists, Going, NoCapacity
<1>2. TypeInv /\ RecordInv /\ SerialInv /\ [Next]_vars => [Ledger!Next]_(Ledger!ledger)
  BY SerialStepIsLedgerStep
<1> QED
  BY <1>1, <1>2, SerialCorrect, PTL DEF Spec, ImplementsLedger, Ledger!Spec

-----------------------------------------------------------------------------
(* The reads *)

\* In whatever state overlapping requests leave the records, the three places
\* that decide on access agree: a member finds a trip in a list exactly when the
\* service shows its details.
THEOREM ListsAlwaysMatchAccess == Spec => []ListsMatchAccess
<1>1. TypeOK => ListsMatchAccess
  <2>1. SUFFICES ASSUME TypeOK, NEW c \in Members, NEW id \in Existing
                 PROVE  (id \in DOMAIN ListPublishedAndCanceled \cup DOMAIN ListDraftsVisibleTo(c))
                          <=> GetTripDetailsFinds(c, id)
    BY DEF ListsMatchAccess
  <2>2. trips[id] \in Trip
    BY <2>1 DEF TypeOK, Existing
  <2>3. /\ GetByID(id).status = trips[id].status
        /\ GetByID(id).visibility = trips[id].visibility
        /\ GetByID(id).creator = trips[id].creator
        /\ GetByID(id).organizers = trips[id].organizers
    BY <2>2 DEF GetByID, Trip
  <2>4. id \in DOMAIN ListPublishedAndCanceled <=> trips[id].status \in {"PUBLISHED", "CANCELED"}
    BY DEF ListPublishedAndCanceled
  <2>5. id \in DOMAIN ListDraftsVisibleTo(c)
          <=> /\ trips[id].status = "DRAFT"
              /\ \/ trips[id].visibility = "PRIVATE" /\ trips[id].creator = c
                 \/ trips[id].visibility = "PUBLIC" /\ c \in trips[id].organizers
    BY <2>2 DEF ListDraftsVisibleTo, isDraftVisibleTo, draftRowVisibleTo, Trip, Visibilities
  <2> QED
    BY <2>2, <2>3, <2>4, <2>5
       DEF GetTripDetailsFinds, isTripVisibleToCaller, isDraftVisibleToCaller, isOrganizer, Trip, Statuses
<1> QED
  BY <1>1, TypeCorrect, PTL

\* What a member is told of a trip does not depend on where he reads it: on
\* Postgres always, where the attendance is counted for every read, and in memory
\* when requests are served one by one and none has an RSVP left to write.
THEOREM ReadsAlwaysAgree ==
  ASSUME Postgres \/ OneAtATime
  PROVE  Spec => []ReadsAgree
<1>1. ASSUME TypeOK, Memory => AttendanceStored
      PROVE  ReadsAgree
  <2>1. SUFFICES ASSUME NEW c \in Members, NEW id \in Existing, RSVPsAvailable(c, id),
                        \A w \in Workers : ~At(w, "upsert")
                 PROVE  LET entry   == ListPublishedAndCanceled[id]
                            summary == tripRSVPSummary(id)
                        IN  /\ entry = toDomainSummary(GetByID(id))
                            /\ entry.capacity = summary.capacity
                            /\ entry.status = "PUBLISHED" =>
                                 entry.attending = Cardinality(summary.attendingMembers)
    BY DEF ReadsAgree
  <2>2. trips[id] \in Trip /\ id \in TripIDs /\ Exists(id)
    BY <1>1 DEF TypeOK, Existing, Exists
  <2>3. PICK n : n = Cardinality(Going(id))
    OBVIOUS
  <2>4. PICK cur : cur = trips[id]
    OBVIOUS
  <2>5. PICK counted : counted = [cur EXCEPT !.attending = n]
    OBVIOUS
  <2>6. /\ counted.status = cur.status /\ counted.visibility = cur.visibility
        /\ counted.capacity = cur.capacity /\ counted.attending = n
    BY <2>2, <2>4, <2>5 DEF Trip
  <2>7. GetByID(id) = IF Postgres /\ cur.status = "PUBLISHED" THEN counted ELSE cur
    BY <2>3, <2>4, <2>5 DEF GetByID
  <2>8. cur.status \in {"PUBLISHED", "CANCELED"}
    BY <2>1, <2>2, <2>4, <2>6, <2>7 DEF RSVPsAvailable, Trip, Statuses
  <2>9. ListPublishedAndCanceled[id] = toDomainSummary(IF Memory THEN cur ELSE counted)
    BY <2>1, <2>3, <2>4, <2>5, <2>8 DEF ListPublishedAndCanceled
  <2>10. Memory /\ cur.status = "PUBLISHED" => cur.attending = n
    BY <1>1, <2>1, <2>2, <2>3, <2>4 DEF AttendanceStored, HasStatus
  <2>11. Memory <=> ~Postgres
    BY BackendAssumption DEF Memory, Postgres
  <2>12. ListPublishedAndCanceled[id] = toDomainSummary(GetByID(id))
    BY <2>6, <2>7, <2>8, <2>9, <2>11 DEF toDomainSummary
  <2>13. /\ toDomainSummary(GetByID(id)).capacity = GetByID(id).capacity
         /\ toDomainSummary(GetByID(id)).status = cur.status
         /\ cur.status = "PUBLISHED" => toDomainSummary(GetByID(id)).attending = n
    BY <2>6, <2>7, <2>10, <2>11 DEF toDomainSummary
  <2>14. /\ tripRSVPSummary(id).capacity = GetByID(id).capacity
         /\ Cardinality(tripRSVPSummary(id).attendingMembers) = n
    BY <2>3 DEF tripRSVPSummary, Going
  <2> QED
    BY <2>12, <2>13, <2>14
<1>2. CASE Postgres
  <2>1. TypeOK => ReadsAgree
    BY <1>1, <1>2 DEF Memory, Postgres
  <2> QED
    BY <2>1, TypeCorrect, PTL
<1>3. CASE OneAtATime
  <2>1. TypeInv /\ RecordInv /\ SerialInv => ReadsAgree
    BY <1>1 DEF TypeInv, SerialInv
  <2>2. Spec => [](TypeInv /\ RecordInv /\ SerialInv)
    BY <1>3, SerialCorrect
  <2> QED
    BY <2>1, <2>2, PTL
<1> QED
  BY <1>2, <1>3

=============================================================================
