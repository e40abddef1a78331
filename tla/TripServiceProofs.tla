-------------------------- MODULE TripServiceProofs --------------------------
(* Theorems about TripService, for every set of trips, members and workers. *)
EXTENDS TripService, FiniteSetTheorems, TLAPS

-----------------------------------------------------------------------------
(* Type correctness *)

LEMMA GoingFinite ==
  ASSUME NEW id \in TripIDs
  PROVE  IsFiniteSet(Going(id)) /\ Cardinality(Going(id)) \in Nat
<1>1. Going(id) \subseteq Members
  BY DEF Going
<1>2. IsFiniteSet(Going(id))
  BY <1>1, FS_Subset, MembersAssumption
<1> QED
  BY <1>2, FS_CardinalityType

LEMMA StoredType ==
  ASSUME NEW t \in Trip
  PROVE  Stored(t) \in Trip
<1>1. draftVisibilityForDB(t) \in Visibilities
  BY DEF draftVisibilityForDB, Trip, Visibilities
<1>2. ASSUME NEW a \in Int, NEW v \in Visibilities
      PROVE  [t EXCEPT !.attending = a, !.visibility = v] \in Trip
  BY DEF Trip
<1>3. Unset \in Int
  BY DEF Unset
<1> QED
  BY <1>1, <1>2, <1>3 DEF Stored

LEMMA NewDraftType ==
  ASSUME NEW c \in Members
  PROVE  NewDraft(c) \in Trip
BY MaxCapacityAssumption
   DEF NewDraft, Trip, Unset, NoCapacity, Statuses, Visibilities

LEMMA PatchedType ==
  ASSUME NEW t \in Trip, NEW patch \in Patches
  PROVE  Patched(t, patch) \in Trip
<1> DEFINE c == IF patch.capacity = Keep THEN t.capacity ELSE patch.capacity
           m == (t.missing \cup patch.clear) \ patch.fill
<1>1. patch \in Patch
  BY ServiceAssumption
<1>2. c \in 0..MaxCapacity
  BY <1>1, MaxCapacityAssumption DEF Trip, Patch, Keep
<1>3. m \in SUBSET Fields
  BY <1>1 DEF Trip, Patch
<1>4. Patched(t, patch) = [t EXCEPT !.capacity = c, !.missing = m]
  BY DEF Patched
<1> HIDE DEF c, m
<1> QED
  BY <1>2, <1>3, <1>4 DEF Trip

LEMMA PublishedType ==
  ASSUME NEW t \in Trip
  PROVE  Published(t) \in Trip
<1>1. ASSUME NEW a \in Int, NEW st \in Statuses
      PROVE  [t EXCEPT !.status = st, !.attending = a] \in Trip
  BY DEF Trip
<1>2. AttendingOrZero(t) \in Int
  BY DEF AttendingOrZero, Trip
<1> QED
  BY <1>1, <1>2 DEF Published, Statuses

\* The job of a worker that is at some call is a Job.
LEMMA AtJob ==
  ASSUME TypeOK, NEW w \in Workers, NEW pc, At(w, pc)
  PROVE  job[w] \in Job /\ job[w].trip \in Trip /\ job[w].id \in TripIDs
BY DEF TypeOK, At, Job

\* A request works on a trip that exists: trips are never deleted.
JobsHaveTrips == \A w \in Workers : job[w] # Idle => trips[job[w].id] \in Trip

TypeInv == TypeOK /\ JobsHaveTrips

\* Writing one cell of a table of RSVPs keeps its type.
LEMMA RSVPWritten ==
  ASSUME NEW table \in [TripIDs -> [Members -> RSVPs]],
         NEW id, NEW m, NEW r \in RSVPs
  PROVE  [table EXCEPT ![id][m] = r] \in [TripIDs -> [Members -> RSVPs]]
<1>1. CASE id \notin TripIDs
  BY <1>1
<1>2. CASE id \in TripIDs
  <2> DEFINE row == [table[id] EXCEPT ![m] = r]
  <2>1. row \in [Members -> RSVPs]
    BY <1>2
  <2> HIDE DEF row
  <2>2. [table EXCEPT ![id] = row] \in [TripIDs -> [Members -> RSVPs]]
    BY <2>1
  <2> QED
    BY <2>2 DEF row
<1> QED
  BY <1>1, <1>2

LEMMA TypeInit == Init => TypeInv
BY DEF Init, TypeInv, TypeOK, JobsHaveTrips, RSVPs

\* A save leaves every trip that exists in existence.
LEMMA SaveKeepsTrips ==
  ASSUME TypeInv, NEW w \in Workers, job[w] \in Job, NEW t \in Trip, Save(w, t)
  PROVE  /\ trips' \in [TripIDs -> Trip \cup {NoTrip}]
         /\ \A id \in TripIDs : trips[id] \in Trip => trips'[id] \in Trip
BY StoredType DEF TypeInv, TypeOK, Save, Job

\* A step that leaves the repositories' types alone and gives one worker a new
\* job on an existing trip, or none, keeps the invariant.
LEMMA JobStep ==
  ASSUME TypeInv, NEW w \in Workers, NEW j \in Job \cup {Idle},
         job' = [job EXCEPT ![w] = j],
         trips' \in [TripIDs -> Trip \cup {NoTrip}],
         \A id \in TripIDs : trips[id] \in Trip => trips'[id] \in Trip,
         rsvps' \in [TripIDs -> [Members -> RSVPs]],
         j # Idle => trips[j.id] \in Trip
  PROVE  TypeInv'
<1>1. TypeOK'
  BY DEF TypeInv, TypeOK
<1>2. ASSUME NEW v \in Workers, job'[v] # Idle
      PROVE  trips'[job'[v].id] \in Trip
  <2>1. CASE v = w
    <3>1. job'[v] = j /\ j \in Job
      BY <1>2, <2>1 DEF TypeInv, TypeOK
    <3> QED
      BY <1>2, <3>1 DEF Job
  <2>2. CASE v # w
    <3>1. job'[v] = job[v] /\ job[v] \in Job
      BY <1>2, <2>2 DEF TypeInv, TypeOK
    <3> QED
      BY <1>2, <3>1 DEF Job, TypeInv, JobsHaveTrips
  <2> QED
    BY <2>1, <2>2
<1> QED
  BY <1>1, <1>2 DEF TypeInv, JobsHaveTrips

\* Every handler that makes one write ends in this step.
LEMMA SaveAndFinishStep ==
  ASSUME TypeInv, NEW w \in Workers, NEW pc, At(w, pc),
         NEW t \in Trip, SaveAndFinish(w, t)
  PROVE  TypeInv'
<1>1. job[w] \in Job
  BY AtJob DEF TypeInv
<1>2. /\ trips' \in [TripIDs -> Trip \cup {NoTrip}]
      /\ \A id \in TripIDs : trips[id] \in Trip => trips'[id] \in Trip
  BY <1>1, SaveKeepsTrips DEF SaveAndFinish
<1>3. rsvps' \in [TripIDs -> [Members -> RSVPs]]
  BY DEF SaveAndFinish, TypeInv, TypeOK
<1> QED
  BY <1>2, <1>3, JobStep DEF SaveAndFinish, Finish

\* A step that only changes the job of a worker that has one.
LEMMA LocalStep ==
  ASSUME TypeInv, NEW w \in Workers, NEW j \in Job \cup {Idle},
         job' = [job EXCEPT ![w] = j],
         UNCHANGED <<trips, rsvps>>,
         j # Idle => trips[j.id] \in Trip
  PROVE  TypeInv'
BY JobStep DEF TypeInv, TypeOK

LEMMA TypeStep == TypeInv /\ [Next]_vars => TypeInv'
<1> SUFFICES ASSUME TypeInv, [Next]_vars
             PROVE  TypeInv'
  OBVIOUS
<1>1. ASSUME NEW c \in Members, NEW id \in TripIDs, CreateTripDraft(c, id)
      PROVE  TypeInv'
  <2>1. Stored(NewDraft(c)) \in Trip
    BY NewDraftType, StoredType
  <2>2. TypeOK'
    BY <1>1, <2>1 DEF CreateTripDraft, TypeInv, TypeOK
  <2>3. JobsHaveTrips'
    BY <1>1, <2>1 DEF CreateTripDraft, TypeInv, TypeOK, JobsHaveTrips, Job
  <2> QED
    BY <2>2, <2>3 DEF TypeInv
<1>2. ASSUME NEW w \in Workers, NEW id \in TripIDs, LoadTrip(w, id)
      PROVE  TypeInv'
  <2>1. trips[id] \in Trip
    BY <1>2 DEF LoadTrip, TypeInv, TypeOK
  <2>2. Fetched("loaded", id, trips[id]) \in Job
    BY <2>1 DEF Fetched, Job, RSVPs
  <2> QED
    BY <1>2, <2>1, <2>2, LocalStep DEF LoadTrip, Fetched
<1>3. ASSUME NEW w \in Workers, NEW id \in TripIDs, LoadRow(w, id)
      PROVE  TypeInv'
  <2> DEFINE row == [trips[id] EXCEPT !.organizers = {}]
  <2>1. trips[id] \in Trip /\ row \in Trip
    BY <1>3 DEF LoadRow, TypeInv, TypeOK, Trip
  <2>2. Fetched("organizers", id, row) \in Job
    BY <2>1 DEF Fetched, Job, RSVPs
  <2> QED
    BY <1>3, <2>1, <2>2, LocalStep DEF LoadRow, Fetched
<1>4. ASSUME NEW w \in Workers, LoadOrganizers(w)
      PROVE  TypeInv'
  <2>1. job[w] \in Job /\ job[w] # Idle /\ trips[job[w].id] \in Trip
    BY <1>4, AtJob DEF LoadOrganizers, At, TypeInv, JobsHaveTrips
  <2> DEFINE j == [job[w] EXCEPT !.trip.organizers = trips[job[w].id].organizers,
                                 !.pc = IF job[w].trip.status = "PUBLISHED"
                                        THEN "attendance" ELSE "loaded"]
  <2>2. trips[job[w].id].organizers \in SUBSET Members
    BY <2>1 DEF Trip
  <2>3. j \in Job /\ j.id = job[w].id
    BY <2>1, <2>2 DEF Job, Trip
  <2>4. job' = [job EXCEPT ![w] = j]
    BY <1>4, <2>1 DEF LoadOrganizers, TypeInv, TypeOK
  <2> QED
    BY <1>4, <2>1, <2>3, <2>4, LocalStep DEF LoadOrganizers
<1>5. ASSUME NEW w \in Workers, LoadAttendance(w)
      PROVE  TypeInv'
  <2>1. job[w] \in Job /\ job[w] # Idle /\ trips[job[w].id] \in Trip
    BY <1>5, AtJob DEF LoadAttendance, At, TypeInv, JobsHaveTrips
  <2> DEFINE j == [job[w] EXCEPT !.trip.attending = Cardinality(Going(job[w].id)),
                                 !.pc = "loaded"]
  <2>2. Cardinality(Going(job[w].id)) \in Int
    BY <2>1, GoingFinite DEF Job
  <2>3. j \in Job /\ j.id = job[w].id
    BY <2>1, <2>2 DEF Job, Trip
  <2>4. job' = [job EXCEPT ![w] = j]
    BY <1>5, <2>1 DEF LoadAttendance, TypeInv, TypeOK
  <2> QED
    BY <1>5, <2>1, <2>3, <2>4, LocalStep DEF LoadAttendance
<1>6. ASSUME NEW w \in Workers, UpdateTrip(w)
      PROVE  TypeInv'
  <2>1. At(w, "loaded") /\ job[w].trip \in Trip
    BY <1>6, AtJob DEF UpdateTrip, TypeInv
  <2>2. PICK patch \in Patches : SaveAndFinish(w, Patched(job[w].trip, patch))
    BY <1>6 DEF UpdateTrip
  <2> QED
    BY <2>1, <2>2, PatchedType, SaveAndFinishStep
<1>7. ASSUME NEW w \in Workers, SetTripDraftVisibility(w)
      PROVE  TypeInv'
  <2>1. At(w, "loaded") /\ job[w].trip \in Trip
    BY <1>7, AtJob DEF SetTripDraftVisibility, TypeInv
  <2>2. PICK dv \in {"PRIVATE", "PUBLIC"} :
          SaveAndFinish(w, [job[w].trip EXCEPT !.visibility = dv])
    BY <1>7 DEF SetTripDraftVisibility
  <2>3. [job[w].trip EXCEPT !.visibility = dv] \in Trip
    BY <2>1 DEF Trip, Visibilities
  <2> QED
    BY <2>1, <2>2, <2>3, SaveAndFinishStep
<1>8. ASSUME NEW w \in Workers, AddTripOrganizer(w)
      PROVE  TypeInv'
  <2>1. At(w, "loaded") /\ job[w].trip \in Trip
    BY <1>8, AtJob DEF AddTripOrganizer, TypeInv
  <2>2. PICK m \in Members :
          SaveAndFinish(w, [job[w].trip EXCEPT !.organizers = @ \cup {m}])
    BY <1>8 DEF AddTripOrganizer
  <2>3. [job[w].trip EXCEPT !.organizers = @ \cup {m}] \in Trip
    BY <2>1 DEF Trip
  <2> QED
    BY <2>1, <2>2, <2>3, SaveAndFinishStep
<1>9. ASSUME NEW w \in Workers, RemoveTripOrganizer(w)
      PROVE  TypeInv'
  <2>1. At(w, "loaded") /\ job[w].trip \in Trip
    BY <1>9, AtJob DEF RemoveTripOrganizer, TypeInv
  <2>2. PICK m \in Members :
          SaveAndFinish(w, [job[w].trip EXCEPT !.organizers = @ \ {m}])
    BY <1>9 DEF RemoveTripOrganizer
  <2>3. [job[w].trip EXCEPT !.organizers = @ \ {m}] \in Trip
    BY <2>1 DEF Trip
  <2> QED
    BY <2>1, <2>2, <2>3, SaveAndFinishStep
<1>10. ASSUME NEW w \in Workers, CancelTrip(w)
       PROVE  TypeInv'
  <2>1. At(w, "loaded") /\ job[w].trip \in Trip
    BY <1>10, AtJob DEF CancelTrip, TypeInv
  <2>2. [job[w].trip EXCEPT !.status = "CANCELED"] \in Trip
    BY <2>1 DEF Trip, Statuses
  <2> QED
    BY <1>10, <2>1, <2>2, SaveAndFinishStep DEF CancelTrip
<1>11. ASSUME NEW w \in Workers, PublishTrip(w)
       PROVE  TypeInv'
  <2>1. At(w, "loaded") /\ job[w].trip \in Trip
    BY <1>11, AtJob DEF PublishTrip, TypeInv
  <2> QED
    BY <1>11, <2>1, PublishedType, SaveAndFinishStep DEF PublishTrip
<1>12. ASSUME NEW w \in Workers, Answer(w) \/ Abandon(w)
       PROVE  TypeInv'
  BY <1>12, LocalStep DEF Answer, Abandon, Finish
<1>13. ASSUME NEW w \in Workers, SetMyRSVP(w)
       PROVE  TypeInv'
  <2>1. job[w] \in Job /\ job[w] # Idle /\ trips[job[w].id] \in Trip
    BY <1>13, AtJob DEF SetMyRSVP, At, TypeInv, JobsHaveTrips
  <2>2. PICK c \in Members, r \in Responses :
          job' = [job EXCEPT ![w].pc = "count",
                             ![w].caller = c,
                             ![w].existing = rsvps[job[w].id][c],
                             ![w].response = r]
    BY <1>13 DEF SetMyRSVP
  <2> DEFINE j == [job[w] EXCEPT !.pc = "count",
                                 !.caller = c,
                                 !.existing = rsvps[job[w].id][c],
                                 !.response = r]
  <2>3. r \in RSVPs /\ rsvps[job[w].id][c] \in RSVPs
    BY <2>1, ServiceAssumption DEF TypeInv, TypeOK, Job, RSVPs
  <2>4. j \in Job /\ j.id = job[w].id
    BY <2>1, <2>3 DEF Job
  <2>5. job' = [job EXCEPT ![w] = j]
    BY <2>1, <2>2 DEF TypeInv, TypeOK
  <2> QED
    BY <1>13, <2>1, <2>4, <2>5, LocalStep DEF SetMyRSVP
<1>14. ASSUME NEW w \in Workers, CountYesByTrip(w)
       PROVE  TypeInv'
  <2>1. job[w] \in Job /\ job[w] # Idle /\ trips[job[w].id] \in Trip
    BY <1>14, AtJob DEF CountYesByTrip, At, TypeInv, JobsHaveTrips
  <2> DEFINE att == NewAttendance(Cardinality(Going(job[w].id)),
                                  Delta(job[w].existing, job[w].response))
             j == [job[w] EXCEPT !.pc = "save", !.trip.attending = att]
  <2>2. att \in Int
    <3>1. Cardinality(Going(job[w].id)) \in Int
      BY <2>1, GoingFinite DEF Job
    <3>2. Delta(job[w].existing, job[w].response) \in Int
      BY DEF Delta
    <3> QED
      BY <3>1, <3>2 DEF NewAttendance
  <2>3. job' = [job EXCEPT ![w] = Idle] \/ job' = [job EXCEPT ![w] = j]
    BY <1>14, <2>1 DEF CountYesByTrip, Finish, TypeInv, TypeOK
  <2> HIDE DEF att
  <2>4. j \in Job /\ j.id = job[w].id
    BY <2>1, <2>2 DEF Job, Trip
  <2> QED
    BY <1>14, <2>1, <2>3, <2>4, LocalStep DEF CountYesByTrip
<1>15. ASSUME NEW w \in Workers, SaveAttendance(w)
       PROVE  TypeInv'
  <2>1. job[w] \in Job /\ job[w] # Idle /\ trips[job[w].id] \in Trip /\ job[w].trip \in Trip
    BY <1>15, AtJob DEF SaveAttendance, At, TypeInv, JobsHaveTrips
  <2> DEFINE j == [job[w] EXCEPT !.pc = "upsert"]
  <2>2. /\ trips' \in [TripIDs -> Trip \cup {NoTrip}]
        /\ \A id \in TripIDs : trips[id] \in Trip => trips'[id] \in Trip
    BY <1>15, <2>1, SaveKeepsTrips DEF SaveAttendance
  <2>3. job' = [job EXCEPT ![w] = Idle] \/ job' = [job EXCEPT ![w] = j]
    BY <1>15, <2>1 DEF SaveAttendance, Finish, TypeInv, TypeOK
  <2>4. j \in Job /\ j.id = job[w].id
    BY <2>1 DEF Job
  <2>5. rsvps' \in [TripIDs -> [Members -> RSVPs]]
    BY <1>15 DEF SaveAttendance, TypeInv, TypeOK
  <2> QED
    BY <2>1, <2>2, <2>3, <2>4, <2>5, JobStep
<1>16. ASSUME NEW w \in Workers, UpsertRSVP(w)
       PROVE  TypeInv'
  <2>1. job[w] \in Job
    BY <1>16, AtJob DEF UpsertRSVP, TypeInv
  <2>2. rsvps' \in [TripIDs -> [Members -> RSVPs]]
    <3> DEFINE cell == [rsvps EXCEPT ![job[w].id][job[w].caller] = job[w].response]
    <3>1. rsvps \in [TripIDs -> [Members -> RSVPs]]
      BY DEF TypeInv, TypeOK
    <3>2. job[w].response \in RSVPs
      BY <2>1 DEF Job
    <3>3. cell \in [TripIDs -> [Members -> RSVPs]]
      BY <3>1, <3>2, RSVPWritten
    <3>4. rsvps' = cell \/ rsvps' = rsvps
      BY <1>16 DEF UpsertRSVP
    <3> HIDE DEF cell
    <3> QED
      BY <3>1, <3>3, <3>4
  <2>3. job' = [job EXCEPT ![w] = Idle] /\ trips' = trips
    BY <1>16 DEF UpsertRSVP, Finish
  <2> QED
    BY <2>2, <2>3, JobStep DEF TypeInv, TypeOK
<1>17. CASE UNCHANGED vars
  BY <1>17 DEF vars, TypeInv, TypeOK, JobsHaveTrips
<1>18. CASE Next
  <2>1. ASSUME NEW w \in Workers, Step(w)
        PROVE  TypeInv'
    BY <2>1, <1>2, <1>3, <1>4, <1>5, <1>6, <1>7, <1>8, <1>9, <1>10, <1>11,
       <1>12, <1>13, <1>14, <1>15, <1>16 DEF Step
  <2> QED
    BY <1>18, <1>1, <2>1 DEF Next
<1> QED
  BY <1>17, <1>18

\* The repositories and every request in flight keep their types, and a request
\* in flight always works on a trip that exists.
THEOREM TypeCorrect == Spec => []TypeOK
<1>1. Spec => []TypeInv
  BY TypeInit, TypeStep, PTL DEF Spec
<1>2. TypeInv => TypeOK
  BY DEF TypeInv
<1> QED
  BY <1>1, <1>2, PTL

=============================================================================
