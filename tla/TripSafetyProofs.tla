-------------------------- MODULE TripSafetyProofs --------------------------
(***************************************************************************)
(* The safety of the trips service under every interleaving of requests:   *)
(* what survives blind saves of whole records, on either backend, and what *)
(* the database's triggers alone guarantee on Postgres.                    *)
(***************************************************************************)
EXTENDS TripServiceProofs

-----------------------------------------------------------------------------
(* The database as the backstop: any save that Postgres accepts, whatever  *)
(* copy it comes from, is a step of the ledger.                            *)

\* The ledger counts with the same Cardinality.
LEMMA LedgerCardinality == \A S : Ledger!Cardinality(S) = Cardinality(S)
BY DEF Ledger!Cardinality, Cardinality

LEMMA SaveIsLedgerStep ==
  ASSUME TypeInv, Postgres, NEW w \in Workers, NEW pc, At(w, pc),
         NEW t \in Trip, Save(w, t), UNCHANGED rsvps
  PROVE  Ledger!StaleNext \/ UNCHANGED Ledger!ledger
<1> DEFINE id == job[w].id
           cur == trips[id]
<1>1. id \in TripIDs /\ cur \in Trip /\ cur # NoTrip
  BY AtJob, ServiceAssumption DEF TypeInv, JobsHaveTrips, At
<1>2. LedgerGoing' = LedgerGoing
  BY DEF LedgerGoing, Going
<1>3. CASE UNCHANGED trips
  BY <1>2, <1>3 DEF Ledger!ledger, LedgerStatus, LedgerCapacity, Exists
<1>4. CASE SaveAccepted(cur, t, Going(id)) /\ trips' = [trips EXCEPT ![id] = Stored(t)]
  <2>1. /\ Stored(t) # NoTrip
        /\ Stored(t).status = t.status
        /\ Stored(t).capacity = t.capacity
    BY StoredType, ServiceAssumption DEF Stored, Trip
  <2>2. trips'[id] = Stored(t) /\ \A i \in TripIDs \ {id} : trips'[i] = trips[i]
    BY <1>1, <1>4 DEF TypeInv, TypeOK
  <2>3. /\ LedgerStatus[id] = cur.status
        /\ LedgerStatus' = [LedgerStatus EXCEPT ![id] = t.status]
    BY <1>1, <2>1, <2>2 DEF LedgerStatus, Exists
  <2>4. /\ LedgerCapacity[id] = cur.capacity
        /\ LedgerCapacity' = [LedgerCapacity EXCEPT ![id] = t.capacity]
    BY <1>1, <2>1, <2>2 DEF LedgerCapacity, Exists
  <2>5. TransitionAllowed(cur, t) /\ CapacityAllowed(cur, t, Going(id))
    BY <1>4 DEF SaveAccepted
  <2>6. t.capacity \in 0..MaxCapacity /\ t.status \in Statuses /\ cur.status \in Statuses
    BY <1>1 DEF Trip
  <2>7a. LedgerGoing[id] = Going(id)
    BY <1>1 DEF LedgerGoing
  <2>7. cur.status = "PUBLISHED" => Ledger!Roomy(id, t.capacity)
    BY <2>4, <2>5, <2>7a, LedgerCardinality DEF CapacityAllowed, Ledger!Roomy, NoCapacity
  <2> HIDE DEF id, cur
  <2>8. CASE t.status = cur.status /\ cur.status # "CANCELED"
    <3>1. Ledger!SetCapacity(id, t.capacity)
      <4>1. LedgerStatus' = LedgerStatus
        BY <1>1, <2>3, <2>8 DEF LedgerStatus
      <4> QED
        BY <1>2, <2>3, <2>4, <2>6, <2>7, <2>8, <4>1 DEF Ledger!SetCapacity, Statuses
    <3> QED
      BY <1>1, <2>6, <3>1 DEF Ledger!StaleNext, Ledger!Next
  <2>9. CASE t.status = "CANCELED" /\ cur.status = "CANCELED"
    <3>1. Ledger!Restate(id, t.capacity)
      <4>1. LedgerStatus' = LedgerStatus
        BY <1>1, <2>3, <2>9 DEF LedgerStatus
      <4> QED
        BY <1>2, <2>3, <2>4, <2>9, <4>1 DEF Ledger!Restate
    <3> QED
      BY <1>1, <2>6, <3>1 DEF Ledger!StaleNext
  <2>10. CASE t.status = "CANCELED" /\ cur.status # "CANCELED"
    <3>1. Ledger!Cancel(id, t.capacity)
      BY <1>2, <2>3, <2>4, <2>6, <2>7, <2>10 DEF Ledger!Cancel, Statuses
    <3> QED
      BY <1>1, <2>6, <3>1 DEF Ledger!StaleNext
  <2>11. CASE t.status = "PUBLISHED" /\ cur.status # "PUBLISHED"
    <3>1. Ledger!Publish(id, t.capacity)
      BY <1>2, <2>3, <2>4, <2>5, <2>11 DEF Ledger!Publish, TransitionAllowed
    <3> QED
      BY <1>1, <2>6, <3>1 DEF Ledger!StaleNext
  <2>12. CASE t.status = "DRAFT" /\ cur.status = "PUBLISHED"
    <3>1. Ledger!Reopen(id, t.capacity)
      BY <1>2, <2>3, <2>4, <2>7, <2>12 DEF Ledger!Reopen
    <3> QED
      BY <1>1, <2>6, <3>1 DEF Ledger!StaleNext
  <2> QED
    BY <2>5, <2>6, <2>8, <2>9, <2>10, <2>11, <2>12 DEF TransitionAllowed, Statuses
<1> QED
  BY <1>3, <1>4 DEF Save

LEMMA UpsertIsLedgerStep ==
  ASSUME TypeInv, Postgres, NEW w \in Workers, UpsertRSVP(w)
  PROVE  Ledger!StaleNext \/ UNCHANGED Ledger!ledger
<1>0. PICK id, m, r : id = job[w].id /\ m = job[w].caller /\ r = job[w].response
  OBVIOUS
<1>1. id \in TripIDs /\ trips[id] \in Trip /\ trips[id] # NoTrip
  BY <1>0, AtJob, ServiceAssumption DEF UpsertRSVP, TypeInv, JobsHaveTrips, At
<1>2. LedgerStatus' = LedgerStatus /\ LedgerCapacity' = LedgerCapacity
  BY DEF UpsertRSVP, LedgerStatus, LedgerCapacity, Exists
<1>3. CASE UNCHANGED rsvps
  <2>1. LedgerGoing' = LedgerGoing
    BY <1>3 DEF LedgerGoing, Going
  <2> QED
    BY <1>2, <2>1 DEF Ledger!ledger
<1>4. CASE /\ UpsertAccepted(trips[id], Going(id), r)
           /\ rsvps' = [rsvps EXCEPT ![id][m] = r]
           /\ m \in Members
  <2>1. /\ LedgerStatus[id] = "PUBLISHED"
        /\ LedgerCapacity[id] = trips[id].capacity
        /\ LedgerGoing[id] = Going(id)
        /\ r = "YES" => Cardinality(Going(id)) < trips[id].capacity
    BY <1>1, <1>4 DEF UpsertAccepted, LedgerStatus, LedgerCapacity, LedgerGoing, Exists
  <2>2. /\ \A i \in TripIDs \ {id} : rsvps'[i] = rsvps[i]
        /\ rsvps'[id] = [rsvps[id] EXCEPT ![m] = r]
        /\ rsvps[id] \in [Members -> RSVPs]
    BY <1>1, <1>4 DEF TypeInv, TypeOK
  <2>3. Going(id)' = IF r = "YES" THEN Going(id) \cup {m} ELSE Going(id) \ {m}
    BY <1>1, <1>4, <2>2 DEF Going
  <2>4. \A i \in TripIDs \ {id} : Going(i)' = Going(i)
    BY <2>2 DEF Going
  <2>5. LedgerGoing' = [LedgerGoing EXCEPT ![id] = IF r = "YES" THEN @ \cup {m} ELSE @ \ {m}]
    BY <1>1, <2>3, <2>4 DEF LedgerGoing
  <2>6. CASE r = "YES"
    <3>1. Ledger!Join(id, m)
      BY <1>2, <2>1, <2>5, <2>6, LedgerCardinality DEF Ledger!Join
    <3> QED
      BY <1>1, <1>4, <3>1 DEF Ledger!StaleNext, Ledger!Next
  <2>7. CASE r # "YES"
    <3>1. Ledger!Leave(id, m)
      BY <1>2, <2>1, <2>5, <2>7 DEF Ledger!Leave
    <3> QED
      BY <1>1, <1>4, <3>1 DEF Ledger!StaleNext, Ledger!Next
  <2> QED
    BY <2>6, <2>7
<1>5. CASE rsvps' = [rsvps EXCEPT ![id][m] = r] /\ m \notin Members
  <2>1. rsvps' = rsvps
    BY <1>1, <1>5 DEF TypeInv, TypeOK
  <2> QED
    BY <1>3, <2>1
<1> QED
  BY <1>0, <1>3, <1>4, <1>5 DEF UpsertRSVP

LEMMA CreateIsLedgerStep ==
  ASSUME TypeInv, NEW c \in Members, NEW id \in TripIDs, CreateTripDraft(c, id)
  PROVE  Ledger!Next
<1> DEFINE t == Stored(NewDraft(c))
<1>1. t \in Trip /\ t # NoTrip /\ t.status = "DRAFT" /\ t.capacity = NoCapacity
  <2>1. NewDraft(c) \in Trip
    BY NewDraftType
  <2>2. t \in Trip /\ t # NoTrip
    BY <2>1, StoredType, ServiceAssumption
  <2>3. t.status = NewDraft(c).status /\ t.capacity = NewDraft(c).capacity
    BY <2>1 DEF Stored, Trip
  <2> QED
    BY <2>2, <2>3 DEF NewDraft
<1>2. trips'[id] = t /\ \A i \in TripIDs \ {id} : trips'[i] = trips[i]
  BY DEF CreateTripDraft, TypeInv, TypeOK
<1> HIDE DEF t
<1>3. LedgerStatus[id] = "NONE" /\ LedgerStatus' = [LedgerStatus EXCEPT ![id] = "DRAFT"]
  <2>1. LedgerStatus[id] = "NONE"
    BY DEF CreateTripDraft, LedgerStatus, Exists
  <2>2. LedgerStatus' = [LedgerStatus EXCEPT ![id] = "DRAFT"]
    BY <1>1, <1>2 DEF LedgerStatus, Exists
  <2> QED
    BY <2>1, <2>2
<1>4. LedgerCapacity' = LedgerCapacity
  BY <1>1, <1>2 DEF CreateTripDraft, LedgerCapacity, Exists
<1>5. LedgerGoing' = LedgerGoing
  BY DEF CreateTripDraft, LedgerGoing, Going
<1>6. Ledger!Draft(id)
  BY <1>3, <1>4, <1>5 DEF Ledger!Draft
<1> QED
  BY <1>6 DEF Ledger!Next

\* Whoever writes, writes by a save of some trip or by the upsert of an RSVP:
\* loads, answers and the reading half of SetMyRSVP leave both repositories alone.
LEMMA StepWrites ==
  ASSUME TypeInv, NEW w \in Workers, Step(w)
  PROVE  \/ UNCHANGED <<trips, rsvps>>
         \/ UpsertRSVP(w)
         \/ job[w] # Idle /\ UNCHANGED rsvps /\ \E t \in Trip : Save(w, t)
<1>0. ASSUME NEW t \in Trip, At(w, "loaded"), SaveAndFinish(w, t)
      PROVE  job[w] # Idle /\ UNCHANGED rsvps /\ \E u \in Trip : Save(w, u)
  BY <1>0 DEF SaveAndFinish, At
<1>1. CASE \/ \E id \in TripIDs : LoadTrip(w, id) \/ LoadRow(w, id)
           \/ LoadOrganizers(w) \/ LoadAttendance(w) \/ Answer(w)
           \/ SetMyRSVP(w) \/ CountYesByTrip(w) \/ Abandon(w)
  BY <1>1 DEF LoadTrip, LoadRow, LoadOrganizers, LoadAttendance, Answer,
              SetMyRSVP, CountYesByTrip, Abandon
<1>2. CASE UpdateTrip(w)
  <2>1. At(w, "loaded") /\ job[w].trip \in Trip
    BY <1>2, AtJob DEF UpdateTrip, TypeInv
  <2>2. PICK patch \in Patches : SaveAndFinish(w, Patched(job[w].trip, patch))
    BY <1>2 DEF UpdateTrip
  <2> QED
    BY <1>0, <2>1, <2>2, PatchedType
<1>3. CASE SetTripDraftVisibility(w)
  <2>1. At(w, "loaded") /\ job[w].trip \in Trip
    BY <1>3, AtJob DEF SetTripDraftVisibility, TypeInv
  <2>2. PICK dv \in {"PRIVATE", "PUBLIC"} :
          SaveAndFinish(w, [job[w].trip EXCEPT !.visibility = dv])
    BY <1>3 DEF SetTripDraftVisibility
  <2>3. [job[w].trip EXCEPT !.visibility = dv] \in Trip
    BY <2>1 DEF Trip, Visibilities
  <2> QED
    BY <1>0, <2>1, <2>2, <2>3
<1>4. CASE AddTripOrganizer(w)
  <2>1. At(w, "loaded") /\ job[w].trip \in Trip
    BY <1>4, AtJob DEF AddTripOrganizer, TypeInv
  <2>2. PICK m \in Members :
          SaveAndFinish(w, [job[w].trip EXCEPT !.organizers = @ \cup {m}])
    BY <1>4 DEF AddTripOrganizer
  <2>3. [job[w].trip EXCEPT !.organizers = @ \cup {m}] \in Trip
    BY <2>1 DEF Trip
  <2> QED
    BY <1>0, <2>1, <2>2, <2>3
<1>5. CASE RemoveTripOrganizer(w)
  <2>1. At(w, "loaded") /\ job[w].trip \in Trip
    BY <1>5, AtJob DEF RemoveTripOrganizer, TypeInv
  <2>2. PICK m \in Members :
          SaveAndFinish(w, [job[w].trip EXCEPT !.organizers = @ \ {m}])
    BY <1>5 DEF RemoveTripOrganizer
  <2>3. [job[w].trip EXCEPT !.organizers = @ \ {m}] \in Trip
    BY <2>1 DEF Trip
  <2> QED
    BY <1>0, <2>1, <2>2, <2>3
<1>6. CASE CancelTrip(w)
  <2>1. At(w, "loaded") /\ job[w].trip \in Trip
    BY <1>6, AtJob DEF CancelTrip, TypeInv
  <2>2. [job[w].trip EXCEPT !.status = "CANCELED"] \in Trip
    BY <2>1 DEF Trip, Statuses
  <2> QED
    BY <1>0, <1>6, <2>1, <2>2 DEF CancelTrip
<1>7. CASE PublishTrip(w)
  <2>1. At(w, "loaded") /\ job[w].trip \in Trip
    BY <1>7, AtJob DEF PublishTrip, TypeInv
  <2> QED
    BY <1>0, <1>7, <2>1, PublishedType DEF PublishTrip
<1>8. CASE SaveAttendance(w)
  <2>1. At(w, "save") /\ job[w].trip \in Trip
    BY <1>8, AtJob DEF SaveAttendance, TypeInv
  <2> QED
    BY <1>8, <2>1 DEF SaveAttendance, At
<1> QED
  BY <1>1, <1>2, <1>3, <1>4, <1>5, <1>6, <1>7, <1>8 DEF Step

\* A save of such a trip or an upsert is a step of the ledger.
LEMMA StepIsLedgerStep ==
  ASSUME TypeInv, Postgres, [Next]_vars
  PROVE  Ledger!StaleNext \/ UNCHANGED Ledger!ledger
<1>1. ASSUME UNCHANGED <<trips, rsvps>>
      PROVE  UNCHANGED Ledger!ledger
  BY <1>1 DEF Ledger!ledger, LedgerStatus, LedgerCapacity, LedgerGoing, Exists, Going
<1>2. ASSUME NEW w \in Workers, NEW t \in Trip, job[w] # Idle, UNCHANGED rsvps, Save(w, t)
      PROVE  Ledger!StaleNext \/ UNCHANGED Ledger!ledger
  <2>1. At(w, job[w].pc)
    BY <1>2 DEF At
  <2> QED
    BY <1>2, <2>1, SaveIsLedgerStep
<1>3. ASSUME NEW w \in Workers, Step(w)
      PROVE  Ledger!StaleNext \/ UNCHANGED Ledger!ledger
  BY <1>1, <1>2, <1>3, StepWrites, UpsertIsLedgerStep
<1>4. CASE UNCHANGED vars
  BY <1>1, <1>4 DEF vars
<1>5. CASE Next
  BY <1>3, <1>5, CreateIsLedgerStep DEF Next, Ledger!StaleNext
<1> QED
  BY <1>4, <1>5

\* On Postgres overlapping requests implement the ledger with its stale steps:
\* an RSVP is changed only while the trip is published, a YES is admitted only
\* while there is room, a published trip's capacity is not cut below the
\* attendance, a trip is published only from a draft and cancelled for good.
THEOREM PostgresImplementsStaleLedger ==
  ASSUME Postgres
  PROVE  Spec => ImplementsStaleLedger
<1>1. Init => Ledger!Init
  BY DEF Init, Ledger!Init, LedgerStatus, LedgerCapacity, LedgerGoing, Exists, Going, NoCapacity
<1>2. TypeInv /\ [Next]_vars => [Ledger!StaleNext]_(Ledger!ledger)
  BY StepIsLedgerStep
<1>3. Spec => []TypeInv
  BY TypeInit, TypeStep, PTL DEF Spec
<1> QED
  BY <1>1, <1>2, <1>3, PTL DEF Spec, ImplementsStaleLedger, Ledger!StaleSpec

\* On Postgres no interleaving un-cancels a trip.
THEOREM PostgresCancelIsFinal ==
  ASSUME Postgres
  PROVE  Spec => CancelIsFinal
<1>1. ASSUME TypeInv, [Next]_vars, NEW id \in TripIDs, HasStatus(id, "CANCELED")
      PROVE  HasStatus(id, "CANCELED")'
  <2>1. LedgerStatus[id] = "CANCELED"
    BY <1>1 DEF LedgerStatus, HasStatus
  <2>2. LedgerStatus \in [TripIDs -> Statuses \cup {"NONE"}]
    BY <1>1 DEF LedgerStatus, TypeInv, TypeOK, Exists, Trip
  <2>3. Ledger!StaleNext \/ UNCHANGED Ledger!ledger
    BY <1>1, StepIsLedgerStep
  <2>4. LedgerStatus'[id] = "CANCELED"
    BY <2>1, <2>2, <2>3
       DEF Ledger!StaleNext, Ledger!Next, Ledger!ledger, Ledger!Draft, Ledger!SetCapacity,
           Ledger!Publish, Ledger!Cancel, Ledger!Join, Ledger!Leave, Ledger!Reopen,
           Ledger!Restate
  <2> QED
    BY <2>4 DEF LedgerStatus, HasStatus
<1>2. TypeInv /\ [Next]_vars
        => [\A id \in TripIDs : HasStatus(id, "CANCELED") => HasStatus(id, "CANCELED")']_vars
  BY <1>1
<1>3. Spec => []TypeInv
  BY TypeInit, TypeStep, PTL DEF Spec
<1> QED
  BY <1>2, <1>3, PTL DEF Spec, CancelIsFinal

-----------------------------------------------------------------------------
(* What blind saves preserve on either backend.  A property of single       *)
(* records survives them when it also holds of every copy in flight.        *)

\* The columns of a record in memory that belong together: a draft has no
\* attending-rigs count, a published trip was a PUBLIC draft and has one.
Whole(t) ==
  /\ t.status = "DRAFT" => t.attending = Unset
  /\ t.status = "PUBLISHED" => t.visibility = "PUBLIC" /\ t.attending >= 0

\* A draft always says who may see it; in memory a record is whole.
Sound(t) ==
  /\ t.status = "DRAFT" => t.visibility # "NONE"
  /\ Memory => Whole(t)

RecordsSound == \A id \in TripIDs : Exists(id) => Sound(trips[id])

\* Of a request in flight: its copy has organizers once they are loaded; a
\* count or an RSVP is under way only for a copy of a published trip; and in
\* memory the copy is as whole as the stored record.
CopyInv(j) ==
  /\ j.pc # "organizers" => j.trip.organizers # {}
  /\ j.pc \in {"attendance", "count", "save", "upsert"} => j.trip.status = "PUBLISHED"
  /\ Memory => Sound(j.trip)

RecordInv ==
  /\ OrganizersNeverEmpty
  /\ RecordsSound
  /\ \A w \in Workers : job[w] # Idle => CopyInv(job[w])

LEMMA StoredKeepsRecord ==
  ASSUME NEW t \in Trip, t.organizers # {}, Memory => Sound(t)
  PROVE  Stored(t).organizers # {} /\ Sound(Stored(t))
<1>1. CASE Memory
  BY <1>1 DEF Stored
<1>2. CASE ~Memory
  <2>1. /\ Stored(t).organizers = t.organizers
        /\ Stored(t).status = t.status
        /\ Stored(t).visibility = draftVisibilityForDB(t)
    BY <1>2 DEF Stored, Trip
  <2> QED
    BY <1>2, <2>1 DEF Sound, Whole, draftVisibilityForDB
<1> QED
  BY <1>1, <1>2

\* A save of such a copy, by a job that then ends or goes on with the copy.
LEMMA SaveKeepsRecordInv ==
  ASSUME TypeInv, RecordInv, NEW w \in Workers, NEW pc, At(w, pc),
         NEW t \in Trip, t.organizers # {}, Memory => Sound(t), Save(w, t),
         NEW j, job' = [job EXCEPT ![w] = j], j # Idle => CopyInv(j)
  PROVE  RecordInv'
<1>1. job[w].id \in TripIDs
  BY AtJob DEF TypeInv
<1>2. \A id \in TripIDs : trips'[id] = trips[id] \/ trips'[id] = Stored(t)
  BY <1>1 DEF Save, TypeInv, TypeOK
<1>3. OrganizersNeverEmpty' /\ RecordsSound'
  BY <1>2, StoredKeepsRecord DEF RecordInv, OrganizersNeverEmpty, RecordsSound, Exists, Sound, Whole
<1>4. \A v \in Workers : job'[v] # Idle => CopyInv(job'[v])
  BY DEF RecordInv, TypeInv, TypeOK
<1>5. (\A v \in Workers : job[v] # Idle => CopyInv(job[v]))'
  BY <1>4 DEF CopyInv, Sound, Whole
<1> QED
  BY <1>3, <1>5 DEF RecordInv

\* A step of one job that leaves the trips alone.
LEMMA LocalKeepsRecordInv ==
  ASSUME TypeInv, RecordInv, NEW w \in Workers, UNCHANGED trips,
         NEW j, job' = [job EXCEPT ![w] = j], j # Idle => CopyInv(j)
  PROVE  RecordInv'
<1>1. OrganizersNeverEmpty' /\ RecordsSound'
  BY DEF RecordInv, OrganizersNeverEmpty, RecordsSound, Exists, Sound, Whole
<1>2. \A v \in Workers : job'[v] # Idle => CopyInv(job'[v])
  BY DEF RecordInv, TypeInv, TypeOK
<1>3. (\A v \in Workers : job[v] # Idle => CopyInv(job[v]))'
  BY <1>2 DEF CopyInv, Sound, Whole
<1> QED
  BY <1>1, <1>3 DEF RecordInv

LEMMA RecordInit == Init => RecordInv
BY DEF Init, RecordInv, OrganizersNeverEmpty, RecordsSound, Exists

\* A handler that makes one write of such a copy.
LEMMA SaveAndFinishKeepsRecordInv ==
  ASSUME TypeInv, RecordInv, NEW w \in Workers, At(w, "loaded"),
         NEW t \in Trip, t.organizers # {}, Memory => Sound(t), SaveAndFinish(w, t)
  PROVE  RecordInv'
BY SaveKeepsRecordInv DEF SaveAndFinish, Finish

\* The copy that a handler decides on once it is loaded.
LEMMA LoadedCopy ==
  ASSUME TypeInv, RecordInv, NEW w \in Workers, At(w, "loaded")
  PROVE  /\ job[w] \in Job
         /\ job[w].trip \in Trip
         /\ job[w].trip.organizers # {}
         /\ Memory => Sound(job[w].trip)
BY AtJob DEF TypeInv, RecordInv, CopyInv, At

LEMMA RecordStep == TypeInv /\ RecordInv /\ [Next]_vars => RecordInv'
<1> SUFFICES ASSUME TypeInv, RecordInv, [Next]_vars
             PROVE  RecordInv'
  OBVIOUS
<1>1. ASSUME NEW c \in Members, NEW id \in TripIDs, CreateTripDraft(c, id)
      PROVE  RecordInv'
  <2>1. NewDraft(c) \in Trip /\ NewDraft(c).organizers # {} /\ (Memory => Sound(NewDraft(c)))
    BY NewDraftType DEF NewDraft, Sound, Whole, Memory, Postgres
  <2>2. \A i \in TripIDs : trips'[i] = trips[i] \/ trips'[i] = Stored(NewDraft(c))
    BY <1>1 DEF CreateTripDraft, TypeInv, TypeOK
  <2>3. OrganizersNeverEmpty' /\ RecordsSound'
    BY <2>1, <2>2, StoredKeepsRecord
       DEF RecordInv, OrganizersNeverEmpty, RecordsSound, Exists, Sound, Whole
  <2>4. (\A w \in Workers : job[w] # Idle => CopyInv(job[w]))'
    BY <1>1 DEF CreateTripDraft, RecordInv, CopyInv, Sound, Whole
  <2> QED
    BY <2>3, <2>4 DEF RecordInv
<1>2. ASSUME NEW w \in Workers, NEW id \in TripIDs, LoadTrip(w, id)
      PROVE  RecordInv'
  <2>1. trips[id].organizers # {} /\ Sound(trips[id])
    BY <1>2 DEF LoadTrip, RecordInv, OrganizersNeverEmpty, RecordsSound, Exists
  <2>2. CopyInv(Fetched("loaded", id, trips[id]))
    BY <2>1 DEF CopyInv, Fetched
  <2> QED
    BY <1>2, <2>2, LocalKeepsRecordInv DEF LoadTrip
<1>3. ASSUME NEW w \in Workers, NEW id \in TripIDs, LoadRow(w, id)
      PROVE  RecordInv'
  <2> DEFINE row == [trips[id] EXCEPT !.organizers = {}]
  <2>1. CopyInv(Fetched("organizers", id, row))
    BY <1>3 DEF LoadRow, CopyInv, Fetched, Memory, Postgres
  <2> QED
    BY <1>3, <2>1, LocalKeepsRecordInv DEF LoadRow
<1>4. ASSUME NEW w \in Workers, LoadOrganizers(w)
      PROVE  RecordInv'
  <2>1. /\ job[w] \in Job /\ job[w].trip \in Trip /\ job[w] # Idle
        /\ trips[job[w].id] # NoTrip /\ job[w].id \in TripIDs /\ job[w].pc = "organizers"
    BY <1>4, AtJob, ServiceAssumption DEF LoadOrganizers, At, TypeInv, JobsHaveTrips
  <2> DEFINE o == trips[job[w].id].organizers
             p == IF job[w].trip.status = "PUBLISHED" THEN "attendance" ELSE "loaded"
             j == [job[w] EXCEPT !.trip.organizers = o, !.pc = p]
  <2>2. o # {}
    BY <2>1 DEF RecordInv, OrganizersNeverEmpty, Exists
  <2>3. job' = [job EXCEPT ![w] = j]
    BY <1>4, <2>1 DEF LoadOrganizers, TypeInv, TypeOK
  <2>4. Memory => Sound(job[w].trip)
    BY <2>1 DEF RecordInv, CopyInv
  <2>5. /\ j.pc = p
        /\ j.trip.organizers = o
        /\ j.trip.status = job[w].trip.status
        /\ j.trip.visibility = job[w].trip.visibility
        /\ j.trip.attending = job[w].trip.attending
    BY <2>1 DEF Job, Trip
  <2>6. CopyInv(j)
    <3> HIDE DEF j, o
    <3> QED
      BY <2>2, <2>4, <2>5 DEF CopyInv, Sound, Whole
  <2> HIDE DEF j
  <2> QED
    BY <1>4, <2>3, <2>6, LocalKeepsRecordInv DEF LoadOrganizers
<1>5. ASSUME NEW w \in Workers, LoadAttendance(w)
      PROVE  RecordInv'
  <2>1. /\ job[w] \in Job /\ job[w].trip \in Trip /\ job[w] # Idle
        /\ job[w].id \in TripIDs /\ job[w].pc = "attendance"
    BY <1>5, AtJob DEF LoadAttendance, At, TypeInv
  <2> DEFINE n == Cardinality(Going(job[w].id))
             j == [job[w] EXCEPT !.trip.attending = n, !.pc = "loaded"]
  <2>2. n >= 0
    BY <2>1, GoingFinite
  <2>3. job' = [job EXCEPT ![w] = j]
    BY <1>5, <2>1 DEF LoadAttendance, TypeInv, TypeOK
  <2>4. CopyInv(job[w])
    BY <2>1 DEF RecordInv
  <2> HIDE DEF n
  <2>5. /\ j.pc = "loaded"
        /\ j.trip.organizers = job[w].trip.organizers
        /\ j.trip.status = job[w].trip.status
        /\ j.trip.visibility = job[w].trip.visibility
        /\ j.trip.attending = n
    BY <2>1 DEF Job, Trip
  <2> HIDE DEF j
  <2>6. CopyInv(j)
    BY <2>1, <2>2, <2>4, <2>5 DEF CopyInv, Sound, Whole
  <2> QED
    BY <1>5, <2>3, <2>6, LocalKeepsRecordInv DEF LoadAttendance
<1>6. ASSUME NEW w \in Workers, UpdateTrip(w)
      PROVE  RecordInv'
  <2> DEFINE t == job[w].trip
  <2>1. At(w, "loaded")
    BY <1>6 DEF UpdateTrip
  <2>2. t \in Trip /\ t.organizers # {} /\ (Memory => Sound(t))
    BY <2>1, LoadedCopy
  <2>3. PICK patch \in Patches : SaveAndFinish(w, Patched(t, patch))
    BY <1>6 DEF UpdateTrip
  <2> HIDE DEF t
  <2>4. /\ Patched(t, patch).organizers = t.organizers
        /\ Patched(t, patch).status = t.status
        /\ Patched(t, patch).visibility = t.visibility
        /\ Patched(t, patch).attending = t.attending
    BY <2>2 DEF Patched, Trip
  <2>5. Patched(t, patch) \in Trip
    BY <2>2, PatchedType
  <2> QED
    BY <2>1, <2>2, <2>3, <2>4, <2>5, SaveAndFinishKeepsRecordInv DEF Sound, Whole
<1>7. ASSUME NEW w \in Workers, SetTripDraftVisibility(w)
      PROVE  RecordInv'
  <2> DEFINE t == job[w].trip
  <2>1. At(w, "loaded")
    BY <1>7 DEF SetTripDraftVisibility
  <2>2. t \in Trip /\ t.organizers # {} /\ (Memory => Sound(t)) /\ t.status = "DRAFT"
    BY <1>7, <2>1, LoadedCopy DEF SetTripDraftVisibility, MaySetVisibility
  <2>3. PICK dv \in {"PRIVATE", "PUBLIC"} : SaveAndFinish(w, [t EXCEPT !.visibility = dv])
    BY <1>7 DEF SetTripDraftVisibility
  <2> HIDE DEF t
  <2> DEFINE n == [t EXCEPT !.visibility = dv]
  <2>4. /\ n \in Trip
        /\ n.organizers = t.organizers
        /\ n.status = "DRAFT"
        /\ n.visibility = dv
        /\ n.attending = t.attending
    BY <2>2 DEF Trip, Visibilities
  <2>5. SaveAndFinish(w, n)
    BY <2>3
  <2> HIDE DEF n
  <2> QED
    BY <2>1, <2>2, <2>4, <2>5, SaveAndFinishKeepsRecordInv DEF Sound, Whole, Memory, Postgres
<1>8. ASSUME NEW w \in Workers, AddTripOrganizer(w) \/ RemoveTripOrganizer(w)
      PROVE  RecordInv'
  <2> DEFINE t == job[w].trip
  <2>1. At(w, "loaded")
    BY <1>8 DEF AddTripOrganizer, RemoveTripOrganizer
  <2>2. t \in Trip /\ t.organizers # {} /\ (Memory => Sound(t))
    BY <2>1, LoadedCopy
  <2>3. PICK m \in Members :
          \/ SaveAndFinish(w, [t EXCEPT !.organizers = @ \cup {m}])
          \/ t.organizers # {m} /\ SaveAndFinish(w, [t EXCEPT !.organizers = @ \ {m}])
    BY <1>8 DEF AddTripOrganizer, RemoveTripOrganizer
  <2> HIDE DEF t
  <2>4. PICK o \in SUBSET Members : o # {} /\ SaveAndFinish(w, [t EXCEPT !.organizers = o])
    <3>1. t.organizers \cup {m} \in SUBSET Members /\ t.organizers \cup {m} # {}
      BY <2>2 DEF Trip
    <3>2. t.organizers \ {m} \in SUBSET Members
      BY <2>2 DEF Trip
    <3>3. t.organizers # {m} => t.organizers \ {m} # {}
      BY <2>2
    <3> QED
      BY <2>3, <3>1, <3>2, <3>3
  <2> DEFINE n == [t EXCEPT !.organizers = o]
  <2>5. /\ n \in Trip
        /\ n.organizers = o
        /\ n.status = t.status
        /\ n.visibility = t.visibility
        /\ n.attending = t.attending
    BY <2>2 DEF Trip
  <2>6. SaveAndFinish(w, n)
    BY <2>4
  <2> HIDE DEF n
  <2> QED
    BY <2>1, <2>2, <2>4, <2>5, <2>6, SaveAndFinishKeepsRecordInv DEF Sound, Whole
<1>9. ASSUME NEW w \in Workers, CancelTrip(w)
      PROVE  RecordInv'
  <2> DEFINE t == job[w].trip
             n == [t EXCEPT !.status = "CANCELED"]
  <2>1. At(w, "loaded") /\ SaveAndFinish(w, n)
    BY <1>9 DEF CancelTrip
  <2>2. t \in Trip /\ t.organizers # {}
    BY <2>1, LoadedCopy
  <2> HIDE DEF t
  <2>3. n \in Trip /\ n.organizers = t.organizers /\ n.status = "CANCELED"
    BY <2>2 DEF Trip, Statuses
  <2> HIDE DEF n
  <2>4. Memory => Sound(n)
    BY <2>3 DEF Sound, Whole, Memory, Postgres
  <2> QED
    BY <2>1, <2>2, <2>3, <2>4, SaveAndFinishKeepsRecordInv
<1>10. ASSUME NEW w \in Workers, PublishTrip(w)
       PROVE  RecordInv'
  <2> DEFINE t == job[w].trip
  <2>1. At(w, "loaded") /\ SaveAndFinish(w, Published(t))
    BY <1>10 DEF PublishTrip
  <2>2. t \in Trip /\ t.organizers # {} /\ (Memory => Sound(t))
    BY <2>1, LoadedCopy
  <2>3. t.visibility = "PUBLIC" /\ t.status = "DRAFT"
    BY <1>10 DEF PublishTrip, MayPublish
  <2> HIDE DEF t
  <2>4. /\ Published(t).organizers = t.organizers
        /\ Published(t).status = "PUBLISHED"
        /\ Published(t).visibility = t.visibility
        /\ Published(t).attending = AttendingOrZero(t)
    BY <2>2 DEF Published, Trip
  <2>5. Memory => AttendingOrZero(t) >= 0
    BY <2>2, <2>3 DEF Sound, Whole, AttendingOrZero
  <2>6. Memory => Sound(Published(t))
    BY <2>3, <2>4, <2>5 DEF Sound, Whole, Memory, Postgres
  <2> QED
    BY <2>1, <2>2, <2>4, <2>6, PublishedType, SaveAndFinishKeepsRecordInv
<1>11. ASSUME NEW w \in Workers, Answer(w) \/ Abandon(w) \/ UpsertRSVP(w)
       PROVE  RecordInv'
  BY <1>11, LocalKeepsRecordInv DEF Answer, Abandon, UpsertRSVP, Finish
<1>12. ASSUME NEW w \in Workers, SetMyRSVP(w)
       PROVE  RecordInv'
  <2>1. At(w, "loaded") /\ UNCHANGED trips /\ job[w].trip.status = "PUBLISHED"
    BY <1>12 DEF SetMyRSVP, MayRSVP
  <2>2. job[w] \in Job /\ job[w].trip.organizers # {} /\ (Memory => Sound(job[w].trip))
    BY <2>1, LoadedCopy
  <2>3. PICK c \in Members, r \in Responses :
          job' = [job EXCEPT ![w].pc = "count",
                             ![w].caller = c,
                             ![w].existing = rsvps[job[w].id][c],
                             ![w].response = r]
    BY <1>12 DEF SetMyRSVP
  <2> DEFINE j == [job[w] EXCEPT !.pc = "count",
                                 !.caller = c,
                                 !.existing = rsvps[job[w].id][c],
                                 !.response = r]
  <2>4. job' = [job EXCEPT ![w] = j]
    BY <2>2, <2>3 DEF TypeInv, TypeOK
  <2>5. j.pc = "count" /\ j.trip = job[w].trip
    BY <2>2 DEF Job
  <2> HIDE DEF j
  <2>6. CopyInv(j)
    BY <2>1, <2>2, <2>5 DEF CopyInv
  <2> QED
    BY <2>1, <2>4, <2>6, LocalKeepsRecordInv
<1>13. ASSUME NEW w \in Workers, CountYesByTrip(w)
       PROVE  RecordInv'
  <2>1. /\ job[w] \in Job /\ job[w].trip \in Trip /\ job[w] # Idle
        /\ job[w].id \in TripIDs /\ job[w].pc = "count"
    BY <1>13, AtJob DEF CountYesByTrip, At, TypeInv
  <2> DEFINE att == NewAttendance(Cardinality(Going(job[w].id)),
                                  Delta(job[w].existing, job[w].response))
             j == [job[w] EXCEPT !.pc = "save", !.trip.attending = att]
  <2>2. att >= 0
    <3>1. Cardinality(Going(job[w].id)) \in Int /\ Delta(job[w].existing, job[w].response) \in Int
      BY <2>1, GoingFinite DEF Delta
    <3> QED
      BY <3>1 DEF NewAttendance
  <2>3. job' = [job EXCEPT ![w] = Idle] \/ job' = [job EXCEPT ![w] = j]
    BY <1>13, <2>1 DEF CountYesByTrip, Finish, TypeInv, TypeOK
  <2>4. CopyInv(job[w])
    BY <2>1 DEF RecordInv
  <2> HIDE DEF att
  <2>5. /\ j.pc = "save"
        /\ j.trip.organizers = job[w].trip.organizers
        /\ j.trip.status = job[w].trip.status
        /\ j.trip.visibility = job[w].trip.visibility
        /\ j.trip.attending = att
    BY <2>1 DEF Job, Trip
  <2> HIDE DEF j
  <2>6. CopyInv(j)
    BY <2>1, <2>2, <2>4, <2>5 DEF CopyInv, Sound, Whole
  <2> QED
    BY <1>13, <2>3, <2>6, LocalKeepsRecordInv DEF CountYesByTrip
<1>14. ASSUME NEW w \in Workers, SaveAttendance(w)
       PROVE  RecordInv'
  <2>1. /\ At(w, "save") /\ Save(w, job[w].trip)
        /\ job[w] \in Job /\ job[w].trip \in Trip /\ job[w] # Idle
    BY <1>14, AtJob DEF SaveAttendance, At, TypeInv
  <2> DEFINE j == [job[w] EXCEPT !.pc = "upsert"]
  <2>2. job' = [job EXCEPT ![w] = Idle] \/ job' = [job EXCEPT ![w] = j]
    BY <1>14, <2>1 DEF SaveAttendance, Finish, TypeInv, TypeOK
  <2>3. CopyInv(job[w]) /\ job[w].pc = "save"
    BY <2>1 DEF RecordInv, At
  <2>4. j.pc = "upsert" /\ j.trip = job[w].trip
    BY <2>1 DEF Job
  <2> HIDE DEF j
  <2>5. CopyInv(j)
    BY <2>3, <2>4 DEF CopyInv
  <2>6. job[w].trip.organizers # {} /\ (Memory => Sound(job[w].trip))
    BY <2>3 DEF CopyInv
  <2> QED
    BY <2>1, <2>2, <2>5, <2>6, SaveKeepsRecordInv
<1>15. CASE UNCHANGED vars
  BY <1>15 DEF vars, RecordInv, OrganizersNeverEmpty, RecordsSound, Exists, CopyInv, Sound, Whole
<1>16. CASE Next
  <2>1. ASSUME NEW w \in Workers, Step(w)
        PROVE  RecordInv'
    BY <2>1, <1>2, <1>3, <1>4, <1>5, <1>6, <1>7, <1>8, <1>9, <1>10, <1>11,
       <1>12, <1>13, <1>14 DEF Step
  <2> QED
    BY <1>16, <1>1, <2>1 DEF Next
<1> QED
  BY <1>15, <1>16

LEMMA RecordCorrect == Spec => []RecordInv
BY TypeInit, TypeStep, RecordInit, RecordStep, PTL DEF Spec

\* However the requests overlap, and even when an organizer is removed on the
\* strength of an old copy's list, no trip loses its last organizer: every copy
\* that a handler saves was loaded with one and keeps one.
THEOREM OrganizersSafe == Spec => []OrganizersNeverEmpty
<1>1. RecordInv => OrganizersNeverEmpty
  BY DEF RecordInv
<1> QED
  BY <1>1, RecordCorrect, PTL

\* On Postgres no accepted save replaces all the organizers of a trip: a stored
\* trip has some, and syncOrganizers cannot delete the last of them.
LEMMA SaveKeepsOrganizer ==
  ASSUME Postgres, TypeInv, RecordInv, NEW w \in Workers, job[w] # Idle,
         NEW t \in Trip, Save(w, t), NEW id \in TripIDs, Exists(id)
  PROVE  trips[id].organizers \cap trips'[id].organizers # {}
<1>1. job[w].id \in TripIDs /\ trips[id].organizers # {}
  BY DEF TypeInv, TypeOK, Job, RecordInv, OrganizersNeverEmpty
<1>2. CASE trips'[id] = trips[id]
  BY <1>1, <1>2
<1>3. CASE /\ OrganizersAllowed(trips[id], t)
           /\ trips'[id] = Stored(t)
  <2>1. trips'[id].organizers = t.organizers
    BY <1>3 DEF Stored, Trip
  <2> QED
    BY <1>1, <1>3, <2>1 DEF OrganizersAllowed
<1> QED
  BY <1>1, <1>2, <1>3 DEF Save, SaveAccepted, TypeInv, TypeOK

\* On Postgres, however the requests overlap and however old the copy that is
\* saved, each step leaves a trip at least one of the organizers that it had.
THEOREM PostgresSomeOrganizerStays ==
  ASSUME Postgres
  PROVE  Spec => SomeOrganizerStays
<1>1. ASSUME TypeInv, RecordInv, [Next]_vars, NEW id \in TripIDs, Exists(id)
      PROVE  trips[id].organizers \cap trips'[id].organizers # {}
  <2>1. CASE trips'[id] = trips[id]
    BY <1>1, <2>1 DEF RecordInv, OrganizersNeverEmpty
  <2>2. ASSUME NEW c \in Members, NEW i \in TripIDs, CreateTripDraft(c, i)
        PROVE  trips'[id] = trips[id]
    BY <1>1, <2>2 DEF CreateTripDraft, Exists, TypeInv, TypeOK
  <2>3. ASSUME NEW w \in Workers, Step(w)
        PROVE  trips[id].organizers \cap trips'[id].organizers # {}
    <3>1. CASE UNCHANGED trips
      BY <2>1, <3>1
    <3>2. CASE job[w] # Idle /\ \E t \in Trip : Save(w, t)
      BY <1>1, <3>2, SaveKeepsOrganizer
    <3> QED
      BY <1>1, <2>3, <3>1, <3>2, StepWrites DEF UpsertRSVP
  <2>4. CASE UNCHANGED vars
    BY <2>1, <2>4 DEF vars
  <2> QED
    BY <1>1, <2>1, <2>2, <2>3, <2>4 DEF Next
<1>2. TypeInv /\ RecordInv /\ [Next]_vars
        => [\A id \in TripIDs :
              Exists(id) => trips[id].organizers \cap trips'[id].organizers # {}]_vars
  BY <1>1
<1>3. Spec => []TypeInv
  BY TypeInit, TypeStep, PTL DEF Spec
<1> QED
  BY <1>2, <1>3, RecordCorrect, PTL DEF Spec, SomeOrganizerStays

\* However the requests overlap, each trip has a member that can still move it
\* on: an organizer of one that is not private, the creator of one that is.
THEOREM NobodyIsLockedOut == Spec => []NobodyLockedOut
<1>1. TypeInv /\ RecordInv => NobodyLockedOut
  <2> SUFFICES ASSUME TypeInv, RecordInv, NEW id \in TripIDs, Exists(id)
               PROVE  \E m \in Members : MayManage(trips[id], m) \/ MaySetVisibility(trips[id], m)
    BY DEF NobodyLockedOut
  <2>1. trips[id] \in Trip /\ trips[id].organizers # {} /\ Sound(trips[id])
    BY DEF TypeInv, TypeOK, Exists, RecordInv, OrganizersNeverEmpty, RecordsSound
  <2>2. PICK m \in Members : m \in trips[id].organizers
    BY <2>1 DEF Trip
  <2>3. CASE trips[id].status = "DRAFT" /\ trips[id].visibility = "PRIVATE"
    <3>1. trips[id].creator \in Members /\ MaySetVisibility(trips[id], trips[id].creator)
      BY <2>1, <2>3 DEF Trip, MaySetVisibility, isTripVisibleToCaller, isDraftVisibleToCaller
    <3> QED
      BY <3>1
  <2>4. CASE ~(trips[id].status = "DRAFT" /\ trips[id].visibility = "PRIVATE")
    <3>1. trips[id].status \in {"PUBLISHED", "CANCELED"} \/ trips[id].visibility = "PUBLIC"
      BY <2>1, <2>4 DEF Trip, Statuses, Visibilities, Sound, Whole
    <3>2. MayManage(trips[id], m)
      BY <2>1, <2>2, <2>4, <3>1
      DEF Trip, Statuses, MayManage, isTripVisibleToCaller, isDraftVisibleToCaller, isOrganizer
    <3> QED
      BY <3>2
  <2> QED
    BY <2>3, <2>4
<1>2. Spec => []TypeInv
  BY TypeInit, TypeStep, PTL DEF Spec
<1> QED
  BY <1>1, <1>2, RecordCorrect, PTL

=============================================================================
