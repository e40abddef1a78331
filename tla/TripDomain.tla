----------------------------- MODULE TripDomain -----------------------------
(***************************************************************************)
(* The trip record the service works on, who may see it and who may change *)
(* it, and what each operation makes of it.  Pure operators: the handlers  *)
(* of TripService call them on the copy of the trip they have loaded.      *)
(*                                                                         *)
(* A trip's text and date columns that publishing requires are abstracted  *)
(* to the set "missing" of those that are NULL or blank.  An integer       *)
(* column that is NULL is 0 for the capacity (a stored one is at least 1)  *)
(* and Unset for the attending-rigs count.                                 *)
(***************************************************************************)
EXTENDS Integers, FiniteSets

CONSTANTS
  Members,     \* provisioned members; a request's caller is one of them
  Fields,      \* nullable fields a trip must have to be published
  MaxCapacity  \* largest capacity a client asks for: bounds the model

ASSUME MembersAssumption == IsFiniteSet(Members)
ASSUME MaxCapacityAssumption == MaxCapacity \in Nat \ {0}

Statuses == {"DRAFT", "PUBLISHED", "CANCELED"}
Visibilities == {"PRIVATE", "PUBLIC", "NONE"}  \* NONE: a NULL column

NoCapacity == 0
Unset == -1

Trip == [status     : Statuses,
         visibility : Visibilities,
         creator    : Members,
         organizers : SUBSET Members,
         capacity   : 0..MaxCapacity,
         attending  : Int,
         missing    : SUBSET Fields]

-----------------------------------------------------------------------------
(* Visibility and authorization *)

isOrganizer(t, caller) == caller \in t.organizers

isDraftVisibleToCaller(t, caller) ==
  /\ t.status = "DRAFT"
  /\ \/ t.visibility = "PUBLIC" /\ isOrganizer(t, caller)
     \/ t.visibility = "PRIVATE" /\ t.creator = caller

isTripVisibleToCaller(t, caller) ==
  t.status \in {"PUBLISHED", "CANCELED"} \/ isDraftVisibleToCaller(t, caller)

\* The visibility check and the organizer check that open Add, Remove, Cancel
\* and Publish.
MayManage(t, caller) ==
  isTripVisibleToCaller(t, caller) /\ isOrganizer(t, caller)

\* The switch on the status that opens UpdateTrip.
MayUpdate(t, caller) ==
  \/ isDraftVisibleToCaller(t, caller)
  \/ t.status = "PUBLISHED" /\ isOrganizer(t, caller)

\* Mutant: the visibility is an organizer's to set.
MaySetVisibilityAsOrganizer(t, caller) ==
  MayManage(t, caller) /\ t.status = "DRAFT"

MaySetVisibility(t, caller) ==
  /\ isTripVisibleToCaller(t, caller)
  /\ t.status = "DRAFT"
  /\ t.creator = caller

\* Mutant: the status is not looked at.
MayRSVPAnyStatus(t, caller) ==
  isTripVisibleToCaller(t, caller) /\ t.capacity >= 1

MayRSVP(t, caller) ==
  /\ isTripVisibleToCaller(t, caller)
  /\ t.status = "PUBLISHED"
  /\ t.capacity >= 1

-----------------------------------------------------------------------------
(* Creating and patching a trip *)

NewDraft(caller) ==
  [status |-> "DRAFT", visibility |-> "PRIVATE", creator |-> caller,
   organizers |-> {caller}, capacity |-> NoCapacity, attending |-> Unset,
   missing |-> Fields]

Keep == -1  \* the patch leaves the capacity alone

\* "valid" is FALSE for a patch that fails a check with no regard to the
\* capacity in force: a null or blank name, a capacity below 1, an unknown
\* artifact, an end date before the start date.
Patch == [valid    : BOOLEAN,
          capacity : Keep..MaxCapacity,
          fill     : SUBSET Fields,
          clear    : SUBSET Fields]

AttendingOrZero(t) == IF t.attending = Unset THEN 0 ELSE t.attending

\* Mutant: the capacity is not compared with the attendance.
PatchAcceptedUncompared(t, patch) == patch.valid

PatchAccepted(t, patch) ==
  /\ patch.valid
  /\ t.status = "PUBLISHED" /\ patch.capacity >= 1
       => patch.capacity >= AttendingOrZero(t)

\* Mutant: a capacity that the patch leaves out is stored all the same.
PatchedBlindly(t, patch) ==
  [t EXCEPT !.capacity = patch.capacity,
            !.missing  = (@ \cup patch.clear) \ patch.fill]

Patched(t, patch) ==
  [t EXCEPT !.capacity = IF patch.capacity = Keep THEN @ ELSE patch.capacity,
            !.missing  = (@ \cup patch.clear) \ patch.fill]

requiredPublishFieldsMissing(t) ==
  t.missing # {} \/ t.capacity < 1 \/ t.organizers = {}

MayPublish(t, caller) ==
  /\ MayManage(t, caller)
  /\ t.status = "DRAFT"
  /\ t.visibility = "PUBLIC"
  /\ ~requiredPublishFieldsMissing(t)

Published(t) ==
  [t EXCEPT !.status = "PUBLISHED", !.attending = AttendingOrZero(t)]

=============================================================================
