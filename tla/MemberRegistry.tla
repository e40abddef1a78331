---------------------------- MODULE MemberRegistry ----------------------------
(***************************************************************************)
(* The members application service and its repository: who may provision a *)
(* profile for a subject, and how a profile is changed, under concurrent   *)
(* requests.  The checks of a request and its write are separate calls of  *)
(* the repository; each call is atomic.                                    *)
(*                                                                         *)
(* Emails stand for addresses up to letter case, as both EqualFold and the *)
(* citext column compare them.  The display name and the alias, which no   *)
(* other member's request reads, are left out, and so is isActive, which   *)
(* no request changes.                                                     *)
(***************************************************************************)
EXTENDS Naturals

CONSTANTS
  Subjects,       \* authenticated subjects
  MemberIDs,      \* identifiers newMemberID can return
  Emails,
  VehicleFields,  \* fields of a vehicle profile, each set or not
  Workers,        \* requests in flight at one time
  Backend,        \* "memory" or "postgres"
  NoMember, NoID, Keep, Idle

Member == [subject : Subjects, email : Emails, vehicle : SUBSET VehicleFields]

\* A patch: the email or Keep, and the vehicle fields set and set to null.
Patch == {p \in [email : Emails \cup {Keep}, set : SUBSET VehicleFields,
                 clear : SUBSET VehicleFields] : p.set \cap p.clear = {}}

ASSUME RegistryAssumption ==
  /\ Backend \in {"memory", "postgres"}
  /\ NoMember \notin Member
  /\ NoID \notin MemberIDs
  /\ Keep \notin Emails

VARIABLES
  members,    \* the repository: the profile of each identifier
  bySubject,  \* the member bound to each subject
  job

vars == <<members, bySubject, job>>

\* A request in flight: the call it makes next, the member it changes (NoID for
\* the one it creates), the record it will write and the patch it applies.
Job == [pc     : {"email", "write"},
        id     : MemberIDs \cup {NoID},
        member : Member,
        patch  : Patch]

ASSUME IdleAssumption == Idle \notin Job

TypeOK ==
  /\ members \in [MemberIDs -> Member \cup {NoMember}]
  /\ bySubject \in [Subjects -> MemberIDs \cup {NoID}]
  /\ job \in [Workers -> Job \cup {Idle}]

At(w, pc) == job[w] # Idle /\ job[w].pc = pc

Finish(w) == job' = [job EXCEPT ![w] = Idle]

Exists(id) == members[id] # NoMember

-----------------------------------------------------------------------------
Init ==
  /\ members = [id \in MemberIDs |-> NoMember]
  /\ bySubject = [s \in Subjects |-> NoID]
  /\ job = [w \in Workers |-> Idle]

\* Mutant: the patch replaces the profile.
replaceVehicleProfile(vehicle, patch) == patch.set \ patch.clear

applyVehicleProfilePatch(vehicle, patch) == (vehicle \cup patch.set) \ patch.clear

\* The subject has no member yet: GetBySubject finds none.  The new profile's
\* fields are those of a patch of an empty one.
CreateMyMember(w, s, patch) ==
  /\ job[w] = Idle
  /\ bySubject[s] = NoID
  /\ patch.email # Keep
  /\ job' = [job EXCEPT ![w] =
       [pc |-> "email", id |-> NoID, patch |-> patch,
        member |-> [subject |-> s, email |-> patch.email,
                    vehicle |-> applyVehicleProfilePatch({}, patch)]]]
  /\ UNCHANGED <<members, bySubject>>

\* Mutant: an email that the request leaves out is stored all the same.
UpdateMyMemberProfileBlindly(w, s, patch) ==
  /\ job[w] = Idle
  /\ bySubject[s] # NoID
  /\ LET m == members[bySubject[s]]
     IN  job' = [job EXCEPT ![w] =
           [pc |-> "write", id |-> bySubject[s], patch |-> patch,
            member |-> [m EXCEPT
              !.email   = patch.email,
              !.vehicle = applyVehicleProfilePatch(@, patch)]]]
  /\ UNCHANGED <<members, bySubject>>

\* The subject's member is loaded; the email is looked up only when given.
UpdateMyMemberProfile(w, s, patch) ==
  /\ job[w] = Idle
  /\ bySubject[s] # NoID
  /\ LET m == members[bySubject[s]]
     IN  job' = [job EXCEPT ![w] =
           [pc |-> IF patch.email = Keep THEN "write" ELSE "email",
            id |-> bySubject[s], patch |-> patch,
            member |-> [m EXCEPT
              !.email   = IF patch.email = Keep THEN @ ELSE patch.email,
              !.vehicle = applyVehicleProfilePatch(@, patch)]]]
  /\ UNCHANGED <<members, bySubject>>

\* No member but the one that is changed has the email.
EmailFree(email, id) ==
  \A i \in MemberIDs \ {id} : Exists(i) => members[i].email # email

\* Mutant: the email is not looked for among the members.
ensureEmailUniqueNever(w) ==
  /\ At(w, "email")
  /\ job' = [job EXCEPT ![w].pc = "write"]
  /\ UNCHANGED <<members, bySubject>>

\* List, and the comparison with every member listed: 409 when one has it.
ensureEmailUnique(w) ==
  /\ At(w, "email")
  /\ IF EmailFree(job[w].member.email, job[w].id)
     THEN job' = [job EXCEPT ![w].pc = "write"]
     ELSE Finish(w)
  /\ UNCHANGED <<members, bySubject>>

\* Mutant: the table has no unique constraint on the email.
WriteAlwaysAccepted(m, id) == TRUE

\* members_email_unique.
WriteAccepted(m, id) == Backend = "postgres" => EmailFree(m.email, id)

\* Mutant: the insert does not look at the subject again.
CreateUnchecked(w, id) ==
  /\ At(w, "write")
  /\ job[w].id = NoID
  /\ ~Exists(id)
  /\ IF WriteAccepted(job[w].member, id)
     THEN /\ members' = [members EXCEPT ![id] = job[w].member]
          /\ bySubject' = [bySubject EXCEPT ![job[w].member.subject] = id]
     ELSE UNCHANGED <<members, bySubject>>
  /\ Finish(w)

Create(w, id) ==
  /\ At(w, "write")
  /\ job[w].id = NoID
  /\ ~Exists(id)
  /\ IF bySubject[job[w].member.subject] = NoID /\ WriteAccepted(job[w].member, id)
     THEN /\ members' = [members EXCEPT ![id] = job[w].member]
          /\ bySubject' = [bySubject EXCEPT ![job[w].member.subject] = id]
     ELSE UNCHANGED <<members, bySubject>>
  /\ Finish(w)

Update(w) ==
  /\ At(w, "write")
  /\ job[w].id # NoID
  /\ IF /\ members[job[w].id].subject = job[w].member.subject
        /\ WriteAccepted(job[w].member, job[w].id)
     THEN members' = [members EXCEPT ![job[w].id] = job[w].member]
     ELSE UNCHANGED members
  /\ Finish(w)
  /\ UNCHANGED bySubject

\* A Postgres call fails or the client goes away between two calls.
Abandon(w) ==
  /\ Backend = "postgres"
  /\ job[w] # Idle
  /\ Finish(w)
  /\ UNCHANGED <<members, bySubject>>

Next ==
  \E w \in Workers :
    \/ \E s \in Subjects, patch \in Patch :
         CreateMyMember(w, s, patch) \/ UpdateMyMemberProfile(w, s, patch)
    \/ ensureEmailUnique(w)
    \/ \E id \in MemberIDs : Create(w, id)
    \/ Update(w)
    \/ Abandon(w)

Spec == Init /\ [][Next]_vars

-----------------------------------------------------------------------------
(* Properties *)

\* Overlapping requests never leave a subject with two members, nor a member
\* that its subject does not lead to.
SubjectsBound ==
  /\ \A id \in MemberIDs : Exists(id) => bySubject[members[id].subject] = id
  /\ \A s \in Subjects : bySubject[s] # NoID =>
       Exists(bySubject[s]) /\ members[bySubject[s]].subject = s

\* No two members share an email address.
EmailsUnique ==
  \A i, j \in MemberIDs :
    Exists(i) /\ Exists(j) /\ members[i].email = members[j].email => i = j

\* Between requests that do not overlap no profile update is lost: the fields
\* that a patch does not name keep the values they have when it is written.
UnnamedFieldsKept ==
  [][\A w \in Workers :
       Update(w) /\ members' # members =>
         LET old   == members[job[w].id]
             new   == members'[job[w].id]
             patch == job[w].patch
         IN  /\ patch.email = Keep => new.email = old.email
             /\ \A f \in VehicleFields \ (patch.set \cup patch.clear) :
                  f \in new.vehicle <=> f \in old.vehicle]_vars

\* Between requests that do not overlap the checks before a write suffice: the
\* database refuses none that passed them, which a client would see as a 500.
ChecksSuffice ==
  \A w \in Workers : At(w, "write") => WriteAccepted(job[w].member, job[w].id)

=============================================================================
