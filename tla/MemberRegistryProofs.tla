------------------------ MODULE MemberRegistryProofs ------------------------
(***************************************************************************)
(* Theorems about MemberRegistry, for every set of subjects, identifiers,  *)
(* emails and workers, on either backend.                                  *)
(***************************************************************************)
EXTENDS MemberRegistry, TLAPS

-----------------------------------------------------------------------------
\* A request that changes a member changes one that exists and is bound to its
\* subject: members are never deleted and never change subject.
JobsBound ==
  \A w \in Workers : job[w] # Idle /\ job[w].id # NoID =>
    Exists(job[w].id) /\ members[job[w].id].subject = job[w].member.subject

RegistryInv == TypeOK /\ SubjectsBound /\ JobsBound

LEMMA RegistryInit == Init => RegistryInv
BY DEF Init, RegistryInv, TypeOK, SubjectsBound, JobsBound, Exists

LEMMA PatchedVehicle ==
  ASSUME NEW v \in SUBSET VehicleFields, NEW patch \in Patch
  PROVE  applyVehicleProfilePatch(v, patch) \in SUBSET VehicleFields
BY DEF applyVehicleProfilePatch, Patch

\* A step that leaves the repository alone and gives one worker a new job.
LEMMA JobStep ==
  ASSUME RegistryInv, NEW w \in Workers, UNCHANGED <<members, bySubject>>,
         NEW j \in Job \cup {Idle}, job' = [job EXCEPT ![w] = j],
         j # Idle /\ j.id # NoID =>
           Exists(j.id) /\ members[j.id].subject = j.member.subject
  PROVE  RegistryInv'
<1>1. TypeOK'
  BY DEF RegistryInv, TypeOK
<1>2. SubjectsBound'
  BY DEF RegistryInv, SubjectsBound, Exists
<1>3. JobsBound'
  <2>1. \A v \in Workers : job'[v] = job[v] \/ job'[v] = j
    BY DEF RegistryInv, TypeOK
  <2> QED
    BY <2>1 DEF RegistryInv, JobsBound, Exists
<1> QED
  BY <1>1, <1>2, <1>3 DEF RegistryInv

\* A step that ends one job and writes a record of its subject at an identifier
\* that is, or was not, bound to that subject.
LEMMA WriteStep ==
  ASSUME RegistryInv, NEW w \in Workers, NEW id \in MemberIDs, NEW m \in Member,
         members' = [members EXCEPT ![id] = m],
         bySubject' = [bySubject EXCEPT ![m.subject] = id],
         \/ bySubject[m.subject] = NoID /\ ~Exists(id)
         \/ Exists(id) /\ members[id].subject = m.subject,
         Finish(w)
  PROVE  RegistryInv'
<1>1. m.subject \in Subjects /\ m # NoMember
  BY RegistryAssumption DEF Member
<1>2. TypeOK'
  BY <1>1 DEF RegistryInv, TypeOK, Finish
<1>3. /\ members'[id] = m
      /\ \A i \in MemberIDs \ {id} : members'[i] = members[i]
      /\ bySubject'[m.subject] = id
      /\ \A s \in Subjects \ {m.subject} : bySubject'[s] = bySubject[s]
  BY <1>1 DEF RegistryInv, TypeOK
<1>4. SubjectsBound'
  <2>1. ASSUME NEW i \in MemberIDs, members'[i] # NoMember
        PROVE  bySubject'[members'[i].subject] = i
    <3>1. CASE i = id
      BY <1>3, <3>1
    <3>2. CASE i # id
      <4>1. members'[i] = members[i] /\ bySubject[members[i].subject] = i
        BY <1>3, <2>1, <3>2 DEF RegistryInv, SubjectsBound, Exists
      <4>2. members[i].subject \in Subjects
        BY <2>1, <4>1 DEF RegistryInv, TypeOK, Member
      <4>3. members[i].subject # m.subject
        BY <3>2, <4>1, RegistryAssumption DEF RegistryInv, SubjectsBound, Exists
      <4> QED
        BY <1>3, <4>1, <4>2, <4>3
    <3> QED
      BY <3>1, <3>2
  <2>2. ASSUME NEW s \in Subjects, bySubject'[s] # NoID
        PROVE  members'[bySubject'[s]] # NoMember /\ members'[bySubject'[s]].subject = s
    <3>1. CASE s = m.subject
      BY <1>1, <1>3, <3>1
    <3>2. CASE s # m.subject
      <4>1. /\ bySubject'[s] = bySubject[s]
            /\ bySubject[s] \in MemberIDs
            /\ Exists(bySubject[s])
            /\ members[bySubject[s]].subject = s
        BY <1>3, <2>2, <3>2 DEF RegistryInv, SubjectsBound, TypeOK
      <4>2. bySubject[s] # id
        BY <3>2, <4>1
      <4> QED
        BY <1>3, <4>1, <4>2 DEF Exists
    <3> QED
      BY <3>1, <3>2
  <2> QED
    BY <2>1, <2>2 DEF SubjectsBound, Exists
<1>5. JobsBound'
  <2>1. \A i \in MemberIDs : Exists(i) =>
          members'[i] # NoMember /\ members'[i].subject = members[i].subject
    BY <1>1, <1>3 DEF Exists
  <2>2. \A v \in Workers : job'[v] = job[v] \/ job'[v] = Idle
    BY DEF Finish, RegistryInv, TypeOK
  <2>3. \A v \in Workers : job[v] # Idle /\ job[v].id # NoID => job[v].id \in MemberIDs
    BY DEF RegistryInv, TypeOK, Job
  <2> QED
    BY <2>1, <2>2, <2>3 DEF RegistryInv, JobsBound, Exists
<1> QED
  BY <1>2, <1>4, <1>5 DEF RegistryInv

LEMMA RegistryStep == RegistryInv /\ [Next]_vars => RegistryInv'
<1> SUFFICES ASSUME RegistryInv, [Next]_vars
             PROVE  RegistryInv'
  OBVIOUS
<1>1. ASSUME NEW w \in Workers, NEW s \in Subjects, NEW patch \in Patch,
             CreateMyMember(w, s, patch)
      PROVE  RegistryInv'
  <2> DEFINE m == [subject |-> s, email |-> patch.email,
                   vehicle |-> applyVehicleProfilePatch({}, patch)]
             j == [pc |-> "email", id |-> NoID, patch |-> patch, member |-> m]
  <2>1. m \in Member
    BY <1>1, PatchedVehicle DEF CreateMyMember, Patch, Member
  <2>2. j \in Job /\ j.id = NoID
    BY <2>1 DEF Job
  <2>3. job' = [job EXCEPT ![w] = j] /\ UNCHANGED <<members, bySubject>>
    BY <1>1 DEF CreateMyMember
  <2> HIDE DEF j
  <2> QED
    BY <2>2, <2>3, JobStep
<1>2. ASSUME NEW w \in Workers, NEW s \in Subjects, NEW patch \in Patch,
             UpdateMyMemberProfile(w, s, patch)
      PROVE  RegistryInv'
  <2>1. PICK id \in MemberIDs : id = bySubject[s]
    BY <1>2 DEF UpdateMyMemberProfile, RegistryInv, TypeOK
  <2>2. Exists(id) /\ members[id] \in Member
    BY <1>2, <2>1 DEF UpdateMyMemberProfile, RegistryInv, SubjectsBound, TypeOK, Exists
  <2> DEFINE e == IF patch.email = Keep THEN members[id].email ELSE patch.email
             v == applyVehicleProfilePatch(members[id].vehicle, patch)
             m == [members[id] EXCEPT !.email = e, !.vehicle = v]
             j == [pc |-> IF patch.email = Keep THEN "write" ELSE "email",
                   id |-> id, patch |-> patch, member |-> m]
  <2>3. e \in Emails /\ v \in SUBSET VehicleFields
    BY <2>2, PatchedVehicle DEF Patch, Member
  <2> HIDE DEF e, v
  <2>4. m \in Member /\ m.subject = members[id].subject
    BY <2>2, <2>3 DEF Member
  <2> USE DEF e, v
  <2>5. job' = [job EXCEPT ![w] = j] /\ UNCHANGED <<members, bySubject>>
    BY <1>2, <2>1 DEF UpdateMyMemberProfile
  <2> HIDE DEF m
  <2>6. j \in Job /\ j.id = id /\ j.member = m
    BY <2>4 DEF Job
  <2> HIDE DEF j
  <2> QED
    BY <2>2, <2>4, <2>5, <2>6, JobStep
<1>3. ASSUME NEW w \in Workers, ensureEmailUnique(w)
      PROVE  RegistryInv'
  <2>1. job[w] \in Job /\ job[w] # Idle
    BY <1>3 DEF ensureEmailUnique, At, RegistryInv, TypeOK
  <2> DEFINE j == [job[w] EXCEPT !.pc = "write"]
  <2>2. j \in Job /\ j.id = job[w].id /\ j.member = job[w].member
    BY <2>1 DEF Job
  <2>3. \/ job' = [job EXCEPT ![w] = j]
        \/ job' = [job EXCEPT ![w] = Idle]
    BY <1>3, <2>1 DEF ensureEmailUnique, Finish, RegistryInv, TypeOK
  <2> HIDE DEF j
  <2>4. j.id # NoID => Exists(j.id) /\ members[j.id].subject = j.member.subject
    BY <2>1, <2>2 DEF RegistryInv, JobsBound
  <2> QED
    BY <1>3, <2>2, <2>3, <2>4, JobStep DEF ensureEmailUnique
<1>4. ASSUME NEW w \in Workers, NEW id \in MemberIDs, Create(w, id)
      PROVE  RegistryInv'
  <2>1. job[w].member \in Member
    BY <1>4 DEF Create, At, RegistryInv, TypeOK, Job
  <2>2. CASE UNCHANGED <<members, bySubject>>
    BY <1>4, <2>2, JobStep DEF Create, Finish
  <2>3. CASE /\ bySubject[job[w].member.subject] = NoID
             /\ members' = [members EXCEPT ![id] = job[w].member]
             /\ bySubject' = [bySubject EXCEPT ![job[w].member.subject] = id]
    BY <1>4, <2>1, <2>3, WriteStep DEF Create
  <2> QED
    BY <1>4, <2>2, <2>3 DEF Create
<1>5. ASSUME NEW w \in Workers, Update(w)
      PROVE  RegistryInv'
  <2>1. job[w] \in Job /\ job[w] # Idle /\ job[w].id # NoID
    BY <1>5 DEF Update, At, RegistryInv, TypeOK
  <2>2. PICK id \in MemberIDs, m \in Member : id = job[w].id /\ m = job[w].member
    BY <2>1 DEF Job
  <2>3. CASE UNCHANGED members
    BY <1>5, <2>3, JobStep DEF Update, Finish
  <2>4. CASE members' = [members EXCEPT ![id] = m]
    <3>1. Exists(id) /\ members[id].subject = m.subject
      BY <2>1, <2>2 DEF RegistryInv, JobsBound
    <3>2. bySubject[m.subject] = id
      BY <3>1 DEF RegistryInv, SubjectsBound
    <3>3. bySubject' = [bySubject EXCEPT ![m.subject] = id]
      BY <1>5, <3>2 DEF Update, RegistryInv, TypeOK
    <3> QED
      BY <1>5, <2>4, <3>1, <3>3, WriteStep DEF Update
  <2> QED
    BY <1>5, <2>2, <2>3, <2>4 DEF Update
<1>6. ASSUME NEW w \in Workers, Abandon(w)
      PROVE  RegistryInv'
  BY <1>6, JobStep DEF Abandon, Finish
<1>7. CASE UNCHANGED vars
  BY <1>7 DEF vars, RegistryInv, TypeOK, SubjectsBound, JobsBound, Exists
<1> QED
  BY <1>1, <1>2, <1>3, <1>4, <1>5, <1>6, <1>7 DEF Next

\* The repository and every request in flight keep their types.
THEOREM TypeCorrect == Spec => []TypeOK
<1>1. RegistryInv => TypeOK
  BY DEF RegistryInv
<1> QED
  BY <1>1, RegistryInit, RegistryStep, PTL DEF Spec

\* Whichever requests overlap, and though each checks for an existing profile
\* long before it writes one, a subject has at most one member and the lookup
\* by subject leads to it.
THEOREM SubjectsStayBound == Spec => []SubjectsBound
<1>1. RegistryInv => SubjectsBound
  BY DEF RegistryInv
<1> QED
  BY <1>1, RegistryInit, RegistryStep, PTL DEF Spec

-----------------------------------------------------------------------------
\* On Postgres the unique constraint alone keeps emails unique: it holds for
\* requests whose own check was overtaken.
THEOREM PostgresEmailsUnique ==
  ASSUME Backend = "postgres"
  PROVE  Spec => []EmailsUnique
<1>1. Init => EmailsUnique
  BY DEF Init, EmailsUnique, Exists
<1>2. EmailsUnique /\ RegistryInv /\ [Next]_vars => EmailsUnique'
  <2> SUFFICES ASSUME EmailsUnique, RegistryInv, [Next]_vars
               PROVE  EmailsUnique'
    OBVIOUS
  <2>1. ASSUME NEW id \in MemberIDs, NEW m, WriteAccepted(m, id),
               members' = [members EXCEPT ![id] = m]
        PROVE  EmailsUnique'
    BY <2>1 DEF EmailsUnique, Exists, WriteAccepted, EmailFree, RegistryInv, TypeOK
  <2>2. CASE UNCHANGED members
    BY <2>2 DEF EmailsUnique, Exists
  <2>3. ASSUME NEW w \in Workers, NEW id \in MemberIDs, Create(w, id)
        PROVE  EmailsUnique'
    BY <2>1, <2>2, <2>3 DEF Create
  <2>4. ASSUME NEW w \in Workers, Update(w)
        PROVE  EmailsUnique'
    <3>1. job[w].id \in MemberIDs
      BY <2>4 DEF Update, At, RegistryInv, TypeOK, Job
    <3> QED
      BY <2>1, <2>2, <2>4, <3>1 DEF Update
  <2> QED
    BY <2>2, <2>3, <2>4
       DEF Next, CreateMyMember, UpdateMyMemberProfile, ensureEmailUnique, Abandon, vars
<1> QED
  BY <1>1, <1>2, RegistryInit, RegistryStep, PTL DEF Spec

-----------------------------------------------------------------------------
(* Requests served one after the other, on either backend *)

\* There is one worker, so a request ends before the next one starts.
OneAtATime == \A v, w \in Workers : v = w

\* The member new is what the patch makes of the member old.
Patched(new, old, patch) ==
  /\ new.email = IF patch.email = Keep THEN old.email ELSE patch.email
  /\ new.vehicle = applyVehicleProfilePatch(old.vehicle, patch)

\* The record that a request will write is its patch of the stored one, and a
\* request that is about to write has an email that nobody else has.
SerialInv ==
  /\ EmailsUnique
  /\ \A w \in Workers : job[w] # Idle =>
       /\ job[w].id # NoID => Patched(job[w].member, members[job[w].id], job[w].patch)
       /\ job[w].pc = "write" => EmailFree(job[w].member.email, job[w].id)

LEMMA SerialInit == Init => SerialInv
BY DEF Init, SerialInv, EmailsUnique, Exists

\* A step that leaves the members alone and gives the worker a new job.
LEMMA SerialJob ==
  ASSUME RegistryInv, SerialInv, OneAtATime, NEW w \in Workers, NEW j,
         UNCHANGED <<members, bySubject>>, job' = [job EXCEPT ![w] = j],
         j # Idle =>
           /\ j.id # NoID => Patched(j.member, members[j.id], j.patch)
           /\ j.pc = "write" => EmailFree(j.member.email, j.id)
  PROVE  SerialInv'
<1>1. \A v \in Workers : v = w /\ job'[v] = j
  BY DEF OneAtATime, RegistryInv, TypeOK
<1>2. \A email, id : EmailFree(email, id)' <=> EmailFree(email, id)
  BY DEF EmailFree, Exists
<1>3. EmailsUnique'
  BY DEF SerialInv, EmailsUnique, Exists
<1>4. ASSUME j # Idle
      PROVE  /\ j.id # NoID => Patched(j.member, members'[j.id], j.patch)
             /\ j.pc = "write" => EmailFree(j.member.email, j.id)'
  BY <1>2, <1>4
<1> QED
  BY <1>1, <1>3, <1>4 DEF SerialInv, EmailFree, Exists

\* A step that ends the request with a write whose email was looked up.
LEMMA SerialWrite ==
  ASSUME RegistryInv, SerialInv, OneAtATime, NEW w \in Workers, NEW id \in MemberIDs, NEW m,
         members' = [members EXCEPT ![id] = m], EmailFree(m.email, id), Finish(w)
  PROVE  SerialInv'
<1>1. \A v \in Workers : job'[v] = Idle
  BY DEF OneAtATime, Finish, RegistryInv, TypeOK
<1>2. EmailsUnique'
  BY DEF SerialInv, EmailsUnique, EmailFree, Exists, RegistryInv, TypeOK
<1> QED
  BY <1>1, <1>2 DEF SerialInv

LEMMA SerialStep ==
  ASSUME RegistryInv, SerialInv, OneAtATime, [Next]_vars
  PROVE  SerialInv'
<1>1. ASSUME NEW w \in Workers, NEW s \in Subjects, NEW patch \in Patch,
             CreateMyMember(w, s, patch)
      PROVE  SerialInv'
  <2>1. PICK j : /\ j = [pc |-> "email", id |-> NoID, patch |-> patch,
                         member |-> [subject |-> s, email |-> patch.email,
                                     vehicle |-> applyVehicleProfilePatch({}, patch)]]
                 /\ job' = [job EXCEPT ![w] = j]
    BY <1>1 DEF CreateMyMember
  <2> QED
    BY <1>1, <2>1, SerialJob DEF CreateMyMember
<1>2. ASSUME NEW w \in Workers, NEW s \in Subjects, NEW patch \in Patch,
             UpdateMyMemberProfile(w, s, patch)
      PROVE  SerialInv'
  <2>1. PICK id \in MemberIDs : id = bySubject[s]
    BY <1>2 DEF UpdateMyMemberProfile, RegistryInv, TypeOK
  <2>2. Exists(id) /\ members[id] \in Member
    BY <1>2, <2>1 DEF UpdateMyMemberProfile, RegistryInv, SubjectsBound, TypeOK, Exists
  <2>3. PICK e, v : /\ e = IF patch.email = Keep THEN members[id].email ELSE patch.email
                    /\ v = applyVehicleProfilePatch(members[id].vehicle, patch)
    OBVIOUS
  <2>4. e \in Emails /\ v \in SUBSET VehicleFields
    BY <2>2, <2>3 DEF Member, Patch, applyVehicleProfilePatch
  <2>5. PICK m : /\ m = [members[id] EXCEPT !.email = e, !.vehicle = v]
                 /\ m.email = e /\ m.vehicle = v
    <3>1. PICK r \in Member : r = members[id]
      BY <2>2
    <3>2. PICK m : m = [r EXCEPT !.email = e, !.vehicle = v]
      OBVIOUS
    <3>3. m.email = e /\ m.vehicle = v
      BY <2>4, <3>2 DEF Member
    <3> QED
      BY <3>1, <3>2, <3>3
  <2>6. PICK j : /\ j = [pc |-> IF patch.email = Keep THEN "write" ELSE "email",
                         id |-> id, patch |-> patch, member |-> m]
                 /\ job' = [job EXCEPT ![w] = j]
    <3>1. [members[id] EXCEPT !.email = IF patch.email = Keep THEN @ ELSE patch.email,
                              !.vehicle = applyVehicleProfilePatch(@, patch)] = m
      BY <2>3, <2>5
    <3> QED
      BY <1>2, <2>1, <3>1, Zenon DEF UpdateMyMemberProfile
  <2>7. /\ j.id = id /\ j.patch = patch /\ j.member = m
        /\ j.pc = "write" => e = members[id].email
    BY <2>3, <2>6
  <2>8. Patched(j.member, members[j.id], j.patch)
    BY <2>3, <2>5, <2>7 DEF Patched
  <2>9. EmailFree(members[id].email, id)
    BY <2>2 DEF EmailFree, SerialInv, EmailsUnique
  <2>10. j.pc = "write" => EmailFree(j.member.email, j.id)
    BY <2>5, <2>7, <2>9
  <2> QED
    BY <1>2, <2>6, <2>8, <2>10, SerialJob DEF UpdateMyMemberProfile
<1>3. ASSUME NEW w \in Workers, ensureEmailUnique(w)
      PROVE  SerialInv'
  <2>1. job[w] \in Job /\ job[w] # Idle
    BY <1>3 DEF ensureEmailUnique, At, RegistryInv, TypeOK
  <2>2. PICK j : j = [job[w] EXCEPT !.pc = "write"]
    OBVIOUS
  <2>3. j.id = job[w].id /\ j.member = job[w].member /\ j.patch = job[w].patch
    BY <2>1, <2>2 DEF Job
  <2>4. \/ /\ job' = [job EXCEPT ![w] = j]
           /\ EmailFree(j.member.email, j.id)
        \/ job' = [job EXCEPT ![w] = Idle]
    BY <1>3, <2>1, <2>2, <2>3 DEF ensureEmailUnique, Finish, RegistryInv, TypeOK
  <2>5. j.id # NoID => Patched(j.member, members[j.id], j.patch)
    BY <2>1, <2>3 DEF SerialInv
  <2> QED
    BY <1>3, <2>4, <2>5, SerialJob DEF ensureEmailUnique
<1>4. ASSUME NEW w \in Workers, NEW id \in MemberIDs, Create(w, id)
      PROVE  SerialInv'
  <2>1. CASE UNCHANGED <<members, bySubject>>
    BY <1>4, <2>1, SerialJob DEF Create, Finish
  <2>2. CASE members' = [members EXCEPT ![id] = job[w].member]
    <3>1. EmailFree(job[w].member.email, NoID)
      BY <1>4 DEF Create, At, SerialInv
    <3>2. EmailFree(job[w].member.email, id)
      BY <3>1, RegistryAssumption DEF EmailFree
    <3>3. PICK m : m = job[w].member
      OBVIOUS
    <3> QED
      BY <1>4, <2>2, <3>2, <3>3, SerialWrite DEF Create
  <2> QED
    BY <1>4, <2>1, <2>2 DEF Create
<1>5. ASSUME NEW w \in Workers, Update(w)
      PROVE  SerialInv'
  <2>1. PICK id, m : id \in MemberIDs /\ id = job[w].id /\ m = job[w].member
    BY <1>5 DEF Update, At, RegistryInv, TypeOK, Job
  <2>2. CASE UNCHANGED members
    BY <1>5, <2>2, SerialJob DEF Update, Finish
  <2>3. CASE members' = [members EXCEPT ![id] = m]
    <3>1. EmailFree(m.email, id)
      BY <1>5, <2>1 DEF Update, At, SerialInv
    <3> QED
      BY <1>5, <2>1, <2>3, <3>1, SerialWrite DEF Update
  <2> QED
    BY <1>5, <2>1, <2>2, <2>3 DEF Update
<1>6. ASSUME NEW w \in Workers, Abandon(w)
      PROVE  SerialInv'
  BY <1>6, SerialJob DEF Abandon, Finish
<1>7. CASE UNCHANGED vars
  BY <1>7 DEF vars, SerialInv, EmailsUnique, EmailFree, Exists, Patched
<1> QED
  BY <1>1, <1>2, <1>3, <1>4, <1>5, <1>6, <1>7 DEF Next

LEMMA SerialCorrect ==
  ASSUME OneAtATime
  PROVE  Spec => [](RegistryInv /\ SerialInv)
<1>1. RegistryInv /\ SerialInv /\ [Next]_vars => SerialInv'
  BY SerialStep
<1> QED
  BY <1>1, RegistryInit, RegistryStep, SerialInit, PTL DEF Spec

\* Served one by one, requests give no two members the same email, in memory as
\* well, where nothing but the look at the members prevents it.
THEOREM SerialEmailsUnique ==
  ASSUME OneAtATime
  PROVE  Spec => []EmailsUnique
<1>1. SerialInv => EmailsUnique
  BY DEF SerialInv
<1> QED
  BY <1>1, SerialCorrect, PTL

\* Served one by one, no request that passed the checks of the service is
\* refused by the unique constraint of the database.
THEOREM SerialChecksSuffice ==
  ASSUME OneAtATime
  PROVE  Spec => []ChecksSuffice
<1>1. SerialInv => ChecksSuffice
  BY DEF SerialInv, ChecksSuffice, WriteAccepted, At
<1> QED
  BY <1>1, SerialCorrect, PTL

\* Served one by one, an update of a profile leaves every field that its patch
\* does not name as it is when it is written.
THEOREM SerialUpdatesKeep ==
  ASSUME OneAtATime
  PROVE  Spec => UnnamedFieldsKept
<1> DEFINE Kept ==
      \A w \in Workers :
        Update(w) /\ members' # members =>
          LET old   == members[job[w].id]
              new   == members'[job[w].id]
              patch == job[w].patch
          IN  /\ patch.email = Keep => new.email = old.email
              /\ \A f \in VehicleFields \ (patch.set \cup patch.clear) :
                   f \in new.vehicle <=> f \in old.vehicle
<1>1. RegistryInv /\ SerialInv /\ [Next]_vars => [Kept]_vars
  <2> SUFFICES ASSUME RegistryInv, SerialInv, NEW w \in Workers, Update(w), members' # members
               PROVE  LET old   == members[job[w].id]
                          new   == members'[job[w].id]
                          patch == job[w].patch
                      IN  /\ patch.email = Keep => new.email = old.email
                          /\ \A f \in VehicleFields \ (patch.set \cup patch.clear) :
                               f \in new.vehicle <=> f \in old.vehicle
    OBVIOUS
  <2>1. job[w] \in Job /\ job[w] # Idle /\ job[w].id \in MemberIDs
    BY DEF Update, At, RegistryInv, TypeOK, Job
  <2>2. members'[job[w].id] = job[w].member
    BY <2>1 DEF Update, RegistryInv, TypeOK
  <2>3. Patched(job[w].member, members[job[w].id], job[w].patch)
    BY <2>1 DEF Update, SerialInv
  <2> QED
    BY <2>2, <2>3 DEF Patched, applyVehicleProfilePatch
<1>2. Spec => [][Kept]_vars
  BY <1>1, SerialCorrect, PTL DEF Spec
<1> QED
  BY <1>2 DEF UnnamedFieldsKept

=============================================================================
