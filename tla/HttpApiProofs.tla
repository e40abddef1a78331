---------------------------- MODULE HttpApiProofs ----------------------------
(* Theorems about HttpApi, for every set of calls, subjects, keys, trips and *)
(* workers, on either backend.                                               *)
EXTENDS HttpApi, IdempotencyProofs

-----------------------------------------------------------------------------
(* What a fingerprint and a hash tell of a call *)

KeyedOps ==
  {"UpdateMyMemberProfile", "CreateTripDraft", "UpdateTrip", "SetTripDraftVisibility",
   "CancelTrip", "AddTripOrganizer", "RemoveTripOrganizer", "SetMyRSVP"}

\* The rows that read an Idempotency-Key.
LEMMA KeyedRows ==
  \A op \in Operations : Handlers[op].key # "none" => op \in KeyedOps
<1>1. \A op \in Operations :
        op \in KeyedOps \/ op \in {"ListMembers", "SearchMembers", "CreateMyMember",
          "GetMyMemberProfile", "ListVisibleTripsForMember", "ListMyDraftTrips",
          "GetTripDetails", "PublishTrip", "GetMyRSVPForTrip", "GetTripRSVPSummary"}
  BY DEF Operations, Handlers, KeyedOps
<1>2. /\ Handlers["ListMembers"].key = "none" /\ Handlers["SearchMembers"].key = "none"
      /\ Handlers["CreateMyMember"].key = "none" /\ Handlers["GetMyMemberProfile"].key = "none"
      /\ Handlers["ListVisibleTripsForMember"].key = "none"
      /\ Handlers["ListMyDraftTrips"].key = "none" /\ Handlers["GetTripDetails"].key = "none"
      /\ Handlers["PublishTrip"].key = "none" /\ Handlers["GetMyRSVPForTrip"].key = "none"
      /\ Handlers["GetTripRSVPSummary"].key = "none"
  BY DEF Handlers, ListMembers, SearchMembers, CreateMyMember, GetMyMemberProfile,
         ListVisibleTripsForMember, ListMyDraftTrips, GetTripDetails, PublishTrip,
         GetMyRSVPForTrip, GetTripRSVPSummary
<1> QED
  BY <1>1, <1>2

\* Their routes.
LEMMA KeyedRoutes ==
  /\ Handlers["UpdateMyMemberProfile"].route = "/members/me"
  /\ Handlers["CreateTripDraft"].route = "/trips"
  /\ Handlers["UpdateTrip"].route = "/trips/{tripId}"
  /\ Handlers["SetTripDraftVisibility"].route = "/trips/{tripId}/draft-visibility"
  /\ Handlers["CancelTrip"].route = "/trips/{tripId}/cancel"
  /\ Handlers["AddTripOrganizer"].route = "/trips/{tripId}/organizers"
  /\ Handlers["RemoveTripOrganizer"].route = "/trips/{tripId}/organizers/{memberId}"
  /\ Handlers["SetMyRSVP"].route = "/trips/{tripId}/rsvp"
BY DEF Handlers, UpdateMyMemberProfile, CreateTripDraft, UpdateTrip, SetTripDraftVisibility,
       CancelTrip, AddTripOrganizer, RemoveTripOrganizer, SetMyRSVP

\* The route names the operation.
LEMMA RouteNamesOperation ==
  ASSUME NEW o \in KeyedOps, NEW p \in KeyedOps, Handlers[o].route = Handlers[p].route
  PROVE  o = p
<1>1. CASE o = "UpdateMyMemberProfile"
  BY <1>1, KeyedRoutes DEF KeyedOps
<1>2. CASE o = "CreateTripDraft"
  BY <1>2, KeyedRoutes DEF KeyedOps
<1>3. CASE o = "UpdateTrip"
  BY <1>3, KeyedRoutes DEF KeyedOps
<1>4. CASE o = "SetTripDraftVisibility"
  BY <1>4, KeyedRoutes DEF KeyedOps
<1>5. CASE o = "CancelTrip"
  BY <1>5, KeyedRoutes DEF KeyedOps
<1>6. CASE o = "AddTripOrganizer"
  BY <1>6, KeyedRoutes DEF KeyedOps
<1>7. CASE o = "RemoveTripOrganizer"
  BY <1>7, KeyedRoutes DEF KeyedOps
<1>8. CASE o = "SetMyRSVP"
  BY <1>8, KeyedRoutes DEF KeyedOps
<1> QED
  BY <1>1, <1>2, <1>3, <1>4, <1>5, <1>6, <1>7, <1>8 DEF KeyedOps

\* The hash of a call is what the call means: neither more nor less.
LEMMA HashIsMeaning ==
  ASSUME NEW c \in KeyedCalls
  PROVE  BodyHash(c) = Meaning(c)
<1>1. c.op \in KeyedOps
  BY KeyedRows, CallsAssumption DEF KeyedCalls, Keyed
<1>2. IF Payload(c.op) = {} THEN c.arg = NoArg
      ELSE c.arg \in Text /\ c.arg # NoArg /\ c.arg.field \in Payload(c.op)
  <2>1. NoArg \notin Text
    BY CallsAssumption
  <2>2. c \in Calls
    BY DEF KeyedCalls
  <2>3. IF Payload(c.op) = {} THEN c.arg = NoArg
        ELSE c.arg \in Text /\ c.arg.field \in Payload(c.op)
    BY <2>2, CallsAssumption
  <2> QED
    BY <2>1, <2>3
<1>3. c.op \in {"UpdateMyMemberProfile", "CreateTripDraft"} => c.trip = NoTrip
  BY CallsAssumption, KeyedRoutes DEF KeyedCalls
<1>4. CASE c.op = "UpdateMyMemberProfile"
  BY <1>2, <1>3, <1>4 DEF BodyHash, Meaning, hashUpdateMyMemberProfileBody, ProfileStores
<1>5. CASE c.op = "CreateTripDraft"
  BY <1>2, <1>3, <1>5 DEF BodyHash, Meaning, hashCreateTripDraftBody, TripStores, Payload
<1>6. CASE c.op = "UpdateTrip"
  BY <1>2, <1>6 DEF BodyHash, Meaning, hashUpdateTripBody, TripStores, Payload
<1>7. CASE c.op = "SetTripDraftVisibility"
  BY <1>2, <1>7 DEF BodyHash, Meaning, hashSetTripDraftVisibilityBody, TripStores, Payload
<1>8. CASE c.op = "CancelTrip"
  BY <1>2, <1>8 DEF BodyHash, Meaning, hashCancelTripBody, TripStores, Payload
<1>9. CASE c.op = "AddTripOrganizer"
  BY <1>2, <1>9 DEF BodyHash, Meaning, hashAddTripOrganizerBody, TripStores, Payload
<1>10. CASE c.op = "RemoveTripOrganizer"
  BY <1>2, <1>10 DEF BodyHash, Meaning, hashRemoveTripOrganizerBody, TripStores, Payload
<1>11. CASE c.op = "SetMyRSVP"
  BY <1>2, <1>11 DEF BodyHash, Meaning, hashSetMyRSVPBody, TripStores, Payload
<1> QED
  BY <1>1, <1>4, <1>5, <1>6, <1>7, <1>8, <1>9, <1>10, <1>11 DEF KeyedOps

\* One fingerprint, one subject, header and operation.
LEMMA FingerprintNames ==
  ASSUME NEW c \in KeyedCalls, NEW d \in KeyedCalls, Fingerprint(c) = Fingerprint(d)
  PROVE  c.op = d.op /\ c.subject = d.subject /\ c.key = d.key
<1>1. c.op \in KeyedOps /\ d.op \in KeyedOps
  BY KeyedRows, CallsAssumption DEF KeyedCalls, Keyed
<1>2. /\ c.key = d.key /\ c.subject = d.subject
      /\ Handlers[c.op].route = Handlers[d.op].route
  BY DEF Fingerprint
<1> QED
  BY <1>1, <1>2, RouteNamesOperation

LEMMA KeysAndHashes ==
  ASSUME NEW c \in KeyedCalls
  PROVE  Fingerprint(c) \in Keys /\ BodyHash(c) \in Bodies
BY CallsAssumption DEF Fingerprints, Hashes

-----------------------------------------------------------------------------
(* The steps of the store behind the handlers *)

\* The answer of a call with an empty key is not stored, on either backend.
SkipStore(w) ==
  At(w, "store") /\ Goto(w, "reply") /\ UNCHANGED <<meta, resp, log, replies>>

LEMMA StepsOfStore ==
  ASSUME [HttpNext]_httpVars
  PROVE  [Next]_vars \/ \E w \in Workers : SkipStore(w)
<1>1. ASSUME NEW w \in Workers, NEW c \in Calls, Admit(w, c) \/ KeyReused(w, c)
      PROVE  Next
  <2>1. Fingerprint(c) \in Keys /\ BodyHash(c) \in Bodies
    BY <1>1, KeysAndHashes DEF Admit, KeyReused, KeyedCalls
  <2> QED
    BY <1>1, <2>1 DEF Admit, KeyReused, Next
<1>2. ASSUME NEW w \in Workers, StoreResponse(w)
      PROVE  Next \/ SkipStore(w)
  BY <1>2 DEF StoreResponse, SkipStore, Next
<1>3. ASSUME NEW w \in Workers,
             \/ BindKey(w) \/ FindResponse(w) \/ CarryOut(w)
             \/ ServiceRefuses(w) \/ Respond(w) \/ Break(w)
      PROVE  Next
  BY <1>3 DEF BindKey, FindResponse, CarryOut, ServiceRefuses, Respond, Break, Next
<1>4. ASSUME NEW c \in Calls, TurnAway(c) \/ ServeUnkeyed(c)
      PROVE  UNCHANGED vars
  BY <1>4 DEF TurnAway, ServeUnkeyed
<1> QED
  BY <1>1, <1>2, <1>3, <1>4 DEF HttpNext, httpVars

\* What Idempotency's own invariant says.
StoreInv == TypeOK /\ OwnInv

LEMMA SkipKeepsStore ==
  ASSUME StoreInv, NEW w \in Workers, SkipStore(w)
  PROVE  StoreInv'
<1>1. job[w] \in Job /\ job[w] # Idle /\ job[w].pc = "store"
  BY DEF SkipStore, At, StoreInv, TypeOK
<1> DEFINE j == [job[w] EXCEPT !.pc = "reply"]
<1>2. /\ j \in Job /\ j.key = job[w].key /\ j.body = job[w].body
      /\ j.answer = job[w].answer
  BY <1>1 DEF Job
<1>3. job' = [job EXCEPT ![w] = j] /\ UNCHANGED <<meta, resp, log, replies>>
  BY <1>1 DEF SkipStore, Goto, StoreInv, TypeOK
<1> HIDE DEF j
<1>4. TypeOK'
  BY <1>2, <1>3, JobType DEF StoreInv
<1>5. \A v \in Workers : job'[v] = IF v = w THEN j ELSE job[v]
  BY <1>3 DEF StoreInv, TypeOK
<1>6. Own(job[w].answer, job[w].key, job[w].body)
  BY <1>1 DEF StoreInv, OwnInv, At
<1>7. OwnInv'
  BY <1>2, <1>3, <1>5, <1>6 DEF StoreInv, OwnInv, Own, RepliesAreOwn, At
<1> QED
  BY <1>4, <1>7 DEF StoreInv

LEMMA StoreStep == StoreInv /\ [HttpNext]_httpVars => StoreInv'
BY StepsOfStore, SkipKeepsStore, TypeStep, OwnStep DEF StoreInv

-----------------------------------------------------------------------------
(* Replies *)

RequestOf(c) == [key |-> Fingerprint(c), body |-> BodyHash(c)]

\* The job of a worker is that of the call it serves.
Serves(w) ==
  /\ served[w] \in KeyedCalls
  /\ job[w].key = Fingerprint(served[w]) /\ job[w].body = BodyHash(served[w])

\* The calls behind the store's jobs and log.
CallInv ==
  /\ served \in [Workers -> Calls \cup {None}]
  /\ \A w \in Workers : job[w] # Idle => Serves(w)
  /\ executed \in Seq(KeyedCalls) /\ Len(executed) = Len(log)
  /\ \A i \in 1..Len(log) : log[i] = RequestOf(executed[i])

\* A step leaves the jobs of the workers as they are, up to progress, or is the
\* one that takes a call on.
LEMMA JobsKept ==
  ASSUME StoreInv, CallInv, [HttpNext]_httpVars,
         NEW v \in Workers, job'[v] # Idle,
         \A c \in Calls : ~Admit(v, c)
  PROVE  /\ job[v] # Idle /\ job'[v].key = job[v].key /\ job'[v].body = job[v].body
         /\ served'[v] = served[v]
<1>1. ASSUME NEW w \in Workers, NEW c \in Calls, Admit(w, c)
      PROVE  v # w /\ job'[v] = job[v] /\ served'[v] = served[v]
  BY <1>1 DEF Admit, GetMeta, StoreInv, TypeOK, CallInv
<1>2. ASSUME NEW w \in Workers, BindKey(w) \/ StoreResponse(w)
      PROVE  /\ job[v] # Idle /\ job'[v].key = job[v].key /\ job'[v].body = job[v].body
             /\ served'[v] = served[v]
  <2>1. job[w] \in Job /\ job[w] # Idle /\ UNCHANGED served
    BY <1>2 DEF BindKey, StoreResponse, PutMeta, PutResponse, At, StoreInv, TypeOK
  <2>2. \E p \in {"lookup", "reply"} : job' = [job EXCEPT ![w] = [job[w] EXCEPT !.pc = p]]
    BY <1>2, <2>1 DEF BindKey, StoreResponse, PutMeta, PutResponse, Goto, StoreInv, TypeOK
  <2> QED
    BY <2>1, <2>2 DEF StoreInv, TypeOK, Job
<1>3. ASSUME NEW w \in Workers, FindResponse(w) \/ CarryOut(w)
      PROVE  /\ job[v] # Idle /\ job'[v].key = job[v].key /\ job'[v].body = job[v].body
             /\ served'[v] = served[v]
  <2>1. job[w] \in Job /\ job[w] # Idle /\ UNCHANGED served
    BY <1>3 DEF FindResponse, CarryOut, GetResponse, Run, At, StoreInv, TypeOK
  <2>2. \E p \in {"run", "reply", "store"} : \E a :
          job' = [job EXCEPT ![w] = [job[w] EXCEPT !.pc = p, !.answer = a]]
    BY <1>3, <2>1 DEF FindResponse, CarryOut, GetResponse, Run, StoreInv, TypeOK
  <2> QED
    BY <2>1, <2>2 DEF StoreInv, TypeOK, Job
<1>4. ASSUME NEW w \in Workers, ServiceRefuses(w) \/ Respond(w) \/ Break(w)
      PROVE  job'[v] = job[v] /\ served'[v] = served[v]
  BY <1>4 DEF ServiceRefuses, Respond, Break, Fail, Reply, Abandon, Finish, StoreInv, TypeOK
<1>5. ASSUME NEW w \in Workers, NEW c \in Calls, KeyReused(w, c)
      PROVE  job'[v] = job[v] /\ served'[v] = served[v]
  BY <1>5 DEF KeyReused, Refuse
<1>6. ASSUME NEW c \in Calls, TurnAway(c) \/ ServeUnkeyed(c)
      PROVE  job'[v] = job[v] /\ served'[v] = served[v]
  BY <1>6 DEF TurnAway, ServeUnkeyed, vars
<1> QED
  BY <1>1, <1>2, <1>3, <1>4, <1>5, <1>6 DEF HttpNext, httpVars, vars

LEMMA CallStep == StoreInv /\ CallInv /\ [HttpNext]_httpVars => CallInv'
<1> SUFFICES ASSUME StoreInv, CallInv, [HttpNext]_httpVars
             PROVE  CallInv'
  OBVIOUS
<1>1. served' \in [Workers -> Calls \cup {None}]
  BY DEF HttpNext, httpVars, TurnAway, ServeUnkeyed, Admit, KeyReused, BindKey, FindResponse,
         CarryOut, ServiceRefuses, StoreResponse, Respond, Break, CallInv
<1>2. ASSUME NEW v \in Workers, job'[v] # Idle
      PROVE  Serves(v)'
  <2>1. ASSUME NEW c \in Calls, Admit(v, c)
        PROVE  Serves(v)'
    <3>1. /\ served'[v] = c /\ c \in KeyedCalls
          /\ job'[v].key = Fingerprint(c) /\ job'[v].body = BodyHash(c)
      BY <2>1 DEF Admit, GetMeta, KeyedCalls, StoreInv, TypeOK, CallInv
    <3> QED
      BY <3>1 DEF Serves
  <2>2. CASE \A c \in Calls : ~Admit(v, c)
    BY <1>2, <2>2, JobsKept DEF CallInv, Serves
  <2> QED
    BY <2>1, <2>2
<1>3. /\ executed' \in Seq(KeyedCalls) /\ Len(executed') = Len(log')
      /\ \A i \in 1..Len(log') : log'[i] = RequestOf(executed'[i])
  <2>1. CASE UNCHANGED <<log, executed>>
    BY <2>1 DEF CallInv, RequestOf
  <2>2. ASSUME NEW w \in Workers, CarryOut(w)
        PROVE  /\ executed' \in Seq(KeyedCalls) /\ Len(executed') = Len(log')
               /\ \A i \in 1..Len(log') : log'[i] = RequestOf(executed'[i])
    <3>1. served[w] \in KeyedCalls /\ log \in Seq(Request)
      BY <2>2 DEF CarryOut, Run, At, CallInv, Serves, StoreInv, TypeOK
    <3>2. RequestOf(served[w]) \in Request
      BY <3>1, KeysAndHashes DEF RequestOf, Request
    <3>3. /\ log' = Append(log, RequestOf(served[w]))
          /\ executed' = Append(executed, served[w])
      BY <2>2 DEF CarryOut, Run, At, CallInv, Serves, RequestOf
    <3>4. PICK c, r : c = served[w] /\ r = RequestOf(c)
      OBVIOUS
    <3>5. /\ Len(log') = Len(log) + 1 /\ log'[Len(log) + 1] = r
          /\ \A i \in 1..Len(log) : log'[i] = log[i]
      BY <3>1, <3>2, <3>3, <3>4
    <3>6. /\ executed' \in Seq(KeyedCalls) /\ Len(executed') = Len(log) + 1
          /\ executed'[Len(log) + 1] = c
          /\ \A i \in 1..Len(log) : executed'[i] = executed[i]
      BY <3>1, <3>3, <3>4 DEF CallInv
    <3>7. Len(log) \in Nat /\ \A i \in 1..Len(log) : log[i] = RequestOf(executed[i])
      BY <3>1 DEF CallInv
    <3>8. ASSUME NEW i \in 1..Len(log')
          PROVE  log'[i] = RequestOf(executed'[i])
      BY <3>4, <3>5, <3>6, <3>7
    <3> QED
      BY <3>5, <3>6, <3>8
  <2> QED
    BY <2>1, <2>2 DEF HttpNext, httpVars, vars, TurnAway, ServeUnkeyed, Admit, KeyReused, BindKey,
       FindResponse, ServiceRefuses, StoreResponse, Respond, Break, GetMeta, Refuse, PutMeta,
       GetResponse, Fail, PutResponse, Reply, Abandon
<1> QED
  BY <1>1, <1>2, <1>3 DEF CallInv

LEMMA InitOfHttp == HttpInit => StoreInv /\ CallInv
BY TypeInit, OwnInit DEF HttpInit, Init, StoreInv, CallInv

\* The log's entry is the call's own execution.
LEMMA OwnMeansSame ==
  ASSUME CallInv, NEW c \in KeyedCalls, NEW i, Own(i, Fingerprint(c), BodyHash(c)), TypeOK
  PROVE  /\ executed[i].subject = c.subject /\ executed[i].op = c.op
         /\ Meaning(executed[i]) = Meaning(c)
<1>1. i \in 1..Len(log) /\ log[i] = RequestOf(c)
  BY DEF Own, RequestOf, TypeOK
<1>2. executed[i] \in KeyedCalls /\ log[i] = RequestOf(executed[i])
  BY <1>1 DEF CallInv
<1>3. Fingerprint(executed[i]) = Fingerprint(c) /\ BodyHash(executed[i]) = BodyHash(c)
  BY <1>1, <1>2 DEF RequestOf
<1> QED
  BY <1>2, <1>3, FingerprintNames, HashIsMeaning

LEMMA OwnOperation ==
  StoreInv /\ CallInv /\ ReplyIsOwnOperation /\ [HttpNext]_httpVars => ReplyIsOwnOperation'
<1> SUFFICES ASSUME StoreInv, CallInv, ReplyIsOwnOperation, [HttpNext]_httpVars
             PROVE  ReplyIsOwnOperation'
  OBVIOUS
<1>1. ASSUME NEW w \in Workers, Respond(w)
      PROVE  ReplyIsOwnOperation'
  <2>1. /\ At(w, "reply") /\ served[w] \in KeyedCalls
        /\ Own(job[w].answer, Fingerprint(served[w]), BodyHash(served[w]))
    BY <1>1 DEF Respond, Reply, At, StoreInv, OwnInv, CallInv, Serves
  <2>2. /\ answer'.call = served[w] /\ answer'.effect = job[w].answer
        /\ executed' = executed
    BY <1>1 DEF Respond, Tell
  <2>3. PICK c, i : c = served[w] /\ i = job[w].answer
    OBVIOUS
  <2>4. /\ executed[i].subject = c.subject /\ executed[i].op = c.op
        /\ Meaning(executed[i]) = Meaning(c)
    BY <2>1, <2>3, OwnMeansSame DEF StoreInv
  <2> QED
    BY <2>2, <2>3, <2>4 DEF ReplyIsOwnOperation, Meaning
<1>2. CASE answer' = None \/ answer'.effect = 0
  BY <1>2 DEF ReplyIsOwnOperation
<1>3. CASE UNCHANGED httpVars
  BY <1>3 DEF httpVars, ReplyIsOwnOperation, Meaning
<1> QED
  BY <1>1, <1>2, <1>3 DEF HttpNext, TurnAway, ServeUnkeyed, Admit, KeyReused, BindKey,
     FindResponse, CarryOut, ServiceRefuses, StoreResponse, Break, Tell

\* A success that a client is told of is an execution of its own subject's, of
\* the same operation and of a request that means the same, whichever calls
\* share a key, overlap, fail or are repeated.
THEOREM AnswersAreOwn == HttpSpec => []ReplyIsOwnOperation
<1>1. HttpInit => ReplyIsOwnOperation
  BY DEF HttpInit, ReplyIsOwnOperation
<1> QED
  BY <1>1, InitOfHttp, StoreStep, CallStep, OwnOperation, PTL DEF HttpSpec

-----------------------------------------------------------------------------
(* Keys *)

\* A meta record is the hash of the call that bound its fingerprint.
BinderInv ==
  /\ binder \in [Keys -> KeyedCalls \cup {None}]
  /\ \A k \in Keys :
       IF binder[k] = None THEN meta[k] = Unbound
       ELSE Fingerprint(binder[k]) = k /\ meta[k] = BodyHash(binder[k])

LEMMA BinderStep ==
  StoreInv /\ CallInv /\ BinderInv /\ [HttpNext]_httpVars => BinderInv'
<1> SUFFICES ASSUME StoreInv, CallInv, BinderInv, [HttpNext]_httpVars
             PROVE  BinderInv'
  OBVIOUS
<1>1. ASSUME NEW w \in Workers, BindKey(w)
      PROVE  BinderInv'
  <2>1. PICK c \in KeyedCalls, k \in Keys, b \in Bodies :
          /\ c = served[w] /\ k = job[w].key /\ b = job[w].body
          /\ k = Fingerprint(c) /\ b = BodyHash(c)
    <3>1. job[w] # Idle
      BY <1>1 DEF BindKey, PutMeta, At
    <3> QED
      BY <3>1, KeysAndHashes DEF CallInv, Serves
  <2>2. c # None
    BY CallsAssumption DEF KeyedCalls
  <2>3. binder' = [binder EXCEPT ![k] = IF meta' = meta THEN @ ELSE c]
    BY <1>1, <2>1 DEF BindKey
  <2>4. CASE meta' = meta
    BY <2>3, <2>4 DEF BinderInv, Fingerprint, BodyHash
  <2>5. CASE meta' # meta
    <3>1. meta' = [meta EXCEPT ![k] = b]
      BY <1>1, <2>1, <2>5 DEF BindKey, PutMeta
    <3>2. binder' = [binder EXCEPT ![k] = c]
      BY <2>3, <2>5
    <3> QED
      BY <2>1, <2>2, <3>1, <3>2 DEF BinderInv, StoreInv, TypeOK
  <2> QED
    BY <2>4, <2>5
<1>2. CASE UNCHANGED <<meta, binder>>
  BY <1>2 DEF BinderInv
<1> QED
  BY <1>1, <1>2 DEF HttpNext, httpVars, vars, TurnAway, ServeUnkeyed, Admit, KeyReused,
     FindResponse, CarryOut, ServiceRefuses, StoreResponse, Respond, Break, GetMeta, Refuse,
     GetResponse, Run, Fail, PutResponse, Reply, Abandon

LEMMA IndependentStep ==
  BinderInv /\ KeysAreIndependent /\ [HttpNext]_httpVars => KeysAreIndependent'
<1> SUFFICES ASSUME BinderInv, KeysAreIndependent, [HttpNext]_httpVars
             PROVE  KeysAreIndependent'
  OBVIOUS
<1>1. ASSUME NEW w \in Workers, NEW c \in Calls, KeyReused(w, c)
      PROVE  KeysAreIndependent'
  <2>1. c \in KeyedCalls /\ Fingerprint(c) \in Keys
    BY <1>1, KeysAndHashes DEF KeyReused, KeyedCalls
  <2>2. PICK d : d = binder[Fingerprint(c)]
    OBVIOUS
  <2>3. meta[Fingerprint(c)] \notin {Unbound, BodyHash(c)}
    BY <1>1 DEF KeyReused, Refuse
  <2>4. /\ d # None /\ d \in KeyedCalls
        /\ Fingerprint(d) = Fingerprint(c) /\ BodyHash(d) # BodyHash(c)
    BY <2>1, <2>2, <2>3 DEF BinderInv
  <2>5. d.subject = c.subject /\ d.op = c.op /\ d.key = c.key /\ Meaning(d) # Meaning(c)
    BY <2>1, <2>4, FingerprintNames, HashIsMeaning
  <2>6. answer'.call = c /\ binder' = binder
    BY <1>1 DEF KeyReused, Tell
  <2> QED
    BY <2>2, <2>4, <2>5, <2>6 DEF KeysAreIndependent, Fingerprint, Meaning
<1>2. CASE answer' = None \/ answer'.by # "key"
  BY <1>2 DEF KeysAreIndependent
<1>3. CASE UNCHANGED httpVars
  BY <1>3 DEF httpVars, KeysAreIndependent, Fingerprint, Meaning
<1> QED
  BY <1>1, <1>2, <1>3 DEF HttpNext, TurnAway, ServeUnkeyed, Admit, BindKey,
     FindResponse, CarryOut, ServiceRefuses, StoreResponse, Respond, Break, Tell

\* A call is refused for its key only if the same subject used that key, for
\* the same operation, to ask for something else.
THEOREM RefusalsAreDeserved == HttpSpec => []KeysAreIndependent
<1>1. HttpInit => BinderInv /\ KeysAreIndependent
  BY DEF HttpInit, Init, BinderInv, KeysAreIndependent
<1> QED
  BY <1>1, InitOfHttp, StoreStep, CallStep, BinderStep, IndependentStep, PTL DEF HttpSpec

-----------------------------------------------------------------------------
(* Strangers *)

\* The call may have been let in past the profile lookup.
LetIn(c) == c.subject \in provisioned \/ c.op = "UpdateMyMemberProfile"

LEMMA ProfileRows ==
  \A op \in KeyedOps : op # "UpdateMyMemberProfile" => Handlers[op].member
<1>1. /\ Handlers["CreateTripDraft"].member = TRUE
      /\ Handlers["UpdateTrip"].member = TRUE
      /\ Handlers["SetTripDraftVisibility"].member = TRUE
      /\ Handlers["CancelTrip"].member = TRUE
      /\ Handlers["AddTripOrganizer"].member = TRUE
      /\ Handlers["RemoveTripOrganizer"].member = TRUE
      /\ Handlers["SetMyRSVP"].member = TRUE
  BY DEF Handlers, CreateTripDraft, UpdateTrip, SetTripDraftVisibility, CancelTrip,
         AddTripOrganizer, RemoveTripOrganizer, SetMyRSVP
<1> QED
  BY <1>1 DEF KeyedOps

StrangerInv ==
  /\ StrangersLeaveNoTrace
  /\ \A w \in Workers : job[w] # Idle => LetIn(served[w])

LEMMA StrangerStep ==
  /\ StoreInv /\ CallInv /\ BinderInv /\ StrangerInv
  /\ [HttpNext]_httpVars
  => StrangerInv'
<1> SUFFICES ASSUME StoreInv, CallInv, BinderInv, StrangerInv, [HttpNext]_httpVars
             PROVE  StrangerInv'
  OBVIOUS
<1>1. provisioned \subseteq provisioned'
  BY DEF HttpNext, httpVars, TurnAway, ServeUnkeyed, Admit, KeyReused, BindKey, FindResponse,
         CarryOut, ServiceRefuses, StoreResponse, Respond, Break
<1>2. ASSUME NEW v \in Workers, job'[v] # Idle
      PROVE  LetIn(served[v])'
  <2>1. ASSUME NEW c \in Calls, Admit(v, c)
        PROVE  LetIn(served[v])'
    <3>1. c \in KeyedCalls /\ EntryStatus(c) = 0 /\ served'[v] = c
      BY <2>1 DEF Admit, KeyedCalls, CallInv
    <3>2. c.op \in KeyedOps
      BY <3>1, KeyedRows, CallsAssumption DEF KeyedCalls, Keyed
    <3>3. Handlers[c.op].member => c.subject \in provisioned
      BY <3>1 DEF EntryStatus
    <3> QED
      BY <1>1, <3>1, <3>2, <3>3, ProfileRows DEF LetIn
  <2>2. CASE \A c \in Calls : ~Admit(v, c)
    BY <1>1, <1>2, <2>2, JobsKept DEF StrangerInv, LetIn
  <2> QED
    BY <2>1, <2>2
<1>3. \A i \in DOMAIN executed' : executed'[i].subject \in provisioned'
  <2>1. CASE UNCHANGED executed
    BY <1>1, <2>1 DEF StrangerInv, StrangersLeaveNoTrace
  <2>2. ASSUME NEW w \in Workers, CarryOut(w)
        PROVE  \A i \in DOMAIN executed' : executed'[i].subject \in provisioned'
    <3>1. /\ served[w] \in KeyedCalls /\ LetIn(served[w])
          /\ executed' = Append(executed, served[w]) /\ executed \in Seq(KeyedCalls)
      BY <2>2 DEF CarryOut, Run, At, StrangerInv, CallInv, Serves
    <3>2. served[w].subject \in provisioned
      BY <2>2, <3>1 DEF CarryOut, Outcomes, MayAnswer, LetIn
    <3>3. \A i \in DOMAIN executed' :
            executed'[i] = served[w] \/ (i \in DOMAIN executed /\ executed'[i] = executed[i])
      BY <3>1
    <3> QED
      BY <1>1, <3>2, <3>3 DEF StrangerInv, StrangersLeaveNoTrace
  <2> QED
    BY <2>1, <2>2 DEF HttpNext, httpVars, TurnAway, ServeUnkeyed, Admit, KeyReused, BindKey,
       FindResponse, ServiceRefuses, StoreResponse, Respond, Break
<1>4. ASSUME NEW k \in Keys, binder'[k] # None
      PROVE  LetIn(binder[k])'
  <2>1. CASE binder'[k] = binder[k]
    BY <1>1, <1>4, <2>1 DEF StrangerInv, StrangersLeaveNoTrace, LetIn
  <2>2. ASSUME NEW w \in Workers, BindKey(w), binder'[k] # binder[k]
        PROVE  LetIn(binder[k])'
    <3>1. binder'[k] = served[w] /\ LetIn(served[w])
      BY <2>2 DEF BindKey, PutMeta, At, BinderInv, StrangerInv
    <3> QED
      BY <1>1, <3>1 DEF LetIn
  <2> QED
    BY <2>1, <2>2 DEF HttpNext, httpVars, TurnAway, ServeUnkeyed, Admit, KeyReused,
       FindResponse, CarryOut, ServiceRefuses, StoreResponse, Respond, Break
<1> QED
  BY <1>2, <1>3, <1>4 DEF StrangerInv, StrangersLeaveNoTrace, LetIn

\* A subject without a profile has nothing carried out, and leaves no key bound
\* but by an attempt to change the profile it does not have.
THEOREM NothingForStrangers == HttpSpec => []StrangersLeaveNoTrace
<1>1. HttpInit => BinderInv /\ StrangerInv
  BY DEF HttpInit, Init, BinderInv, StrangerInv, StrangersLeaveNoTrace
<1>2. StrangerInv => StrangersLeaveNoTrace
  BY DEF StrangerInv
<1> QED
  BY <1>1, <1>2, InitOfHttp, StoreStep, CallStep, BinderStep, StrangerStep, PTL DEF HttpSpec

-----------------------------------------------------------------------------
(* Statuses *)

\* A row answers 200 or 201 for a success and has a response of its own for
\* every refusal of the service behind it.
Answers(op) ==
  /\ Handlers[op].ok \in {200, 201}
  /\ \A o \in Refusals[op] : StatusOf(op, o) \in {404, 409, 422}

LEMMA RowAnswers ==
  ASSUME NEW op, NEW S, Handlers[op].ok = 200, Handlers[op].maps = AsIs(S),
         Refusals[op] \subseteq S, S \subseteq {404, 409, 422}
  PROVE  Answers(op)
<1>1. ASSUME NEW o \in Refusals[op]
      PROVE  StatusOf(op, o) = o
  BY <1>1 DEF StatusOf, AsIs
<1>2. ASSUME NEW o \in Refusals[op]
      PROVE  StatusOf(op, o) \in {404, 409, 422}
  <2>1. o \in {404, 409, 422}
    BY <1>2
  <2> QED
    BY <1>1, <1>2, <2>1
<1> QED
  BY <1>2 DEF Answers

LEMMA RowsAnswer == \A op \in Operations : Answers(op)
<1>1. Answers("ListMembers")
  BY DEF Answers, StatusOf, Refusals, TripRefusals, MemberRefusals, Operations, Handlers, ListMembers, AsIs
<1>2. Answers("SearchMembers")
  BY DEF Answers, StatusOf, Refusals, TripRefusals, MemberRefusals, Operations, Handlers, SearchMembers, AsIs
<1>3. Answers("CreateMyMember")
  BY DEF Answers, StatusOf, Refusals, TripRefusals, MemberRefusals, Operations, Handlers, CreateMyMember, AsIs
<1>4. Answers("GetMyMemberProfile")
  BY DEF Answers, StatusOf, Refusals, TripRefusals, MemberRefusals, Operations, Handlers, GetMyMemberProfile, AsIs
<1>5. Answers("UpdateMyMemberProfile")
  BY DEF Answers, StatusOf, Refusals, TripRefusals, MemberRefusals, Operations, Handlers, UpdateMyMemberProfile, AsIs
<1>6. Answers("ListVisibleTripsForMember")
  BY DEF Answers, StatusOf, Refusals, TripRefusals, Operations, Handlers, ListVisibleTripsForMember, AsIs
<1>7. Answers("ListMyDraftTrips")
  BY DEF Answers, StatusOf, Refusals, TripRefusals, Operations, Handlers, ListMyDraftTrips, AsIs
<1>8. Answers("GetTripDetails")
  <2>1. Handlers["GetTripDetails"].ok = 200 /\ Handlers["GetTripDetails"].maps = AsIs({404})
    BY DEF Handlers, GetTripDetails
  <2>2. "GetTripDetails" \in Operations /\ Refusals["GetTripDetails"] \subseteq {404}
    BY DEF Refusals, TripRefusals, Operations, Handlers
  <2> QED
    BY <2>1, <2>2, RowAnswers
<1>9. Answers("CreateTripDraft")
  BY DEF Answers, StatusOf, Refusals, TripRefusals, Operations, Handlers, CreateTripDraft
<1>10. Answers("UpdateTrip")
  <2>1. Handlers["UpdateTrip"].ok = 200 /\ Handlers["UpdateTrip"].maps = AsIs({404, 409, 422})
    BY DEF Handlers, UpdateTrip
  <2>2. "UpdateTrip" \in Operations /\ Refusals["UpdateTrip"] \subseteq {404, 409, 422}
    BY DEF Refusals, TripRefusals, Operations, Handlers
  <2> QED
    BY <2>1, <2>2, RowAnswers
<1>11. Answers("SetTripDraftVisibility")
  <2>1. Handlers["SetTripDraftVisibility"].ok = 200 /\ Handlers["SetTripDraftVisibility"].maps = AsIs({404, 409, 422})
    BY DEF Handlers, SetTripDraftVisibility
  <2>2. "SetTripDraftVisibility" \in Operations /\ Refusals["SetTripDraftVisibility"] \subseteq {404, 409, 422}
    BY DEF Refusals, TripRefusals, Operations, Handlers
  <2> QED
    BY <2>1, <2>2, RowAnswers
<1>12. Answers("PublishTrip")
  <2>1. Handlers["PublishTrip"].ok = 200 /\ Handlers["PublishTrip"].maps = AsIs({404, 409, 422})
    BY DEF Handlers, PublishTrip
  <2>2. "PublishTrip" \in Operations /\ Refusals["PublishTrip"] \subseteq {404, 409, 422}
    BY DEF Refusals, TripRefusals, Operations, Handlers
  <2> QED
    BY <2>1, <2>2, RowAnswers
<1>13. Answers("CancelTrip")
  <2>1. Handlers["CancelTrip"].ok = 200 /\ Handlers["CancelTrip"].maps = AsIs({404, 409, 422})
    BY DEF Handlers, CancelTrip
  <2>2. "CancelTrip" \in Operations /\ Refusals["CancelTrip"] \subseteq {404, 409, 422}
    BY DEF Refusals, TripRefusals, Operations, Handlers
  <2> QED
    BY <2>1, <2>2, RowAnswers
<1>14. Answers("AddTripOrganizer")
  <2>1. Handlers["AddTripOrganizer"].ok = 200 /\ Handlers["AddTripOrganizer"].maps = AsIs({404, 409, 422})
    BY DEF Handlers, AddTripOrganizer
  <2>2. "AddTripOrganizer" \in Operations /\ Refusals["AddTripOrganizer"] \subseteq {404, 409, 422}
    BY DEF Refusals, TripRefusals, Operations, Handlers
  <2> QED
    BY <2>1, <2>2, RowAnswers
<1>15. Answers("RemoveTripOrganizer")
  <2>1. Handlers["RemoveTripOrganizer"].ok = 200 /\ Handlers["RemoveTripOrganizer"].maps = AsIs({404, 409, 422})
    BY DEF Handlers, RemoveTripOrganizer
  <2>2. "RemoveTripOrganizer" \in Operations /\ Refusals["RemoveTripOrganizer"] \subseteq {404, 409, 422}
    BY DEF Refusals, TripRefusals, Operations, Handlers
  <2> QED
    BY <2>1, <2>2, RowAnswers
<1>16. Answers("SetMyRSVP")
  <2>1. Handlers["SetMyRSVP"].ok = 200 /\ Handlers["SetMyRSVP"].maps = AsIs({404, 409, 422})
    BY DEF Handlers, SetMyRSVP
  <2>2. "SetMyRSVP" \in Operations /\ Refusals["SetMyRSVP"] \subseteq {404, 409, 422}
    BY DEF Refusals, TripRefusals, Operations, Handlers
  <2> QED
    BY <2>1, <2>2, RowAnswers
<1>17. Answers("GetMyRSVPForTrip")
  <2>1. Handlers["GetMyRSVPForTrip"].ok = 200 /\ Handlers["GetMyRSVPForTrip"].maps = AsIs({404, 409})
    BY DEF Handlers, GetMyRSVPForTrip
  <2>2. "GetMyRSVPForTrip" \in Operations /\ Refusals["GetMyRSVPForTrip"] \subseteq {404, 409}
    BY DEF Refusals, TripRefusals, Operations, Handlers
  <2> QED
    BY <2>1, <2>2, RowAnswers
<1>18. Answers("GetTripRSVPSummary")
  <2>1. Handlers["GetTripRSVPSummary"].ok = 200 /\ Handlers["GetTripRSVPSummary"].maps = AsIs({404, 409})
    BY DEF Handlers, GetTripRSVPSummary
  <2>2. "GetTripRSVPSummary" \in Operations /\ Refusals["GetTripRSVPSummary"] \subseteq {404, 409}
    BY DEF Refusals, TripRefusals, Operations, Handlers
  <2> QED
    BY <2>1, <2>2, RowAnswers
<1> QED
  BY <1>1, <1>2, <1>3, <1>4, <1>5, <1>6, <1>7, <1>8, <1>9, <1>10,
     <1>11, <1>12, <1>13, <1>14, <1>15, <1>16, <1>17, <1>18 DEF Operations, Handlers

\* What Idempotency and the calls behind it leave open of HttpTypeOK.
AnswerInv ==
  /\ campaign \in Campaigns
  /\ provisioned \subseteq {c.subject : c \in Calls} \ {Nobody}
  /\ answer \in Answer \cup {None}
  /\ RefusalsAnswered

\* An answer other than a 500 keeps the type and the statuses as they should be.
LEMMA TellKeepsAnswers ==
  ASSUME NEW c \in Calls, NEW status, NEW by, NEW effect \in 0..MaxEffects,
         Tell(c, status, by, effect),
         by \in {"entry", "key", "service"}, status \in {200, 201, 400, 401, 404, 409, 422}
  PROVE  answer' \in Answer \cup {None} /\ RefusalsAnswered'
<1>1. /\ answer'.status = status /\ status # 500
      /\ answer' = [call |-> c, status |-> status, by |-> by, effect |-> effect]
  BY DEF Tell
<1> QED
  BY <1>1 DEF Answer, RefusalsAnswered

LEMMA AnswerStep ==
  StoreInv /\ CallInv /\ AnswerInv /\ [HttpNext]_httpVars => AnswerInv'
<1> SUFFICES ASSUME StoreInv, CallInv, AnswerInv, [HttpNext]_httpVars
             PROVE  AnswerInv'
  OBVIOUS
<1>0. 0 \in 0..MaxEffects
  BY StoreAssumption
<1>1. campaign' \in Campaigns
  BY DEF AnswerInv, HttpNext, httpVars, TurnAway, ServeUnkeyed, Admit, KeyReused, BindKey,
         FindResponse, CarryOut, ServiceRefuses, StoreResponse, Respond, Break
<1>2. provisioned' \subseteq {c.subject : c \in Calls} \ {Nobody}
  <2>1. ASSUME NEW c \in Calls, ServeUnkeyed(c)
        PROVE  provisioned' \subseteq {d.subject : d \in Calls} \ {Nobody}
    <3>1. c.subject # Nobody
      BY <2>1 DEF ServeUnkeyed, EntryStatus
    <3>2. provisioned' \subseteq provisioned \cup {c.subject}
      BY <2>1 DEF ServeUnkeyed
    <3> QED
      BY <3>1, <3>2 DEF AnswerInv
  <2>2. CASE UNCHANGED provisioned
    BY <2>2 DEF AnswerInv
  <2> QED
    BY <2>1, <2>2 DEF HttpNext, httpVars, TurnAway, Admit, KeyReused, BindKey, FindResponse,
       CarryOut, ServiceRefuses, StoreResponse, Respond, Break
<1>3. answer' \in Answer \cup {None} /\ RefusalsAnswered'
  <2>1. ASSUME NEW c \in Calls, TurnAway(c)
        PROVE  answer' \in Answer \cup {None} /\ RefusalsAnswered'
    <3>1. EntryStatus(c) \in {400, 401}
      BY <2>1 DEF TurnAway, EntryStatus
    <3> QED
      BY <1>0, <2>1, <3>1, TellKeepsAnswers DEF TurnAway
  <2>2. ASSUME NEW c \in Calls, ServeUnkeyed(c)
        PROVE  answer' \in Answer \cup {None} /\ RefusalsAnswered'
    <3>1. PICK o \in Refusals[c.op] \cup {0} :
            Tell(c, IF o = 0 THEN Handlers[c.op].ok ELSE StatusOf(c.op, o), "service", 0)
      BY <2>2 DEF ServeUnkeyed, Outcomes
    <3>2. Answers(c.op)
      BY CallsAssumption, RowsAnswer
    <3>3. (IF o = 0 THEN Handlers[c.op].ok ELSE StatusOf(c.op, o))
            \in {200, 201, 404, 409, 422}
      BY <3>2 DEF Answers
    <3> QED
      BY <1>0, <3>1, <3>3, TellKeepsAnswers
  <2>3. ASSUME NEW w \in Workers, NEW c \in Calls, KeyReused(w, c)
        PROVE  answer' \in Answer \cup {None} /\ RefusalsAnswered'
    BY <1>0, <2>3, TellKeepsAnswers DEF KeyReused
  <2>4. ASSUME NEW w \in Workers, ServiceRefuses(w)
        PROVE  answer' \in Answer \cup {None} /\ RefusalsAnswered'
    <3>1. PICK c \in Calls : c = served[w]
      BY <2>4 DEF ServiceRefuses, Fail, At, CallInv, Serves, KeyedCalls
    <3>2. PICK o \in Refusals[c.op] : Tell(c, StatusOf(c.op, o), "service", 0)
      BY <2>4, <3>1 DEF ServiceRefuses, Outcomes
    <3>3. StatusOf(c.op, o) \in {404, 409, 422}
      BY CallsAssumption, RowsAnswer DEF Answers
    <3> QED
      BY <1>0, <3>2, <3>3, TellKeepsAnswers
  <2>5. ASSUME NEW w \in Workers, Respond(w)
        PROVE  answer' \in Answer \cup {None} /\ RefusalsAnswered'
    <3>1. job[w] # Idle /\ job[w].answer \in 0..MaxEffects
      BY <2>5 DEF Respond, Reply, At, StoreInv, TypeOK, Job
    <3>2. PICK c \in Calls : c = served[w]
      BY <3>1 DEF CallInv, Serves, KeyedCalls
    <3>3. Handlers[c.op].ok \in {200, 201}
      BY CallsAssumption, RowsAnswer DEF Answers
    <3> QED
      BY <2>5, <3>1, <3>2, <3>3, TellKeepsAnswers DEF Respond
  <2>6. ASSUME NEW w \in Workers, Break(w)
        PROVE  answer' \in Answer \cup {None} /\ RefusalsAnswered'
    <3>1. PICK c \in Calls : c = served[w]
      BY <2>6 DEF Break, Abandon, CallInv, Serves, KeyedCalls
    <3>2. CASE answer' = None
      BY <3>2 DEF RefusalsAnswered
    <3>3. CASE answer' = [call |-> c, status |-> 500, by |-> "failure", effect |-> 0]
      BY <1>0, <3>3 DEF Answer, RefusalsAnswered
    <3> QED
      BY <2>6, <3>1, <3>2, <3>3 DEF Break, Tell
  <2>7. CASE answer' = None
    BY <2>7 DEF RefusalsAnswered
  <2>8. CASE UNCHANGED answer
    BY <2>8 DEF AnswerInv, RefusalsAnswered
  <2> QED
    BY <2>1, <2>2, <2>3, <2>4, <2>5, <2>6, <2>7, <2>8
       DEF HttpNext, httpVars, Admit, BindKey, FindResponse, CarryOut, StoreResponse
<1> QED
  BY <1>1, <1>2, <1>3 DEF AnswerInv

LEMMA AnswerInit == HttpInit => AnswerInv
BY DEF HttpInit, AnswerInv, RefusalsAnswered

\* Every record of the handlers keeps its type, and the store's with them.
THEOREM HttpTypeCorrect == HttpSpec => []HttpTypeOK
<1>1. HttpInit => BinderInv
  BY DEF HttpInit, Init, BinderInv
<1>2. StoreInv /\ CallInv /\ BinderInv /\ AnswerInv => HttpTypeOK
  BY DEF HttpTypeOK, StoreInv, CallInv, BinderInv, AnswerInv
<1> QED
  BY <1>1, <1>2, InitOfHttp, StoreStep, CallStep, BinderStep, AnswerInit, AnswerStep, PTL
     DEF HttpSpec

\* Whatever a service can refuse, the handler in front of it has a response
\* for: a client is told 500 only when a call of the database failed.
THEOREM NoRefusalIsInternal == HttpSpec => []RefusalsAnswered
<1>1. AnswerInv => RefusalsAnswered
  BY DEF AnswerInv
<1> QED
  BY <1>1, InitOfHttp, StoreStep, CallStep, AnswerInit, AnswerStep, PTL DEF HttpSpec

-----------------------------------------------------------------------------
(* The promise of the key, behind the handlers *)

\* No client sends an empty Idempotency-Key: CancelTrip, which alone lets one
\* through, does not store the answer it gives to it.
NoEmptyKeys == \A C \in Campaigns : \A c \in C : c.key # EmptyKey

\* A request in flight is one that a client of this behaviour makes.
ArrivedInv ==
  /\ campaign \in Campaigns
  /\ \A w \in Workers : job[w] # Idle => served[w] \in campaign

LEMMA ArrivedStep ==
  StoreInv /\ CallInv /\ ArrivedInv /\ [HttpNext]_httpVars => ArrivedInv'
<1> SUFFICES ASSUME StoreInv, CallInv, ArrivedInv, [HttpNext]_httpVars
             PROVE  ArrivedInv'
  OBVIOUS
<1>1. UNCHANGED campaign
  BY DEF HttpNext, httpVars, TurnAway, ServeUnkeyed, Admit, KeyReused, BindKey, FindResponse,
         CarryOut, ServiceRefuses, StoreResponse, Respond, Break
<1>2. ASSUME NEW v \in Workers, job'[v] # Idle
      PROVE  served'[v] \in campaign
  <2>1. ASSUME NEW c \in Calls, Admit(v, c)
        PROVE  served'[v] \in campaign
    BY <2>1 DEF Admit, Arrives, CallInv
  <2>2. CASE \A c \in Calls : ~Admit(v, c)
    BY <1>2, <2>2, JobsKept DEF ArrivedInv
  <2> QED
    BY <2>1, <2>2
<1> QED
  BY <1>1, <1>2 DEF ArrivedInv

LEMMA ArrivedInit == HttpInit => ArrivedInv
BY DEF HttpInit, Init, ArrivedInv

\* Without empty keys the handlers take the steps of the store and no others.
LEMMA StepIsStoreStep ==
  ASSUME NoEmptyKeys, ArrivedInv, [HttpNext]_httpVars
  PROVE  [Next]_vars
<1>1. ASSUME NEW w \in Workers, NEW c \in Calls, Admit(w, c) \/ KeyReused(w, c)
      PROVE  Next
  <2>1. Fingerprint(c) \in Keys /\ BodyHash(c) \in Bodies
    BY <1>1, KeysAndHashes DEF Admit, KeyReused, KeyedCalls
  <2> QED
    BY <1>1, <2>1 DEF Admit, KeyReused, Next
<1>2. ASSUME NEW w \in Workers, StoreResponse(w)
      PROVE  Next
  <2>1. At(w, "store") => served[w].key # EmptyKey
    BY DEF At, ArrivedInv, NoEmptyKeys
  <2> QED
    BY <1>2, <2>1 DEF StoreResponse, Next
<1>3. ASSUME NEW w \in Workers,
             \/ BindKey(w) \/ FindResponse(w) \/ CarryOut(w)
             \/ ServiceRefuses(w) \/ Respond(w) \/ Break(w)
      PROVE  Next
  BY <1>3 DEF BindKey, FindResponse, CarryOut, ServiceRefuses, Respond, Break, Next
<1>4. ASSUME NEW c \in Calls, TurnAway(c) \/ ServeUnkeyed(c)
      PROVE  UNCHANGED vars
  BY <1>4 DEF TurnAway, ServeUnkeyed
<1> QED
  BY <1>1, <1>2, <1>3, <1>4 DEF HttpNext, httpVars

\* So a behaviour of the handlers is one of the store, and what Idempotency
\* promises holds behind the handlers.
LEMMA HttpIsIdempotent ==
  ASSUME NoEmptyKeys
  PROVE  HttpSpec => Spec
<1>1. HttpInit => Init
  BY DEF HttpInit
<1>2. ArrivedInv /\ [HttpNext]_httpVars => [Next]_vars
  BY StepIsStoreStep
<1> QED
  BY <1>1, <1>2, InitOfHttp, StoreStep, CallStep, ArrivedInit, ArrivedStep, PTL
     DEF HttpSpec, Spec

\* Behind the handlers too, in memory and one request at a time, a key keeps
\* the whole of its promise.
THEOREM HttpSerialExactlyOnce ==
  ASSUME NoEmptyKeys, Backend = "memory", OneAtATime
  PROVE  HttpSpec => ImplementsExactlyOnce
BY HttpIsIdempotent, SerialExactlyOnce, PTL

\* Behind the handlers too, in memory, a call that its client was told succeeded
\* is never carried out again, whatever other calls overlap with its repetition.
THEOREM HttpSettledNeverRerun ==
  ASSUME NoEmptyKeys, Backend = "memory"
  PROVE  HttpSpec => []SettledNeverRerun
BY HttpIsIdempotent, MemorySettledNeverRerun, PTL

=============================================================================
