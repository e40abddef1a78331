------------------------------- MODULE HttpApi -------------------------------
(***************************************************************************)
(* The HTTP handlers: who is let in, what the Idempotency-Key of a call    *)
(* identifies, and which status answers what the service said.             *)
(*                                                                         *)
(* Each handler is a row of a table; the steps they share are the actions. *)
(* A handler that reads an Idempotency-Key composes with Idempotency: the  *)
(* fingerprint of a call is the key that module speaks of, the hash of its *)
(* payload the body.  A call that carries no key is one step here, because *)
(* nothing it does is shared with another call at this level; what the     *)
(* services do is the subject of TripService and MemberRegistry.           *)
(***************************************************************************)
EXTENDS Idempotency, FiniteSets

CONSTANTS
  Calls,       \* the calls that clients may make
  Campaigns,   \* the sets of calls that clients make together
  Newcomers,   \* subjects without a member profile at the start
  Nobody,      \* no valid token
  NoKey,       \* no Idempotency-Key header
  EmptyKey,    \* the header is there and empty
  NoTrip,      \* the route names no trip
  NoArg,       \* the call carries no payload
  None         \* nothing was answered in the last step

-----------------------------------------------------------------------------
(* The handlers.  "member": a caller without a profile is answered 401;     *)
(* "key": what the route makes of the Idempotency-Key header; "maps": the   *)
(* statuses of the service's refusals the handler has a response for.       *)

AsIs(S) == [s \in S |-> s]

ListMembers ==
  [method |-> "GET", route |-> "/members", member |-> TRUE, key |-> "none",
   ok |-> 200, maps |-> AsIs({})]

SearchMembers ==
  [method |-> "GET", route |-> "/members/search", member |-> TRUE, key |-> "none",
   ok |-> 200, maps |-> AsIs({422})]

CreateMyMember ==
  [method |-> "POST", route |-> "/members", member |-> FALSE, key |-> "none",
   ok |-> 201, maps |-> AsIs({409, 422})]

GetMyMemberProfile ==
  [method |-> "GET", route |-> "/members/me", member |-> FALSE, key |-> "none",
   ok |-> 200, maps |-> AsIs({404})]

UpdateMyMemberProfile ==
  [method |-> "PATCH", route |-> "/members/me", member |-> FALSE, key |-> "required",
   ok |-> 200, maps |-> AsIs({404, 409, 422})]

ListVisibleTripsForMember ==
  [method |-> "GET", route |-> "/trips", member |-> TRUE, key |-> "none",
   ok |-> 200, maps |-> AsIs({})]

ListMyDraftTrips ==
  [method |-> "GET", route |-> "/trips/drafts", member |-> TRUE, key |-> "none",
   ok |-> 200, maps |-> AsIs({})]

GetTripDetails ==
  [method |-> "GET", route |-> "/trips/{tripId}", member |-> TRUE, key |-> "none",
   ok |-> 200, maps |-> AsIs({404})]

\* Mutant: the handler does not look the caller up.
CreateTripDraftForAll ==
  [method |-> "POST", route |-> "/trips", member |-> FALSE, key |-> "required",
   ok |-> 201, maps |-> [s \in {404, 409, 422} |-> IF s = 404 THEN 409 ELSE s]]

CreateTripDraft ==
  [method |-> "POST", route |-> "/trips", member |-> TRUE, key |-> "required",
   ok |-> 201, maps |-> [s \in {404, 409, 422} |-> IF s = 404 THEN 409 ELSE s]]

\* Mutant: the handler has no response for a conflict.
UpdateTripUnmapped ==
  [method |-> "PATCH", route |-> "/trips/{tripId}", member |-> TRUE, key |-> "required",
   ok |-> 200, maps |-> AsIs({404, 422})]

UpdateTrip ==
  [method |-> "PATCH", route |-> "/trips/{tripId}", member |-> TRUE, key |-> "required",
   ok |-> 200, maps |-> AsIs({404, 409, 422})]

SetTripDraftVisibility ==
  [method |-> "PUT", route |-> "/trips/{tripId}/draft-visibility", member |-> TRUE,
   key |-> "required", ok |-> 200, maps |-> AsIs({404, 409, 422})]

PublishTrip ==
  [method |-> "POST", route |-> "/trips/{tripId}/publish", member |-> TRUE, key |-> "none",
   ok |-> 200, maps |-> AsIs({404, 409, 422})]

CancelTrip ==
  [method |-> "POST", route |-> "/trips/{tripId}/cancel", member |-> TRUE, key |-> "optional",
   ok |-> 200, maps |-> AsIs({404, 409, 422})]

AddTripOrganizer ==
  [method |-> "POST", route |-> "/trips/{tripId}/organizers", member |-> TRUE,
   key |-> "required", ok |-> 200, maps |-> AsIs({404, 409, 422})]

RemoveTripOrganizer ==
  [method |-> "DELETE", route |-> "/trips/{tripId}/organizers/{memberId}", member |-> TRUE,
   key |-> "required", ok |-> 200, maps |-> AsIs({404, 409, 422})]

SetMyRSVP ==
  [method |-> "PUT", route |-> "/trips/{tripId}/rsvp", member |-> TRUE, key |-> "required",
   ok |-> 200, maps |-> AsIs({404, 409, 422})]

GetMyRSVPForTrip ==
  [method |-> "GET", route |-> "/trips/{tripId}/rsvp/me", member |-> TRUE, key |-> "none",
   ok |-> 200, maps |-> AsIs({404, 409})]

GetTripRSVPSummary ==
  [method |-> "GET", route |-> "/trips/{tripId}/rsvps", member |-> TRUE, key |-> "none",
   ok |-> 200, maps |-> AsIs({404, 409})]

Handlers ==
  [ListMembers |-> ListMembers, SearchMembers |-> SearchMembers,
   CreateMyMember |-> CreateMyMember, GetMyMemberProfile |-> GetMyMemberProfile,
   UpdateMyMemberProfile |-> UpdateMyMemberProfile,
   ListVisibleTripsForMember |-> ListVisibleTripsForMember,
   ListMyDraftTrips |-> ListMyDraftTrips, GetTripDetails |-> GetTripDetails,
   CreateTripDraft |-> CreateTripDraft, UpdateTrip |-> UpdateTrip,
   SetTripDraftVisibility |-> SetTripDraftVisibility, PublishTrip |-> PublishTrip,
   CancelTrip |-> CancelTrip, AddTripOrganizer |-> AddTripOrganizer,
   RemoveTripOrganizer |-> RemoveTripOrganizer, SetMyRSVP |-> SetMyRSVP,
   GetMyRSVPForTrip |-> GetMyRSVPForTrip, GetTripRSVPSummary |-> GetTripRSVPSummary]

Operations == DOMAIN Handlers

\* The statuses of the errors the trips service returns.
TripRefusals ==
  [ListVisibleTripsForMember |-> {}, ListMyDraftTrips |-> {}, GetTripDetails |-> {404},
   CreateTripDraft |-> {409, 422}, UpdateTrip |-> {404, 409, 422},
   SetTripDraftVisibility |-> {404, 409, 422}, PublishTrip |-> {404, 409},
   CancelTrip |-> {404, 409}, AddTripOrganizer |-> {404, 422},
   RemoveTripOrganizer |-> {404, 409}, SetMyRSVP |-> {404, 409, 422},
   GetMyRSVPForTrip |-> {404, 409}, GetTripRSVPSummary |-> {404, 409}]

\* The statuses of the errors the members service returns.
MemberRefusals ==
  [ListMembers |-> {}, SearchMembers |-> {422}, CreateMyMember |-> {409, 422},
   GetMyMemberProfile |-> {404}, UpdateMyMemberProfile |-> {404, 409, 422}]

Refusals == [op \in Operations |-> IF op \in DOMAIN TripRefusals THEN TripRefusals[op]
                                                              ELSE MemberRefusals[op]]

\* An error no case of the handler names is a 500 INTERNAL_ERROR.
StatusOf(op, refusal) ==
  IF refusal \in DOMAIN Handlers[op].maps THEN Handlers[op].maps[refusal] ELSE 500

-----------------------------------------------------------------------------
(* What a call asks for, and what its key and hash say of it *)

\* One field of a payload: a text that may be written with superfluous blanks.
Text == [field : {"name", "email", "text"}, value : STRING, padded : BOOLEAN]

NormalizeHumanName(t) == [t EXCEPT !.padded = FALSE]

TrimSpace(t) == [t EXCEPT !.padded = FALSE]

\* What the services make of the payload.
TripStores(t) == IF t # NoArg /\ t.field = "name" THEN NormalizeHumanName(t) ELSE t

ProfileStores(t) ==
  CASE t.field = "name"  -> NormalizeHumanName(t)
    [] t.field = "email" -> TrimSpace(t)
    [] OTHER             -> t

\* What a call asks for: two calls that mean the same may share an answer.
Meaning(c) ==
  [trip |-> c.trip,
   arg  |-> IF c.op = "UpdateMyMemberProfile" THEN ProfileStores(c.arg) ELSE TripStores(c.arg)]

\* The hashes.  Hashing is taken to be injective.
hashUpdateMyMemberProfileBody(c) ==
  [trip |-> NoTrip,
   arg  |-> CASE c.arg.field = "name"  -> NormalizeHumanName(c.arg)
              [] c.arg.field = "email" -> TrimSpace(c.arg)
              [] OTHER                 -> c.arg]

\* Mutant: the name is hashed as it is written.
hashCreateTripDraftBodyRaw(c) == [trip |-> NoTrip, arg |-> c.arg]

hashCreateTripDraftBody(c) == [trip |-> NoTrip, arg |-> NormalizeHumanName(c.arg)]

\* Mutant: the hash is of the payload alone, as it is for CreateTripDraft.
hashUpdateTripBodyNoTrip(c) ==
  [trip |-> NoTrip, arg |-> IF c.arg.field = "name" THEN NormalizeHumanName(c.arg) ELSE c.arg]

hashUpdateTripBody(c) ==
  [trip |-> c.trip, arg |-> IF c.arg.field = "name" THEN NormalizeHumanName(c.arg) ELSE c.arg]

hashSetTripDraftVisibilityBody(c) == [trip |-> c.trip, arg |-> c.arg]

hashAddTripOrganizerBody(c) == [trip |-> c.trip, arg |-> c.arg]

hashRemoveTripOrganizerBody(c) == [trip |-> c.trip, arg |-> c.arg]

hashCancelTripBody(c) == [trip |-> c.trip, arg |-> NoArg]

hashSetMyRSVPBody(c) == [trip |-> c.trip, arg |-> c.arg]

BodyHash(c) ==
  CASE c.op = "UpdateMyMemberProfile"  -> hashUpdateMyMemberProfileBody(c)
    [] c.op = "CreateTripDraft"        -> hashCreateTripDraftBody(c)
    [] c.op = "UpdateTrip"             -> hashUpdateTripBody(c)
    [] c.op = "SetTripDraftVisibility" -> hashSetTripDraftVisibilityBody(c)
    [] c.op = "AddTripOrganizer"       -> hashAddTripOrganizerBody(c)
    [] c.op = "RemoveTripOrganizer"    -> hashRemoveTripOrganizerBody(c)
    [] c.op = "CancelTrip"             -> hashCancelTripBody(c)
    [] c.op = "SetMyRSVP"              -> hashSetMyRSVPBody(c)

Fingerprint(c) ==
  [key |-> c.key, subject |-> c.subject,
   method |-> Handlers[c.op].method, route |-> Handlers[c.op].route]

\* The handler goes through the store.
Keyed(c) == Handlers[c.op].key # "none" /\ c.key # NoKey

KeyedCalls == {c \in Calls : Keyed(c)}

\* Values for the constants of Idempotency.
Fingerprints == {Fingerprint(c) : c \in KeyedCalls}
Hashes == {BodyHash(c) : c \in KeyedCalls}

\* The fields a payload may have; {} for an operation that takes none.
Payload(op) ==
  CASE op \in {"CreateMyMember", "UpdateMyMemberProfile"} -> {"name", "email", "text"}
    [] op = "CreateTripDraft" -> {"name"}
    [] op = "UpdateTrip"      -> {"name", "text"}
    [] op \in {"SearchMembers", "SetTripDraftVisibility", "AddTripOrganizer",
               "RemoveTripOrganizer", "SetMyRSVP"} -> {"text"}
    [] OTHER -> {}

ASSUME CallsAssumption ==
  /\ \A c \in Calls :
       /\ c.op \in Operations
       /\ IF Payload(c.op) = {} THEN c.arg = NoArg
          ELSE c.arg \in Text /\ c.arg.field \in Payload(c.op)
       /\ Handlers[c.op].route \in {"/members", "/members/search", "/members/me",
                                    "/trips", "/trips/drafts"} => c.trip = NoTrip
  /\ NoArg \notin Text
  /\ None \notin Calls
  /\ Keys = Fingerprints /\ Bodies = Hashes
  /\ Campaigns \subseteq SUBSET Calls

-----------------------------------------------------------------------------
VARIABLES
  campaign,     \* the calls the clients make, and repeat, in this behaviour
  provisioned,  \* the subjects with a member profile
  served,       \* per worker, the call it last took on
  executed,     \* the calls behind the entries of log
  binder,       \* per fingerprint, the call that wrote its meta record
  answer        \* what a client was told in the last step

httpVars == <<vars, campaign, provisioned, served, executed, binder, answer>>

Answer == [call   : Calls,
           status : {200, 201, 400, 401, 404, 409, 422, 500},
           by     : {"entry", "key", "service", "failure"},
           effect : 0..MaxEffects]

HttpTypeOK ==
  /\ TypeOK
  /\ campaign \in Campaigns
  /\ provisioned \subseteq {c.subject : c \in Calls} \ {Nobody}
  /\ served \in [Workers -> Calls \cup {None}]
  /\ executed \in Seq(KeyedCalls)
  /\ binder \in [Keys -> KeyedCalls \cup {None}]
  /\ answer \in Answer \cup {None}

Tell(c, status, by, effect) ==
  answer' = [call |-> c, status |-> status, by |-> by, effect |-> effect]

\* What comes before the handler's own work: the token, the parameters of the
\* route, the caller's profile.  0: the call goes on.
EntryStatus(c) ==
  LET h == Handlers[c.op]
  IN  CASE c.subject = Nobody                                        -> 401
        [] h.key = "required" /\ c.key \in {NoKey, EmptyKey}         -> 400
        [] h.member /\ c.subject \notin provisioned                  -> 401
        [] OTHER                                                     -> 0

HttpInit ==
  /\ Init
  /\ campaign \in Campaigns
  /\ provisioned = {c.subject : c \in Calls} \ (Newcomers \cup {Nobody})
  /\ served = [w \in Workers |-> None]
  /\ executed = <<>>
  /\ binder = [k \in Keys |-> None]
  /\ answer = None

Arrives(c) == c \in campaign

TurnAway(c) ==
  /\ Arrives(c)
  /\ EntryStatus(c) # 0
  /\ Tell(c, EntryStatus(c), "entry", 0)
  /\ UNCHANGED <<vars, campaign, provisioned, served, executed, binder>>

\* What the service can make of a call: 0 for success, or a refusal.  Its own
\* look at the profile decides what becomes of three operations.
MayAnswer(c, outcome) ==
  CASE c.op \in {"GetMyMemberProfile", "UpdateMyMemberProfile"} ->
         (outcome = 404) <=> (c.subject \notin provisioned)
    [] c.op = "CreateMyMember" -> c.subject \in provisioned => outcome = 409
    [] OTHER -> TRUE

Outcomes(c) == {o \in Refusals[c.op] \cup {0} : MayAnswer(c, o)}

\* A call without a key, from the first check to the response.
ServeUnkeyed(c) ==
  /\ Arrives(c) /\ ~Keyed(c)
  /\ EntryStatus(c) = 0
  /\ \E o \in Outcomes(c) :
       /\ Tell(c, IF o = 0 THEN Handlers[c.op].ok ELSE StatusOf(c.op, o), "service", 0)
       /\ provisioned' = IF c.op = "CreateMyMember" /\ o = 0 THEN provisioned \cup {c.subject}
                                                             ELSE provisioned
  /\ UNCHANGED <<vars, campaign, served, executed, binder>>

\* The meta record lets the call through, or the key is in use for another
\* payload.
Admit(w, c) ==
  /\ Arrives(c) /\ Keyed(c)
  /\ EntryStatus(c) = 0
  /\ GetMeta(w, Fingerprint(c), BodyHash(c))
  /\ served' = [served EXCEPT ![w] = c]
  /\ answer' = None
  /\ UNCHANGED <<campaign, provisioned, executed, binder>>

KeyReused(w, c) ==
  /\ Arrives(c) /\ Keyed(c)
  /\ EntryStatus(c) = 0
  /\ Refuse(w, Fingerprint(c), BodyHash(c))
  /\ Tell(c, 409, "key", 0)
  /\ UNCHANGED <<campaign, provisioned, served, executed, binder>>

BindKey(w) ==
  /\ PutMeta(w)
  /\ binder' = [binder EXCEPT ![job[w].key] = IF meta' = meta THEN @ ELSE served[w]]
  /\ answer' = None
  /\ UNCHANGED <<campaign, provisioned, served, executed>>

FindResponse(w) ==
  /\ GetResponse(w)
  /\ answer' = None
  /\ UNCHANGED <<campaign, provisioned, served, executed, binder>>

CarryOut(w) ==
  /\ Run(w)
  /\ 0 \in Outcomes(served[w])
  /\ executed' = Append(executed, served[w])
  /\ answer' = None
  /\ UNCHANGED <<campaign, provisioned, served, binder>>

ServiceRefuses(w) ==
  /\ Fail(w)
  /\ \E o \in Outcomes(served[w]) \ {0} :
       Tell(served[w], StatusOf(served[w].op, o), "service", 0)
  /\ UNCHANGED <<campaign, provisioned, served, executed, binder>>

\* CancelTrip does not store the answer of a call whose key is empty.
StoreResponse(w) ==
  /\ IF At(w, "store") /\ served[w].key = EmptyKey
     THEN Goto(w, "reply") /\ UNCHANGED <<meta, resp, log, replies>>
     ELSE PutResponse(w)
  /\ answer' = None
  /\ UNCHANGED <<campaign, provisioned, served, executed, binder>>

Respond(w) ==
  /\ Reply(w)
  /\ Tell(served[w], Handlers[served[w].op].ok, "service", job[w].answer)
  /\ UNCHANGED <<campaign, provisioned, served, executed, binder>>

\* A call to the database fails and the client is told 500, or the client or
\* the server goes away and nobody is told anything.
Break(w) ==
  /\ Abandon(w)
  /\ answer' = None \/ Tell(served[w], 500, "failure", 0)
  /\ UNCHANGED <<campaign, provisioned, served, executed, binder>>

HttpNext ==
  \/ \E c \in Calls : TurnAway(c) \/ ServeUnkeyed(c)
  \/ \E w \in Workers, c \in Calls : Admit(w, c) \/ KeyReused(w, c)
  \/ \E w \in Workers :
       \/ BindKey(w)
       \/ FindResponse(w)
       \/ CarryOut(w)
       \/ ServiceRefuses(w)
       \/ StoreResponse(w)
       \/ Respond(w)
       \/ Break(w)

HttpSpec == HttpInit /\ [][HttpNext]_httpVars

-----------------------------------------------------------------------------
(* Properties *)

\* A client that is told of a success is told of an execution of its own
\* subject's, of the same operation, on the same trip and with a payload the
\* service makes the same thing of: a key used twice never gives an answer to
\* another question.
ReplyIsOwnOperation ==
  answer # None /\ answer.effect # 0 =>
    LET e == executed[answer.effect]
    IN  /\ e.subject = answer.call.subject
        /\ e.op = answer.call.op
        /\ Meaning(e) = Meaning(answer.call)

\* A call is refused for its key only if the same subject used that key, for
\* the same operation, to ask for something else.
KeysAreIndependent ==
  answer # None /\ answer.by = "key" =>
    LET b == binder[Fingerprint(answer.call)]
    IN  /\ b # None
        /\ b.subject = answer.call.subject /\ b.op = answer.call.op /\ b.key = answer.call.key
        /\ Meaning(b) # Meaning(answer.call)

\* Whatever a service can refuse, the handler in front of it has a response
\* for: 500 is left to what breaks.
RefusalsAnswered == answer # None /\ answer.status = 500 => answer.by = "failure"

\* A subject without a profile has nothing carried out; and of the calls it
\* makes only an attempt to change that profile leaves its key bound.
StrangersLeaveNoTrace ==
  /\ \A i \in DOMAIN executed : executed[i].subject \in provisioned
  /\ \A k \in Keys : binder[k] # None =>
       binder[k].subject \in provisioned \/ binder[k].op = "UpdateMyMemberProfile"

=============================================================================
