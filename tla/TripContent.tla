----------------------------- MODULE TripContent -----------------------------
(***************************************************************************)
(* The content of a trip (texts, dates, meeting location, artifacts) under *)
(* PATCH /trips/{tripId}: from the JSON body, where a field is absent,     *)
(* null or a value, through the service's input and the record it saves,   *)
(* to the columns and rows of the backend and back into a response.        *)
(*                                                                         *)
(* Requests come one after the other; what overlapping ones do to the      *)
(* whole record is the subject of TripService, which also has the status,  *)
(* the organizers and the capacity.  "description" stands for the four     *)
(* nullable texts, which are treated alike; a date is the number of a day. *)
(***************************************************************************)
EXTENDS Naturals, SequencesExt

CONSTANTS
  Campaigns,    \* the sets of bodies that clients send together
  Texts,
  Blank,        \* the empty text
  DraftName,    \* what the trip was called when it was created
  ArtifactIDs,
  Artifacts,    \* what the trip's artifacts are at the start: a sequence of ids
  Absent,       \* the JSON field is not there
  Null          \* JSON null; a nil pointer; SQL NULL

ASSUME TextsAssumption == Blank \in Texts /\ DraftName \in Texts \ {Blank}

ASSUME ArtifactsAssumption == Artifacts \in Seq(ArtifactIDs) /\ IsInjective(Artifacts)

\* A nullable field of a body, which may be left out, and of a record.
Optional(S) == S \cup {Absent, Null}
Nullable(S) == S \cup {Null}

Point == [latitude : Optional(Int), longitude : Optional(Int)]

Place == [label : Optional(Texts), address : Optional(Texts), coordinates : Optional(Point)]

UpdateTripRequest ==
  [name        : Optional(Texts),
   description : Optional(Texts),
   startDate   : Optional(Nat),
   endDate     : Optional(Nat),
   location    : Optional(Place),
   artifacts   : Optional(Seq(ArtifactIDs))]

\* The service's own input for a location: a patch in which null coordinates
\* have become an order to clear both.
LocationInput ==
  [label : Optional(Texts), address : Optional(Texts), clear : BOOLEAN,
   latitude : Optional(Int), longitude : Optional(Int)]

Location ==
  [label : Texts, address : Nullable(Texts),
   latitude : Nullable(Int), longitude : Nullable(Int)]

Trip ==
  [name        : Texts \ {Blank},
   description : Nullable(Texts),
   startDate   : Nullable(Nat),
   endDate     : Nullable(Nat),
   location    : Nullable(Location),
   artifacts   : Seq(ToSet(Artifacts))]

ASSUME NullAssumption ==
  /\ Null # Absent
  /\ \A x \in {Absent, Null} :
       x \notin Texts \cup Int \cup Point \cup Place \cup LocationInput \cup Location
                  \cup Seq(ArtifactIDs)

ASSUME BodiesAssumption == \A C \in Campaigns : C \subseteq UpdateTripRequest

\* What a field of a body holds that is there and not null.
Sent(x) == x \notin {Absent, Null}

-----------------------------------------------------------------------------
(* From the body to the service's input *)

NullAsAbsent(x) == IF x = Null THEN Absent ELSE x

\* Mutant: null coordinates are taken for coordinates that were left out.
LocationPatchIgnoringNull(location) ==
  LET at == location.coordinates
  IN  [label     |-> location.label,
       address   |-> location.address,
       clear     |-> FALSE,
       latitude  |-> IF Sent(at) THEN at.latitude ELSE Absent,
       longitude |-> IF Sent(at) THEN at.longitude ELSE Absent]

LocationPatch(location) ==
  LET at == location.coordinates
  IN  [label     |-> location.label,
       address   |-> location.address,
       clear     |-> at = Null,
       latitude  |-> IF Sent(at) THEN at.latitude ELSE Absent,
       longitude |-> IF Sent(at) THEN at.longitude ELSE Absent]

\* The name and the meeting location are pointers in the generated type: null
\* cannot be told from a field that was left out.
updateTripInputFromOAS(body) ==
  [name        |-> NullAsAbsent(body.name),
   description |-> body.description,
   startDate   |-> body.startDate,
   endDate     |-> body.endDate,
   location    |-> IF Sent(body.location) THEN LocationPatch(body.location) ELSE Absent,
   artifacts   |-> body.artifacts]

-----------------------------------------------------------------------------
(* The service *)

applyNullable(current, o) == IF o = Absent THEN current ELSE o

NowhereYet == [label |-> Blank, address |-> Null, latitude |-> Null, longitude |-> Null]

\* Mutant: null coordinates clear the latitude and leave the longitude.
applyLocationPatchHalf(existing, patch) ==
  LET cur == IF existing = Null THEN NowhereYet ELSE existing
  IN  [label     |-> IF Sent(patch.label) THEN patch.label ELSE cur.label,
       address   |-> applyNullable(cur.address, patch.address),
       latitude  |-> applyNullable(IF patch.clear THEN Null ELSE cur.latitude, patch.latitude),
       longitude |-> applyNullable(cur.longitude, patch.longitude)]

\* A null label leaves the label alone.
applyLocationPatch(existing, patch) ==
  LET cur == IF existing = Null THEN NowhereYet ELSE existing
  IN  [label     |-> IF Sent(patch.label) THEN patch.label ELSE cur.label,
       address   |-> applyNullable(cur.address, patch.address),
       latitude  |-> applyNullable(IF patch.clear THEN Null ELSE cur.latitude, patch.latitude),
       longitude |-> applyNullable(IF patch.clear THEN Null ELSE cur.longitude, patch.longitude)]

\* The artifacts that the identifiers name, in their order.  An artifact is its
\* identifier here; an identifier that names none refuses the request.
reorderArtifactsByID(existing, ids) ==
  LET byID == [id \in ToSet(existing) |-> id]
  IN  [i \in DOMAIN ids |-> byID[ids[i]]]

Edited(t, in) ==
  [name        |-> applyNullable(t.name, in.name),
   description |-> applyNullable(t.description, in.description),
   startDate   |-> applyNullable(t.startDate, in.startDate),
   endDate     |-> applyNullable(t.endDate, in.endDate),
   location    |-> IF in.location = Absent THEN t.location
                   ELSE applyLocationPatch(t.location, in.location),
   artifacts   |-> CASE in.artifacts = Absent -> t.artifacts
                     [] in.artifacts = Null   -> <<>>
                     [] OTHER -> reorderArtifactsByID(t.artifacts, in.artifacts)]

EndsBeforeStart(t) == Null \notin {t.startDate, t.endDate} /\ t.endDate < t.startDate

NamesUnknown(t, in) == Sent(in.artifacts) /\ ~(ToSet(in.artifacts) \subseteq ToSet(t.artifacts))

\* Mutant: the dates are only compared if the request sends both.
InvalidComparingSent(t, in) ==
  \/ in.name = Blank
  \/ NamesUnknown(t, in)
  \/ Sent(in.startDate) /\ Sent(in.endDate) /\ in.endDate < in.startDate

Invalid(t, in) ==
  \/ in.name = Blank
  \/ NamesUnknown(t, in)
  \/ ~NamesUnknown(t, in) /\ EndsBeforeStart(Edited(t, in))

-----------------------------------------------------------------------------
(* The backends: a record in memory, columns and artifact rows in Postgres *)

Columns(l) ==
  IF l = Null THEN [label |-> Null, address |-> Null, latitude |-> Null, longitude |-> Null]
  ELSE l

\* Mutant: a location without label and address is taken for no location.
meetingFromColumnsLabelled(c) ==
  IF c.label \in {Null, Blank} /\ c.address = Null THEN Null
  ELSE [c EXCEPT !.label = IF @ = Null THEN Blank ELSE @]

meetingFromColumns(c) ==
  IF \A f \in DOMAIN c : c[f] = Null THEN Null
  ELSE [c EXCEPT !.label = IF @ = Null THEN Blank ELSE @]

\* Mutant: the rows are written with the default sort_order.
syncArtifactsUnsorted(artifacts) ==
  [a \in ToSet(Artifacts) |-> IF a \in ToSet(artifacts) THEN 1 ELSE 0]

\* One row per artifact, with the position it is read back at; 0: no row.  An
\* artifact named twice keeps its last position.
syncArtifacts(artifacts) ==
  [a \in ToSet(Artifacts) |-> SelectLastInSeq(artifacts, LAMBDA x : x = a)]

\* ORDER BY sort_order.
InOrder(key) ==
  CHOOSE s \in Bijection(1..Cardinality(DOMAIN key), DOMAIN key) :
    \A i, j \in DOMAIN s : i <= j => key[s[i]] <= key[s[j]]

loadArtifacts(position) ==
  InOrder(Restrict(position, {a \in DOMAIN position : position[a] # 0}))

LoneCoordinate(l) == l # Null /\ (l.latitude = Null) # (l.longitude = Null)

\* The CHECK constraints of the table.
RowAccepted(t) == ~EndsBeforeStart(t) /\ ~LoneCoordinate(t.location)

SaveAccepted(backend, t) == backend = "postgres" => RowAccepted(t)

Stored(backend, t) ==
  IF backend = "memory" THEN t
  ELSE [t EXCEPT !.location = Columns(@), !.artifacts = syncArtifacts(@)]

Loaded(backend, s) ==
  IF backend = "memory" THEN s
  ELSE [s EXCEPT !.location = meetingFromColumns(@), !.artifacts = loadArtifacts(@)]

-----------------------------------------------------------------------------
(* The response *)

nullable(x) == IF x = Null THEN Absent ELSE x

\* Mutant: the coordinates are exchanged.
locationFromDomainExchanged(l) ==
  [label       |-> l.label,
   address     |-> nullable(l.address),
   coordinates |-> IF l.latitude = Null /\ l.longitude = Null THEN Absent
                   ELSE [latitude  |-> nullable(l.longitude),
                         longitude |-> nullable(l.latitude)]]

locationFromDomain(l) ==
  [label       |-> l.label,
   address     |-> nullable(l.address),
   coordinates |-> IF l.latitude = Null /\ l.longitude = Null THEN Absent
                   ELSE [latitude  |-> nullable(l.latitude),
                         longitude |-> nullable(l.longitude)]]

tripDetailsFromDomain(t) ==
  [name        |-> nullable(t.name),
   description |-> nullable(t.description),
   startDate   |-> nullable(t.startDate),
   endDate     |-> nullable(t.endDate),
   location    |-> IF t.location = Null THEN Absent ELSE locationFromDomain(t.location),
   artifacts   |-> t.artifacts]

-----------------------------------------------------------------------------
VARIABLES
  backend,  \* what the server was started with
  campaign, \* the bodies that clients send in this behaviour
  stored,   \* the trip's content as the backend keeps it
  answer    \* the last request and what its client was told

vars == <<backend, campaign, stored, answer>>

Draft ==
  [name |-> DraftName, description |-> Null, startDate |-> Null, endDate |-> Null,
   location |-> Null, artifacts |-> Artifacts]

NoAnswer == [body |-> [f \in DOMAIN Draft |-> Absent], status |-> 0, details |-> Absent]

Init ==
  /\ backend \in {"memory", "postgres"}
  /\ campaign \in Campaigns
  /\ stored = Stored(backend, Draft)
  /\ answer = NoAnswer

Tell(body, status, details) ==
  answer' = [body |-> body, status |-> status, details |-> details]

\* The response describes the record the handler has in hand, not what a read
\* would now give.
UpdateTrip(body) ==
  LET t   == Loaded(backend, stored)
      in  == updateTripInputFromOAS(body)
      new == Edited(t, in)
  IN  /\ \/ /\ Invalid(t, in)
            /\ Tell(body, 422, Absent)
            /\ UNCHANGED stored
         \/ /\ ~Invalid(t, in) /\ ~SaveAccepted(backend, new)
            /\ Tell(body, 500, Absent)
            /\ UNCHANGED stored
         \/ /\ ~Invalid(t, in) /\ SaveAccepted(backend, new)
            /\ Tell(body, 200, tripDetailsFromDomain(new))
            /\ stored' = Stored(backend, new)
      /\ UNCHANGED <<backend, campaign>>

Next == \E body \in campaign : UpdateTrip(body)

Spec == Init /\ [][Next]_vars

-----------------------------------------------------------------------------
(* Properties *)

Content == Loaded(backend, stored)

\* What a backend holds is of the right kind, and in Postgres each artifact
\* has a position of its own.
TypeOK ==
  /\ backend \in {"memory", "postgres"}
  /\ campaign \in Campaigns
  /\ DOMAIN stored = DOMAIN Draft
  /\ Content \in Trip
  /\ backend = "postgres" =>
       \A a, b \in ToSet(Artifacts) :
         a # b /\ stored.artifacts[a] # 0 => stored.artifacts[a] # stored.artifacts[b]
  /\ answer.status \in {0, 200, 422, 500}

\* The stored trip never ends before it starts, in which order and in however
\* many requests the dates arrive; Postgres has a constraint for it, the
\* service's own check has to do for memory.
DatesOrdered == ~EndsBeforeStart(Content)

\* The only requests that a constraint of the database refuses, with a 500, are
\* those that treat one coordinate otherwise than the other: nothing that was
\* stored before makes a later, well-formed request fail.
TreatedAlike(x, y) == (Sent(x) <=> Sent(y)) /\ (x = Null <=> y = Null)

OnlyLoneCoordinatesFail ==
  answer.status = 500 =>
    /\ backend = "postgres"
    /\ Sent(answer.body.location) /\ Sent(answer.body.location.coordinates)
    /\ LET at == answer.body.location.coordinates
       IN  ~TreatedAlike(at.latitude, at.longitude)

\* What a client is told after a PATCH is what its next GET shows, unless it
\* named an artifact twice, which the response repeats and Postgres does not.
AnswerIsStored ==
  answer.status = 200 =>
    \/ answer.details = tripDetailsFromDomain(Content)
    \/ backend = "postgres" /\ ~IsInjective(answer.details.artifacts)

\* A client that sends back the content it was shown changes nothing.
EchoChangesNothing ==
  LET in == updateTripInputFromOAS(tripDetailsFromDomain(Content))
  IN  ~Invalid(Content, in) /\ Edited(Content, in) = Content

\* The content as a flat document; an artifact that memory keeps twice counts
\* where it comes last.
Distinct(s) == InOrder([a \in ToSet(s) |-> SelectLastInSeq(s, LAMBDA x : x = a)])

Flat(t) ==
  LET l == IF t.location = Null THEN NowhereYet ELSE t.location
  IN  [name |-> t.name, description |-> t.description,
       startDate |-> t.startDate, endDate |-> t.endDate,
       located |-> IF t.location = Null THEN 0 ELSE 1,
       label |-> l.label, address |-> l.address, latitude |-> l.latitude, longitude |-> l.longitude,
       artifacts |-> Distinct(t.artifacts)]

\* What a body asks of the flat document, read off the JSON.
UnlessNull(x) == IF x = Null THEN Absent ELSE x

Asked(body) ==
  LET l  == IF Sent(body.location) THEN body.location
            ELSE [label |-> Absent, address |-> Absent, coordinates |-> Absent]
      at == CASE l.coordinates = Absent -> [latitude |-> Absent, longitude |-> Absent]
              [] l.coordinates = Null   -> [latitude |-> Null, longitude |-> Null]
              [] OTHER                  -> l.coordinates
  IN  [name        |-> UnlessNull(body.name),
       description |-> body.description,
       startDate   |-> body.startDate,
       endDate     |-> body.endDate,
       located     |-> IF Sent(body.location) THEN 1 ELSE Absent,
       label       |-> UnlessNull(l.label),
       address     |-> l.address,
       latitude    |-> at.latitude,
       longitude   |-> at.longitude,
       artifacts   |-> CASE body.artifacts = Absent -> Absent
                         [] body.artifacts = Null   -> <<>>
                         [] OTHER -> Distinct(body.artifacts)]

Document == INSTANCE TripDocument WITH
  Keep <- Absent, doc <- Flat(Content), request <- Asked(answer.body),
  accepted <- answer.status = 200

\* On either backend a PATCH does to the content what the document's contract
\* says, through the three-valued input, the defaults of a new location, the
\* columns and the artifact rows.
ImplementsDocument == Document!Spec

=============================================================================
