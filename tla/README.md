# Verification of the rally planner backend

This directory holds TLA+ models of the Go backend, TLC configurations that check
them on small instances, and proofs for TLAPS of what holds for instances of any
size. Paths below are relative to the repository.

    tlc -config trips_mem_serial.cfg MCTripService.tla     # a run
    tlapm TripSafetyProofs.tla                             # the proofs of a module

`PROJECT.json` lists the components, runs, mutants (one per property: a plausible
bug that the property catches), the source lines of every definition, the
findings, the hazards and the theorems.

## The system

An HTTP server (`cmd/api`, `internal/adapters/httpapi`) serves every request in a
goroutine of its own. The layers below it are:

| Component | State | Operations |
|---|---|---|
| Trips service (`internal/app/trips`) | none, no lock | create, update, visibility, add and remove organizer, cancel, publish, set RSVP; reads |
| Trip and RSVP repositories (`adapters/memory`, `adapters/postgres`, `migrations`) | trips, organizers, artifacts, RSVPs | GetByID, Create, Save (whole record), lists; Get, Upsert, CountYesByTrip |
| Members service and repositories | members, subject bindings | create mine, update mine; list, search |
| HTTP handlers (`httpapi/server.go`, `router.go`, `auth_middleware.go`, generated `oas`) | none | 18 routes: let in, decode, call a service, answer |
| Idempotency (`httpapi/server.go`, idempotency stores) | fingerprint to record | Get and Put around eight mutating handlers |
| JWT verifier (`platform/auth/jwtverifier`) | key cache, time of last refresh, refresh flag and channel | Verify, maybeRefresh, refresh |
| Configuration, wiring, `devjwt`, clocks, logging | none that lasts | not modelled |

They interact by plain calls. A request is authenticated by the verifier, its
handler consults the idempotency store, calls one service operation, and stores
the response. A service operation loads a record, decides on its own copy, and
saves the copy back. Nothing spans two of these calls: neither a lock nor a
transaction. Each repository call is atomic (a mutex in memory, one transaction in
Postgres), except Postgres's `GetByID`, which runs several queries.

The hard behaviours all come from that shape: handlers that decide on stale copies
and write whole records back; checks and writes that are separate calls; requests
that end halfway because a call fails or the client goes away; repeats that
overlap the request they repeat; and, in the verifier, waiting for a fetch that
another request leads and that may fail.

What makes each component correct:

- trips: a trip always has an organizer; cancelling is final; a published trip is
  not a draft again; no more members go than there is capacity; answers belong to
  published trips; the stored attendance is the number of YES answers; columns
  that depend on each other agree.
- members: an email belongs to one member, a subject to one member; a patch leaves
  alone what it does not name; what the service has checked the database accepts.
- idempotency: a repeat gets the first answer and does not run again; a key serves
  one payload; no request gets the answer of another.
- handlers: an answer is to the question that was asked; a caller without a profile
  is turned away before anything is done; every refusal of a service has a response.
- content of a trip: a PATCH changes what it names, in the three ways JSON can name
  it, and what is answered is what is stored, whichever backend keeps it.
- verifier: one fetch at a time; every request is answered; a withdrawn key is
  forgotten in time; a provider in trouble is not flooded.

## The modules

| Module | Models |
|---|---|
| `TripDomain` | the trip record; who sees it, who may change it; what patch and publish make of it (pure operators) |
| `TripStore` | what one Save or Upsert is allowed to do on each backend and what is stored then: the triggers `trips_enforce_transitions`, `prevent_removing_last_organizer`, `enforce_rsvp_rules`, the diff of `syncOrganizers`, `draftVisibilityForDB` and the CHECK on what it writes |
| `TripService` | the handlers of the trips service as concurrent jobs over the two repositories |
| `TripReads` | what lists, details and RSVP summary answer, as functions of the two repositories |
| `TripLedger` | abstract: what the service promises of status, capacity and the members going; with the extra steps a stale copy can make on Postgres |
| `Idempotency` | the protocol of a handler with an Idempotency-Key over a store whose Puts may fail unnoticed |
| `ExactlyOnce` | abstract: what such a key promises a client |
| `HttpApi` | the 18 handlers in front of the services, composed with `Idempotency`: who is let in, what fingerprint and hash say of a call, which status answers what |
| `TripContent` | texts, dates, location and artifacts of a trip from JSON body to record, columns and rows, and back |
| `TripDocument` | abstract: what a PATCH promises of that content |
| `JwksCache` | the verifier's cache, its refresh flag, leader and waiters, the provider's rotations and the clock |
| `MemberRegistry` | create and update of a member's profile over both repositories |
| `MC...` | instances for TLC: symmetry sets, the patches of the runs |
| `...Proofs` | theorems and their proofs |

### Trips

`trips` and `rsvps` are the two repositories; `job[w]` is what a request in flight
has in its local variables: the next call, the trip's identifier, its copy of the
trip, and for `SetMyRSVP` the caller, the RSVP found and the response asked for.
`LoadTrip` is memory's `GetByID`; `LoadRow`, `LoadOrganizers` and `LoadAttendance`
are the queries of Postgres's. From the loaded copy on, a handler with a single
write is one step, because its decision is local and its Save atomic; its guards
are the conditions under which the Go code reaches that Save, and every other path
is `Answer`. `SetMyRSVP` keeps each call as a step of its own: `SetMyRSVP` (the Get),
`CountYesByTrip`, `SaveAttendance`, `UpsertRSVP`. Nothing that a handler does before
its first check depends on the caller or the arguments, so a job picks them at that
check, which saves states and loses no behaviour. `Abandon` ends a Postgres request
between two calls; the memory repositories never fail and ignore the context.

A read is its load followed by `Answer`. What it answers is in `TripReads`: the two
lists (memory's `isDraftVisibleTo` and the WHERE clause of Postgres), the details and
the RSVP summary, each evaluated on one state of the repositories. Two properties
relate them: `ListsMatchAccess`, that a member finds a trip in a list exactly when
its details are not a 404, and `ReadsAgree`, that list, details and summary tell the
same attendance and capacity when no answer is half written.

Nullable text and date columns that publishing requires are the set `missing`; a
patch fills some and clears some. Capacity 0 stands for NULL. Time stamps are left
out; what the texts, dates, location and artifacts hold is `TripContent`.

### The content of a trip

`TripContent` follows one trip's content through `PATCH /trips/{tripId}` on either
backend, one request at a time: `updateTripInputFromOAS` makes the input of the body,
`Edited` the record, `Stored` and `Loaded` are Postgres's columns and artifact rows (in
memory the record itself), and `tripDetailsFromDomain` is the response. `Absent` is a
field that is not there, `Null` is JSON null, a nil pointer and SQL NULL.
`ImplementsDocument` says that all of it together does
to a flat document (`TripDocument`) what the body says. A draft starts with artifacts
because no operation of the API adds one. A text is a member of `Texts`, one of which is
`Blank`; days and coordinates are numbers.

### The handlers

`HttpApi` extends `Idempotency`. Each handler is a row: method and route of its
fingerprint, whether it needs a member's profile, what it makes of the
Idempotency-Key header, its success status and the refusals it has a response for.
A call with a key runs through the actions of `Idempotency` (`Admit` and `KeyReused` are
`GetMeta` and `Refuse`, `CarryOut` is `Run`, ...), with its fingerprint for the key and
its hash for the body; a call without one is the single step `ServeUnkeyed`. Texts of
a payload may be padded with blanks, which is all that normalisation removes;
hashing is taken to be injective. What the services can refuse is a table read off
their code (`TripRefusals`, `MemberRefusals`), and the caller's profile decides
where it has to. `executed`, `binder` and `answer` are history: who is behind an entry of
the log, who bound a key, what was answered last.

### Idempotency

A key stands for the header with the subject, method and route of the fingerprint,
a body for its hash. `log` holds the operations carried out, so an answer is an
index of it; `replies` is what clients have been told. `settled` is a history
variable. The operation behind the handler is any that has an effect or refuses.

### JWKS cache

`maybeRefresh` is `Pass`, `Wait` or `Lead`, each one critical section; the fetch is
`Fetch` (the provider answers) then `Install` or `FetchFails`; `Release` clears the
flag and wakes the waiters. Each job remembers the clock when it came in, as the
code reads it before it takes the mutex; `validateClaims` reads the clock again, after
the wait. `stale` marks a request that waited for a fetch that failed. `withdrawn` and `lastFetch` are history
variables. `Tick` cannot pass the end of the HTTP timeout while a fetch is under
way, which makes the timeout a bound instead of an event.

### Members

Emails stand for addresses up to letter case. A create or an update is the load,
then `ensureEmailUnique` if an email is given, then the write; on Postgres the write
is refused by `members_email_unique`.

## The runs

`pg` is Postgres, `mem` the memory backend; `overlap` has requests in flight at the
same time, `serial` one at a time. A serial run is not a simplification: it asks
whether the service's own checks are right with no help from a trigger, and the
overlap runs ask what is left of that when copies go stale.

| Run | Instance | Shows |
|---|---|---|
| `trips_pg_overlap` | 1 trip, 2 members, capacity up to 2, 2 requests (1.3 million states) | `CancelIsFinal`, and `ImplementsStaleLedger`: whatever copies go stale, a seat is taken only on a published trip with a free place, and a published capacity is only replaced by one with room; organizers that remove each other at the same time leave one (`OrganizersNeverEmpty`), and no old copy's list replaces all of them (`SomeOrganizerStays`); whatever the copies leave behind, lists and details grant the same access (`ListsMatchAccess`) and some member can move the trip on (`NobodyLockedOut`) |
| `trips_mem_serial` | 1 trip, 3 members, capacity up to 2, 1 request | the ledger's full promise, that RSVPs belong to published trips, and that all reads agree (`ReadsAgree`, `ListsMatchAccess`) |
| `http_pg_overlap` | 18 handlers, 2 requests of a campaign of calls, 2 effects (580,000 states) | an answer is an execution of what was asked (`RepliesAreOwn`, `ReplyIsOwnOperation`), a key is refused only where it was used for something else, every refusal has a response, and strangers leave nothing behind |
| `http_mem_serial` | the same, 1 request at a time, two campaigns together, 4 effects | by fingerprint and hash the handlers implement `ExactlyOnce` |
| `trip_content` | 2 artifacts and an unknown one, 2 days, every combination of absent, null and a value for dates and coordinates, both backends | `ImplementsDocument`; the stored dates are in order, the answer is what is stored, an echo changes nothing, and only a lone coordinate is refused by the database |
| `jwks_refresh` | 2 kids, 2 requests, 2 tokens, 3 ticks, interval 2, timeout 1, fetches may fail (500,000 states) | single flight, no stale key or cache, no token outside its times, liveness |
| `members_pg_overlap` | 2 subjects, 3 identifiers, 3 emails, 3 requests | unique emails and subjects |
| `members_pg_serial` | 3 subjects, 3 emails, 2 vehicle fields | checks suffice; patches change what they name |

Why the bounds are enough: trips never refer to each other, so one is the general
case; a stale copy needs two requests, a third only repeats what the second did; a
capacity of 2 has both its boundary and room below it, and three members can
overfill it; one field stands for each required column because all are treated
alike. For the key cache two requests give a leader and a waiter, two keys give a
known and an unknown one, and three ticks are an interval of two and a fetch of one:
the moment a withdrawn key has to be dead. In `http_pg_overlap` the clients of one
behaviour draw from a campaign: either all calls without a key, or one call with a key
and a variant of it that differs in one respect (the spelling, the payload, the trip,
the operation, the subject), because only calls that share a key can meet in the
store; `http_mem_serial` joins two such campaigns, without the empty key of `CancelTrip`,
which keeps no answer. In `trip_content` a campaign has the bodies of two parts of the content, or
bodies of all of them; the parts only meet in the request they share.
Symmetry is used for members, workers, keys and the identifiers only where no
liveness is checked.

Bounds in the guards are `MaxEffects` (`Run`) and `MaxTime` (`Tick`). The
`Idempotency` and `HttpApi` runs leave deadlock checking on because `Fail` and
`ServiceRefuses` remain possible at the bound; the JWKS runs, because requests keep coming when the clock has stopped.

### Fairness

Only `EveryRequestAnswered` needs it: `FairSpec` has weak fairness of each request's
own steps, but none of `GiveUp`: no client has to go away, so a waiter must be woken.
Goroutines are scheduled, the mutex is held only for a few assignments, and a fetch
ends because the HTTP client has a timeout (`config/jwt.go`). Nothing is
assumed of new requests, of the clock, of rotations or that fetches succeed.

### Deviations the runs show

- `bug_pg_unpublish`: a save of a draft's old copy takes a published trip back to
  DRAFT; no trigger guards that direction.
- `bug_pg_no_capacity`: one PATCH with a null capacity leaves a published trip
  without capacity, and RSVPs are then refused.
- `bug_idem_twice`: a repeat that overlaps the first request runs a second time.
- `bug_jwks_herd`: the minimum interval for unknown kids does not bound fetches that
  fail.

Others seen while modelling, each reachable in these models with other constants
or properties:

- memory backend with overlap: a stale save un-cancels a trip or puts one organizer in
  place of another, the last place is
  given twice, the stored attendance drifts, an email is used twice;
- Postgres: after the unpublish above, a draft has RSVPs, its capacity may be set
  below them, and republishing overbooks it (which is why `Publish` of the ledger
  promises nothing of the members going); two overlapping profile patches lose
  one; an email conflict that slips past the check is a 500;
- reads: Postgres's list of drafts leaves the capacity out, which the details and the
  memory backend's list have; a details read that overlaps an answer may show a
  count and a list of names from different moments;
- idempotency: two payloads that race for one key both run; a response whose Put is
  lost makes the client's retry run again;
- handlers: a missing, repeated or empty Idempotency-Key is a 400 in plain text from the
  generated code, not the API's error object; `CancelTrip` takes an empty key, binds it
  and stores no response: a repeat runs again, and the next empty key, for another trip,
  is answered 409;
- content: one coordinate without the other passes the service and is a 500 from a
  CHECK (`OnlyLoneCoordinatesFail` says it is the only such case); `"name": null` and
  `"meetingLocation": null` cannot be told from a field that is absent, so over HTTP
  the location is never cleared although the service can (`trips/types.go:56`); an
  artifact named twice is kept twice in memory and once, at its last place, in
  Postgres, while the response repeats it;
- the trigger that keeps the last organizer says its error maps to 409
  (`000001_init.up.sql:304`); no code maps it, it is a 500;
- member search: Postgres matches with LIKE and does not escape, so `%` and `_` in a
  query are wildcards there and themselves in memory;
- verifier: a request that waits on a refresh that fails goes on with an expired
  cache, while the leader of that refresh is answered 401 (`stale` in the model); with
  a refresh interval no longer than the HTTP timeout a request can share a fetch that
  is too old when it ends, which is why `AcceptedFromFreshCache` asks for a longer one
  (the defaults are five minutes and five seconds).

## The proofs

TLAPS checks these for any members, trips, workers, keys and bounds. The
assumptions are those named in the modules: finitely many members, the backend is
one of two, model values such as `Idle` and `NoTrip` are distinct from data.

- `TripServiceProofs!TypeCorrect`. `TypeInv`, the type invariant, is inductive: each
  handler changes at most a job and one trip, through `Save`.
- `TripSafetyProofs!OrganizersSafe`. The stored trips are safe only if
  the copies in flight are: `RecordInv` says that of every trip and of every loaded
  copy, as far as each backend lets a copy be trusted. On Postgres, where a copy is
  put together from several queries, its organizers count only after
  `LoadOrganizers`; in memory a copy's columns agree as the stored record's do, its
  attendance with its status (`Whole`).
- `TripSafetyProofs!PostgresSomeOrganizerStays`, from that invariant and `StepWrites`, that
  whoever writes saves some trip or upserts an RSVP: an accepted list holds the stored
  one or shares a member with it, and the stored one is not empty. In memory it
  fails: two organizers who remove each other exchange the trip between them.
- `TripSafetyProofs!NobodyIsLockedOut`: from the same invariant, by the trip's status and
  visibility: its organizers see it, or it is a private draft whose creator may show
  it.
- `TripSafetyProofs!PostgresImplementsStaleLedger`. Step simulation with the refinement
  mapping of `TripService` (status, capacity, members with YES): a successful Save is
  a capacity change, a transition or a stale step, whatever the copy, by the
  transition trigger; an Upsert is a join or a leave by the RSVP trigger.
- `TripSafetyProofs!PostgresCancelIsFinal`, from the same facts about Save.
- `IdempotencyProofs!RepliesStayOwn`: every stored response, every answer in a job and
  every reply is an index of the log that holds its own key and payload; the log
  only grows, so this is stable.
- `IdempotencyProofs!MemorySettledNeverRerun`: in memory a reply implies a stored
  response, so a settled request finds one when it looks.
- `HttpApiProofs!AnswersAreOwn`. `HashIsMeaning` shows for each operation with a key that
  two calls have equal hashes exactly if they mean the same, and `FingerprintNames` that
  a fingerprint names subject and operation. With the invariant that a job carries the
  fingerprint and hash of the call it serves, and each log entry those of the call that
  was executed, the answer to a call is to a call that means the same. The store's own
  invariant is taken over from `IdempotencyProofs` (`StoreStep`).
- `HttpApiProofs!RefusalsAreDeserved`: `BinderInv`, a bound key holds the hash of the call
  that bound it. `NothingForStrangers`: a request past its entry check has a profile or
  is a profile's update, which the service then refuses.
- `TripContentProofs`, from `TripInv`: what is stored is what the backend makes of some
  trip that it accepts. `TripComesBack` says that columns and rows give that trip back,
  with each artifact once: the positions that `syncArtifacts` writes are distinct, a
  finite set has exactly one order by distinct keys (`SomeOrder`, by counting the
  elements up to each; `OneOrder`, by the least place where two orders differ), so
  ORDER BY gives back a sequence that repeats nothing. `EditedIsTrip` says that an edit
  that is not refused makes a trip of a trip. From these:
  - `TypeCorrect`, `StoredDatesOrdered`; `FailuresAreLone`, because an input that treats
    both coordinates alike leaves a pair a pair; `AnswersAreStored`;
  - `EchoesChangeNothing`: the response, taken as a body, becomes the input that the
    edit ignores field by field, with the location rebuilt by the patch;
  - `ContentImplementsDocument`, step simulation with the mapping `Flat`: a request that
    is saved overrides, one that is refused would leave a document that is not sound,
    and one that the database refuses would leave a lone coordinate.
- `JwksCacheProofs!OneFetchAtATime`: the flag is up exactly while some request leads.
- `JwksCacheProofs!TypeCorrect`, `CacheIsFresh`, `WithdrawnKeysDie`. The properties speak of
  accepted tokens; the invariants (`ClockInv`, `AgeInv`, `KeyInv`) say for every place of a
  request how old the cache is against its arrival, and for every key in the cache or
  in a fetch under way when it can have been withdrawn: not before that fetch began,
  and a fetch takes at most the timeout.
- `JwksCacheProofs!NoStaleAcceptance`: `OnlyClaimsAccept`, the only step that accepts a
  token is the one that reads the clock for its times.
- `MemberRegistryProofs!TypeCorrect`, `SubjectsStayBound`, `PostgresEmailsUnique`: an
  update's copy has the subject of the record it replaces; the constraint decides the
  rest.

### One request at a time

The service's own checks promise more than any trigger does, but only of copies that
are not stale. Most theorems of this section assume `OneAtATime`, that there is one
worker; the number of requests, members, trips, keys and places is still any. The
assumption is needed: each deviation above that has requests overlap breaks one of
them, except for what the first list proves of Postgres with any overlap.

- `TripSerialProofs!SerialImplementsLedger`, `SerialNeverOverbooked`,
  `SerialDraftsHaveNoRSVP`. `SerialInv` says that the copy in flight is the stored record
  as far as the ledger sees it (`CopyFresh`); that after the count the request still
  has the caller's RSVP right, and that the capacity it has checked has room for the
  answer; and that in memory the stored attendance is the number of members going,
  except while an answer is half written. A request that is abandoned on Postgres may
  leave an answer half written for good, which costs nothing there because attendance
  is counted.
- `TripSerialProofs!ReadsAlwaysAgree`: in memory from `SerialInv`, on Postgres with any
  overlap. `ListsAlwaysMatchAccess` needs no hypothesis and no invariant but the types:
  the three places that decide on access decide alike.
- `MemberRegistryProofs!SerialEmailsUnique`, `SerialChecksSuffice`, `SerialUpdatesKeep`. Its
  `SerialInv`: the copy is the stored member, and from the email check on the email is
  nobody else's; `Patched` says that the copy differs from the record in the named
  fields alone.
- `IdempotencyProofs!SerialExactlyOnce`: on the memory store, where no Put is lost.
  `OnceInv` says that whatever was carried out is bound to its key and has its response
  stored, unless the request that ran it is about to store it, and that a request runs
  only with its own body bound and no response there. Each step is then one of
  `ExactlyOnce` or a stutter.
- `HttpApiProofs!HttpSerialExactlyOnce`, `HttpSettledNeverRerun` carry this over to the
  handlers: `HttpIsIdempotent` shows that every behaviour of `HttpApi` is one of
  `Idempotency` if no client sends an empty key (`NoEmptyKeys`; `CancelTrip`, which
  lets one through, does not keep the answer).
- `HttpApiProofs!HttpTypeCorrect`, `NoRefusalIsInternal` hold with any overlap:
  `RowsAnswer`, every refusal in the tables of the services is one that the handler's
  row maps.

Only model-checked: `EveryRequestAnswered`, as liveness under fairness is out of the
prover's reach. Every other property of a passing run is a theorem, some under the
hypothesis that the run's own instance satisfies. What the proofs rest on is left to
the reader, as always: the tables of refusals and the abstractions of the data. No
recursive operator is used; an order of artifacts is a bijection chosen by its keys,
because what a recursive definition computes could not be proved.

## Not modelled

- Member list and search, and `tokenize`: reads without state whose content is text
  matching; their HTTP handlers are in `HttpApi`.
- The order of a list (`sortTrips`) and the queries of a read that writes overlap: a
  details read on Postgres combines several moments, but nothing is written from what
  it shows; the reads that handlers do write from are torn in `TripService`.
- Decoding and encoding of JSON, formats of dates, emails and identifiers, and
  `announcementCopyFromTrip`: conversions and formatting that no property is about. A
  body that does not decode is a 422 before the handler runs.
- Parsing of tokens and key sets and the RSA check: a choice to reject.
- Configuration, wiring, logging, clocks and `devjwt` keep no state. The local-only
  `NewDevAuthMiddleware` lets any named subject in, which is a call with that subject.
- Persisting is external: a restart with the memory backend starts from `Init`, and
  with Postgres it is `Abandon` of every request.

## Plan

Done, in the order of importance: trips with their stores and reads, idempotency, the key
cache, members, the handlers in front of the services, the content of a trip. What is
left to add:

1. `HttpApi` composed with `TripService` instead of a table of outcomes, to follow one
   key through to the seat it took.
2. Proofs: what overlap leaves of the one-worker theorems, stated as properties of the
   copies in flight (for instance that in memory a published trip is overbooked by no
   more than the answers that were counted together), and `HttpApi` over `TripService`
   once it is composed.
