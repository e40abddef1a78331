------------------------------ MODULE JwksCache ------------------------------
(***************************************************************************)
(* The verifier's cache of the identity provider's signing keys.  Every    *)
(* request verifies its token in a goroutine of its own; a mutex guards    *)
(* each access to the cache, but not the fetch of the key set, which one   *)
(* request leads while the others that also want it wait for a channel to  *)
(* be closed.                                                              *)
(*                                                                         *)
(* A key is known by its kid.  A token is a kid and the times between      *)
(* which it is valid; a signature, issuer, audience or subject that fails  *)
(* its check is a choice to reject.                                        *)
(***************************************************************************)
EXTENDS Integers, FiniteSets

CONSTANTS
  Kids,         \* key identifiers, of tokens and of the provider's keys
  Tokens,       \* the tokens that clients present
  Workers,      \* requests in flight at one time
  Interval,     \* JWKSRefreshInterval
  MinInterval,  \* JWKSMinRefreshInterval
  Timeout,      \* HTTPTimeout of the fetch
  Skew,         \* ClockSkew
  MaxTime,      \* the clock stops here: bounds the model
  Idle          \* a worker that verifies no token

ASSUME TimesAssumption ==
  /\ Interval \in Nat /\ MinInterval \in Nat /\ Timeout \in Nat /\ MaxTime \in Nat
  /\ Skew \in Nat
  /\ Tokens \subseteq [kid : Kids, nbf : Int, exp : Int]

VARIABLES
  now,
  published,    \* the provider's key set
  withdrawn,    \* history: when the provider withdrew a key it does not publish
  keys,         \* keysByKID
  lastRefresh,
  refreshing,
  lastFetch,    \* history: when the last fetch began
  job

vars == <<now, published, withdrawn, keys, lastRefresh, refreshing, lastFetch, job>>

Never == -1

\* "enter" is before maybeRefresh takes the mutex; a leader goes through
\* "fetch" and "install" to "done" or "failed".  "stale" is a history variable:
\* the request waited for a fetch that failed.
Job == [pc      : {"enter", "fetch", "install", "done", "failed", "wait",
                   "lookup", "claims", "accepted"},
        token   : Tokens,
        now     : 0..MaxTime,   \* the clock when the request came in
        fetched : SUBSET Kids,
        stale   : BOOLEAN]

ASSUME IdleAssumption == Idle \notin Job

Leading == {"fetch", "install", "done", "failed"}

TypeOK ==
  /\ now \in 0..MaxTime
  /\ published \subseteq Kids
  /\ withdrawn \in [Kids -> Never..MaxTime]
  /\ keys \subseteq Kids
  /\ lastRefresh \in Never..MaxTime
  /\ refreshing \in BOOLEAN
  /\ lastFetch \in Never..MaxTime
  /\ job \in [Workers -> Job \cup {Idle}]

At(w, pc) == job[w] # Idle /\ job[w].pc = pc

Leads(w) == job[w] # Idle /\ job[w].pc \in Leading

Goto(w, pc) == job' = [job EXCEPT ![w].pc = pc]

Reject(w) == job' = [job EXCEPT ![w] = Idle]

cache == <<keys, lastRefresh>>
provider == <<published, withdrawn>>

-----------------------------------------------------------------------------
Init ==
  /\ now = 0
  /\ published \in (SUBSET Kids) \ {{}}
  /\ withdrawn = [k \in Kids |-> Never]
  /\ keys = {}
  /\ lastRefresh = Never
  /\ refreshing = FALSE
  /\ lastFetch = Never
  /\ job = [w \in Workers |-> Idle]

\* A fetch under way ends before the HTTP client's timeout has passed.
Tick ==
  /\ now < MaxTime
  /\ refreshing => now < lastFetch + Timeout
  /\ now' = now + 1
  /\ UNCHANGED <<provider, cache, refreshing, lastFetch, job>>

\* The provider rotates its keys.
Rotate ==
  /\ \E ks \in (SUBSET Kids) \ {{}, published} :
       /\ published' = ks
       /\ withdrawn' = [k \in Kids |-> IF k \in ks THEN Never
                                       ELSE IF k \in published THEN now ELSE withdrawn[k]]
  /\ UNCHANGED <<now, cache, refreshing, lastFetch, job>>

\* A request with a well-formed RS256 token comes in.
Verify(w, token) ==
  /\ job[w] = Idle \/ At(w, "accepted")
  /\ job' = [job EXCEPT ![w] = [pc |-> "enter", token |-> token, now |-> now,
                               fetched |-> {}, stale |-> FALSE]]
  /\ UNCHANGED <<now, provider, cache, refreshing, lastFetch>>

-----------------------------------------------------------------------------
(* maybeRefresh *)

\* Mutant: a cache that is exactly as old as the interval is still good.
needsIntervalRefreshLate(w) ==
  lastRefresh # Never /\ Interval > 0 /\ job[w].now - lastRefresh > Interval

needsIntervalRefresh(w) ==
  lastRefresh # Never /\ Interval > 0 /\ job[w].now - lastRefresh >= Interval

unknownKid(w) == job[w].token.kid \notin keys

allowedUnknownKidRefresh(w) ==
  lastRefresh = Never \/ MinInterval <= 0 \/ job[w].now - lastRefresh >= MinInterval

\* Mutant: only an unknown kid refreshes the cache.
shouldRefreshUnknownOnly(w) == unknownKid(w) /\ allowedUnknownKidRefresh(w)

shouldRefresh(w) ==
  needsIntervalRefresh(w) \/ (unknownKid(w) /\ allowedUnknownKidRefresh(w))

Pass(w) ==
  /\ At(w, "enter")
  /\ ~shouldRefresh(w)
  /\ Goto(w, "lookup")
  /\ UNCHANGED <<now, provider, cache, refreshing, lastFetch>>

Wait(w) ==
  /\ At(w, "enter")
  /\ shouldRefresh(w)
  /\ refreshing
  /\ Goto(w, "wait")
  /\ UNCHANGED <<now, provider, cache, refreshing, lastFetch>>

Lead(w) ==
  /\ At(w, "enter")
  /\ shouldRefresh(w)
  /\ ~refreshing
  /\ refreshing' = TRUE
  /\ lastFetch' = now
  /\ Goto(w, "fetch")
  /\ UNCHANGED <<now, provider, cache>>

\* The provider answers with the keys it has at that time.
Fetch(w) ==
  /\ At(w, "fetch")
  /\ job' = [job EXCEPT ![w].pc = "install", ![w].fetched = published]
  /\ UNCHANGED <<now, provider, cache, refreshing, lastFetch>>

\* Mutant: a leader whose fetch fails returns at once and leaves the flag up.
FetchFailsUnreleased(w) ==
  /\ At(w, "fetch") \/ At(w, "install")
  /\ Reject(w)
  /\ UNCHANGED <<now, provider, cache, refreshing, lastFetch>>

\* The fetch fails, times out, or is cancelled with the leader's own request.
FetchFails(w) ==
  /\ At(w, "fetch") \/ At(w, "install")
  /\ job' = [job EXCEPT ![w].pc = "failed", ![w].fetched = {}]
  /\ UNCHANGED <<now, provider, cache, refreshing, lastFetch>>

\* Mutant: the time when the cache expires is stored, not the time of the refresh.
InstallExpiry(w) ==
  /\ At(w, "install")
  /\ keys' = job[w].fetched
  /\ lastRefresh' = now + Interval
  /\ job' = [job EXCEPT ![w].pc = "done", ![w].fetched = {}]
  /\ UNCHANGED <<now, provider, refreshing, lastFetch>>

Install(w) ==
  /\ At(w, "install")
  /\ keys' = job[w].fetched
  /\ lastRefresh' = now
  /\ job' = [job EXCEPT ![w].pc = "done", ![w].fetched = {}]
  /\ UNCHANGED <<now, provider, refreshing, lastFetch>>

\* Mutant: the channel is closed only after a refresh that succeeded.
ReleaseOnSuccess(w) ==
  /\ At(w, "done") \/ At(w, "failed")
  /\ refreshing' = FALSE
  /\ job' = [v \in Workers |->
               IF v = w /\ At(w, "failed") THEN Idle
               ELSE IF v = w \/ (At(v, "wait") /\ At(w, "done"))
                    THEN [job[v] EXCEPT !.pc = "lookup"]
               ELSE job[v]]
  /\ UNCHANGED <<now, provider, cache, lastFetch>>

\* close(ch) wakes the requests that wait on it, whatever the refresh came to;
\* only the leader returns its error.
Release(w) ==
  /\ At(w, "done") \/ At(w, "failed")
  /\ refreshing' = FALSE
  /\ job' = [v \in Workers |->
               IF v = w /\ At(w, "failed") THEN Idle
               ELSE IF v = w \/ At(v, "wait")
                    THEN [job[v] EXCEPT !.pc = "lookup", !.stale = At(w, "failed")]
               ELSE job[v]]
  /\ UNCHANGED <<now, provider, cache, lastFetch>>

\* The client of a waiting request goes away.
GiveUp(w) ==
  /\ At(w, "wait")
  /\ Reject(w)
  /\ UNCHANGED <<now, provider, cache, refreshing, lastFetch>>

\* getKey, then the check of the signature.
Lookup(w) ==
  /\ At(w, "lookup")
  /\ \/ ~unknownKid(w) /\ Goto(w, "claims")
     \/ Reject(w)
  /\ UNCHANGED <<now, provider, cache, refreshing, lastFetch>>

\* Mutant: the claims are compared with the time the request came in.
validateClaimsOnArrival(w) ==
  /\ At(w, "claims")
  /\ \/ /\ job[w].now <= job[w].token.exp + Skew
        /\ job[w].now >= job[w].token.nbf - Skew
        /\ Goto(w, "accepted")
     \/ Reject(w)
  /\ UNCHANGED <<now, provider, cache, refreshing, lastFetch>>

\* The clock is read again, after the wait and the fetch.
validateClaims(w) ==
  /\ At(w, "claims")
  /\ \/ /\ now <= job[w].token.exp + Skew
        /\ now >= job[w].token.nbf - Skew
        /\ Goto(w, "accepted")
     \/ Reject(w)
  /\ UNCHANGED <<now, provider, cache, refreshing, lastFetch>>

Step(w) ==
  \/ Pass(w) \/ Wait(w) \/ Lead(w)
  \/ Fetch(w) \/ FetchFails(w) \/ Install(w) \/ Release(w)
  \/ Lookup(w) \/ validateClaims(w)

Next ==
  \/ Tick
  \/ Rotate
  \/ \E w \in Workers : Step(w) \/ GiveUp(w) \/ \E token \in Tokens : Verify(w, token)

Spec == Init /\ [][Next]_vars

\* Goroutines run, and a fetch ends: the HTTP client has a timeout.  No client
\* has to go away.
FairSpec == Spec /\ \A w \in Workers : WF_vars(Step(w))

-----------------------------------------------------------------------------
(* Properties *)

\* At most one request fetches the key set at a time, and the flag that makes
\* the others wait is up exactly then.
SingleFlight ==
  /\ \A v, w \in Workers : Leads(v) /\ Leads(w) => v = w
  /\ refreshing <=> \E w \in Workers : Leads(w)

\* A token is never accepted under a key that the provider withdrew longer
\* than the refresh interval, and the time of a fetch, before the request came
\* in; only a request that waited for a fetch that failed may be.
NoKeyOutlivesInterval ==
  \A w \in Workers :
    At(w, "accepted") /\ Interval > 0 /\ ~job[w].stale /\ job[w].token.kid \notin published
      => job[w].now < withdrawn[job[w].token.kid] + Interval + Timeout

\* The cache is refreshed periodically even if it holds the kid: a request that
\* is accepted used a cache younger than the refresh interval, unless it waited
\* for a fetch that failed.  The interval has to be longer than the timeout, or
\* a request could still wait for a fetch that is too old when it ends.
AcceptedFromFreshCache ==
  \A w \in Workers :
    At(w, "accepted") /\ Interval > Timeout /\ ~job[w].stale
      => job[w].now - lastRefresh < Interval

\* However long a request waited for keys, its token is valid, up to the skew,
\* when it is accepted.
AcceptedWhileValid ==
  [][\A w \in Workers :
       ~At(w, "accepted") /\ At(w, "accepted")' =>
         now \in (job[w].token.nbf - Skew)..(job[w].token.exp + Skew)]_vars

\* A token with an unknown kid does not start a fetch sooner than the minimum
\* interval after the one before.
UnknownKidFetchesSpaced ==
  [][\A w \in Workers :
       Lead(w) /\ unknownKid(w) /\ ~needsIntervalRefresh(w) /\ lastFetch # Never
         => now - lastFetch >= MinInterval]_vars

\* Every request is answered, whether its refresh succeeds, fails or is led by
\* a request whose client goes away.
EveryRequestAnswered ==
  \A w \in Workers : At(w, "enter") ~> (job[w] = Idle \/ At(w, "accepted"))

=============================================================================
