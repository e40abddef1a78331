--------------------------- MODULE JwksCacheProofs ---------------------------
(* Theorems about JwksCache, for every set of keys and workers, every        *)
(* interval and timeout, with and without failures.                          *)
EXTENDS JwksCache, TLAPS

-----------------------------------------------------------------------------
\* The strengthening: the jobs have their type, and nobody waits for a refresh
\* that nobody leads.
FlightInv ==
  /\ job \in [Workers -> Job \cup {Idle}]
  /\ now \in 0..MaxTime
  /\ published \subseteq Kids
  /\ refreshing \in BOOLEAN
  /\ SingleFlight
  /\ \A w \in Workers : At(w, "wait") => refreshing

LEMMA FlightInit == Init => FlightInv
<1> SUFFICES ASSUME Init
             PROVE  FlightInv
  OBVIOUS
<1>1. \A w \in Workers : job[w] = Idle
  BY DEF Init
<1>2. now \in 0..MaxTime
  BY TimesAssumption DEF Init
<1>3. published \subseteq Kids
  BY DEF Init
<1>4. job \in [Workers -> Job \cup {Idle}] /\ refreshing = FALSE
  BY DEF Init
<1> QED
  BY <1>1, <1>2, <1>3, <1>4 DEF FlightInv, SingleFlight, Leads, At

\* A step of one worker that neither takes up nor gives up the lead.
LEMMA FollowStep ==
  ASSUME FlightInv, NEW w \in Workers, NEW j \in Job \cup {Idle},
         job' = [job EXCEPT ![w] = j],
         Leads(w) <=> (j # Idle /\ j.pc \in Leading),
         j # Idle /\ j.pc = "wait" => refreshing,
         UNCHANGED <<now, published, refreshing>>
  PROVE  FlightInv'
<1>1. \A v \in Workers : job'[v] = IF v = w THEN j ELSE job[v]
  BY DEF FlightInv
<1>2. \A v \in Workers : Leads(v)' <=> Leads(v)
  BY <1>1 DEF Leads
<1> QED
  BY <1>1, <1>2 DEF FlightInv, SingleFlight, At

LEMMA FlightStep == FlightInv /\ [Next]_vars => FlightInv'
<1> SUFFICES ASSUME FlightInv, [Next]_vars
             PROVE  FlightInv'
  OBVIOUS
<1>1. CASE Tick
  BY <1>1, TimesAssumption DEF Tick, FlightInv, SingleFlight, Leads, At, provider, cache
<1>2. CASE Rotate
  BY <1>2 DEF Rotate, FlightInv, SingleFlight, Leads, At, cache
<1>3. ASSUME NEW w \in Workers, NEW t \in Tokens, Verify(w, t)
      PROVE  FlightInv'
  <2> DEFINE j == [pc |-> "enter", token |-> t, now |-> now, fetched |-> {}, stale |-> FALSE]
  <2>1. j \in Job /\ j # Idle /\ j.pc = "enter"
    <3>1. now \in 0..MaxTime
      BY DEF FlightInv
    <3>2. j \in Job
      BY <3>1 DEF Job
    <3> QED
      BY <3>2, IdleAssumption
  <2>2. job' = [job EXCEPT ![w] = j] /\ UNCHANGED <<now, published, refreshing>>
    BY <1>3 DEF Verify, provider
  <2>3. ~Leads(w)
    BY <1>3 DEF Verify, Leads, Leading, At
  <2> HIDE DEF j
  <2> QED
    BY <2>1, <2>2, <2>3, FollowStep DEF Leading
<1>4. ASSUME NEW w \in Workers, Pass(w) \/ Wait(w)
      PROVE  FlightInv'
  <2>1. PICK p \in {"lookup", "wait"} :
          /\ job' = [job EXCEPT ![w] = [job[w] EXCEPT !.pc = p]]
          /\ p = "wait" => refreshing
    BY <1>4 DEF Pass, Wait, Goto, FlightInv
  <2> DEFINE j == [job[w] EXCEPT !.pc = p]
  <2>2. job[w] \in Job /\ ~Leads(w) /\ UNCHANGED <<now, published, refreshing>>
    BY <1>4 DEF Pass, Wait, At, Leads, Leading, FlightInv, provider
  <2>3. j \in Job /\ j.pc = p
    BY <2>2 DEF Job
  <2>4. job' = [job EXCEPT ![w] = j]
    BY <2>1
  <2> HIDE DEF j
  <2> QED
    BY <2>1, <2>2, <2>3, <2>4, FollowStep DEF Leading
<1>5. ASSUME NEW w \in Workers, Lead(w)
      PROVE  FlightInv'
  <2>1. job[w] \in Job /\ ~refreshing /\ refreshing' = TRUE /\ UNCHANGED <<now, published>>
    BY <1>5 DEF Lead, At, FlightInv, provider
  <2> DEFINE j == [job[w] EXCEPT !.pc = "fetch"]
  <2>2. j \in Job /\ j # Idle /\ j.pc = "fetch"
    BY <2>1, IdleAssumption DEF Job
  <2>3. \A v \in Workers : job'[v] = IF v = w THEN j ELSE job[v]
    BY <1>5, <2>1 DEF Lead, Goto, FlightInv
  <2>4. job' \in [Workers -> Job \cup {Idle}]
    BY <1>5, <2>1, <2>2 DEF Lead, Goto, FlightInv
  <2> HIDE DEF j
  <2>5. \A v \in Workers : ~Leads(v)
    BY <2>1 DEF FlightInv, SingleFlight
  <2>6. \A v \in Workers : Leads(v)' <=> v = w
    BY <2>2, <2>3, <2>5 DEF Leads, Leading
  <2> QED
    BY <2>1, <2>4, <2>6 DEF FlightInv, SingleFlight
<1>6. ASSUME NEW w \in Workers, Fetch(w) \/ FetchFails(w) \/ Install(w)
      PROVE  FlightInv'
  <2>1. job[w] \in Job /\ Leads(w) /\ UNCHANGED <<now, published, refreshing>>
    BY <1>6 DEF Fetch, FetchFails, Install, At, Leads, Leading, FlightInv, provider
  <2>2. PICK p \in Leading, ks \in SUBSET Kids :
          job' = [job EXCEPT ![w] = [job[w] EXCEPT !.pc = p, !.fetched = ks]]
    <3>1. published \in SUBSET Kids /\ {} \in SUBSET Kids
      BY DEF FlightInv
    <3> QED
      BY <1>6, <3>1 DEF Fetch, FetchFails, Install, Leading, FlightInv
  <2> DEFINE j == [job[w] EXCEPT !.pc = p, !.fetched = ks]
  <2>3. j \in Job /\ j # Idle /\ j.pc = p
    BY <2>1, IdleAssumption DEF Job, Leading
  <2>4. job' = [job EXCEPT ![w] = j]
    BY <2>2
  <2> HIDE DEF j
  <2> QED
    BY <2>1, <2>3, <2>4, FollowStep DEF Leading
<1>7. ASSUME NEW w \in Workers, Release(w)
      PROVE  FlightInv'
  <2>1. Leads(w) /\ job[w] \in Job /\ refreshing' = FALSE /\ UNCHANGED <<now, published>>
    BY <1>7 DEF Release, At, Leads, Leading, FlightInv, provider
  <2>2. \A v \in Workers : Leads(v) => v = w
    BY <2>1 DEF FlightInv, SingleFlight
  <2>3. \A v \in Workers :
          \/ job'[v] = Idle /\ v = w
          \/ /\ v = w \/ At(v, "wait")
             /\ job'[v] = [job[v] EXCEPT !.pc = "lookup", !.stale = At(w, "failed")]
          \/ v # w /\ ~At(v, "wait") /\ job'[v] = job[v]
    BY <1>7 DEF Release
  <2>4. \A v \in Workers : job'[v] \in Job \cup {Idle} /\ ~Leads(v)' /\ ~At(v, "wait")'
    <3> SUFFICES ASSUME NEW v \in Workers
                 PROVE  job'[v] \in Job \cup {Idle} /\ ~Leads(v)' /\ ~At(v, "wait")'
      OBVIOUS
    <3>1. CASE job'[v] = Idle
      BY <3>1 DEF Leads, At
    <3>2. CASE /\ v = w \/ At(v, "wait")
               /\ job'[v] = [job[v] EXCEPT !.pc = "lookup", !.stale = At(w, "failed")]
      <4>1. job[v] \in Job /\ At(w, "failed") \in BOOLEAN
        BY <2>1, <3>2 DEF At, FlightInv
      <4>2. job'[v] \in Job /\ job'[v].pc = "lookup"
        BY <3>2, <4>1 DEF Job
      <4> QED
        BY <4>2 DEF Leads, Leading, At
    <3>3. CASE v # w /\ ~At(v, "wait") /\ job'[v] = job[v]
      BY <2>2, <3>3 DEF Leads, At, FlightInv
    <3> QED
      BY <2>3, <3>1, <3>2, <3>3
  <2>5. job' \in [Workers -> Job \cup {Idle}]
    <3>1. job' = [v \in Workers |-> job'[v]]
      BY <1>7 DEF Release
    <3> QED
      BY <2>4, <3>1
  <2> QED
    BY <2>1, <2>4, <2>5 DEF FlightInv, SingleFlight
<1>8. ASSUME NEW w \in Workers, GiveUp(w)
      PROVE  FlightInv'
  <2>1. ~Leads(w) /\ job' = [job EXCEPT ![w] = Idle] /\ UNCHANGED <<now, published, refreshing>>
    BY <1>8 DEF GiveUp, Reject, At, Leads, Leading, provider
  <2> QED
    BY <2>1, FollowStep
<1>9. ASSUME NEW w \in Workers, Lookup(w) \/ validateClaims(w)
      PROVE  FlightInv'
  <2>1. job[w] \in Job /\ ~Leads(w) /\ UNCHANGED <<now, published, refreshing>>
    BY <1>9 DEF Lookup, validateClaims, At, Leads, Leading, FlightInv, provider
  <2>2. \/ job' = [job EXCEPT ![w] = Idle]
        \/ \E p \in {"claims", "accepted"} : job' = [job EXCEPT ![w] = [job[w] EXCEPT !.pc = p]]
    BY <1>9 DEF Lookup, validateClaims, Goto, Reject, FlightInv
  <2>3. CASE job' = [job EXCEPT ![w] = Idle]
    BY <2>1, <2>3, FollowStep
  <2>4. ASSUME NEW p \in {"claims", "accepted"},
               job' = [job EXCEPT ![w] = [job[w] EXCEPT !.pc = p]]
        PROVE  FlightInv'
    <3> DEFINE j == [job[w] EXCEPT !.pc = p]
    <3>1. j \in Job /\ j.pc = p
      BY <2>1 DEF Job
    <3>2. job' = [job EXCEPT ![w] = j]
      BY <2>4
    <3> HIDE DEF j
    <3> QED
      BY <2>1, <3>1, <3>2, FollowStep DEF Leading
  <2> QED
    BY <2>2, <2>3, <2>4
<1>10. CASE UNCHANGED vars
  BY <1>10 DEF vars, FlightInv, SingleFlight, Leads, At
<1> QED
  BY <1>1, <1>2, <1>3, <1>4, <1>5, <1>6, <1>7, <1>8, <1>9, <1>10 DEF Next, Step

\* However many requests want a refresh, whatever their fetches come to: one
\* fetches at a time, and the flag is up exactly while it does.
THEOREM OneFetchAtATime == Spec => []SingleFlight
<1>1. FlightInv => SingleFlight
  BY DEF FlightInv
<1> QED
  BY <1>1, FlightInit, FlightStep, PTL DEF Spec

-----------------------------------------------------------------------------
(* How old the keys can be that a request is accepted under *)

Looks(w) == job[w] # Idle /\ job[w].pc \in {"lookup", "claims", "accepted"}

\* A key that is gone went late enough for a request that came in at time t.
Recent(k, t) ==
  k \in published \/ (Interval > 0 => t < withdrawn[k] + Interval + Timeout)

\* The types of the variables that FlightInv leaves out.
TimesTyped ==
  /\ withdrawn \in [Kids -> Never..MaxTime]
  /\ keys \subseteq Kids
  /\ lastRefresh \in Never..MaxTime
  /\ lastFetch \in Never..MaxTime

\* The clock, the cache and the requests: nothing comes from the future, and a
\* fetch under way has not lasted longer than its timeout.
CacheClock ==
  /\ lastRefresh <= now
  /\ lastRefresh = Never => keys = {}
  /\ refreshing => lastFetch # Never /\ lastFetch <= now /\ now <= lastFetch + Timeout

ClockInv ==
  /\ CacheClock
  /\ \A w \in Workers : job[w] # Idle => job[w].now <= now

\* The strengthening of AcceptedFromFreshCache: it holds from the moment a
\* request may look its key up, because what its leader installed is no older
\* than the fetch it waited for.
AgeInv ==
  /\ \A w \in Workers : At(w, "done") => lastFetch <= lastRefresh
  /\ \A w \in Workers :
       Looks(w) /\ ~job[w].stale
         => lastRefresh # Never /\ (Interval > Timeout => job[w].now - lastRefresh < Interval)

\* The strengthening of NoKeyOutlivesInterval: a fetched key set, the cache and
\* the key a request has found only hold keys that went recently, if at all.
KeyInv ==
  /\ \A w \in Workers : At(w, "install") =>
       \A k \in job[w].fetched : k \in published \/ withdrawn[k] >= lastFetch
  /\ \A k \in keys : k \in published \/ withdrawn[k] >= lastRefresh - Timeout
  /\ \A w \in Workers : At(w, "done") =>
       \A k \in keys : k \in published \/ withdrawn[k] >= lastFetch
  /\ \A w \in Workers :
       At(w, "lookup") /\ ~job[w].stale => \A k \in keys : Recent(k, job[w].now)
  /\ \A w \in Workers :
       Looks(w) /\ ~At(w, "lookup") /\ ~job[w].stale => Recent(job[w].token.kid, job[w].now)

FreshInv == FlightInv /\ TimesTyped /\ ClockInv /\ AgeInv /\ KeyInv

LEMMA FreshInit == Init => FreshInv
<1> SUFFICES ASSUME Init
             PROVE  FreshInv
  OBVIOUS
<1>1. \A w \in Workers : job[w] = Idle
  BY DEF Init
<1>2. TimesTyped /\ ClockInv
  BY <1>1, TimesAssumption DEF Init, TimesTyped, ClockInv, CacheClock, Never
<1>3. AgeInv /\ KeyInv
  BY <1>1 DEF Init, AgeInv, KeyInv, Looks, At
<1> QED
  BY <1>2, <1>3, FlightInit DEF FreshInv

LEMMA TimesStep == FlightInv /\ TimesTyped /\ [Next]_vars => TimesTyped'
<1> SUFFICES ASSUME FlightInv, TimesTyped, [Next]_vars
             PROVE  TimesTyped'
  OBVIOUS
<1>1. now \in Never..MaxTime /\ Never \in Never..MaxTime
  BY TimesAssumption DEF FlightInv, Never
<1>2. CASE Rotate
  BY <1>1, <1>2 DEF Rotate, TimesTyped, cache
<1>3. ASSUME NEW w \in Workers, Lead(w)
      PROVE  TimesTyped'
  BY <1>1, <1>3 DEF Lead, TimesTyped, provider, cache
<1>4. ASSUME NEW w \in Workers, Install(w)
      PROVE  TimesTyped'
  <2>1. job[w].fetched \subseteq Kids
    BY <1>4 DEF Install, At, FlightInv, Job
  <2> QED
    BY <1>1, <1>4, <2>1 DEF Install, TimesTyped, provider
<1>5. CASE UNCHANGED <<withdrawn, keys, lastRefresh, lastFetch>>
  BY <1>5 DEF TimesTyped
<1> QED
  BY <1>2, <1>3, <1>4, <1>5 DEF Next, Step, Tick, Verify, Pass, Wait, Fetch, FetchFails, Release,
     Lookup, validateClaims, GiveUp, vars, provider, cache

\* Every step of a worker keeps the time its request came in, and what is not a
\* step of a worker keeps the jobs.
LEMMA ArrivalsKept ==
  ASSUME FlightInv, [Next]_vars, NEW v \in Workers, job'[v] # Idle
  PROVE  \/ job'[v].now = now
         \/ job[v] # Idle /\ job'[v].now = job[v].now
<1>1. CASE UNCHANGED job
  BY <1>1
<1>2. ASSUME NEW w \in Workers, NEW t \in Tokens, Verify(w, t)
      PROVE  job'[v].now = now \/ job'[v] = job[v]
  BY <1>2 DEF Verify, FlightInv
<1>3. ASSUME NEW w \in Workers,
             Pass(w) \/ Wait(w) \/ Lead(w) \/ Fetch(w) \/ FetchFails(w) \/ Install(w)
      PROVE  job[v] # Idle /\ job'[v].now = job[v].now
  <2>1. job[w] # Idle /\ job[w] \in Job
    BY <1>3 DEF Pass, Wait, Lead, Fetch, FetchFails, Install, At, FlightInv
  <2>2. CASE Pass(w) \/ Wait(w) \/ Lead(w)
    <3>1. \E p \in {"lookup", "wait", "fetch"} :
            job' = [job EXCEPT ![w] = [job[w] EXCEPT !.pc = p]]
      BY <2>2 DEF Pass, Wait, Lead, Goto, FlightInv
    <3> QED
      BY <2>1, <3>1 DEF FlightInv, Job
  <2>3. CASE Fetch(w) \/ FetchFails(w) \/ Install(w)
    <3>1. \E p \in Leading, ks \in SUBSET Kids :
            job' = [job EXCEPT ![w] = [job[w] EXCEPT !.pc = p, !.fetched = ks]]
      BY <2>3 DEF Fetch, FetchFails, Install, Leading, FlightInv
    <3> QED
      BY <2>1, <3>1 DEF FlightInv, Job
  <2> QED
    BY <1>3, <2>2, <2>3
<1>4. ASSUME NEW w \in Workers, Release(w)
      PROVE  job[v] # Idle /\ job'[v].now = job[v].now
  <2>1. CASE job'[v] = job[v]
    BY <2>1
  <2>2. CASE job'[v] # job[v]
    <3>1. /\ job'[v] = [job[v] EXCEPT !.pc = "lookup", !.stale = At(w, "failed")]
          /\ job[v] # Idle
      BY <1>4, <2>2 DEF Release, At
    <3>2. job[v] \in Job
      BY <3>1 DEF FlightInv
    <3> QED
      BY <3>1, <3>2 DEF Job
  <2> QED
    BY <2>1, <2>2
<1>5. ASSUME NEW w \in Workers, GiveUp(w) \/ Lookup(w) \/ validateClaims(w)
      PROVE  job[v] # Idle /\ job'[v].now = job[v].now
  <2>1. job[w] # Idle /\ job[w] \in Job
    BY <1>5 DEF GiveUp, Lookup, validateClaims, At, FlightInv
  <2>2. \/ \E p \in {"claims", "accepted"} :
               job' = [job EXCEPT ![w] = [job[w] EXCEPT !.pc = p]]
        \/ job' = [job EXCEPT ![w] = Idle]
    BY <1>5 DEF GiveUp, Lookup, validateClaims, Goto, Reject, FlightInv
  <2> QED
    BY <2>1, <2>2 DEF FlightInv, Job
<1> QED
  BY <1>1, <1>2, <1>3, <1>4, <1>5 DEF Next, Step, Tick, Rotate, vars

LEMMA ClockStep == FlightInv /\ TimesTyped /\ ClockInv /\ [Next]_vars => ClockInv'
<1> SUFFICES ASSUME FlightInv, TimesTyped, ClockInv, [Next]_vars
             PROVE  ClockInv'
  OBVIOUS
<1>1. now \in Nat /\ now' \in Nat /\ now <= now' /\ lastRefresh \in Int /\ lastFetch \in Int
  <2>1. now \in Nat /\ lastRefresh \in Int /\ lastFetch \in Int
    BY DEF FlightInv, TimesTyped, Never
  <2>2. now' = now \/ now' = now + 1
    BY DEF Next, Step, Tick, Rotate, Verify, Pass, Wait, Lead, Fetch, FetchFails, Install,
       Release, Lookup, validateClaims, GiveUp, vars
  <2> QED
    BY <2>1, <2>2
<1>2. ASSUME NEW v \in Workers, job'[v] # Idle
      PROVE  job'[v].now <= now'
  <2>1. CASE job'[v].now = now
    BY <1>1, <2>1
  <2>2. CASE job[v] # Idle /\ job'[v].now = job[v].now
    <3>1. job[v].now \in Nat /\ job[v].now <= now
      BY <2>2 DEF FlightInv, ClockInv, Job
    <3> QED
      BY <1>1, <2>2, <3>1
  <2> QED
    BY <1>2, <2>1, <2>2, ArrivalsKept
<1>3. CacheClock'
  <2>1. CASE Tick
    BY <1>1, <2>1, TimesAssumption DEF Tick, ClockInv, CacheClock, cache
  <2>2. ASSUME NEW w \in Workers, Lead(w)
        PROVE  CacheClock'
    BY <1>1, <2>2, TimesAssumption DEF Lead, ClockInv, CacheClock, cache, Never
  <2>3. ASSUME NEW w \in Workers, Install(w)
        PROVE  CacheClock'
    BY <1>1, <2>3 DEF Install, ClockInv, CacheClock, Never
  <2>4. ASSUME NEW w \in Workers, Release(w)
        PROVE  CacheClock'
    BY <1>1, <2>4 DEF Release, ClockInv, CacheClock, cache
  <2>5. CASE UNCHANGED <<now, keys, lastRefresh, refreshing, lastFetch>>
    BY <2>5 DEF ClockInv, CacheClock
  <2> QED
    BY <2>1, <2>2, <2>3, <2>4, <2>5 DEF Next, Step, Rotate, Verify, Pass, Wait, Fetch, FetchFails,
       Lookup, validateClaims, GiveUp, vars, cache
<1> QED
  BY <1>2, <1>3 DEF ClockInv

\* The part of AgeInv about one request.
Young(w) ==
  /\ At(w, "done") => lastFetch <= lastRefresh
  /\ Looks(w) /\ ~job[w].stale
       => lastRefresh # Never /\ (Interval > Timeout => job[w].now - lastRefresh < Interval)

LEMMA AgeStep == FlightInv /\ TimesTyped /\ ClockInv /\ AgeInv /\ [Next]_vars => AgeInv'
<1> SUFFICES ASSUME FlightInv, TimesTyped, ClockInv, AgeInv, [Next]_vars
             PROVE  AgeInv'
  OBVIOUS
<1>1. \A w \in Workers : Young(w)
  BY DEF AgeInv, Young
<1>2. now \in Nat /\ lastRefresh \in Int /\ lastFetch \in Int
  BY DEF FlightInv, TimesTyped, Never
<1>3. SUFFICES ASSUME NEW v \in Workers
               PROVE  Young(v)'
  BY DEF AgeInv, Young
<1>4. CASE UNCHANGED <<job, lastRefresh, lastFetch>>
  BY <1>1, <1>4 DEF Young, Looks, At
<1>5. ASSUME NEW w \in Workers, NEW t \in Tokens, Verify(w, t)
      PROVE  Young(v)'
  BY <1>1, <1>5 DEF Verify, Young, Looks, At, FlightInv, cache
<1>6. ASSUME NEW w \in Workers, Pass(w)
      PROVE  Young(v)'
  <2>1. job[w] \in Job /\ job[w] # Idle
    BY <1>6 DEF Pass, At, FlightInv
  <2>2. lastRefresh # Never
    BY <1>6 DEF Pass, shouldRefresh, unknownKid, allowedUnknownKidRefresh, ClockInv, CacheClock
  <2>3. Interval > Timeout => job[w].now - lastRefresh < Interval
    <3>1. job[w].now \in Int
      BY <2>1 DEF Job
    <3> QED
      BY <1>2, <1>6, <2>2, <3>1, TimesAssumption DEF Pass, shouldRefresh, needsIntervalRefresh
  <2>4. job' = [job EXCEPT ![w] = [job[w] EXCEPT !.pc = "lookup"]] /\ UNCHANGED <<lastRefresh, lastFetch>>
    BY <1>6 DEF Pass, Goto, FlightInv, cache
  <2>5. CASE v = w
    <3>1. job'[v].pc = "lookup" /\ job'[v].now = job[w].now
      BY <2>1, <2>4, <2>5 DEF FlightInv, Job
    <3> QED
      BY <2>2, <2>3, <2>4, <3>1 DEF Young, Looks, At
  <2>6. CASE v # w
    BY <1>1, <2>4, <2>6 DEF Young, Looks, At, FlightInv
  <2> QED
    BY <2>5, <2>6
<1>7. ASSUME NEW w \in Workers, Wait(w) \/ Fetch(w) \/ FetchFails(w)
      PROVE  Young(v)'
  <2>1. \E p \in {"wait", "install", "failed"} : \E ks :
          job' = [job EXCEPT ![w] = [job[w] EXCEPT !.pc = p, !.fetched = ks]]
    <3>1. CASE Wait(w)
      <4>1. job[w] \in Job
        BY <3>1 DEF Wait, At, FlightInv
      <4>2. [job[w] EXCEPT !.pc = "wait"] = [job[w] EXCEPT !.pc = "wait", !.fetched = job[w].fetched]
        BY <4>1 DEF Job
      <4> QED
        BY <3>1, <4>2 DEF Wait, Goto, FlightInv
    <3> QED
      BY <1>7, <3>1 DEF Fetch, FetchFails
  <2>2. job[w] \in Job /\ UNCHANGED <<lastRefresh, lastFetch>>
    BY <1>7 DEF Wait, Fetch, FetchFails, At, FlightInv, cache
  <2> QED
    BY <1>1, <2>1, <2>2 DEF Young, Looks, At, FlightInv, Job
<1>8. ASSUME NEW w \in Workers, Lead(w)
      PROVE  Young(v)'
  <2>1. job[w] \in Job /\ job' = [job EXCEPT ![w] = [job[w] EXCEPT !.pc = "fetch"]] /\ UNCHANGED lastRefresh
    BY <1>8 DEF Lead, Goto, At, FlightInv, cache
  <2>2. ~At(v, "done")
    BY <1>8 DEF Lead, FlightInv, SingleFlight, Leads, Leading, At
  <2> QED
    BY <1>1, <2>1, <2>2 DEF Young, Looks, At, FlightInv, Job
<1>9. ASSUME NEW w \in Workers, Install(w)
      PROVE  Young(v)'
  <2>1. /\ job[w] \in Job /\ lastRefresh' = now /\ lastFetch' = lastFetch
        /\ job' = [job EXCEPT ![w] = [job[w] EXCEPT !.pc = "done", !.fetched = {}]]
    BY <1>9 DEF Install, At, FlightInv
  <2>2. lastFetch <= now /\ lastRefresh <= now
    BY <1>9 DEF Install, FlightInv, SingleFlight, Leads, Leading, At, ClockInv, CacheClock
  <2>3. CASE v = w
    BY <2>1, <2>2, <2>3 DEF Young, Looks, At, FlightInv, Job
  <2>4. CASE v # w
    <3>1. job'[v] = job[v]
      BY <2>1, <2>4 DEF FlightInv
    <3>2. CASE Looks(v)
      <4>1. job[v].now \in Int /\ now # Never
        BY <1>2, <3>2 DEF Looks, FlightInv, Job, Never
      <4> QED
        BY <1>1, <1>2, <2>1, <2>2, <3>1, <3>2, <4>1, TimesAssumption DEF Young, Looks, At
    <3>3. CASE ~Looks(v)
      BY <2>1, <2>2, <3>1, <3>3 DEF Young, Looks, At
    <3> QED
      BY <3>2, <3>3
  <2> QED
    BY <2>3, <2>4
<1>10. ASSUME NEW w \in Workers, Release(w)
       PROVE  Young(v)'
  <2>1. Leads(w) /\ job[w] \in Job /\ UNCHANGED <<lastRefresh, lastFetch>>
    BY <1>10 DEF Release, At, Leads, Leading, FlightInv, cache
  <2>2. /\ lastFetch # Never /\ lastFetch <= now /\ now <= lastFetch + Timeout
        /\ At(v, "done") => v = w
    BY <2>1 DEF FlightInv, SingleFlight, Leads, Leading, At, ClockInv, CacheClock
  <2>3. CASE job'[v] = Idle
    BY <2>3 DEF Young, Looks, At
  <2>4. CASE /\ v = w \/ At(v, "wait")
             /\ job'[v] = [job[v] EXCEPT !.pc = "lookup", !.stale = At(w, "failed")]
    <3>1. job[v] \in Job /\ job[v] # Idle
      BY <2>1, <2>4 DEF At, Leads, FlightInv
    <3>2. job'[v].pc = "lookup" /\ job'[v].stale = At(w, "failed") /\ job'[v].now = job[v].now
      BY <2>4, <3>1 DEF Job
    <3>3. CASE At(w, "done")
      <4>1. lastFetch <= lastRefresh
        BY <1>1, <3>3 DEF Young
      <4>2. job[v].now \in Nat /\ job[v].now <= now /\ lastFetch \in Never..MaxTime
        BY <3>1 DEF Job, ClockInv, TimesTyped
      <4>3. lastRefresh # Never
        BY <1>2, <2>2, <4>1, <4>2 DEF Never
      <4>4. Interval > Timeout => job[v].now - lastRefresh < Interval
        BY <1>2, <2>2, <4>1, <4>2, TimesAssumption
      <4> QED
        BY <2>1, <3>2, <4>3, <4>4 DEF Young, Looks, At
    <3>4. CASE At(w, "failed")
      BY <3>2, <3>4 DEF Young, Looks, At
    <3> QED
      BY <1>10, <3>3, <3>4 DEF Release
  <2>5. CASE v # w /\ job'[v] = job[v]
    BY <1>1, <2>1, <2>5 DEF Young, Looks, At
  <2> QED
    BY <1>10, <2>3, <2>4, <2>5 DEF Release
<1>11. ASSUME NEW w \in Workers, GiveUp(w) \/ Lookup(w) \/ validateClaims(w)
       PROVE  Young(v)'
  <2>1. job[w] \in Job /\ job[w] # Idle /\ UNCHANGED <<lastRefresh, lastFetch>>
    BY <1>11 DEF GiveUp, Lookup, validateClaims, At, FlightInv, cache
  <2>2. \/ job' = [job EXCEPT ![w] = Idle]
        \/ /\ Looks(w)
           /\ \E p \in {"claims", "accepted"} : job' = [job EXCEPT ![w] = [job[w] EXCEPT !.pc = p]]
    BY <1>11 DEF GiveUp, Lookup, validateClaims, Goto, Reject, FlightInv, Looks, At
  <2> QED
    BY <1>1, <2>1, <2>2 DEF Young, Looks, At, FlightInv, Job
<1> QED
  BY <1>4, <1>5, <1>6, <1>7, <1>8, <1>9, <1>10, <1>11 DEF Next, Step, Tick, Rotate, vars, cache

\* Every key of the set is published or went at the given time or later.
GoneSince(ks, time) == \A k \in ks : k \in published \/ withdrawn[k] >= time

\* The part of KeyInv about one request.
KeysOf(w) ==
  /\ At(w, "install") => GoneSince(job[w].fetched, lastFetch)
  /\ At(w, "done") => GoneSince(keys, lastFetch)
  /\ At(w, "lookup") /\ ~job[w].stale => \A k \in keys : Recent(k, job[w].now)
  /\ Looks(w) /\ ~At(w, "lookup") /\ ~job[w].stale => Recent(job[w].token.kid, job[w].now)

LEMMA KeyInvParts ==
  KeyInv <=> GoneSince(keys, lastRefresh - Timeout) /\ \A w \in Workers : KeysOf(w)
BY DEF KeyInv, GoneSince, KeysOf

\* What a fetch can have installed is recent for whoever came in by now.
LEMMA FetchedAreRecent ==
  ASSUME TimesTyped, ClockInv, now \in Nat, refreshing,
         NEW ks \in SUBSET Kids, GoneSince(ks, lastFetch), NEW t \in Nat, t <= now
  PROVE  \A k \in ks : Recent(k, t)
<1>1. lastFetch \in Int /\ now <= lastFetch + Timeout
  BY DEF TimesTyped, ClockInv, CacheClock, Never
<1>2. \A k \in Kids : withdrawn[k] \in Int
  BY DEF TimesTyped, Never
<1> QED
  BY <1>1, <1>2, TimesAssumption DEF GoneSince, Recent

\* A step that leaves the clock of the requests, the cache and the provider
\* alone, and the job of v.
LEMMA KeysOfKept ==
  ASSUME NEW v \in Workers, KeysOf(v), job'[v] = job[v],
         UNCHANGED <<published, withdrawn, keys>>,
         lastFetch' = lastFetch \/ ~Leads(v)
  PROVE  KeysOf(v)'
BY DEF KeysOf, GoneSince, Recent, Looks, At, Leads, Leading

LEMMA RotateKeeps == ASSUME FlightInv, TimesTyped, ClockInv, KeyInv, Rotate PROVE KeyInv'
<1>1. now \in Nat /\ lastRefresh \in Int /\ lastFetch \in Int
  BY DEF FlightInv, TimesTyped, Never
<1>2. UNCHANGED <<now, keys, lastRefresh, refreshing, lastFetch, job>>
  BY DEF Rotate, cache
<1>3. \A k \in Kids : \/ k \in published'
                      \/ withdrawn'[k] = now
                      \/ k \notin published /\ withdrawn'[k] = withdrawn[k]
  BY DEF Rotate
<1>4. ASSUME NEW ks \in SUBSET Kids, NEW time \in Int, time <= now, GoneSince(ks, time)
      PROVE  \A k \in ks : k \in published' \/ withdrawn'[k] >= time
  BY <1>1, <1>3, <1>4 DEF GoneSince
<1>5. ASSUME NEW k \in Kids, NEW t \in Nat, t <= now, Recent(k, t)
      PROVE  k \in published' \/ (Interval > 0 => t < withdrawn'[k] + Interval + Timeout)
  BY <1>1, <1>3, <1>5, TimesAssumption DEF Recent
<1>6. GoneSince(keys, lastRefresh - Timeout)'
  <2>1. lastRefresh - Timeout \in Int /\ lastRefresh - Timeout <= now
    BY <1>1, TimesAssumption DEF ClockInv, CacheClock
  <2> QED
    BY <1>2, <1>4, <2>1, KeyInvParts DEF GoneSince, TimesTyped
<1>7. ASSUME NEW v \in Workers
      PROVE  KeysOf(v)'
  <2>1. KeysOf(v)
    BY KeyInvParts
  <2>2. At(v, "install") \/ At(v, "done") => lastFetch <= now
    BY DEF FlightInv, SingleFlight, Leads, Leading, At, ClockInv, CacheClock
  <2>3. job[v] # Idle => /\ job[v].now \in Nat /\ job[v].now <= now
                         /\ job[v].fetched \subseteq Kids /\ job[v].token.kid \in Kids
    BY TimesAssumption DEF FlightInv, ClockInv, Job
  <2>4. At(v, "install") => \A k \in job[v].fetched : k \in published' \/ withdrawn'[k] >= lastFetch
    BY <1>1, <1>4, <2>1, <2>2, <2>3 DEF KeysOf, At
  <2>5. At(v, "done") => \A k \in keys : k \in published' \/ withdrawn'[k] >= lastFetch
    BY <1>1, <1>4, <2>1, <2>2 DEF KeysOf, TimesTyped
  <2>6. At(v, "lookup") /\ ~job[v].stale => \A k \in keys : Recent(k, job[v].now)'
    BY <1>2, <1>5, <2>1, <2>3 DEF KeysOf, TimesTyped, Recent, At
  <2>7. Looks(v) /\ ~At(v, "lookup") /\ ~job[v].stale => Recent(job[v].token.kid, job[v].now)'
    BY <1>2, <1>5, <2>1, <2>3 DEF KeysOf, Recent, Looks
  <2> QED
    BY <1>2, <2>4, <2>5, <2>6, <2>7 DEF KeysOf, GoneSince, Looks, At
<1> QED
  BY <1>6, <1>7, KeyInvParts DEF KeyInv, GoneSince, KeysOf

LEMMA KeyStep ==
  FlightInv /\ TimesTyped /\ ClockInv /\ KeyInv /\ [Next]_vars => KeyInv'
<1> SUFFICES ASSUME FlightInv, TimesTyped, ClockInv, KeyInv, [Next]_vars
             PROVE  KeyInv'
  OBVIOUS
<1>1. GoneSince(keys, lastRefresh - Timeout) /\ \A v \in Workers : KeysOf(v)
  BY KeyInvParts
<1>2. now \in Nat /\ lastRefresh \in Int /\ lastFetch \in Int /\ keys \in SUBSET Kids
  BY DEF FlightInv, TimesTyped, Never
<1>3. CASE Rotate
  BY <1>3, RotateKeeps
<1>4. SUFFICES ASSUME ~Rotate
               PROVE  /\ GoneSince(keys, lastRefresh - Timeout)'
                      /\ \A v \in Workers : KeysOf(v)'
  BY <1>3 DEF KeyInv, GoneSince, KeysOf
<1>5. UNCHANGED <<published, withdrawn>>
  BY <1>4 DEF Next, Step, Tick, Verify, Pass, Wait, Lead, Fetch, FetchFails, Install, Release,
     Lookup, validateClaims, GiveUp, vars, provider
<1>6. ASSUME NEW w \in Workers, Install(w)
      PROVE  GoneSince(keys, lastRefresh - Timeout)' /\ \A v \in Workers : KeysOf(v)'
  <2>1. /\ job[w] \in Job /\ At(w, "install") /\ refreshing
        /\ job[w].fetched \in SUBSET Kids /\ GoneSince(job[w].fetched, lastFetch)
    BY <1>1, <1>6 DEF Install, At, KeysOf, FlightInv, SingleFlight, Leads, Leading, Job
  <2>2. /\ keys' = job[w].fetched /\ lastRefresh' = now /\ lastFetch' = lastFetch
        /\ job' = [job EXCEPT ![w] = [job[w] EXCEPT !.pc = "done", !.fetched = {}]]
    BY <1>6 DEF Install, FlightInv
  <2>3. GoneSince(keys, lastRefresh - Timeout)'
    <3>1. now - Timeout <= lastFetch /\ \A k \in Kids : withdrawn[k] \in Int
      BY <1>2, <2>1, TimesAssumption DEF ClockInv, CacheClock, TimesTyped, Never
    <3> QED
      BY <1>2, <1>5, <2>1, <2>2, <3>1, TimesAssumption DEF GoneSince
  <2>4. ASSUME NEW v \in Workers
        PROVE  KeysOf(v)'
    <3>1. CASE v = w
      BY <1>5, <2>1, <2>2, <3>1 DEF KeysOf, GoneSince, Looks, At, FlightInv, Job
    <3>2. CASE v # w
      <4>1. job'[v] = job[v] /\ ~Leads(v)
        BY <2>1, <2>2, <3>2 DEF FlightInv, SingleFlight, Leads, Leading, At
      <4>2. ASSUME At(v, "lookup")
            PROVE  \A k \in job[w].fetched : Recent(k, job[v].now)
        <5>1. job[v].now \in Nat /\ job[v].now <= now
          BY <4>2, TimesAssumption DEF At, FlightInv, ClockInv, Job
        <5> QED
          BY <1>2, <2>1, <5>1, FetchedAreRecent
      <4>3. At(v, "lookup")' /\ ~job'[v].stale => (\A k \in keys : Recent(k, job[v].now))'
        BY <1>5, <2>2, <4>1, <4>2 DEF Recent, At
      <4>4. Looks(v)' /\ ~At(v, "lookup")' /\ ~job'[v].stale => Recent(job[v].token.kid, job[v].now)'
        BY <1>1, <1>5, <4>1 DEF KeysOf, Recent, Looks, At
      <4>5. ~At(v, "install")' /\ ~At(v, "done")'
        BY <4>1 DEF At, Leads, Leading
      <4> QED
        BY <4>3, <4>4, <4>5 DEF KeysOf, At
    <3> QED
      BY <3>1, <3>2
  <2> QED
    BY <2>3, <2>4
<1>7. ASSUME NEW w \in Workers, Pass(w), NEW v \in Workers
      PROVE  KeysOf(v)'
  <2>1. job[w] \in Job /\ At(w, "enter") /\ UNCHANGED <<keys, lastFetch>>
    BY <1>7 DEF Pass, At, FlightInv, cache
  <2>2. job' = [job EXCEPT ![w] = [job[w] EXCEPT !.pc = "lookup"]]
    BY <1>7 DEF Pass, Goto, FlightInv
  <2>3. CASE v # w
    BY <1>1, <1>5, <2>1, <2>2, <2>3, KeysOfKept DEF FlightInv
  <2>4. CASE v = w
    <3>1. job[w].now \in Int /\ \A k \in Kids : withdrawn[k] \in Int
      BY <2>1 DEF Job, TimesTyped, Never
    <3>2. lastRefresh # Never
      BY <1>7 DEF Pass, shouldRefresh, unknownKid, allowedUnknownKidRefresh, ClockInv, CacheClock
    <3>3. Interval > 0 => job[w].now - lastRefresh < Interval
      BY <1>2, <1>7, <3>1, <3>2, TimesAssumption DEF Pass, shouldRefresh, needsIntervalRefresh
    <3>4. \A k \in keys : Recent(k, job[w].now)
      BY <1>1, <1>2, <3>1, <3>3, TimesAssumption DEF GoneSince, Recent
    <3>5. job'[w].pc = "lookup" /\ job'[w].now = job[w].now
      BY <2>1, <2>2 DEF FlightInv, Job
    <3> QED
      BY <1>5, <2>1, <2>4, <3>4, <3>5 DEF KeysOf, Recent, Looks, At
  <2> QED
    BY <2>3, <2>4
<1>8. ASSUME NEW w \in Workers, NEW v \in Workers,
             \/ \E t \in Tokens : Verify(w, t)
             \/ Wait(w) \/ Lead(w) \/ Fetch(w) \/ FetchFails(w) \/ GiveUp(w)
      PROVE  KeysOf(v)'
  <2>1. UNCHANGED keys /\ (lastFetch' = lastFetch \/ Lead(w))
    BY <1>8 DEF Verify, Wait, Lead, Fetch, FetchFails, GiveUp, cache
  <2>2. CASE v # w
    <3>1. job'[v] = job[v]
      BY <1>8, <2>2 DEF Verify, Wait, Lead, Fetch, FetchFails, GiveUp, Goto, Reject, FlightInv
    <3>2. lastFetch' = lastFetch \/ ~Leads(v)
      BY <2>1 DEF Lead, FlightInv, SingleFlight
    <3> QED
      BY <1>1, <1>5, <2>1, <3>1, <3>2, KeysOfKept
  <2>3. CASE v = w
    <3>1. CASE Fetch(w)
      <4>1. job[w] \in Job /\ job' = [job EXCEPT ![w] = [job[w] EXCEPT !.pc = "install", !.fetched = published]]
        BY <3>1 DEF Fetch, At, FlightInv
      <4>2. job'[w].pc = "install" /\ job'[w].fetched = published
        BY <4>1 DEF FlightInv, Job
      <4> QED
        BY <1>5, <2>3, <4>2 DEF KeysOf, GoneSince, Looks, At
    <3>2. CASE ~Fetch(w)
      <4>1. job'[w] = Idle \/ job'[w].pc \in {"enter", "wait", "fetch", "failed"}
        BY <1>8, <3>2 DEF Verify, Wait, Lead, FetchFails, GiveUp, Goto, Reject, At, FlightInv, Job
      <4> QED
        BY <2>3, <4>1 DEF KeysOf, Looks, At
    <3> QED
      BY <3>1, <3>2
  <2> QED
    BY <2>2, <2>3
<1>9. ASSUME NEW w \in Workers, Release(w), NEW v \in Workers
      PROVE  KeysOf(v)'
  <2>1. Leads(w) /\ job[w] \in Job /\ refreshing /\ UNCHANGED <<keys, lastFetch>>
    BY <1>9 DEF Release, At, Leads, Leading, FlightInv, SingleFlight, cache
  <2>2. CASE job'[v] = Idle
    BY <2>2 DEF KeysOf, Looks, At
  <2>3. CASE /\ v = w \/ At(v, "wait")
             /\ job'[v] = [job[v] EXCEPT !.pc = "lookup", !.stale = At(w, "failed")]
    <3>1. job[v] \in Job /\ job[v] # Idle
      BY <2>1, <2>3 DEF At, Leads, FlightInv
    <3>2. job'[v].pc = "lookup" /\ job'[v].stale = At(w, "failed") /\ job'[v].now = job[v].now
      BY <2>3, <3>1 DEF Job
    <3>3. CASE At(w, "done")
      <4>1. GoneSince(keys, lastFetch)
        BY <1>1, <3>3 DEF KeysOf
      <4>2. job[v].now \in Nat /\ job[v].now <= now
        BY <3>1, TimesAssumption DEF Job, ClockInv
      <4>3. \A k \in keys : Recent(k, job[v].now)
        BY <1>2, <2>1, <4>1, <4>2, FetchedAreRecent
      <4> QED
        BY <1>5, <2>1, <3>2, <4>3 DEF KeysOf, Recent, Looks, At
    <3>4. CASE At(w, "failed")
      BY <3>2, <3>4 DEF KeysOf, Looks, At
    <3> QED
      BY <1>9, <3>3, <3>4 DEF Release
  <2>4. CASE job'[v] = job[v]
    BY <1>1, <1>5, <2>1, <2>4, KeysOfKept
  <2> QED
    BY <1>9, <2>2, <2>3, <2>4 DEF Release
<1>10. ASSUME NEW w \in Workers, Lookup(w) \/ validateClaims(w), NEW v \in Workers
       PROVE  KeysOf(v)'
  <2>1. job[w] \in Job /\ job[w] # Idle /\ UNCHANGED <<keys, lastFetch>>
    BY <1>10 DEF Lookup, validateClaims, At, FlightInv, cache
  <2>2. CASE v # w
    <3>1. job'[v] = job[v]
      BY <1>10, <2>2 DEF Lookup, validateClaims, Goto, Reject, FlightInv
    <3> QED
      BY <1>1, <1>5, <2>1, <3>1, KeysOfKept
  <2>3. CASE v = w
    <3>1. CASE job'[w] = Idle
      BY <2>3, <3>1 DEF KeysOf, Looks, At
    <3>2. CASE job'[w] # Idle
      <4>1. ~job[w].stale => Recent(job[w].token.kid, job[w].now)
        BY <1>1, <1>10, <3>2 DEF Lookup, validateClaims, unknownKid, Goto, Reject, KeysOf, Looks, At,
           FlightInv
      <4>2. \E p \in {"claims", "accepted"} :
              job' = [job EXCEPT ![w] = [job[w] EXCEPT !.pc = p]]
        BY <1>10, <3>2 DEF Lookup, validateClaims, Goto, Reject, FlightInv
      <4>3. /\ job'[w].pc \in {"claims", "accepted"}
            /\ job'[w].now = job[w].now /\ job'[w].token = job[w].token
            /\ job'[w].stale = job[w].stale
        BY <2>1, <4>2 DEF FlightInv, Job
      <4> QED
        BY <1>5, <2>3, <4>1, <4>3 DEF KeysOf, Recent, Looks, At
    <3> QED
      BY <3>1, <3>2
  <2> QED
    BY <2>2, <2>3
<1>11. ASSUME UNCHANGED <<keys, lastFetch, job>>, NEW v \in Workers
       PROVE  KeysOf(v)'
  BY <1>1, <1>5, <1>11, KeysOfKept
<1>12. GoneSince(keys, lastRefresh - Timeout)'
  <2>1. CASE UNCHANGED <<keys, lastRefresh>>
    BY <1>1, <1>5, <2>1 DEF GoneSince
  <2> QED
    BY <1>4, <1>6, <2>1 DEF Next, Step, Tick, Verify, Pass, Wait, Lead, Fetch, FetchFails, Release,
       Lookup, validateClaims, GiveUp, vars, cache
<1> QED
  BY <1>4, <1>6, <1>7, <1>8, <1>9, <1>10, <1>11, <1>12 DEF Next, Step, Tick, vars, cache

LEMMA FreshStep == FreshInv /\ [Next]_vars => FreshInv'
BY FlightStep, TimesStep, ClockStep, AgeStep, KeyStep DEF FreshInv

\* Every variable keeps its type.
THEOREM TypeCorrect == Spec => []TypeOK
<1>1. FreshInv => TypeOK
  BY DEF FreshInv, FlightInv, TimesTyped, TypeOK
<1> QED
  BY <1>1, FreshInit, FreshStep, PTL DEF Spec

\* Whatever fetches come to and whoever waits for whom: a request is accepted
\* from a cache that was younger than the refresh interval when it came in,
\* unless it waited for a fetch that failed.
THEOREM CacheIsFresh == Spec => []AcceptedFromFreshCache
<1>1. FreshInv => AcceptedFromFreshCache
  BY DEF FreshInv, AgeInv, AcceptedFromFreshCache, Looks, At
<1> QED
  BY <1>1, FreshInit, FreshStep, PTL DEF Spec

\* A key that the provider withdrew is not accepted any more after the refresh
\* interval and the time of a fetch, for the same requests.
THEOREM WithdrawnKeysDie == Spec => []NoKeyOutlivesInterval
<1>1. FreshInv => NoKeyOutlivesInterval
  BY DEF FreshInv, KeyInv, NoKeyOutlivesInterval, Recent, Looks, At
<1> QED
  BY <1>1, FreshInit, FreshStep, PTL DEF Spec

-----------------------------------------------------------------------------
(* The times of the token itself *)

\* Only the check of the claims accepts a request, by the clock of that moment.
LEMMA OnlyClaimsAccept ==
  ASSUME FlightInv, [Next]_vars, NEW v \in Workers, ~At(v, "accepted"), At(v, "accepted")'
  PROVE  validateClaims(v) /\ Goto(v, "accepted")
<1>1. ASSUME NEW w \in Workers, v # w, job' = [job EXCEPT ![w] = job'[w]]
      PROVE  FALSE
  BY <1>1 DEF FlightInv, At
<1>2. ASSUME NEW w \in Workers, NEW t \in Tokens, Verify(w, t)
      PROVE  FALSE
  <2>1. job'[w].pc = "enter" /\ job' = [job EXCEPT ![w] = job'[w]]
    BY <1>2 DEF Verify, FlightInv
  <2> QED
    BY <1>1, <2>1 DEF At
<1>3. ASSUME NEW w \in Workers,
             \/ Pass(w) \/ Wait(w) \/ Lead(w) \/ Fetch(w) \/ FetchFails(w) \/ Install(w)
             \/ GiveUp(w) \/ Lookup(w)
      PROVE  FALSE
  <2>1. job[w] \in Job /\ job[w] # Idle
    BY <1>3 DEF Pass, Wait, Lead, Fetch, FetchFails, Install, GiveUp, Lookup, At, FlightInv
  <2>2. \/ job' = [job EXCEPT ![w] = Idle]
        \/ \E p \in {"lookup", "wait", "fetch", "claims"} :
             job' = [job EXCEPT ![w] = [job[w] EXCEPT !.pc = p]]
        \/ \E p \in Leading, ks \in SUBSET Kids :
             job' = [job EXCEPT ![w] = [job[w] EXCEPT !.pc = p, !.fetched = ks]]
    BY <1>3 DEF Pass, Wait, Lead, Fetch, FetchFails, Install, GiveUp, Lookup, Goto, Reject,
       Leading, FlightInv
  <2>3. job' = [job EXCEPT ![w] = job'[w]] /\ (job'[w] = Idle \/ job'[w].pc # "accepted")
    BY <2>1, <2>2 DEF FlightInv, Job, Leading
  <2> QED
    BY <1>1, <2>3 DEF At
<1>4. ASSUME NEW w \in Workers, Release(w)
      PROVE  FALSE
  <2>1. job'[v] = [job[v] EXCEPT !.pc = "lookup", !.stale = At(w, "failed")]
        /\ job[v] # Idle
    BY <1>4 DEF Release, At
  <2>2. job[v] \in Job
    BY <2>1 DEF FlightInv
  <2> QED
    BY <2>1, <2>2 DEF Job, At
<1>5. ASSUME NEW w \in Workers, validateClaims(w)
      PROVE  v = w /\ Goto(w, "accepted")
  <2>1. Goto(w, "accepted") \/ Reject(w)
    BY <1>5 DEF validateClaims
  <2>2. job' = [job EXCEPT ![w] = job'[w]]
    BY <2>1 DEF Goto, Reject, FlightInv
  <2> QED
    BY <1>1, <2>1, <2>2 DEF Reject, At, FlightInv
<1>6. ~ UNCHANGED job
  BY DEF At
<1> QED
  BY <1>2, <1>3, <1>4, <1>5, <1>6 DEF Next, Step, Tick, Rotate, vars

\* However long a request waited for the keys, its token is within its times,
\* give or take the skew, in the very step that accepts it.
THEOREM NoStaleAcceptance == Spec => AcceptedWhileValid
<1> DEFINE Valid ==
      \A w \in Workers :
        ~At(w, "accepted") /\ At(w, "accepted")' =>
          now \in (job[w].token.nbf - Skew)..(job[w].token.exp + Skew)
<1>1. FlightInv /\ [Next]_vars => [Valid]_vars
  <2> SUFFICES ASSUME FlightInv, [Next]_vars, NEW w \in Workers,
                      ~At(w, "accepted"), At(w, "accepted")'
               PROVE  now \in (job[w].token.nbf - Skew)..(job[w].token.exp + Skew)
    OBVIOUS
  <2>1. validateClaims(w) /\ Goto(w, "accepted")
    BY OnlyClaimsAccept
  <2>2. job[w] \in Job /\ job[w] # Idle /\ now \in Int
    BY <2>1 DEF validateClaims, At, FlightInv
  <2>3. job[w].token.nbf \in Int /\ job[w].token.exp \in Int
    BY <2>2, TimesAssumption DEF Job
  <2>4. ~Reject(w)
    BY DEF Reject, At, FlightInv
  <2>5. now <= job[w].token.exp + Skew /\ now >= job[w].token.nbf - Skew
    BY <2>1, <2>4 DEF validateClaims
  <2> QED
    BY <2>2, <2>3, <2>5, TimesAssumption
<1>2. Spec => [][Valid]_vars
  BY <1>1, FlightInit, FlightStep, PTL DEF Spec
<1> QED
  BY <1>2 DEF AcceptedWhileValid

=============================================================================
