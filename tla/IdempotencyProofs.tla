-------------------------- MODULE IdempotencyProofs --------------------------
(* Theorems about Idempotency, for every set of keys, bodies and workers. *)
EXTENDS Idempotency, SequenceTheorems, TLAPS

-----------------------------------------------------------------------------
(* Type correctness *)

LEMMA TypeInit == Init => TypeOK
BY StoreAssumption DEF Init, TypeOK

LEMMA StoredAnswer ==
  ASSUME NEW S, NEW f \in [Keys -> [Bodies -> S]], NEW k \in Keys, NEW b \in Bodies, NEW a \in S
  PROVE  [f EXCEPT ![k][b] = a] \in [Keys -> [Bodies -> S]]
OBVIOUS

\* A step of one worker's job alone.
LEMMA JobType ==
  ASSUME TypeOK, NEW w \in Workers, NEW j \in Job \cup {Idle},
         job' = [job EXCEPT ![w] = j], UNCHANGED <<meta, resp, log, replies>>
  PROVE  TypeOK'
BY DEF TypeOK

LEMMA TypeStep == TypeOK /\ [Next]_vars => TypeOK'
<1> SUFFICES ASSUME TypeOK, [Next]_vars
             PROVE  TypeOK'
  OBVIOUS
<1>1. ASSUME NEW w \in Workers, NEW k \in Keys, NEW b \in Bodies, GetMeta(w, k, b)
      PROVE  TypeOK'
  <2> DEFINE p == IF meta[k] = b THEN "lookup" ELSE "bind"
             j == [pc |-> p, key |-> k, body |-> b, answer |-> 0, settled |-> Told(k, b)]
  <2>1. Told(k, b) \in BOOLEAN
    BY DEF Told
  <2>2. p \in {"lookup", "bind"} /\ 0 \in 0..MaxEffects
    BY StoreAssumption
  <2> HIDE DEF p
  <2>3. j \in Job
    BY <2>1, <2>2 DEF Job
  <2> USE DEF p
  <2>4. job' = [job EXCEPT ![w] = j] /\ UNCHANGED <<meta, resp, log, replies>>
    BY <1>1 DEF GetMeta
  <2> HIDE DEF j
  <2> QED
    BY <2>3, <2>4, JobType
<1>2. ASSUME NEW w \in Workers, NEW k \in Keys, NEW b \in Bodies, Refuse(w, k, b)
      PROVE  TypeOK'
  BY <1>2, StoreAssumption DEF Refuse, TypeOK
<1>3. ASSUME NEW w \in Workers, PutMeta(w)
      PROVE  TypeOK'
  <2>1. job[w] \in Job
    BY <1>3 DEF PutMeta, At, TypeOK
  <2>2. meta' \in [Keys -> Bodies \cup {Unbound}]
    BY <1>3, <2>1 DEF PutMeta, PutFails, TypeOK, Job
  <2>3. job' \in [Workers -> Job \cup {Idle}]
    BY <1>3, <2>1 DEF PutMeta, Goto, TypeOK, Job
  <2> QED
    BY <1>3, <2>2, <2>3 DEF PutMeta, TypeOK
<1>4. ASSUME NEW w \in Workers, GetResponse(w)
      PROVE  TypeOK'
  <2>1. job[w] \in Job
    BY <1>4 DEF GetResponse, At, TypeOK
  <2>2. resp[job[w].key][job[w].body] \in 0..MaxEffects
    BY <2>1 DEF TypeOK, Job
  <2>3. job' \in [Workers -> Job \cup {Idle}]
    BY <1>4, <2>1, <2>2 DEF GetResponse, TypeOK, Job
  <2> QED
    BY <1>4, <2>3 DEF GetResponse, TypeOK
<1>5. ASSUME NEW w \in Workers, Run(w)
      PROVE  TypeOK'
  <2>1. job[w] \in Job
    BY <1>5 DEF Run, At, TypeOK
  <2>2. [key |-> job[w].key, body |-> job[w].body] \in Request
    BY <2>1 DEF Job, Request
  <2>3. log' \in Seq(Request) /\ Len(log') = Len(log) + 1
    BY <1>5, <2>2 DEF Run, TypeOK
  <2>4. Len(log) \in Nat
    BY DEF TypeOK
  <2>5. Len(log) + 1 \in 0..MaxEffects /\ Len(log') <= MaxEffects
    BY <1>5, <2>3, <2>4, StoreAssumption DEF Run
  <2>6. job' \in [Workers -> Job \cup {Idle}]
    BY <1>5, <2>1, <2>5 DEF Run, TypeOK, Job
  <2> QED
    BY <1>5, <2>3, <2>5, <2>6 DEF Run, TypeOK
<1>6. ASSUME NEW w \in Workers, Fail(w) \/ Abandon(w)
      PROVE  TypeOK'
  BY <1>6, JobType DEF Fail, Abandon, Finish
<1>7. ASSUME NEW w \in Workers, PutResponse(w)
      PROVE  TypeOK'
  <2>1. job[w] \in Job
    BY <1>7 DEF PutResponse, At, TypeOK
  <2>2. resp' \in [Keys -> [Bodies -> 0..MaxEffects]]
    <3>1. /\ job[w].key \in Keys /\ job[w].body \in Bodies
          /\ job[w].answer \in 0..MaxEffects
      BY <2>1 DEF Job
    <3>2. resp \in [Keys -> [Bodies -> 0..MaxEffects]]
      BY DEF TypeOK
    <3>3. \/ resp' = [resp EXCEPT ![job[w].key][job[w].body] = job[w].answer]
          \/ resp' = resp
      BY <1>7 DEF PutResponse
    <3>4. PICK k \in Keys, b \in Bodies, a \in 0..MaxEffects :
            k = job[w].key /\ b = job[w].body /\ a = job[w].answer
      BY <3>1
    <3>5. [resp EXCEPT ![k][b] = a] \in [Keys -> [Bodies -> 0..MaxEffects]]
      BY <3>2, StoredAnswer
    <3> QED
      BY <3>2, <3>3, <3>4, <3>5
  <2>3. job' \in [Workers -> Job \cup {Idle}]
    BY <1>7, <2>1 DEF PutResponse, Goto, TypeOK, Job
  <2> QED
    BY <1>7, <2>2, <2>3 DEF PutResponse, TypeOK
<1>8. ASSUME NEW w \in Workers, Reply(w)
      PROVE  TypeOK'
  <2>1. job[w] \in Job
    BY <1>8 DEF Reply, At, TypeOK
  <2>2. [key |-> job[w].key, body |-> job[w].body, answer |-> job[w].answer]
          \in [key : Keys, body : Bodies, answer : 0..MaxEffects]
    BY <2>1 DEF Job
  <2> QED
    BY <1>8, <2>2 DEF Reply, Finish, TypeOK
<1>9. CASE UNCHANGED vars
  BY <1>9 DEF vars, TypeOK
<1> QED
  BY <1>1, <1>2, <1>3, <1>4, <1>5, <1>6, <1>7, <1>8, <1>9 DEF Next

\* The store, the log and every request in flight keep their types.
THEOREM TypeCorrect == Spec => []TypeOK
BY TypeInit, TypeStep, PTL DEF Spec

-----------------------------------------------------------------------------
(* Replies *)

\* Entry i of the log is the request of key k and body b.
Own(i, k, b) == i \in DOMAIN log /\ log[i] = [key |-> k, body |-> b]

\* Whatever a response record or a request on its way to a reply holds is an
\* execution of its own key and payload.
OwnInv ==
  /\ RepliesAreOwn
  /\ \A k \in Keys, b \in Bodies : resp[k][b] # 0 => Own(resp[k][b], k, b)
  /\ \A w \in Workers : At(w, "store") \/ At(w, "reply") =>
       Own(job[w].answer, job[w].key, job[w].body)

\* An entry of the log stays where it is.
LEMMA OwnStable ==
  ASSUME TypeOK, NEW w \in Workers, Run(w), NEW i, NEW k, NEW b, Own(i, k, b)
  PROVE  Own(i, k, b)'
<1>1. log' = Append(log, [key |-> job[w].key, body |-> job[w].body]) /\ log \in Seq(Request)
  BY DEF Run, TypeOK
<1>2. job[w] \in Job
  BY DEF Run, At, TypeOK
<1>3. [key |-> job[w].key, body |-> job[w].body] \in Request
  BY <1>2 DEF Job, Request
<1>4. i \in 1..Len(log)
  BY <1>1 DEF Own
<1>5. log'[i] = log[i] /\ i \in DOMAIN log'
  BY <1>1, <1>3, <1>4
<1> QED
  BY <1>5 DEF Own

LEMMA OwnStep == TypeOK /\ OwnInv /\ [Next]_vars => OwnInv'
<1> SUFFICES ASSUME TypeOK, OwnInv, [Next]_vars
             PROVE  OwnInv'
  OBVIOUS
<1>1. ASSUME NEW w \in Workers, NEW k \in Keys, NEW b \in Bodies,
             GetMeta(w, k, b) \/ Refuse(w, k, b)
      PROVE  OwnInv'
  <2>1. \A v \in Workers : (At(v, "store") \/ At(v, "reply"))' =>
          (At(v, "store") \/ At(v, "reply")) /\ job'[v] = job[v]
    BY <1>1 DEF GetMeta, Refuse, At, TypeOK
  <2>2. \A r \in replies' : r.answer # 0 => r \in replies
    BY <1>1 DEF GetMeta, Refuse
  <2> QED
    BY <1>1, <2>1, <2>2 DEF GetMeta, Refuse, OwnInv, Own, RepliesAreOwn
<1>2. ASSUME NEW w \in Workers, PutMeta(w) \/ Fail(w) \/ Abandon(w)
      PROVE  OwnInv'
  <2>1. \A v \in Workers : (At(v, "store") \/ At(v, "reply"))' =>
          (At(v, "store") \/ At(v, "reply")) /\ job'[v] = job[v]
    BY <1>2 DEF PutMeta, Fail, Abandon, Goto, Finish, At, TypeOK, Job
  <2> QED
    BY <1>2, <2>1 DEF PutMeta, Fail, Abandon, OwnInv, Own, RepliesAreOwn
<1>3. ASSUME NEW w \in Workers, GetResponse(w)
      PROVE  OwnInv'
  <2>1. job[w] \in Job
    BY <1>3 DEF GetResponse, At, TypeOK
  <2>2. /\ \A v \in Workers \ {w} : job'[v] = job[v]
        /\ job'[w].key = job[w].key /\ job'[w].body = job[w].body
        /\ job'[w].answer = resp[job[w].key][job[w].body]
        /\ job'[w].pc = IF resp[job[w].key][job[w].body] = 0 THEN "run" ELSE "reply"
    BY <1>3, <2>1 DEF GetResponse, TypeOK, Job
  <2>3. job[w].key \in Keys /\ job[w].body \in Bodies
    BY <2>1 DEF Job
  <2>4. UNCHANGED <<resp, log, replies>>
    BY <1>3 DEF GetResponse
  <2>5. \A v \in Workers \ {w} : (At(v, "store") \/ At(v, "reply"))' =>
          Own(job[v].answer, job[v].key, job[v].body)'
    BY <2>2, <2>4 DEF OwnInv, Own, At
  <2>6. (At(w, "store") \/ At(w, "reply"))' => Own(job[w].answer, job[w].key, job[w].body)'
    BY <2>2, <2>3, <2>4 DEF OwnInv, Own, At
  <2>7. RepliesAreOwn' /\ \A k \in Keys, b \in Bodies : resp'[k][b] # 0 => Own(resp[k][b], k, b)'
    BY <2>4 DEF OwnInv, Own, RepliesAreOwn
  <2> QED
    BY <2>5, <2>6, <2>7 DEF OwnInv
<1>4. ASSUME NEW w \in Workers, Run(w)
      PROVE  OwnInv'
  <2>1. job[w] \in Job /\ log \in Seq(Request)
    BY <1>4 DEF Run, At, TypeOK
  <2> DEFINE e == [key |-> job[w].key, body |-> job[w].body]
  <2>2. e \in Request
    BY <2>1 DEF Job, Request
  <2>3. /\ \A v \in Workers \ {w} : job'[v] = job[v]
        /\ job'[w].key = job[w].key /\ job'[w].body = job[w].body
        /\ job'[w].answer = Len(log) + 1
    BY <1>4, <2>1 DEF Run, TypeOK, Job
  <2>4. log' = Append(log, e)
    BY <1>4 DEF Run
  <2>5. Len(log) + 1 \in DOMAIN log' /\ log'[Len(log) + 1] = e
    BY <2>1, <2>2, <2>4
  <2>6. \A v \in Workers : (At(v, "store") \/ At(v, "reply"))' =>
          Own(job[v].answer, job[v].key, job[v].body)'
    <3> SUFFICES ASSUME NEW v \in Workers, (At(v, "store") \/ At(v, "reply"))'
                 PROVE  Own(job[v].answer, job[v].key, job[v].body)'
      OBVIOUS
    <3>1. CASE v = w
      BY <2>3, <2>5, <3>1 DEF Own
    <3>2. CASE v # w
      <4>1. job'[v] = job[v] /\ Own(job[v].answer, job[v].key, job[v].body)
        BY <2>3, <3>2 DEF OwnInv, At
      <4>2. PICK i, k, b : i = job[v].answer /\ k = job[v].key /\ b = job[v].body
        OBVIOUS
      <4>3. Own(i, k, b)'
        BY <1>4, <4>1, <4>2, OwnStable
      <4> QED
        BY <4>1, <4>2, <4>3 DEF Own
    <3> QED
      BY <3>1, <3>2
  <2>7. \A k \in Keys, b \in Bodies : resp'[k][b] # 0 => Own(resp[k][b], k, b)'
    <3> SUFFICES ASSUME NEW k \in Keys, NEW b \in Bodies, resp'[k][b] # 0
                 PROVE  Own(resp[k][b], k, b)'
      OBVIOUS
    <3>1. resp' = resp
      BY <1>4 DEF Run
    <3>2. PICK i : i = resp[k][b]
      OBVIOUS
    <3>3. Own(i, k, b)
      BY <3>1, <3>2 DEF OwnInv
    <3>4. Own(i, k, b)'
      BY <1>4, <3>3, OwnStable
    <3> QED
      BY <3>1, <3>2, <3>4 DEF Own
  <2>8. RepliesAreOwn'
    <3> SUFFICES ASSUME NEW r \in replies, r.answer # 0
                 PROVE  Own(r.answer, r.key, r.body)'
      BY <1>4 DEF Run, RepliesAreOwn, Own
    <3>1. Own(r.answer, r.key, r.body)
      BY DEF OwnInv, RepliesAreOwn, Own
    <3> QED
      BY <1>4, <3>1, OwnStable
  <2> QED
    BY <2>6, <2>7, <2>8 DEF OwnInv
<1>5. ASSUME NEW w \in Workers, PutResponse(w)
      PROVE  OwnInv'
  <2>1. job[w] \in Job /\ Own(job[w].answer, job[w].key, job[w].body)
    BY <1>5 DEF PutResponse, At, TypeOK, OwnInv
  <2>2. /\ \A v \in Workers \ {w} : job'[v] = job[v]
        /\ job'[w].key = job[w].key /\ job'[w].body = job[w].body
        /\ job'[w].answer = job[w].answer
    BY <1>5, <2>1 DEF PutResponse, Goto, TypeOK, Job
  <2>3. \A k \in Keys, b \in Bodies :
          \/ resp'[k][b] = resp[k][b]
          \/ k = job[w].key /\ b = job[w].body /\ resp'[k][b] = job[w].answer
    BY <1>5, <2>1 DEF PutResponse, PutFails, TypeOK, Job
  <2>4. UNCHANGED <<log, replies>>
    BY <1>5 DEF PutResponse
  <2> QED
    BY <2>1, <2>2, <2>3, <2>4 DEF OwnInv, Own, RepliesAreOwn, At
<1>6. ASSUME NEW w \in Workers, Reply(w)
      PROVE  OwnInv'
  <2>1. Own(job[w].answer, job[w].key, job[w].body)
    BY <1>6 DEF Reply, OwnInv
  <2>2. \A v \in Workers : (At(v, "store") \/ At(v, "reply"))' =>
          (At(v, "store") \/ At(v, "reply")) /\ job'[v] = job[v]
    BY <1>6 DEF Reply, Finish, At, TypeOK
  <2>3. UNCHANGED <<log, resp>>
    BY <1>6 DEF Reply
  <2>4. RepliesAreOwn'
    BY <1>6, <2>1, <2>3 DEF Reply, OwnInv, RepliesAreOwn, Own
  <2> QED
    BY <2>2, <2>3, <2>4 DEF OwnInv, Own
<1>7. CASE UNCHANGED vars
  BY <1>7 DEF vars, OwnInv, Own, RepliesAreOwn, At
<1> QED
  BY <1>1, <1>2, <1>3, <1>4, <1>5, <1>6, <1>7 DEF Next

LEMMA OwnInit == Init => OwnInv
BY DEF Init, OwnInv, RepliesAreOwn, At

\* On either backend, whatever requests overlap and whichever calls fail: a
\* success that a client is told of is an execution of its own key and payload.
THEOREM RepliesStayOwn == Spec => []RepliesAreOwn
<1>1. OwnInv => RepliesAreOwn
  BY DEF OwnInv
<1> QED
  BY <1>1, TypeInit, TypeStep, OwnInit, OwnStep, PTL DEF Spec

-----------------------------------------------------------------------------
(* Repetition *)

\* In memory the response of a request that a client was told of is in the
\* store, where every request that repeats it finds it.
SettledInv ==
  /\ \A r \in replies : r.answer # 0 => resp[r.key][r.body] # 0
  /\ \A w \in Workers :
       /\ At(w, "store") \/ At(w, "reply") => job[w].answer # 0
       /\ At(w, "reply") => resp[job[w].key][job[w].body] # 0
       /\ (At(w, "bind") \/ At(w, "lookup")) /\ job[w].settled =>
            resp[job[w].key][job[w].body] # 0
       /\ At(w, "run") => ~job[w].settled

LEMMA SettledInit == Init => SettledInv
BY DEF Init, SettledInv, At

\* A step that leaves the store and the replies alone and takes one worker to a
\* job that is as the invariant says.
LEMMA SettledJob ==
  ASSUME TypeOK, SettledInv, NEW w \in Workers, NEW j \in Job \cup {Idle},
         job' = [job EXCEPT ![w] = j], UNCHANGED <<resp, replies>>,
         j # Idle =>
           /\ j.pc \in {"store", "reply"} => j.answer # 0
           /\ j.pc = "reply" => resp[j.key][j.body] # 0
           /\ j.pc \in {"bind", "lookup"} /\ j.settled => resp[j.key][j.body] # 0
           /\ j.pc = "run" => ~j.settled
  PROVE  SettledInv'
<1>1. \A v \in Workers : job'[v] = IF v = w THEN j ELSE job[v]
  BY DEF TypeOK
<1> QED
  BY <1>1 DEF SettledInv, At

LEMMA SettledStep ==
  ASSUME Backend = "memory", TypeOK, SettledInv, [Next]_vars
  PROVE  SettledInv'
<1>1. ASSUME NEW w \in Workers, NEW k \in Keys, NEW b \in Bodies, GetMeta(w, k, b)
      PROVE  SettledInv'
  <2> DEFINE p == IF meta[k] = b THEN "lookup" ELSE "bind"
             j == [pc |-> p, key |-> k, body |-> b, answer |-> 0, settled |-> Told(k, b)]
  <2>1. Told(k, b) \in BOOLEAN
    BY DEF Told
  <2>2. p \in {"lookup", "bind"} /\ 0 \in 0..MaxEffects
    BY StoreAssumption
  <2>3. job' = [job EXCEPT ![w] = j] /\ UNCHANGED <<resp, replies>>
    BY <1>1 DEF GetMeta
  <2>4. Told(k, b) => resp[k][b] # 0
    BY DEF Told, SettledInv
  <2> HIDE DEF p
  <2>5. j \in Job
    BY <2>1, <2>2 DEF Job
  <2>6. j.pc \in {"lookup", "bind"} /\ j.key = k /\ j.body = b /\ j.settled = Told(k, b)
    BY <2>2
  <2> HIDE DEF j
  <2> QED
    BY <2>3, <2>4, <2>5, <2>6, SettledJob
<1>2. ASSUME NEW w \in Workers, NEW k \in Keys, NEW b \in Bodies, Refuse(w, k, b)
      PROVE  SettledInv'
  <2>1. \A r \in replies' : r.answer # 0 => r \in replies
    BY <1>2 DEF Refuse
  <2> QED
    BY <1>2, <2>1 DEF Refuse, SettledInv, At
<1>3. ASSUME NEW w \in Workers, PutMeta(w)
      PROVE  SettledInv'
  <2>1. job[w] \in Job /\ job[w] # Idle /\ job[w].pc = "bind"
    BY <1>3 DEF PutMeta, At, TypeOK
  <2> DEFINE j == [job[w] EXCEPT !.pc = "lookup"]
  <2>2. /\ j \in Job /\ j.pc = "lookup" /\ j.key = job[w].key
        /\ j.body = job[w].body /\ j.settled = job[w].settled
    BY <2>1 DEF Job
  <2>3. job' = [job EXCEPT ![w] = j] /\ UNCHANGED <<resp, replies>>
    BY <1>3, <2>1 DEF PutMeta, Goto, TypeOK
  <2>4. job[w].settled => resp[job[w].key][job[w].body] # 0
    BY <2>1 DEF SettledInv, At
  <2> HIDE DEF j
  <2> QED
    BY <2>2, <2>3, <2>4, SettledJob
<1>4. ASSUME NEW w \in Workers, GetResponse(w)
      PROVE  SettledInv'
  <2>1. job[w] \in Job /\ job[w] # Idle /\ job[w].pc = "lookup"
    BY <1>4 DEF GetResponse, At, TypeOK
  <2> DEFINE r == resp[job[w].key][job[w].body]
             p == IF r = 0 THEN "run" ELSE "reply"
             j == [job[w] EXCEPT !.pc = p, !.answer = r]
  <2>2. r \in 0..MaxEffects
    BY <2>1 DEF TypeOK, Job
  <2>3. job' = [job EXCEPT ![w] = j] /\ UNCHANGED <<resp, replies>>
    BY <1>4, <2>1 DEF GetResponse, TypeOK
  <2>4. job[w].settled => r # 0
    BY <2>1 DEF SettledInv, At
  <2>5. /\ j \in Job /\ j.pc = p /\ j.key = job[w].key /\ j.answer = r
        /\ j.body = job[w].body /\ j.settled = job[w].settled
    BY <2>1, <2>2 DEF Job
  <2> HIDE DEF j
  <2> QED
    BY <2>3, <2>4, <2>5, SettledJob
<1>5. ASSUME NEW w \in Workers, Run(w)
      PROVE  SettledInv'
  <2>1. job[w] \in Job /\ job[w] # Idle /\ Len(log) \in Nat
    BY <1>5 DEF Run, At, TypeOK
  <2> DEFINE j == [job[w] EXCEPT !.pc = "store", !.answer = Len(log) + 1]
  <2>2. Len(log) + 1 \in 0..MaxEffects /\ Len(log) + 1 # 0
    BY <1>5, <2>1, StoreAssumption DEF Run
  <2>3. j \in Job /\ j.pc = "store" /\ j.answer # 0
    BY <2>1, <2>2 DEF Job
  <2>4. job' = [job EXCEPT ![w] = j] /\ UNCHANGED <<resp, replies>>
    BY <1>5, <2>1 DEF Run, TypeOK
  <2> HIDE DEF j
  <2> QED
    BY <2>3, <2>4, SettledJob
<1>6. ASSUME NEW w \in Workers, Fail(w) \/ Abandon(w)
      PROVE  SettledInv'
  BY <1>6, SettledJob DEF Fail, Abandon, Finish
<1>7. ASSUME NEW w \in Workers, PutResponse(w)
      PROVE  SettledInv'
  <2>1. job[w] \in Job /\ job[w] # Idle /\ job[w].answer # 0
    BY <1>7 DEF PutResponse, At, TypeOK, SettledInv
  <2>2. resp' = [resp EXCEPT ![job[w].key][job[w].body] = job[w].answer]
    BY <1>7, Backend = "memory" DEF PutResponse, PutFails
  <2>3. job[w].key \in Keys /\ job[w].body \in Bodies
    BY <2>1 DEF Job
  <2>4. /\ \A k \in Keys, b \in Bodies : resp[k][b] # 0 => resp'[k][b] # 0
        /\ resp'[job[w].key][job[w].body] # 0
    BY <2>1, <2>2, <2>3 DEF TypeOK
  <2>5. /\ \A v \in Workers \ {w} : job'[v] = job[v]
        /\ job'[w].pc = "reply" /\ job'[w].key = job[w].key
        /\ job'[w].body = job[w].body /\ job'[w].answer = job[w].answer
    BY <1>7, <2>1 DEF PutResponse, Goto, TypeOK, Job
  <2>6. \A v \in Workers : job[v] # Idle => job[v].key \in Keys /\ job[v].body \in Bodies
    BY DEF TypeOK, Job
  <2>7. \A r \in replies : r.key \in Keys /\ r.body \in Bodies
    BY DEF TypeOK
  <2>8. replies' = replies
    BY <1>7 DEF PutResponse
  <2> QED
    BY <2>1, <2>4, <2>5, <2>6, <2>7, <2>8 DEF SettledInv, At
<1>8. ASSUME NEW w \in Workers, Reply(w)
      PROVE  SettledInv'
  <2>1. resp[job[w].key][job[w].body] # 0 /\ resp' = resp
    BY <1>8 DEF Reply, SettledInv
  <2>2. \A v \in Workers : job'[v] = IF v = w THEN Idle ELSE job[v]
    BY <1>8 DEF Reply, Finish, TypeOK
  <2>3. replies' = replies \cup
          {[key |-> job[w].key, body |-> job[w].body, answer |-> job[w].answer]}
    BY <1>8 DEF Reply
  <2> QED
    BY <2>1, <2>2, <2>3 DEF SettledInv, At
<1>9. CASE UNCHANGED vars
  BY <1>9 DEF vars, SettledInv, At
<1> QED
  BY <1>1, <1>2, <1>3, <1>4, <1>5, <1>6, <1>7, <1>8, <1>9 DEF Next

\* In memory, where a store always succeeds: a request that comes in after its
\* client was told of its success is never carried out again, whatever other
\* requests overlap with it.
THEOREM MemorySettledNeverRerun ==
  ASSUME Backend = "memory"
  PROVE  Spec => []SettledNeverRerun
<1>1. SettledInv => SettledNeverRerun
  BY DEF SettledInv, SettledNeverRerun
<1>2. TypeOK /\ SettledInv /\ [Next]_vars => SettledInv'
  BY SettledStep
<1> QED
  BY <1>1, <1>2, TypeInit, TypeStep, SettledInit, PTL DEF Spec

-----------------------------------------------------------------------------
(* The promise of the key: requests in memory that do not overlap *)

\* There is one worker, so a request ends before the next one starts.
OneAtATime == \A v, w \in Workers : v = w

\* Every request carried out is the one its key is bound to, and its answer is
\* stored or about to be; a request past the check of its key is the one that
\* the key is bound to, and one about to be carried out has no answer stored.
OnceInv ==
  /\ \A i \in DOMAIN log :
       /\ meta[log[i].key] = log[i].body
       /\ \/ resp[log[i].key][log[i].body] # 0
          \/ \E w \in Workers : /\ At(w, "store")
                               /\ job[w].key = log[i].key /\ job[w].body = log[i].body
  /\ \A w \in Workers : job[w] # Idle =>
       /\ meta[job[w].key] = IF job[w].pc = "bind" THEN Unbound ELSE job[w].body
       /\ job[w].pc = "run" => resp[job[w].key][job[w].body] = 0

LEMMA LogEntry ==
  ASSUME TypeOK, NEW i \in DOMAIN log
  PROVE  i # 0 /\ log[i].key \in Keys /\ log[i].body \in Bodies
<1>1. log \in Seq(Request)
  BY DEF TypeOK
<1>2. i \in 1..Len(log) /\ log[i] \in Request
  BY <1>1
<1> QED
  BY <1>2 DEF Request

LEMMA OnceInit == Init => OnceInv
BY DEF Init, OnceInv

\* A step that leaves the store and the log alone and gives the worker, who is
\* not about to store an answer, a new job.
LEMMA OnceJob ==
  ASSUME TypeOK, OnceInv, OneAtATime, NEW w \in Workers, ~At(w, "store"), NEW j,
         job' = [job EXCEPT ![w] = j], UNCHANGED <<meta, resp, log>>,
         j # Idle =>
           /\ meta[j.key] = IF j.pc = "bind" THEN Unbound ELSE j.body
           /\ j.pc = "run" => resp[j.key][j.body] = 0
  PROVE  OnceInv'
<1>1. \A v \in Workers : v = w /\ job'[v] = j
  BY DEF OneAtATime, TypeOK
<1>2. \A i \in DOMAIN log : resp[log[i].key][log[i].body] # 0
  BY <1>1 DEF OnceInv
<1> QED
  BY <1>1, <1>2 DEF OnceInv

\* A request about to be carried out is the first one with its key.
LEMMA NotYetExecuted ==
  ASSUME TypeOK, OnceInv, OneAtATime, NEW w \in Workers, At(w, "run")
  PROVE  \A i \in DOMAIN log : log[i].key # job[w].key
<1>1. \A v \in Workers : ~At(v, "store")
  BY DEF OneAtATime, At
<1>2. meta[job[w].key] = job[w].body /\ resp[job[w].key][job[w].body] = 0
  BY DEF OnceInv, At
<1> QED
  BY <1>1, <1>2 DEF OnceInv

LEMMA OnceStep ==
  ASSUME Backend = "memory", OneAtATime, TypeOK, OwnInv, OnceInv, [Next]_vars
  PROVE  OnceInv'
<1>1. ASSUME NEW w \in Workers, NEW k \in Keys, NEW b \in Bodies, GetMeta(w, k, b)
      PROVE  OnceInv'
  <2>1. PICK j : /\ j = [pc |-> IF meta[k] = b THEN "lookup" ELSE "bind",
                         key |-> k, body |-> b, answer |-> 0, settled |-> Told(k, b)]
                 /\ job' = [job EXCEPT ![w] = j]
    BY <1>1 DEF GetMeta
  <2>2. /\ j.key = k /\ j.body = b
        /\ j.pc = IF meta[k] = b THEN "lookup" ELSE "bind"
    BY <2>1
  <2>3. ~At(w, "store") /\ UNCHANGED <<meta, resp, log>> /\ meta[k] \in {Unbound, b}
    BY <1>1 DEF GetMeta, At
  <2> QED
    BY <2>1, <2>2, <2>3, OnceJob
<1>2. ASSUME NEW w \in Workers, NEW k \in Keys, NEW b \in Bodies, Refuse(w, k, b)
      PROVE  OnceInv'
  BY <1>2 DEF Refuse, OnceInv, At
<1>3. ASSUME NEW w \in Workers, PutMeta(w)
      PROVE  OnceInv'
  <2>1. job[w] \in Job /\ job[w] # Idle /\ job[w].pc = "bind"
    BY <1>3 DEF PutMeta, At, TypeOK
  <2>2. PICK k \in Keys, b \in Bodies : k = job[w].key /\ b = job[w].body
    BY <2>1 DEF Job
  <2>3. meta' = [meta EXCEPT ![k] = b] /\ UNCHANGED <<resp, log>>
    BY <1>3, <2>2, Backend = "memory" DEF PutMeta, PutFails
  <2>4. meta[k] = Unbound
    BY <2>1, <2>2 DEF OnceInv
  <2>5. \A v \in Workers : ~At(v, "store")
    BY <2>1 DEF OneAtATime, At
  <2>6. \A i \in DOMAIN log : log[i].key # k /\ log[i].key \in Keys
    BY <2>4, StoreAssumption, LogEntry DEF OnceInv
  <2>7. \A i \in DOMAIN log' : /\ meta'[log'[i].key] = log'[i].body
                               /\ resp'[log'[i].key][log'[i].body] # 0
    BY <2>3, <2>5, <2>6 DEF OnceInv, TypeOK
  <2>8. \A v \in Workers : /\ v = w /\ job'[v].pc = "lookup"
                            /\ job'[v].key = k /\ job'[v].body = b
    BY <1>3, <2>1, <2>2 DEF PutMeta, Goto, OneAtATime, TypeOK, Job
  <2>9. meta'[k] = b
    BY <2>3 DEF TypeOK
  <2> QED
    BY <2>7, <2>8, <2>9 DEF OnceInv
<1>4. ASSUME NEW w \in Workers, GetResponse(w)
      PROVE  OnceInv'
  <2>1. job[w] \in Job /\ job[w] # Idle /\ job[w].pc = "lookup"
    BY <1>4 DEF GetResponse, At, TypeOK
  <2>2. PICK r : r = resp[job[w].key][job[w].body]
    OBVIOUS
  <2>3. PICK j : j = [job[w] EXCEPT !.pc = IF r = 0 THEN "run" ELSE "reply", !.answer = r]
    OBVIOUS
  <2>4. job' = [job EXCEPT ![w] = j] /\ UNCHANGED <<meta, resp, log>>
    BY <1>4, <2>1, <2>2, <2>3 DEF GetResponse, TypeOK
  <2>5. r \in 0..MaxEffects
    BY <2>1, <2>2 DEF TypeOK, Job
  <2>6. /\ j.key = job[w].key /\ j.body = job[w].body
        /\ j.pc = IF r = 0 THEN "run" ELSE "reply"
    BY <2>1, <2>3, <2>5 DEF Job
  <2>7. meta[job[w].key] = job[w].body /\ ~At(w, "store")
    BY <2>1 DEF OnceInv, At
  <2> QED
    BY <2>2, <2>4, <2>6, <2>7, OnceJob
<1>5. ASSUME NEW w \in Workers, Run(w)
      PROVE  OnceInv'
  <2>1. job[w] \in Job /\ job[w] # Idle /\ job[w].pc = "run" /\ log \in Seq(Request)
    BY <1>5 DEF Run, At, TypeOK
  <2>2. PICK e : e = [key |-> job[w].key, body |-> job[w].body]
    OBVIOUS
  <2>3. e \in Request /\ e.key = job[w].key /\ e.body = job[w].body
    BY <2>1, <2>2 DEF Job, Request
  <2>4. log' = Append(log, e) /\ UNCHANGED <<meta, resp>>
    BY <1>5, <2>2 DEF Run
  <2>5. \A i \in DOMAIN log' : log'[i] = e \/ (i \in DOMAIN log /\ log'[i] = log[i])
    BY <2>1, <2>3, <2>4
  <2>6. meta[e.key] = e.body
    BY <2>1, <2>3 DEF OnceInv
  <2>7. \A v \in Workers : ~At(v, "store")
    BY <2>1 DEF OneAtATime, At
  <2>8. \A v \in Workers : /\ v = w /\ job'[v] # Idle /\ job'[v].pc = "store"
                            /\ job'[v].key = e.key /\ job'[v].body = e.body
    <3>1. Len(log) + 1 \in 0..MaxEffects
      BY <1>5, <2>1, StoreAssumption DEF Run
    <3>2. PICK j : j = [job[w] EXCEPT !.pc = "store", !.answer = Len(log) + 1]
      OBVIOUS
    <3>3. j \in Job /\ j.pc = "store" /\ j.key = e.key /\ j.body = e.body
      BY <2>1, <2>3, <3>1, <3>2 DEF Job
    <3>4. job' = [job EXCEPT ![w] = j]
      BY <1>5, <2>1, <3>2 DEF Run, TypeOK
    <3> QED
      BY <3>3, <3>4, IdleAssumption DEF OneAtATime, TypeOK
  <2>9. \A i \in DOMAIN log' :
          /\ meta'[log'[i].key] = log'[i].body
          /\ \/ resp'[log'[i].key][log'[i].body] # 0
             \/ \E v \in Workers : /\ At(v, "store")'
                                  /\ job'[v].key = log'[i].key /\ job'[v].body = log'[i].body
    BY <2>4, <2>5, <2>6, <2>7, <2>8 DEF OnceInv, At
  <2> QED
    BY <2>4, <2>6, <2>8, <2>9 DEF OnceInv
<1>6. ASSUME NEW w \in Workers, Fail(w)
      PROVE  OnceInv'
  BY <1>6, OnceJob DEF Fail, Finish, At
<1>7. ASSUME NEW w \in Workers, PutResponse(w)
      PROVE  OnceInv'
  <2>1. job[w] \in Job /\ job[w] # Idle /\ job[w].pc = "store"
    BY <1>7 DEF PutResponse, At, TypeOK
  <2>2. PICK k \in Keys, b \in Bodies, a \in 0..MaxEffects :
          k = job[w].key /\ b = job[w].body /\ a = job[w].answer
    BY <2>1 DEF Job
  <2>3. a # 0
    BY <2>1, <2>2, LogEntry DEF OwnInv, Own, At
  <2>4. resp' = [resp EXCEPT ![k][b] = a] /\ UNCHANGED <<meta, log>>
    BY <1>7, <2>2, Backend = "memory" DEF PutResponse, PutFails
  <2>5. \A l \in Keys, c \in Bodies :
          resp[l][c] # 0 \/ (l = k /\ c = b) => resp'[l][c] # 0
    BY <2>3, <2>4 DEF TypeOK
  <2>6. \A v \in Workers : /\ v = w /\ job'[v].pc = "reply"
                            /\ job'[v].key = k /\ job'[v].body = b
    BY <1>7, <2>1, <2>2 DEF PutResponse, Goto, OneAtATime, TypeOK, Job
  <2>7. \A i \in DOMAIN log : /\ meta[log[i].key] = log[i].body
                              /\ log[i].key \in Keys /\ log[i].body \in Bodies
                              /\ \/ resp[log[i].key][log[i].body] # 0
                                 \/ log[i].key = k /\ log[i].body = b
    BY <2>2, <2>6, LogEntry DEF OnceInv
  <2>8. meta[k] = b
    BY <2>1, <2>2 DEF OnceInv
  <2> QED
    BY <2>4, <2>5, <2>6, <2>7, <2>8 DEF OnceInv
<1>8. ASSUME NEW w \in Workers, Reply(w)
      PROVE  OnceInv'
  BY <1>8, OnceJob DEF Reply, Finish, At
<1>9. ASSUME NEW w \in Workers, Abandon(w)
      PROVE  OnceInv'
  BY <1>9, Backend = "memory" DEF Abandon
<1>10. CASE UNCHANGED vars
  BY <1>10 DEF vars, OnceInv, At
<1> QED
  BY <1>1, <1>2, <1>3, <1>4, <1>5, <1>6, <1>7, <1>8, <1>9, <1>10 DEF Next

LEMMA InitIsOnceInit == Init => Once!Init
BY DEF Init, Once!Init

\* Each step of a request is a step of the promise, or none of its business.
LEMMA StepIsOnceStep ==
  ASSUME Backend = "memory", OneAtATime, TypeOK, OwnInv, OnceInv, [Next]_vars
  PROVE  [Once!Next]_Once!once
<1> USE DEF Once!once
<1>1. ASSUME NEW w \in Workers, NEW k \in Keys, NEW b \in Bodies,
             GetMeta(w, k, b) \/ Refuse(w, k, b)
      PROVE  [Once!Next]_Once!once
  BY <1>1 DEF GetMeta, Refuse, Once!Next, Once!Refuse
<1>2. ASSUME NEW w \in Workers, PutMeta(w)
      PROVE  Once!Next
  <2>1. PICK k \in Keys, b \in Bodies : k = job[w].key /\ b = job[w].body
    BY <1>2 DEF PutMeta, At, TypeOK, Job
  <2>2. Once!Bind(k, b)
    BY <1>2, <2>1, Backend = "memory" DEF PutMeta, PutFails, At, OnceInv, Once!Bind
  <2> QED
    BY <2>2 DEF Once!Next
<1>3. ASSUME NEW w \in Workers, Run(w)
      PROVE  Once!Next
  <2>1. PICK k \in Keys, b \in Bodies : k = job[w].key /\ b = job[w].body
    BY <1>3 DEF Run, At, TypeOK, Job
  <2>2. \A i \in DOMAIN log : log[i].key # k
    BY <1>3, <2>1, NotYetExecuted DEF Run
  <2>3. Once!Execute(k, b)
    BY <1>3, <2>1, <2>2 DEF Run, At, OnceInv, Once!Execute
  <2> QED
    BY <2>3 DEF Once!Next
<1>4. ASSUME NEW w \in Workers, Reply(w)
      PROVE  Once!Next
  <2>1. PICK k \in Keys, b \in Bodies : k = job[w].key /\ b = job[w].body
    BY <1>4 DEF Reply, At, TypeOK, Job
  <2>2. PICK i : i = job[w].answer
    OBVIOUS
  <2>3. i \in DOMAIN log /\ log[i] = [key |-> k, body |-> b]
    BY <1>4, <2>1, <2>2 DEF Reply, OwnInv, Own
  <2>4. /\ replies' = replies \cup {[key |-> k, body |-> b, answer |-> i]}
        /\ UNCHANGED <<meta, log>>
    BY <1>4, <2>1, <2>2 DEF Reply
  <2>5. Once!Report(k, b)
    BY <2>3, <2>4 DEF Once!Report
  <2> QED
    BY <2>5 DEF Once!Next
<1>5. ASSUME NEW w \in Workers,
             GetResponse(w) \/ Fail(w) \/ PutResponse(w) \/ Abandon(w)
      PROVE  UNCHANGED Once!once
  BY <1>5 DEF GetResponse, Fail, PutResponse, Abandon
<1> QED
  BY <1>1, <1>2, <1>3, <1>4, <1>5 DEF Next, vars

\* In memory and one request at a time a key keeps the whole of its promise: it
\* is bound to the first payload sent with it, that is carried out once at most,
\* and every success told of it is that one execution.
THEOREM SerialExactlyOnce ==
  ASSUME Backend = "memory", OneAtATime
  PROVE  Spec => ImplementsExactlyOnce
<1>1. TypeOK /\ OwnInv /\ OnceInv /\ [Next]_vars => OnceInv' /\ [Once!Next]_Once!once
  BY OnceStep, StepIsOnceStep
<1> QED
  BY <1>1, TypeInit, TypeStep, OwnInit, OwnStep, OnceInit, InitIsOnceInit, PTL
     DEF Spec, ImplementsExactlyOnce, Once!Spec

=============================================================================
