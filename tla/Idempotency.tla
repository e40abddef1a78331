----------------------------- MODULE Idempotency -----------------------------
(***************************************************************************)
(* How a handler with an Idempotency-Key header recognises a repeated      *)
(* request.  Two kinds of records share one store: the "meta" record of a  *)
(* key holds the hash of the payload first sent with it, and the response  *)
(* record of a key and payload holds the answer to replay.  Every access   *)
(* is a call of its own, nothing spans the calls of one handler, and what  *)
(* Put returns is ignored.                                                 *)
(*                                                                         *)
(* A key here stands for the header together with the subject, the method  *)
(* and the route that the fingerprint adds to it; a body for its hash.     *)
(* The operation behind the handler is any that takes effect each time it  *)
(* is carried out: its effect is an entry of the log.                      *)
(***************************************************************************)
EXTENDS Naturals, Sequences

CONSTANTS
  Keys, Bodies,
  Workers,     \* requests in flight at one time
  Backend,     \* "memory" or "postgres"
  MaxEffects,  \* bound of the model: operations carried out in a behaviour
  Unbound,     \* no meta record
  Idle

ASSUME StoreAssumption ==
  /\ Backend \in {"memory", "postgres"}
  /\ MaxEffects \in Nat
  /\ Unbound \notin Bodies

VARIABLES
  meta,     \* per key, the body of its meta record
  resp,     \* per key and body, the stored answer: an index of log, 0 for none
  log,      \* the operations carried out
  replies,  \* what clients were answered: an index of log, 0 for a 409
  job

vars == <<meta, resp, log, replies, job>>

\* "settled" is a history variable: when the request came in, its client had
\* already been told that this very request succeeded.
Job == [pc      : {"bind", "lookup", "run", "store", "reply"},
        key     : Keys,
        body    : Bodies,
        answer  : 0..MaxEffects,
        settled : BOOLEAN]

ASSUME IdleAssumption == Idle \notin Job

Request == [key : Keys, body : Bodies]

TypeOK ==
  /\ meta \in [Keys -> Bodies \cup {Unbound}]
  /\ resp \in [Keys -> [Bodies -> 0..MaxEffects]]
  /\ log \in Seq(Request) /\ Len(log) <= MaxEffects
  /\ replies \subseteq [key : Keys, body : Bodies, answer : 0..MaxEffects]
  /\ job \in [Workers -> Job \cup {Idle}]

At(w, pc) == job[w] # Idle /\ job[w].pc = pc

Goto(w, pc) == job' = [job EXCEPT ![w].pc = pc]

Finish(w) == job' = [job EXCEPT ![w] = Idle]

Told(k, b) == \E r \in replies : r.key = k /\ r.body = b /\ r.answer # 0

-----------------------------------------------------------------------------
Init ==
  /\ meta = [k \in Keys |-> Unbound]
  /\ resp = [k \in Keys |-> [b \in Bodies |-> 0]]
  /\ log = <<>>
  /\ replies = {}
  /\ job = [w \in Workers |-> Idle]

\* Mutant: the payload is not compared with the one the key is bound to.
GetMetaAnyBody(w, k, b) ==
  /\ job[w] = Idle
  /\ job' = [job EXCEPT ![w] =
               [pc |-> IF meta[k] # Unbound THEN "lookup" ELSE "bind",
                key |-> k, body |-> b, answer |-> 0, settled |-> Told(k, b)]]
  /\ UNCHANGED <<meta, resp, log, replies>>

\* Get of the meta record.
GetMeta(w, k, b) ==
  /\ job[w] = Idle
  /\ meta[k] \in {Unbound, b}
  /\ job' = [job EXCEPT ![w] =
               [pc |-> IF meta[k] = b THEN "lookup" ELSE "bind",
                key |-> k, body |-> b, answer |-> 0, settled |-> Told(k, b)]]
  /\ UNCHANGED <<meta, resp, log, replies>>

\* The meta record holds another body: 409 IDEMPOTENCY_KEY_REUSE.
Refuse(w, k, b) ==
  /\ job[w] = Idle
  /\ meta[k] \notin {Unbound, b}
  /\ replies' = replies \cup {[key |-> k, body |-> b, answer |-> 0]}
  /\ UNCHANGED <<meta, resp, log, job>>

\* Put overwrites.  On Postgres it can fail, or the client's going away can
\* cancel it; the handler does not look.
PutFails == Backend = "postgres"

\* Mutant: the meta record holds the key instead of the payload's hash.
PutMetaOfKey(w) ==
  /\ At(w, "bind")
  /\ meta' = [meta EXCEPT ![job[w].key] = job[w].key]
  /\ Goto(w, "lookup")
  /\ UNCHANGED <<resp, log, replies>>

PutMeta(w) ==
  /\ At(w, "bind")
  /\ \/ meta' = [meta EXCEPT ![job[w].key] = job[w].body]
     \/ PutFails /\ UNCHANGED meta
  /\ Goto(w, "lookup")
  /\ UNCHANGED <<resp, log, replies>>

\* Mutant: the handler has no look at the stored response.
GetResponseIgnored(w) ==
  /\ At(w, "lookup")
  /\ Goto(w, "run")
  /\ UNCHANGED <<meta, resp, log, replies>>

\* Get of the response record.
GetResponse(w) ==
  /\ At(w, "lookup")
  /\ LET stored == resp[job[w].key][job[w].body]
     IN  job' = [job EXCEPT ![w].pc = IF stored = 0 THEN "run" ELSE "reply",
                            ![w].answer = stored]
  /\ UNCHANGED <<meta, resp, log, replies>>

Run(w) ==
  /\ At(w, "run")
  /\ Len(log) < MaxEffects
  /\ log' = Append(log, [key |-> job[w].key, body |-> job[w].body])
  /\ job' = [job EXCEPT ![w].pc = "store", ![w].answer = Len(log) + 1]
  /\ UNCHANGED <<meta, resp, replies>>

\* The service refuses: the error is answered and nothing is stored, so that
\* the key stays bound to the payload that failed.
Fail(w) ==
  /\ At(w, "run")
  /\ Finish(w)
  /\ UNCHANGED <<meta, resp, log, replies>>

\* Mutant: the response record's fingerprint leaves out the payload's hash.
PutResponseForAnyBody(w) ==
  /\ At(w, "store")
  /\ resp' = [resp EXCEPT ![job[w].key] = [b \in Bodies |-> job[w].answer]]
  /\ Goto(w, "reply")
  /\ UNCHANGED <<meta, log, replies>>

PutResponse(w) ==
  /\ At(w, "store")
  /\ \/ resp' = [resp EXCEPT ![job[w].key][job[w].body] = job[w].answer]
     \/ PutFails /\ UNCHANGED resp
  /\ Goto(w, "reply")
  /\ UNCHANGED <<meta, log, replies>>

Reply(w) ==
  /\ At(w, "reply")
  /\ replies' = replies \cup
       {[key |-> job[w].key, body |-> job[w].body, answer |-> job[w].answer]}
  /\ Finish(w)
  /\ UNCHANGED <<meta, resp, log>>

\* A Get that fails on Postgres, a client that goes away, a server that stops:
\* the request ends between two calls and the store keeps what it has.
Abandon(w) ==
  /\ Backend = "postgres"
  /\ job[w] # Idle
  /\ Finish(w)
  /\ UNCHANGED <<meta, resp, log, replies>>

Next ==
  \E w \in Workers :
    \/ \E k \in Keys, b \in Bodies : GetMeta(w, k, b) \/ Refuse(w, k, b)
    \/ PutMeta(w)
    \/ GetResponse(w)
    \/ Run(w)
    \/ Fail(w)
    \/ PutResponse(w)
    \/ Reply(w)
    \/ Abandon(w)

Spec == Init /\ [][Next]_vars

-----------------------------------------------------------------------------
(* Properties *)

\* Whatever requests overlap and whichever calls fail, a success that a client
\* is told of is an execution of its own key and payload.
RepliesAreOwn ==
  \A r \in replies : r.answer # 0 =>
    /\ r.answer \in DOMAIN log
    /\ log[r.answer] = [key |-> r.key, body |-> r.body]

\* A client that repeats a request after it was told of its success does not
\* have it carried out again.
SettledNeverRerun == \A w \in Workers : At(w, "run") => ~job[w].settled

\* Requests that repeat each other are all answered with one execution.
OneAnswer ==
  \A r, s \in replies :
    r.key = s.key /\ r.body = s.body /\ 0 \notin {r.answer, s.answer}
      => r.answer = s.answer

Once == INSTANCE ExactlyOnce WITH bound <- meta

\* In memory, requests that do not overlap get the whole promise of the key.
ImplementsExactlyOnce == Once!Spec

=============================================================================
