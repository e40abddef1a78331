----------------------------- MODULE ExactlyOnce -----------------------------
(***************************************************************************)
(* What an Idempotency-Key promises a client that repeats requests: a key  *)
(* is bound to the first payload sent with it, that payload is carried out *)
(* at most once, every success reported for it is that one execution, and  *)
(* another payload under the key is refused.                               *)
(***************************************************************************)
EXTENDS Naturals, Sequences

CONSTANTS Keys, Bodies, Unbound

VARIABLES
  bound,    \* the payload each key is bound to
  log,      \* the requests carried out, in order
  replies   \* the answers clients have seen: an index of log, or 0 for a 409

once == <<bound, log, replies>>

Init ==
  /\ bound = [k \in Keys |-> Unbound]
  /\ log = <<>>
  /\ replies = {}

Bind(k, b) ==
  /\ bound[k] = Unbound
  /\ bound' = [bound EXCEPT ![k] = b]
  /\ UNCHANGED <<log, replies>>

Execute(k, b) ==
  /\ bound[k] = b
  /\ \A i \in DOMAIN log : log[i].key # k
  /\ log' = Append(log, [key |-> k, body |-> b])
  /\ UNCHANGED <<bound, replies>>

Report(k, b) ==
  /\ \E i \in DOMAIN log :
       /\ log[i] = [key |-> k, body |-> b]
       /\ replies' = replies \cup {[key |-> k, body |-> b, answer |-> i]}
  /\ UNCHANGED <<bound, log>>

Refuse(k, b) ==
  /\ bound[k] \notin {Unbound, b}
  /\ replies' = replies \cup {[key |-> k, body |-> b, answer |-> 0]}
  /\ UNCHANGED <<bound, log>>

Next ==
  \E k \in Keys, b \in Bodies :
    Bind(k, b) \/ Execute(k, b) \/ Report(k, b) \/ Refuse(k, b)

Spec == Init /\ [][Next]_once

=============================================================================
