---------------------------- MODULE MCJwksCache ----------------------------
(* Instances of JwksCache for TLC. *)
EXTENDS JwksCache, TLC

CONSTANTS k1, k2

\* A token that expires early and one that is valid late, each under a key of
\* its own.
MCTokens == {[kid |-> k1, nbf |-> 0, exp |-> 0], [kid |-> k2, nbf |-> 2, exp |-> 3]}

MCSymmetry == Permutations(Workers)
=============================================================================
