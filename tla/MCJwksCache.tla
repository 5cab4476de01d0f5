---------------------------- MODULE MCJwksCache ----------------------------
(* Instances of JwksCache for TLC. *)
EXTENDS JwksCache

CONSTANTS c1, c2

\* Two configurations that share the endpoint: one TTL is below the cooldown,
\* the other is not (Cooldown = 2).
MixedTtls == [c \in {c1, c2} |-> IF c = c1 THEN 1 ELSE 2]
=============================================================================
