--------------------------- MODULE MCClientRetry ---------------------------
(* Instances of ClientRetry for TLC. *)
EXTENDS ClientRetry

CONSTANTS ok, busy

\* A POST under a policy that does not repeat it.
Post == [idempotent |-> FALSE, key |-> FALSE, chunks |-> 1,
         maxAttempts |-> 3, delay |-> TRUE, custom |-> FALSE,
         retryOn |-> {busy}, retryNonIdempotent |-> FALSE]

\* A POST that carries a key.
KeyedPost == [Post EXCEPT !.key = TRUE, !.maxAttempts = 2]

\* A request without a body under a policy that repeats every method at once,
\* as its predicate says: after a busy server, not after an error.
Eager == [Post EXCEPT !.chunks = 0, !.custom = TRUE, !.delay = FALSE,
                      !.retryNonIdempotent = TRUE]

MCSettings == {Post, KeyedPost, Eager}
=============================================================================
