---------------------------- MODULE MCLifecycle ----------------------------
(* Instances of Lifecycle for TLC. *)
EXTENDS Lifecycle

CONSTANTS s1, srv1, srv2

\* One StartServer call with the instance's own server.
OneStart == [s \in {s1} |-> srv1]

\* One Start call, which reads o.server itself.
OneOwnStart == [s \in {s1} |-> OwnField]

\* One StartServer call with a server the caller made: the instance's
\* own is still in o.server when it begins.
OneCustomStart == [s \in {s1} |-> srv2]
=============================================================================
