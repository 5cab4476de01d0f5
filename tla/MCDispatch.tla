----------------------------- MODULE MCDispatch -----------------------------
(* Instances of Dispatch for TLC: a route in a subgroup of a group. *)
EXTENDS Dispatch, TLC

CONSTANTS outer, inner, route, q1

Nested == (route :> inner) @@ (inner :> outer) @@ (outer :> App)

OneRequest == q1 :> route
=============================================================================
