------------------------------ MODULE ApiPaths ------------------------------
(***************************************************************************)
(* The operations of the OpenAPI document, next to the router that serves  *)
(* them.  buildOpenAPISpec goes through the same list of routes as the     *)
(* registration, but decides by itself which route a method of a path is   *)
(* documented by.                                                          *)
(***************************************************************************)
EXTENDS Registration

CONSTANT Slots  \* the methods a path item has a slot for

\* The methods an Any route is documented under.
NotForAny       == {Options, "HEAD"}
AnyRouteMethods == Slots \ NotForAny

ASSUME ApiPathsAssumption == Slots \subseteq Methods \cup {Options}

\* Bug: an Any route takes over the methods other routes are documented under.
SetAnyOverriding(items, k) ==
    [slot \in DOMAIN items |->
        IF slot[1] \in AnyRouteMethods /\ slot[2] = routes[k].path THEN k ELSE items[slot]]

\* setAnyMethodOperations: route k under each method that has no operation yet.
SetAnyMethodOperations(items, k) ==
    [slot \in DOMAIN items |->
        IF slot[1] \in AnyRouteMethods /\ slot[2] = routes[k].path /\ items[slot] = Free
        THEN k ELSE items[slot]]

\* setOperation: nothing for a method without a slot.
SetOperation(items, k) ==
    [slot \in DOMAIN items |->
        IF slot = <<routes[k].method, routes[k].path>> THEN k ELSE items[slot]]

\* The loop of buildOpenAPISpec over the first n routes; a hidden route is like a disabled
\* one.  For each method and path: the route documented there, or Free.
DocumentedUpTo[n \in 0..MaxRoutes] ==
    IF n = 0 THEN [slot \in Slots \X Paths |-> Free]
    ELSE IF n \in disabled THEN DocumentedUpTo[n - 1]
    ELSE IF routes[n].method = AnyMethod THEN SetAnyMethodOperations(DocumentedUpTo[n - 1], n)
    ELSE SetOperation(DocumentedUpTo[n - 1], n)

Documented == DocumentedUpTo[Len(routes)]

(***************************************************************************)
(* Properties                                                              *)
(***************************************************************************)
\* An operation is documented by the route that serves it, for every order in which routes
\* for one method and for any method were added, and every method served is documented
\* (OPTIONS and HEAD by their own routes only).  Where a disabled route keeps an Any route
\* from answering, the Any route is documented all the same.
DocumentsServing ==
    ~panicked =>
        \A slot \in Slots \X Paths :
            LET by == Answer([method |-> slot[1], path |-> slot[2],
                              origin |-> None, wants |-> None]).by
            IN  \/ Documented[slot] = by
                \/ by = Free /\ Handler(slot[1], slot[2]) \in disabled
                \/ slot[1] \in NotForAny /\ Documented[slot] = Free /\ routes[by].method = AnyMethod
=============================================================================
