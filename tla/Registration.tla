---------------------------- MODULE Registration ----------------------------
(***************************************************************************)
(* Registering routes, and who answers OPTIONS.                            *)
(*                                                                         *)
(* An application adds routes and switches CORS on, in any order, and      *)
(* disables and enables routes.  For every path with a route added under   *)
(* CORS, okapi adds a preflight handler of its own, which must share       *)
(* OPTIONS with a user's OPTIONS route on that path (before or after it)   *)
(* and with an Any route.  The router (njia) refuses a method and path     *)
(* registered twice, and okapi then panics.                                *)
(*                                                                         *)
(* Requests do not change this state: Answer is what a request gets in it. *)
(***************************************************************************)
EXTENDS Integers, Sequences

CONSTANTS
    Methods,      \* the methods but OPTIONS a request may have
    Paths,        \* normalized route patterns; no two of them match one URL
    Origins,      \* origins, up to case
    Entries,      \* entries of Cors.AllowedOrigins: [kind, origins]
    CorsConfigs,  \* the arguments of WithCors: [entries, methods, credentials]
    MaxRoutes     \* how many routes the application adds

Options == "OPTIONS"
AnyMethod == "*"
None    == "none"    \* no such header
RouteMethods == Methods \cup {Options, AnyMethod}

ASSUME RegistrationAssumption ==
    /\ Options \notin Methods /\ AnyMethod \notin Methods /\ None \notin Methods
    /\ None \notin Origins /\ AnyMethod \notin Origins
    /\ MaxRoutes \in Nat
    /\ CorsConfigs \subseteq [entries : Seq(Entries), methods : SUBSET Methods,
                              credentials : BOOLEAN]
    /\ Entries \subseteq [kind : {"any", "exact", "pattern"}, origins : SUBSET Origins]

VARIABLES
    routes,             \* o.routes: what was added, in order; late: before CORS was on
    disabled,           \* the routes (their positions) that are disabled
    table,              \* the router: method and path to a route, Preflight or Free
    optionsHandlers,    \* path to the user's OPTIONS route, or Free
    optionsRegistered,  \* the paths whose OPTIONS is taken in the router
    corsEnabled, cors,  \* o.corsEnabled (also: CORSHandler is in the chain), o.cors
    panicked            \* the router refused a registration

registrationVars ==
    <<routes, disabled, table, optionsHandlers, optionsRegistered, corsEnabled, cors,
      panicked>>

Free      == 0
Preflight == -1

RegistrationTypeOK ==
    /\ routes \in Seq([method : RouteMethods, path : Paths, late : BOOLEAN])
    /\ disabled \subseteq 1..Len(routes)
    /\ table \in [RouteMethods \X Paths -> Int]
    /\ optionsHandlers \in [Paths -> Nat]
    /\ optionsRegistered \subseteq Paths
    /\ corsEnabled \in BOOLEAN
    /\ cors \in CorsConfigs
    /\ panicked \in BOOLEAN

RegistrationInit ==
    /\ routes = <<>> /\ disabled = {}
    /\ table = [key \in RouteMethods \X Paths |-> Free]
    /\ optionsHandlers = [p \in Paths |-> Free]
    /\ optionsRegistered = {}
    /\ corsEnabled = FALSE
    /\ cors \in CorsConfigs      \* meaningless until corsEnabled
    /\ panicked = FALSE

(***************************************************************************)
(* Registration                                                            *)
(***************************************************************************)
\* WithCors: the configuration, and CORSHandler in the chain the first time.
WithCors(config) ==
    /\ corsEnabled' = TRUE /\ cors' = config
    /\ UNCHANGED <<routes, disabled, table, optionsHandlers, optionsRegistered, panicked>>

\* mustRegister and registerOptionsHandler for a route that is not an OPTIONS route.
RegisterWithPreflight(method, path, route) ==
    LET taken     == table[<<method, path>>] # Free
        preflight == corsEnabled /\ path \notin optionsRegistered
    IN  IF taken
        THEN /\ panicked' = TRUE
             /\ UNCHANGED <<table, optionsHandlers, optionsRegistered>>
        ELSE /\ table' = [key \in DOMAIN table |->
                            IF key = <<method, path>> THEN route
                            ELSE IF preflight /\ key = <<Options, path>> THEN Preflight
                            ELSE table[key]]
             /\ optionsRegistered' =
                    optionsRegistered \cup (IF preflight THEN {path} ELSE {})
             /\ UNCHANGED <<optionsHandlers, panicked>>

\* registerUserOptions: handed to the preflight handler where there is one.
RegisterUserOptions(path, route) ==
    IF optionsHandlers[path] # Free
    THEN /\ panicked' = TRUE
         /\ UNCHANGED <<table, optionsHandlers, optionsRegistered>>
    ELSE /\ optionsHandlers' = [optionsHandlers EXCEPT ![path] = route]
         /\ table' = IF path \in optionsRegistered THEN table
                     ELSE [table EXCEPT ![<<Options, path>>] = route]
         /\ optionsRegistered' = optionsRegistered \cup {path}
         /\ UNCHANGED panicked

\* addRoute.
AddRoute(method, path) ==
    LET route == Len(routes) + 1
    IN  /\ Len(routes) < MaxRoutes
        /\ routes' = Append(routes, [method |-> method, path |-> path,
                                     late |-> ~corsEnabled])
        /\ IF method = Options THEN RegisterUserOptions(path, route)
           ELSE RegisterWithPreflight(method, path, route)
        /\ UNCHANGED <<disabled, corsEnabled, cors>>

\* Route.Disable and Route.Enable.
Disable(route) ==
    /\ disabled' = disabled \cup {route}
    /\ UNCHANGED <<routes, table, optionsHandlers, optionsRegistered, corsEnabled, cors,
                   panicked>>
Enable(route) ==
    /\ disabled' = disabled \ {route}
    /\ UNCHANGED <<routes, table, optionsHandlers, optionsRegistered, corsEnabled, cors,
                   panicked>>

RegistrationNext ==
    /\ ~panicked
    /\ \/ \E config \in CorsConfigs : WithCors(config)
       \/ \E method \in RouteMethods, path \in Paths : AddRoute(method, path)
       \/ \E route \in 1..Len(routes) : Disable(route) \/ Enable(route)

RegistrationSpec == RegistrationInit /\ [][RegistrationNext]_registrationVars

(***************************************************************************)
(* What a request gets.  A request is a method, a path, an origin and the  *)
(* Access-Control-Request-Method, either of which may be None.  An answer  *)
(* is who answered (a route, Preflight, or Free for an error page) and     *)
(* three response headers; methods is what Allow-Methods lists.            *)
(***************************************************************************)
Requests == [method : Methods \cup {Options}, path : Paths, origin : Origins \cup {None},
             wants : Methods \cup {None}]

Plain(by) == [by |-> by, allow |-> None, credentials |-> FALSE, methods |-> {}]

IsPreflight(req) == req.method = Options /\ req.wants # None

\* The router: the route for the method, else the Any route.
Handler(method, path) ==
    IF table[<<method, path>>] # Free THEN table[<<method, path>>] ELSE table[<<AnyMethod, path>>]

Matches(entry, origin) == entry.kind = "any" \/ origin \in entry.origins

\* Bug: the wildcard is answered like an entry that names the origin.
ResolveWildcardAsNamed(origin) ==
    IF \E k \in 1..Len(cors.entries) : Matches(cors.entries[k], origin)
    THEN [value |-> origin, credentials |-> cors.credentials]
    ELSE [value |-> None, credentials |-> FALSE]

\* Cors.resolveOrigin: the first entry that matches decides, and * never grants
\* credentials.
ResolveOrigin(origin) ==
    LET matching == {k \in 1..Len(cors.entries) : Matches(cors.entries[k], origin)}
        first    == cors.entries[CHOOSE k \in matching : \A l \in matching : k <= l]
    IN  IF origin = None \/ matching = {} THEN [value |-> None, credentials |-> FALSE]
        ELSE IF first.kind = "any" THEN [value |-> AnyMethod, credentials |-> FALSE]
        ELSE [value |-> origin, credentials |-> cors.credentials]

\* Cors.writeHeaders.
WriteHeaders(by, req, allowed, listed) ==
    [by |-> by, allow |-> allowed.value, credentials |-> allowed.credentials,
     methods |-> IF ~IsPreflight(req) THEN {}
                 ELSE IF listed # {} THEN listed ELSE {req.wants}]

\* Cors.CORSHandler, the first of the chain's elements that answers: preflights end there.
CORSHandler(route, req) ==
    LET allowed == ResolveOrigin(req.origin)
        by      == IF IsPreflight(req) THEN Preflight ELSE route
    IN  IF allowed.value = None THEN Plain(by)
        ELSE WriteHeaders(by, req, allowed, cors.methods)

\* routeHandler: a disabled route answers 404 before its chain runs.
RouteHandler(route, req) ==
    IF route \in disabled THEN Plain(Free)
    ELSE IF corsEnabled THEN CORSHandler(route, req)
    ELSE Plain(route)

OnPath(path) == {k \in 1..Len(routes) : routes[k].path = path}

\* The handler registerOptionsHandler adds: plain requests are the user's, or an Any
\* route's; preflights are answered, with every method served on the path.
PreflightHandler(req) ==
    LET anys    == {k \in OnPath(req.path) : routes[k].method = AnyMethod}
        allowed == ResolveOrigin(req.origin)
        served  == UNION {IF routes[k].method = AnyMethod THEN Methods \cup {Options}
                          ELSE {routes[k].method} : k \in OnPath(req.path)}
    IN  IF req.wants = None /\ optionsHandlers[req.path] # Free
        THEN RouteHandler(optionsHandlers[req.path], req)
        ELSE IF req.wants = None /\ anys # {}
        THEN RouteHandler(CHOOSE k \in anys : \A l \in anys : k <= l, req)
        ELSE IF allowed.value = None THEN Plain(Free)
        ELSE [WriteHeaders(Preflight, req, allowed, cors.methods) EXCEPT
                !.methods = IF cors.methods # {} THEN cors.methods ELSE served]

\* ServeHTTP.
Answer(req) ==
    LET handler == Handler(req.method, req.path)
    IN  IF handler = Free THEN Plain(Free)
        ELSE IF handler = Preflight THEN PreflightHandler(req)
        ELSE RouteHandler(handler, req)

(***************************************************************************)
(* Properties                                                              *)
(***************************************************************************)
\* Two routes with one method and path.
Duplicated ==
    \E j, k \in 1..Len(routes) :
        j # k /\ routes[j].method = routes[k].method /\ routes[j].path = routes[k].path

\* Who is to answer a plain OPTIONS request: the user's OPTIONS route, else an Any route.
OptionsOwners(path) ==
    LET own == {k \in OnPath(path) : routes[k].method = Options}
    IN  IF own # {} THEN own ELSE {k \in OnPath(path) : routes[k].method = AnyMethod}

\* An entry other than * names the origin.
Named(origin) ==
    \E k \in 1..Len(cors.entries) :
        cors.entries[k].kind # "any" /\ origin \in cors.entries[k].origins

\* Whatever the order of the calls, the preflight handler okapi adds by itself takes nothing
\* from the application: its routes are refused exactly when two of them have the same method
\* and path, and an OPTIONS request that is not a preflight reaches the user's OPTIONS route
\* on the path, or an Any route there, with and without CORS.  And a preflight tells the
\* truth: for a route added under CORS, and not behind a disabled OPTIONS route, it names the
\* origin and grants the credentials that the response to the request itself will carry, only
\* to origins the configuration names, and lists its method unless the configuration leaves
\* it out.
OptionsAnswered ==
    /\ panicked <=> Duplicated
    /\ ~panicked =>
        \A req \in Requests : req.method = Options /\ req.wants = None =>
            \A k \in OptionsOwners(req.path) \ disabled : Answer(req).by = k
    /\ ~panicked =>
        \A k \in (1..Len(routes)) \ disabled, req \in Requests :
            /\ req.path = routes[k].path /\ req.wants = None
            /\ req.method \in Methods /\ Handler(req.method, req.path) = k
            /\ ~routes[k].late /\ optionsHandlers[req.path] \notin disabled
            => LET preflight == Answer([req EXCEPT !.method = Options, !.wants = req.method])
                   actual    == Answer(req)
               IN  /\ preflight.allow = actual.allow
                   /\ preflight.credentials = actual.credentials
                   /\ actual.credentials => Named(req.origin)
                   /\ actual.allow # None /\ (cors.methods = {} \/ req.method \in cors.methods)
                        => req.method \in preflight.methods
=============================================================================
