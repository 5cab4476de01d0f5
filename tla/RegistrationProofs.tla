------------------------- MODULE RegistrationProofs -------------------------
(***************************************************************************)
(* Who answers OPTIONS and what the document says of who answers, for any  *)
(* number of routes on any paths, any CORS configurations and any order of *)
(* the calls.                                                              *)
(***************************************************************************)
EXTENDS ApiPaths, NumberLemmas, TLAPS

-----------------------------------------------------------------------------
(* The invariant: what the router and the handlers of OPTIONS hold is what *)
(* the list of routes says.                                                *)

\* The routes added for a method and path.
Added(method, path) ==
  {k \in 1..Len(routes) : routes[k].method = method /\ routes[k].path = path}

\* x stands for the routes added for a method and path: none, or the one there is.
Stands(x, method, path) ==
  IF x = Free THEN Added(method, path) = {} ELSE Added(method, path) = {x}

\* The router has a route for every method and path that has one.
TableHolds ==
  \A method \in Methods \cup {AnyMethod}, path \in Paths :
    Stands(table[<<method, path>>], method, path)

\* So have the handlers of OPTIONS, which are reached from the router, through okapi's
\* preflight handler or directly.
OptionsHold ==
  \A path \in Paths :
    /\ Stands(optionsHandlers[path], Options, path)
    /\ path \in optionsRegistered <=> table[<<Options, path>>] # Free
    /\ table[<<Options, path>>] # Preflight => table[<<Options, path>>] = optionsHandlers[path]
    /\ optionsHandlers[path] # Free => path \in optionsRegistered

\* A route added under CORS has OPTIONS on its path taken.
UnderCors ==
  \A k \in 1..Len(routes) :
    ~routes[k].late => corsEnabled /\ routes[k].path \in optionsRegistered

RegistrationInv ==
  /\ RegistrationTypeOK /\ Len(routes) <= MaxRoutes
  /\ panicked <=> Duplicated
  /\ ~panicked => TableHolds /\ OptionsHold /\ UnderCors

\* What one more route does to the routes added for a method and path.
LEMMA AddedAfter ==
  ASSUME RegistrationTypeOK, NEW r \in [method : RouteMethods, path : Paths, late : BOOLEAN],
         routes' = Append(routes, r)
  PROVE  /\ Len(routes) \in Nat /\ Len(routes') = Len(routes) + 1
         /\ \A k \in 1..Len(routes) : routes'[k] = routes[k]
         /\ routes'[Len(routes) + 1] = r
         /\ routes' \in Seq([method : RouteMethods, path : Paths, late : BOOLEAN])
         /\ \A method, path :
              Added(method, path)' = Added(method, path) \cup
                (IF method = r.method /\ path = r.path THEN {Len(routes) + 1} ELSE {})
<1> DEFINE R == [method : RouteMethods, path : Paths, late : BOOLEAN]
<1>1. routes \in Seq(R)
  BY DEF RegistrationTypeOK
<1> HIDE DEF R
<1>2. /\ Len(routes) \in Nat /\ Len(routes') = Len(routes) + 1
      /\ \A k \in 1..Len(routes) : routes'[k] = routes[k]
      /\ routes'[Len(routes) + 1] = r
  BY <1>1
<1>3. routes' \in Seq(R)
  BY <1>1 DEF R
<1>4. ASSUME NEW method, NEW path
      PROVE  Added(method, path)' = Added(method, path) \cup
                (IF method = r.method /\ path = r.path THEN {Len(routes) + 1} ELSE {})
  <2>1. \A k : k \in 1..(Len(routes) + 1) <=> k \in 1..Len(routes) \/ k = Len(routes) + 1
    BY <1>2
  <2>2. Len(routes) + 1 \notin 1..Len(routes)
    BY <1>2
  <2> DEFINE n == Len(routes)
  <2>3. \A k : k \in Added(method, path)' <=>
               k \in 1..(n + 1) /\ routes'[k].method = method /\ routes'[k].path = path
    BY <1>2 DEF Added
  <2>4. \A k : k \in Added(method, path) <=>
               k \in 1..n /\ routes[k].method = method /\ routes[k].path = path
    BY DEF Added
  <2> HIDE DEF n
  <2>5. QED
    BY <1>2, <2>1, <2>2, <2>3, <2>4 DEF n
<1>5. QED
  BY <1>2, <1>3, <1>4 DEF R

\* A route for a method and path that has one duplicates it, and only then.
LEMMA DuplicatedAfter ==
  ASSUME RegistrationTypeOK, ~Duplicated,
         NEW r \in [method : RouteMethods, path : Paths, late : BOOLEAN],
         routes' = Append(routes, r)
  PROVE  Duplicated' <=> Added(r.method, r.path) # {}
<1> DEFINE n == Len(routes)
<1>1. /\ n \in Nat /\ Len(routes') = n + 1
      /\ \A k \in 1..n : routes'[k] = routes[k]
      /\ routes'[n + 1] = r
  BY AddedAfter
<1>2. /\ \A k : k \in 1..(n + 1) <=> k \in 1..n \/ k = n + 1
      /\ n + 1 \notin 1..n
  BY <1>1
<1>3. Duplicated' <=>
      \E j, k \in 1..(n + 1) :
        /\ j # k /\ routes'[j].method = routes'[k].method
        /\ routes'[j].path = routes'[k].path
  BY <1>1 DEF Duplicated
<1>4. ~ \E j, k \in 1..n :
        /\ j # k /\ routes[j].method = routes[k].method
        /\ routes[j].path = routes[k].path
  BY DEF Duplicated
<1>5. Added(r.method, r.path) # {} <=>
      \E k \in 1..n : routes[k].method = r.method /\ routes[k].path = r.path
  BY DEF Added
<1> HIDE DEF n
<1>6. QED
  BY <1>1, <1>2, <1>3, <1>4, <1>5

-----------------------------------------------------------------------------
(* The steps. *)

\* A route that is not an OPTIONS route.
LEMMA PreflightStep ==
  ASSUME RegistrationInv, ~panicked, NEW method \in Methods \cup {AnyMethod},
         NEW path \in Paths, AddRoute(method, path)
  PROVE  RegistrationInv'
<1> DEFINE n == Len(routes)
           r == [method |-> method, path |-> path, late |-> ~corsEnabled]
           preflight == corsEnabled /\ path \notin optionsRegistered
<1> USE RegistrationAssumption
<1>1. /\ r \in [method : RouteMethods, path : Paths, late : BOOLEAN]
      /\ method # Options
  BY DEF RouteMethods, RegistrationInv, RegistrationTypeOK, Options, AnyMethod
<1>2. /\ routes' = Append(routes, r) /\ RegisterWithPreflight(method, path, n + 1)
      /\ UNCHANGED <<disabled, corsEnabled, cors>>
  BY <1>1 DEF AddRoute
<1> HIDE DEF r
<1>3. /\ n \in Nat /\ Len(routes') = n + 1
      /\ \A k \in 1..n : routes'[k] = routes[k]
      /\ routes'[n + 1] = r
      /\ routes' \in Seq([method : RouteMethods, path : Paths, late : BOOLEAN])
      /\ \A m, p : Added(m, p)' = Added(m, p) \cup
                     (IF m = r.method /\ p = r.path THEN {n + 1} ELSE {})
  BY <1>1, <1>2, AddedAfter, Zenon DEF RegistrationInv
<1>room. Len(routes') <= MaxRoutes
  BY <1>3 DEF AddRoute, RegistrationInv, RegistrationTypeOK
<1>4. r.method = method /\ r.path = path /\ r.late = ~corsEnabled
  BY DEF r
<1>5. ~Duplicated /\ TableHolds /\ OptionsHold /\ UnderCors /\ RegistrationTypeOK
  BY DEF RegistrationInv
<1>6. Duplicated' <=> table[<<method, path>>] # Free
  BY <1>1, <1>2, <1>4, <1>5, DuplicatedAfter, ZenonT(40) DEF TableHolds, Stands
<1>7. optionsRegistered' \subseteq Paths /\ optionsRegistered \subseteq optionsRegistered'
  BY <1>2, <1>5 DEF RegisterWithPreflight, RegistrationTypeOK
<1>typed. /\ disabled' \subseteq 1..Len(routes') /\ corsEnabled' \in BOOLEAN
       /\ cors' \in CorsConfigs
  BY <1>2, <1>3, <1>5 DEF RegistrationTypeOK
<1>8. CASE table[<<method, path>>] # Free
  <2>1. panicked' = TRUE /\ UNCHANGED <<table, optionsHandlers, optionsRegistered>>
    BY <1>2, <1>8 DEF RegisterWithPreflight
  <2>2. RegistrationTypeOK'
    BY <1>3, <1>5, <1>typed, <2>1 DEF RegistrationTypeOK
  <2>3. QED
    BY <2>1, <2>2, <1>6, <1>8, <1>room DEF RegistrationInv
<1>9. CASE table[<<method, path>>] = Free
  <2>1. /\ panicked' = FALSE /\ optionsHandlers' = optionsHandlers
        /\ table' = [key \in DOMAIN table |->
                        IF key = <<method, path>> THEN n + 1
                        ELSE IF preflight /\ key = <<Options, path>> THEN Preflight
                        ELSE table[key]]
        /\ optionsRegistered' = optionsRegistered \cup (IF preflight THEN {path} ELSE {})
    BY <1>2, <1>9 DEF RegisterWithPreflight
  <2>2. table' \in [RouteMethods \X Paths -> Int]
    BY <2>1, <1>3, <1>5 DEF RegistrationTypeOK, Preflight
  <2>3. RegistrationTypeOK'
    BY <1>3, <1>5, <1>7, <1>typed, <2>1, <2>2 DEF RegistrationTypeOK
  <2>4. \A m \in RouteMethods, p \in Paths :
          table'[<<m, p>>] = IF m = method /\ p = path THEN n + 1
                         ELSE IF preflight /\ m = Options /\ p = path THEN Preflight
                         ELSE table[<<m, p>>]
    BY <2>1, <1>5 DEF RegistrationTypeOK
  <2>5. TableHolds'
    <3> SUFFICES ASSUME NEW m \in Methods \cup {AnyMethod}, NEW p \in Paths
                 PROVE  Stands(table[<<m, p>>], m, p)'
      BY DEF TableHolds
    <3>1. m \in RouteMethods /\ m # Options
      BY DEF RouteMethods, Options, AnyMethod
    <3>2. Stands(table[<<m, p>>], m, p)
      BY <1>5 DEF TableHolds
    <3>3. CASE m = method /\ p = path
      <4>1. table'[<<m, p>>] = n + 1 /\ Added(m, p) = {} /\ Added(m, p)' = {n + 1}
        BY <3>1, <3>2, <3>3, <2>4, <1>3, <1>4, <1>9 DEF Stands
      <4>2. QED
        BY <4>1, <1>3 DEF Stands, Free
    <3>4. CASE ~(m = method /\ p = path)
      <4>1. table'[<<m, p>>] = table[<<m, p>>] /\ Added(m, p)' = Added(m, p)
        BY <3>1, <3>4, <2>4, <1>3, <1>4, ZenonT(40)
      <4>2. QED
        BY <4>1, <3>2 DEF Stands
    <3>5. QED
      BY <3>3, <3>4
  <2>6. OptionsHold'
    <3> SUFFICES ASSUME NEW p \in Paths
                 PROVE  /\ Stands(optionsHandlers[p], Options, p)'
                        /\ p \in optionsRegistered' <=> table'[<<Options, p>>] # Free
                        /\ table'[<<Options, p>>] # Preflight
                             => table'[<<Options, p>>] = optionsHandlers'[p]
                        /\ optionsHandlers'[p] # Free => p \in optionsRegistered'
      BY DEF OptionsHold
    <3>1. /\ Stands(optionsHandlers[p], Options, p)
          /\ p \in optionsRegistered <=> table[<<Options, p>>] # Free
          /\ table[<<Options, p>>] # Preflight => table[<<Options, p>>] = optionsHandlers[p]
          /\ optionsHandlers[p] # Free => p \in optionsRegistered
      BY <1>5 DEF OptionsHold
    <3>2. Added(Options, p)' = Added(Options, p)
      BY <1>1, <1>3, <1>4
    <3>3. table'[<<Options, p>>] = IF preflight /\ p = path THEN Preflight ELSE table[<<Options, p>>]
      BY <1>1, <2>4 DEF RouteMethods
    <3>4. QED
      BY <3>1, <3>2, <3>3, <2>1 DEF Stands, Preflight, Free
  <2>7. UnderCors'
    <3> SUFFICES ASSUME NEW k \in 1..(n + 1), ~routes'[k].late
                 PROVE  corsEnabled' /\ routes'[k].path \in optionsRegistered'
      BY <1>3 DEF UnderCors
    <3>1. CASE k = n + 1
      BY <3>1, <1>2, <1>3, <1>4, <2>1
    <3>2. CASE k # n + 1
      <4>1. k \in 1..n
        BY <3>2, <1>3
      <4>2. QED
        BY <4>1, <1>2, <1>3, <1>5, <1>7 DEF UnderCors
    <3>3. QED
      BY <3>1, <3>2
  <2>8. QED
    BY <2>1, <2>3, <2>5, <2>6, <2>7, <1>6, <1>9, <1>room DEF RegistrationInv
<1>10. QED
  BY <1>8, <1>9

\* An OPTIONS route.
LEMMA UserOptionsStep ==
  ASSUME RegistrationInv, ~panicked, NEW path \in Paths, AddRoute(Options, path)
  PROVE  RegistrationInv'
<1> DEFINE n == Len(routes)
           r == [method |-> Options, path |-> path, late |-> ~corsEnabled]
<1> USE RegistrationAssumption
<1>1. r \in [method : RouteMethods, path : Paths, late : BOOLEAN]
  BY DEF RouteMethods, RegistrationInv, RegistrationTypeOK
<1>2. /\ routes' = Append(routes, r) /\ RegisterUserOptions(path, n + 1)
      /\ UNCHANGED <<disabled, corsEnabled, cors>>
  BY DEF AddRoute
<1> HIDE DEF r
<1>3. /\ n \in Nat /\ Len(routes') = n + 1
      /\ \A k \in 1..n : routes'[k] = routes[k]
      /\ routes'[n + 1] = r
      /\ routes' \in Seq([method : RouteMethods, path : Paths, late : BOOLEAN])
      /\ \A m, p : Added(m, p)' = Added(m, p) \cup
                     (IF m = r.method /\ p = r.path THEN {n + 1} ELSE {})
  BY <1>1, <1>2, AddedAfter, Zenon DEF RegistrationInv
<1>room. Len(routes') <= MaxRoutes
  BY <1>3 DEF AddRoute, RegistrationInv, RegistrationTypeOK
<1>4. r.method = Options /\ r.path = path /\ r.late = ~corsEnabled
  BY DEF r
<1>5. ~Duplicated /\ TableHolds /\ OptionsHold /\ UnderCors /\ RegistrationTypeOK
  BY DEF RegistrationInv
<1>6. Duplicated' <=> optionsHandlers[path] # Free
  BY <1>1, <1>2, <1>4, <1>5, DuplicatedAfter DEF OptionsHold, Stands
<1>7. /\ disabled' \subseteq 1..Len(routes') /\ corsEnabled' \in BOOLEAN
      /\ cors' \in CorsConfigs
  BY <1>2, <1>3, <1>5 DEF RegistrationTypeOK
<1>8. CASE optionsHandlers[path] # Free
  <2>1. panicked' = TRUE /\ UNCHANGED <<table, optionsHandlers, optionsRegistered>>
    BY <1>2, <1>8 DEF RegisterUserOptions
  <2>2. RegistrationTypeOK'
    BY <1>3, <1>5, <1>7, <2>1 DEF RegistrationTypeOK
  <2>3. QED
    BY <2>1, <2>2, <1>6, <1>8, <1>room DEF RegistrationInv
<1>9. CASE optionsHandlers[path] = Free
  <2>1. /\ panicked' = FALSE
        /\ optionsHandlers' = [optionsHandlers EXCEPT ![path] = n + 1]
        /\ table' = IF path \in optionsRegistered THEN table
                    ELSE [table EXCEPT ![<<Options, path>>] = n + 1]
        /\ optionsRegistered' = optionsRegistered \cup {path}
    BY <1>2, <1>9 DEF RegisterUserOptions, RegistrationInv, RegistrationTypeOK
  <2>2. /\ optionsHandlers' \in [Paths -> Nat] /\ optionsRegistered' \subseteq Paths
        /\ table' \in [RouteMethods \X Paths -> Int]
    <3>1. n + 1 \in Nat /\ n + 1 \in Int
      BY <1>3
    <3>2. optionsHandlers' \in [Paths -> Nat] /\ optionsRegistered' \subseteq Paths
      BY <2>1, <1>5, <3>1 DEF RegistrationTypeOK
    <3>3. table' \in [RouteMethods \X Paths -> Int]
      BY <2>1, <1>5, <3>1 DEF RegistrationTypeOK
    <3>4. QED
      BY <3>2, <3>3
  <2>3. RegistrationTypeOK'
    BY <1>3, <1>5, <1>7, <2>1, <2>2 DEF RegistrationTypeOK
  <2>4. /\ \A m \in RouteMethods, p \in Paths :
             table'[<<m, p>>] = IF m = Options /\ p = path /\ path \notin optionsRegistered
                                THEN n + 1 ELSE table[<<m, p>>]
        /\ \A p \in Paths :
             optionsHandlers'[p] = IF p = path THEN n + 1 ELSE optionsHandlers[p]
    BY <2>1, <1>5 DEF RegistrationTypeOK
  <2>5. TableHolds'
    <3> SUFFICES ASSUME NEW m \in Methods \cup {AnyMethod}, NEW p \in Paths
                 PROVE  Stands(table[<<m, p>>], m, p)'
      BY DEF TableHolds
    <3>1. m \in RouteMethods /\ m # Options
      BY DEF RouteMethods, Options, AnyMethod
    <3>2. Stands(table[<<m, p>>], m, p)
      BY <1>5 DEF TableHolds
    <3>3. table'[<<m, p>>] = table[<<m, p>>] /\ Added(m, p)' = Added(m, p)
      BY <3>1, <2>4, <1>3, <1>4
    <3>4. QED
      BY <3>2, <3>3 DEF Stands
  <2>6. OptionsHold'
    <3> SUFFICES ASSUME NEW p \in Paths
                 PROVE  /\ Stands(optionsHandlers[p], Options, p)'
                        /\ p \in optionsRegistered' <=> table'[<<Options, p>>] # Free
                        /\ table'[<<Options, p>>] # Preflight
                             => table'[<<Options, p>>] = optionsHandlers'[p]
                        /\ optionsHandlers'[p] # Free => p \in optionsRegistered'
      BY DEF OptionsHold
    <3>1. /\ Stands(optionsHandlers[p], Options, p)
          /\ p \in optionsRegistered <=> table[<<Options, p>>] # Free
          /\ table[<<Options, p>>] # Preflight => table[<<Options, p>>] = optionsHandlers[p]
          /\ optionsHandlers[p] # Free => p \in optionsRegistered
      BY <1>5 DEF OptionsHold
    <3>2. Options \in RouteMethods
      BY DEF RouteMethods
    <3>3. CASE p = path
      <4>1. optionsHandlers'[p] = n + 1 /\ Added(Options, p) = {} /\ Added(Options, p)' = {n + 1}
        BY <3>1, <3>3, <2>4, <1>3, <1>4, <1>9 DEF Stands
      <4>2. n + 1 # Free /\ n + 1 # Preflight
        BY <1>3 DEF Free, Preflight
      <4>3. table'[<<Options, p>>] = IF path \in optionsRegistered THEN table[<<Options, p>>]
                                     ELSE n + 1
        BY <3>2, <3>3, <2>4
      <4>4. path \in optionsRegistered => table[<<Options, p>>] = Preflight
        BY <3>1, <3>3, <1>9
      <4>5. QED
        BY <4>1, <4>2, <4>3, <4>4, <3>1, <3>3, <2>1 DEF Stands
    <3>4. CASE p # path
      <4>1. /\ optionsHandlers'[p] = optionsHandlers[p] /\ Added(Options, p)' = Added(Options, p)
            /\ table'[<<Options, p>>] = table[<<Options, p>>]
        BY <3>2, <3>4, <2>4, <1>3, <1>4
      <4>2. QED
        BY <4>1, <3>1, <3>4, <2>1 DEF Stands
    <3>5. QED
      BY <3>3, <3>4
  <2>7. UnderCors'
    <3> SUFFICES ASSUME NEW k \in 1..(n + 1), ~routes'[k].late
                 PROVE  corsEnabled' /\ routes'[k].path \in optionsRegistered'
      BY <1>3 DEF UnderCors
    <3>1. CASE k = n + 1
      BY <3>1, <1>2, <1>3, <1>4, <2>1
    <3>2. CASE k # n + 1
      <4>1. k \in 1..n
        BY <3>2, <1>3
      <4>2. QED
        BY <4>1, <1>2, <1>3, <1>5, <2>1 DEF UnderCors
    <3>3. QED
      BY <3>1, <3>2
  <2>8. QED
    BY <2>1, <2>3, <2>5, <2>6, <2>7, <1>6, <1>9, <1>room DEF RegistrationInv
<1>10. QED
  BY <1>8, <1>9

LEMMA RegistrationStep ==
  RegistrationInv /\ [RegistrationNext]_registrationVars => RegistrationInv'
<1> SUFFICES ASSUME RegistrationInv, [RegistrationNext]_registrationVars
             PROVE  RegistrationInv'
  OBVIOUS
<1>1. ASSUME NEW config \in CorsConfigs, WithCors(config)
      PROVE  RegistrationInv'
  <2>1. /\ corsEnabled' = TRUE /\ cors' = config
        /\ UNCHANGED <<routes, disabled, table, optionsHandlers, optionsRegistered, panicked>>
    BY <1>1 DEF WithCors
  <2>2. RegistrationTypeOK'
    BY <2>1 DEF RegistrationInv, RegistrationTypeOK
  <2>3. UNCHANGED <<Duplicated, TableHolds, OptionsHold>>
    BY <2>1 DEF Duplicated, TableHolds, OptionsHold, Stands, Added
  <2>4. UnderCors => UnderCors'
    BY <2>1 DEF UnderCors
  <2>5. QED
    BY <2>1, <2>2, <2>3, <2>4 DEF RegistrationInv
<1>2. ASSUME NEW route \in 1..Len(routes), Disable(route) \/ Enable(route)
      PROVE  RegistrationInv'
  <2>1. /\ disabled' \subseteq disabled \cup {route}
        /\ UNCHANGED <<routes, table, optionsHandlers, optionsRegistered, corsEnabled, cors,
                       panicked>>
    BY <1>2 DEF Disable, Enable
  <2>2. RegistrationTypeOK'
    BY <2>1 DEF RegistrationInv, RegistrationTypeOK
  <2>3. UNCHANGED <<Duplicated, TableHolds, OptionsHold, UnderCors>>
    BY <2>1 DEF Duplicated, TableHolds, OptionsHold, UnderCors, Stands, Added
  <2>4. QED
    BY <2>1, <2>2, <2>3 DEF RegistrationInv
<1>3. ASSUME ~panicked, NEW method \in RouteMethods, NEW path \in Paths, AddRoute(method, path)
      PROVE  RegistrationInv'
  <2>1. CASE method = Options
    BY <1>3, <2>1, UserOptionsStep
  <2>2. CASE method # Options
    <3>1. method \in Methods \cup {AnyMethod}
      BY <2>2 DEF RouteMethods
    <3>2. QED
      BY <1>3, <3>1, PreflightStep
  <2>3. QED
    BY <2>1, <2>2
<1>4. CASE UNCHANGED registrationVars
  <2>1. UNCHANGED <<RegistrationTypeOK, Duplicated, UnderCors>>
    BY <1>4 DEF registrationVars, RegistrationTypeOK, Duplicated, UnderCors
  <2>2. UNCHANGED <<TableHolds, OptionsHold>>
    BY <1>4 DEF registrationVars, TableHolds, OptionsHold, Stands, Added
  <2>3. QED
    BY <1>4, <2>1, <2>2 DEF registrationVars, RegistrationInv
<1>5. QED
  BY <1>1, <1>2, <1>3, <1>4 DEF RegistrationNext

LEMMA RegistrationStart == RegistrationInit => RegistrationInv
<1> SUFFICES ASSUME RegistrationInit PROVE RegistrationInv
  OBVIOUS
<1>1. routes = <<>> /\ Len(routes) = 0 /\ 1..Len(routes) = {}
  BY DEF RegistrationInit
<1>2. RegistrationTypeOK
  <2>1. routes \in Seq([method : RouteMethods, path : Paths, late : BOOLEAN])
    BY <1>1
  <2>2. /\ table \in [RouteMethods \X Paths -> Int] /\ optionsHandlers \in [Paths -> Nat]
    BY DEF RegistrationInit, Free
  <2>3. QED
    BY <1>1, <2>1, <2>2 DEF RegistrationInit, RegistrationTypeOK
<1>3. ~Duplicated /\ UnderCors
  BY <1>1 DEF Duplicated, UnderCors
<1>4. \A m, p : Added(m, p) = {}
  BY <1>1 DEF Added
<1>5. \A m \in RouteMethods, p \in Paths : table[<<m, p>>] = Free
  BY DEF RegistrationInit
<1>6. TableHolds /\ OptionsHold
  BY <1>4, <1>5 DEF RegistrationInit, TableHolds, OptionsHold, Stands, RouteMethods, Free, Preflight
<1>7. QED
  BY <1>1, <1>2, <1>3, <1>6, RegistrationAssumption DEF RegistrationInit, RegistrationInv

-----------------------------------------------------------------------------
(* What a request gets, in a state of the invariant. *)

LEMMA OriginResolved ==
  ASSUME RegistrationInv, NEW origin
  PROVE  /\ origin = None => ResolveOrigin(origin).value = None
         /\ ResolveOrigin(origin).value = None => ~ResolveOrigin(origin).credentials
         /\ ResolveOrigin(origin).credentials => Named(origin)
<1> USE RegistrationAssumption
<1> DEFINE matching == {k \in 1..Len(cors.entries) : Matches(cors.entries[k], origin)}
           k == CHOOSE n \in matching : \A l \in matching : n <= l
           first == cors.entries[k]
<1>1. /\ cors.entries \in Seq(Entries) /\ cors.credentials \in BOOLEAN
      /\ cors.methods \in SUBSET Methods
  BY DEF RegistrationInv, RegistrationTypeOK
<1>2. ResolveOrigin(origin) =
        IF origin = None \/ matching = {} THEN [value |-> None, credentials |-> FALSE]
        ELSE IF first.kind = "any" THEN [value |-> AnyMethod, credentials |-> FALSE]
        ELSE [value |-> origin, credentials |-> cors.credentials]
  BY DEF ResolveOrigin
<1>3. matching # {} => k \in matching
  <2>1. matching \in SUBSET Nat
    BY <1>1
  <2> HIDE DEF matching
  <2>2. QED
    BY <2>1, LeastChosen
<1>4. ASSUME matching # {}, first.kind # "any"
      PROVE  Named(origin)
  <2>1. k \in 1..Len(cors.entries) /\ Matches(first, origin)
    BY <1>3, <1>4
  <2> HIDE DEF k
  <2>2. QED
    BY <2>1, <1>4 DEF Matches, Named
<1> HIDE DEF matching, first
<1>5. AnyMethod # None
  BY DEF AnyMethod, None
<1>6. QED
  BY <1>2, <1>4, <1>5

\* A request that is not a preflight is answered by the route that handles it.
LEMMA PlainAnswered ==
  ASSUME NEW k, NEW req, ~IsPreflight(req)
  PROVE  RouteHandler(k, req).by = IF k \in disabled THEN Free ELSE k
BY DEF RouteHandler, CORSHandler, WriteHeaders, Plain

LEMMA OwnersAdded ==
  ASSUME NEW path
  PROVE  OptionsOwners(path) = IF Added(Options, path) # {} THEN Added(Options, path)
                               ELSE Added(AnyMethod, path)
BY DEF OptionsOwners, OnPath, Added

\* The only element of a set is the least.
LEMMA OnlyChosen ==
  ASSUME NEW k \in Nat
  PROVE  (CHOOSE n \in {k} : \A l \in {k} : n <= l) = k
OBVIOUS

\* A plain OPTIONS request is handled by its owner, or is nobody's.
LEMMA PlainOptions ==
  ASSUME RegistrationInv, ~panicked, NEW req \in Requests,
         req.method = Options, req.wants = None, NEW k \in OptionsOwners(req.path)
  PROVE  Answer(req).by = IF k \in disabled THEN Free ELSE k
<1> USE RegistrationAssumption
<1> DEFINE p == req.path
           h == Handler(Options, p)
           anys == {l \in OnPath(p) : routes[l].method = AnyMethod}
<1>1. p \in Paths /\ ~IsPreflight(req)
  BY DEF Requests, IsPreflight
<1>2. /\ Stands(optionsHandlers[p], Options, p)
      /\ Stands(table[<<AnyMethod, p>>], AnyMethod, p)
      /\ table[<<Options, p>>] # Preflight => table[<<Options, p>>] = optionsHandlers[p]
      /\ p \in optionsRegistered <=> table[<<Options, p>>] # Free
      /\ optionsHandlers[p] # Free => p \in optionsRegistered
  BY <1>1 DEF RegistrationInv, TableHolds, OptionsHold
<1>3. k \in Nat /\ k # Free /\ k # Preflight
  <2>1. Len(routes) \in Nat /\ k \in 1..Len(routes)
    BY DEF RegistrationInv, RegistrationTypeOK, OptionsOwners, OnPath
  <2>2. QED
    BY <2>1 DEF Free, Preflight
<1>4. anys = Added(AnyMethod, p)
  BY DEF Added, OnPath
<1>5. /\ optionsHandlers[p] # Free => optionsHandlers[p] = k
      /\ optionsHandlers[p] = Free =>
           Added(AnyMethod, p) = {k} /\ table[<<AnyMethod, p>>] = k
  <2>1. k \in IF Added(Options, p) # {} THEN Added(Options, p) ELSE Added(AnyMethod, p)
    BY OwnersAdded
  <2>2. CASE optionsHandlers[p] # Free
    BY <2>1, <2>2, <1>2 DEF Stands
  <2>3. CASE optionsHandlers[p] = Free
    <3>1. k \in Added(AnyMethod, p)
      BY <2>1, <2>3, <1>2 DEF Stands
    <3>2. QED
      BY <3>1, <2>3, <1>2 DEF Stands
  <2>4. QED
    BY <2>2, <2>3
<1>6. RouteHandler(k, req).by = IF k \in disabled THEN Free ELSE k
  BY <1>1, PlainAnswered
<1>7. Answer(req) = IF h = Free THEN Plain(Free)
                    ELSE IF h = Preflight THEN PreflightHandler(req)
                    ELSE RouteHandler(h, req)
  BY DEF Answer
<1>8. CASE table[<<Options, p>>] = Preflight
  <2>1. h = Preflight /\ Preflight # Free
    BY <1>8 DEF Handler, Preflight, Free
  <2>2. PreflightHandler(req) = RouteHandler(k, req)
    <3>1. CASE optionsHandlers[p] # Free
      BY <3>1, <1>5 DEF PreflightHandler
    <3>2. CASE optionsHandlers[p] = Free
      <4>1. anys = {k} /\ (CHOOSE n \in {k} : \A l \in {k} : n <= l) = k
        BY <3>2, <1>3, <1>4, <1>5, OnlyChosen
      <4>2. PreflightHandler(req) = RouteHandler(CHOOSE n \in anys : \A l \in anys : n <= l, req)
        <5>1. anys # {}
          BY <4>1
        <5>2. QED
          BY <5>1, <3>2 DEF PreflightHandler
      <4> HIDE DEF anys
      <4>3. QED
        BY <4>1, <4>2
    <3>3. QED
      BY <3>1, <3>2
  <2>3. QED
    BY <2>1, <2>2, <1>6, <1>7
<1>9. CASE table[<<Options, p>>] # Preflight
  <2>1. h = k
    BY <1>2, <1>5, <1>9 DEF Handler
  <2>2. QED
    BY <2>1, <1>3, <1>6, <1>7
<1>10. QED
  BY <1>8, <1>9

LEMMA NoneWritten ==
  ASSUME NEW by
  PROVE  Plain(by).allow = None /\ Plain(by).credentials = FALSE
BY DEF Plain

LEMMA HeadersWritten ==
  ASSUME NEW by, NEW req, NEW allowed, NEW listed
  PROVE  /\ WriteHeaders(by, req, allowed, listed).allow = allowed.value
         /\ WriteHeaders(by, req, allowed, listed).credentials = allowed.credentials
BY DEF WriteHeaders

\* The preflight of a request that a route added under CORS will serve.
LEMMA TruePreflight ==
  ASSUME RegistrationInv, ~panicked, NEW k \in (1..Len(routes)) \ disabled,
         NEW req \in Requests,
         req.path = routes[k].path, req.wants = None, req.method \in Methods,
         Handler(req.method, req.path) = k, ~routes[k].late,
         optionsHandlers[req.path] \notin disabled
  PROVE  LET preflight == Answer([req EXCEPT !.method = Options, !.wants = req.method])
             actual    == Answer(req)
         IN  /\ preflight.allow = actual.allow
             /\ preflight.credentials = actual.credentials
             /\ actual.credentials => Named(req.origin)
             /\ actual.allow # None /\ (cors.methods = {} \/ req.method \in cors.methods)
                  => req.method \in preflight.methods
<1> USE RegistrationAssumption
<1> DEFINE p == req.path
           m == req.method
           pre == [req EXCEPT !.method = Options, !.wants = m]
           allowed == ResolveOrigin(req.origin)
           h == Handler(Options, p)
           served == UNION {IF routes[j].method = AnyMethod THEN Methods \cup {Options}
                            ELSE {routes[j].method} : j \in OnPath(p)}
<1>1. /\ p \in Paths /\ m # Options /\ m # None /\ ~IsPreflight(req)
      /\ pre.method = Options /\ pre.path = p /\ pre.origin = req.origin /\ pre.wants = m
      /\ IsPreflight(pre)
  BY DEF Requests, IsPreflight
<1>2. /\ p \in optionsRegistered /\ corsEnabled /\ table[<<Options, p>>] # Free
      /\ table[<<Options, p>>] # Preflight => table[<<Options, p>>] = optionsHandlers[p]
      /\ Stands(table[<<m, p>>], m, p) /\ Stands(table[<<AnyMethod, p>>], AnyMethod, p)
  BY <1>1 DEF RegistrationInv, TableHolds, OptionsHold, UnderCors
<1>3. k # Free /\ k # Preflight
  BY DEF RegistrationInv, RegistrationTypeOK, Free, Preflight
<1>4. Answer(req) = IF allowed.value = None THEN Plain(k)
                    ELSE WriteHeaders(k, req, allowed, cors.methods)
  <2>1. Answer(req) = RouteHandler(k, req)
    BY <1>3 DEF Answer
  <2>2. QED
    BY <2>1, <1>1, <1>2 DEF RouteHandler, CORSHandler
<1>5. /\ allowed.value = None => ~allowed.credentials
      /\ allowed.credentials => Named(req.origin)
  BY OriginResolved
<1>6. Answer(req).allow = allowed.value /\ Answer(req).credentials = allowed.credentials
  <2>1. allowed.value = None => allowed.credentials = FALSE
    BY DEF ResolveOrigin
  <2> HIDE DEF allowed
  <2>2. CASE allowed.value = None
    <3>1. Answer(req) = Plain(k)
      BY <1>4, <2>2
    <3>2. QED
      BY <3>1, <2>1, <2>2, NoneWritten
  <2>3. CASE allowed.value # None
    <3>1. Answer(req) = WriteHeaders(k, req, allowed, cors.methods)
      BY <1>4, <2>3
    <3>2. QED
      BY <3>1, HeadersWritten
  <2>4. QED
    BY <2>2, <2>3
<1>7. Answer(req).credentials => Named(req.origin)
  BY <1>5, <1>6
<1> DEFINE Told ==
      /\ Answer(pre).allow = allowed.value
      /\ Answer(pre).credentials = allowed.credentials
      /\ allowed.value # None /\ (cors.methods = {} \/ m \in cors.methods)
           => m \in Answer(pre).methods
<1>8. ASSUME table[<<Options, p>>] = Preflight
      PROVE  Told
  <2>1. Answer(pre) = PreflightHandler(pre)
    BY <1>1, <1>8 DEF Answer, Handler, Preflight, Free
  <2>2. m \in served
    <3>1. k \in OnPath(p)
      BY DEF OnPath
    <3>2. routes[k].method \in {m, AnyMethod}
      BY <1>2, <1>3 DEF Handler, Stands, Added
    <3>3. QED
      BY <3>1, <3>2
  <2> DEFINE written == WriteHeaders(Preflight, pre, allowed, cors.methods)
  <2>3. Answer(pre) =
          IF allowed.value = None THEN Plain(Free)
          ELSE [written EXCEPT
                  !.methods = IF cors.methods # {} THEN cors.methods ELSE served]
    <3> HIDE DEF pre, served
    <3>1. QED
      BY <2>1, <1>1 DEF PreflightHandler, served
  <2>0. allowed.value = None => allowed.credentials = FALSE
    BY DEF ResolveOrigin
  <2> HIDE DEF served, pre, allowed
  <2>4. CASE allowed.value = None
    <3>1. Answer(pre) = Plain(Free)
      BY <2>3, <2>4
    <3>2. QED
      BY <3>1, <2>4, <2>0, NoneWritten
  <2>5. CASE allowed.value # None
    <3> DEFINE methods == IF cors.methods # {} THEN cors.methods ELSE served
    <3> HIDE DEF methods
    <3>1. Answer(pre) = [written EXCEPT !.methods = methods]
      BY <2>3, <2>5 DEF methods
    <3>2. /\ Answer(pre).allow = allowed.value
          /\ Answer(pre).credentials = allowed.credentials
          /\ Answer(pre).methods = methods
      BY <3>1 DEF WriteHeaders
    <3>3. QED
      BY <3>2, <2>2 DEF methods
  <2>6. QED
    BY <2>4, <2>5
<1>9. ASSUME table[<<Options, p>>] # Preflight
      PROVE  Told
  <2> DEFINE o == optionsHandlers[p]
  <2>1. Answer(pre) = RouteHandler(o, pre)
    BY <1>1, <1>2, <1>9 DEF Answer, Handler
  <2>2. Answer(pre) = IF allowed.value = None THEN Plain(Preflight)
                      ELSE WriteHeaders(Preflight, pre, allowed, cors.methods)
    <3> HIDE DEF pre
    <3>1. QED
      BY <2>1, <1>1, <1>2 DEF RouteHandler, CORSHandler
  <2>0. allowed.value = None => allowed.credentials = FALSE
    BY DEF ResolveOrigin
  <2> HIDE DEF pre, allowed
  <2>3. CASE allowed.value = None
    <3>1. Answer(pre) = Plain(Preflight)
      BY <2>2, <2>3
    <3>2. QED
      BY <3>1, <2>3, <2>0, NoneWritten
  <2>4. CASE allowed.value # None
    <3>1. Answer(pre) = WriteHeaders(Preflight, pre, allowed, cors.methods)
      BY <2>2, <2>4
    <3>2. /\ Answer(pre).allow = allowed.value
          /\ Answer(pre).credentials = allowed.credentials
      BY <3>1, HeadersWritten
    <3>3. cors.methods = {} \/ m \in cors.methods => m \in Answer(pre).methods
      BY <3>1, <1>1 DEF WriteHeaders
    <3>4.. QED
      BY <3>2, <3>3
  <2>5. QED
    BY <2>3, <2>4
<1>10. Told
  BY <1>8, <1>9
<1> HIDE DEF allowed
<1>11. QED
  BY <1>6, <1>7, <1>10

(* Whatever the order of the calls: okapi's own preflight handlers take    *)
(* nothing from the application's routes, and a preflight says what the    *)
(* response to the request will.                                           *)
THEOREM OptionsAlwaysAnswered == RegistrationSpec => []OptionsAnswered
<1>1. RegistrationInv => OptionsAnswered
  <2> SUFFICES ASSUME RegistrationInv PROVE OptionsAnswered
    OBVIOUS
  <2>1. panicked <=> Duplicated
    BY DEF RegistrationInv
  <2>2. ASSUME ~panicked, NEW req \in Requests, req.method = Options, req.wants = None,
               NEW k \in OptionsOwners(req.path) \ disabled
        PROVE  Answer(req).by = k
    BY <2>2, PlainOptions
  <2>3. ASSUME ~panicked, NEW k \in (1..Len(routes)) \ disabled, NEW req \in Requests,
               req.path = routes[k].path, req.wants = None, req.method \in Methods,
               Handler(req.method, req.path) = k, ~routes[k].late,
               optionsHandlers[req.path] \notin disabled
        PROVE  LET preflight == Answer([req EXCEPT !.method = Options, !.wants = req.method])
                   actual    == Answer(req)
               IN  /\ preflight.allow = actual.allow
                   /\ preflight.credentials = actual.credentials
                   /\ actual.credentials => Named(req.origin)
                   /\ actual.allow # None /\ (cors.methods = {} \/ req.method \in cors.methods)
                        => req.method \in preflight.methods
    BY <2>3, TruePreflight
  <2>4. QED
    BY <2>1, <2>2, <2>3 DEF OptionsAnswered
<1>2. QED
  BY <1>1, RegistrationStart, RegistrationStep, PTL DEF RegistrationSpec

-----------------------------------------------------------------------------
(* The document. *)

\* What the loop makes of the operations at route n.
AtRoute(items, n) ==
  IF n \in disabled THEN items
  ELSE IF routes[n].method = AnyMethod THEN SetAnyMethodOperations(items, n)
  ELSE SetOperation(items, n)

NoOperations == [slot \in Slots \X Paths |-> Free]

\* f is the loop up to route n.
Loops(n, f) ==
  f = [i \in 0..n |-> IF i = 0 THEN NoOperations ELSE AtRoute(f[i - 1], i)]

LEMMA LoopEnds == \A n \in Nat : \E f : Loops(n, f)
<1> DEFINE S == {n \in Nat : \E f : Loops(n, f)}
<1>1. 0 \in S
  <2> DEFINE f == [i \in 0..0 |-> NoOperations]
  <2>1. f = [i \in 0..0 |-> IF i = 0 THEN NoOperations ELSE AtRoute(f[i - 1], i)]
    OBVIOUS
  <2> HIDE DEF f
  <2>2. Loops(0, f)
    BY <2>1 DEF Loops
  <2>3. QED
    BY <2>2
<1>2. ASSUME NEW n \in S PROVE n + 1 \in S
  <2>1. PICK f : Loops(n, f)
    OBVIOUS
  <2> DEFINE g == [i \in 0..(n + 1) |-> IF i \in 0..n THEN f[i] ELSE AtRoute(f[n], n + 1)]
  <2>2. ASSUME NEW i \in 0..(n + 1)
        PROVE  g[i] = IF i = 0 THEN NoOperations ELSE AtRoute(g[i - 1], i)
    <3>1. CASE i \in 0..n
      <4>1. f[i] = IF i = 0 THEN NoOperations ELSE AtRoute(f[i - 1], i)
        BY <2>1, <3>1 DEF Loops
      <4>2. i = 0 \/ i - 1 \in 0..n
        BY <3>1
      <4>3. QED
        BY <3>1, <4>1, <4>2
    <3>2. CASE i \notin 0..n
      <4>1. i = n + 1 /\ i # 0 /\ i - 1 \in 0..n /\ i - 1 = n
        BY <3>2
      <4>2. QED
        BY <3>2, <4>1
    <3>3. QED
      BY <3>1, <3>2
  <2>3. g = [i \in 0..(n + 1) |-> g[i]]
    OBVIOUS
  <2> HIDE DEF g
  <2>4. g = [i \in 0..(n + 1) |-> IF i = 0 THEN NoOperations ELSE AtRoute(g[i - 1], i)]
    BY <2>2, <2>3
  <2>5. Loops(n + 1, g)
    BY <2>4 DEF Loops
  <2>6. QED
    BY <2>5
<1> HIDE DEF S
<1>3. S = Nat
  <2>1. S \in SUBSET Nat
    BY DEF S
  <2>2. QED
    BY <1>1, <1>2, <2>1, Induction
<1>4. QED
  BY <1>3 DEF S

\* The recursion defines DocumentedUpTo.
LEMMA LoopUnfolds ==
  \A n \in 0..MaxRoutes :
    DocumentedUpTo[n] = IF n = 0 THEN NoOperations ELSE AtRoute(DocumentedUpTo[n - 1], n)
<1> USE RegistrationAssumption
<1> DEFINE E(f) == f = [n \in 0..MaxRoutes |->
                          IF n = 0 THEN [slot \in Slots \X Paths |-> Free]
                          ELSE IF n \in disabled THEN f[n - 1]
                          ELSE IF routes[n].method = AnyMethod
                               THEN SetAnyMethodOperations(f[n - 1], n)
                          ELSE SetOperation(f[n - 1], n)]
<1>1. DocumentedUpTo = CHOOSE f : E(f)
  BY DEF DocumentedUpTo
<1>2. PICK F : Loops(MaxRoutes, F)
  BY LoopEnds
<1>3. E(F)
  BY <1>2 DEF Loops, AtRoute, NoOperations
<1> HIDE DEF E
<1>4. E(DocumentedUpTo)
  BY <1>1, <1>3
<1>5. QED
  BY <1>4 DEF E, AtRoute, NoOperations

\* The routes among the first n that are documented for a method and path.
Shown(method, path, n) == {k \in 1..n : k \in Added(method, path) /\ k \notin disabled}

\* An operation is that of a route for its method, else of an Any route.
Fits(v, method, path, n) ==
  /\ Shown(method, path, n) # {} => v \in Shown(method, path, n)
  /\ Shown(method, path, n) = {} =>
       IF method \notin NotForAny /\ Shown(AnyMethod, path, n) # {}
       THEN v \in Shown(AnyMethod, path, n) ELSE v = Free

LEMMA LoopFits ==
  ASSUME RegistrationInv
  PROVE  \A slot \in Slots \X Paths : Fits(Documented[slot], slot[1], slot[2], Len(routes))
<1> USE RegistrationAssumption, ApiPathsAssumption
<1>1. Len(routes) \in Nat /\ Len(routes) <= MaxRoutes
  BY DEF RegistrationInv, RegistrationTypeOK
<1> DEFINE D(n) == DocumentedUpTo[n]
           Holding(n) == /\ DOMAIN D(n) = Slots \X Paths
                         /\ \A slot \in Slots \X Paths : Fits(D(n)[slot], slot[1], slot[2], n)
           S == {n \in Nat : n <= Len(routes) => Holding(n)}
<1>2. 0 \in S
  <2>1. D(0) = NoOperations
    BY <1>1, LoopUnfolds
  <2>2. \A m, p : Shown(m, p, 0) = {}
    BY DEF Shown
  <2>3. Holding(0)
    BY <2>1, <2>2 DEF NoOperations, Fits
  <2>4. QED
    BY <2>3
<1>3. ASSUME NEW n \in S PROVE n + 1 \in S
  <2> DEFINE k == n + 1
  <2>1. SUFFICES ASSUME k <= Len(routes) PROVE Holding(k)
    OBVIOUS
  <2>2. n \in Nat /\ k \in 1..Len(routes) /\ k \in 0..MaxRoutes /\ k # 0 /\ k - 1 = n
    BY <2>1, <1>1
  <2>3. Holding(n)
    BY <2>1, <2>2, <1>1
  <2>4. D(k) = AtRoute(D(n), k)
    BY <2>2, LoopUnfolds
  <2> DEFINE r == routes[k]
  <2>5. \A m, p : Shown(m, p, k) = Shown(m, p, n) \cup
                    (IF k \notin disabled /\ m = r.method /\ p = r.path THEN {k} ELSE {})
    BY <2>2 DEF Shown, Added
  <2>6. /\ k # Free /\ \A m, p : Free \notin Shown(m, p, n)
    BY <2>2 DEF Free, Shown
  <2> HIDE DEF D, k, r
  <2>7. DOMAIN D(k) = Slots \X Paths
    BY <2>3, <2>4 DEF AtRoute, SetAnyMethodOperations, SetOperation
  <2>8. ASSUME NEW slot \in Slots \X Paths
        PROVE  Fits(D(k)[slot], slot[1], slot[2], k)
    <3> DEFINE m == slot[1]
               p == slot[2]
    <3>1. m \in Slots /\ p \in Paths /\ slot = <<m, p>> /\ m # AnyMethod
      BY DEF Options, AnyMethod
    <3>2. Fits(D(n)[slot], m, p, n)
      BY <2>3
    <3> HIDE DEF m, p
    <3>3. CASE k \in disabled
      BY <3>2, <3>3, <2>4, <2>5 DEF AtRoute, Fits, m, p
    <3>4. CASE k \notin disabled /\ r.method = AnyMethod
      <4>1. D(k)[slot] = IF m \in AnyRouteMethods /\ p = r.path /\ D(n)[slot] = Free
                         THEN k ELSE D(n)[slot]
        BY <2>3, <2>4, <3>4 DEF AtRoute, SetAnyMethodOperations, m, p, r
      <4>2. m \in AnyRouteMethods <=> m \notin NotForAny
        BY <3>1 DEF AnyRouteMethods
      <4>3. Shown(m, p, k) = Shown(m, p, n)
        BY <2>5, <3>1, <3>4
      <4>4. Shown(AnyMethod, p, k) =
              Shown(AnyMethod, p, n) \cup (IF p = r.path THEN {k} ELSE {})
        BY <2>5, <3>4
      <4>5. Fits(D(k)[slot], m, p, k)
        BY <4>1, <4>2, <4>3, <4>4, <3>2, <2>6 DEF Fits
      <4>6. QED
        BY <4>5 DEF m, p
    <3>5. CASE k \notin disabled /\ r.method # AnyMethod
      <4>1. D(k)[slot] = IF slot = <<r.method, r.path>> THEN k ELSE D(n)[slot]
        BY <2>3, <2>4, <3>5 DEF AtRoute, SetOperation, r
      <4>2. Shown(AnyMethod, p, k) = Shown(AnyMethod, p, n)
        BY <2>5, <3>5
      <4>3. Shown(m, p, k) =
              Shown(m, p, n) \cup (IF m = r.method /\ p = r.path THEN {k} ELSE {})
        BY <2>5, <3>5
      <4>4. slot = <<r.method, r.path>> <=> m = r.method /\ p = r.path
        BY <3>1
      <4>5. Fits(D(k)[slot], m, p, k)
        BY <4>1, <4>2, <4>3, <4>4, <3>2 DEF Fits
      <4>6. QED
        BY <4>5 DEF m, p
    <3>6. QED
      BY <3>3, <3>4, <3>5
  <2>9. QED
    BY <2>7, <2>8
<1>4. S = Nat
  <2> HIDE DEF Holding
  <2>1. S \in SUBSET Nat
    OBVIOUS
  <2> HIDE DEF S
  <2>2. QED
    BY <1>2, <1>3, <2>1, Induction
<1>5. Holding(Len(routes))
  <2> HIDE DEF Holding
  <2>1. QED
    BY <1>1, <1>4
<1>6. QED
  BY <1>5 DEF Documented

\* Without a route for OPTIONS and without an Any route, nobody answers OPTIONS.
LEMMA NobodysOptions ==
  ASSUME RegistrationInv, ~panicked, NEW path \in Paths,
         Added(Options, path) = {}, Added(AnyMethod, path) = {},
         NEW req, req.method = Options, req.path = path, req.origin = None, req.wants = None
  PROVE  Answer(req).by = Free
<1>1. /\ optionsHandlers[path] = Free /\ table[<<AnyMethod, path>>] = Free
      /\ table[<<Options, path>>] # Preflight => table[<<Options, path>>] = Free
  BY ZenonT(40) DEF RegistrationInv, TableHolds, OptionsHold, Stands
<1>2. CASE table[<<Options, path>>] = Preflight
  <2>1. Answer(req) = PreflightHandler(req)
    BY <1>2 DEF Answer, Handler, Preflight, Free
  <2>2. {l \in OnPath(path) : routes[l].method = AnyMethod} = {}
    BY DEF Added, OnPath
  <2>3. ResolveOrigin(None).value = None
    BY OriginResolved
  <2>4. PreflightHandler(req) = Plain(Free)
    BY <1>1, <2>2, <2>3 DEF PreflightHandler
  <2>5. QED
    BY <2>1, <2>4 DEF Plain
<1>3. CASE table[<<Options, path>>] # Preflight
  BY <1>1, <1>3 DEF Answer, Handler, Plain
<1>4. QED
  BY <1>2, <1>3

(* For every order in which routes are added, for one method or any:       *)
(* every operation of the document is that of the route that serves it,    *)
(* and every method served is documented.                                  *)
THEOREM DocumentsAlwaysServing == RegistrationSpec => []DocumentsServing
<1> USE RegistrationAssumption, ApiPathsAssumption
<1>1. ASSUME RegistrationInv, ~panicked, NEW m \in Slots, NEW p \in Paths
      PROVE  LET by == Answer([method |-> m, path |-> p, origin |-> None, wants |-> None]).by
             IN  \/ Documented[<<m, p>>] = by
                 \/ by = Free /\ Handler(m, p) \in disabled
                 \/ m \in NotForAny /\ Documented[<<m, p>>] = Free
                    /\ routes[by].method = AnyMethod
  <2> DEFINE req == [method |-> m, path |-> p, origin |-> None, wants |-> None]
             v == Documented[<<m, p>>]
             n == Len(routes)
             h == Handler(m, p)
  <2>1. /\ req.method = m /\ req.path = p /\ req.origin = None /\ req.wants = None
        /\ ~IsPreflight(req) /\ req \in Requests
    BY DEF IsPreflight, Requests
  <2>2. Fits(v, m, p, n)
    <3>1. <<m, p>> \in Slots \X Paths /\ <<m, p>>[1] = m /\ <<m, p>>[2] = p
      OBVIOUS
    <3>2. QED
      BY <1>1, <3>1, LoopFits
  <2>3. /\ n \in Nat
        /\ \A x, y : Shown(x, y, n) = Added(x, y) \ disabled
        /\ \A x, y : Free \notin Added(x, y) /\ Preflight \notin Added(x, y)
    BY <1>1 DEF RegistrationInv, RegistrationTypeOK, Shown, Added, Free, Preflight
  <2> HIDE DEF req, v, n
  <2>4. CASE m # Options
    <3>1. m \in Methods
      BY <2>4
    <3>2. Stands(table[<<m, p>>], m, p) /\ Stands(table[<<AnyMethod, p>>], AnyMethod, p)
      BY <1>1, <3>1 DEF RegistrationInv, TableHolds
    <3>3. CASE h = Free
      <4>1. Added(m, p) = {} /\ Added(AnyMethod, p) = {}
        BY <3>2, <3>3 DEF Handler, Stands
      <4>2. v = Free
        BY <4>1, <2>2, <2>3 DEF Fits
      <4>3. Answer(req).by = Free
        BY <3>3, <2>1 DEF Answer, Plain
      <4>4. QED
        BY <4>2, <4>3 DEF v, req
    <3>4. CASE h # Free
      <4>1. \/ Added(m, p) = {h}
            \/ Added(m, p) = {} /\ Added(AnyMethod, p) = {h}
        BY <3>2, <3>4 DEF Handler, Stands
      <4>2. h # Preflight
        BY <4>1, <2>3
      <4>3. Answer(req).by = IF h \in disabled THEN Free ELSE h
        BY <4>2, <3>4, <2>1, PlainAnswered DEF Answer
      <4>4. CASE h \in disabled
        BY <4>3, <4>4 DEF req
      <4>5. CASE h \notin disabled
        <5>1. CASE Added(m, p) = {h}
          <6>1. v = h
            BY <5>1, <4>5, <2>2, <2>3 DEF Fits
          <6>2. QED
            BY <6>1, <4>3, <4>5 DEF v, req
        <5>2. CASE Added(m, p) = {} /\ Added(AnyMethod, p) = {h}
          <6>1. v = IF m \notin NotForAny THEN h ELSE Free
            BY <5>2, <4>5, <2>2, <2>3 DEF Fits
          <6>2. routes[h].method = AnyMethod
            BY <5>2 DEF Added
          <6>3. QED
            BY <6>1, <6>2, <4>3, <4>5 DEF v, req
        <5>3. QED
          BY <5>1, <5>2, <4>1
      <4>6. QED
        BY <4>4, <4>5
    <3>5. QED
      BY <3>3, <3>4
  <2>5. CASE m = Options
    <3>1. Stands(optionsHandlers[p], Options, p) /\ Stands(table[<<AnyMethod, p>>], AnyMethod, p)
      BY <1>1 DEF RegistrationInv, TableHolds, OptionsHold
    <3>2. m \in NotForAny
      BY <2>5 DEF NotForAny
    <3>3. CASE Added(Options, p) = {} /\ Added(AnyMethod, p) = {}
      <4>1. v = Free
        BY <3>2, <3>3, <2>2, <2>3, <2>5 DEF Fits
      <4>2. Answer(req).by = Free
        BY <1>1, <3>3, <2>1, <2>5, NobodysOptions
      <4>3. QED
        BY <4>1, <4>2 DEF v, req
    <3>4. ASSUME NEW k, Added(Options, p) = {k}
          PROVE  v = Answer(req).by
      <4>1. k \in OptionsOwners(p)
        BY <3>4, OwnersAdded
      <4>2. Answer(req).by = IF k \in disabled THEN Free ELSE k
        BY <4>1, <1>1, <2>1, <2>5, PlainOptions
      <4>3. v = IF k \in disabled THEN Free ELSE k
        BY <3>2, <3>4, <2>2, <2>3, <2>5 DEF Fits
      <4>4. QED
        BY <4>2, <4>3
    <3>5. ASSUME NEW k, Added(Options, p) = {}, Added(AnyMethod, p) = {k}
          PROVE  v = Free /\ (Answer(req).by = Free \/ routes[Answer(req).by].method = AnyMethod)
      <4>1. k \in OptionsOwners(p)
        BY <3>5, OwnersAdded
      <4>2. Answer(req).by = IF k \in disabled THEN Free ELSE k
        BY <4>1, <1>1, <2>1, <2>5, PlainOptions
      <4>3. v = Free
        BY <3>2, <3>5, <2>2, <2>3, <2>5 DEF Fits
      <4>4. routes[k].method = AnyMethod
        BY <3>5 DEF Added
      <4>5. QED
        BY <4>2, <4>3, <4>4
    <3>6. \/ Added(Options, p) = {} /\ Added(AnyMethod, p) = {}
          \/ \E k : Added(Options, p) = {k}
          \/ Added(Options, p) = {} /\ \E k : Added(AnyMethod, p) = {k}
      BY <3>1 DEF Stands
    <3>7. QED
      BY <3>2, <3>3, <3>4, <3>5, <3>6 DEF v, req
  <2>6. QED
    BY <2>4, <2>5
<1>2. RegistrationInv => DocumentsServing
  <2> SUFFICES ASSUME RegistrationInv, ~panicked, NEW slot \in Slots \X Paths
               PROVE  LET by == Answer([method |-> slot[1], path |-> slot[2],
                                        origin |-> None, wants |-> None]).by
                      IN  \/ Documented[slot] = by
                          \/ by = Free /\ Handler(slot[1], slot[2]) \in disabled
                          \/ slot[1] \in NotForAny /\ Documented[slot] = Free
                             /\ routes[by].method = AnyMethod
    BY DEF DocumentsServing
  <2>1. slot[1] \in Slots /\ slot[2] \in Paths /\ slot = <<slot[1], slot[2]>>
    OBVIOUS
  <2>2. QED
    BY <1>1, <2>1
<1>3. QED
  BY <1>2, RegistrationStart, RegistrationStep, PTL DEF RegistrationSpec
=============================================================================
