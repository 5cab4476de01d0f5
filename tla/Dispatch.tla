------------------------------ MODULE Dispatch ------------------------------
(***************************************************************************)
(* How a request goes through the middlewares of an Okapi instance:        *)
(* routeHandler, buildHandlers, isDisabled and handleChainError (okapi.go),*)
(* the middleware lists and the disabled flags of groups (group.go), and   *)
(* Context.Next and writeResponse (context.go).                            *)
(*                                                                         *)
(* Middlewares and handlers are the application's: a chain element may     *)
(* reply, write directly, call Next, fail or return, in any order.         *)
(* Groups and routes are disabled and enabled while requests are served,   *)
(* and the check that reads those flags reads one flag a step.             *)
(***************************************************************************)
EXTENDS Naturals, Sequences, FiniteSets, Functions

CONSTANTS
  App,       (* the instance, which holds the global middlewares            *)
  Groups,
  Routes,
  Up,        (* route.group and group.parent; App where those are nil       *)
  Mws,       (* middlewares, each registered at most once                   *)
  StdMws,    (* those registered through UseMiddleware                      *)
  Requests,
  Toggled,   (* the groups and routes toggled while requests are served     *)
  RouteOf,   (* the route the router picks for each request                 *)
  MaxNext    (* bound on the calls of Next (or next.ServeHTTP) by one       *)
             (* element of one request's chain                              *)

Holders == {App} \cup Groups \cup Routes

ASSUME DispatchAssumption ==
  /\ App \notin Groups \cup Routes
  /\ Groups \cap Routes = {}
  /\ Mws \cap Routes = {}
  /\ StdMws \subseteq Mws
  /\ Up \in [Groups \cup Routes -> Groups \cup {App}]
  \* A group's parent is set once, when it is made: no group is above itself.
  /\ \A S \in SUBSET Groups : S # {} => \E g \in S : Up[g] \notin S
  /\ Toggled \subseteq Groups \cup Routes
  /\ RouteOf \in [Requests -> Routes]
  /\ MaxNext \in Nat \ {0}

VARIABLES
  mws,       \* o.middlewares, g.middlewares and r.middlewares
  disabled,  \* the groups and routes whose disabled flag is set
  pc,        \* where each request is: "idle", "check", "build", "run", "done"
  at,        \* the node whose flag it reads next
  chain,     \* c.handlers: middlewares and, last, the route for its handler
  index,     \* c.index + 1: the last element entered
  stack,     \* the elements being executed: position, calls of Next so far
  status,    \* what the response was committed with, or "none"
  body,      \* the replies written to it: kind and position of the writer
  owed,      \* history: the middlewares its route had when it arrived
  blockers,  \* history: disabled on its path ever since it arrived
  opened,    \* history: was nothing on its path disabled at some moment
  handled,   \* history: how often the route's handler was entered
  failed     \* history: did an element return an error nobody passes on

config == <<mws, disabled>>
response == <<status, body>>
history == <<owed, blockers, opened>>
vars == <<config, pc, at, chain, index, stack, response, history,
          handled, failed>>

\* The type of every variable.
TypeOK ==
  /\ mws \in [Holders -> Seq(Mws)]
  /\ disabled \subseteq Groups \cup Routes
  /\ pc \in [Requests -> {"idle", "check", "build", "run", "done"}]
  /\ at \in [Requests -> Groups \cup Routes]
  /\ chain \in [Requests -> Seq(Mws \cup Routes)]
  /\ index \in [Requests -> Nat]
  /\ stack \in [Requests -> Seq([pos : Nat, nexts : Nat])]
  /\ status \in [Requests -> {"none", "replied", "notFound", "error"}]
  /\ body \in [Requests -> SUBSET ({"reply", "text", "notFound", "generic"}
                                     \X Nat)]
  /\ owed \in [Requests -> SUBSET Mws]
  /\ blockers \in [Requests -> SUBSET (Groups \cup Routes)]
  /\ opened \in [Requests -> BOOLEAN]
  /\ handled \in [Requests -> Nat]
  /\ failed \in [Requests -> BOOLEAN]

\* o.middlewares starts with the access log, which calls Next and returns its
\* result: it is left out.
Init ==
  /\ mws = [h \in Holders |-> <<>>]
  /\ disabled = {}
  /\ pc = [q \in Requests |-> "idle"]
  /\ at = RouteOf
  /\ chain = [q \in Requests |-> <<>>]
  /\ index = [q \in Requests |-> 0]
  /\ stack = [q \in Requests |-> <<>>]
  /\ status = [q \in Requests |-> "none"]
  /\ body = [q \in Requests |-> {}]
  /\ owed = [q \in Requests |-> {}]
  /\ blockers = [q \in Requests |-> {}]
  /\ opened = [q \in Requests |-> FALSE]
  /\ handled = [q \in Requests |-> 0]
  /\ failed = [q \in Requests |-> FALSE]

-----------------------------------------------------------------------------
(* Groups, routes and their middlewares.                                   *)

\* The nodes whose flags decide on a route: itself and the groups above it,
\* the least set of nodes that has it and the parent of each of its groups.
Path(n) ==
  {m \in Groups \cup Routes :
     \A S \in SUBSET (Groups \cup Routes) :
       n \in S /\ (\A x \in S : Up[x] \in S \cup {App}) => m \in S}

\* Group.chainMiddlewares: those of the ancestors, outermost first, then own.
ChainMiddlewares[g \in Holders] ==
  IF g = App THEN <<>> ELSE ChainMiddlewares[Up[g]] \o mws[g]

\* Bug: only the route's own group counts.
BuildHandlersOwnGroup(r) == mws[App] \o mws[Up[r]] \o Append(mws[r], r)

\* Route.buildHandlers.
BuildHandlers(r) ==
  mws[App] \o ChainMiddlewares[Up[r]] \o Append(mws[r], r)

\* Okapi.Use, Group.Use, Route.Use and their UseMiddleware variants.  Nothing
\* synchronises them with a dispatch that reads the lists: that overlap is a
\* data race and is left out; every other overlap with requests is here.
Use(h, m) ==
  /\ \A q \in Requests : pc[q] # "build"
  /\ \A g \in Holders : m \notin Range(mws[g])
  /\ mws' = [mws EXCEPT ![h] = Append(@, m)]
  /\ UNCHANGED <<disabled, pc, at, chain, index, stack, response, history,
                 handled, failed>>

\* What the toggles do to the history of requests being checked.
Observe ==
  /\ blockers' = [q \in Requests |-> blockers[q] \cap disabled']
  /\ opened' = [q \in Requests |-> opened[q] \/
       (pc[q] = "check" /\ Path(RouteOf[q]) \cap disabled' = {})]

Disable(n) ==
  /\ n \notin disabled
  /\ disabled' = disabled \cup {n}
  /\ Observe
  /\ UNCHANGED <<mws, pc, at, chain, index, stack, response, owed, handled,
                 failed>>

Enable(n) ==
  /\ n \in disabled
  /\ disabled' = disabled \ {n}
  /\ Observe
  /\ UNCHANGED <<mws, pc, at, chain, index, stack, response, owed, handled,
                 failed>>

-----------------------------------------------------------------------------
(* routeHandler: the disabled check and the chain.                         *)

\* The router calls the route's handler with a new Context.
Arrive(q) ==
  LET r == RouteOf[q] IN
  /\ pc[q] = "idle"
  /\ pc' = [pc EXCEPT ![q] = "check"]
  /\ owed' = [owed EXCEPT ![q] =
                UNION {Range(mws[h]) : h \in Path(r) \cup {App}}]
  /\ blockers' = [blockers EXCEPT ![q] = Path(r) \cap disabled]
  /\ opened' = [opened EXCEPT ![q] = Path(r) \cap disabled = {}]
  /\ UNCHANGED <<config, at, chain, index, stack, response, handled, failed>>

\* Bug: only the route's own flag is read.
CheckDisabledRouteOnly(q) ==
  /\ pc[q] = "check"
  /\ \/ /\ at[q] \in disabled
        /\ pc' = [pc EXCEPT ![q] = "done"]
        /\ status' = [status EXCEPT ![q] = "notFound"]
        /\ body' = [body EXCEPT ![q] = {<<"notFound", 0>>}]
        /\ UNCHANGED at
     \/ /\ at[q] \notin disabled
        /\ pc' = [pc EXCEPT ![q] = "build"] /\ UNCHANGED at
        /\ UNCHANGED response
  /\ UNCHANGED <<config, chain, index, stack, history, handled, failed>>

\* Route.isDisabled and Group.isDisabled: one flag after the other, from the
\* route upwards; 404 at the first that is set.
CheckDisabled(q) ==
  /\ pc[q] = "check"
  /\ \/ /\ at[q] \in disabled
        /\ pc' = [pc EXCEPT ![q] = "done"]
        /\ status' = [status EXCEPT ![q] = "notFound"]
        /\ body' = [body EXCEPT ![q] = {<<"notFound", 0>>}]
        /\ UNCHANGED at
     \/ /\ at[q] \notin disabled
        /\ IF Up[at[q]] = App
           THEN pc' = [pc EXCEPT ![q] = "build"] /\ UNCHANGED at
           ELSE at' = [at EXCEPT ![q] = Up[at[q]]] /\ UNCHANGED pc
        /\ UNCHANGED response
  /\ UNCHANGED <<config, chain, index, stack, history, handled, failed>>

\* Bugs: c.index starts at 0 instead of -1; each element goes on from its own
\* position instead of from the shared index.
ContextNextTo(q, c, st, i) ==
  IF i > Len(c)
  THEN stack' = [stack EXCEPT ![q] = st] /\ UNCHANGED <<index, handled>>
  ELSE /\ index' = [index EXCEPT ![q] = i]
       /\ stack' = [stack EXCEPT ![q] = Append(st, [pos |-> i, nexts |-> 0])]
       /\ handled' = [handled EXCEPT ![q] = IF i = Len(c) THEN @ + 1 ELSE @]

ContextNextFromZero(q, c, st) ==
  ContextNextTo(q, c, st, IF index[q] = 0 THEN 2 ELSE index[q] + 1)
ContextNextByFrame(q, c, st) ==
  ContextNextTo(q, c, st, IF st = <<>> THEN 1 ELSE st[Len(st)].pos + 1)

\* Context.Next on the chain c, called with the elements st being executed:
\* enter the next element; past the end there is none.  Entering the last one
\* runs the route's handler.
ContextNext(q, c, st) ==
  LET i == index[q] + 1 IN
  IF i > Len(c)
  THEN stack' = [stack EXCEPT ![q] = st] /\ UNCHANGED <<index, handled>>
  ELSE /\ index' = [index EXCEPT ![q] = i]
       /\ stack' = [stack EXCEPT ![q] = Append(st, [pos |-> i, nexts |-> 0])]
       /\ handled' = [handled EXCEPT ![q] = IF i = Len(c) THEN @ + 1 ELSE @]

\* ctx.handlers = route.buildHandlers(), and the first ctx.Next().
BuildChain(q) ==
  /\ pc[q] = "build"
  /\ pc' = [pc EXCEPT ![q] = "run"]
  /\ chain' = [chain EXCEPT ![q] = BuildHandlers(RouteOf[q])]
  /\ ContextNext(q, BuildHandlers(RouteOf[q]), <<>>)
  /\ UNCHANGED <<config, at, response, history, failed>>

-----------------------------------------------------------------------------
(* What the element on top of the stack may do.                            *)

Top(q) == stack[q][Len(stack[q])]
Element(q, i) == chain[q][stack[q][i].pos]

CallNext(q) ==
  LET top == Len(stack[q]) IN
  /\ stack[q] # <<>>
  /\ Top(q).nexts < MaxNext
  /\ ContextNext(q, chain[q],
                 [stack[q] EXCEPT ![top].nexts = @ + 1])
  /\ UNCHANGED <<config, pc, at, chain, response, history, failed>>

\* Bug: a committed response is written again.
WriteResponseAgain(q) ==
  /\ stack[q] # <<>>
  /\ status' = [status EXCEPT ![q] = "replied"]
  /\ body' = [body EXCEPT ![q] = @ \cup {<<"reply", Top(q).pos>>}]
  /\ UNCHANGED <<config, pc, at, chain, index, stack, history, handled,
                 failed>>

\* writeResponse (JSON, Text, the Abort helpers, ...): nothing once committed.
\* When the body cannot be encoded the status is already out, and http.Error
\* writes the error's text below it.
WriteResponse(q) ==
  /\ stack[q] # <<>>
  /\ status[q] = "none"
  /\ status' = [status EXCEPT ![q] = "replied"]
  /\ \E kind \in {"reply", "text"} :
       body' = [body EXCEPT ![q] = @ \cup {<<kind, Top(q).pos>>}]
  /\ UNCHANGED <<config, pc, at, chain, index, stack, history, handled,
                 failed>>

\* A direct Write, WriteHeader or Flush on the response: the first commits
\* it.  What such writes put into the body is not recorded.
RawWrite(q) ==
  /\ stack[q] # <<>>
  /\ status[q] = "none"
  /\ status' = [status EXCEPT ![q] = "replied"]
  /\ UNCHANGED <<config, pc, at, chain, index, stack, body, history, handled,
                 failed>>

\* handleChainError: a generic 500, unless something was written.
HandleChainError(q) ==
  IF status[q] = "none"
  THEN /\ status' = [status EXCEPT ![q] = "error"]
       /\ body' = [body EXCEPT ![q] = @ \cup {<<"generic", 0>>}]
  ELSE UNCHANGED response

\* Nobody passes an error of the top element on: what called it is
\* routeHandler or the adapter around a standard middleware.
Uncaught(q) ==
  LET top == Len(stack[q]) IN top = 1 \/ Element(q, top - 1) \in StdMws

\* Bug: the adapter drops the errors of the elements it calls.
ReturnAdapterDrops(q, isErr) ==
  LET top == Len(stack[q]) IN
  /\ stack[q] # <<>>
  /\ isErr => Element(q, top) \notin StdMws
  /\ IF isErr /\ top = 1 THEN HandleChainError(q) ELSE UNCHANGED response
  /\ failed' = [failed EXCEPT ![q] = @ \/ (isErr /\ Uncaught(q))]
  /\ stack' = [stack EXCEPT ![q] = SubSeq(@, 1, top - 1)]
  /\ pc' = [pc EXCEPT ![q] = IF top = 1 THEN "done" ELSE @]
  /\ UNCHANGED <<config, at, chain, index, history, handled>>

\* The element returns.  The adapter around a standard middleware returns nil
\* and handles the errors of the elements it calls itself; any other error
\* goes to the caller, and from the first element to routeHandler.
Return(q, isErr) ==
  LET top == Len(stack[q]) IN
  /\ stack[q] # <<>>
  /\ isErr => Element(q, top) \notin StdMws
  /\ IF isErr /\ Uncaught(q) THEN HandleChainError(q)
                            ELSE UNCHANGED response
  /\ failed' = [failed EXCEPT ![q] = @ \/ (isErr /\ Uncaught(q))]
  /\ stack' = [stack EXCEPT ![q] = SubSeq(@, 1, top - 1)]
  /\ pc' = [pc EXCEPT ![q] = IF top = 1 THEN "done" ELSE @]
  /\ UNCHANGED <<config, at, chain, index, history, handled>>

-----------------------------------------------------------------------------
RequestStep(q) ==
  \/ Arrive(q) \/ CheckDisabled(q) \/ BuildChain(q) \/ CallNext(q)
  \/ WriteResponse(q) \/ RawWrite(q)
  \/ \E isErr \in BOOLEAN : Return(q, isErr)

Next ==
  \/ \E h \in Holders, m \in Mws : Use(h, m)
  \/ \E n \in Toggled : Disable(n) \/ Enable(n)
  \/ \E q \in Requests : RequestStep(q)

Spec == Init /\ [][Next]_vars

-----------------------------------------------------------------------------
(* Safety.                                                                 *)

\* The handler of q is being executed.
Handling(q) == \E i \in 1..Len(stack[q]) : stack[q][i].pos = Len(chain[q])

\* While the handler runs, it runs inside every other element of its chain,
\* in the chain's order: each of them called Next and none was left out.
\* (For MaxNext = 1: an element that calls Next again after its first call
\* was stopped further down resumes behind the element that stopped it.)
HandlerGuarded ==
  \A q \in Requests : Handling(q) =>
    /\ Len(stack[q]) = Len(chain[q])
    /\ \A i \in 1..Len(stack[q]) : stack[q][i].pos = i

Above(g, h) == g # h /\ h # App /\ (g = App \/ g \in Path(h))

\* The handler runs only inside every middleware that the instance, the
\* route and all groups above it had when the request arrived, registered
\* before the route or after it ("a group's authentication covers every
\* route in it and in its sub-groups"); and these run outermost first: global
\* ones, then each group's after its ancestors', then the route's.
GuardsHold ==
  \A q \in Requests :
    /\ Handling(q) => owed[q] \subseteq {Element(q, i) : i \in 1..Len(stack[q])}
    /\ \A i, j \in 1..(Len(chain[q]) - 1) : \A g, h \in Holders :
         i < j /\ chain[q][i] \in Range(mws[g]) /\ chain[q][j] \in Range(mws[h])
           => ~Above(h, g)

\* A request whose route, or a group above it, stays disabled from its
\* arrival on gets past the check neither at once nor by racing a toggle of
\* another flag.
DisabledIs404 ==
  \A q \in Requests : pc[q] \in {"build", "run"} => blockers[q] = {}

\* "Disable() and Enable() take effect immediately": a request is served only
\* if at some moment since it arrived nothing on its path was disabled.
ServedOnlyIfOpen ==
  \A q \in Requests : pc[q] = "build" => opened[q]

\* The handler runs at most once, however often the elements call Next.
HandlerOnce == \A q \in Requests : handled[q] <= 1

\* A committed response is final: its status stays, and neither a second
\* reply, nor an Abort, nor the error handler adds to it.
CommittedIsFinal ==
  [][\A q \in Requests : status[q] # "none" =>
       status'[q] = status[q] /\ body'[q] = body[q]]_response

\* A chain that failed is never left to net/http's implicit 200, even when a
\* standard middleware between hides the error from the elements above it.
ErrorAnswered ==
  \A q \in Requests : pc[q] = "done" /\ failed[q] => status[q] # "none"
=============================================================================
