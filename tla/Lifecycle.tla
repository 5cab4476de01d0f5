----------------------------- MODULE Lifecycle -----------------------------
(***************************************************************************)
(* Starting and stopping an Okapi instance: StartServer, StopWithContext   *)
(* and shutdownServer (okapi.go), the requests in flight while they run,   *)
(* and the Server-Sent-Events loops that watch the shutdown channel        *)
(* (context.go).                                                           *)
(*                                                                         *)
(* lifecycleMu protects the four fields o.server, o.tlsServer,             *)
(* o.baseCancel and o.shutdownCh.  Every section under the lock is one     *)
(* action, and everything between two sections is an action of its own, so *)
(* TLC interleaves any number of concurrent starts, stops and requests.    *)
(*                                                                         *)
(* net/http's Server is external: ListenAndServe, Shutdown and the accept  *)
(* loop are modelled by the contract the code relies on.                   *)
(***************************************************************************)
EXTENDS Naturals, FiniteSets

CONSTANTS
  Starters,      (* goroutines that call Start or StartServer, once each    *)
  Stoppers,      (* goroutines that call StopWithContext, once each         *)
  Deadlined,     (* the stoppers whose context may expire                   *)
  Requests,      (* requests clients may send                               *)
  Streams,       (* the requests whose handler runs an SSE stream           *)
  HttpServers,   (* http.Server objects for the plain listener              *)
  DefaultServer, (* the one initConfig stores in o.server                   *)
  TlsServer,     (* the one initConfig stores in o.tlsServer                *)
  StartWith,     (* what each starter passes to StartServer, or OwnField    *)
  OwnField,      (* Start(): pass whatever o.server holds at the call       *)
  EarlyStop,     (* may StopWithContext be called before a run is published *)
  WithTls,       (* withTlsServer /\ tlsServerConfig # nil                  *)
  NoServer,      (* a nil *http.Server                                      *)
  NoRun          (* no run yet: nil baseCancel, nil shutdownCh              *)

Listeners == HttpServers \cup {TlsServer}

ASSUME LifecycleAssumption ==
  /\ Deadlined \subseteq Stoppers
  /\ Streams \subseteq Requests
  /\ DefaultServer \in HttpServers
  /\ TlsServer \notin HttpServers
  /\ NoServer \notin Listeners
  /\ OwnField \notin Listeners \cup {NoServer}
  /\ NoRun \notin Starters
  /\ StartWith \in [Starters -> HttpServers \cup {OwnField}]
  /\ WithTls \in BOOLEAN
  /\ EarlyStop \in BOOLEAN

(***************************************************************************)
(* A call of StartServer makes one base context and one shutdown channel.  *)
(* Both are named by the starter that made them, its "run".                *)
(***************************************************************************)
VARIABLES
  server,      \* o.server
  tlsServer,   \* o.tlsServer
  baseCancel,  \* o.baseCancel: the run whose base context it cancels
  shutdownCh,  \* o.shutdownCh: the run whose channel it is
  cancelled,   \* the runs whose base context is cancelled
  closes,      \* how many times each run's shutdown channel was closed
  startPc,     \* where each starter is in StartServer
  startSrv,    \* its argument "server"
  startTls,    \* its local "tlsServer"
  bgPc,        \* the goroutine that serves HTTP beside the TLS listener
  stopPc,      \* where each stopper is in shutdownServer
  stopKind,    \* which of its two calls that is: "http" or "tls"
  stopHttp,    \* its local "server"
  stopTls,     \* its local "tlsServer"
  stopCancel,  \* its local "baseCancel"
  stopErr,     \* whether Shutdown returned an error
  baseOf,      \* server.BaseContext of each http.Server
  serving,     \* the base context an accepting listener hands out, or NoRun
  inShutdown,  \* the http.Servers on which Shutdown was called
  reqPc,       \* where each request's handler is
  reqOn,       \* the listener it came in on
  reqCtx,      \* the base context its context derives from
  reqCh        \* the shutdown channel its SSE loop selects on

fields == <<server, tlsServer, baseCancel, shutdownCh>>
signals == <<cancelled, closes>>
starters == <<startPc, startSrv, startTls, bgPc>>
stopArgs == <<stopKind, stopHttp, stopTls, stopCancel, stopErr>>
stoppers == <<stopPc, stopArgs>>
net == <<baseOf, serving, inShutdown>>
reqArgs == <<reqOn, reqCtx, reqCh>>
requests == <<reqPc, reqArgs>>
vars == <<fields, signals, starters, stoppers, net, requests>>

Runs == Starters \cup {NoRun}

\* The type of every variable.
TypeOK ==
  /\ server \in HttpServers \cup {NoServer}
  /\ tlsServer \in {TlsServer, NoServer}
  /\ baseCancel \in Runs
  /\ shutdownCh \in Runs
  /\ cancelled \subseteq Starters
  /\ closes \in [Starters -> Nat]
  /\ startPc \in [Starters -> {"idle", "entered", "prepared", "spawn",
        "listen", "listenTls", "serving", "returned", "panic"}]
  /\ startSrv \in [Starters -> HttpServers \cup {NoServer}]
  /\ startTls \in [Starters -> {TlsServer, NoServer}]
  /\ bgPc \in [Starters ->
        {"none", "listen", "serving", "returned", "panic"}]
  /\ stopPc \in [Stoppers -> {"idle", "close", "shutdown", "drain", "cancel",
        "clear", "done", "error"}]
  /\ stopKind \in [Stoppers -> {"http", "tls"}]
  /\ stopHttp \in [Stoppers -> HttpServers \cup {NoServer}]
  /\ stopTls \in [Stoppers -> {TlsServer, NoServer}]
  /\ stopCancel \in [Stoppers -> Runs]
  /\ stopErr \in [Stoppers -> BOOLEAN]
  /\ baseOf \in [Listeners -> Runs]
  /\ serving \in [Listeners -> Runs]
  /\ inShutdown \subseteq Listeners
  /\ reqPc \in [Requests -> {"idle", "running", "streaming", "done"}]
  /\ reqOn \in [Requests -> Listeners \cup {NoServer}]
  /\ reqCtx \in [Requests -> Runs]
  /\ reqCh \in [Requests -> Runs]

Init ==
  /\ server = DefaultServer
  /\ tlsServer = TlsServer
  /\ baseCancel = NoRun
  /\ shutdownCh = NoRun
  /\ cancelled = {}
  /\ closes = [s \in Starters |-> 0]
  /\ startPc = [s \in Starters |-> "idle"]
  /\ startSrv = [s \in Starters |-> NoServer]
  /\ startTls = [s \in Starters |-> NoServer]
  /\ bgPc = [s \in Starters |-> "none"]
  /\ stopPc = [t \in Stoppers |-> "idle"]
  /\ stopKind = [t \in Stoppers |-> "http"]
  /\ stopHttp = [t \in Stoppers |-> NoServer]
  /\ stopTls = [t \in Stoppers |-> NoServer]
  /\ stopCancel = [t \in Stoppers |-> NoRun]
  /\ stopErr = [t \in Stoppers |-> FALSE]
  /\ baseOf = [x \in Listeners |-> NoRun]
  /\ serving = [x \in Listeners |-> NoRun]
  /\ inShutdown = {}
  /\ reqPc = [r \in Requests |-> "idle"]
  /\ reqOn = [r \in Requests |-> NoServer]
  /\ reqCtx = [r \in Requests |-> NoRun]
  /\ reqCh = [r \in Requests |-> NoRun]

-----------------------------------------------------------------------------
(* net/http, external.                                                     *)

\* Requests not yet answered on listener x: what Shutdown waits for.
Active(x) ==
  {r \in Requests : reqPc[r] \in {"running", "streaming"} /\ reqOn[r] = x}

\* ListenAndServe binds x and reads its BaseContext, unless the server was
\* already told to shut down or the address is taken.
CanServe(x) == x \notin inShutdown /\ serving[x] = NoRun
Serve(x) == serving' = [serving EXCEPT ![x] = baseOf[x]]

\* A connection accepted on x delivers request r with the base context.
Accept(r, x) ==
  /\ reqPc[r] = "idle"
  /\ serving[x] # NoRun
  /\ reqPc' = [reqPc EXCEPT ![r] = "running"]
  /\ reqOn' = [reqOn EXCEPT ![r] = x]
  /\ reqCtx' = [reqCtx EXCEPT ![r] = serving[x]]
  /\ UNCHANGED <<reqCh, fields, signals, starters, stoppers, net>>

-----------------------------------------------------------------------------
(* Start and StartServer.                                                  *)

StartGoes(s, from, to) ==
  /\ startPc[s] = from
  /\ startPc' = [startPc EXCEPT ![s] = to]

\* The call: Start evaluates o.server without taking lifecycleMu.
StartCall(s) ==
  /\ StartGoes(s, "idle", "entered")
  /\ startSrv' = [startSrv EXCEPT ![s] =
                    IF StartWith[s] = OwnField THEN server ELSE StartWith[s]]
  /\ UNCHANGED <<startTls, bgPc, fields, signals, stoppers, net, requests>>

\* ValidateAddr(server.Addr) dereferences the argument; then the run's base
\* context is made and stored in the server.
StartPrepare(s) ==
  /\ \/ /\ startSrv[s] = NoServer
        /\ StartGoes(s, "entered", "panic")
        /\ UNCHANGED baseOf
     \/ /\ startSrv[s] # NoServer
        /\ StartGoes(s, "entered", "prepared")
        /\ baseOf' = [baseOf EXCEPT ![startSrv[s]] = s]
  /\ UNCHANGED <<startSrv, startTls, bgPc, serving, inShutdown,
                 fields, signals, stoppers, requests>>

\* Under lifecycleMu: publish the fields Stop reads and take o.tlsServer.
\* printServerInfo, still under the lock, dereferences o.tlsServer.
StartPublish(s) ==
  /\ server' = startSrv[s]
  /\ baseCancel' = s
  /\ shutdownCh' = s
  /\ startTls' = [startTls EXCEPT ![s] = tlsServer]
  /\ StartGoes(s, "prepared",
               IF ~WithTls THEN "listen"
               ELSE IF tlsServer = NoServer THEN "panic" ELSE "spawn")
  /\ UNCHANGED <<tlsServer, startSrv, bgPc, signals, stoppers, net, requests>>

\* With a second listener: HTTP is served by a goroutine, and the TLS server
\* is given the same base context.
StartSpawn(s) ==
  /\ StartGoes(s, "spawn", "listenTls")
  /\ bgPc' = [bgPc EXCEPT ![s] = "listen"]
  /\ baseOf' = [baseOf EXCEPT ![startTls[s]] = baseOf[startSrv[s]]]
  /\ UNCHANGED <<startSrv, startTls, serving, inShutdown,
                 fields, signals, stoppers, requests>>

\* The listener the starter itself serves on.
Own(s) == IF WithTls THEN startTls[s] ELSE startSrv[s]

\* ListenAndServe(TLS): serve, or return ErrServerClosed or a bind error.
StartListen(s) ==
  /\ startPc[s] \in {"listen", "listenTls"}
  /\ \/ /\ CanServe(Own(s))
        /\ Serve(Own(s))
        /\ startPc' = [startPc EXCEPT ![s] = "serving"]
     \/ /\ startPc' = [startPc EXCEPT ![s] = "returned"]
        /\ UNCHANGED serving
  /\ UNCHANGED <<startSrv, startTls, bgPc, baseOf, inShutdown,
                 fields, signals, stoppers, requests>>

\* Serve returns ErrServerClosed as soon as Shutdown is called.
StartReturn(s) ==
  /\ Own(s) \in inShutdown
  /\ StartGoes(s, "serving", "returned")
  /\ UNCHANGED <<startSrv, startTls, bgPc,
                 fields, signals, stoppers, net, requests>>

\* The HTTP goroutine: ErrServerClosed ends it quietly, any other error of
\* ListenAndServe is a panic.
BgListen(s) ==
  /\ bgPc[s] = "listen"
  /\ \/ /\ CanServe(startSrv[s])
        /\ Serve(startSrv[s])
        /\ bgPc' = [bgPc EXCEPT ![s] = "serving"]
     \/ /\ bgPc' = [bgPc EXCEPT ![s] = IF startSrv[s] \in inShutdown
                                       THEN "returned" ELSE "panic"]
        /\ UNCHANGED serving
  /\ UNCHANGED <<startPc, startSrv, startTls, baseOf, inShutdown,
                 fields, signals, stoppers, requests>>

BgReturn(s) ==
  /\ bgPc[s] = "serving"
  /\ startSrv[s] \in inShutdown
  /\ bgPc' = [bgPc EXCEPT ![s] = "returned"]
  /\ UNCHANGED <<startPc, startSrv, startTls,
                 fields, signals, stoppers, net, requests>>

-----------------------------------------------------------------------------
(* StopWithContext and shutdownServer.                                     *)

StopGoes(t, from, to) ==
  /\ stopPc[t] = from
  /\ stopPc' = [stopPc EXCEPT ![t] = to]

\* The server the current shutdownServer call is about.
Target(t) == IF stopKind[t] = "http" THEN stopHttp[t] ELSE stopTls[t]

\* Bug: StopWithContext forgets the HTTPS server.
ReturnsNilForgetsTls(t, from) ==
  StopGoes(t, from, "done") /\ UNCHANGED stopKind

\* shutdownServer returned nil: the HTTPS server is next, if there is one.
ShutdownServerReturnsNil(t, from) ==
  IF stopKind[t] = "http" /\ WithTls
  THEN /\ StopGoes(t, from, "close")
       /\ stopKind' = [stopKind EXCEPT ![t] = "tls"]
  ELSE StopGoes(t, from, "done") /\ UNCHANGED stopKind

\* Bug: the snapshot also clears the fields, so other stops find no server.
StopCallTakes(t) ==
  /\ EarlyStop \/ shutdownCh # NoRun
  /\ StopGoes(t, "idle", "close")
  /\ stopHttp' = [stopHttp EXCEPT ![t] = server]
  /\ stopTls' = [stopTls EXCEPT ![t] = tlsServer]
  /\ server' = NoServer
  /\ tlsServer' = NoServer
  /\ UNCHANGED <<stopKind, stopCancel, stopErr, baseCancel, shutdownCh,
                 signals, starters, net, requests>>

\* Under lifecycleMu: snapshot both servers.
StopCall(t) ==
  /\ EarlyStop \/ shutdownCh # NoRun
  /\ StopGoes(t, "idle", "close")
  /\ stopHttp' = [stopHttp EXCEPT ![t] = server]
  /\ stopTls' = [stopTls EXCEPT ![t] = tlsServer]
  /\ UNCHANGED <<stopKind, stopCancel, stopErr,
                 fields, signals, starters, net, requests>>

\* shutdownServer on a nil server returns nil at once.
StopSkip(t) ==
  /\ Target(t) = NoServer
  /\ ShutdownServerReturnsNil(t, "close")
  /\ UNCHANGED <<stopHttp, stopTls, stopCancel, stopErr,
                 fields, signals, starters, net, requests>>

\* Bugs: the channel is closed again, or not at all, or the base context is
\* cancelled with it, before Shutdown.
StopCloseWith(t, channels, contexts) ==
  /\ Target(t) # NoServer
  /\ StopGoes(t, "close", "shutdown")
  /\ closes' = [c \in Starters |->
                  IF c \in channels THEN closes[c] + 1 ELSE closes[c]]
  /\ cancelled' = cancelled \cup (contexts \ {NoRun})
  /\ stopCancel' = [stopCancel EXCEPT ![t] = baseCancel]
  /\ UNCHANGED <<stopKind, stopHttp, stopTls, stopErr,
                 fields, starters, net, requests>>

StopCloseAgain(t) == StopCloseWith(t, {shutdownCh}, {})
StopCloseSilent(t) == StopCloseWith(t, {}, {})
StopCloseCancels(t) ==
  StopCloseWith(t, {c \in {shutdownCh} \ {NoRun} : closes[c] = 0}, {baseCancel})

\* Under lifecycleMu: close the shutdown channel unless it is nil or already
\* closed, and read o.baseCancel.
StopClose(t) ==
  /\ Target(t) # NoServer
  /\ StopGoes(t, "close", "shutdown")
  /\ closes' = [c \in Starters |->
       IF c = shutdownCh /\ closes[c] = 0 THEN closes[c] + 1 ELSE closes[c]]
  /\ stopCancel' = [stopCancel EXCEPT ![t] = baseCancel]
  /\ UNCHANGED <<stopKind, stopHttp, stopTls, stopErr,
                 fields, cancelled, starters, net, requests>>

\* server.Shutdown stops the listener at once and then waits.
StopShutdown(t) ==
  /\ StopGoes(t, "shutdown", "drain")
  /\ inShutdown' = inShutdown \cup {Target(t)}
  /\ serving' = [serving EXCEPT ![Target(t)] = NoRun]
  /\ UNCHANGED <<stopArgs, baseOf, fields, signals, starters, requests>>

\* Bug: Close instead of Shutdown, which does not wait.
StopClosed(t) ==
  /\ StopGoes(t, "drain", "cancel")
  /\ UNCHANGED <<stopArgs, fields, signals, starters, net, requests>>

\* Shutdown returns nil once no request is left on the server ...
StopDrained(t) ==
  /\ Active(Target(t)) = {}
  /\ StopGoes(t, "drain", "cancel")
  /\ UNCHANGED <<stopArgs, fields, signals, starters, net, requests>>

\* Bug: Shutdown is not given the caller's context.
StopExpiredNever(t) == FALSE

\* ... or the context's error when that expires first.
StopExpired(t) ==
  /\ t \in Deadlined
  /\ Active(Target(t)) # {}
  /\ StopGoes(t, "drain", "cancel")
  /\ stopErr' = [stopErr EXCEPT ![t] = TRUE]
  /\ UNCHANGED <<stopKind, stopHttp, stopTls, stopCancel,
                 fields, signals, starters, net, requests>>

\* Bug: baseCancel is called without a nil check.
StopCancelUnchecked(t) ==
  /\ StopGoes(t, "cancel", IF stopErr[t] THEN "error" ELSE "clear")
  /\ cancelled' = cancelled \cup {stopCancel[t]}
  /\ UNCHANGED <<stopArgs, fields, closes, starters, net, requests>>

\* Whatever Shutdown returned, the base context is cancelled; an error ends
\* StopWithContext there.
StopCancel(t) ==
  /\ StopGoes(t, "cancel", IF stopErr[t] THEN "error" ELSE "clear")
  /\ cancelled' = cancelled \cup ({stopCancel[t]} \ {NoRun})
  /\ UNCHANGED <<stopArgs, fields, closes, starters, net, requests>>

\* Under lifecycleMu: forget the server that was shut down.
StopClear(t) ==
  /\ ShutdownServerReturnsNil(t, "clear")
  /\ IF stopKind[t] = "http"
     THEN server' = NoServer /\ UNCHANGED tlsServer
     ELSE tlsServer' = NoServer /\ UNCHANGED server
  /\ UNCHANGED <<stopHttp, stopTls, stopCancel, stopErr, baseCancel,
                 shutdownCh, signals, starters, net, requests>>

-----------------------------------------------------------------------------
(* Handlers.                                                               *)

\* SSEStream reads the shutdown channel under lifecycleMu, then loops.
StreamOpen(r) ==
  /\ r \in Streams
  /\ reqPc[r] = "running"
  /\ reqPc' = [reqPc EXCEPT ![r] = "streaming"]
  /\ reqCh' = [reqCh EXCEPT ![r] = shutdownCh]
  /\ UNCHANGED <<reqOn, reqCtx, fields, signals, starters, stoppers, net>>

\* The loop sees its shutdown channel closed, or the request context (which
\* derives from the run's base context) cancelled.
StreamSignalled(r) == \/ reqCh[r] # NoRun /\ closes[reqCh[r]] > 0
                      \/ reqCtx[r] \in cancelled

StreamEnd(r) ==
  /\ reqPc[r] = "streaming"
  /\ StreamSignalled(r)
  /\ reqPc' = [reqPc EXCEPT ![r] = "done"]
  /\ UNCHANGED <<reqArgs, fields, signals, starters, stoppers, net>>

\* Any other end: the handler answers, the producer closes the message
\* channel, a write fails, or the client leaves.
Finish(r) ==
  /\ reqPc[r] \in {"running", "streaming"}
  /\ reqPc' = [reqPc EXCEPT ![r] = "done"]
  /\ UNCHANGED <<reqArgs, fields, signals, starters, stoppers, net>>

-----------------------------------------------------------------------------
StartStep(s) ==
  \/ StartCall(s) \/ StartPrepare(s) \/ StartPublish(s) \/ StartSpawn(s)
  \/ StartListen(s) \/ StartReturn(s) \/ BgListen(s) \/ BgReturn(s)

StopStep(t) ==
  \/ StopSkip(t) \/ StopClose(t) \/ StopShutdown(t) \/ StopDrained(t)
  \/ StopExpired(t) \/ StopCancel(t) \/ StopClear(t)

RequestStep(r) ==
  \/ \E x \in Listeners : Accept(r, x)
  \/ StreamOpen(r) \/ StreamEnd(r) \/ Finish(r)

\* A Go panic nobody recovers ends the process.
NoPanic == \A s \in Starters : startPc[s] # "panic" /\ bgPc[s] # "panic"

Next ==
  /\ NoPanic
  /\ \/ \E s \in Starters : StartStep(s)
     \/ \E t \in Stoppers : StopCall(t) \/ StopStep(t)
     \/ \E r \in Requests : RequestStep(r)

Spec == Init /\ [][Next]_vars

(***************************************************************************)
(* Fairness.  A stop that began goes on (its goroutine is scheduled and    *)
(* its deadline, if it has one, expires); an SSE handler reaches its loop  *)
(* and the loop's select notices a signal.  Nothing makes a client send a  *)
(* request, nor an ordinary handler answer.                                *)
(***************************************************************************)
Fairness ==
  /\ \A t \in Stoppers : WF_vars(NoPanic /\ StopStep(t))
  /\ \A r \in Streams : WF_vars(NoPanic /\ (StreamOpen(r) \/ StreamEnd(r)))

FairSpec == Spec /\ Fairness
-----------------------------------------------------------------------------
(* Safety.                                                                 *)

\* A shutdown channel is closed at most once, however many stops overlap: a
\* second close would panic (the select in shutdownServer guards it).
CloseOnce == \A c \in Starters : closes[c] <= 1

\* Requests on the plain listener are drained before their contexts are
\* cancelled, unless some stop's deadline expired ("Stop ... drain in-flight
\* requests before cancelling their contexts", docs tls-https.md).
DrainedFirst(x) ==
  \A r \in Active(x) :
    reqCtx[r] \in cancelled => \E t \in Stoppers : stopErr[t]

DrainBeforeCancel == \A x \in HttpServers : DrainedFirst(x)

\* The same promise for requests on the HTTPS listener.
HttpsDrainBeforeCancel == DrainedFirst(TlsServer)

\* No listener hands out a base context that is already cancelled: a request
\* the server still accepts is never born cancelled.
NoStillbornRequests == \A x \in Listeners : serving[x] \notin cancelled

\* When a StopWithContext returned nil, whichever of several concurrent stops
\* it was, nothing listens and nothing is in flight.
StopMeansDrained ==
  (\E t \in Stoppers : stopPc[t] = "done")
     => \A x \in Listeners : serving[x] = NoRun /\ Active(x) = {}

\* A listener that accepts is one that the next StopWithContext will find, or
\* one that a stop under way holds and has yet to shut down: the unconditional
\* "o.server = nil" of one stop never hides a live server from the others.
ServingIsStoppable ==
  \A x \in Listeners : serving[x] # NoRun =>
    \/ x \in {server, tlsServer}
    \/ \E t \in Stoppers : /\ stopPc[t] \in {"close", "shutdown"}
                           /\ x = Target(t)

\* Start never dereferences a server field that a concurrent Stop set to nil
\* ("Start and Stop are safe to call from different goroutines").
NoNilServer == \A s \in Starters : startPc[s] # "panic"

-----------------------------------------------------------------------------
(* Liveness, under FairSpec.                                               *)

\* Once Shutdown was called on its server, an open SSE stream ends ("Active
\* SSE streams end as soon as shutdown begins"), whether or not its producer
\* ever closes the message channel.
StreamsEndOnShutdown ==
  \A r \in Streams :
    (reqPc[r] = "streaming" /\ reqOn[r] \in inShutdown)
       ~> (reqPc[r] = "done" \/ ~NoPanic)

\* A stop returns if its context has a deadline, or if the ordinary handlers
\* answer: streams never hold a shutdown up, nor does another stop.
OrdinaryAnswered ==
  \A r \in Requests \ Streams : reqPc[r] \in {"idle", "done"}

StopReturns ==
  \A t \in Stoppers :
    (t \in Deadlined \/ <>[]OrdinaryAnswered)
      => (stopPc[t] # "idle"
            ~> (stopPc[t] \in {"done", "error"} \/ ~NoPanic))
=============================================================================
