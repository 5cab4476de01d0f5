-------------------------- MODULE LifecycleProofs --------------------------
(***************************************************************************)
(* Theorems about Lifecycle, for any number of starters, stoppers and      *)
(* requests, and about RunServer, which runs on it.                        *)
(***************************************************************************)
EXTENDS RunServer, TLAPS

\* Past the point where it was tested, a server a goroutine holds is not nil.
LocalsOK ==
  /\ \A s \in Starters :
       startPc[s] \in {"prepared", "spawn", "listen", "listenTls"}
         => startSrv[s] # NoServer
  /\ \A t \in Stoppers :
       stopPc[t] \in {"shutdown", "drain", "cancel", "clear"}
         => Target(t) # NoServer

(* Every variable keeps its type, and shutdownServer never calls Shutdown  *)
(* on a nil server.                                                        *)
THEOREM TypeCorrect == Spec => [](TypeOK /\ LocalsOK)
<1>1. Init => TypeOK /\ LocalsOK
  BY LifecycleAssumption DEF Init, TypeOK, LocalsOK, Target, Runs, Listeners
<1>2. TypeOK /\ LocalsOK /\ [Next]_vars => (TypeOK /\ LocalsOK)'
  <2> SUFFICES ASSUME TypeOK, LocalsOK, [Next]_vars PROVE (TypeOK /\ LocalsOK)'
    OBVIOUS
  <2> USE LifecycleAssumption
      DEF TypeOK, LocalsOK, Target, Runs, Listeners, fields, signals,
          starters, stopArgs, stoppers, net, reqArgs, requests
  <2>1. ASSUME NEW s \in Starters, StartCall(s) PROVE (TypeOK /\ LocalsOK)'
    BY <2>1 DEF StartCall, StartGoes
  <2>2. ASSUME NEW s \in Starters, StartPrepare(s) PROVE (TypeOK /\ LocalsOK)'
    BY <2>2 DEF StartPrepare, StartGoes
  <2>3. ASSUME NEW s \in Starters, StartPublish(s) PROVE (TypeOK /\ LocalsOK)'
    BY <2>3 DEF StartPublish, StartGoes
  <2>4. ASSUME NEW s \in Starters, StartSpawn(s) PROVE (TypeOK /\ LocalsOK)'
    <3>1. baseOf[startSrv[s]] \in Runs
      BY <2>4 DEF StartSpawn, StartGoes
    <3>2. QED
      BY <2>4, <3>1 DEF StartSpawn, StartGoes
  <2>5. ASSUME NEW s \in Starters, StartListen(s) PROVE (TypeOK /\ LocalsOK)'
    BY <2>5 DEF StartListen, Serve, CanServe, Own
  <2>6. ASSUME NEW s \in Starters, StartReturn(s) PROVE (TypeOK /\ LocalsOK)'
    BY <2>6 DEF StartReturn, StartGoes
  <2>7. ASSUME NEW s \in Starters, BgListen(s) PROVE (TypeOK /\ LocalsOK)'
    BY <2>7 DEF BgListen, Serve, CanServe
  <2>8. ASSUME NEW s \in Starters, BgReturn(s) PROVE (TypeOK /\ LocalsOK)'
    BY <2>8 DEF BgReturn
  <2>9. ASSUME NEW t \in Stoppers, StopCall(t) PROVE (TypeOK /\ LocalsOK)'
    BY <2>9 DEF StopCall, StopGoes
  <2>10. ASSUME NEW t \in Stoppers, StopSkip(t) PROVE (TypeOK /\ LocalsOK)'
    BY <2>10 DEF StopSkip, StopGoes, ShutdownServerReturnsNil
  <2>11. ASSUME NEW t \in Stoppers, StopClose(t) PROVE (TypeOK /\ LocalsOK)'
    BY <2>11 DEF StopClose, StopGoes
  <2>12. ASSUME NEW t \in Stoppers, StopShutdown(t) PROVE (TypeOK /\ LocalsOK)'
    BY <2>12 DEF StopShutdown, StopGoes
  <2>13. ASSUME NEW t \in Stoppers, StopDrained(t) PROVE (TypeOK /\ LocalsOK)'
    BY <2>13 DEF StopDrained, StopGoes
  <2>14. ASSUME NEW t \in Stoppers, StopExpired(t) PROVE (TypeOK /\ LocalsOK)'
    BY <2>14 DEF StopExpired, StopGoes
  <2>15. ASSUME NEW t \in Stoppers, StopCancel(t) PROVE (TypeOK /\ LocalsOK)'
    BY <2>15 DEF StopCancel, StopGoes
  <2>16. ASSUME NEW t \in Stoppers, StopClear(t) PROVE (TypeOK /\ LocalsOK)'
    BY <2>16 DEF StopClear, StopGoes, ShutdownServerReturnsNil
  <2>17. ASSUME NEW r \in Requests, NEW x \in Listeners, Accept(r, x)
       PROVE  (TypeOK /\ LocalsOK)'
    BY <2>17 DEF Accept
  <2>18. ASSUME NEW r \in Requests, StreamOpen(r) PROVE (TypeOK /\ LocalsOK)'
    BY <2>18 DEF StreamOpen
  <2>19. ASSUME NEW r \in Requests, StreamEnd(r) PROVE (TypeOK /\ LocalsOK)'
    BY <2>19 DEF StreamEnd
  <2>20. ASSUME NEW r \in Requests, Finish(r) PROVE (TypeOK /\ LocalsOK)'
    BY <2>20 DEF Finish
  <2>21. CASE UNCHANGED vars
    BY <2>21 DEF vars
  <2>22. QED
    BY <2>1, <2>2, <2>3, <2>4, <2>5, <2>6, <2>7, <2>8, <2>9, <2>10, <2>11,
       <2>12, <2>13, <2>14, <2>15, <2>16, <2>17, <2>18, <2>19, <2>20, <2>21
    DEF Next, StartStep, StopStep, RequestStep
<1>3. QED
  BY <1>1, <1>2, PTL DEF Spec

(* No shutdown channel is closed twice, with one listener or two, and      *)
(* however many starts and stops overlap.                                  *)
THEOREM ClosedOnce == Spec => []CloseOnce
<1>1. Init => CloseOnce
  BY DEF Init, CloseOnce
<1>2. TypeOK /\ CloseOnce /\ [Next]_vars => CloseOnce'
  <2> SUFFICES ASSUME TypeOK, CloseOnce, [Next]_vars PROVE CloseOnce'
    OBVIOUS
  <2>1. ASSUME NEW t \in Stoppers, StopClose(t) PROVE CloseOnce'
    BY <2>1 DEF StopClose, CloseOnce, TypeOK
  <2>2. ASSUME NEW s \in Starters, StartStep(s) PROVE closes' = closes
    BY <2>2 DEF StartStep, StartCall, StartPrepare, StartPublish, StartSpawn,
                StartListen, StartReturn, BgListen, BgReturn, signals
  <2>3. ASSUME NEW t \in Stoppers,
               \/ StopCall(t) \/ StopSkip(t) \/ StopShutdown(t)
               \/ StopDrained(t) \/ StopExpired(t) \/ StopCancel(t)
               \/ StopClear(t)
        PROVE  closes' = closes
    BY <2>3 DEF StopCall, StopSkip, StopShutdown, StopDrained, StopExpired,
                StopCancel, StopClear, signals
  <2>4. ASSUME NEW r \in Requests, RequestStep(r) PROVE closes' = closes
    BY <2>4 DEF RequestStep, Accept, StreamOpen, StreamEnd, Finish, signals
  <2>5. CASE UNCHANGED vars
    BY <2>5 DEF vars, signals, CloseOnce
  <2>6. QED
    BY <2>1, <2>2, <2>3, <2>4, <2>5 DEF Next, StopStep, CloseOnce
<1>3. QED
  BY <1>1, <1>2, TypeCorrect, PTL DEF Spec

-----------------------------------------------------------------------------
(***************************************************************************)
(* Every run serves on the instance's own server: the program calls Start, *)
(* or StartServer with that same server.  There are one or two listeners.  *)
(***************************************************************************)
OwnServers == \A s \in Starters : StartWith[s] \in {DefaultServer, OwnField}

\* Listener x was told to shut down and no request is left on it.  Nothing
\* can be accepted on it again, so this is stable.
Drained(x) == x \in inShutdown /\ Active(x) = {}

\* No other server is ever involved ...
OnlyOwn ==
  /\ server \in {DefaultServer, NoServer}
  /\ \A s \in Starters : startSrv[s] \in {DefaultServer, NoServer}
  /\ \A t \in Stoppers : stopHttp[t] \in {DefaultServer, NoServer}
  /\ \A x \in Listeners :
       serving[x] # NoRun => x \in {DefaultServer, TlsServer}
  /\ \A r \in Requests : reqPc[r] \in {"running", "streaming"}
                           => reqOn[r] \in {DefaultServer, TlsServer}

\* ... and none but the plain one without WithTLSServer.
OnlyPlain ==
  ~WithTls =>
    /\ \A s \in Starters : /\ startPc[s] \notin {"spawn", "listenTls"}
                           /\ bgPc[s] = "none"
    /\ \A t \in Stoppers : stopKind[t] = "http"
    /\ serving[TlsServer] = NoRun
    /\ \A r \in Requests : reqPc[r] \in {"running", "streaming"}
                             => reqOn[r] # TlsServer

\* A listener that was told to shut down accepts nothing.
Silenced == \A x \in inShutdown : serving[x] = NoRun

\* What each stage of a stop tells about the server it is at and about those
\* it has behind it: shut down, found gone, or given up on.
Stage(t) ==
  /\ stopPc[t] = "idle" => stopKind[t] = "http"
  /\ stopPc[t] \in {"drain", "cancel", "clear", "error"}
       => Target(t) \in inShutdown
  /\ stopPc[t] \in {"cancel", "clear"} /\ ~stopErr[t] => Drained(Target(t))
  /\ stopPc[t] \in {"clear", "done"} => ~stopErr[t]
  /\ stopPc[t] \in {"idle", "close", "shutdown", "drain"} => ~stopErr[t]
  /\ stopPc[t] = "error" => stopErr[t]
  /\ stopKind[t] = "tls" \/ stopPc[t] = "done" => Drained(DefaultServer)
  /\ stopPc[t] = "done" /\ WithTls => Drained(TlsServer)
  /\ stopPc[t] # "idle" /\ stopHttp[t] = NoServer => Drained(DefaultServer)
  /\ stopPc[t] # "idle" /\ stopTls[t] = NoServer => Drained(TlsServer)

\* What a cleared field and a cancelled context tell.
Traces ==
  /\ server = NoServer => Drained(DefaultServer)
  /\ tlsServer = NoServer => Drained(TlsServer)
  /\ cancelled # {} =>
       /\ DefaultServer \in inShutdown
       /\ Drained(DefaultServer) \/ \E t \in Stoppers : stopErr[t]

OwnInv ==
  OnlyOwn /\ OnlyPlain /\ Silenced /\ (\A t \in Stoppers : Stage(t)) /\ Traces

\* A step keeps every other server out of the picture.
LEMMA OnlyOwnStep ==
  ASSUME OwnServers, TypeOK, OnlyOwn, [Next]_vars
  PROVE  OnlyOwn'
<1> USE LifecycleAssumption
    DEF OwnServers, TypeOK, OnlyOwn, Listeners, fields, signals,
        starters, stopArgs, stoppers, net, reqArgs, requests
<1>1. ASSUME NEW s \in Starters, StartCall(s) PROVE OnlyOwn'
  BY <1>1 DEF StartCall, StartGoes
<1>2. ASSUME NEW s \in Starters, StartPrepare(s) PROVE OnlyOwn'
  BY <1>2 DEF StartPrepare, StartGoes
<1>3. ASSUME NEW s \in Starters, StartPublish(s) PROVE OnlyOwn'
  BY <1>3 DEF StartPublish, StartGoes
<1>4. ASSUME NEW s \in Starters, StartSpawn(s) PROVE OnlyOwn'
  BY <1>4 DEF StartSpawn, StartGoes
<1>5. ASSUME NEW s \in Starters, StartListen(s) PROVE OnlyOwn'
  BY <1>5 DEF StartListen, Serve, CanServe, Own
<1>6. ASSUME NEW s \in Starters, StartReturn(s) PROVE OnlyOwn'
  BY <1>6 DEF StartReturn, StartGoes
<1>7. ASSUME NEW s \in Starters, BgListen(s) PROVE OnlyOwn'
  BY <1>7 DEF BgListen, Serve, CanServe
<1>8. ASSUME NEW s \in Starters, BgReturn(s) PROVE OnlyOwn'
  BY <1>8 DEF BgReturn
<1>9. ASSUME NEW t \in Stoppers, StopCall(t) PROVE OnlyOwn'
  BY <1>9 DEF StopCall, StopGoes
<1>10. ASSUME NEW t \in Stoppers, StopSkip(t) PROVE OnlyOwn'
  BY <1>10 DEF StopSkip, StopGoes, ShutdownServerReturnsNil
<1>11. ASSUME NEW t \in Stoppers, StopClose(t) PROVE OnlyOwn'
  BY <1>11 DEF StopClose, StopGoes
<1>12. ASSUME NEW t \in Stoppers, StopShutdown(t) PROVE OnlyOwn'
  BY <1>12 DEF StopShutdown, StopGoes
<1>13. ASSUME NEW t \in Stoppers, StopDrained(t) PROVE OnlyOwn'
  BY <1>13 DEF StopDrained, StopGoes
<1>14. ASSUME NEW t \in Stoppers, StopExpired(t) PROVE OnlyOwn'
  BY <1>14 DEF StopExpired, StopGoes
<1>15. ASSUME NEW t \in Stoppers, StopCancel(t) PROVE OnlyOwn'
  BY <1>15 DEF StopCancel, StopGoes
<1>16. ASSUME NEW t \in Stoppers, StopClear(t) PROVE OnlyOwn'
  BY <1>16 DEF StopClear, StopGoes, ShutdownServerReturnsNil
<1>17. ASSUME NEW r \in Requests, NEW x \in Listeners, Accept(r, x)
       PROVE  OnlyOwn'
  BY <1>17 DEF Accept
<1>18. ASSUME NEW r \in Requests, StreamOpen(r) PROVE OnlyOwn'
  BY <1>18 DEF StreamOpen
<1>19. ASSUME NEW r \in Requests, StreamEnd(r) PROVE OnlyOwn'
  BY <1>19 DEF StreamEnd
<1>20. ASSUME NEW r \in Requests, Finish(r) PROVE OnlyOwn'
  BY <1>20 DEF Finish
<1>21. CASE UNCHANGED vars
  BY <1>21 DEF vars
<1>22. QED
  BY <1>1, <1>2, <1>3, <1>4, <1>5, <1>6, <1>7, <1>8, <1>9, <1>10, <1>11,
     <1>12, <1>13, <1>14, <1>15, <1>16, <1>17, <1>18, <1>19, <1>20, <1>21
  DEF Next, StartStep, StopStep, RequestStep

\* Without WithTLSServer nobody gets near the second listener.
LEMMA OnlyPlainStep ==
  ASSUME OwnServers, TypeOK, OnlyOwn, OnlyPlain, [Next]_vars
  PROVE  OnlyPlain'
<1> USE LifecycleAssumption
    DEF OwnServers, TypeOK, OnlyOwn, OnlyPlain, Listeners, fields, signals,
        starters, stopArgs, stoppers, net, reqArgs, requests
<1>1. ASSUME NEW s \in Starters, StartCall(s) PROVE OnlyPlain'
  BY <1>1 DEF StartCall, StartGoes
<1>2. ASSUME NEW s \in Starters, StartPrepare(s) PROVE OnlyPlain'
  BY <1>2 DEF StartPrepare, StartGoes
<1>3. ASSUME NEW s \in Starters, StartPublish(s) PROVE OnlyPlain'
  BY <1>3 DEF StartPublish, StartGoes
<1>4. ASSUME NEW s \in Starters, StartSpawn(s) PROVE OnlyPlain'
  BY <1>4 DEF StartSpawn, StartGoes
<1>5. ASSUME NEW s \in Starters, StartListen(s) PROVE OnlyPlain'
  BY <1>5 DEF StartListen, Serve, CanServe, Own
<1>6. ASSUME NEW s \in Starters, StartReturn(s) PROVE OnlyPlain'
  BY <1>6 DEF StartReturn, StartGoes
<1>7. ASSUME NEW s \in Starters, BgListen(s) PROVE OnlyPlain'
  BY <1>7 DEF BgListen, Serve, CanServe
<1>8. ASSUME NEW s \in Starters, BgReturn(s) PROVE OnlyPlain'
  BY <1>8 DEF BgReturn
<1>9. ASSUME NEW t \in Stoppers, StopCall(t) PROVE OnlyPlain'
  BY <1>9 DEF StopCall, StopGoes
<1>10. ASSUME NEW t \in Stoppers, StopSkip(t) PROVE OnlyPlain'
  BY <1>10 DEF StopSkip, StopGoes, ShutdownServerReturnsNil
<1>11. ASSUME NEW t \in Stoppers, StopClose(t) PROVE OnlyPlain'
  BY <1>11 DEF StopClose, StopGoes
<1>12. ASSUME NEW t \in Stoppers, StopShutdown(t) PROVE OnlyPlain'
  BY <1>12 DEF StopShutdown, StopGoes
<1>13. ASSUME NEW t \in Stoppers, StopDrained(t) PROVE OnlyPlain'
  BY <1>13 DEF StopDrained, StopGoes
<1>14. ASSUME NEW t \in Stoppers, StopExpired(t) PROVE OnlyPlain'
  BY <1>14 DEF StopExpired, StopGoes
<1>15. ASSUME NEW t \in Stoppers, StopCancel(t) PROVE OnlyPlain'
  BY <1>15 DEF StopCancel, StopGoes
<1>16. ASSUME NEW t \in Stoppers, StopClear(t) PROVE OnlyPlain'
  BY <1>16 DEF StopClear, StopGoes, ShutdownServerReturnsNil
<1>17. ASSUME NEW r \in Requests, NEW x \in Listeners, Accept(r, x)
       PROVE  OnlyPlain'
  BY <1>17 DEF Accept
<1>18. ASSUME NEW r \in Requests, StreamOpen(r) PROVE OnlyPlain'
  BY <1>18 DEF StreamOpen
<1>19. ASSUME NEW r \in Requests, StreamEnd(r) PROVE OnlyPlain'
  BY <1>19 DEF StreamEnd
<1>20. ASSUME NEW r \in Requests, Finish(r) PROVE OnlyPlain'
  BY <1>20 DEF Finish
<1>21. CASE UNCHANGED vars
  BY <1>21 DEF vars
<1>22. QED
  BY <1>1, <1>2, <1>3, <1>4, <1>5, <1>6, <1>7, <1>8, <1>9, <1>10, <1>11,
     <1>12, <1>13, <1>14, <1>15, <1>16, <1>17, <1>18, <1>19, <1>20, <1>21
  DEF Next, StartStep, StopStep, RequestStep

\* A step keeps a silenced listener silent.
LEMMA SilencedStep ==
  ASSUME TypeOK, LocalsOK, Silenced, [Next]_vars
  PROVE  Silenced'
<1> USE LifecycleAssumption
    DEF TypeOK, LocalsOK, Silenced, Listeners, Target, fields, signals,
        starters, stopArgs, stoppers, net, reqArgs, requests
<1>1. ASSUME NEW s \in Starters, StartCall(s) PROVE Silenced'
  BY <1>1 DEF StartCall, StartGoes
<1>2. ASSUME NEW s \in Starters, StartPrepare(s) PROVE Silenced'
  BY <1>2 DEF StartPrepare, StartGoes
<1>3. ASSUME NEW s \in Starters, StartPublish(s) PROVE Silenced'
  BY <1>3 DEF StartPublish, StartGoes
<1>4. ASSUME NEW s \in Starters, StartSpawn(s) PROVE Silenced'
  BY <1>4 DEF StartSpawn, StartGoes
<1>5. ASSUME NEW s \in Starters, StartListen(s) PROVE Silenced'
  BY <1>5 DEF StartListen, Serve, CanServe, Own
<1>6. ASSUME NEW s \in Starters, StartReturn(s) PROVE Silenced'
  BY <1>6 DEF StartReturn, StartGoes
<1>7. ASSUME NEW s \in Starters, BgListen(s) PROVE Silenced'
  BY <1>7 DEF BgListen, Serve, CanServe
<1>8. ASSUME NEW s \in Starters, BgReturn(s) PROVE Silenced'
  BY <1>8 DEF BgReturn
<1>9. ASSUME NEW t \in Stoppers, StopCall(t) PROVE Silenced'
  BY <1>9 DEF StopCall, StopGoes
<1>10. ASSUME NEW t \in Stoppers, StopSkip(t) PROVE Silenced'
  BY <1>10 DEF StopSkip, StopGoes, ShutdownServerReturnsNil
<1>11. ASSUME NEW t \in Stoppers, StopClose(t) PROVE Silenced'
  BY <1>11 DEF StopClose, StopGoes
<1>12. ASSUME NEW t \in Stoppers, StopShutdown(t) PROVE Silenced'
  BY <1>12 DEF StopShutdown, StopGoes
<1>13. ASSUME NEW t \in Stoppers, StopDrained(t) PROVE Silenced'
  BY <1>13 DEF StopDrained, StopGoes
<1>14. ASSUME NEW t \in Stoppers, StopExpired(t) PROVE Silenced'
  BY <1>14 DEF StopExpired, StopGoes
<1>15. ASSUME NEW t \in Stoppers, StopCancel(t) PROVE Silenced'
  BY <1>15 DEF StopCancel, StopGoes
<1>16. ASSUME NEW t \in Stoppers, StopClear(t) PROVE Silenced'
  BY <1>16 DEF StopClear, StopGoes, ShutdownServerReturnsNil
<1>17. ASSUME NEW r \in Requests, NEW x \in Listeners, Accept(r, x)
       PROVE  Silenced'
  BY <1>17 DEF Accept
<1>18. ASSUME NEW r \in Requests, StreamOpen(r) PROVE Silenced'
  BY <1>18 DEF StreamOpen
<1>19. ASSUME NEW r \in Requests, StreamEnd(r) PROVE Silenced'
  BY <1>19 DEF StreamEnd
<1>20. ASSUME NEW r \in Requests, Finish(r) PROVE Silenced'
  BY <1>20 DEF Finish
<1>21. CASE UNCHANGED vars
  BY <1>21 DEF vars
<1>22. QED
  BY <1>1, <1>2, <1>3, <1>4, <1>5, <1>6, <1>7, <1>8, <1>9, <1>10, <1>11,
     <1>12, <1>13, <1>14, <1>15, <1>16, <1>17, <1>18, <1>19, <1>20, <1>21
  DEF Next, StartStep, StopStep, RequestStep

\* A drained server stays drained: only Accept adds a request, and a silenced
\* listener accepts none.
LEMMA DrainedStep ==
  ASSUME TypeOK, Silenced, NEW y \in Listeners, Drained(y), [Next]_vars
  PROVE  Drained(y)'
<1> USE LifecycleAssumption
    DEF TypeOK, Silenced, Drained, Active, Listeners, fields, signals,
        starters, stopArgs, stoppers, net, reqArgs, requests
<1>1. ASSUME NEW s \in Starters, StartCall(s) PROVE Drained(y)'
  BY <1>1 DEF StartCall, StartGoes
<1>2. ASSUME NEW s \in Starters, StartPrepare(s) PROVE Drained(y)'
  BY <1>2 DEF StartPrepare, StartGoes
<1>3. ASSUME NEW s \in Starters, StartPublish(s) PROVE Drained(y)'
  BY <1>3 DEF StartPublish, StartGoes
<1>4. ASSUME NEW s \in Starters, StartSpawn(s) PROVE Drained(y)'
  BY <1>4 DEF StartSpawn, StartGoes
<1>5. ASSUME NEW s \in Starters, StartListen(s) PROVE Drained(y)'
  BY <1>5 DEF StartListen, Serve, CanServe, Own
<1>6. ASSUME NEW s \in Starters, StartReturn(s) PROVE Drained(y)'
  BY <1>6 DEF StartReturn, StartGoes
<1>7. ASSUME NEW s \in Starters, BgListen(s) PROVE Drained(y)'
  BY <1>7 DEF BgListen, Serve, CanServe
<1>8. ASSUME NEW s \in Starters, BgReturn(s) PROVE Drained(y)'
  BY <1>8 DEF BgReturn
<1>9. ASSUME NEW t \in Stoppers, StopCall(t) PROVE Drained(y)'
  BY <1>9 DEF StopCall, StopGoes
<1>10. ASSUME NEW t \in Stoppers, StopSkip(t) PROVE Drained(y)'
  BY <1>10 DEF StopSkip, StopGoes, ShutdownServerReturnsNil
<1>11. ASSUME NEW t \in Stoppers, StopClose(t) PROVE Drained(y)'
  BY <1>11 DEF StopClose, StopGoes
<1>12. ASSUME NEW t \in Stoppers, StopShutdown(t) PROVE Drained(y)'
  BY <1>12 DEF StopShutdown, StopGoes
<1>13. ASSUME NEW t \in Stoppers, StopDrained(t) PROVE Drained(y)'
  BY <1>13 DEF StopDrained, StopGoes
<1>14. ASSUME NEW t \in Stoppers, StopExpired(t) PROVE Drained(y)'
  BY <1>14 DEF StopExpired, StopGoes
<1>15. ASSUME NEW t \in Stoppers, StopCancel(t) PROVE Drained(y)'
  BY <1>15 DEF StopCancel, StopGoes
<1>16. ASSUME NEW t \in Stoppers, StopClear(t) PROVE Drained(y)'
  BY <1>16 DEF StopClear, StopGoes, ShutdownServerReturnsNil
<1>17. ASSUME NEW r \in Requests, NEW x \in Listeners, Accept(r, x)
       PROVE  Drained(y)'
  BY <1>17 DEF Accept
<1>18. ASSUME NEW r \in Requests, StreamOpen(r) PROVE Drained(y)'
  BY <1>18 DEF StreamOpen
<1>19. ASSUME NEW r \in Requests, StreamEnd(r) PROVE Drained(y)'
  BY <1>19 DEF StreamEnd
<1>20. ASSUME NEW r \in Requests, Finish(r) PROVE Drained(y)'
  BY <1>20 DEF Finish
<1>21. CASE UNCHANGED vars
  BY <1>21 DEF vars
<1>22. QED
  BY <1>1, <1>2, <1>3, <1>4, <1>5, <1>6, <1>7, <1>8, <1>9, <1>10, <1>11,
     <1>12, <1>13, <1>14, <1>15, <1>16, <1>17, <1>18, <1>19, <1>20, <1>21
  DEF Next, StartStep, StopStep, RequestStep

\* Nobody takes a server back from its shutdown.
LEMMA ShutdownStays ==
  ASSUME [Next]_vars
  PROVE  inShutdown \subseteq inShutdown'
<1> USE DEF fields, signals, starters, stopArgs, stoppers, net, requests
<1>1. ASSUME NEW s \in Starters, StartCall(s)
       PROVE  inShutdown \subseteq inShutdown'
  BY <1>1 DEF StartCall, StartGoes
<1>2. ASSUME NEW s \in Starters, StartPrepare(s)
       PROVE  inShutdown \subseteq inShutdown'
  BY <1>2 DEF StartPrepare, StartGoes
<1>3. ASSUME NEW s \in Starters, StartPublish(s)
       PROVE  inShutdown \subseteq inShutdown'
  BY <1>3 DEF StartPublish, StartGoes
<1>4. ASSUME NEW s \in Starters, StartSpawn(s)
       PROVE  inShutdown \subseteq inShutdown'
  BY <1>4 DEF StartSpawn, StartGoes
<1>5. ASSUME NEW s \in Starters, StartListen(s)
       PROVE  inShutdown \subseteq inShutdown'
  BY <1>5 DEF StartListen, Serve, CanServe, Own
<1>6. ASSUME NEW s \in Starters, StartReturn(s)
       PROVE  inShutdown \subseteq inShutdown'
  BY <1>6 DEF StartReturn, StartGoes
<1>7. ASSUME NEW s \in Starters, BgListen(s)
       PROVE  inShutdown \subseteq inShutdown'
  BY <1>7 DEF BgListen, Serve, CanServe
<1>8. ASSUME NEW s \in Starters, BgReturn(s)
       PROVE  inShutdown \subseteq inShutdown'
  BY <1>8 DEF BgReturn
<1>9. ASSUME NEW t \in Stoppers, StopCall(t)
       PROVE  inShutdown \subseteq inShutdown'
  BY <1>9 DEF StopCall, StopGoes
<1>10. ASSUME NEW t \in Stoppers, StopSkip(t)
       PROVE  inShutdown \subseteq inShutdown'
  BY <1>10 DEF StopSkip, StopGoes, ShutdownServerReturnsNil
<1>11. ASSUME NEW t \in Stoppers, StopClose(t)
       PROVE  inShutdown \subseteq inShutdown'
  BY <1>11 DEF StopClose, StopGoes
<1>12. ASSUME NEW t \in Stoppers, StopShutdown(t)
       PROVE  inShutdown \subseteq inShutdown'
  BY <1>12 DEF StopShutdown, StopGoes
<1>13. ASSUME NEW t \in Stoppers, StopDrained(t)
       PROVE  inShutdown \subseteq inShutdown'
  BY <1>13 DEF StopDrained, StopGoes
<1>14. ASSUME NEW t \in Stoppers, StopExpired(t)
       PROVE  inShutdown \subseteq inShutdown'
  BY <1>14 DEF StopExpired, StopGoes
<1>15. ASSUME NEW t \in Stoppers, StopCancel(t)
       PROVE  inShutdown \subseteq inShutdown'
  BY <1>15 DEF StopCancel, StopGoes
<1>16. ASSUME NEW t \in Stoppers, StopClear(t)
       PROVE  inShutdown \subseteq inShutdown'
  BY <1>16 DEF StopClear, StopGoes, ShutdownServerReturnsNil
<1>17. ASSUME NEW r \in Requests, NEW x \in Listeners, Accept(r, x)
       PROVE  inShutdown \subseteq inShutdown'
  BY <1>17 DEF Accept
<1>18. ASSUME NEW r \in Requests, StreamOpen(r)
       PROVE  inShutdown \subseteq inShutdown'
  BY <1>18 DEF StreamOpen
<1>19. ASSUME NEW r \in Requests, StreamEnd(r)
       PROVE  inShutdown \subseteq inShutdown'
  BY <1>19 DEF StreamEnd
<1>20. ASSUME NEW r \in Requests, Finish(r)
       PROVE  inShutdown \subseteq inShutdown'
  BY <1>20 DEF Finish
<1>21. CASE UNCHANGED vars
  BY <1>21 DEF vars
<1>22. QED
  BY <1>1, <1>2, <1>3, <1>4, <1>5, <1>6, <1>7, <1>8, <1>9, <1>10, <1>11,
     <1>12, <1>13, <1>14, <1>15, <1>16, <1>17, <1>18, <1>19, <1>20, <1>21
  DEF Next, StartStep, StopStep, RequestStep

\* A step keeps what the stages of a stop tell about the servers.
LEMMA StageStep ==
  ASSUME OwnServers, TypeOK, LocalsOK, OnlyOwn, OnlyPlain, Silenced, Traces,
         NEW u \in Stoppers, Stage(u), [Next]_vars
  PROVE  Stage(u)'
<1> USE LifecycleAssumption
    DEF OwnServers, TypeOK, LocalsOK, OnlyOwn, OnlyPlain, Stage, Traces, Target,
        Listeners, fields, signals, starters, stopArgs, stoppers, net, reqArgs,
        requests
<1>0. /\ Drained(DefaultServer) => Drained(DefaultServer)'
      /\ Drained(TlsServer) => Drained(TlsServer)'
      /\ inShutdown \subseteq inShutdown'
  BY DrainedStep, ShutdownStays
<1>1. ASSUME NEW s \in Starters, StartCall(s) PROVE Stage(u)'
  BY <1>1, <1>0 DEF StartCall, StartGoes
<1>2. ASSUME NEW s \in Starters, StartPrepare(s) PROVE Stage(u)'
  BY <1>2, <1>0 DEF StartPrepare, StartGoes
<1>3. ASSUME NEW s \in Starters, StartPublish(s) PROVE Stage(u)'
  BY <1>3, <1>0 DEF StartPublish, StartGoes
<1>4. ASSUME NEW s \in Starters, StartSpawn(s) PROVE Stage(u)'
  BY <1>4, <1>0 DEF StartSpawn, StartGoes
<1>5. ASSUME NEW s \in Starters, StartListen(s) PROVE Stage(u)'
  BY <1>5, <1>0 DEF StartListen, Serve, CanServe, Own
<1>6. ASSUME NEW s \in Starters, StartReturn(s) PROVE Stage(u)'
  BY <1>6, <1>0 DEF StartReturn, StartGoes
<1>7. ASSUME NEW s \in Starters, BgListen(s) PROVE Stage(u)'
  BY <1>7, <1>0 DEF BgListen, Serve, CanServe
<1>8. ASSUME NEW s \in Starters, BgReturn(s) PROVE Stage(u)'
  BY <1>8, <1>0 DEF BgReturn
<1>9. ASSUME NEW t \in Stoppers, StopCall(t) PROVE Stage(u)'
  BY <1>9, <1>0 DEF StopCall, StopGoes
<1>10. ASSUME NEW t \in Stoppers, StopSkip(t) PROVE Stage(u)'
  BY <1>10, <1>0 DEF StopSkip, StopGoes, ShutdownServerReturnsNil
<1>11. ASSUME NEW t \in Stoppers, StopClose(t) PROVE Stage(u)'
  BY <1>11, <1>0 DEF StopClose, StopGoes
<1>12. ASSUME NEW t \in Stoppers, StopShutdown(t) PROVE Stage(u)'
  BY <1>12, <1>0 DEF StopShutdown, StopGoes
<1>13. ASSUME NEW t \in Stoppers, StopDrained(t) PROVE Stage(u)'
  <2>1. u = t => Drained(Target(t))'
    BY <1>13, <1>0 DEF StopDrained, StopGoes, Drained
  <2>2. QED
    BY <1>13, <1>0, <2>1 DEF StopDrained, StopGoes
<1>14. ASSUME NEW t \in Stoppers, StopExpired(t) PROVE Stage(u)'
  BY <1>14, <1>0 DEF StopExpired, StopGoes
<1>15. ASSUME NEW t \in Stoppers, StopCancel(t) PROVE Stage(u)'
  BY <1>15, <1>0 DEF StopCancel, StopGoes
<1>16. ASSUME NEW t \in Stoppers, StopClear(t) PROVE Stage(u)'
  BY <1>16, <1>0 DEF StopClear, StopGoes, ShutdownServerReturnsNil
<1>17. ASSUME NEW r \in Requests, NEW x \in Listeners, Accept(r, x)
       PROVE  Stage(u)'
  BY <1>17, <1>0 DEF Accept
<1>18. ASSUME NEW r \in Requests, StreamOpen(r) PROVE Stage(u)'
  BY <1>18, <1>0 DEF StreamOpen
<1>19. ASSUME NEW r \in Requests, StreamEnd(r) PROVE Stage(u)'
  BY <1>19, <1>0 DEF StreamEnd
<1>20. ASSUME NEW r \in Requests, Finish(r) PROVE Stage(u)'
  BY <1>20, <1>0 DEF Finish
<1>21. CASE UNCHANGED vars
  BY <1>21, <1>0 DEF vars
<1>22. QED
  BY <1>1, <1>2, <1>3, <1>4, <1>5, <1>6, <1>7, <1>8, <1>9, <1>10, <1>11,
     <1>12, <1>13, <1>14, <1>15, <1>16, <1>17, <1>18, <1>19, <1>20, <1>21
  DEF Next, StartStep, StopStep, RequestStep

LEMMA TracesStep ==
  ASSUME OwnServers, TypeOK, LocalsOK, OnlyOwn, OnlyPlain, Silenced, Traces,
         \A t \in Stoppers : Stage(t), [Next]_vars
  PROVE  Traces'
<1> USE LifecycleAssumption
    DEF OwnServers, TypeOK, LocalsOK, OnlyOwn, OnlyPlain, Stage, Traces, Target,
        Listeners, fields, signals, starters, stopArgs, stoppers, net, reqArgs,
        requests
<1>0. /\ Drained(DefaultServer) => Drained(DefaultServer)'
      /\ Drained(TlsServer) => Drained(TlsServer)'
      /\ inShutdown \subseteq inShutdown'
  BY DrainedStep, ShutdownStays
<1>1. ASSUME NEW s \in Starters, StartCall(s) PROVE Traces'
  BY <1>1, <1>0 DEF StartCall, StartGoes
<1>2. ASSUME NEW s \in Starters, StartPrepare(s) PROVE Traces'
  BY <1>2, <1>0 DEF StartPrepare, StartGoes
<1>3. ASSUME NEW s \in Starters, StartPublish(s) PROVE Traces'
  BY <1>3, <1>0 DEF StartPublish, StartGoes
<1>4. ASSUME NEW s \in Starters, StartSpawn(s) PROVE Traces'
  BY <1>4, <1>0 DEF StartSpawn, StartGoes
<1>5. ASSUME NEW s \in Starters, StartListen(s) PROVE Traces'
  BY <1>5, <1>0 DEF StartListen, Serve, CanServe, Own
<1>6. ASSUME NEW s \in Starters, StartReturn(s) PROVE Traces'
  BY <1>6, <1>0 DEF StartReturn, StartGoes
<1>7. ASSUME NEW s \in Starters, BgListen(s) PROVE Traces'
  BY <1>7, <1>0 DEF BgListen, Serve, CanServe
<1>8. ASSUME NEW s \in Starters, BgReturn(s) PROVE Traces'
  BY <1>8, <1>0 DEF BgReturn
<1>9. ASSUME NEW t \in Stoppers, StopCall(t) PROVE Traces'
  BY <1>9, <1>0 DEF StopCall, StopGoes
<1>10. ASSUME NEW t \in Stoppers, StopSkip(t) PROVE Traces'
  BY <1>10, <1>0 DEF StopSkip, StopGoes, ShutdownServerReturnsNil
<1>11. ASSUME NEW t \in Stoppers, StopClose(t) PROVE Traces'
  BY <1>11, <1>0 DEF StopClose, StopGoes
<1>12. ASSUME NEW t \in Stoppers, StopShutdown(t) PROVE Traces'
  BY <1>12, <1>0 DEF StopShutdown, StopGoes
<1>13. ASSUME NEW t \in Stoppers, StopDrained(t) PROVE Traces'
  BY <1>13, <1>0 DEF StopDrained, StopGoes
<1>14. ASSUME NEW t \in Stoppers, StopExpired(t) PROVE Traces'
  BY <1>14, <1>0 DEF StopExpired, StopGoes
<1>15. ASSUME NEW t \in Stoppers, StopCancel(t) PROVE Traces'
  <2>1. CASE stopKind[t] = "http"
    <3>1. Target(t) = DefaultServer
      BY <1>15, <2>1 DEF StopCancel, StopGoes
    <3>2. /\ DefaultServer \in inShutdown
          /\ Drained(DefaultServer) \/ stopErr[t]
      BY <1>15, <3>1 DEF StopCancel, StopGoes
    <3>3. QED
      BY <1>15, <1>0, <3>2 DEF StopCancel, StopGoes
  <2>2. CASE stopKind[t] = "tls"
    <3>1. Drained(DefaultServer)
      BY <2>2
    <3>2. QED
      BY <1>15, <1>0, <3>1 DEF StopCancel, StopGoes, Drained
  <2>3. QED
    BY <2>1, <2>2
<1>16. ASSUME NEW t \in Stoppers, StopClear(t) PROVE Traces'
  BY <1>16, <1>0 DEF StopClear, StopGoes, ShutdownServerReturnsNil
<1>17. ASSUME NEW r \in Requests, NEW x \in Listeners, Accept(r, x)
       PROVE  Traces'
  BY <1>17, <1>0 DEF Accept
<1>18. ASSUME NEW r \in Requests, StreamOpen(r) PROVE Traces'
  BY <1>18, <1>0 DEF StreamOpen
<1>19. ASSUME NEW r \in Requests, StreamEnd(r) PROVE Traces'
  BY <1>19, <1>0 DEF StreamEnd
<1>20. ASSUME NEW r \in Requests, Finish(r) PROVE Traces'
  BY <1>20, <1>0 DEF Finish
<1>21. CASE UNCHANGED vars
  BY <1>21, <1>0 DEF vars
<1>22. QED
  BY <1>1, <1>2, <1>3, <1>4, <1>5, <1>6, <1>7, <1>8, <1>9, <1>10, <1>11,
     <1>12, <1>13, <1>14, <1>15, <1>16, <1>17, <1>18, <1>19, <1>20, <1>21
  DEF Next, StartStep, StopStep, RequestStep

(* On the instance's own servers, one listener or two, for any number of   *)
(* concurrent starts, stops and requests, the invariant holds.             *)
LEMMA OwnInvHolds ==
  ASSUME OwnServers
  PROVE  Spec => []OwnInv
<1>1. Init => OwnInv
  <2> SUFFICES ASSUME Init PROVE OwnInv
    OBVIOUS
  <2> USE LifecycleAssumption DEF Init, Listeners
  <2>1. OnlyOwn /\ OnlyPlain
    BY DEF OnlyOwn, OnlyPlain
  <2>2. Silenced
    BY DEF Silenced
  <2>3. \A t \in Stoppers : Stage(t)
    BY DEF Stage
  <2>4. Traces
    BY DEF Traces
  <2>5. QED
    BY <2>1, <2>2, <2>3, <2>4 DEF OwnInv
<1>2. TypeOK /\ LocalsOK /\ OwnInv /\ [Next]_vars => OwnInv'
  BY OnlyOwnStep, OnlyPlainStep, SilencedStep, StageStep, TracesStep DEF OwnInv
<1>3. QED
  BY <1>1, <1>2, TypeCorrect, PTL DEF Spec

(* A stop that returned nil leaves nothing listening and nothing in        *)
(* flight, on the plain listener and on the HTTPS one, whatever other      *)
(* stops, starts and requests did meanwhile.                               *)
THEOREM StopsDrain == ASSUME OwnServers PROVE Spec => []StopMeansDrained
<1>1. TypeOK /\ OwnInv => StopMeansDrained
  <2> SUFFICES ASSUME TypeOK, OwnInv, NEW t \in Stoppers, stopPc[t] = "done",
                      NEW x \in Listeners
               PROVE  serving[x] = NoRun /\ Active(x) = {}
    BY DEF StopMeansDrained
  <2>1. Drained(DefaultServer) /\ (WithTls => Drained(TlsServer))
    BY DEF OwnInv, Stage
  <2>2. CASE x = DefaultServer \/ (x = TlsServer /\ WithTls)
    BY <2>1, <2>2 DEF OwnInv, Silenced, Drained
  <2>3. CASE x = TlsServer /\ ~WithTls
    BY <2>3 DEF OwnInv, OnlyPlain, Active
  <2>4. CASE x \notin {DefaultServer, TlsServer}
    BY <2>4 DEF OwnInv, OnlyOwn, Active
  <2>5. QED
    BY <2>2, <2>3, <2>4
<1>2. QED
  BY <1>1, OwnInvHolds, TypeCorrect, PTL

(* The context of a request on the plain listener is cancelled while it    *)
(* runs only after a stop's deadline expired, with one listener or two.    *)
THEOREM DrainsBeforeCancel ==
  ASSUME OwnServers PROVE Spec => []DrainBeforeCancel
<1>1. TypeOK /\ OwnInv => DrainBeforeCancel
  <2> SUFFICES ASSUME TypeOK, OwnInv, NEW x \in HttpServers,
                      NEW r \in Active(x), reqCtx[r] \in cancelled
               PROVE  \E t \in Stoppers : stopErr[t]
    BY DEF DrainBeforeCancel, DrainedFirst
  <2>1. x = DefaultServer
    BY LifecycleAssumption DEF OwnInv, OnlyOwn, Active
  <2>2. QED
    BY <2>1 DEF OwnInv, Traces, Drained
<1>2. QED
  BY <1>1, OwnInvHolds, TypeCorrect, PTL

(* A listener that accepts is in the field the next stop reads: o.server   *)
(* and o.tlsServer are cleared only once their server is drained, whatever *)
(* stops and starts overlap.                                               *)
THEOREM ServersStayStoppable ==
  ASSUME OwnServers PROVE Spec => []ServingIsStoppable
<1>1. TypeOK /\ OwnInv => ServingIsStoppable
  <2> SUFFICES ASSUME TypeOK, OwnInv, NEW x \in Listeners, serving[x] # NoRun
               PROVE  x \in {server, tlsServer}
    BY DEF ServingIsStoppable
  <2>1. x \notin inShutdown
    BY DEF OwnInv, Silenced
  <2>2. CASE x = DefaultServer
    BY <2>1, <2>2 DEF OwnInv, OnlyOwn, Traces, Drained
  <2>3. CASE x = TlsServer
    BY <2>1, <2>3 DEF OwnInv, Traces, Drained, TypeOK
  <2>4. QED
    BY <2>2, <2>3 DEF OwnInv, OnlyOwn
<1>2. QED
  BY <1>1, OwnInvHolds, TypeCorrect, PTL

-----------------------------------------------------------------------------
(* Instances without WithTLSServer: one plain listener.  (With two, the    *)
(* base context they share is cancelled while the second still accepts.)   *)
PlainHttp == ~WithTls /\ OwnServers

(* With one plain listener, no request starts with a cancelled context.    *)
THEOREM NoneStillborn == ASSUME PlainHttp PROVE Spec => []NoStillbornRequests
<1>1. TypeOK /\ OwnInv => NoStillbornRequests
  <2> SUFFICES ASSUME TypeOK, OwnInv, NEW x \in Listeners,
                      serving[x] \in cancelled
               PROVE  FALSE
    BY DEF NoStillbornRequests
  <2>1. serving[x] # NoRun
    BY LifecycleAssumption DEF TypeOK
  <2>2. x = DefaultServer
    BY <2>1 DEF OwnInv, OnlyOwn, OnlyPlain, PlainHttp
  <2>3. DefaultServer \in inShutdown
    BY DEF OwnInv, Traces
  <2>4. QED
    BY <2>1, <2>2, <2>3 DEF OwnInv, Silenced
<1>2. QED
  BY <1>1, OwnInvHolds, TypeCorrect, PTL DEF PlainHttp

-----------------------------------------------------------------------------
(***************************************************************************)
(* RunServer on one plain listener that nobody else starts.                *)
(***************************************************************************)
OnlyRunStarts == PlainHttp /\ Starters = {RunStarter}

\* The listener serves, and has requests, only while Start is in Serve or
\* after a stop took the listener from it; that stop was called.
RunListener ==
  /\ serving[DefaultServer] # NoRun => startPc[RunStarter] = "serving"
  /\ Active(DefaultServer) # {} =>
       startPc[RunStarter] = "serving" \/ DefaultServer \in inShutdown
  /\ inShutdown # {} =>
       \E t \in Stoppers : stopPc[t] \notin {"idle", "close", "shutdown"}

\* RunServer stops the instance only after a signal, reports what Start
\* returned and returns what its stop returned.
RunStages ==
  /\ runPc \in {"setup", "select", "onShutdown"} \/ result = "server" =>
       stopPc[RunStopper] = "idle"
  /\ serverErrors # "unsent" => startPc[RunStarter] = "returned"
  /\ result \in {"none", "nil", "server", "shutdown"}
  /\ runPc # "returned" <=> result = "none"
  /\ result = "server" => serverErrors = "received"
  /\ result = "nil" => stopPc[RunStopper] = "done"
  /\ result = "shutdown" => stopPc[RunStopper] = "error"

\* RunServer's instance is a Lifecycle.
LEMMA RunStepIsStep == [RunNext]_allVars => [Next]_vars
<1>1. Signal \/ Launch \/ ReportError \/ SelectError \/ SelectQuit \/ StopReturned
        => UNCHANGED vars
  BY DEF Signal, Launch, ReportError, SelectError, SelectQuit, StopReturned
<1>2. UNCHANGED allVars => UNCHANGED vars
  BY DEF allVars
<1>3. NoPanic /\ CallStop => Next
  BY RunAssumption, LifecycleAssumption DEF CallStop, Next
<1>4. NoPanic /\ InstanceStep => Next
  BY DEF InstanceStep, Next
<1>5. QED
  BY <1>1, <1>2, <1>3, <1>4 DEF RunNext, RunStep

LEMMA RunIsLifecycle == RunSpec => Spec
<1>1. RunInit => Init
  BY DEF RunInit
<1>2. QED
  BY <1>1, RunStepIsStep, PTL DEF RunSpec, Spec

LEMMA RunListenerStep ==
  ASSUME OnlyRunStarts, TypeOK, OnlyOwn, OnlyPlain, Silenced, RunListener,
         [Next]_vars
  PROVE  RunListener'
<1> USE LifecycleAssumption
    DEF OnlyRunStarts, PlainHttp, TypeOK, OnlyOwn, OnlyPlain, Silenced,
        RunListener, Active, Listeners, fields, signals, starters, stopArgs,
        stoppers, net, reqArgs, requests
<1>1. ASSUME NEW s \in Starters, StartCall(s) PROVE RunListener'
  BY <1>1 DEF StartCall, StartGoes
<1>2. ASSUME NEW s \in Starters, StartPrepare(s) PROVE RunListener'
  BY <1>2 DEF StartPrepare, StartGoes
<1>3. ASSUME NEW s \in Starters, StartPublish(s) PROVE RunListener'
  BY <1>3 DEF StartPublish, StartGoes
<1>4. ASSUME NEW s \in Starters, StartSpawn(s) PROVE RunListener'
  BY <1>4 DEF StartSpawn, StartGoes
<1>5. ASSUME NEW s \in Starters, StartListen(s) PROVE RunListener'
  BY <1>5 DEF StartListen, Serve, CanServe, Own
<1>6. ASSUME NEW s \in Starters, StartReturn(s) PROVE RunListener'
  BY <1>6 DEF StartReturn, StartGoes, Own
<1>7. ASSUME NEW s \in Starters, BgListen(s) PROVE RunListener'
  BY <1>7 DEF BgListen, Serve, CanServe
<1>8. ASSUME NEW s \in Starters, BgReturn(s) PROVE RunListener'
  BY <1>8 DEF BgReturn
<1>9. ASSUME NEW t \in Stoppers, StopCall(t) PROVE RunListener'
  BY <1>9 DEF StopCall, StopGoes
<1>10. ASSUME NEW t \in Stoppers, StopSkip(t) PROVE RunListener'
  BY <1>10 DEF StopSkip, StopGoes, ShutdownServerReturnsNil
<1>11. ASSUME NEW t \in Stoppers, StopClose(t) PROVE RunListener'
  BY <1>11 DEF StopClose, StopGoes
<1>12. ASSUME NEW t \in Stoppers, StopShutdown(t) PROVE RunListener'
  BY <1>12 DEF StopShutdown, StopGoes
<1>13. ASSUME NEW t \in Stoppers, StopDrained(t) PROVE RunListener'
  BY <1>13 DEF StopDrained, StopGoes
<1>14. ASSUME NEW t \in Stoppers, StopExpired(t) PROVE RunListener'
  BY <1>14 DEF StopExpired, StopGoes
<1>15. ASSUME NEW t \in Stoppers, StopCancel(t) PROVE RunListener'
  BY <1>15 DEF StopCancel, StopGoes
<1>16. ASSUME NEW t \in Stoppers, StopClear(t) PROVE RunListener'
  BY <1>16 DEF StopClear, StopGoes, ShutdownServerReturnsNil
<1>17. ASSUME NEW r \in Requests, NEW x \in Listeners, Accept(r, x)
       PROVE  RunListener'
  BY <1>17 DEF Accept
<1>18. ASSUME NEW r \in Requests, StreamOpen(r) PROVE RunListener'
  BY <1>18 DEF StreamOpen
<1>19. ASSUME NEW r \in Requests, StreamEnd(r) PROVE RunListener'
  BY <1>19 DEF StreamEnd
<1>20. ASSUME NEW r \in Requests, Finish(r) PROVE RunListener'
  BY <1>20 DEF Finish
<1>21. CASE UNCHANGED vars
  BY <1>21 DEF vars
<1>22. QED
  BY <1>1, <1>2, <1>3, <1>4, <1>5, <1>6, <1>7, <1>8, <1>9, <1>10, <1>11,
     <1>12, <1>13, <1>14, <1>15, <1>16, <1>17, <1>18, <1>19, <1>20, <1>21
  DEF Next, StartStep, StopStep, RequestStep

\* What Start and a stop returned stays returned.
LEMMA ReturnedStays ==
  ASSUME TypeOK, [Next]_vars, NEW a \in Starters, NEW u \in Stoppers
  PROVE  /\ startPc[a] = "returned" => startPc'[a] = "returned"
         /\ stopPc[u] = "done" => stopPc'[u] = "done"
         /\ stopPc[u] = "error" => stopPc'[u] = "error"
<1> DEFINE G == /\ startPc[a] = "returned" => startPc'[a] = "returned"
                /\ stopPc[u] = "done" => stopPc'[u] = "done"
                /\ stopPc[u] = "error" => stopPc'[u] = "error"
<1> USE DEF TypeOK, fields, signals, starters, stopArgs, stoppers, net, reqArgs,
        requests
<1>1. ASSUME NEW s \in Starters, StartCall(s) PROVE G
  BY <1>1 DEF StartCall, StartGoes
<1>2. ASSUME NEW s \in Starters, StartPrepare(s) PROVE G
  BY <1>2 DEF StartPrepare, StartGoes
<1>3. ASSUME NEW s \in Starters, StartPublish(s) PROVE G
  BY <1>3 DEF StartPublish, StartGoes
<1>4. ASSUME NEW s \in Starters, StartSpawn(s) PROVE G
  BY <1>4 DEF StartSpawn, StartGoes
<1>5. ASSUME NEW s \in Starters, StartListen(s) PROVE G
  BY <1>5 DEF StartListen, Serve, CanServe, Own
<1>6. ASSUME NEW s \in Starters, StartReturn(s) PROVE G
  BY <1>6 DEF StartReturn, StartGoes, Own
<1>7. ASSUME NEW s \in Starters, BgListen(s) PROVE G
  BY <1>7 DEF BgListen, Serve, CanServe
<1>8. ASSUME NEW s \in Starters, BgReturn(s) PROVE G
  BY <1>8 DEF BgReturn
<1>9. ASSUME NEW t \in Stoppers, StopCall(t) PROVE G
  BY <1>9 DEF StopCall, StopGoes
<1>10. ASSUME NEW t \in Stoppers, StopSkip(t) PROVE G
  BY <1>10 DEF StopSkip, StopGoes, ShutdownServerReturnsNil
<1>11. ASSUME NEW t \in Stoppers, StopClose(t) PROVE G
  BY <1>11 DEF StopClose, StopGoes
<1>12. ASSUME NEW t \in Stoppers, StopShutdown(t) PROVE G
  BY <1>12 DEF StopShutdown, StopGoes
<1>13. ASSUME NEW t \in Stoppers, StopDrained(t) PROVE G
  BY <1>13 DEF StopDrained, StopGoes
<1>14. ASSUME NEW t \in Stoppers, StopExpired(t) PROVE G
  BY <1>14 DEF StopExpired, StopGoes
<1>15. ASSUME NEW t \in Stoppers, StopCancel(t) PROVE G
  BY <1>15 DEF StopCancel, StopGoes
<1>16. ASSUME NEW t \in Stoppers, StopClear(t) PROVE G
  BY <1>16 DEF StopClear, StopGoes, ShutdownServerReturnsNil
<1>17. ASSUME NEW r \in Requests, NEW x \in Listeners, Accept(r, x) PROVE G
  BY <1>17 DEF Accept
<1>18. ASSUME NEW r \in Requests, StreamOpen(r) PROVE G
  BY <1>18 DEF StreamOpen
<1>19. ASSUME NEW r \in Requests, StreamEnd(r) PROVE G
  BY <1>19 DEF StreamEnd
<1>20. ASSUME NEW r \in Requests, Finish(r) PROVE G
  BY <1>20 DEF Finish
<1>21. CASE UNCHANGED vars
  BY <1>21 DEF vars
<1>22. QED
  BY <1>1, <1>2, <1>3, <1>4, <1>5, <1>6, <1>7, <1>8, <1>9, <1>10, <1>11,
     <1>12, <1>13, <1>14, <1>15, <1>16, <1>17, <1>18, <1>19, <1>20, <1>21
  DEF Next, StartStep, StopStep, RequestStep

\* Only CallStop calls RunServer's stop.
LEMMA InstanceLeavesStop ==
  ASSUME TypeOK, InstanceStep, stopPc[RunStopper] = "idle"
  PROVE  stopPc'[RunStopper] = "idle"
<1> USE DEF TypeOK, starters, stoppers
<1>1. ASSUME NEW s \in Starters, StartStep(s) PROVE stopPc' = stopPc
  BY <1>1 DEF StartStep, StartCall, StartPrepare, StartPublish, StartSpawn,
              StartListen, StartReturn, BgListen, BgReturn
<1>2. ASSUME NEW t \in Stoppers, t # RunStopper, StopCall(t)
      PROVE  stopPc'[RunStopper] = "idle"
  BY <1>2, RunAssumption, LifecycleAssumption DEF StopCall, StopGoes
<1>3. ASSUME NEW t \in Stoppers, StopStep(t)
      PROVE  stopPc'[RunStopper] = "idle"
  <2>1. t # RunStopper /\ \E v : stopPc' = [stopPc EXCEPT ![t] = v]
    BY <1>3 DEF StopStep, StopSkip, StopClose, StopShutdown, StopDrained,
                StopExpired, StopCancel, StopClear, StopGoes,
                ShutdownServerReturnsNil
  <2>2. QED
    BY <2>1, RunAssumption, LifecycleAssumption
<1>4. ASSUME NEW r \in Requests, RequestStep(r) PROVE stopPc' = stopPc
  BY <1>4 DEF RequestStep, Accept, StreamOpen, StreamEnd, Finish
<1>5. QED
  BY <1>1, <1>2, <1>3, <1>4 DEF InstanceStep

LEMMA RunStagesStep ==
  ASSUME TypeOK, RunStages, [RunNext]_allVars
  PROVE  RunStages'
<1> USE DEF RunStages
<1>0. /\ startPc[RunStarter] = "returned" => startPc'[RunStarter] = "returned"
      /\ stopPc[RunStopper] = "done" => stopPc'[RunStopper] = "done"
      /\ stopPc[RunStopper] = "error" => stopPc'[RunStopper] = "error"
  BY RunStepIsStep, ReturnedStays, RunAssumption, LifecycleAssumption
<1>1. CASE InstanceStep
  BY <1>0, <1>1, InstanceLeavesStop DEF InstanceStep, runVars
<1>2. CASE Signal \/ Launch \/ ReportError \/ SelectError \/ SelectQuit
  BY <1>2 DEF Signal, Launch, ReportError, SelectError, SelectQuit, vars,
              starters, stoppers
<1>3. CASE CallStop
  BY <1>0, <1>3 DEF CallStop
<1>4. CASE StopReturned
  BY <1>4 DEF StopReturned, vars, starters, stoppers
<1>5. CASE UNCHANGED allVars
  BY <1>5 DEF allVars, vars, runVars, starters, stoppers
<1>6. QED
  BY <1>1, <1>2, <1>3, <1>4, <1>5 DEF RunNext, RunStep

(* Whatever requests, signals and other stops do: when RunServer returns   *)
(* nil nothing is served and nothing in flight, and when it returns an     *)
(* error with requests in flight, its timeout expired or the application   *)
(* stopped the instance itself.                                            *)
THEOREM RunReturnsDrained ==
  ASSUME OnlyRunStarts PROVE RunSpec => []ReturnsDrained
<1> USE LifecycleAssumption, RunAssumption
<1>1. RunInit => RunListener /\ RunStages
  BY DEF RunInit, Init, RunListener, RunStages, Active, Listeners
<1>2. TypeOK /\ OwnInv /\ RunListener /\ RunStages /\ [RunNext]_allVars
        => RunListener' /\ RunStages'
  BY RunStepIsStep, RunListenerStep, RunStagesStep DEF OwnInv
<1>3. TypeOK /\ OwnInv /\ RunListener /\ RunStages => ReturnsDrained
  <2> SUFFICES ASSUME TypeOK, OwnInv, RunListener, RunStages,
                      runPc = "returned"
               PROVE  ReturnsDrained
    BY DEF ReturnsDrained
  <2>1. \A x \in Listeners \ {DefaultServer} :
          serving[x] = NoRun /\ Active(x) = {}
    BY DEF OwnInv, OnlyOwn, OnlyPlain, Active, OnlyRunStarts, PlainHttp
  <2>2. CASE result = "nil"
    <3>1. Drained(DefaultServer) /\ serving[DefaultServer] = NoRun
      BY <2>2 DEF RunStages, OwnInv, Stage, Silenced, Drained
    <3>2. QED
      BY <2>1, <3>1 DEF ReturnsDrained, Drained
  <2>3. CASE result = "shutdown"
    <3>1. stopErr[RunStopper]
      BY <2>3 DEF RunStages, OwnInv, Stage
    <3>2. QED
      BY <2>3, <3>1 DEF ReturnsDrained
  <2>4. CASE result = "server"
    <3>1. startPc[RunStarter] = "returned" /\ stopPc[RunStopper] = "idle"
      BY <2>4 DEF RunStages
    <3>2. CASE Active(DefaultServer) = {}
      BY <2>1, <2>4, <3>2 DEF ReturnsDrained
    <3>3. CASE Active(DefaultServer) # {}
      <4>1. DefaultServer \in inShutdown
        BY <3>1, <3>3 DEF RunListener
      <4>2. \E t \in Stoppers \ {RunStopper} : stopPc[t] # "idle"
        BY <3>1, <4>1 DEF RunListener
      <4>3. QED
        BY <2>4, <4>2 DEF ReturnsDrained
    <3>4. QED
      BY <3>2, <3>3
  <2>5. QED
    BY <2>2, <2>3, <2>4 DEF RunStages
<1>4. OwnServers
  BY DEF OnlyRunStarts, PlainHttp
<1>5. QED
  BY <1>1, <1>2, <1>3, <1>4, RunIsLifecycle, OwnInvHolds, TypeCorrect, PTL
     DEF RunSpec, RunInit
=============================================================================
