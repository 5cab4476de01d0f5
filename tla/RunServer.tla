----------------------------- MODULE RunServer -----------------------------
(***************************************************************************)
(* The command-line runner (okapicli): RunServer starts an instance in a   *)
(* goroutine, waits for a signal or for the error that goroutine reports,  *)
(* and stops the instance with a timeout.  The instance is Lifecycle's:    *)
(* one of its starters is RunServer's goroutine, one of its stoppers is    *)
(* RunServer itself, and the others belong to the application.             *)
(***************************************************************************)
EXTENDS Lifecycle

CONSTANTS
  RunStarter,  (* the goroutine that calls Start                            *)
  RunStopper   (* RunServer's own StopWithContext                           *)

\* The timeout is never zero or negative, so the context always expires.
ASSUME RunAssumption ==
  RunStarter \in Starters /\ StartWith[RunStarter] = OwnField /\ RunStopper \in Deadlined

VARIABLES
  runPc,         \* where RunServer is
  quit,          \* a signal waits in the channel
  serverErrors,  \* "unsent", "sent" or "received": the error Start returned
  result         \* what RunServer returned: "none", "nil", "server", "shutdown"

runVars == <<runPc, quit, serverErrors, result>>

RunTypeOK ==
  /\ runPc \in {"setup", "select", "onShutdown", "stopping", "returned"}
  /\ quit \in BOOLEAN
  /\ serverErrors \in {"unsent", "sent", "received"}
  /\ result \in {"none", "nil", "server", "shutdown"}

RunInit ==
  /\ Init
  /\ runPc = "setup" /\ quit = FALSE /\ serverErrors = "unsent" /\ result = "none"

\* After signal.Notify: a signal is kept if there is room for it.
Signal ==
  /\ runPc # "returned"
  /\ quit' = TRUE
  /\ UNCHANGED <<vars, runPc, serverErrors, result>>

\* OnStart, then the goroutine that calls Start.
Launch ==
  /\ runPc = "setup"
  /\ runPc' = "select"
  /\ UNCHANGED <<vars, quit, serverErrors, result>>

\* Start returned, always with an error: a bind error or ErrServerClosed.
ReportError ==
  /\ startPc[RunStarter] = "returned" /\ serverErrors = "unsent"
  /\ serverErrors' = "sent"
  /\ UNCHANGED <<vars, runPc, quit, result>>

SelectError ==
  /\ runPc = "select" /\ serverErrors = "sent"
  /\ serverErrors' = "received" /\ runPc' = "returned" /\ result' = "server"
  /\ UNCHANGED <<vars, quit>>

SelectQuit ==
  /\ runPc = "select" /\ quit
  /\ quit' = FALSE /\ runPc' = "onShutdown"
  /\ UNCHANGED <<vars, serverErrors, result>>

\* OnShutdown has returned and the timeout begins to run.
CallStop ==
  /\ runPc = "onShutdown"
  /\ StopCall(RunStopper)
  /\ runPc' = "stopping"
  /\ UNCHANGED <<quit, serverErrors, result>>

\* Bug: the shutdown goes on in a goroutine while RunServer returns.
StopReturnedAtOnce ==
  /\ runPc = "stopping"
  /\ runPc' = "returned" /\ result' = "nil"
  /\ UNCHANGED <<vars, quit, serverErrors>>

StopReturned ==
  /\ runPc = "stopping"
  /\ \/ stopPc[RunStopper] = "done" /\ result' = "nil"
     \/ stopPc[RunStopper] = "error" /\ result' = "shutdown"
  /\ runPc' = "returned"
  /\ UNCHANGED <<vars, quit, serverErrors>>

RunStep ==
  Launch \/ ReportError \/ SelectError \/ SelectQuit \/ CallStop \/ StopReturned

\* The instance goes on by itself, but RunServer's goroutine starts when it is launched
\* and its StopWithContext is called by CallStop.
InstanceStep ==
  /\ \/ \E s \in Starters : (s = RunStarter => runPc # "setup") /\ StartStep(s)
     \/ \E t \in Stoppers : (t # RunStopper /\ StopCall(t)) \/ StopStep(t)
     \/ \E r \in Requests : RequestStep(r)
  /\ UNCHANGED runVars

RunNext == NoPanic /\ (Signal \/ RunStep \/ InstanceStep)

(***************************************************************************)
(* Fairness, beside Lifecycle's: RunServer and its goroutine go on,        *)
(* callbacks return.  Signals may never come.                              *)
(***************************************************************************)
allVars == <<vars, runVars>>

RunSpec ==
  /\ RunInit /\ [][RunNext]_allVars
  /\ WF_allVars(NoPanic /\ RunStep)
  /\ \A t \in Stoppers : WF_allVars(NoPanic /\ StopStep(t) /\ UNCHANGED runVars)

-----------------------------------------------------------------------------
\* When RunServer returns nil, after a signal that came at any moment, the start included,
\* and beside other stops, nothing is served and no request is cut off by the end of the
\* process; when it returns an error, no request is cut off unless the timeout expired or
\* the application stopped the instance itself.
ReturnsDrained ==
  runPc = "returned" =>
    \/ \A x \in Listeners : Active(x) = {} /\ (result = "nil" => serving[x] = NoRun)
    \/ result = "shutdown" /\ stopErr[RunStopper]
    \/ result = "server" /\ \E t \in Stoppers \ {RunStopper} : stopPc[t] # "idle"

\* A signal ends RunServer, whatever requests do and whoever else stops the instance: the
\* timeout is for the whole of the shutdown.
SignalEndsRun == quit ~> (runPc = "returned" \/ ~NoPanic)
=============================================================================
