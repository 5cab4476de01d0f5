---------------------------- MODULE ClientRetry ----------------------------
(***************************************************************************)
(* Calls of the HTTP client: RequestBuilder.Do (client/request.go), the    *)
(* round tripper it builds (client/client.go) and retryMiddleware          *)
(* (client/retry.go), over a transport that gives a call a connection out  *)
(* of a limited number and takes it back when the response is closed.      *)
(*                                                                         *)
(* A body is a number of chunks, read once.  An attempt may fail at any    *)
(* point, by a broken connection, a timeout or the caller's context, while *)
(* the server goes on with what it received.                               *)
(***************************************************************************)
EXTENDS Naturals, Sequences

CONSTANTS
  Calls,
  Statuses,     (* what servers answer with                                 *)
  Settings,     (* a RequestBuilder's request and RetryPolicy.              *)
                (* idempotent: may its method be repeated; key: is there    *)
                (* an Idempotency-Key; chunks: the body's, 0 for none;      *)
                (* retryOn: the statuses of RetryOnStatus or, if custom,    *)
                (* the outcomes ShouldRetry accepts; delay: is BaseDelay    *)
                (* positive                                                 *)
  Connections   (* the transport's limit                                    *)

Outcomes == Statuses \cup {"error"}

ASSUME ClientAssumption ==
  /\ \A word \in {"none", "error", "cancelled", "unsent", "unread"} :
       word \notin Statuses
  /\ Settings \subseteq
       [idempotent : BOOLEAN, key : BOOLEAN, chunks : Nat,
        maxAttempts : Nat, delay : BOOLEAN, custom : BOOLEAN,
        retryOn : SUBSET Outcomes, retryNonIdempotent : BOOLEAN]
  /\ Connections \in Nat \ {0}

VARIABLES
  setting,    \* each call's request and policy, fixed
  pc,         \* "idle", "buffer", "send", "sending", "served", "judge",
              \* "drain", "backoff", "read", "done"
  attempt,
  unread,     \* the chunks left in req.Body
  received,   \* the chunks of this attempt that the server has
  resp,       \* the status of the open response, or "none"
  cancelled,  \* calls whose context has ended
  held,       \* the connections each call holds
  free,       \* the connections nobody holds
  result,     \* what Do returned, or "none": a status or an error
  outcomes,   \* history: what the attempts the loop is done with ended in
  effects,    \* the bodies with which the server carried the request out
  orphans     \* those of failed attempts the server has yet to carry out

transport == <<held, free>>
server == <<effects, orphans>>
vars == <<setting, pc, attempt, unread, received, resp, cancelled, transport,
          result, outcomes, server>>

Stages == {"idle", "buffer", "send", "sending", "served", "judge", "drain",
           "backoff", "read", "done"}
Errors == {"error", "cancelled", "unsent", "unread"}

\* The type of every variable.
TypeOK ==
  /\ setting \in [Calls -> Settings]
  /\ pc \in [Calls -> Stages]
  /\ attempt \in [Calls -> Nat \ {0}]
  /\ unread \in [Calls -> Nat]
  /\ received \in [Calls -> Nat]
  /\ resp \in [Calls -> Statuses \cup {"none"}]
  /\ cancelled \subseteq Calls
  /\ held \in [Calls -> Nat]
  /\ free \in Nat
  /\ result \in [Calls -> Statuses \cup Errors \cup {"none"}]
  /\ outcomes \in [Calls -> Seq(Outcomes)]
  /\ effects \in [Calls -> Seq(Nat)]
  /\ orphans \in [Calls -> Seq(Nat)]

-----------------------------------------------------------------------------
(* The retry policy.                                                       *)

Enabled(c) == setting[c].maxAttempts > 1

\* Bug: whatever the policy allows is repeated.
CanRetryAnything(c) == TRUE

CanRetry(c) ==
  setting[c].retryNonIdempotent \/ setting[c].idempotent \/ setting[c].key

\* The retry middleware is installed and does not pass the request on as is.
Retries(c) == Enabled(c) /\ CanRetry(c)

Limit(c) == IF Retries(c) THEN setting[c].maxAttempts ELSE 1

\* Bug: the predicate is asked only when the default would retry.
ShouldRetryBoth(c, outcome) ==
  outcome \in setting[c].retryOn \/ outcome = "error"

ShouldRetry(c, outcome) ==
  \/ outcome \in setting[c].retryOn
  \/ ~setting[c].custom /\ outcome = "error"

-----------------------------------------------------------------------------
Init ==
  /\ setting \in [Calls -> Settings]
  /\ pc = [c \in Calls |-> "idle"]
  /\ attempt = [c \in Calls |-> 1]
  /\ unread = [c \in Calls |-> setting[c].chunks]
  /\ received = [c \in Calls |-> 0]
  /\ resp = [c \in Calls |-> "none"]
  /\ cancelled = {}
  /\ held = [c \in Calls |-> 0]
  /\ free = Connections
  /\ result = [c \in Calls |-> "none"]
  /\ outcomes = [c \in Calls |-> <<>>]
  /\ effects = [c \in Calls |-> <<>>]
  /\ orphans = [c \in Calls |-> <<>>]

Goes(c, stage) == pc' = [pc EXCEPT ![c] = stage]

Returns(c, r) ==
  /\ Goes(c, "done")
  /\ result' = [result EXCEPT ![c] = r]

\* The connection goes back to the transport, or is discarded by it.
Releases(c) ==
  /\ held' = [held EXCEPT ![c] = @ - 1]
  /\ free' = free + 1

KeepConnection == UNCHANGED transport

\* Do builds the request and enters the chain.
Do(c) ==
  /\ pc[c] = "idle"
  /\ Goes(c, IF Retries(c) /\ setting[c].chunks > 0 THEN "buffer" ELSE "send")
  /\ UNCHANGED <<setting, attempt, unread, received, resp, cancelled,
                 transport, result, outcomes, server>>

\* retryMiddleware reads the caller's body into memory; the read may fail.
BufferBody(c) ==
  /\ pc[c] = "buffer"
  /\ \/ Goes(c, "send") /\ UNCHANGED result
     \/ Returns(c, "unsent")
  /\ UNCHANGED <<setting, attempt, unread, received, resp, cancelled,
                 transport, outcomes, server>>

-----------------------------------------------------------------------------
(* One attempt, by http.Client and a server.                               *)

Connect(c) ==
  /\ pc[c] = "send"
  /\ c \notin cancelled
  /\ free > 0
  /\ free' = free - 1
  /\ held' = [held EXCEPT ![c] = @ + 1]
  /\ received' = [received EXCEPT ![c] = 0]
  /\ Goes(c, "sending")
  /\ UNCHANGED <<setting, attempt, unread, resp, cancelled, result, outcomes,
                 server>>

SendChunk(c) ==
  /\ pc[c] = "sending"
  /\ unread[c] > 0
  /\ unread' = [unread EXCEPT ![c] = @ - 1]
  /\ received' = [received EXCEPT ![c] = @ + 1]
  /\ UNCHANGED <<setting, pc, attempt, resp, cancelled, transport, result,
                 outcomes, server>>

\* The body ends: the server carries the request out.
Execute(c) ==
  /\ pc[c] = "sending"
  /\ unread[c] = 0
  /\ effects' = [effects EXCEPT ![c] = Append(@, received[c])]
  /\ Goes(c, "served")
  /\ UNCHANGED <<setting, attempt, unread, received, resp, cancelled,
                 transport, result, outcomes, orphans>>

\* A response arrives: the answer to what was carried out, or one the server
\* or a proxy gives at any point of the body instead of carrying it out.
Respond(c) ==
  /\ pc[c] \in {"sending", "served"}
  /\ \E s \in Statuses : resp' = [resp EXCEPT ![c] = s]
  /\ Goes(c, "judge")
  /\ UNCHANGED <<setting, attempt, unread, received, cancelled, transport,
                 result, outcomes, server>>

\* The attempt fails.  A server that has the whole body may go on with it.
AttemptFails(c) ==
  /\ \/ pc[c] = "send" /\ KeepConnection /\ UNCHANGED orphans
     \/ /\ pc[c] \in {"sending", "served"}
        /\ Releases(c)
        /\ \/ UNCHANGED orphans
           \/ /\ pc[c] = "sending" /\ unread[c] = 0
              /\ orphans' = [orphans EXCEPT ![c] = Append(@, received[c])]
  /\ Goes(c, "judge")
  /\ UNCHANGED <<setting, attempt, unread, received, resp, cancelled, result,
                 outcomes, effects>>

\* The server carries out what a failed attempt left behind.
LateExecute(c) ==
  /\ orphans[c] # <<>>
  /\ effects' = [effects EXCEPT ![c] = Append(@, Head(orphans[c]))]
  /\ orphans' = [orphans EXCEPT ![c] = Tail(@)]
  /\ UNCHANGED <<setting, pc, attempt, unread, received, resp, cancelled,
                 transport, result, outcomes>>

-----------------------------------------------------------------------------
(* The loop of retryMiddleware.                                            *)

Outcome(c) == IF resp[c] = "none" THEN "error" ELSE resp[c]

\* The last response is returned unread, even when retryable.
Last(c) == attempt[c] = Limit(c) \/ ~ShouldRetry(c, Outcome(c))

\* The attempt's response or error is returned to Do.
GiveUp(c) ==
  /\ pc[c] = "judge"
  /\ Last(c)
  /\ outcomes' = [outcomes EXCEPT ![c] = Append(@, Outcome(c))]
  /\ IF resp[c] = "none" THEN Returns(c, "error")
                         ELSE Goes(c, "read") /\ UNCHANGED result
  /\ UNCHANGED <<setting, attempt, unread, received, resp, cancelled,
                 transport, server>>

\* Bug: the next attempt goes on reading the body where the last one stopped.
NextAttemptUnwound(c) ==
  /\ attempt' = [attempt EXCEPT ![c] = @ + 1]
  /\ resp' = [resp EXCEPT ![c] = "none"]
  /\ unread' = unread
  /\ Goes(c, IF setting[c].delay THEN "backoff" ELSE "send")

\* The next turn of the loop: a backoff, if any, and the body from its start.
NextAttempt(c) ==
  /\ attempt' = [attempt EXCEPT ![c] = @ + 1]
  /\ resp' = [resp EXCEPT ![c] = "none"]
  /\ unread' = [unread EXCEPT ![c] = setting[c].chunks]
  /\ Goes(c, IF setting[c].delay THEN "backoff" ELSE "send")

\* The attempt is not the last.  An error leads to the next turn, a response
\* is drained first.
TryAgain(c) ==
  /\ pc[c] = "judge"
  /\ ~Last(c)
  /\ outcomes' = [outcomes EXCEPT ![c] = Append(@, Outcome(c))]
  /\ IF resp[c] = "none" THEN NextAttempt(c)
     ELSE Goes(c, "drain") /\ UNCHANGED <<attempt, unread, resp>>
  /\ UNCHANGED <<setting, received, cancelled, transport, result, server>>

\* Bug: the response is drained but never closed.
DrainUnclosed(c) ==
  /\ pc[c] = "drain"
  /\ KeepConnection
  /\ NextAttempt(c)
  /\ UNCHANGED <<setting, received, cancelled, result, outcomes, server>>

\* The response is read to its end, or as far as it goes, and closed.
Drain(c) ==
  /\ pc[c] = "drain"
  /\ Releases(c)
  /\ NextAttempt(c)
  /\ UNCHANGED <<setting, received, cancelled, result, outcomes, server>>

\* The timer of the backoff fires first.
BackoffEnds(c) ==
  /\ pc[c] = "backoff"
  /\ Goes(c, "send")
  /\ UNCHANGED <<setting, attempt, unread, received, resp, cancelled,
                 transport, result, outcomes, server>>

\* Bug: the context is looked at when the backoff is over.
BackoffSleeps(c) ==
  /\ pc[c] = "send"
  /\ attempt[c] > 1
  /\ c \in cancelled
  /\ Returns(c, "cancelled")
  /\ UNCHANGED <<setting, attempt, unread, received, resp, cancelled,
                 transport, outcomes, server>>

\* The context ends first.
BackoffInterrupted(c) ==
  /\ pc[c] = "backoff"
  /\ c \in cancelled
  /\ Returns(c, "cancelled")
  /\ UNCHANGED <<setting, attempt, unread, received, resp, cancelled,
                 transport, outcomes, server>>

\* Do reads the response into memory and closes it.
ReadResponse(c) ==
  /\ pc[c] = "read"
  /\ \E r \in {resp[c], "unread"} : Returns(c, r)
  /\ Releases(c)
  /\ UNCHANGED <<setting, attempt, unread, received, resp, cancelled,
                 outcomes, server>>

\* The caller's context ends.
Cancel(c) ==
  /\ pc[c] # "done"
  /\ cancelled' = cancelled \cup {c}
  /\ UNCHANGED <<setting, pc, attempt, unread, received, resp, transport,
                 result, outcomes, server>>

Serve(c) == SendChunk(c) \/ Execute(c) \/ Respond(c) \/ LateExecute(c)

Loop(c) ==
  \/ BufferBody(c) \/ GiveUp(c) \/ TryAgain(c) \/ Drain(c)
  \/ BackoffInterrupted(c) \/ ReadResponse(c)

CallStep(c) ==
  \/ Do(c) \/ Connect(c) \/ Serve(c) \/ AttemptFails(c) \/ Loop(c)
  \/ BackoffEnds(c) \/ Cancel(c)

Next == \E c \in Calls : CallStep(c)

Spec == Init /\ [][Next]_vars

\* The goroutine of a call goes on; an attempt that has a connection gets an
\* answer; http.Client fails an attempt whose context has ended.  Nothing is
\* assumed of the backoff's timer, whose delay has no bound when MaxDelay is
\* 0, nor of a timeout, which WithTimeout(0) turns off.
Fairness ==
  \A c \in Calls :
    /\ WF_vars(Loop(c)) /\ WF_vars(Connect(c)) /\ WF_vars(Serve(c))
    /\ WF_vars(c \in cancelled /\ AttemptFails(c))

FairSpec == Spec /\ Fairness

-----------------------------------------------------------------------------
(* What makes a call correct.                                              *)

\* Every time the server carries a request out it has the caller's body, from
\* its first chunk to its last, wherever the attempts before stopped reading.
WholeBody ==
  \A c \in Calls : \A i \in 1..Len(effects[c]) :
    effects[c][i] = setting[c].chunks

\* A call that waits, for a connection, in a backoff or for nothing any more,
\* holds no connection: every response but the one returned was closed.
WaitsEmptyHanded ==
  \A c \in Calls : pc[c] \in {"send", "backoff", "done"} => held[c] = 0

\* What a policy retries, in the words of RetryPolicy: ShouldRetry replaces
\* RetryOnStatus and the default retry on transport errors.
Retryable(c, outcome) ==
  IF setting[c].custom \/ outcome # "error"
  THEN outcome \in setting[c].retryOn ELSE TRUE

\* A call stops at the first outcome its policy accepts and returns that: of
\* the outcomes before the last, each was to be retried; a status or transport
\* error returned is the last outcome; and an interrupted backoff gives up no
\* acceptable answer.
StopsAtAcceptable ==
  \A c \in Calls :
    LET n == Len(outcomes[c])
    IN /\ \A i \in 1..n - 1 : Retryable(c, outcomes[c][i])
       /\ result[c] \in Outcomes => n > 0 /\ outcomes[c][n] = result[c]
       /\ result[c] = "cancelled" => n > 0 /\ Retryable(c, outcomes[c][n])

\* A call comes to an end, whoever holds the connections and whatever fails,
\* unless it waits in a backoff with its context alive: backoff is interrupted
\* when the context is cancelled.
CallsEnd ==
  \A c \in Calls :
    pc[c] # "idle" ~>
      pc[c] = "done" \/ (pc[c] = "backoff" /\ c \notin cancelled)

\* How often a request may be carried out, in the words of RetryPolicy.
Allowed(c) ==
  IF /\ setting[c].maxAttempts > 0
     /\ \/ setting[c].idempotent \/ setting[c].key
        \/ setting[c].retryNonIdempotent
  THEN setting[c].maxAttempts ELSE 1

Contract == INSTANCE Delivery WITH
  Failures <- Errors,
  allowed <- [c \in Calls |-> Allowed(c)],
  effects <- [c \in Calls |-> Len(effects[c])],
  given <- resp

\* A call keeps the promise of Delivery: the server carries a request that
\* must not be repeated out at most once, early or late, and any other at most
\* MaxAttempts times, whatever fails on the way and whatever the client does
\* not learn of; and a status returned answers the last attempt.
Delivers == Contract!Spec
=============================================================================
