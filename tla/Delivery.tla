------------------------------ MODULE Delivery ------------------------------
(***************************************************************************)
(* What a call of the HTTP client promises its caller, whatever fails on   *)
(* the way: how often the server carries the request out at most, early    *)
(* or late, and that a status the caller sees is the answer to its last    *)
(* attempt.                                                                *)
(*                                                                         *)
(* ClientRetry implements it.                                              *)
(***************************************************************************)
EXTENDS Naturals

CONSTANTS
  Calls,
  Statuses,  (* what a server answers with                                  *)
  Failures   (* the errors a call may end with                              *)

VARIABLES
  allowed,   \* how often the server may carry each call's request out
  effects,   \* how often it has
  given,     \* the status the client holds, or "none"
  result     \* what the call returned, or "none"

vars == <<allowed, effects, given, result>>

Init ==
  /\ allowed \in [Calls -> Nat \ {0}]
  /\ effects = [c \in Calls |-> 0]
  /\ given = [c \in Calls |-> "none"]
  /\ result = [c \in Calls |-> "none"]

\* The server carries the request out, perhaps after the client gave up.
Execute(c) ==
  /\ effects[c] < allowed[c]
  /\ effects' = [effects EXCEPT ![c] = @ + 1]
  /\ UNCHANGED <<allowed, given, result>>

\* A status reaches the client; a server may give one without doing anything.
Reply(c, s) ==
  /\ result[c] = "none"
  /\ given' = [given EXCEPT ![c] = s]
  /\ UNCHANGED <<allowed, effects, result>>

\* The client gives a status up, to try again.
Discard(c) ==
  /\ result[c] = "none"
  /\ given' = [given EXCEPT ![c] = "none"]
  /\ UNCHANGED <<allowed, effects, result>>

\* The call returns the status it holds, or one of the errors.
Return(c) ==
  /\ result[c] = "none"
  /\ \E r \in Failures \cup ({given[c]} \ {"none"}) :
       result' = [result EXCEPT ![c] = r]
  /\ UNCHANGED <<allowed, effects, given>>

Next ==
  \E c \in Calls :
    \/ Execute(c) \/ Discard(c) \/ Return(c)
    \/ \E s \in Statuses : Reply(c, s)

Spec == Init /\ [][Next]_vars
=============================================================================
