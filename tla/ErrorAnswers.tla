---------------------------- MODULE ErrorAnswers ----------------------------
(***************************************************************************)
(* How a request is answered when something fails: the helpers of          *)
(* errors.go, the error handler of the application or of the request that  *)
(* formats most of their answers, and what an answer shows of the texts    *)
(* that were at hand.  Which call comes first commits the response         *)
(* (Dispatch); here it is what that call writes.                           *)
(***************************************************************************)
EXTENDS Integers

CONSTANTS
  Statuses,    \* codes for which there are helpers
  OddStatuses  \* those whose helper's own text is not net/http's: 400, 408, 413, ...

ASSUME ErrorAssumption == Statuses \subseteq Nat \ {0}

NoText == <<>>
Given == <<"given">>             \* a message the application gives
Cause == <<"cause">>             \* the text of an error the application has
Shown == <<"value">>             \* a value to send as it is
StatusText(code) == <<"status", code>>
DefaultText(code) == IF code \in OddStatuses THEN <<"helper", code>> ELSE StatusText(code)

\* An error handler: the application's own, written as the documentation has it, with the
\* message and without the error; okapi's two; or nil.
ErrorHandlers == {"own", "default", "problem", "nil"}

VARIABLES
  okapiHandler,    \* Okapi.errorHandler
  contextHandler,  \* Context.errorHandler
  answered,        \* what was committed, as [status, shows]
  call             \* what the handlers did first: the call, and the handlers at that time

errorVars == <<okapiHandler, contextHandler, answered, call>>

NoAnswer == [status |-> 0, shows |-> {}]
NoCall == [kind |-> "none", status |-> 0, message |-> NoText, app |-> "nil", request |-> "nil"]

ErrorInit ==
  /\ okapiHandler = "default" /\ contextHandler = "nil"
  /\ answered = NoAnswer /\ call = NoCall

-----------------------------------------------------------------------------
\* WithErrorHandler, WithDefaultErrorHandler, WithProblemDetailErrorHandler, before requests.
WithErrorHandler(handler) ==
  /\ call = NoCall /\ contextHandler = "nil"
  /\ okapiHandler' = handler
  /\ UNCHANGED <<contextHandler, answered, call>>

SetErrorHandler(handler) ==
  /\ contextHandler' = handler
  /\ UNCHANGED <<okapiHandler, answered, call>>

\* Bug: the application's handler is preferred.
ContextErrorHandlerGlobal ==
  IF okapiHandler # "nil" THEN okapiHandler
  ELSE IF contextHandler # "nil" THEN contextHandler ELSE "default"

\* getContextErrorHandler
ContextErrorHandler ==
  IF contextHandler # "nil" THEN contextHandler
  ELSE IF okapiHandler # "nil" THEN okapiHandler ELSE "default"

\* writeResponse, and the same test in the helpers without a body.
Commit(status, shows) ==
  answered' = IF answered # NoAnswer THEN answered ELSE [status |-> status, shows |-> shows]

Record(kind, status, message) ==
  /\ call' = IF call # NoCall THEN call
             ELSE [kind |-> kind, status |-> status, message |-> message,
                   app |-> okapiHandler, request |-> contextHandler]
  /\ UNCHANGED <<okapiHandler, contextHandler>>

\* The error is a set of texts, empty for nil.
DefaultErrorHandler(code, message, error) == {message} \cup error

\* ProblemDetailErrorHandler: the error where the message would repeat the title.
ProblemDetail(code, message, error) ==
  {StatusText(code)} \cup (IF message \notin {NoText, StatusText(code)} THEN {message} ELSE error)

Handle(code, message, error) ==
  LET handler == ContextErrorHandler
  IN  Commit(code, IF handler = "problem" THEN ProblemDetail(code, message, error)
                   ELSE IF handler = "default" THEN DefaultErrorHandler(code, message, error)
                   ELSE {message})

-----------------------------------------------------------------------------
\* AbortBadRequest and its like for every status, by abortWithStatus, Respond and the typed
\* handlers among their callers: the error may be left out, or nil.
AbortHelper(code, msg, error) ==
  LET message == IF msg = NoText THEN DefaultText(code) ELSE msg
  IN  /\ Handle(code, message, IF error = {} THEN {message} ELSE error)
      /\ Record("handler", code, msg)

\* AbortWithError, and Abort, whose status is 500.
AbortWithError(code, error) ==
  Handle(code, StatusText(code), error) /\ Record("handler", code, StatusText(code))

\* ErrorBadRequest and its like, and AbortWithJSON: the value alone.
ErrorHelper(code) == Commit(code, {Shown}) /\ Record("value", code, NoText)

\* Error, AbortWithStatus, AbortValidationErrors and AbortWithProblemDetail, with the
\* application's message in a form of their own.
FixedForm(code) == Commit(code, {Given}) /\ Record("fixed", code, Given)

\* ErrorNotModified and AbortNotModified
NotModified == Commit(304, {}) /\ Record("value", 304, NoText)

\* The chain returns an error, which handleChainError only logs.
HandleError == Handle(500, StatusText(500), {}) /\ Record("returned", 500, StatusText(500))

ErrorNext ==
  \/ \E handler \in ErrorHandlers : WithErrorHandler(handler) \/ SetErrorHandler(handler)
  \/ \E code \in Statuses, error \in {{}, {Cause}} :
       \/ \E msg \in {NoText, Given, StatusText(code)} : AbortHelper(code, msg, error)
       \/ AbortWithError(code, error)
  \/ \E code \in Statuses : ErrorHelper(code) \/ FixedForm(code)
  \/ NotModified \/ HandleError

ErrorSpec == ErrorInit /\ [][ErrorNext]_errorVars

-----------------------------------------------------------------------------
\* Whatever the handlers of a request do after an answer, and whichever error handlers it and
\* the application set: the client gets the status and the message the first helper was
\* given, or a 500 for a returned error, of which it learns nothing.  The text of the error
\* given to a helper reaches it only through the default handler, or through problem details
\* for want of a message, where that handler is the request's own, or the application's and
\* the request has none.
CausesKept ==
  LET inEffect == IF call.request = "nil" THEN call.app ELSE call.request
  IN  call # NoCall =>
        /\ answered.status = call.status
        /\ call.message = Given => Given \in answered.shows
        /\ Cause \in answered.shows =>
             /\ call.kind = "handler"
             /\ \/ inEffect \in {"default", "nil"}
                \/ inEffect = "problem" /\ call.message # Given
=============================================================================
