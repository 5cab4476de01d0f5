---------------------------- MODULE PartsProofs -----------------------------
(***************************************************************************)
(* The parts that meet one call at a time, each for any inputs: who called, *)
(* what an error shows, how much of a body is read, who answers next to a  *)
(* web application, where a configuration has its values from, what a      *)
(* struct is bound to, and which events a client receives.                 *)
(***************************************************************************)
EXTENDS ForwardedIP, ErrorAnswers, BodyCap, WebFallback, CommandLine, Binding,
        EventStream, NumberLemmas, SequenceTheorems, TLAPS

-----------------------------------------------------------------------------
(* The address realIP returns, for any networks of trusted proxies and     *)
(* requests passed on any number of times.                                 *)

\* Types of the variables.
TypesOK ==
  /\ restricted \in BOOLEAN /\ honest \in BOOLEAN
  /\ peer \in Addresses /\ client \in Addresses
  /\ forwarded \in Seq(Written) /\ real \in Written \cup {Missing}
  /\ hops \in Nat

\* The proxy before the application replaced both headers.
Replaced == forwarded = <<>> /\ real = client /\ hops = MaxHops /\ peer \in Proxies

\* While only proxies wrote, the headers start with the client.
Untouched ==
  honest => \/ forwarded = <<>> /\ real = Missing /\ peer = client
            \/ forwarded # <<>> /\ forwarded[1] = client
            \/ Replaced

\* Behind a client outside of the trusted networks, its address stands in the headers with
\* nothing but proxies after it.
Behind ==
  client \notin Proxies /\ peer \in Proxies =>
    \/ Replaced
    \/ \E k \in DOMAIN forwarded :
         /\ forwarded[k] = client
         /\ \A j \in DOMAIN forwarded : j > k => forwarded[j] \in Proxies

\* A request that starts at a proxy has met nobody else.
Inside ==
  client \in Proxies =>
    /\ honest /\ peer \in Proxies
    /\ \A j \in DOMAIN forwarded : forwarded[j] \in Proxies

ForwardedInv ==
  /\ TypesOK /\ Untouched /\ Behind /\ Inside
  /\ peer \notin Proxies => peer = client

LEMMA RewriteStep ==
  ASSUME ForwardedInv, NEW host \in Hosts, NEW entries \in Seq(Written),
         NEW entry \in Written \cup {Missing}, Rewrite(host, entries, entry)
  PROVE  ForwardedInv'
<1> USE ForwardedAssumption
<1>1. /\ peer' = host /\ client' = host /\ honest' = FALSE /\ restricted' = restricted
      /\ forwarded' = entries /\ real' = entry /\ hops' \in Nat
  BY DEF Rewrite, ForwardedInv, TypesOK
<1>2. host \in Addresses /\ host \notin Proxies
  BY DEF Addresses
<1>3. TypesOK'
  BY <1>1, <1>2 DEF TypesOK, ForwardedInv
<1>4. Untouched' /\ Behind' /\ Inside'
  BY <1>1, <1>2 DEF Untouched, Behind, Inside
<1>5. QED
  BY <1>1, <1>3, <1>4 DEF ForwardedInv

LEMMA ForwardStep ==
  ASSUME ForwardedInv, NEW proxy \in Proxies, Forward(proxy)
  PROVE  ForwardedInv'
<1> USE ForwardedAssumption
<1> DEFINE n == Len(forwarded)
<1>1. /\ forwarded' = Append(forwarded, peer) /\ peer' = proxy /\ hops' = hops + 1
      /\ UNCHANGED <<restricted, real, client, honest>>
      /\ ~Replaced
  BY DEF Forward, Replaced, ForwardedInv, TypesOK
<1>2. /\ n \in Nat /\ DOMAIN forwarded = 1 .. n /\ DOMAIN forwarded' = 1 .. (n + 1)
      /\ forwarded'[n + 1] = peer
      /\ \A j \in 1 .. n : forwarded'[j] = forwarded[j]
      /\ forwarded' # <<>>
  BY <1>1 DEF ForwardedInv, TypesOK
<1>3. TypesOK'
  BY <1>1 DEF ForwardedInv, TypesOK, Written, Addresses
<1>4. Untouched'
  BY <1>1, <1>2 DEF ForwardedInv, Untouched
<1>5. Behind'
  <2> SUFFICES ASSUME client \notin Proxies
               PROVE  \E k \in 1 .. (n + 1) :
                        /\ forwarded'[k] = client
                        /\ \A j \in 1 .. (n + 1) : j > k => forwarded'[j] \in Proxies
    BY <1>1, <1>2 DEF Behind
  <2>1. CASE peer \in Proxies
    <3>1. PICK k \in 1 .. n :
            /\ forwarded[k] = client
            /\ \A j \in 1 .. n : j > k => forwarded[j] \in Proxies
      BY <2>1, <1>1, <1>2 DEF ForwardedInv, Behind
    <3>2. \A j \in 1 .. (n + 1) : j \in 1 .. n \/ j = n + 1
      BY <1>2
    <3>3. QED
      BY <3>1, <3>2, <2>1, <1>2
  <2>2. CASE peer \notin Proxies
    BY <2>2, <1>2 DEF ForwardedInv
  <2>3. QED
    BY <2>1, <2>2
<1>6. Inside'
  BY <1>1, <1>2 DEF ForwardedInv, Inside
<1>7. QED
  BY <1>1, <1>3, <1>4, <1>5, <1>6 DEF ForwardedInv

LEMMA ReplaceStep ==
  ASSUME ForwardedInv, NEW proxy \in Proxies, Replace(proxy)
  PROVE  ForwardedInv'
  BY ForwardedAssumption
  DEF ForwardedInv, Replace, TypesOK, Untouched, Behind, Inside, Addresses, Replaced, Written

\* What realIP makes of such headers.
LEMMA InvariantSees == ASSUME ForwardedInv PROVE ClientSeen
<1> USE ForwardedAssumption
<1> DEFINE n == Len(forwarded)
<1>1. /\ n \in Nat /\ DOMAIN forwarded = 1 .. n /\ client \in Addresses /\ real \in Written \cup {Missing}
      /\ (forwarded = <<>>) <=> (n = 0)
      /\ restricted \in BOOLEAN
  BY EmptySeq DEF ForwardedInv, TypesOK
<1>2. client \notin {Blank, Junk, Missing}
  BY <1>1
<1>3. CASE ~restricted /\ honest
  BY <1>1, <1>2, <1>3 DEF ClientSeen, RealIP, ForwardedInv, Untouched, Replaced
<1>4. CASE restricted /\ peer \notin Proxies
  BY <1>4 DEF ClientSeen, RealIP, Trusted, ForwardedInv
<1>5. CASE restricted /\ peer \in Proxies /\ forwarded = <<>>
  <2>1. ForwardedClientIP(forwarded) = Missing
    BY <1>1, <1>5 DEF ForwardedClientIP, Nonblank
  <2>2. \/ real = client
        \/ real = Missing /\ peer = client
    BY <1>1, <1>5 DEF ForwardedInv, Untouched, Behind, Inside, Replaced
  <2>3. QED
    BY <2>1, <2>2, <1>1, <1>2, <1>5 DEF ClientSeen, RealIP, Trusted
<1>6. CASE restricted /\ peer \in Proxies /\ forwarded # <<>> /\ client \notin Proxies
  <2>1. PICK k \in 1 .. n :
          /\ forwarded[k] = client
          /\ \A j \in 1 .. n : j > k => forwarded[j] \in Proxies
    BY <1>1, <1>6 DEF ForwardedInv, Behind, Replaced
  <2>2. k \in Stops(forwarded) /\ k \in Nonblank(forwarded)
    BY <2>1, <1>1, <1>2, <1>6 DEF Stops, Nonblank, Trusted
  <2>3. \A j \in Stops(forwarded) : j \in 1 .. n /\ k >= j
    BY <2>1, <1>1 DEF Stops, Nonblank, Trusted
  <2>4. Max(Stops(forwarded)) = k
    <3> HIDE DEF n
    <3>1. \A x \in Stops(forwarded) : (\A y \in Stops(forwarded) : x >= y) => x = k
      BY <2>2, <2>3, <1>1
    <3>2. QED
      BY <3>1, <2>2, <2>3 DEF Max
  <2>5. ForwardedClientIP(forwarded) = client
    BY <2>1, <2>2, <2>4, <1>2 DEF ForwardedClientIP
  <2>6. QED
    BY <2>5, <1>2, <1>6 DEF ClientSeen, RealIP, Trusted
<1>7. CASE restricted /\ peer \in Proxies /\ forwarded # <<>> /\ client \in Proxies
  <2>1. forwarded[1] = client /\ \A j \in 1 .. n : forwarded[j] \in Proxies
    BY <1>1, <1>7 DEF ForwardedInv, Untouched, Inside, Replaced
  <2>2. Stops(forwarded) = {} /\ Nonblank(forwarded) = 1 .. n /\ 1 \in 1 .. n
    BY <2>1, <1>1, <1>7 DEF Stops, Nonblank, Trusted, Addresses
  <2>3. Min(Nonblank(forwarded)) = 1
    <3> HIDE DEF n
    <3>1. \A x \in 1 .. n : (\A y \in 1 .. n : x <= y) => x = 1
      BY <2>2, <1>1
    <3>2. QED
      BY <3>1, <2>2, <1>1 DEF Min
  <2>4. ForwardedClientIP(forwarded) = client
    BY <2>1, <2>2, <2>3 DEF ForwardedClientIP
  <2>5. QED
    BY <2>4, <1>2, <1>7 DEF ClientSeen, RealIP, Trusted
<1>8. QED
  BY <1>1, <1>3, <1>4, <1>5, <1>6, <1>7 DEF ClientSeen

(* With trusted proxies configured, realIP returns the last host outside   *)
(* of them, whatever the headers held before and however many proxies were *)
(* passed; and without, as long as only proxies wrote into the headers.    *)
THEOREM ClientAlwaysSeen == ForwardedSpec => []ClientSeen
<1>1. ForwardedInit => ForwardedInv
  <2> SUFFICES ASSUME ForwardedInit PROVE ForwardedInv
    OBVIOUS
  <2>1. PICK origin \in Addresses : ForwardedStart(origin)
    BY DEF ForwardedInit
  <2>2. QED
    BY <2>1, ForwardedAssumption
    DEF ForwardedStart, ForwardedInv, TypesOK, Untouched, Behind, Inside, Addresses
<1>2. ForwardedInv /\ [ForwardedNext]_forwardedVars => ForwardedInv'
  <2> SUFFICES ASSUME ForwardedInv, [ForwardedNext]_forwardedVars
               PROVE  ForwardedInv'
    OBVIOUS
  <2>1. ASSUME NEW host \in Hosts, NEW entries \in UNION {[1 .. m -> Written] : m \in 0 .. 2},
               NEW entry \in Written \cup {Missing}, Rewrite(host, entries, entry)
        PROVE  ForwardedInv'
    <3>1. PICK m \in 0 .. 2 : entries \in [1 .. m -> Written]
      BY <2>1
    <3> entries \in Seq(Written)
      BY <3>1, SeqDef
    <3>2. QED
      BY <2>1, RewriteStep
  <2>2. CASE UNCHANGED forwardedVars
    BY <2>2 DEF forwardedVars, ForwardedInv, TypesOK, Untouched, Behind, Inside, Replaced
  <2>3. QED
    BY <2>1, <2>2, ForwardStep, ReplaceStep DEF ForwardedNext
<1>3. ForwardedInv => ClientSeen
  BY InvariantSees
<1>4. QED
  BY <1>1, <1>2, <1>3, PTL DEF ForwardedSpec

-----------------------------------------------------------------------------
(* What an answer shows, for any codes, helpers and error handlers.        *)

\* The first call is answered at once.
Answered ==
  /\ okapiHandler \in ErrorHandlers /\ contextHandler \in ErrorHandlers
  /\ call = NoCall <=> answered = NoAnswer
  /\ CausesKept

\* The texts at hand are told apart, for any codes.
LEMMA TextsDiffer ==
  ASSUME NEW code, NEW code2
  PROVE  /\ Given # Cause /\ Shown # Cause /\ Shown # Given /\ NoText # Cause
         /\ StatusText(code) # Cause /\ StatusText(code) # Given /\ StatusText(code) # NoText
         /\ DefaultText(code) # Cause /\ NoText # Given
  BY DEF Given, Cause, Shown, NoText, StatusText, DefaultText

\* A call after the first changes neither the answer nor the record.
LEMMA LaterCall ==
  ASSUME Answered, call # NoCall, answered # NoAnswer,
         NEW kind, NEW code, NEW message, NEW shows,
         Commit(code, shows), Record(kind, code, message)
  PROVE  Answered'
  BY DEF Answered, Commit, Record, CausesKept

\* The first call keeps the property when what it shows does.
LEMMA FirstCall ==
  ASSUME Answered, call = NoCall,
         NEW kind \in {"handler", "value", "fixed", "returned"},
         NEW code \in Statuses \cup {304, 500}, NEW message, NEW shows,
         Commit(code, shows), Record(kind, code, message),
         message = Given => Given \in shows,
         Cause \in shows =>
           /\ kind = "handler"
           /\ \/ ContextErrorHandler = "default"
              \/ ContextErrorHandler = "problem" /\ message # Given
  PROVE  Answered'
<1>1. /\ call' = [kind |-> kind, status |-> code, message |-> message,
                  app |-> okapiHandler, request |-> contextHandler]
      /\ answered' = [status |-> code, shows |-> shows]
      /\ UNCHANGED <<okapiHandler, contextHandler>>
  BY DEF Answered, Commit, Record
<1> code # 0
  BY ErrorAssumption
<1>2. code # 0 /\ call'.status = code /\ call'.kind = kind /\ call'.message = message
      /\ call'.app = okapiHandler /\ call'.request = contextHandler
      /\ answered'.status = code /\ answered'.shows = shows
  BY <1>1
<1>3. call' # NoCall /\ answered' # NoAnswer
  BY <1>2 DEF NoCall, NoAnswer
<1>4. CausesKept'
  BY <1>1, <1>2 DEF CausesKept, ContextErrorHandler, Answered, ErrorHandlers
<1>5. QED
  BY <1>1, <1>3, <1>4 DEF Answered

\* An answer through the error handler: the message recorded is the one passed on, unless it
\* is blank, and a returned error is not passed on.
LEMMA HandledCall ==
  ASSUME Answered, NEW code \in Statuses \cup {304, 500}, NEW kind \in {"handler", "returned"},
         NEW asked, NEW message, NEW error,
         Handle(code, message, error), Record(kind, code, asked),
         message # Cause,
         asked = Given => message = Given,
         message \in {NoText, StatusText(code)} => asked # Given,
         error \subseteq {Cause, message},
         kind = "returned" => error = {}
  PROVE  Answered'
<1>1. CASE call = NoCall
  <2> DEFINE handler == ContextErrorHandler
             shows == IF handler = "problem" THEN ProblemDetail(code, message, error)
                      ELSE IF handler = "default" THEN DefaultErrorHandler(code, message, error)
                      ELSE {message}
  <2>1. Commit(code, shows)
    BY DEF Handle
  <2>2. asked = Given => Given \in shows
    BY TextsDiffer DEF ProblemDetail, DefaultErrorHandler
  <2>3. ASSUME Cause \in shows
        PROVE  /\ kind = "handler"
               /\ \/ ContextErrorHandler = "default"
                  \/ ContextErrorHandler = "problem" /\ asked # Given
    BY <2>3, TextsDiffer DEF ProblemDetail, DefaultErrorHandler
  <2> HIDE DEF shows
  <2>4. QED
    BY <1>1, <2>1, <2>2, <2>3, FirstCall
<1>2. CASE call # NoCall
  <2>1. answered # NoAnswer
    BY <1>2 DEF Answered
  <2>2. QED
    BY <1>2, <2>1, LaterCall DEF Handle
<1>3. QED
  BY <1>1, <1>2

\* An answer that passes the error handler by.
LEMMA DirectCall ==
  ASSUME Answered, NEW code \in Statuses \cup {304, 500}, NEW kind \in {"value", "fixed"},
         NEW message, NEW shows, Commit(code, shows), Record(kind, code, message),
         Cause \notin shows, message = Given => Given \in shows
  PROVE  Answered'
<1>1. CASE call = NoCall
  BY <1>1, FirstCall
<1>2. CASE call # NoCall
  <2>1. answered # NoAnswer
    BY <1>2 DEF Answered
  <2>2. QED
    BY <1>2, <2>1, LaterCall
<1>3. QED
  BY <1>1, <1>2

(* Whatever a request's handlers call, in whatever order, and whichever    *)
(* error handlers are set: the first answer stands with the status and the *)
(* message it was given, and shows the text of an error only through a     *)
(* handler that shows it.                                                  *)
THEOREM CausesAlwaysKept == ErrorSpec => []CausesKept
<1>1. ErrorInit => Answered
  BY DEF ErrorInit, Answered, ErrorHandlers, CausesKept
<1>2. Answered /\ [ErrorNext]_errorVars => Answered'
  <2> SUFFICES ASSUME Answered, [ErrorNext]_errorVars
               PROVE  Answered'
    OBVIOUS
  <2>1. ASSUME NEW handler \in ErrorHandlers, WithErrorHandler(handler) \/ SetErrorHandler(handler)
        PROVE  Answered'
    BY <2>1 DEF WithErrorHandler, SetErrorHandler, Answered, CausesKept
  <2>2. ASSUME NEW code \in Statuses, NEW error \in {{}, {Cause}},
               NEW msg \in {NoText, Given, StatusText(code)}, AbortHelper(code, msg, error)
        PROVE  Answered'
    <3> DEFINE message == IF msg = NoText THEN DefaultText(code) ELSE msg
               passed  == IF error = {} THEN {message} ELSE error
    <3>1. /\ Handle(code, message, passed) /\ Record("handler", code, msg)
          /\ passed \subseteq {Cause, message}
      BY <2>2 DEF AbortHelper
    <3>2. /\ message # Cause /\ (msg = Given => message = Given)
          /\ message \in {NoText, StatusText(code)} => msg # Given
      BY TextsDiffer
    <3> HIDE DEF message, passed
    <3>3. QED
      BY <3>1, <3>2, HandledCall
  <2>3. ASSUME NEW code \in Statuses, NEW error \in {{}, {Cause}}, AbortWithError(code, error)
        PROVE  Answered'
    <3>1. Handle(code, StatusText(code), error) /\ Record("handler", code, StatusText(code))
      BY <2>3 DEF AbortWithError
    <3>2. QED
      BY <3>1, TextsDiffer, HandledCall
  <2>4. ASSUME NEW code \in Statuses, ErrorHelper(code) \/ FixedForm(code)
        PROVE  Answered'
    BY <2>4, TextsDiffer, DirectCall DEF ErrorHelper, FixedForm
  <2>5. CASE NotModified
    BY <2>5, TextsDiffer, DirectCall DEF NotModified
  <2>6. CASE HandleError
    <3>1. Handle(500, StatusText(500), {}) /\ Record("returned", 500, StatusText(500))
      BY <2>6 DEF HandleError
    <3>2. QED
      BY <3>1, TextsDiffer, HandledCall
  <2>7. CASE UNCHANGED errorVars
    BY <2>7 DEF errorVars, Answered, CausesKept
  <2>8. QED
    BY <2>1, <2>2, <2>3, <2>4, <2>5, <2>6, <2>7 DEF ErrorNext
<1>3. Answered => CausesKept
  BY DEF Answered
<1>4. QED
  BY <1>1, <1>2, <1>3, PTL DEF ErrorSpec

-----------------------------------------------------------------------------
(* The limits on a body: what caps, counts and the limits that applied     *)
(* have to do with each other.                                             *)

BodyTyped ==
  /\ size \in 0 .. MaxInt /\ {left, seen, consumed} \subseteq Nat /\ caps \subseteq Nat
  /\ {tripped, buffered, isCapped, copied} \subseteq BOOLEAN
  /\ bounds \in Seq(0 .. MaxInt)
  /\ outcome \in {"begun", "part", "whole", "refused"}

\* Nothing is invented, and nothing is lost but by a BodyLimit of the largest int64.
NothingLost ==
  /\ seen + left <= size
  /\ MaxInt \notin Range(bounds) => seen + left = size

\* Before the first limit nothing was read.
Unread ==
  bounds = <<>> =>
    /\ seen = 0 /\ consumed = 0 /\ caps = {}
    /\ ~isCapped /\ ~buffered

\* A cap stands for a limit that applied, and the first limit for a cap.
CapsAreBounds ==
  /\ ~copied => \A c \in caps : \E b \in Range(bounds) : c + seen >= b
  /\ ~buffered /\ bounds # <<>> /\ outcome # "refused" =>
       \E c \in caps : c + seen <= bounds[1]

BodyInv ==
  /\ BodyTyped /\ NothingLost /\ Unread /\ CapsAreBounds /\ BodyBounded
  /\ tripped => outcome = "refused"
  /\ ~buffered /\ outcome # "refused" => consumed = seen

\* A read goes as far as the body, the bytes asked for and the caps allow.
LEMMA ReadsUpTo ==
  ASSUME left \in Nat, NEW over \in SUBSET Nat, NEW n \in Nat
  PROVE  /\ Got(over, n) \in Nat /\ Got(over, n) <= left /\ Got(over, n) <= n
         /\ \A c \in over : Got(over, n) <= c
         /\ \/ Got(over, n) = left
            \/ Got(over, n) = n
            \/ \E c \in over : Got(over, n) = c
<1> DEFINE T == {j \in Nat : j > left \/ j > n \/ ~Allowed(over, j)}
           Fine(k) == /\ k <= n /\ Allowed(over, k)
                      /\ k = left \/ k = n \/ ~Allowed(over, k + 1)
<1>1. T \in SUBSET Nat /\ left + 1 \in T
  OBVIOUS
<1>2. PICK l \in T : \A j \in T : l <= j
  <2> HIDE DEF T
  <2>1. QED
    BY <1>1, LeastOf
<1>3. 0 \notin T
  BY DEF Allowed
<1>4. l \in Nat /\ l # 0 /\ l - 1 \in Nat /\ l - 1 \notin T
  BY <1>2, <1>3
<1>5. l - 1 <= left /\ l - 1 <= n /\ Allowed(over, l - 1)
  BY <1>4
<1>6. l > left \/ l > n \/ ~Allowed(over, (l - 1) + 1)
  BY <1>2, <1>4
<1>7. l - 1 \in 0 .. left /\ Fine(l - 1)
  BY <1>4, <1>5, <1>6
<1>8. Got(over, n) = CHOOSE k \in 0 .. left : Fine(k)
  BY DEF Got
<1> HIDE DEF Fine
<1>9. Got(over, n) \in 0 .. left /\ Fine(Got(over, n))
  BY <1>7, <1>8
<1>10. QED
  BY <1>9 DEF Fine, Allowed

\* The limits that applied stay, the first one first.
LEMMA BoundAdded ==
  ASSUME bounds \in Seq(0 .. MaxInt), NEW b \in 0 .. MaxInt, bounds' = Append(bounds, b)
  PROVE  /\ bounds' \in Seq(0 .. MaxInt) /\ bounds' # <<>>
         /\ Range(bounds') = Range(bounds) \cup {b}
         /\ bounds'[1] = IF bounds = <<>> THEN b ELSE bounds[1]
<1>1. /\ Len(bounds) \in Nat /\ Len(bounds') = Len(bounds) + 1
      /\ \A i \in 1 .. Len(bounds) : bounds'[i] = bounds[i]
      /\ bounds'[Len(bounds) + 1] = b
      /\ bounds' \in Seq(0 .. MaxInt)
      /\ bounds = <<>> <=> Len(bounds) = 0
  BY EmptySeq
<1>2. /\ DOMAIN bounds' = 1 .. (Len(bounds) + 1) /\ DOMAIN bounds = 1 .. Len(bounds)
      /\ \A i : i \in 1 .. (Len(bounds) + 1) <=> i \in 1 .. Len(bounds) \/ i = Len(bounds) + 1
  BY <1>1
<1>3. Range(bounds') = Range(bounds) \cup {b}
  BY <1>1, <1>2 DEF Range
<1>4. QED
  BY <1>1, <1>3

\* A binder's read, through the caps over with the limits that have applied by then.
LEMMA BindStep ==
  ASSUME BodyInv, NEW n \in 1 .. MaxInt, BindBody(n)
  PROVE  BodyInv'
<1> USE BodyCapAssumption
<1> DEFINE over == CapBody
           got  == Got(over, n)
<1>1. /\ BodyTyped /\ NothingLost /\ Unread /\ CapsAreBounds
      /\ ~tripped /\ outcome # "refused" /\ (~buffered => consumed = seen)
      /\ n \in Nat /\ n # 0 /\ InUse \in 1 .. MaxInt
  BY DEF BodyInv, BindBody, InUse
<1>2. over \in SUBSET Nat
  BY <1>1 DEF CapBody, BodyTyped
<1>3. /\ got \in Nat /\ got <= left /\ got <= n
      /\ \A c \in over : got <= c
      /\ got = left \/ got = n \/ \E c \in over : got = c
  BY <1>1, <1>2, ReadsUpTo DEF BodyTyped
<1>4. Exceeds(over, n) <=> got < left /\ got < n
  BY <1>1 DEF Exceeds
<1>5. /\ bounds' = IF buffered THEN bounds ELSE Append(bounds, InUse)
      /\ isCapped' = (isCapped \/ ~(buffered /\ ~copied))
      /\ left' = left - got /\ seen' = seen + got
      /\ caps' = {c - got : c \in over}
      /\ outcome' = IF Exceeds(over, n) THEN "refused" ELSE IF got < n THEN "whole" ELSE "part"
      /\ tripped' = Exceeds(over, n)
      /\ consumed' = IF buffered THEN consumed
                     ELSE consumed + got + (IF Exceeds(over, n) THEN 1 ELSE 0)
      /\ UNCHANGED <<size, buffered, copied>>
  BY <1>1 DEF BindBody, Consumed
<1>6. /\ over = IF (buffered /\ ~copied) \/ isCapped THEN caps ELSE caps \cup {InUse}
  BY DEF CapBody, Stands
<1> HIDE DEF over, got
<1>7. /\ bounds' \in Seq(0 .. MaxInt) /\ bounds' # <<>>
      /\ Range(bounds) \subseteq Range(bounds')
      /\ ~buffered => InUse \in Range(bounds')
      /\ bounds'[1] = IF bounds = <<>> THEN InUse ELSE bounds[1]
      /\ bounds[1] \in Int \/ bounds = <<>>
  <2>1. InUse \in 0 .. MaxInt /\ bounds \in Seq(0 .. MaxInt)
    BY <1>1 DEF BodyTyped
  <2>2. CASE buffered
    BY <1>1, <1>5, <2>1, <2>2 DEF Unread
  <2>3. CASE ~buffered
    BY <1>5, <2>1, <2>3, BoundAdded, SMTT(30)
  <2>4. QED
    BY <2>2, <2>3
<1>8. BodyTyped'
  <2>1. caps' \subseteq Nat
    BY <1>2, <1>3, <1>5
  <2>2. {left', seen', consumed'} \subseteq Nat
    BY <1>1, <1>3, <1>5, SMTT(30) DEF BodyTyped
  <2>3. {tripped', buffered', isCapped', copied'} \subseteq BOOLEAN
    <3>1. Exceeds(over, n) \in BOOLEAN /\ (isCapped \/ ~(buffered /\ ~copied)) \in BOOLEAN
      BY DEF Exceeds
    <3>2. tripped' \in BOOLEAN /\ isCapped' \in BOOLEAN
      BY <1>5, <3>1
    <3>3. QED
      BY <1>1, <1>5, <3>2 DEF BodyTyped
  <2>4. QED
    BY <1>1, <1>5, <1>7, <2>1, <2>2, <2>3 DEF BodyTyped
<1>9. NothingLost'
  <2>1. seen' + left' = seen + left
    BY <1>1, <1>3, <1>5, SMTT(30) DEF BodyTyped
  <2>2. QED
    BY <1>1, <1>5, <1>7, <2>1 DEF NothingLost
<1>10. Unread'
  BY <1>7 DEF Unread
<1>11. ~copied => \A c \in over : \E b \in Range(bounds') : c + seen >= b
  BY <1>1, <1>6, <1>7 DEF CapsAreBounds, BodyTyped
<1>12. ~buffered => \E c \in over : c + seen <= bounds'[1]
  BY <1>1, <1>6, <1>7 DEF CapsAreBounds, BodyTyped, Unread
<1>13. CapsAreBounds'
  <2>1. \A c \in over : c \in Int /\ (c - got) + (seen + got) = c + seen
    BY <1>1, <1>2, <1>3 DEF BodyTyped
  <2>2. ASSUME ~copied', NEW c \in caps'
        PROVE  \E b \in Range(bounds') : c + seen' >= b
    <3>1. PICK d \in over : c = d - got
      BY <1>5, <2>2
    <3>2. PICK b \in Range(bounds') : d + seen >= b
      BY <1>5, <1>11, <2>2
    <3>3. QED
      BY <3>1, <3>2, <2>1, <1>5
  <2>3. ASSUME ~buffered'
        PROVE  \E c \in caps' : c + seen' <= bounds'[1]
    <3>1. PICK c \in over : c + seen <= bounds'[1]
      BY <1>5, <1>12, <2>3
    <3>2. c - got \in caps' /\ (c - got) + seen' = c + seen
      BY <1>5, <2>1
    <3>3. QED
      BY <3>1, <3>2
  <2>4. QED
    BY <2>2, <2>3 DEF CapsAreBounds
<1>14. BodyBounded'
  <2>1. ASSUME outcome' = "whole", MaxInt \notin Range(bounds')
        PROVE  seen' = size'
    <3>1. left' = 0
      BY <1>1, <1>3, <1>4, <1>5, <2>1 DEF BodyTyped
    <3>2. seen' + left' = size'
      BY <1>9, <2>1 DEF NothingLost
    <3>3. QED
      BY <3>1, <3>2, <1>8 DEF BodyTyped
  <2>2. ASSUME outcome' = "refused", ~copied'
        PROVE  \E b \in Range(bounds') : size' > b
    <3>1. got < left /\ got < n
      BY <1>4, <1>5, <2>2
    <3>2. got \in over
      BY <1>3, <3>1, <1>1 DEF BodyTyped
    <3>3. PICK b \in Range(bounds') : got + seen >= b
      BY <1>5, <1>11, <2>2, <3>2
    <3>4. b \in Nat
      BY <1>7, RangeEquality
    <3>5. size > b
      BY <1>1, <1>3, <3>1, <3>3, <3>4 DEF BodyTyped, NothingLost
    <3>6. QED
      BY <1>5, <3>5
  <2>3. consumed' <= bounds'[1] + 1
    <3>1. CASE buffered
      BY <3>1, <1>1, <1>5 DEF BodyInv, BodyBounded, Unread
    <3>2. CASE ~buffered
      <4>1. PICK c \in over : c + seen <= bounds'[1]
        BY <1>12, <3>2
      <4>2. /\ consumed' = seen + got + (IF Exceeds(over, n) THEN 1 ELSE 0)
            /\ got <= c /\ c \in Nat /\ bounds'[1] \in Int
        BY <1>1, <1>2, <1>3, <1>5, <1>7, <3>2, <4>1
      <4>3. consumed' <= seen + got + 1
        BY <4>2, <1>1, <1>3 DEF BodyTyped
      <4>4. {consumed', seen, got, c} \subseteq Int
        BY <4>2, <1>1, <1>3, <1>8 DEF BodyTyped
      <4>5. QED
        BY <4>1, <4>2, <4>3, <4>4
    <3>3. QED
      BY <3>1, <3>2
  <2>4. QED
    BY <2>1, <2>2, <2>3 DEF BodyBounded
<1>15. (~buffered' /\ outcome' # "refused" => consumed' = seen') /\ (tripped' => outcome' = "refused")
  BY <1>1, <1>3, <1>5 DEF BodyTyped
<1>16. QED
  BY <1>8, <1>9, <1>10, <1>13, <1>14, <1>15 DEF BodyInv

\* A BodyLimit's read ahead.
LEMMA LimitStep ==
  ASSUME BodyInv, NEW m \in Limits, BodyLimit(m)
  PROVE  BodyInv'
<1> USE BodyCapAssumption
<1> DEFINE ahead == IF Wrap(m + 1) < 0 THEN 0 ELSE Wrap(m + 1)
           got   == Got(caps, ahead)
<1>1. /\ BodyTyped /\ NothingLost /\ Unread /\ CapsAreBounds /\ BodyBounded
      /\ ~tripped /\ outcome # "refused" /\ (~buffered => consumed = seen)
      /\ m \in 0 .. MaxInt /\ m \in Nat /\ MaxInt \in Nat
  BY DEF BodyInv, BodyLimit
<1>2. ahead = IF m = MaxInt THEN 0 ELSE m + 1
  BY <1>1 DEF Wrap
<1>3. ahead \in Nat /\ ahead <= m + 1
  BY <1>1, <1>2
<1> HIDE DEF ahead
<1>4. /\ got \in Nat /\ got <= left /\ got <= ahead
      /\ \A c \in caps : got <= c
      /\ got = left \/ got = ahead \/ \E c \in caps : got = c
  BY <1>1, <1>3, ReadsUpTo DEF BodyTyped
<1>5. Exceeds(caps, ahead) <=> got < left /\ got < ahead
  BY <1>1 DEF Exceeds
<1>6. /\ bounds' = Append(bounds, m)
      /\ consumed' = IF buffered THEN consumed
                     ELSE consumed + got + (IF Exceeds(caps, ahead) THEN 1 ELSE 0)
      /\ IF Exceeds(caps, ahead) \/ got > m
         THEN outcome' = "refused" /\ UNCHANGED <<left, caps, buffered, isCapped, tripped>>
         ELSE /\ left' = got /\ caps' = {} /\ tripped' = FALSE
              /\ buffered' = TRUE /\ isCapped' = FALSE
              /\ UNCHANGED outcome
      /\ UNCHANGED <<size, copied, seen>>
  BY <1>1 DEF BodyLimit, Consumed, ahead
<1> HIDE DEF got
<1>7. /\ bounds' \in Seq(0 .. MaxInt) /\ bounds' # <<>>
      /\ Range(bounds') = Range(bounds) \cup {m}
      /\ bounds'[1] = IF bounds = <<>> THEN m ELSE bounds[1]
      /\ bounds'[1] \in Int
  <2>1. bounds \in Seq(0 .. MaxInt)
    BY <1>1 DEF BodyTyped
  <2>2. QED
    BY <1>1, <1>6, <2>1, BoundAdded
<1>8. consumed' \in Nat
  BY <1>1, <1>4, <1>6 DEF BodyTyped
<1>9. consumed' <= bounds'[1] + 1
  <2>1. CASE buffered
    BY <2>1, <1>1, <1>6, <1>7 DEF BodyBounded, Unread
  <2>2. CASE ~buffered /\ bounds = <<>>
    <3>1. seen = 0 /\ caps = {} /\ consumed = 0 /\ bounds'[1] = m
      BY <2>2, <1>1, <1>7 DEF Unread
    <3>2. ~Exceeds(caps, ahead)
      BY <3>1, <1>1, <1>3, <1>4, <1>5 DEF BodyTyped
    <3>3. QED
      BY <3>1, <3>2, <2>2, <1>1, <1>3, <1>4, <1>6
  <2>3. CASE ~buffered /\ bounds # <<>>
    <3>1. PICK c \in caps : c + seen <= bounds[1]
      BY <2>3, <1>1 DEF CapsAreBounds
    <3>2. got <= c /\ c \in Nat /\ bounds'[1] = bounds[1]
      BY <1>1, <1>4, <1>7, <2>3 DEF BodyTyped
    <3>3. consumed' <= seen + got + 1
      BY <1>1, <1>4, <1>6, <2>3 DEF BodyTyped
    <3>4. {consumed', seen, got, c, bounds'[1]} \subseteq Int
      BY <3>2, <1>1, <1>4, <1>7, <1>8 DEF BodyTyped
    <3>5. QED
      BY <3>1, <3>2, <3>3, <3>4
  <2>4. QED
    BY <2>1, <2>2, <2>3
<1>10. Unread'
  BY <1>7 DEF Unread
<1>11. CASE Exceeds(caps, ahead) \/ got > m
  <2>1. outcome' = "refused" /\ UNCHANGED <<size, copied, seen, left, caps, buffered, isCapped, tripped>>
    BY <1>6, <1>11
  <2>2. BodyTyped'
    BY <2>1, <1>1, <1>7, <1>8 DEF BodyTyped
  <2>3. NothingLost'
    BY <2>1, <1>1, <1>7 DEF NothingLost
  <2>4. CapsAreBounds'
    <3>1. ~copied' => \A c \in caps' : \E b \in Range(bounds') : c + seen' >= b
      BY <2>1, <1>1, <1>7 DEF CapsAreBounds
    <3>2. QED
      BY <3>1, <2>1 DEF CapsAreBounds
  <2>5. \E b \in Range(bounds') : size' > b
    <3>1. CASE got > m
      <4>1. size > m /\ m \in Range(bounds')
        BY <3>1, <1>1, <1>4, <1>7 DEF BodyTyped, NothingLost
      <4>2. QED
        BY <4>1, <2>1
    <3>2. CASE Exceeds(caps, ahead)
      <4>1. got < left /\ got < ahead /\ got \in caps
        BY <3>2, <1>1, <1>3, <1>4, <1>5 DEF BodyTyped
      <4>2. PICK b \in Range(bounds) : got + seen >= b
        BY <4>1, <1>1 DEF CapsAreBounds, BodyLimit
      <4>3. b \in Nat
        BY <1>1, RangeEquality DEF BodyTyped
      <4>4. size > b
        BY <4>1, <4>2, <4>3, <1>1, <1>4 DEF BodyTyped, NothingLost
      <4>5. QED
        BY <4>4, <2>1, <1>7
    <3>3. QED
      BY <3>1, <3>2, <1>11
  <2>6. BodyBounded'
    BY <2>1, <2>5, <1>9 DEF BodyBounded
  <2>7. QED
    BY <2>1, <2>2, <2>3, <2>4, <2>6, <1>1, <1>10 DEF BodyInv
<1>12. CASE ~(Exceeds(caps, ahead) \/ got > m)
  <2>1. /\ left' = got /\ caps' = {} /\ tripped' = FALSE
        /\ buffered' = TRUE /\ isCapped' = FALSE
        /\ UNCHANGED <<outcome, size, copied, seen>>
    BY <1>6, <1>12
  <2>2. BodyTyped'
    BY <2>1, <1>1, <1>4, <1>7, <1>8 DEF BodyTyped
  <2>3. m = MaxInt \/ got = left
    BY <1>1, <1>2, <1>4, <1>5, <1>12 DEF BodyTyped
  <2>4. NothingLost'
    <3>1. seen' + left' <= seen + left
      BY <2>1, <1>1, <1>4 DEF BodyTyped
    <3>2. seen' + left' <= size'
      BY <3>1, <2>1, <2>2, <1>1 DEF NothingLost, BodyTyped
    <3>3. MaxInt \notin Range(bounds') => seen' + left' = size'
      BY <2>1, <2>3, <1>1, <1>7 DEF NothingLost
    <3>4. QED
      BY <3>2, <3>3 DEF NothingLost
  <2>5. CapsAreBounds'
    BY <2>1 DEF CapsAreBounds
  <2>6. BodyBounded'
    BY <2>1, <1>1, <1>7, <1>9 DEF BodyBounded
  <2>7. QED
    BY <2>1, <2>2, <2>4, <2>5, <2>6, <1>1, <1>10 DEF BodyInv
<1>13. QED
  BY <1>11, <1>12

(* However the body is read, in parts or whole, through middlewares and    *)
(* binders: what is read to the end is all of it, it is refused only over  *)
(* a limit that applied, and the first limit bounds what is taken from the *)
(* connection.                                                             *)
THEOREM BodyAlwaysBounded == BodyCapSpec => []BodyBounded
<1> USE BodyCapAssumption
<1>1. BodyCapInit => BodyInv
  <2> SUFFICES ASSUME BodyCapInit PROVE BodyInv
    OBVIOUS
  <2>1. /\ size \in 0 .. MaxInt /\ left = size /\ caps = {} /\ tripped = FALSE
        /\ buffered = FALSE /\ isCapped = FALSE /\ copied = FALSE
        /\ consumed = 0 /\ seen = 0 /\ bounds = <<>> /\ outcome = "begun"
    BY DEF BodyCapInit
  <2>2. BodyTyped
    <3>1. bounds \in Seq(0 .. MaxInt) /\ {left, seen, consumed} \subseteq Nat /\ caps \subseteq Nat
      BY <2>1
    <3>2. {tripped, buffered, isCapped, copied} \subseteq BOOLEAN
      BY <2>1, Zenon
    <3>3. QED
      BY <2>1, <3>1, <3>2 DEF BodyTyped
  <2>3. NothingLost /\ Unread /\ CapsAreBounds /\ BodyBounded
    BY <2>1 DEF NothingLost, Unread, CapsAreBounds, BodyBounded
  <2>4. QED
    BY <2>1, <2>2, <2>3 DEF BodyInv
<1>2. BodyInv /\ [BodyCapNext]_bodyCapVars => BodyInv'
  <2> SUFFICES ASSUME BodyInv, [BodyCapNext]_bodyCapVars
               PROVE  BodyInv'
    OBVIOUS
  <2>1. CASE Copy
    <3>1. /\ outcome # "refused" /\ copied' = TRUE /\ isCapped' = FALSE
          /\ UNCHANGED <<size, left, caps, tripped, buffered, consumed, seen, bounds, outcome>>
      BY <2>1 DEF Copy
    <3>2. BodyTyped' /\ NothingLost' /\ Unread'
      BY <3>1 DEF BodyInv, BodyTyped, NothingLost, Unread
    <3>3. CapsAreBounds' /\ BodyBounded'
      BY <3>1 DEF BodyInv, CapsAreBounds, BodyBounded
    <3>4. QED
      BY <3>1, <3>2, <3>3 DEF BodyInv
  <2>2. CASE UNCHANGED bodyCapVars
    <3>1. BodyTyped' /\ NothingLost' /\ Unread'
      BY <2>2 DEF bodyCapVars, BodyInv, BodyTyped, NothingLost, Unread
    <3>2. CapsAreBounds' /\ BodyBounded'
      BY <2>2 DEF bodyCapVars, BodyInv, CapsAreBounds, BodyBounded
    <3>3. QED
      BY <2>2, <3>1, <3>2 DEF bodyCapVars, BodyInv
  <2>3. QED
    BY <2>1, <2>2, BindStep, LimitStep DEF BodyCapNext
<1>3. BodyInv => BodyBounded
  BY DEF BodyInv
<1>4. QED
  BY <1>1, <1>2, <1>3, PTL DEF BodyCapSpec

-----------------------------------------------------------------------------
(* Who answers a path next to a web application. *)

WebTyped ==
  /\ added \in Seq(RoutePaths)
  /\ mounted # <<>> => \E app \in Applications : mounted[1].config = app

\* A path under a prefix that is not the root begins as the prefix does.
LEMMA SameBeginning ==
  ASSUME NEW s \in Seq(STRING), NEW t \in Seq(STRING), IsPrefix(s, t), s # <<>>
  PROVE  t # <<>> /\ s[1] = t[1]
<1>1. Len(s) \in Nat /\ Len(t) \in Nat /\ Len(s) <= Len(t) /\ Len(s) >= 1
  BY EmptySeq DEF IsPrefix
<1>2. SubSeq(s, 1, Len(s))[1] = s[1] /\ SubSeq(t, 1, Len(s))[1] = t[1]
  BY <1>1
<1>3. QED
  BY <1>1, <1>2, EmptySeq DEF IsPrefix

\* What keeps a path of an application from its index document.
LEMMA ExcludedFor ==
  ASSUME WebTyped, mounted # <<>>, NEW path \in URLs, IsPrefix(mounted[1].config.prefix, path)
  PROVE  WebExcluded(path, mounted[1]) <=>
           LET app == mounted[1].config
           IN  \/ \E ex \in app.exclude : IsPrefix(ex, path)
               \/ /\ app.auto /\ app.prefix = <<>>
                  /\ \E r \in ToSet(added) : r # <<>> /\ path # <<>> /\ r[1] = path[1]
<1> DEFINE app == mounted[1].config
           first == FirstPathSegment(path)
           shared == \E i \in DOMAIN added : FirstPathSegment(added[i]) = first
<1>1. path \in Seq(STRING) /\ app.prefix \in Seq(STRING)
  BY WebAssumption DEF WebTyped
<1>2. ASSUME app.prefix # <<>>
      PROVE  first = FirstPathSegment(app.prefix)
  BY <1>1, <1>2, SameBeginning DEF FirstPathSegment
<1>3. app.prefix = <<>> => FirstPathSegment(app.prefix) = ""
  BY DEF FirstPathSegment
<1>4. ASSUME NEW i \in DOMAIN added
      PROVE  /\ added[i] \in RoutePaths /\ added[i] \in ToSet(added)
             /\ added[i] # <<>> => added[i][1] # ""
  <2>1. added \in Seq(RoutePaths) /\ i \in 1 .. Len(added)
    BY DEF WebTyped
  <2>2. added[i] \in RoutePaths
    BY <2>1, ElementOfSeq
  <2>3. added[i] # <<>> => added[i][1] # ""
    BY <2>2, WebAssumption
  <2>4. QED
    BY <2>2, <2>3 DEF ToSet
<1>5. first # "" /\ shared <=>
      \E r \in ToSet(added) : r # <<>> /\ path # <<>> /\ r[1] = path[1]
  <2>1. ASSUME first # "", NEW i \in DOMAIN added, FirstPathSegment(added[i]) = first
        PROVE  \E r \in ToSet(added) : r # <<>> /\ path # <<>> /\ r[1] = path[1]
    BY <2>1, <1>4 DEF FirstPathSegment
  <2>2. ASSUME NEW r \in ToSet(added), r # <<>>, path # <<>>, r[1] = path[1]
        PROVE  first # "" /\ shared
    <3>1. PICK i \in DOMAIN added : r = added[i]
      BY DEF ToSet
    <3>2. QED
      BY <2>2, <3>1, <1>4 DEF FirstPathSegment
  <2>3. QED
    BY <2>1, <2>2
<1>6. WebExcluded(path, mounted[1]) <=>
        \/ \E ex \in app.exclude : IsPrefix(ex, path)
        \/ app.auto /\ first \notin {"", FirstPathSegment(app.prefix)} /\ shared
  BY DEF WebExcluded
<1> HIDE DEF first, shared, app
<1>7. QED
  BY <1>2, <1>3, <1>5, <1>6 DEF app

(* Whatever the order of registration, and for any routes, files and       *)
(* prefixes: the index document and the files answer exactly the paths of  *)
(* the application's own.                                                  *)
THEOREM IndexAlwaysForOwnPaths == WebSpec => []IndexForOwnPaths
<1>1. WebInit => WebTyped
  <2>1. <<>> \in Seq(RoutePaths)
    OBVIOUS
  <2>2. QED
    BY <2>1 DEF WebInit, WebTyped
<1>2. WebTyped /\ [WebNext]_webVars => WebTyped'
  <2> SUFFICES ASSUME WebTyped, [WebNext]_webVars
               PROVE  WebTyped'
    OBVIOUS
  <2>1. ASSUME NEW path \in RoutePaths, AddWebRoute(path)
        PROVE  WebTyped'
    BY <2>1 DEF AddWebRoute, WebTyped
  <2>2. ASSUME NEW config \in Applications, Web(config)
        PROVE  WebTyped'
    <3>1. UNCHANGED added /\ mounted'[1].config = config
      BY <2>2 DEF Web
    <3>2. QED
      BY <3>1 DEF WebTyped
  <2>3. CASE UNCHANGED webVars
    BY <2>3 DEF webVars, WebTyped
  <2>4. QED
    BY <2>1, <2>2, <2>3 DEF WebNext
<1>3. WebTyped => IndexForOwnPaths
  <2> SUFFICES ASSUME WebTyped, mounted # <<>>, NEW path \in URLs
               PROVE  LET app == mounted[1].config
                          isRoute == path \in ToSet(added)
                          shared  == \E r \in ToSet(added) :
                                        r # <<>> /\ path # <<>> /\ r[1] = path[1]
                          own == /\ IsPrefix(app.prefix, path) /\ ~isRoute
                                 /\ ~\E ex \in app.exclude : IsPrefix(ex, path)
                                 /\ app.auto /\ app.prefix = <<>> => ~shared
                      IN  /\ isRoute <=> ServedBy(path)[1] = "route"
                          /\ own <=> ServedBy(path)[1] \in {"index", "file"}
    BY DEF IndexForOwnPaths
  <2> DEFINE app == mounted[1].config
             isRoute == path \in ToSet(added)
             lies == IsPrefix(app.prefix, path)
             out  == WebExcluded(path, mounted[1])
  <2>1. isRoute <=> \E i \in DOMAIN added : added[i] = path
    BY DEF ToSet
  <2>2. ServeWeb(path, mounted[1])[1] \in {"notFound", "file", "index"}
        /\ (out <=> ServeWeb(path, mounted[1])[1] = "notFound")
    BY DEF ServeWeb
  <2>3. ServedBy(path) = IF isRoute THEN <<"route", path>>
                         ELSE IF lies THEN ServeWeb(path, mounted[1]) ELSE <<"notFound">>
    BY <2>1 DEF ServedBy
  <2>4. lies => (out <=>
          \/ \E ex \in app.exclude : IsPrefix(ex, path)
          \/ /\ app.auto /\ app.prefix = <<>>
             /\ \E r \in ToSet(added) : r # <<>> /\ path # <<>> /\ r[1] = path[1])
    BY ExcludedFor
  <2> HIDE DEF isRoute, lies, out
  <2>5. /\ isRoute <=> ServedBy(path)[1] = "route"
        /\ lies /\ ~isRoute /\ ~out <=> ServedBy(path)[1] \in {"index", "file"}
    <3>1. CASE isRoute
      <4>1. ServedBy(path)[1] = "route"
        BY <2>3, <3>1
      <4>2. QED
        BY <3>1, <4>1
    <3>2. CASE ~isRoute /\ lies
      <4>1. ServedBy(path) = ServeWeb(path, mounted[1])
        BY <2>3, <3>2
      <4>2. QED
        BY <2>2, <3>2, <4>1
    <3>3. CASE ~isRoute /\ ~lies
      <4>1. ServedBy(path)[1] = "notFound"
        BY <2>3, <3>3
      <4>2. QED
        BY <3>3, <4>1
    <3>4. QED
      BY <3>1, <3>2, <3>3
  <2>6. QED
    BY <2>4, <2>5 DEF isRoute, lies
<1>4. QED
  BY <1>1, <1>2, <1>3, PTL DEF WebSpec

-----------------------------------------------------------------------------
(* Where a configuration struct has its values from. *)

CommandLineTyped ==
  /\ tag \in [Fields -> Texts] /\ env \in [Fields -> Texts] /\ pending \subseteq Fields
  /\ step \in {"declare", "pick", "env", "parse", "populate", "done", "failed"}

\* What a flag holds once its variable was read, and once the line was.
UnderEnv(f) == IF env[f] = Unset THEN FlagDefault(f) ELSE env[f]
UnderLine(f) == IF OnLine(f) = Unset THEN UnderEnv(f) ELSE OnLine(f)

\* Where the flags are at each step.
FlagsFilled ==
  /\ step = "declare" => pending = Fields
  /\ step = "pick" => /\ pending = Fields
                      /\ \A f \in Fields : flags[f] = FlagDefault(f)
  /\ step = "env" =>
       \A f \in Fields : flags[f] = IF f \in pending THEN FlagDefault(f) ELSE UnderEnv(f)
  /\ step = "parse" => \A f \in Fields : flags[f] = UnderEnv(f)
  /\ step = "populate" => \A f \in Fields : flags[f] = UnderLine(f)

\* The struct is written at the end, whole.
StructKept ==
  /\ step # "done" => struct = current
  /\ step = "done" =>
       \A f \in Fields : struct[f] = IF WritesBack(f) THEN UnderLine(f) ELSE current[f]

CommandLineInv ==
  /\ CommandLineTyped /\ FlagsFilled /\ StructKept
  /\ DOMAIN flags = Fields

\* Texts that parse, and where the tags and variables are from.
LEMMA ParsedTexts ==
  ASSUME NEW t \in Texts, t # Bad
  PROVE  t \in Values \/ t = Unset
BY Zenon DEF Texts

LEMMA TextsGiven == Tags \subseteq [Fields -> Texts] /\ Envs \subseteq [Fields -> Texts]
BY CommandLineAssumption, Zenon

\* What stays while the inputs do.
LEMMA InputsStay ==
  ASSUME UNCHANGED inputs
  PROVE  /\ \A f : FlagDefault(f)' = FlagDefault(f) /\ UnderEnv(f)' = UnderEnv(f)
         /\ \A f : OnLine(f)' = OnLine(f) /\ UnderLine(f)' = UnderLine(f)
<1>1. UNCHANGED <<commands, current, tag, env, line>>
  BY DEF inputs
<1>2. \A f : FlagDefault(f)' = FlagDefault(f) /\ UnderEnv(f)' = UnderEnv(f)
  BY <1>1 DEF FlagDefault, UnderEnv
<1>3. WordsAt' = WordsAt
  BY <1>1 DEF WordsAt
<1>4. NamedCommand' = NamedCommand
  BY <1>1, <1>3 DEF NamedCommand
<1>5. ParsedFrom' = ParsedFrom
  BY <1>1, <1>3, <1>4 DEF ParsedFrom
<1>6. ASSUME NEW f
      PROVE  OnLine(f)' = OnLine(f)
  BY <1>1, <1>5 DEF OnLine
<1>7. \A f : UnderLine(f)' = UnderLine(f)
  BY <1>2, <1>6 DEF UnderLine
<1>8. QED
  BY <1>2, <1>6, <1>7

(* For any fields, values, tags, variables and command lines, and whatever *)
(* the order in which the variables are read: the line goes before the     *)
(* environment, the environment before the tag, the tag before what the    *)
(* struct held, and a struct is filled whole or not at all.                *)
THEOREM ConfigAlwaysPrecedes == CommandLineSpec => []ConfigPrecedence
<1>1. CommandLineInit => CommandLineInv
  <2> SUFFICES ASSUME CommandLineInit PROVE CommandLineInv
    OBVIOUS
  <2>1. /\ tag \in Tags /\ env \in Envs /\ step = "declare" /\ pending = Fields
        /\ struct = current /\ flags = [f \in Fields |-> Zero]
    BY DEF CommandLineInit
  <2>2. CommandLineTyped
    <3>1. tag \in [Fields -> Texts] /\ env \in [Fields -> Texts]
      BY <2>1, TextsGiven, Zenon
    <3>2. QED
      BY <2>1, <3>1 DEF CommandLineTyped
  <2>3. FlagsFilled /\ StructKept /\ DOMAIN flags = Fields
    BY <2>1 DEF FlagsFilled, StructKept
  <2>4. QED
    BY <2>2, <2>3 DEF CommandLineInv
<1>2. CommandLineInv /\ [CommandLineNext]_commandLineVars => CommandLineInv'
  <2> SUFFICES ASSUME CommandLineInv, [CommandLineNext]_commandLineVars
               PROVE  CommandLineInv'
    OBVIOUS
  <2>1. /\ UNCHANGED inputs /\ UNCHANGED <<current, tag, env>>
        /\ \A f : FlagDefault(f)' = FlagDefault(f) /\ UnderEnv(f)' = UnderEnv(f)
        /\ \A f : OnLine(f)' = OnLine(f) /\ UnderLine(f)' = UnderLine(f)
    <3>1. UNCHANGED inputs
      BY DEF CommandLineNext, commandLineVars, FromStruct, Execute, EnvApplied, ParseArgs,
             PopulateStruct, ApplyEnvVar
    <3>2. UNCHANGED <<current, tag, env>>
      BY <3>1 DEF inputs
    <3>3. QED
      BY <3>1, <3>2, InputsStay
  <2> USE DEF CommandLineInv, CommandLineTyped, FlagsFilled, StructKept
  <2>2. CASE FromStruct
    BY <2>1, <2>2 DEF FromStruct
  <2>3. CASE Execute
    BY <2>1, <2>3 DEF Execute
  <2>4. CASE EnvApplied
    BY <2>1, <2>4 DEF EnvApplied
  <2>5. CASE ParseArgs
    BY <2>1, <2>5 DEF ParseArgs, UnderLine
  <2>6. CASE PopulateStruct
    <3>1. \A f \in Fields : WritesBack(f)' = WritesBack(f)
      BY <2>6 DEF PopulateStruct, WritesBack
    <3>2. QED
      BY <2>1, <2>6, <3>1 DEF PopulateStruct
  <2>7. ASSUME NEW f \in Fields, ApplyEnvVar(f)
        PROVE  CommandLineInv'
    BY <2>1, <2>7 DEF ApplyEnvVar, UnderEnv
  <2>8. CASE UNCHANGED commandLineVars
    <3>1. UNCHANGED <<step, matched, pending, flags, struct>>
      BY <2>8 DEF commandLineVars
    <3>2. \A f \in Fields : WritesBack(f)' = WritesBack(f)
      BY <3>1 DEF WritesBack
    <3>3. QED
      BY <2>1, <3>1, <3>2
  <2>9. QED
    BY <2>2, <2>3, <2>4, <2>5, <2>6, <2>7, <2>8 DEF CommandLineNext
<1>3. CommandLineInv => ConfigPrecedence
  <2> SUFFICES ASSUME CommandLineInv PROVE ConfigPrecedence
    OBVIOUS
  <2>1. StructKept /\ tag \in [Fields -> Texts]
    BY DEF CommandLineInv, CommandLineTyped
  <2>2. ASSUME NEW f \in Fields, step = "done", WritesBack(f), tag[f] # Bad,
               KeepsCurrent(f) \/ {OnLine(f), env[f], tag[f]} # {Unset}
        PROVE  struct[f] = FirstSaid(f)
    <3>1. struct[f] = UnderLine(f)
      BY <2>1, <2>2 DEF StructKept
    <3>2. tag[f] \in Values \/ tag[f] = Unset
      BY <2>1, <2>2, ParsedTexts
    <3>3. CASE OnLine(f) # Unset
      BY <3>1, <3>3 DEF UnderLine, FirstSaid
    <3>4. CASE OnLine(f) = Unset /\ env[f] # Unset
      BY <3>1, <3>4 DEF UnderLine, UnderEnv, FirstSaid
    <3>5. CASE OnLine(f) = Unset /\ env[f] = Unset
      <4>1. struct[f] = FlagDefault(f)
        BY <3>1, <3>5 DEF UnderLine, UnderEnv
      <4>2. CASE tag[f] # Unset
        <5>1. tag[f] \in Values
          BY <3>2, <4>2
        <5>2. QED
          BY <3>5, <4>1, <4>2, <5>1 DEF FlagDefault, FirstSaid
      <4>3. CASE tag[f] = Unset
        <5>1. Unset \notin Values
          BY CommandLineAssumption
        <5>2. KeepsCurrent(f)
          BY <2>2, <3>5, <4>3
        <5>3. QED
          BY <3>5, <4>1, <4>3, <5>1, <5>2 DEF FlagDefault, FirstSaid
      <4>4. QED
        BY <4>2, <4>3
    <3>6. QED
      BY <3>3, <3>4, <3>5
  <2>3. step = "failed" => struct = current
    BY <2>1 DEF StructKept
  <2>4. QED
    BY <2>2, <2>3 DEF ConfigPrecedence
<1>4. QED
  BY <1>1, <1>2, <1>3, PTL DEF CommandLineSpec

-----------------------------------------------------------------------------
(* Folds over sequences, element by element: what each of those below is for *)
(* a sequence with one more.                                               *)

LEMMA SequenceInduction ==
  ASSUME NEW A, NEW S \in SUBSET Seq(A), <<>> \in S, \A s \in S, x \in A : Append(s, x) \in S
  PROVE  S = Seq(A)
<1> DEFINE T == {n \in Nat : \A s \in Seq(A) : Len(s) = n => s \in S}
<1>1. 0 \in T
  BY EmptySeq
<1>2. ASSUME NEW n \in T PROVE n + 1 \in T
  <2>1. ASSUME NEW s \in Seq(A), Len(s) = n + 1 PROVE s \in S
    <3>1. PICK h \in Seq(A), x \in A : s = Append(h, x)
      <4>1. s # <<>>
        BY <2>1
      <4>2. QED
        BY <4>1, SequenceEmptyOrAppend
    <3>2. Len(h) = n
      BY <2>1, <3>1
    <3>3. QED
      BY <3>1, <3>2
  <2>2. QED
    BY <2>1
<1> HIDE DEF T
<1>3. T = Nat
  <2>1. T \in SUBSET Nat
    BY DEF T
  <2>2. QED
    BY <1>1, <1>2, <2>1, Induction
<1>4. ASSUME NEW s \in Seq(A) PROVE s \in S
  <2>1. Len(s) \in T
    BY <1>3
  <2>2. QED
    BY <2>1 DEF T
<1>5. QED
  BY <1>4

\* The step of a fold as a function, and the runs of it over a text: a state before each
\* character, and one at the end.
StepOf(move, W, A) == move \in [W \X A -> W]

Runs(text, move, start, W) ==
  {f \in [0 .. Len(text) -> W] :
     f[0] = start /\ \A n \in 1 .. Len(text) : f[n] = move[<<f[n - 1], text[n]>>]}

LEMMA RunsExist ==
  ASSUME NEW W, NEW A, NEW start \in W, NEW move, StepOf(move, W, A), NEW s \in Seq(A)
  PROVE  Runs(s, move, start, W) # {}
<1> DEFINE R(t) == Runs(t, move, start, W) # {}
           S == {t \in Seq(A) : R(t)}
<1>1. <<>> \in S
  <2> DEFINE f == [n \in 0 .. 0 |-> start]
  <2>1. <<>> \in Seq(A) /\ Len(<<>>) = 0
    OBVIOUS
  <2>2. f \in [0 .. 0 -> W] /\ f[0] = start /\ \A n \in 1 .. 0 : FALSE
    OBVIOUS
  <2>3. f \in Runs(<<>>, move, start, W)
    BY <2>1, <2>2 DEF Runs
  <2>4. QED
    BY <2>1, <2>3
<1>2. ASSUME NEW t \in S, NEW x \in A PROVE Append(t, x) \in S
  <2> DEFINE u == Append(t, x)
             N == Len(t)
  <2>1. /\ u \in Seq(A) /\ Len(u) = N + 1 /\ u[N + 1] = x /\ \A n \in 1 .. N : u[n] = t[n]
        /\ N \in Nat
    OBVIOUS
  <2>2. PICK f \in Runs(t, move, start, W) : TRUE
    OBVIOUS
  <2>3. f \in [0 .. N -> W] /\ f[0] = start /\ \A n \in 1 .. N : f[n] = move[<<f[n - 1], t[n]>>]
    BY <2>2 DEF Runs
  <2> HIDE DEF u, N
  <2> DEFINE w == move[<<f[N], x>>]
             g == [n \in 0 .. N + 1 |-> IF n = N + 1 THEN w ELSE f[n]]
  <2>4. w \in W /\ 0 \in 0 .. N /\ 0 \in 0 .. N + 1 /\ 0 # N + 1
    BY <2>1, <2>3 DEF StepOf
  <2> HIDE DEF w
  <2>5. g \in [0 .. N + 1 -> W] /\ g[0] = start
    <3>1. \A n \in 0 .. N + 1 : n = N + 1 \/ n \in 0 .. N
      BY <2>1
    <3>2. QED
      BY <2>3, <2>4, <3>1
  <2>6. ASSUME NEW n \in 1 .. N + 1 PROVE g[n] = move[<<g[n - 1], u[n]>>]
    <3>1. CASE n = N + 1
      <4>1. n \in 0 .. N + 1 /\ n - 1 \in 0 .. N + 1 /\ n - 1 = N /\ N # N + 1
        <5>1. N \in Nat
          BY <2>1
        <5>2. QED
          BY <3>1, <5>1
      <4>2. QED
        BY <2>1, <3>1, <4>1 DEF w
    <3>2. CASE n # N + 1
      <4>1. n \in 1 .. N /\ n \in 0 .. N + 1 /\ n - 1 \in 0 .. N + 1 /\ n - 1 # N + 1
        BY <2>1, <3>2
      <4>2. QED
        BY <2>1, <2>3, <3>2, <4>1
    <3>3. QED
      BY <3>1, <3>2
  <2> HIDE DEF g
  <2>7. g \in Runs(u, move, start, W)
    BY <2>1, <2>5, <2>6 DEF Runs
  <2>8. QED
    BY <2>1, <2>7 DEF u
<1>3. S = Seq(A)
  <2>1. S \in SUBSET Seq(A)
    OBVIOUS
  <2> HIDE DEF S
  <2>2. QED
    BY <1>1, <1>2, <2>1, SequenceInduction
<1>4. QED
  BY <1>3

LEMMA FoldUnique ==
  ASSUME NEW N \in Nat, NEW f, NEW g, f[0] = g[0],
         \A n \in 1 .. N : f[n - 1] = g[n - 1] => f[n] = g[n]
  PROVE  f[N] = g[N]
<1> DEFINE S == {n \in Nat : n <= N => f[n] = g[n]}
<1>1. 0 \in S
  OBVIOUS
<1>2. ASSUME NEW n \in S PROVE n + 1 \in S
  <2>1. CASE n + 1 <= N
    <3>1. n <= N /\ n + 1 \in 1 .. N /\ (n + 1) - 1 = n
      BY <2>1
    <3>2. f[n] = g[n]
      BY <3>1
    <3>3. QED
      BY <3>1, <3>2
  <2>2. QED
    BY <2>1
<1> HIDE DEF S
<1>3. S = Nat
  <2>1. S \in SUBSET Nat
    BY DEF S
  <2>2. QED
    BY <1>1, <1>2, <2>1, Induction
<1>4. QED
  BY <1>3 DEF S

\* What a function of texts that ends every run is.
LEMMA FoldLaws ==
  ASSUME NEW W, NEW A, NEW start \in W, NEW move, StepOf(move, W, A), NEW F,
         \A s \in Seq(A) : \A f \in Runs(s, move, start, W) : F[s] = f[Len(s)]
  PROVE  /\ F[<<>>] = start
         /\ \A s \in Seq(A) : F[s] \in W
         /\ \A s \in Seq(A), x \in A : F[Append(s, x)] = move[<<F[s], x>>]
<1>1. F[<<>>] = start
  <2>1. <<>> \in Seq(A) /\ Len(<<>>) = 0
    OBVIOUS
  <2>2. PICK f \in Runs(<<>>, move, start, W) : TRUE
    BY <2>1, RunsExist
  <2>3. f[0] = start
    BY <2>2 DEF Runs
  <2>4. QED
    BY <2>1, <2>2, <2>3
<1>2. ASSUME NEW s \in Seq(A) PROVE F[s] \in W
  <2>1. PICK f \in Runs(s, move, start, W) : TRUE
    BY RunsExist
  <2>2. f[Len(s)] \in W
    BY <2>1 DEF Runs
  <2>3. QED
    BY <2>1, <2>2
<1>3. ASSUME NEW s \in Seq(A), NEW x \in A
      PROVE  F[Append(s, x)] = move[<<F[s], x>>]
  <2> DEFINE t == Append(s, x)
             N == Len(s)
  <2>1. t \in Seq(A) /\ Len(t) = N + 1 /\ t[N + 1] = x /\ \A n \in 1 .. N : t[n] = s[n]
    OBVIOUS
  <2>2. /\ N \in Nat /\ N + 1 \in 1 .. N + 1 /\ (N + 1) - 1 = N
        /\ \A n \in 1 .. N : n \in 1 .. N + 1
        /\ \A n \in 0 .. N : n \in 0 .. N + 1
        /\ \A n \in 1 .. N : n - 1 \in 0 .. N /\ n \in 0 .. N
        /\ 0 \in 0 .. N /\ N \in 0 .. N
    OBVIOUS
  <2> HIDE DEF t
  <2>3. PICK f \in Runs(t, move, start, W) : TRUE
    BY <2>1, RunsExist
  <2>4. /\ f \in [0 .. N + 1 -> W] /\ f[0] = start
        /\ \A n \in 1 .. N + 1 : f[n] = move[<<f[n - 1], t[n]>>]
    BY <2>1, <2>3 DEF Runs
  <2> DEFINE g == [n \in 0 .. N |-> f[n]]
  <2>5. g \in Runs(s, move, start, W)
    <3> HIDE DEF N
    <3>1. g \in [0 .. N -> W] /\ g[0] = start
      BY <2>2, <2>4
    <3>2. \A n \in 1 .. N : g[n] = move[<<g[n - 1], s[n]>>]
      BY <2>1, <2>2, <2>4
    <3> HIDE DEF g
    <3>3. QED
      BY <3>1, <3>2 DEF N, Runs
  <2> HIDE DEF N
  <2>6. g[N] = f[N]
    BY <2>2
  <2> HIDE DEF g
  <2>7. F[s] = f[N]
    BY <2>5, <2>6 DEF N
  <2>8. F[t] = f[N + 1]
    BY <2>1, <2>3
  <2>9. f[N + 1] = move[<<f[N], x>>]
    BY <2>1, <2>2, <2>4
  <2>10. QED
    BY <2>7, <2>8, <2>9 DEF t
<1>4. QED
  BY <1>1, <1>2, <1>3

-----------------------------------------------------------------------------
(* What the binders make of what a request says.                           *)

\* The case is one that can be.
Posed ==
  /\ target \in Seq(StructFields)
  /\ content \in Contents
  /\ given \in [Indices -> [Sources -> Seq(FieldTexts)]]
  /\ \A i \in Indices :
       /\ target[i].rule # "none" => target[i].sibling \in Indices
       /\ content # "decoded" => given[i].member = <<>>
       /\ given[i].member # <<>> =>
            \E text \in FieldTexts \ {Empty, Gappy} : given[i].member = <<text>>
       /\ HasBody /\ Tagged(i, "member") => target[i].body

\* QueryArray by its texts, and of texts of which none is empty.
LEMMA KeptFolds ==
  ASSUME NEW A, Gappy \notin A
  PROVE  /\ Kept(<<>>) = <<>>
         /\ \A s \in Seq(A) : Kept(s) \in Seq(A \ {Empty})
         /\ \A s \in Seq(A), x \in A :
              Kept(Append(s, x)) = IF x = Empty THEN Kept(s) ELSE Append(Kept(s), x)
<1> DEFINE W == Seq(A \ {Empty})
           start == <<>>
           Step(w, x) == IF x = Empty THEN w ELSE Append(w, IF x = Gappy THEN "v" ELSE x)
           move == [p \in W \X A |-> Step(p[1], p[2])]
           F == [s \in Seq(A) |-> Kept(s)]
<1>1. start \in W /\ \A w \in W, x \in A : Step(w, x) \in W
  <2>1. ASSUME NEW w \in W, NEW x \in A PROVE Step(w, x) \in W
    <3>1. x # Gappy
      OBVIOUS
    <3>2. CASE x = Empty
      BY <3>2
    <3>3. CASE x # Empty
      <4>1. x \in A \ {Empty}
        BY <3>3
      <4>2. Append(w, x) \in W
        BY <4>1
      <4>3. QED
        BY <3>1, <3>3, <4>2
    <3>4. QED
      BY <3>2, <3>3
  <2>2. QED
    BY <2>1
<1>2. \A w \in W, x \in A : Step(w, x) = IF x = Empty THEN w ELSE Append(w, x)
  OBVIOUS
<1> HIDE DEF W, start, Step
<1>3. StepOf(move, W, A)
  BY <1>1 DEF StepOf
<1>4. \A w \in W, x \in A : move[<<w, x>>] = Step(w, x)
  OBVIOUS
<1> HIDE DEF move
<1>5. ASSUME NEW s \in Seq(A), NEW f \in Runs(s, move, start, W) PROVE F[s] = f[Len(s)]
  <2> DEFINE P(h) == h = [n \in 0 .. Len(s) |-> IF n = 0 THEN start ELSE Step(h[n - 1], s[n])]
             g == CHOOSE h : P(h)
             N == Len(s)
  <2>1. F[s] = g[N]
    BY DEF Kept, Step, start
  <2>2. /\ N \in Nat /\ 0 \in 0 .. N /\ \A n \in 0 .. N : n = 0 \/ n \in 1 .. N
        /\ \A n \in 1 .. N : n \in 0 .. N /\ n # 0 /\ n - 1 \in 0 .. N /\ s[n] \in A
    OBVIOUS
  <2>3. /\ f \in [0 .. N -> W] /\ f[0] = start
        /\ \A n \in 1 .. N : f[n] = move[<<f[n - 1], s[n]>>]
    BY DEF Runs
  <2> HIDE DEF N
  <2>4. \A n \in 1 .. N : f[n] = Step(f[n - 1], s[n])
    BY <1>4, <2>2, <2>3
  <2>5. f = [n \in 0 .. N |-> IF n = 0 THEN start ELSE Step(f[n - 1], s[n])]
    <3>1. \A n \in 0 .. N : f[n] = IF n = 0 THEN start ELSE Step(f[n - 1], s[n])
      BY <2>2, <2>3, <2>4
    <3>2. QED
      BY <2>3, <3>1
  <2>6. P(g)
    BY <2>5 DEF N
  <2> HIDE DEF g
  <2>7. g[0] = start /\ \A n \in 1 .. N : g[n] = Step(g[n - 1], s[n])
    BY <2>2, <2>6 DEF N
  <2> HIDE DEF P
  <2>8. \A n \in 1 .. N : f[n - 1] = g[n - 1] => f[n] = g[n]
    BY <2>4, <2>7
  <2>9. f[N] = g[N]
    <3>1. N \in Nat /\ f[0] = g[0]
      BY <2>2, <2>3, <2>7
    <3>2. QED
      BY <2>8, <3>1, FoldUnique
  <2>10. QED
    BY <2>1, <2>9 DEF N
<1> HIDE DEF F
<1>6. /\ F[<<>>] = start /\ \A s \in Seq(A) : F[s] \in W
      /\ \A s \in Seq(A), x \in A : F[Append(s, x)] = move[<<F[s], x>>]
  <2>1. \A s \in Seq(A) : \A f \in Runs(s, move, start, W) : F[s] = f[Len(s)]
    BY <1>5
  <2>2. QED
    BY <1>1, <1>3, <2>1, FoldLaws
<1>7. \A s \in Seq(A) : F[s] = Kept(s)
  BY DEF F
<1>8. /\ <<>> \in Seq(A)
      /\ \A s \in Seq(A), x \in A : Append(s, x) \in Seq(A)
  OBVIOUS
<1>9. Kept(<<>>) = start
  BY <1>6, <1>7, <1>8
<1>10. ASSUME NEW s \in Seq(A) PROVE Kept(s) \in W
  BY <1>6, <1>7
<1>11. ASSUME NEW s \in Seq(A), NEW x \in A
       PROVE  Kept(Append(s, x)) = IF x = Empty THEN Kept(s) ELSE Append(Kept(s), x)
  <2>1. F[s] \in W /\ F[Append(s, x)] = move[<<F[s], x>>]
    BY <1>6
  <2>2. move[<<F[s], x>>] = Step(F[s], x)
    BY <1>4, <2>1
  <2>3. F[s] = Kept(s) /\ F[Append(s, x)] = Kept(Append(s, x))
    BY <1>7, <1>8
  <2>4. Step(F[s], x) = IF x = Empty THEN F[s] ELSE Append(F[s], x)
    BY <1>2, <2>1
  <2>5. QED
    BY <2>1, <2>2, <2>3, <2>4
<1>12. QED
  BY <1>9, <1>10, <1>11 DEF W, start

LEMMA KeptWhole ==
  ASSUME NEW A, Gappy \notin A, Empty \notin A, NEW s \in Seq(A)
  PROVE  Kept(s) = s
<1> DEFINE S == {r \in Seq(A) : Kept(r) = r}
<1>1. <<>> \in S
  BY KeptFolds
<1>2. ASSUME NEW r \in S, NEW x \in A PROVE Append(r, x) \in S
  <2>1. Kept(Append(r, x)) = Append(Kept(r), x)
    BY KeptFolds
  <2>2. QED
    BY <2>1
<1>3. S = Seq(A)
  <2>1. S \in SUBSET Seq(A)
    OBVIOUS
  <2> HIDE DEF S
  <2>2. QED
    BY <1>1, <1>2, <2>1, SequenceInduction
<1>4. QED
  BY <1>3

\* Of one text, or none, it is the first.
LEMMA KeptFirst ==
  ASSUME NEW A, Gappy \notin A, NEW s \in Seq(A), Len(s) <= 1
  PROVE  Kept(s) = First(s)
<1>1. CASE s = <<>>
  BY <1>1, KeptFolds DEF First
<1>2. CASE s # <<>>
  <2>1. Len(s) = 1 /\ s[1] \in A
    BY <1>2
  <2>2. s = <<s[1]>> /\ Append(<<>>, s[1]) = <<s[1]>> /\ <<>> \in Seq(A)
    BY <2>1
  <2>3. Kept(<<>>) = <<>>
    BY KeptFolds
  <2>4. Kept(Append(<<>>, s[1])) = IF s[1] = Empty THEN Kept(<<>>) ELSE Append(Kept(<<>>), s[1])
    BY <2>1, <2>2, KeptFolds
  <2>5. Kept(s) = IF s[1] = Empty THEN <<>> ELSE <<s[1]>>
    BY <2>2, <2>3, <2>4
  <2>6. QED
    BY <1>2, <2>5 DEF First
<1>3. QED
  BY <1>1, <1>2

\* The first of the tags that finds something, in an order of their own, found or not.
LEMMA FirstFound ==
  ASSUME NEW i, NEW order, DOMAIN order \subseteq Nat, NEW k \in DOMAIN order,
         Tagged(i, order[k]), Read(i, order[k]) # <<>>,
         \A l \in DOMAIN order : l < k => ~(Tagged(i, order[l]) /\ Read(i, order[l]) # <<>>)
  PROVE  FirstRead(i, order) = Read(i, order[k])
<1> DEFINE finds == {l \in DOMAIN order : Tagged(i, order[l]) /\ Read(i, order[l]) # <<>>}
           first == CHOOSE l \in finds : \A m \in finds : l <= m
<1>1. finds \in SUBSET Nat /\ k \in finds /\ \A l \in finds : ~(l < k)
  OBVIOUS
<1>2. FirstRead(i, order) = Read(i, order[first])
  BY <1>1 DEF FirstRead
<1> HIDE DEF finds
<1>3. first \in finds /\ first <= k
  BY <1>1, LeastChosen
<1>4. first = k
  <2>1. first \in Nat /\ k \in Nat /\ ~(first < k)
    BY <1>1, <1>3
  <2>2. QED
    BY <2>1, <1>3
<1>5. QED
  BY <1>2, <1>4

LEMMA NoneFound ==
  ASSUME NEW i, NEW order,
         \A l \in DOMAIN order : ~(Tagged(i, order[l]) /\ Read(i, order[l]) # <<>>)
  PROVE  FirstRead(i, order) = <<>>
BY DEF FirstRead

\* A source or, when it says nothing, the next ones: of what is read, and of what is said.
OrElse(i, s, rest)  == IF Tagged(i, s) /\ Read(i, s) # <<>> THEN Read(i, s) ELSE rest
OrNext(i, s, rest)  == IF Tagged(i, s) /\ SaidIn(i, s) # <<>> THEN SaidIn(i, s) ELSE rest

SaidOutside(i) ==
  OrNext(i, "path", OrNext(i, "query", OrNext(i, "form", OrNext(i, "header",
    OrNext(i, "cookie", <<>>)))))

LEMMA ReadOneByOne ==
  ASSUME NEW i, NEW order \in Seq(Sources), order # <<>>
  PROVE  FirstRead(i, order) = OrElse(i, order[1], FirstRead(i, Tail(order)))
<1> DEFINE found(s) == Tagged(i, s) /\ Read(i, s) # <<>>
           rest == Tail(order)
<1>1. /\ DOMAIN order = 1..Len(order) /\ Len(order) \in Nat /\ 1 \in DOMAIN order
      /\ DOMAIN rest = 1..(Len(order) - 1)
      /\ \A l \in DOMAIN rest : rest[l] = order[l + 1] /\ l + 1 \in DOMAIN order
  BY EmptySeq
<1>2. DOMAIN order \subseteq Nat /\ DOMAIN rest \subseteq Nat
  BY <1>1
<1>3. CASE found(order[1])
  <2>1. \A l \in DOMAIN order : ~(l < 1)
    BY <1>1
  <2>2. FirstRead(i, order) = Read(i, order[1])
    BY <1>1, <1>2, <1>3, <2>1, FirstFound
  <2>3. QED
    BY <2>2, <1>3 DEF OrElse
<1>4. CASE ~found(order[1]) /\ \E l \in DOMAIN rest : found(rest[l])
  <2> DEFINE finds == {l \in DOMAIN rest : found(rest[l])}
  <2>1. finds \in SUBSET Nat /\ finds # {}
    BY <1>2, <1>4
  <2>2. PICK k \in finds : \A l \in finds : k <= l
    <3> HIDE DEF finds
    <3>1. QED
      BY <2>1, LeastOf
  <2>3. k \in DOMAIN rest /\ found(rest[k]) /\ \A l \in DOMAIN rest : l < k => ~found(rest[l])
    <3>1. ASSUME NEW l \in DOMAIN rest, l < k, found(rest[l]) PROVE FALSE
      BY <2>1, <2>2, <3>1, <1>2
    <3>2. QED
      BY <2>2, <3>1
  <2>4. FirstRead(i, rest) = Read(i, rest[k])
    BY <1>2, <2>3, FirstFound
  <2>5. k + 1 \in DOMAIN order /\ order[k + 1] = rest[k]
    BY <1>1, <2>3
  <2>6. ASSUME NEW l \in DOMAIN order, l < k + 1 PROVE ~found(order[l])
    <3>1. CASE l = 1
      BY <3>1, <1>4
    <3>2. CASE l # 1
      <4>1. l - 1 \in DOMAIN rest /\ l - 1 < k /\ (l - 1) + 1 = l
        BY <1>1, <2>3, <2>6, <3>2
      <4>2. rest[l - 1] = order[l]
        BY <1>1, <4>1
      <4>3. QED
        BY <2>3, <4>1, <4>2
    <3>3. QED
      BY <3>1, <3>2
  <2>7. FirstRead(i, order) = Read(i, order[k + 1])
    BY <1>2, <2>3, <2>5, <2>6, FirstFound
  <2>8. QED
    BY <2>4, <2>5, <2>7, <1>4 DEF OrElse
<1>5. CASE ~found(order[1]) /\ ~\E l \in DOMAIN rest : found(rest[l])
  <2>1. FirstRead(i, rest) = <<>>
    BY <1>5, NoneFound
  <2>2. ASSUME NEW l \in DOMAIN order PROVE ~found(order[l])
    <3>1. CASE l = 1
      BY <3>1, <1>5
    <3>2. CASE l # 1
      <4>1. l - 1 \in DOMAIN rest /\ (l - 1) + 1 = l
        BY <1>1, <3>2
      <4>2. rest[l - 1] = order[l]
        BY <1>1, <4>1
      <4>3. QED
        BY <4>1, <4>2, <1>5
    <3>3. QED
      BY <3>1, <3>2
  <2>3. FirstRead(i, order) = <<>>
    BY <2>2, NoneFound
  <2>4. QED
    BY <2>1, <2>3, <1>5 DEF OrElse
<1>6. QED
  BY <1>3, <1>4, <1>5

\* The orders of the three binders, spelled out.
LEMMA ReadInOrder ==
  ASSUME NEW i
  PROVE  /\ FirstRead(i, Order) = OrElse(i, "path", OrElse(i, "query", OrElse(i, "form",
                                    OrElse(i, "header", OrElse(i, "cookie", <<>>)))))
         /\ FirstRead(i, <<"path", "query", "form", "header">>) =
              OrElse(i, "path", OrElse(i, "query", OrElse(i, "form", OrElse(i, "header", <<>>))))
         /\ FirstRead(i, <<"path", "query", "header", "cookie">>) =
              OrElse(i, "path", OrElse(i, "query", OrElse(i, "header", OrElse(i, "cookie", <<>>))))
<1>0. FirstRead(i, <<>>) = <<>>
  BY NoneFound
<1>1. ASSUME NEW a \in Sources PROVE FirstRead(i, <<a>>) = OrElse(i, a, <<>>)
  <2>1. <<a>> \in Seq(Sources) /\ <<a>> # <<>> /\ <<a>>[1] = a /\ Tail(<<a>>) = <<>>
    OBVIOUS
  <2>2. QED
    BY <2>1, <1>0, ReadOneByOne
<1>2. ASSUME NEW a \in Sources, NEW b \in Sources
      PROVE  FirstRead(i, <<a, b>>) = OrElse(i, a, OrElse(i, b, <<>>))
  <2>1. <<a, b>> \in Seq(Sources) /\ <<a, b>> # <<>> /\ <<a, b>>[1] = a /\ Tail(<<a, b>>) = <<b>>
    OBVIOUS
  <2>2. FirstRead(i, <<a, b>>) = OrElse(i, a, FirstRead(i, <<b>>))
    BY <2>1, ReadOneByOne, Zenon
  <2>3. QED
    BY <2>2, <1>1, Zenon
<1>3. ASSUME NEW a \in Sources, NEW b \in Sources, NEW c \in Sources
      PROVE  FirstRead(i, <<a, b, c>>) = OrElse(i, a, OrElse(i, b, OrElse(i, c, <<>>)))
  <2>1. /\ <<a, b, c>> \in Seq(Sources) /\ <<a, b, c>> # <<>> /\ <<a, b, c>>[1] = a
        /\ Tail(<<a, b, c>>) = <<b, c>>
    OBVIOUS
  <2>2. FirstRead(i, <<a, b, c>>) = OrElse(i, a, FirstRead(i, <<b, c>>))
    BY <2>1, ReadOneByOne, Zenon
  <2>3. QED
    BY <2>2, <1>2, Zenon
<1>4. ASSUME NEW a \in Sources, NEW b \in Sources, NEW c \in Sources, NEW d \in Sources
      PROVE  FirstRead(i, <<a, b, c, d>>) =
               OrElse(i, a, OrElse(i, b, OrElse(i, c, OrElse(i, d, <<>>))))
  <2>1. /\ <<a, b, c, d>> \in Seq(Sources) /\ <<a, b, c, d>> # <<>> /\ <<a, b, c, d>>[1] = a
        /\ Tail(<<a, b, c, d>>) = <<b, c, d>>
    OBVIOUS
  <2>2. FirstRead(i, <<a, b, c, d>>) = OrElse(i, a, FirstRead(i, <<b, c, d>>))
    BY <2>1, ReadOneByOne, Zenon
  <2>3. QED
    BY <2>2, <1>3, Zenon
<1>5. {"path", "query", "form", "header", "cookie"} \subseteq Sources
  BY DEF Sources
<1>6. Order \in Seq(Sources)
  BY DEF Order, Sources
<1>7. Order # <<>> /\ Order[1] = "path" /\ Tail(Order) = <<"query", "form", "header", "cookie">>
  BY DEF Order
<1>9. FirstRead(i, Order) = OrElse(i, "path", FirstRead(i, <<"query", "form", "header", "cookie">>))
  BY <1>6, <1>7, ReadOneByOne, Zenon
<1>10. FirstRead(i, <<"query", "form", "header", "cookie">>) =
         OrElse(i, "query", OrElse(i, "form", OrElse(i, "header", OrElse(i, "cookie", <<>>))))
  BY <1>4, <1>5
<1>11. FirstRead(i, <<"path", "query", "form", "header">>) =
         OrElse(i, "path", OrElse(i, "query", OrElse(i, "form", OrElse(i, "header", <<>>))))
  BY <1>4, <1>5
<1>12. FirstRead(i, <<"path", "query", "header", "cookie">>) =
         OrElse(i, "path", OrElse(i, "query", OrElse(i, "header", OrElse(i, "cookie", <<>>))))
  BY <1>4, <1>5
<1>13. QED
  BY <1>9, <1>10, <1>11, <1>12, Zenon

\* The texts that a field has in a source.
TextsIn(i, s) == {given[i][s][k] : k \in DOMAIN given[i][s]}

LEMMA TextsUnderKey ==
  ASSUME Posed, NEW i \in Indices, NEW s \in Sources
  PROVE  /\ given[i][s] \in Seq(FieldTexts) /\ given[i][s] \in Seq(TextsIn(i, s))
         /\ TextsIn(i, s) \subseteq FieldTexts
         /\ DOMAIN given[i] = Sources
<1>1. given[i][s] \in Seq(FieldTexts) /\ DOMAIN given[i] = Sources
  BY DEF Posed
<1>2. TextsIn(i, s) \subseteq FieldTexts
  BY <1>1 DEF TextsIn
<1>3. given[i][s] \in Seq(TextsIn(i, s))
  <2>1. \A k \in 1 .. Len(given[i][s]) : given[i][s][k] \in TextsIn(i, s)
    BY <1>1 DEF TextsIn
  <2>2. QED
    BY <1>1, <2>1
<1>4. QED
  BY <1>1, <1>2, <1>3

LEMMA ListsAlike ==
  ASSUME Posed, NEW i \in Indices, SaidAlike(i), target[i].kind # "one", NEW s \in Sources
  PROVE  Gappy \notin TextsIn(i, s) /\ Wide \notin TextsIn(i, s)
BY DEF SaidAlike, TextsIn

\* Where a binder reads the first text only, that is what is said.
LEMMA SaidFirst ==
  ASSUME Posed, NEW i \in Indices, SaidAlike(i), NEW s \in {"query", "form"},
         target[i].kind = "one" \/ ~ReadsAll(i)
  PROVE  SaidIn(i, s) = First(given[i][s])
<1>1. s \in Sources /\ s # "member"
  BY DEF Sources
<1>2. CASE target[i].kind = "one"
  BY <1>1, <1>2 DEF SaidIn
<1>3. CASE target[i].kind # "one"
  <2>1. Len(given[i][s]) \in Nat /\ ~(Len(given[i][s]) > 1)
    <3>1. Len(given[i][s]) \in Nat
      BY <1>1, TextsUnderKey
    <3>2. QED
      BY <1>3, <3>1 DEF SaidAlike
  <2>2. Len(given[i][s]) <= 1
    BY <2>1
  <2>3. Kept(given[i][s]) = First(given[i][s])
    BY <1>1, <1>3, <2>2, TextsUnderKey, ListsAlike, KeptFirst
  <2>4. QED
    BY <1>1, <1>3, <2>3 DEF SaidIn
<1>4. QED
  BY <1>2, <1>3

LEMMA FirstOfBoth ==
  ASSUME NEW s \in Seq(FieldTexts), NEW t \in Seq(FieldTexts)
  PROVE  /\ s = <<>> => s \o t = t
         /\ t = <<>> => s \o t = s
         /\ First(s \o t) = IF s = <<>> THEN First(t) ELSE First(s)
<1>1. s = <<>> => s \o t = t
  OBVIOUS
<1>2. t = <<>> => s \o t = s
  OBVIOUS
<1>3. s # <<>> => s \o t # <<>> /\ (s \o t)[1] = s[1]
  OBVIOUS
<1>4. QED
  BY <1>1, <1>2, <1>3 DEF First

\* A flat struct's query tag and form tag find what query and form say.
LEMMA FlatAlike ==
  ASSUME Posed, NEW i \in Indices, SaidAlike(i), ~Beside(i), NEW rest
  PROVE  OrElse(i, "query", OrElse(i, "form", rest)) = OrNext(i, "query", OrNext(i, "form", rest))
<1> DEFINE Q == given[i]["query"]
           R == given[i]["form"]
<1>1. /\ Q \in Seq(FieldTexts) /\ R \in Seq(FieldTexts)
      /\ Q # <<>> => Tagged(i, "query")
      /\ R # <<>> => Tagged(i, "form")
  <2>1. "query" \in Sources /\ "form" \in Sources
    BY DEF Sources
  <2>2. QED
    BY <2>1, TextsUnderKey DEF SaidAlike
<1>2. Read(i, "query") = ReadQuery(i) /\ Read(i, "form") = ReadForm(i)
  BY DEF Read
<1>3. CASE content # "multipart"
  <2>1. ~ReadsAll(i)
    BY <1>3 DEF ReadsAll
  <2>2. SaidIn(i, "query") = First(Q) /\ SaidIn(i, "form") = First(R)
    BY <2>1, SaidFirst
  <2>3. ReadQuery(i) = First(Q) /\ ReadForm(i) = First(R \o Q)
    BY <1>3 DEF ReadQuery, ReadForm, RequestForm
  <2> HIDE DEF Q, R
  <2>4. First(R \o Q) = IF R = <<>> THEN First(Q) ELSE First(R)
    BY <1>1, FirstOfBoth
  <2>5. First(<<>>) = <<>>
    BY DEF First
  <2>6. QED
    BY <1>1, <1>2, <2>2, <2>3, <2>4, <2>5 DEF OrElse, OrNext
<1>4. CASE content = "multipart" /\ target[i].kind = "strings"
  <2>1. Q = <<>> \/ R = <<>>
    BY <1>4 DEF SaidAlike
  <2>2. Kept(Q) = Q /\ Kept(R) = R
    <3>1. ASSUME NEW s \in {"query", "form"} PROVE Kept(given[i][s]) = given[i][s]
      <4>1. s \in Sources
        BY DEF Sources
      <4>2. Empty \notin TextsIn(i, s)
        BY <1>4 DEF SaidAlike, TextsIn
      <4>3. Gappy \notin TextsIn(i, s)
        BY <1>4, <4>1, ListsAlike
      <4>4. given[i][s] \in Seq(TextsIn(i, s))
        BY <4>1, TextsUnderKey
      <4>5. QED
        BY <4>2, <4>3, <4>4, KeptWhole
    <3>2. QED
      BY <3>1
  <2>3. SaidIn(i, "query") = Q /\ SaidIn(i, "form") = R
    BY <1>4, <2>2 DEF SaidIn
  <2>4. ReadQuery(i) = Q \o R /\ ReadForm(i) = R
    BY <1>4 DEF ReadQuery, ReadForm, RequestForm
  <2> HIDE DEF Q, R
  <2>5. (Q = <<>> => Q \o R = R) /\ (R = <<>> => Q \o R = Q)
    BY <1>1, FirstOfBoth
  <2>6. QED
    BY <1>1, <1>2, <2>1, <2>3, <2>4, <2>5 DEF OrElse, OrNext
<1>5. CASE content = "multipart" /\ target[i].kind # "strings"
  <2>1. ~ReadsAll(i)
    BY <1>5 DEF ReadsAll
  <2>2. SaidIn(i, "query") = First(Q) /\ SaidIn(i, "form") = First(R)
    BY <2>1, SaidFirst
  <2>3. R # <<>> => R[1] # Empty
    BY <1>5 DEF SaidAlike
  <2>4. ReadQuery(i) = First(Q \o R) /\ ReadForm(i) = IF R = <<>> THEN R ELSE <<R[1]>>
    BY <1>5 DEF ReadQuery, ReadForm, RequestForm
  <2> HIDE DEF Q, R
  <2>5. First(Q \o R) = IF Q = <<>> THEN First(R) ELSE First(Q)
    BY <1>1, FirstOfBoth
  <2>6. First(R) = IF R = <<>> THEN <<>> ELSE <<R[1]>>
    BY <2>3 DEF First
  <2>7. ReadForm(i) = First(R)
    BY <2>4, <2>6
  <2>8. First(<<>>) = <<>>
    BY DEF First
  <2>9. QED
    BY <1>1, <1>2, <2>2, <2>4, <2>5, <2>7, <2>8 DEF OrElse, OrNext
<1>6. QED
  BY <1>3, <1>4, <1>5

\* What a field is read to hold is what is said, where all binders are told the same.
LEMMA ReadAsSaid ==
  ASSUME Posed, NEW i \in Indices, SaidAlike(i)
  PROVE  /\ ~Beside(i) => FirstRead(i, Order) = SaidOutside(i)
         /\ ~Beside(i) /\ content = "multipart" =>
              FirstRead(i, <<"path", "query", "form", "header">>) = SaidOutside(i)
         /\ Beside(i) => FirstRead(i, <<"path", "query", "header", "cookie">>) = SaidOutside(i)
<1>1. ASSUME NEW s \in {"path", "header", "cookie"}, NEW rest
      PROVE  OrElse(i, s, rest) = OrNext(i, s, rest)
  BY DEF Read, SaidIn, OrElse, OrNext
<1>2. CASE Beside(i)
  <2>1. ReadQuery(i) = SaidIn(i, "query")
    BY <1>2 DEF ReadQuery, SaidIn
  <2>2. \A rest : OrElse(i, "query", rest) = OrNext(i, "query", rest)
    BY <2>1 DEF Read, OrElse, OrNext
  <2>3. \A rest : OrNext(i, "form", rest) = rest
    BY <1>2 DEF SaidAlike, OrNext
  <2>4. QED
    BY <1>1, <1>2, <2>2, <2>3, ReadInOrder DEF SaidOutside
<1>3. CASE ~Beside(i)
  <2>1. \A rest : OrElse(i, "query", OrElse(i, "form", rest)) =
                    OrNext(i, "query", OrNext(i, "form", rest))
    BY <1>3, FlatAlike
  <2>2. FirstRead(i, Order) = SaidOutside(i)
    BY <1>1, <2>1, ReadInOrder DEF SaidOutside
  <2>3. ASSUME content = "multipart"
        PROVE  FirstRead(i, <<"path", "query", "form", "header">>) = SaidOutside(i)
    <3>1. OrNext(i, "cookie", <<>>) = <<>>
      BY <1>3, <2>3 DEF SaidAlike, OrNext
    <3>2. QED
      BY <1>1, <2>1, <3>1, ReadInOrder DEF SaidOutside
  <2>4. QED
    BY <1>3, <2>2, <2>3
<1>4. QED
  BY <1>2, <1>3

\* What a text that is set means, and what a member says, or nothing, which leaves zero.
Meant(i, texts) == IF texts = <<Nought>> /\ target[i].kind = "one" THEN ZeroValue ELSE texts

SaidInside(i) ==
  IF Tagged(i, "member") /\ given[i]["member"] \notin {<<>>, <<Nought>>} THEN given[i]["member"]
  ELSE ZeroValue

\* Said, without its order.
LEMMA SaidInOrder ==
  ASSUME NEW i
  PROVE  Said(i) = IF SaidOutside(i) # <<>> THEN Meant(i, SaidOutside(i))
                   ELSE IF SaidInside(i) = ZeroValue /\ target[i].default # Empty
                   THEN Meant(i, <<target[i].default>>) ELSE SaidInside(i)
<1> DEFINE order == <<"path", "query", "form", "header", "cookie", "member">>
           speak == {k \in DOMAIN order : Tagged(i, order[k]) /\ SaidIn(i, order[k]) # <<>>}
           first == CHOOSE k \in speak : \A l \in speak : k <= l
           single == target[i].kind = "one"
           Means(texts, whole) == IF texts = <<Nought>> /\ whole THEN ZeroValue ELSE texts
           text  == IF speak = {} THEN ZeroValue
                    ELSE Means(SaidIn(i, order[first]), single \/ first = 6)
           isSaid(s) == Tagged(i, s) /\ SaidIn(i, s) # <<>>
<1>1. Said(i) = IF text = ZeroValue /\ speak \subseteq {6} /\ target[i].default # Empty
                THEN Means(<<target[i].default>>, single) ELSE text
  BY DEF Said
<1>2. /\ DOMAIN order = 1..6
      /\ order[1] = "path" /\ order[2] = "query" /\ order[3] = "form"
      /\ order[4] = "header" /\ order[5] = "cookie" /\ order[6] = "member"
  OBVIOUS
<1>3. speak \in SUBSET (1..6)
  BY <1>2
<1>4. \A k \in 1..6 : k \in speak <=> isSaid(order[k])
  BY <1>2
<1>m. \A texts : Means(texts, single) = Meant(i, texts)
  BY DEF Meant
<1>z. ZeroValue = <<>>
  BY DEF ZeroValue
<1> HIDE DEF order, speak, isSaid, Means
<1>5. speak # {} => first \in speak /\ \A l \in speak : first <= l
  <2>1. speak \in SUBSET Nat
    BY <1>3
  <2>2. QED
    BY <2>1, LeastChosen
<1>6. CASE speak = {}
  <2>1. \A k \in 1..6 : ~isSaid(order[k])
    BY <1>4, <1>6
  <2>2. /\ ~isSaid("path") /\ ~isSaid("query") /\ ~isSaid("form")
        /\ ~isSaid("header") /\ ~isSaid("cookie") /\ ~isSaid("member")
    BY <1>2, <2>1
  <2>3. SaidOutside(i) = <<>> /\ SaidInside(i) = ZeroValue
    <3>1. SaidIn(i, "member") = given[i]["member"]
      BY DEF SaidIn
    <3>2. QED
      BY <2>2, <3>1 DEF isSaid, SaidOutside, SaidInside, OrNext
  <2>4. text = ZeroValue /\ speak \subseteq {6}
    BY <1>6
  <2> HIDE DEF text
  <2>5. QED
    BY <1>1, <1>m, <2>3, <2>4
<1>7. CASE speak # {}
  <2>1. /\ first \in 1..6 /\ first \in speak
        /\ text = Means(SaidIn(i, order[first]), single \/ first = 6)
    BY <1>3, <1>5, <1>7
  <2>2. isSaid(order[first])
    BY <1>4, <2>1
  <2>3. ASSUME NEW l \in 1..6, l < first PROVE ~isSaid(order[l])
    <3> HIDE DEF first
    <3>1. l \in speak => first <= l
      BY <1>5, <1>7
    <3>2. l \notin speak
      BY <3>1, <2>1, <2>3
    <3>3. QED
      BY <1>4, <3>2
  <2> DEFINE said == SaidIn(i, order[first])
  <2> HIDE DEF first, text
  <2>4. CASE first < 6
    <3>1. said # <<>> /\ SaidOutside(i) = said
      BY <1>2, <2>1, <2>2, <2>3, <2>4 DEF isSaid, SaidOutside, OrNext
    <3>2. ~(speak \subseteq {6})
      BY <2>1, <2>4
    <3>3. text = Meant(i, said)
      <4>1. first # 6
        BY <2>1, <2>4
      <4>2. (single \/ first = 6) = single
        BY <4>1
      <4>3. text = Means(said, single)
        BY <2>1, <4>2
      <4>4. QED
        BY <4>3, <1>m
    <3> HIDE DEF said
    <3>4. QED
      BY <1>1, <3>1, <3>2, <3>3
  <2>5. CASE first = 6
    <3>1. SaidOutside(i) = <<>>
      BY <1>2, <2>1, <2>2, <2>3, <2>5 DEF isSaid, SaidOutside, OrNext
    <3>2. said = given[i]["member"] /\ said # <<>> /\ Tagged(i, "member")
      BY <1>2, <2>2, <2>5 DEF isSaid, SaidIn
    <3>3. text = SaidInside(i)
      <4>1. (single \/ first = 6) = TRUE
        BY <2>5
      <4>2. text = Means(said, TRUE)
        BY <2>1, <4>1
      <4> HIDE DEF said
      <4>3. text = IF said = <<Nought>> THEN ZeroValue ELSE said
        BY <4>2 DEF Means
      <4>4. QED
        BY <3>2, <4>3 DEF SaidInside
    <3>4. speak \subseteq {6}
      BY <1>3, <1>5, <1>7, <2>5
    <3>5. QED
      BY <1>1, <1>m, <3>1, <3>3, <3>4
  <2>6. QED
    BY <2>1, <2>4, <2>5
<1>8. QED
  BY <1>6, <1>7

\* What a source outside of the body says of a field is made of the texts it has there.
LEMMA SaidGiven ==
  ASSUME Posed, NEW i \in Indices, SaidAlike(i), NEW s \in Sources \ {"member"}
  PROVE  SaidIn(i, s) \in Seq(TextsIn(i, s) \ {Empty})
<1> DEFINE A == TextsIn(i, s)
           texts == given[i][s]
<1>1. texts \in Seq(A)
  BY TextsUnderKey
<1>2. First(texts) \in Seq(A \ {Empty})
  <2> HIDE DEF A, texts
  <2>1. CASE texts = <<>> \/ texts[1] = Empty
    BY <2>1 DEF First
  <2>2. CASE ~(texts = <<>> \/ texts[1] = Empty)
    <3>1. texts[1] \in A
      BY <1>1, <2>2
    <3>2. First(texts) = <<texts[1]>>
      BY <2>2 DEF First
    <3>3. QED
      BY <3>1, <3>2, <2>2
  <2>3. QED
    BY <2>1, <2>2
<1>3. target[i].kind # "one" => Kept(texts) \in Seq(A \ {Empty})
  <2>1. target[i].kind # "one" => Gappy \notin A
    BY ListsAlike
  <2> HIDE DEF A, texts
  <2>2. QED
    BY <1>1, <2>1, KeptFolds
<1>4. SaidIn(i, s) = First(texts) \/ (target[i].kind # "one" /\ SaidIn(i, s) = Kept(texts))
  BY DEF SaidIn
<1>5. QED
  BY <1>2, <1>3, <1>4

\* What outside of the body is said of a field can be set, or does not parse.
LEMMA OutsideGiven ==
  ASSUME Posed, NEW i \in Indices, SaidAlike(i)
  PROVE  /\ SaidOutside(i) \in Seq(FieldTexts)
         /\ \A k \in DOMAIN SaidOutside(i) :
              /\ SaidOutside(i)[k] # Empty
              /\ target[i].kind # "one" => SaidOutside(i)[k] \notin {Gappy, Wide}
              /\ target[i].kind # "strings" /\ SaidOutside(i)[k] \in {Broken, Wide} => Unparsed(i)
<1>1. {"path", "query", "form", "header", "cookie"} \subseteq Sources \ {"member"}
  BY DEF Sources
<1>2. CASE SaidOutside(i) = <<>>
  BY <1>2
<1>3. CASE SaidOutside(i) # <<>>
  <2>1. PICK s \in Sources \ {"member"} : Tagged(i, s) /\ SaidOutside(i) = SaidIn(i, s)
    BY <1>1, <1>3 DEF SaidOutside, OrNext
  <2> DEFINE texts == SaidOutside(i)
             A == TextsIn(i, s)
  <2>2. texts \in Seq(A \ {Empty})
    BY <2>1, SaidGiven
  <2>3. A \subseteq FieldTexts
    BY TextsUnderKey
  <2> HIDE DEF texts
  <2>4. texts \in Seq(FieldTexts)
    <3> HIDE DEF A
    <3>1. A \ {Empty} \subseteq FieldTexts
      BY <2>3
    <3>2. \A k \in 1 .. Len(texts) : texts[k] \in FieldTexts
      BY <2>2, <3>1
    <3>3. QED
      BY <2>2, <3>2
  <2>5. ASSUME NEW k \in DOMAIN texts
        PROVE  /\ texts[k] # Empty
               /\ target[i].kind # "one" => texts[k] \notin {Gappy, Wide}
               /\ target[i].kind # "strings" /\ texts[k] \in {Broken, Wide} => Unparsed(i)
    <3>1. texts[k] \in A /\ texts[k] # Empty
      <4> HIDE DEF A
      <4>1. k \in 1 .. Len(texts)
        BY <2>2
      <4>2. QED
        BY <2>2, <4>1
    <3>2. target[i].kind # "one" => texts[k] \notin {Gappy, Wide}
      <4>1. target[i].kind # "one" => Gappy \notin A /\ Wide \notin A
        BY ListsAlike
      <4>2. QED
        BY <3>1, <4>1
    <3>3. target[i].kind # "strings" /\ texts[k] \in {Broken, Wide} => Unparsed(i)
      <4>1. PICK l \in DOMAIN given[i][s] : given[i][s][l] = texts[k]
        BY <3>1 DEF TextsIn
      <4>2. QED
        BY <2>1, <4>1 DEF Unparsed
    <3>4. QED
      BY <3>1, <3>2, <3>3
  <2>6. QED
    BY <2>4, <2>5 DEF texts
<1>4. QED
  BY <1>2, <1>3

\* Setting texts, none of which is empty or comes out cut, gives what they mean.
LEMMA SetMeans ==
  ASSUME NEW i, target[i].kind \in {"one", "strings", "numbers"},
         NEW texts \in Seq(FieldTexts), texts # <<>>,
         \A k \in DOMAIN texts :
           texts[k] # Empty /\ (target[i].kind # "one" => texts[k] \notin {Gappy, Wide})
  PROVE  /\ Meant(i, texts) # Refused
         /\ IF target[i].kind # "strings" /\ \E k \in DOMAIN texts : texts[k] \in {Broken, Wide}
            THEN Set(i, texts) = Refused ELSE Set(i, texts) = Meant(i, texts)
<1> DEFINE fails == \E k \in DOMAIN texts : ~Parsed(i, texts[k])
           clear == [k \in DOMAIN texts |-> IF texts[k] = Wide THEN Wrapped ELSE texts[k]]
<1>1. Meant(i, texts) # Refused
  <2>1. texts # Refused
    <3>1. 1 \in DOMAIN texts /\ texts[1] \in FieldTexts
      OBVIOUS
    <3>2. "refused" \notin FieldTexts
      BY DEF FieldTexts, Empty, Gappy, Nought, Broken, Wide, Odd
    <3>3. Refused[1] = "refused"
      BY DEF Refused
    <3>4. QED
      BY <3>1, <3>2, <3>3
  <2>2. ZeroValue # Refused
    BY DEF ZeroValue, Refused
  <2>3. QED
    BY <2>1, <2>2 DEF Meant
<1>2. \A k \in DOMAIN texts : Parsed(i, texts[k]) <=>
        target[i].kind = "strings" \/ texts[k] \notin {Broken, Wide}
  <2>1. Broken # Wide
    BY DEF Broken, Wide
  <2>2. QED
    BY <2>1 DEF Parsed
<1>3. fails <=> target[i].kind # "strings" /\ \E k \in DOMAIN texts : texts[k] \in {Broken, Wide}
  BY <1>2
<1>4. target[i].kind = "numbers" => clear = texts
  OBVIOUS
<1>5. Set(i, texts) = IF fails THEN Refused
                      ELSE IF target[i].kind = "one" /\ texts = <<Nought>> THEN ZeroValue
                      ELSE IF target[i].kind = "numbers" THEN clear ELSE texts
  BY DEF Set
<1> HIDE DEF fails, clear
<1>6. QED
  BY <1>1, <1>3, <1>4, <1>5 DEF Meant

LEMMA KindsAre ==
  ASSUME Posed, NEW i \in Indices
  PROVE  /\ target[i].kind \in {"one", "strings", "numbers"}
         /\ target[i].default \in FieldTexts \ {Gappy, Broken, Wide}
<1>1. target[i] \in StructFields
  BY DEF Posed, Indices
<1>2. QED
  BY <1>1 DEF StructFields

\* Setting what outside of the body is said, and setting the default.
LEMMA OutsideSet ==
  ASSUME Posed, NEW i \in Indices, SaidAlike(i), SaidOutside(i) # <<>>
  PROVE  LET v == Set(i, SaidOutside(i))
         IN  /\ v # Refused => v = Meant(i, SaidOutside(i))
             /\ v = Refused => Unparsed(i)
<1> DEFINE texts == SaidOutside(i)
<1>1. /\ texts \in Seq(FieldTexts) /\ target[i].kind \in {"one", "strings", "numbers"}
      /\ \A k \in DOMAIN texts :
           /\ texts[k] # Empty
           /\ target[i].kind # "one" => texts[k] \notin {Gappy, Wide}
           /\ target[i].kind # "strings" /\ texts[k] \in {Broken, Wide} => Unparsed(i)
  BY OutsideGiven, KindsAre
<1> HIDE DEF texts
<1>2. texts # <<>>
  BY DEF texts
<1>3. /\ Meant(i, texts) # Refused
      /\ IF target[i].kind # "strings" /\ \E k \in DOMAIN texts : texts[k] \in {Broken, Wide}
         THEN Set(i, texts) = Refused ELSE Set(i, texts) = Meant(i, texts)
  BY <1>1, <1>2, SetMeans
<1>4. /\ Set(i, texts) # Refused => Set(i, texts) = Meant(i, texts)
      /\ Set(i, texts) = Refused => Unparsed(i)
  BY <1>1, <1>3
<1>5. QED
  BY <1>4 DEF texts

LEMMA DefaultSet ==
  ASSUME Posed, NEW i \in Indices, target[i].default # Empty
  PROVE  /\ Set(i, <<target[i].default>>) = Meant(i, <<target[i].default>>)
         /\ Set(i, <<target[i].default>>) # Refused
<1> DEFINE default == target[i].default
           texts == <<default>>
<1>1. /\ target[i].kind \in {"one", "strings", "numbers"}
      /\ default \in FieldTexts \ {Empty, Gappy, Broken, Wide}
  BY KindsAre
<1> HIDE DEF default
<1>2. texts \in Seq(FieldTexts) /\ texts # <<>> /\ \A k \in DOMAIN texts : texts[k] = default
  BY <1>1
<1> HIDE DEF texts
<1>3. \A k \in DOMAIN texts : texts[k] \notin {Empty, Gappy, Wide, Broken}
  BY <1>1, <1>2
<1>4. /\ Meant(i, texts) # Refused
      /\ IF target[i].kind # "strings" /\ \E k \in DOMAIN texts : texts[k] \in {Broken, Wide}
         THEN Set(i, texts) = Refused ELSE Set(i, texts) = Meant(i, texts)
  BY <1>1, <1>2, <1>3, SetMeans
<1>5. Set(i, texts) = Meant(i, texts) /\ Set(i, texts) # Refused
  BY <1>3, <1>4
<1>6. QED
  BY <1>5 DEF texts, default

\* What the body leaves in a field.
LEMMA InsideDecoded ==
  ASSUME Posed, NEW i \in Indices
  PROVE  /\ Decoded(i) # Refused => Decoded(i) = SaidInside(i)
         /\ Decoded(i) = Refused => Unparsed(i)
         /\ content # "decoded" => SaidInside(i) = ZeroValue
         /\ SaidInside(i) # Refused
<1> DEFINE member == given[i]["member"]
<1>1. /\ content # "decoded" => member = <<>>
      /\ member = <<>> \/ \E text \in FieldTexts : member = <<text>>
      /\ "member" \in Sources
  BY DEF Posed, Sources
<1>2. Decoded(i) = IF content # "decoded" \/ ~Tagged(i, "member") \/ member \in {<<>>, <<Nought>>}
                   THEN ZeroValue
                   ELSE IF member \in {<<Broken>>, <<Wide>>} THEN Refused ELSE member
  BY DEF Decoded
<1>3. SaidInside(i) = IF Tagged(i, "member") /\ member \notin {<<>>, <<Nought>>} THEN member
                      ELSE ZeroValue
  BY DEF SaidInside
<1>4. ASSUME member \in {<<Broken>>, <<Wide>>}, Tagged(i, "member") PROVE Unparsed(i)
  <2>1. 1 \in DOMAIN member /\ member[1] \in {Broken, Wide}
    BY <1>4
  <2>2. QED
    BY <1>1, <1>4, <2>1 DEF Unparsed
<1> HIDE DEF member
<1>5. member # Refused /\ ZeroValue # Refused
  <2>1. "refused" \notin FieldTexts
    BY DEF FieldTexts, Empty, Gappy, Nought, Broken, Wide, Odd
  <2>2. \A text \in FieldTexts : <<text>> # <<"refused">>
    BY <2>1
  <2>3. <<>> # <<"refused">>
    OBVIOUS
  <2>4. QED
    BY <1>1, <2>2, <2>3 DEF Refused, ZeroValue
<1>6. QED
  BY <1>1, <1>2, <1>3, <1>4, <1>5

\* Laying the other sources over what the body left says what the request says.
LEMMA FilledAsSaid ==
  ASSUME Posed, NEW i \in Indices, SaidAlike(i), NEW order,
         FirstRead(i, order) = SaidOutside(i)
  PROVE  LET v == Filled(i, order, SaidInside(i))
         IN  /\ v # Refused => v = Said(i)
             /\ v = Refused => Unparsed(i) \/ (target[i].required /\ Said(i) = ZeroValue)
<1> DEFINE v == Filled(i, order, SaidInside(i))
           texts == SaidOutside(i)
           default == target[i].default
<1>1. v = IF texts # <<>> THEN Set(i, texts)
          ELSE IF default # Empty /\ SaidInside(i) = ZeroValue THEN Set(i, <<default>>)
          ELSE IF target[i].required /\ SaidInside(i) = ZeroValue THEN Refused ELSE SaidInside(i)
  BY DEF Filled
<1>2. Said(i) = IF texts # <<>> THEN Meant(i, texts)
                ELSE IF SaidInside(i) = ZeroValue /\ default # Empty
                THEN Meant(i, <<default>>) ELSE SaidInside(i)
  BY SaidInOrder
<1>3. SaidInside(i) # Refused
  BY InsideDecoded
<1>4. texts # <<>> => /\ Set(i, texts) # Refused => Set(i, texts) = Meant(i, texts)
                      /\ Set(i, texts) = Refused => Unparsed(i)
  BY OutsideSet
<1>5. default # Empty => /\ Set(i, <<default>>) = Meant(i, <<default>>)
                         /\ Set(i, <<default>>) # Refused
  BY DefaultSet
<1> HIDE DEF v, texts, default
<1>6. /\ v # Refused => v = Said(i)
      /\ v = Refused => Unparsed(i) \/ (target[i].required /\ Said(i) = ZeroValue)
  <2>1. CASE texts # <<>>
    BY <1>1, <1>2, <1>4, <2>1
  <2>2. CASE texts = <<>> /\ default # Empty /\ SaidInside(i) = ZeroValue
    BY <1>1, <1>2, <1>5, <2>2
  <2>3. CASE texts = <<>> /\ ~(default # Empty /\ SaidInside(i) = ZeroValue)
    BY <1>1, <1>2, <1>3, <2>3
  <2>4. QED
    BY <2>1, <2>2, <2>3
<1>7. QED
  BY <1>6 DEF v

\* What comes to stand in a field, in the flat binders and for Body, and for the fields next
\* to Body, before the rules are looked at.
Flat(i) ==
  IF content = "multipart" THEN FromMultipart(i)
  ELSE IF Decoded(i) = Refused THEN Refused ELSE Overlaid(i, Decoded(i))

OwnSource(i) ==
  LET texts == FirstRead(i, <<"path", "query", "header", "cookie">>)
  IN  IF texts # <<>> THEN Set(i, texts)
      ELSE IF target[i].default # Empty THEN Set(i, <<target[i].default>>) ELSE ZeroValue

Bound(i) == IF Beside(i) THEN OwnSource(i) ELSE Flat(i)

\* All binders say the same of a field.
LEMMA BoundIsSaid ==
  ASSUME Posed, NEW i \in Indices, SaidAlike(i)
  PROVE  /\ Bound(i) # Refused => Bound(i) = Said(i)
         /\ Bound(i) = Refused => Unparsed(i) \/ (target[i].required /\ Said(i) = ZeroValue)
<1>1. CASE Beside(i)
  <2> DEFINE texts == SaidOutside(i)
             default == target[i].default
  <2>1. Bound(i) = IF texts # <<>> THEN Set(i, texts)
                   ELSE IF default # Empty THEN Set(i, <<default>>) ELSE ZeroValue
    BY <1>1, ReadAsSaid DEF Bound, OwnSource
  <2>2. SaidInside(i) = ZeroValue
    BY <1>1 DEF SaidInside, Posed, Beside
  <2>3. Said(i) = IF texts # <<>> THEN Meant(i, texts)
                  ELSE IF default # Empty THEN Meant(i, <<default>>) ELSE ZeroValue
    BY <2>2, SaidInOrder
  <2>4. texts # <<>> => /\ Set(i, texts) # Refused => Set(i, texts) = Meant(i, texts)
                        /\ Set(i, texts) = Refused => Unparsed(i)
    BY OutsideSet
  <2>5. default # Empty => /\ Set(i, <<default>>) = Meant(i, <<default>>)
                           /\ Set(i, <<default>>) # Refused
    BY DefaultSet
  <2>6. ZeroValue # Refused
    BY <2>2, InsideDecoded
  <2> HIDE DEF texts, default
  <2>7. QED
    BY <2>1, <2>3, <2>4, <2>5, <2>6
<1>2. CASE ~Beside(i)
  <2>1. Bound(i) = Flat(i)
    BY <1>2 DEF Bound
  <2>2. CASE content = "multipart"
    <3>1. SaidInside(i) = ZeroValue
      BY <2>2, InsideDecoded
    <3>2. Flat(i) = Filled(i, <<"path", "query", "form", "header">>, SaidInside(i))
      BY <2>2, <3>1 DEF Flat, FromMultipart
    <3>3. QED
      BY <1>2, <2>1, <2>2, <3>2, ReadAsSaid, FilledAsSaid
  <2>3. CASE content # "multipart" /\ Decoded(i) = Refused
    <3>1. Flat(i) = Refused /\ Unparsed(i)
      BY <2>3, InsideDecoded DEF Flat
    <3>2. QED
      BY <2>1, <3>1
  <2>4. CASE content # "multipart" /\ Decoded(i) # Refused
    <3>1. Decoded(i) = SaidInside(i)
      BY <2>4, InsideDecoded
    <3>2. Flat(i) = Filled(i, Order, SaidInside(i))
      BY <2>4, <3>1 DEF Flat, Overlaid
    <3>3. QED
      BY <1>2, <2>1, <3>2, ReadAsSaid, FilledAsSaid
  <2>5. QED
    BY <2>2, <2>3, <2>4
<1>3. QED
  BY <1>1, <1>2

-----------------------------------------------------------------------------
(* The loops of the binders: fields before at are bound, and, once they    *)
(* are looked at, keep the rules that only look back.                      *)

RuleKept(i) ==
  /\ target[i].required => value[i] # ZeroValue
  /\ RuleHolds(i, value)
  /\ target[i].limited => ~BreaksLimit(value[i])

IsBound(i) == Bound(i) # Refused /\ value[i] = Bound(i)

\* All that is said of a field, as its rules see it.
AllSaid == [j \in Indices |-> Said(j)]

WhyRefused ==
  (\A i \in Indices : SaidAlike(i) /\ (HasBody => target[i].sibling < i)) =>
    \/ content = "malformed"
    \/ \E i \in Indices : Unparsed(i) \/ ~Valid(i, AllSaid)

\* Where the binders are.
Loops ==
  /\ at \in 1 .. Len(target) + 1 /\ DOMAIN value = Indices
  /\ binder \in {"bind", "decode", "overlay", "multipart", "extract", "validate", "accepted",
                 "refused"}
  /\ binder \in {"bind", "decode"} => at = 1
  /\ binder \in {"decode", "overlay", "multipart", "validate"} =>
       ~HasBody /\ content # "malformed"
  /\ binder \in {"decode", "overlay"} => content # "multipart"
  /\ binder = "multipart" => content = "multipart"
  /\ binder = "extract" => HasBody

\* How far they are.
Progress ==
  /\ binder = "overlay" =>
       \A i \in Indices : IF i < at THEN IsBound(i)
                         ELSE Decoded(i) # Refused /\ value[i] = Decoded(i)
  /\ binder \in {"multipart", "extract"} => \A i \in Indices : i < at => IsBound(i)
  /\ binder \in {"validate", "accepted"} => \A i \in Indices : IsBound(i)
  /\ binder \in {"validate", "extract"} => \A i \in Indices : i < at => RuleKept(i)
  /\ binder = "accepted" => \A i \in Indices : RuleKept(i)
  /\ binder = "refused" => WhyRefused

BindingInv == Posed /\ Loops /\ Progress

\* The rule of a field looks at the field and, when it is about one, at another.
LEMMA RulesLook ==
  ASSUME Posed, NEW i \in Indices, NEW v, NEW w, v[i] = w[i],
         target[i].rule # "none" => v[target[i].sibling] = w[target[i].sibling]
  PROVE  Valid(i, v) <=> Valid(i, w)
<1>1. ConditionallyRequired(i, v) <=> ConditionallyRequired(i, w)
  BY DEF ConditionallyRequired
<1>2. QED
  BY <1>1 DEF Valid

\* A field that cannot be bound, or breaks a rule, is why the request is refused.
LEMMA UnboundRefused ==
  ASSUME Posed, NEW i \in Indices, Bound(i) = Refused
  PROVE  WhyRefused
<1> SUFFICES ASSUME SaidAlike(i)
             PROVE  Unparsed(i) \/ ~Valid(i, AllSaid)
  BY DEF WhyRefused
<1>1. CASE target[i].required /\ Said(i) = ZeroValue
  BY <1>1 DEF Valid, AllSaid
<1>2. QED
  BY <1>1, BoundIsSaid

LEMMA InvalidRefused ==
  ASSUME Posed, NEW i \in Indices, NEW v, v[i] = Bound(i), Bound(i) # Refused, ~Valid(i, v),
         target[i].rule # "none" /\ (HasBody => target[i].sibling < i) =>
           /\ Bound(target[i].sibling) # Refused
           /\ v[target[i].sibling] = Bound(target[i].sibling)
  PROVE  WhyRefused
<1> DEFINE s == target[i].sibling
<1> SUFFICES ASSUME \A j \in Indices : SaidAlike(j) /\ (HasBody => target[j].sibling < j)
             PROVE  ~Valid(i, AllSaid)
  BY DEF WhyRefused
<1>1. v[i] = AllSaid[i]
  BY BoundIsSaid DEF AllSaid
<1>2. ASSUME target[i].rule # "none" PROVE v[s] = AllSaid[s]
  <2>1. s \in Indices
    BY <1>2 DEF Posed
  <2>2. v[s] = Bound(s) /\ Bound(s) # Refused
    BY <1>2
  <2>3. Bound(s) = Said(s)
    BY <2>1, <2>2, BoundIsSaid
  <2>4. QED
    BY <2>1, <2>2, <2>3 DEF AllSaid
<1>3. QED
  BY <1>1, <1>2, RulesLook

\* A body that cannot be decoded is.
LEMMA UndecodedRefused ==
  ASSUME Posed, ~HasBody, NEW i \in Indices, Decoded(i) = Refused
  PROVE  WhyRefused
<1>1. Unparsed(i)
  BY InsideDecoded
<1>2. QED
  BY <1>1 DEF WhyRefused

\* Nothing of this changes with the binder.
LEMMA CaseStays ==
  ASSUME UNCHANGED request
  PROVE  /\ Posed' = Posed /\ HasBody' = HasBody /\ Indices' = Indices
         /\ WhyRefused' = WhyRefused
         /\ \A i : Bound(i)' = Bound(i) /\ Decoded(i)' = Decoded(i)
<1>1. UNCHANGED <<target, content, given>>
  BY DEF request
<1>2. Posed' = Posed /\ HasBody' = HasBody /\ Indices' = Indices
  BY <1>1 DEF Posed, HasBody, Indices, Tagged
<1>3. \A i : Decoded(i)' = Decoded(i)
  BY <1>1 DEF Decoded, Tagged
<1>4. ASSUME NEW i, NEW order PROVE FirstRead(i, order)' = FirstRead(i, order)
  BY <1>1, <1>2 DEF FirstRead, Read, ReadQuery, ReadForm, RequestForm, Beside, Tagged
<1>5. ASSUME NEW i, NEW order, NEW v PROVE Filled(i, order, v)' = Filled(i, order, v)
  BY <1>1, <1>4 DEF Filled, Set, Parsed
<1>6. ASSUME NEW i PROVE Bound(i)' = Bound(i)
  BY <1>1, <1>2, <1>3, <1>4, <1>5 DEF Bound, Flat, Beside, OwnSource, FromMultipart, Overlaid, Set, Parsed
<1>7. ASSUME NEW i PROVE Said(i)' = Said(i)
  BY <1>1 DEF Said, SaidIn, Tagged
<1>8. AllSaid' = AllSaid
  BY <1>2, <1>7 DEF AllSaid
<1>9. ASSUME NEW i PROVE Valid(i, AllSaid)' = Valid(i, AllSaid)
  BY <1>1, <1>8 DEF Valid, ConditionallyRequired
<1>10. ASSUME NEW i PROVE Unparsed(i)' = Unparsed(i) /\ SaidAlike(i)' = SaidAlike(i)
  BY <1>1, <1>2 DEF Unparsed, SaidAlike, ReadsAll, Beside, Tagged
<1>11. WhyRefused' = WhyRefused
  BY <1>1, <1>2, <1>9, <1>10 DEF WhyRefused
<1>12. QED
  BY <1>2, <1>3, <1>6, <1>11

LEMMA FieldsCounted == Posed => Indices = 1 .. Len(target) /\ Indices \subseteq Nat
<1> SUFFICES ASSUME Posed PROVE Indices = 1 .. Len(target) /\ Indices \subseteq Nat
  OBVIOUS
<1>1. Indices = 1 .. Len(target) /\ Len(target) \in Nat
  BY DEF Indices, Posed
<1>2. QED
  BY <1>1

\* A rule that was kept is kept still when a later field is set.
LEMMA RuleStays ==
  ASSUME Posed, UNCHANGED request, DOMAIN value = Indices, at \in Nat, NEW v,
         value' = [value EXCEPT ![at] = v], NEW i \in Indices, i < at, HasBody, RuleKept(i)
  PROVE  RuleKept(i)'
<1>0. UNCHANGED <<target, content, given>> /\ HasBody'
  BY DEF request, HasBody, Indices
<1>nat. Indices \subseteq Nat
  BY FieldsCounted
<1>1. i \in Nat /\ i # at /\ value'[i] = value[i]
  BY <1>nat
<1>2. ASSUME target[i].rule # "none", target[i].sibling < i
      PROVE  value'[target[i].sibling] = value[target[i].sibling]
  <2>1. target[i].sibling \in Indices /\ target[i].sibling \in Nat
    BY <1>2, <1>nat DEF Posed
  <2>2. target[i].sibling # at
    BY <1>1, <1>2, <2>1
  <2>3. QED
    BY <2>1, <2>2
<1>3. RuleHolds(i, value)'
  <2>1. CASE target[i].rule # "none" /\ target[i].sibling < i
    BY <1>0, <1>1, <1>2, <2>1 DEF RuleKept, RuleHolds, ConditionallyRequired
  <2>2. CASE target[i].rule = "none"
    BY <1>0, <2>2 DEF RuleHolds, ConditionallyRequired
  <2>3. CASE ~(target[i].sibling < i)
    BY <1>0, <2>3 DEF RuleHolds
  <2>4. QED
    BY <2>1, <2>2, <2>3
<1>4. QED
  BY <1>0, <1>1, <1>3 DEF RuleKept

\* What Extracted sets, once it is checked.
LEMMA ExtractChecks ==
  ASSUME NEW i, HasBody
  PROVE  LET v  == Extracted(i)
             ok == /\ target[i].body => content # "malformed"
                   /\ Bound(i) # Refused /\ Valid(i, [value EXCEPT ![i] = Bound(i)])
         IN  (IF v # Refused /\ Valid(i, [value EXCEPT ![i] = v]) THEN v ELSE Refused) =
             IF ok THEN Bound(i) ELSE Refused
<1>1. CASE ~target[i].body
  <2>1. Extracted(i) = Bound(i)
    BY <1>1 DEF Extracted, Bound, Beside, OwnSource
  <2>2. QED
    BY <1>1, <2>1
<1>2. CASE target[i].body
  <2>1. Bound(i) = Flat(i)
    BY <1>2 DEF Bound, Beside
  <2>2. Extracted(i) = IF content # "malformed" /\ Flat(i) # Refused
                          /\ Valid(i, [value EXCEPT ![i] = Flat(i)])
                       THEN Flat(i) ELSE Refused
    <3>1. CASE content = "malformed"
      BY <1>2, <3>1 DEF Extracted, BoundBody
    <3>2. CASE content # "malformed"
      BY <1>2, <3>2 DEF Extracted, BoundBody, Flat
    <3>3. QED
      BY <3>1, <3>2
  <2>3. QED
    BY <1>2, <2>1, <2>2
<1>3. QED
  BY <1>1, <1>2

LEMMA ExtractStep ==
  ASSUME BindingInv, Extract
  PROVE  BindingInv'
<1>1. /\ binder = "extract" /\ UNCHANGED request /\ HasBody /\ Posed /\ Loops /\ Progress
  BY DEF Extract, Put, Then, BindingInv, Loops
<1>2. /\ Posed' /\ HasBody' /\ Indices' = Indices /\ WhyRefused' = WhyRefused
      /\ \A i : Bound(i)' = Bound(i) /\ Decoded(i)' = Decoded(i)
  BY <1>1, CaseStays
<1>3. /\ Indices = 1 .. Len(target) /\ Len(target) \in Nat
      /\ target' = target /\ at \in 1 .. Len(target) + 1 /\ DOMAIN value = Indices
      /\ \A i \in Indices : i < at => IsBound(i) /\ RuleKept(i)
  BY <1>1 DEF Posed, Indices, Loops, Progress, request
<1>4. PICK k : k = at
  OBVIOUS
<1> DEFINE v  == Bound(k)
           ok == /\ target[k].body => content # "malformed"
                 /\ v # Refused /\ Valid(k, [value EXCEPT ![k] = v])
<1>5. CASE at <= Len(target) /\ ok /\ Put(v)
  <2>1. binder' = "extract" /\ value' = [value EXCEPT ![k] = v] /\ at' = k + 1
    BY <1>1, <1>4, <1>5 DEF Put
  <2>2. k \in Indices /\ Loops'
    BY <1>1, <1>2, <1>3, <1>4, <1>5, <2>1 DEF Loops, Refused
  <2>3. /\ \A i \in Indices : i # k => value'[i] = value[i]
        /\ value'[k] = v
    BY <1>3, <2>1, <2>2
  <2>4. \A i \in Indices : i < k + 1 => i < k \/ i = k
    BY <1>3, <1>4
  <2>5. ASSUME NEW i \in Indices, i < k + 1 PROVE IsBound(i)'
    <3>1. CASE i = k
      BY <1>2, <1>5, <2>3, <3>1 DEF IsBound
    <3>2. CASE i < k
      BY <1>2, <1>3, <1>4, <2>3, <3>2 DEF IsBound
    <3>3. QED
      BY <2>4, <2>5, <3>1, <3>2
  <2>6. UNCHANGED <<target, content, given>>
    BY <1>1 DEF request
  <2>7. RuleKept(k)'
    <3>1. Valid(k, value')
      BY <1>5, <2>1
    <3>2. /\ target[k].required => value'[k] # ZeroValue
          /\ ConditionallyRequired(k, value') => value'[k] # ZeroValue
          /\ target[k].limited => ~BreaksLimit(value'[k])
      BY <3>1 DEF Valid
    <3>3. RuleHolds(k, value)'
      BY <3>2, <2>6 DEF RuleHolds, ConditionallyRequired
    <3>4. QED
      BY <3>2, <3>3, <2>6 DEF RuleKept
  <2>8. ASSUME NEW i \in Indices, i < k PROVE RuleKept(i)'
    <3>1. at \in Nat /\ RuleKept(i) /\ value' = [value EXCEPT ![at] = v]
      BY <1>3, <1>4, <2>1, <2>8
    <3>2. QED
      BY <1>1, <1>3, <1>4, <2>8, <3>1, RuleStays
  <2>9. \A i \in Indices : i < k + 1 => RuleKept(i)'
    BY <2>4, <2>7, <2>8
  <2>10. Progress'
    BY <1>2, <2>1, <2>5, <2>9 DEF Progress, Refused
  <2>11. QED
    BY <1>2, <2>2, <2>10 DEF BindingInv
<1>6. CASE at <= Len(target) /\ ~ok /\ Put(Refused)
  <2>1. binder' = "refused" /\ UNCHANGED <<at, value>> /\ k \in Indices
    BY <1>1, <1>3, <1>4, <1>6 DEF Put
  <2>2. WhyRefused
    <3>1. CASE content = "malformed"
      BY <3>1 DEF WhyRefused
    <3>2. CASE v = Refused
      BY <1>1, <2>1, <3>2, UnboundRefused
    <3>3. CASE v # Refused /\ ~Valid(k, [value EXCEPT ![k] = v])
      <4> DEFINE w == [value EXCEPT ![k] = v]
                 s == target[k].sibling
      <4>1. w[k] = Bound(k)
        BY <1>3, <2>1
      <4>2. ASSUME target[k].rule # "none", HasBody => s < k
            PROVE  Bound(s) # Refused /\ w[s] = Bound(s)
        <5>1. s \in Indices /\ s < k
          BY <1>1, <2>1, <4>2 DEF Posed
        <5>2. IsBound(s) /\ s # k
          BY <1>3, <1>4, <5>1
        <5>3. QED
          BY <1>3, <5>1, <5>2 DEF IsBound
      <4> HIDE DEF w
      <4>3. ~Valid(k, w)
        BY <3>3 DEF w
      <4>4. QED
        BY <1>1, <2>1, <3>3, <4>1, <4>2, <4>3, InvalidRefused
    <3>4. QED
      BY <1>6, <3>1, <3>2, <3>3
  <2>3. Loops'
    BY <1>1, <1>2, <1>3, <2>1 DEF Loops, Refused
  <2>4. Progress'
    BY <1>2, <2>1, <2>2 DEF Progress, Refused
  <2>5. QED
    BY <1>2, <2>3, <2>4 DEF BindingInv
<1>7. CASE Then("accepted")
  <2>1. binder' = "accepted" /\ at' = 1 /\ value' = value /\ at > Len(target)
    BY <1>7 DEF Then
  <2>2. Loops'
    BY <1>1, <1>2, <1>3, <2>1 DEF Loops, Refused
  <2>3. \A i \in Indices : IsBound(i) /\ RuleKept(i)
    BY <1>3, <2>1
  <2>4. UNCHANGED <<target, content, given>>
    BY <1>1 DEF request
  <2>5. ASSUME NEW i \in Indices PROVE IsBound(i)' /\ RuleKept(i)'
    <3>1. IsBound(i)'
      BY <1>2, <2>1, <2>3 DEF IsBound
    <3>2. RuleKept(i)'
      BY <1>1, <1>2, <2>1, <2>3, <2>4 DEF RuleKept, RuleHolds, ConditionallyRequired
    <3>3. QED
      BY <3>1, <3>2
  <2>6. Progress'
    BY <1>2, <2>1, <2>5 DEF Progress, Refused
  <2>7. QED
    BY <1>2, <2>2, <2>6 DEF BindingInv
<1>8. (at <= Len(target) /\ Put(IF ok THEN v ELSE Refused)) \/ Then("accepted")
  <2>1. \/ Put(IF Extracted(k) # Refused /\ Valid(k, [value EXCEPT ![k] = Extracted(k)])
               THEN Extracted(k) ELSE Refused)
        \/ Then("accepted")
    BY <1>4 DEF Extract
  <2>2. (IF Extracted(k) # Refused /\ Valid(k, [value EXCEPT ![k] = Extracted(k)])
         THEN Extracted(k) ELSE Refused) = IF ok THEN v ELSE Refused
    BY <1>1, ExtractChecks
  <2>3. QED
    BY <2>1, <2>2 DEF Put
<1> HIDE DEF ok
<1>9. QED
  BY <1>5, <1>6, <1>7, <1>8

\* A field of a flat struct.
LEMMA FlatBound ==
  ASSUME ~HasBody, NEW i
  PROVE  /\ content = "multipart" => Bound(i) = FromMultipart(i)
         /\ content # "multipart" =>
              Bound(i) = IF Decoded(i) = Refused THEN Refused ELSE Overlaid(i, Decoded(i))
BY DEF Bound, Flat, Beside

LEMMA FlatFieldStep ==
  ASSUME BindingInv, Overlay \/ Multipart
  PROVE  BindingInv'
<1>1. /\ binder \in {"overlay", "multipart"} /\ UNCHANGED request /\ ~HasBody
      /\ Posed /\ Loops /\ Progress
  BY DEF Overlay, Multipart, Put, Then, BindingInv, Loops
<1>2. /\ Posed' /\ ~HasBody' /\ Indices' = Indices /\ WhyRefused' = WhyRefused
      /\ \A i : Bound(i)' = Bound(i) /\ Decoded(i)' = Decoded(i)
  BY <1>1, CaseStays
<1>3. /\ Indices = 1 .. Len(target) /\ Len(target) \in Nat
      /\ target' = target /\ content' = content
      /\ at \in 1 .. Len(target) + 1 /\ DOMAIN value = Indices
      /\ \A i \in Indices : i < at => IsBound(i)
      /\ binder = "overlay" => content # "multipart" /\
           \A i \in Indices : ~(i < at) => Decoded(i) # Refused /\ value[i] = Decoded(i)
      /\ binder = "multipart" => content = "multipart"
  BY <1>1 DEF Posed, Indices, Loops, Progress, request
<1>4. PICK k : k = at
  OBVIOUS
<1>5. (at <= Len(target) /\ Put(Bound(k))) \/ Then("validate")
  <2>1. CASE Overlay
    <3>1. binder = "overlay" /\ (Put(Overlaid(k, value[k])) \/ Then("validate"))
      BY <1>4, <2>1 DEF Overlay
    <3>2. CASE Then("validate")
      BY <3>2
    <3>3. CASE Put(Overlaid(k, value[k]))
      <4>1. k \in Indices /\ at <= Len(target)
        BY <1>3, <1>4, <3>3 DEF Put
      <4>2. Bound(k) = Overlaid(k, value[k])
        BY <1>1, <1>3, <1>4, <3>1, <4>1, FlatBound
      <4>3. QED
        BY <3>3, <4>1, <4>2
    <3>4. QED
      BY <3>1, <3>2, <3>3
  <2>2. CASE Multipart
    <3>1. Put(FromMultipart(k)) \/ Then("validate")
      BY <1>4, <2>2 DEF Multipart
    <3>2. Bound(k) = FromMultipart(k)
      BY <1>1, <1>3, <2>2, FlatBound DEF Multipart
    <3>3. QED
      BY <3>1, <3>2 DEF Put
  <2>3. QED
    BY <2>1, <2>2
<1>6. CASE at <= Len(target) /\ Put(Bound(k)) /\ Bound(k) # Refused
  <2>1. binder' = binder /\ value' = [value EXCEPT ![k] = Bound(k)] /\ at' = k + 1
    BY <1>1, <1>4, <1>6 DEF Put
  <2>2. k \in Indices /\ Loops'
    BY <1>1, <1>2, <1>3, <1>4, <1>6, <2>1 DEF Loops, Refused
  <2>3. /\ \A i \in Indices : i # k => value'[i] = value[i]
        /\ value'[k] = Bound(k)
    BY <1>3, <2>1, <2>2
  <2>4. \A i \in Indices : i < k + 1 => i < k \/ i = k
    BY <1>3, <1>4
  <2>5. ASSUME NEW i \in Indices, i < k + 1 PROVE IsBound(i)'
    <3>1. CASE i = k
      BY <1>2, <1>6, <2>3, <3>1 DEF IsBound
    <3>2. CASE i < k
      BY <1>2, <1>3, <1>4, <2>3, <3>2 DEF IsBound
    <3>3. QED
      BY <2>4, <2>5, <3>1, <3>2
  <2>6. binder = "overlay" =>
          \A i \in Indices : ~(i < k + 1) => Decoded(i)' # Refused /\ value'[i] = Decoded(i)'
    BY <1>2, <1>3, <1>4, <2>3
  <2>7. Progress'
    BY <1>1, <1>2, <2>1, <2>5, <2>6 DEF Progress, Refused
  <2>8. QED
    BY <1>2, <2>2, <2>7 DEF BindingInv
<1>7. CASE at <= Len(target) /\ Put(Bound(k)) /\ Bound(k) = Refused
  <2>1. binder' = "refused" /\ UNCHANGED <<at, value>> /\ k \in Indices
    BY <1>1, <1>3, <1>4, <1>7 DEF Put
  <2>2. WhyRefused
    BY <1>1, <1>7, <2>1, UnboundRefused
  <2>3. Loops'
    BY <1>1, <1>2, <1>3, <2>1 DEF Loops, Refused
  <2>4. Progress'
    BY <1>2, <2>1, <2>2 DEF Progress, Refused
  <2>5. QED
    BY <1>2, <2>3, <2>4 DEF BindingInv
<1>8. CASE Then("validate")
  <2>1. binder' = "validate" /\ at' = 1 /\ value' = value /\ at > Len(target)
    BY <1>8 DEF Then
  <2>2. Loops'
    BY <1>1, <1>2, <1>3, <2>1 DEF Loops, Refused
  <2>3. \A i \in Indices : IsBound(i)'
    BY <1>2, <1>3, <2>1 DEF IsBound
  <2>4. \A i \in Indices : ~(i < 1)
    BY <1>3
  <2>5. Progress'
    BY <1>2, <2>1, <2>3, <2>4 DEF Progress, Refused
  <2>6. QED
    BY <1>2, <2>2, <2>5 DEF BindingInv
<1>9. QED
  BY <1>5, <1>6, <1>7, <1>8

LEMMA ValidateStep ==
  ASSUME BindingInv, Validate
  PROVE  BindingInv'
<1>1. binder = "validate" /\ UNCHANGED request /\ ~HasBody /\ Posed /\ Loops /\ Progress
  BY DEF Validate, Put, Then, BindingInv, Loops
<1>2. /\ Posed' /\ ~HasBody' /\ Indices' = Indices /\ WhyRefused' = WhyRefused
      /\ \A i : Bound(i)' = Bound(i) /\ Decoded(i)' = Decoded(i)
  BY <1>1, CaseStays
<1>3. /\ Indices = 1 .. Len(target) /\ Len(target) \in Nat
      /\ target' = target /\ content' = content
      /\ at \in 1 .. Len(target) + 1 /\ DOMAIN value = Indices
      /\ \A i \in Indices : IsBound(i) /\ (i < at => RuleKept(i))
  BY <1>1 DEF Posed, Indices, Loops, Progress, request
<1>4. PICK k : k = at
  OBVIOUS
<1>5. \A i \in Indices : value[i] # Refused
  BY <1>3 DEF IsBound
<1>6. CASE at <= Len(target) /\ Valid(k, value) /\ Put(value[k])
  <2>1. k \in Indices
    BY <1>3, <1>4, <1>6
  <2>2. binder' = "validate" /\ value' = [value EXCEPT ![k] = value[k]] /\ at' = k + 1
    BY <1>1, <1>4, <1>5, <1>6, <2>1 DEF Put
  <2>3. DOMAIN value' = Indices /\ \A i \in Indices : value'[i] = value[i]
    BY <1>3, <2>1, <2>2
  <2>4. Loops'
    BY <1>1, <1>2, <1>3, <1>4, <1>6, <2>2, <2>3 DEF Loops, Refused
  <2>5. \A i \in Indices : IsBound(i)'
    BY <1>2, <1>3, <2>3 DEF IsBound
  <2>6. ASSUME NEW i \in Indices, RuleKept(i) PROVE RuleKept(i)'
    <3>1. RuleHolds(i, value)'
      <4>1. target[i].rule # "none" => value'[target[i].sibling] = value[target[i].sibling]
        BY <1>1, <2>3 DEF Posed
      <4>2. QED
        BY <1>1, <1>2, <1>3, <2>3, <2>6, <4>1 DEF RuleKept, RuleHolds, ConditionallyRequired
    <3>2. QED
      BY <1>3, <2>3, <2>6, <3>1 DEF RuleKept
  <2>7. RuleKept(k)
    BY <1>6 DEF Valid, RuleKept, RuleHolds
  <2>8. \A i \in Indices : i < k + 1 => i < k \/ i = k
    BY <1>3, <1>4
  <2>9. \A i \in Indices : i < k + 1 => RuleKept(i)'
    BY <1>3, <1>4, <2>6, <2>7, <2>8
  <2>10. Progress'
    BY <1>2, <2>2, <2>5, <2>9 DEF Progress, Refused
  <2>11. QED
    BY <1>2, <2>4, <2>10 DEF BindingInv
<1>7. CASE at <= Len(target) /\ ~Valid(k, value) /\ Put(Refused)
  <2>1. binder' = "refused" /\ UNCHANGED <<at, value>> /\ k \in Indices
    BY <1>1, <1>3, <1>4, <1>7 DEF Put
  <2>2. WhyRefused
    <3>1. target[k].rule # "none" => target[k].sibling \in Indices
      BY <1>1, <2>1 DEF Posed
    <3>2. QED
      BY <1>1, <1>3, <1>7, <2>1, <3>1, InvalidRefused DEF IsBound
  <2>3. Loops'
    BY <1>1, <1>2, <1>3, <2>1 DEF Loops, Refused
  <2>4. Progress'
    BY <1>2, <2>1, <2>2 DEF Progress, Refused
  <2>5. QED
    BY <1>2, <2>3, <2>4 DEF BindingInv
<1>8. CASE Then("accepted")
  <2>1. binder' = "accepted" /\ at' = 1 /\ value' = value /\ at > Len(target)
    BY <1>8 DEF Then
  <2>2. Loops'
    BY <1>1, <1>2, <1>3, <2>1 DEF Loops, Refused
  <2>3. \A i \in Indices : IsBound(i) /\ RuleKept(i)
    BY <1>3, <2>1
  <2>4. ASSUME NEW i \in Indices PROVE IsBound(i)' /\ RuleKept(i)'
    <3>1. IsBound(i)'
      BY <1>2, <2>1, <2>3 DEF IsBound
    <3>2. RuleKept(i)'
      BY <1>1, <1>2, <1>3, <2>1, <2>3 DEF RuleKept, RuleHolds, ConditionallyRequired
    <3>3. QED
      BY <3>1, <3>2
  <2>5. Progress'
    BY <1>2, <2>1, <2>4 DEF Progress, Refused
  <2>6. QED
    BY <1>2, <2>2, <2>5 DEF BindingInv
<1>9. QED
  <2>1. Put(IF Valid(k, value) THEN value[k] ELSE Refused) \/ Then("accepted")
    BY <1>4 DEF Validate
  <2>2. QED
    BY <1>6, <1>7, <1>8, <2>1 DEF Put

LEMMA ContentStep ==
  ASSUME BindingInv, Bind \/ Decode
  PROVE  BindingInv'
<1>1. /\ binder \in {"bind", "decode"} /\ UNCHANGED request /\ at' = at
      /\ Posed /\ Loops /\ Progress /\ at = 1
  BY DEF Bind, Decode, BindingInv, Loops
<1>2. /\ Posed' /\ HasBody' = HasBody /\ Indices' = Indices /\ WhyRefused' = WhyRefused
      /\ \A i : Bound(i)' = Bound(i) /\ Decoded(i)' = Decoded(i)
  BY <1>1, CaseStays
<1>3. /\ target' = target /\ content' = content /\ DOMAIN value = Indices
      /\ at' \in 1 .. Len(target) + 1
      /\ \A i \in Indices : ~(i < 1)
  BY <1>1 DEF Posed, Indices, Loops, request
<1>4. CASE Bind
  <2>1. /\ binder' = IF HasBody THEN "extract" ELSE IF content = "malformed" THEN "refused"
                     ELSE IF content = "multipart" THEN "multipart" ELSE "decode"
        /\ value' = value
    BY <1>4 DEF Bind
  <2>2. Loops'
    BY <1>1, <1>2, <1>3, <2>1 DEF Loops, Refused
  <2>3. binder' = "refused" => WhyRefused
    BY <2>1 DEF WhyRefused, Refused
  <2>4. Progress'
    BY <1>1, <1>2, <1>3, <2>1, <2>3 DEF Progress, Refused
  <2>5. QED
    BY <1>2, <2>2, <2>4 DEF BindingInv
<1>5. CASE Decode
  <2>1. ~HasBody /\ content # "malformed" /\ content # "multipart"
    BY <1>1, <1>5 DEF Decode, Loops
  <2>2. CASE \E i \in Indices : Decoded(i) = Refused
    <3>1. binder' = "refused" /\ value' = value
      BY <1>5, <2>2 DEF Decode
    <3>2. WhyRefused
      BY <1>1, <2>1, <2>2, UndecodedRefused
    <3>3. Loops'
      BY <1>1, <1>2, <1>3, <3>1 DEF Loops, Refused
    <3>4. Progress'
      BY <1>2, <3>1, <3>2 DEF Progress, Refused
    <3>5. QED
      BY <1>2, <3>3, <3>4 DEF BindingInv
  <2>3. CASE ~\E i \in Indices : Decoded(i) = Refused
    <3>1. binder' = "overlay" /\ value' = [i \in Indices |-> Decoded(i)]
      BY <1>5, <2>3 DEF Decode
    <3>2. Loops'
      BY <1>1, <1>2, <1>3, <2>1, <3>1 DEF Loops, Refused
    <3>3. \A i \in Indices : Decoded(i)' # Refused /\ value'[i] = Decoded(i)'
      BY <1>2, <2>3, <3>1
    <3>4. Progress'
      BY <1>1, <1>2, <1>3, <3>1, <3>3 DEF Progress, Refused
    <3>5. QED
      BY <1>2, <3>2, <3>4 DEF BindingInv
  <2>4. QED
    BY <2>2, <2>3
<1>6. QED
  BY <1>4, <1>5

(* For any structs and requests, however many fields, texts and repeated   *)
(* keys, in whatever order: the binders keep every rule of the struct, and *)
(* agree on what a request says of each field that SaidAlike does not      *)
(* except; when it excepts none, they refuse only a request that does not  *)
(* parse or breaks a rule.                                                 *)
THEOREM BindersAgree == BindingSpec => []BoundAsSaid
<1>1. BindingInit => BindingInv
  <2> SUFFICES ASSUME NEW c \in Cases, BindingStart(c)
               PROVE  BindingInv
    BY DEF BindingInit
  <2>1. /\ target = c.target /\ content = c.content /\ given = c.given
        /\ binder = "bind" /\ at = 1 /\ value = [i \in Indices |-> ZeroValue]
    BY DEF BindingStart
  <2>2. Posed
    BY <2>1, BindingAssumption DEF Posed, Indices, HasBody, Tagged
  <2>3. Loops
    BY <2>1, <2>2 DEF Loops, Posed, Refused
  <2>4. Progress
    BY <2>1 DEF Progress, Refused
  <2>5. QED
    BY <2>2, <2>3, <2>4 DEF BindingInv
<1>2. BindingInv /\ [BindingNext]_bindingVars => BindingInv'
  <2> SUFFICES ASSUME BindingInv, [BindingNext]_bindingVars
               PROVE  BindingInv'
    OBVIOUS
  <2>1. CASE UNCHANGED bindingVars
    <3>1. UNCHANGED request /\ UNCHANGED <<target, content, given, binder, at, value>>
      BY <2>1 DEF bindingVars, request
    <3>2. /\ Posed' = Posed /\ HasBody' = HasBody /\ Indices' = Indices
          /\ WhyRefused' = WhyRefused
          /\ \A i : Bound(i)' = Bound(i) /\ Decoded(i)' = Decoded(i)
      BY <3>1, CaseStays
    <3>3. Loops' = Loops
      BY <3>1, <3>2 DEF Loops
    <3>4. \A i : IsBound(i)' = IsBound(i) /\ RuleKept(i)' = RuleKept(i)
      BY <3>1, <3>2 DEF IsBound, RuleKept, RuleHolds, ConditionallyRequired
    <3>5. Progress' = Progress
      BY <3>1, <3>2, <3>4 DEF Progress
    <3>6. QED
      BY <3>2, <3>3, <3>5 DEF BindingInv
  <2>2. QED
    BY <2>1, ContentStep, FlatFieldStep, ValidateStep, ExtractStep DEF BindingNext
<1>3. BindingInv => BoundAsSaid
  <2> SUFFICES ASSUME BindingInv
               PROVE  BoundAsSaid
    OBVIOUS
  <2>1. Posed /\ Progress
    BY DEF BindingInv
  <2>2. ASSUME binder = "accepted"
        PROVE  RulesKept /\ \A i \in Indices : SaidAlike(i) => value[i] = Said(i)
    <3>1. \A i \in Indices : IsBound(i) /\ RuleKept(i)
      BY <2>1, <2>2 DEF Progress
    <3>2. RulesKept
      BY <3>1 DEF RulesKept, RuleKept
    <3>3. \A i \in Indices : SaidAlike(i) => value[i] = Said(i)
      BY <2>1, <3>1, BoundIsSaid DEF IsBound
    <3>4. QED
      BY <3>2, <3>3
  <2>3. binder = "refused" => WhyRefused
    BY <2>1 DEF Progress
  <2>4. QED
    BY <2>2, <2>3 DEF BoundAsSaid, WhyRefused, AllSaid
<1>4. QED
  BY <1>1, <1>2, <1>3, PTL DEF BindingSpec

-----------------------------------------------------------------------------
(* What a client reads of the messages sent, for any characters, messages and *)
(* serializers.  Converting the line ends of a text, framing its lines and *)
(* reading the frames gives the text's lines, by one induction over the text. *)

\* A concatenation grows at its end.
LEMMA AppendConcat ==
  ASSUME NEW A, NEW s \in Seq(A), NEW t \in Seq(A), NEW x \in A
  PROVE  s \o Append(t, x) = Append(s \o t, x)
<1>1. s \o Append(t, x) \in Seq(A) /\ Append(s \o t, x) \in Seq(A)
  OBVIOUS
<1>2. /\ Len(s \o Append(t, x)) = Len(s) + Len(t) + 1
      /\ Len(Append(s \o t, x)) = Len(s) + Len(t) + 1
  OBVIOUS
<1>3. ASSUME NEW i \in 1 .. Len(s) + Len(t) + 1
      PROVE  (s \o Append(t, x))[i] = Append(s \o t, x)[i]
  OBVIOUS
<1>4. QED
  BY <1>1, <1>2, <1>3, SeqEqual

\* What a client reads, what is converted, and the states of the folds.
Marks     == {"id: ", "event: ", "retry: ", "data: ", ": ping"}
Alphabet  == Chars \cup {CR, LF} \cup Marks
LineChars == (Chars \ {CR}) \cup {LF}
Converted     == [text : Seq(LineChars), cr : BOOLEAN]
LineLists == [lines : Seq(Seq(Chars)), line : Seq(Chars), cr : BOOLEAN]
EventType == [id : Seq(Alphabet), type : Seq(Alphabet), data : Seq(Seq(Alphabet))]
Clients   == [line : Seq(Alphabet), cr : BOOLEAN, id : Seq(Alphabet), type : Seq(Alphabet),
              data : Seq(Seq(Alphabet)), events : Seq(EventType)]

\* A client at the end of a line, without data, and what one is after a text.
AtLineEnd(c)  == c.line = <<>> /\ ~c.cr /\ c.data = <<>>
ReadFrom(c, text) == Folded(ReadChar, c, text)

\* sanitizeSSEField by its characters; what it keeps has no line end.
LEMMA KeepFolds ==
  /\ Folded(Keep, <<>>, <<>>) = <<>>
  /\ \A s \in Seq(Chars) : Folded(Keep, <<>>, s) \in Seq(Chars \ {CR, LF})
  /\ \A s \in Seq(Chars), x \in Chars : Folded(Keep, <<>>, Append(s, x)) = Keep(Folded(Keep, <<>>, s), x)
<1> DEFINE W == Seq(Chars \ {CR, LF})
           start == <<>>
           move == [p \in W \X Chars |-> Keep(p[1], p[2])]
           F == [s \in Seq(Chars) |-> Folded(Keep, start, s)]
<1>1. start \in W /\ \A w \in W, x \in Chars : Keep(w, x) \in W
  BY DEF Keep
<1> HIDE DEF W, start
<1>2. StepOf(move, W, Chars)
  BY <1>1 DEF StepOf
<1>3. \A w \in W, x \in Chars : move[<<w, x>>] = Keep(w, x)
  OBVIOUS
<1> HIDE DEF move
<1>4. ASSUME NEW s \in Seq(Chars), NEW f \in Runs(s, move, start, W) PROVE F[s] = f[Len(s)]
  <2> DEFINE P(h) == h = [n \in 0 .. Len(s) |-> IF n = 0 THEN start ELSE Keep(h[n - 1], s[n])]
             g == CHOOSE h : P(h)
             N == Len(s)
  <2>1. F[s] = g[N]
    BY DEF Folded
  <2>2. /\ N \in Nat /\ 0 \in 0 .. N /\ \A n \in 0 .. N : n = 0 \/ n \in 1 .. N
        /\ \A n \in 1 .. N : n \in 0 .. N /\ n # 0 /\ n - 1 \in 0 .. N /\ s[n] \in Chars
    OBVIOUS
  <2>3. /\ f \in [0 .. N -> W] /\ f[0] = start
        /\ \A n \in 1 .. N : f[n] = move[<<f[n - 1], s[n]>>]
    BY DEF Runs
  <2> HIDE DEF N
  <2>4. \A n \in 1 .. N : f[n] = Keep(f[n - 1], s[n])
    BY <1>3, <2>2, <2>3
  <2>5. f = [n \in 0 .. N |-> IF n = 0 THEN start ELSE Keep(f[n - 1], s[n])]
    <3>1. \A n \in 0 .. N : f[n] = IF n = 0 THEN start ELSE Keep(f[n - 1], s[n])
      BY <2>2, <2>3, <2>4
    <3>2. QED
      BY <2>3, <3>1
  <2>6. P(g)
    BY <2>5 DEF N
  <2> HIDE DEF g
  <2>7. g[0] = start /\ \A n \in 1 .. N : g[n] = Keep(g[n - 1], s[n])
    BY <2>2, <2>6 DEF N
  <2> HIDE DEF P
  <2>8. \A n \in 1 .. N : f[n - 1] = g[n - 1] => f[n] = g[n]
    BY <2>4, <2>7
  <2>9. f[N] = g[N]
    <3>1. N \in Nat /\ f[0] = g[0]
      BY <2>2, <2>3, <2>7
    <3>2. QED
      BY <2>8, <3>1, FoldUnique
  <2>10. QED
    BY <2>1, <2>9 DEF N
<1> HIDE DEF F
<1>5. /\ F[<<>>] = start /\ \A s \in Seq(Chars) : F[s] \in W
      /\ \A s \in Seq(Chars), x \in Chars : F[Append(s, x)] = move[<<F[s], x>>]
  <2>1. \A s \in Seq(Chars) : \A f \in Runs(s, move, start, W) : F[s] = f[Len(s)]
    BY <1>4
  <2>2. QED
    BY <1>1, <1>2, <2>1, FoldLaws
<1>6. \A s \in Seq(Chars) : F[s] = Folded(Keep, start, s)
  BY DEF F
<1>7. /\ <<>> \in Seq(Chars)
      /\ \A s \in Seq(Chars), x \in Chars : Append(s, x) \in Seq(Chars)
  OBVIOUS
<1>8. Folded(Keep, start, <<>>) = start
  BY <1>5, <1>6, <1>7
<1>9. ASSUME NEW s \in Seq(Chars) PROVE Folded(Keep, start, s) \in W
  BY <1>5, <1>6
<1>10. ASSUME NEW s \in Seq(Chars), NEW x \in Chars
       PROVE  Folded(Keep, start, Append(s, x)) = Keep(Folded(Keep, start, s), x)
  <2>1. F[s] \in W /\ F[Append(s, x)] = move[<<F[s], x>>]
    BY <1>5
  <2>2. move[<<F[s], x>>] = Keep(F[s], x)
    BY <1>3, <2>1
  <2>3. F[s] = Folded(Keep, start, s) /\ F[Append(s, x)] = Folded(Keep, start, Append(s, x))
    BY <1>6, <1>7
  <2>4. QED
    BY <2>1, <2>2, <2>3
<1>11. QED
  BY <1>8, <1>9, <1>10 DEF W, start

\* sseLineEnds by its characters; no CR is left.
LEMMA ConvertFolds ==
  /\ Folded(Convert, [text |-> <<>>, cr |-> FALSE], <<>>) = [text |-> <<>>, cr |-> FALSE]
  /\ \A s \in Seq(Chars) : Folded(Convert, [text |-> <<>>, cr |-> FALSE], s) \in Converted
  /\ \A s \in Seq(Chars), x \in Chars : Folded(Convert, [text |-> <<>>, cr |-> FALSE], Append(s, x)) = Convert(Folded(Convert, [text |-> <<>>, cr |-> FALSE], s), x)
<1> DEFINE W == Converted
           start == [text |-> <<>>, cr |-> FALSE]
           move == [p \in W \X Chars |-> Convert(p[1], p[2])]
           F == [s \in Seq(Chars) |-> Folded(Convert, start, s)]
<1>1. start \in W /\ \A w \in W, x \in Chars : Convert(w, x) \in W
  <2>1. [text |-> <<>>, cr |-> FALSE] \in Converted
    BY DEF Converted
  <2>2. ASSUME NEW w \in Converted, NEW x \in Chars PROVE Convert(w, x) \in Converted
    <3>1. w.text \in Seq(LineChars) /\ (IF x = CR THEN LF ELSE x) \in LineChars
      BY DEF Converted, LineChars
    <3>2. Append(w.text, IF x = CR THEN LF ELSE x) \in Seq(LineChars)
      BY <3>1
    <3>3. QED
      BY <3>1, <3>2 DEF Convert, Converted
  <2>3. QED
    BY <2>1, <2>2
<1> HIDE DEF W, start
<1>2. StepOf(move, W, Chars)
  BY <1>1 DEF StepOf
<1>3. \A w \in W, x \in Chars : move[<<w, x>>] = Convert(w, x)
  OBVIOUS
<1> HIDE DEF move
<1>4. ASSUME NEW s \in Seq(Chars), NEW f \in Runs(s, move, start, W) PROVE F[s] = f[Len(s)]
  <2> DEFINE P(h) == h = [n \in 0 .. Len(s) |-> IF n = 0 THEN start ELSE Convert(h[n - 1], s[n])]
             g == CHOOSE h : P(h)
             N == Len(s)
  <2>1. F[s] = g[N]
    BY DEF Folded
  <2>2. /\ N \in Nat /\ 0 \in 0 .. N /\ \A n \in 0 .. N : n = 0 \/ n \in 1 .. N
        /\ \A n \in 1 .. N : n \in 0 .. N /\ n # 0 /\ n - 1 \in 0 .. N /\ s[n] \in Chars
    OBVIOUS
  <2>3. /\ f \in [0 .. N -> W] /\ f[0] = start
        /\ \A n \in 1 .. N : f[n] = move[<<f[n - 1], s[n]>>]
    BY DEF Runs
  <2> HIDE DEF N
  <2>4. \A n \in 1 .. N : f[n] = Convert(f[n - 1], s[n])
    BY <1>3, <2>2, <2>3
  <2>5. f = [n \in 0 .. N |-> IF n = 0 THEN start ELSE Convert(f[n - 1], s[n])]
    <3>1. \A n \in 0 .. N : f[n] = IF n = 0 THEN start ELSE Convert(f[n - 1], s[n])
      BY <2>2, <2>3, <2>4
    <3>2. QED
      BY <2>3, <3>1
  <2>6. P(g)
    BY <2>5 DEF N
  <2> HIDE DEF g
  <2>7. g[0] = start /\ \A n \in 1 .. N : g[n] = Convert(g[n - 1], s[n])
    BY <2>2, <2>6 DEF N
  <2> HIDE DEF P
  <2>8. \A n \in 1 .. N : f[n - 1] = g[n - 1] => f[n] = g[n]
    BY <2>4, <2>7
  <2>9. f[N] = g[N]
    <3>1. N \in Nat /\ f[0] = g[0]
      BY <2>2, <2>3, <2>7
    <3>2. QED
      BY <2>8, <3>1, FoldUnique
  <2>10. QED
    BY <2>1, <2>9 DEF N
<1> HIDE DEF F
<1>5. /\ F[<<>>] = start /\ \A s \in Seq(Chars) : F[s] \in W
      /\ \A s \in Seq(Chars), x \in Chars : F[Append(s, x)] = move[<<F[s], x>>]
  <2>1. \A s \in Seq(Chars) : \A f \in Runs(s, move, start, W) : F[s] = f[Len(s)]
    BY <1>4
  <2>2. QED
    BY <1>1, <1>2, <2>1, FoldLaws
<1>6. \A s \in Seq(Chars) : F[s] = Folded(Convert, start, s)
  BY DEF F
<1>7. /\ <<>> \in Seq(Chars)
      /\ \A s \in Seq(Chars), x \in Chars : Append(s, x) \in Seq(Chars)
  OBVIOUS
<1>8. Folded(Convert, start, <<>>) = start
  BY <1>5, <1>6, <1>7
<1>9. ASSUME NEW s \in Seq(Chars) PROVE Folded(Convert, start, s) \in W
  BY <1>5, <1>6
<1>10. ASSUME NEW s \in Seq(Chars), NEW x \in Chars
       PROVE  Folded(Convert, start, Append(s, x)) = Convert(Folded(Convert, start, s), x)
  <2>1. F[s] \in W /\ F[Append(s, x)] = move[<<F[s], x>>]
    BY <1>5
  <2>2. move[<<F[s], x>>] = Convert(F[s], x)
    BY <1>3, <2>1
  <2>3. F[s] = Folded(Convert, start, s) /\ F[Append(s, x)] = Folded(Convert, start, Append(s, x))
    BY <1>6, <1>7
  <2>4. QED
    BY <2>1, <2>2, <2>3
<1>11. QED
  BY <1>8, <1>9, <1>10 DEF W, start

\* writeData by its characters.
LEMMA DataLineFolds ==
  /\ Folded(DataLine, <<"data: ">>, <<>>) = <<"data: ">>
  /\ \A s \in Seq(LineChars) : Folded(DataLine, <<"data: ">>, s) \in Seq(Alphabet)
  /\ \A s \in Seq(LineChars), x \in LineChars : Folded(DataLine, <<"data: ">>, Append(s, x)) = DataLine(Folded(DataLine, <<"data: ">>, s), x)
<1> DEFINE W == Seq(Alphabet)
           start == <<"data: ">>
           move == [p \in W \X LineChars |-> DataLine(p[1], p[2])]
           F == [s \in Seq(LineChars) |-> Folded(DataLine, start, s)]
<1>1. start \in W /\ \A w \in W, x \in LineChars : DataLine(w, x) \in W
  <2>0. \A a, b \in Alphabet : <<a>> \in Seq(Alphabet) /\ <<a, b>> \in Seq(Alphabet)
    OBVIOUS
  <2>1. "data: " \in Alphabet /\ LF \in Alphabet
    BY DEF Alphabet, Marks
  <2>2. LineChars \subseteq Alphabet
    BY DEF LineChars, Alphabet
  <2>3. ASSUME NEW w \in Seq(Alphabet), NEW x \in LineChars PROVE DataLine(w, x) \in Seq(Alphabet)
    <3>1. x \in Alphabet
      BY <2>2
    <3>2. w \o <<x>> \in Seq(Alphabet)
      BY <3>1
    <3> DEFINE a == LF
               b == "data: "
    <3>3. a \in Alphabet /\ b \in Alphabet
      BY <2>1
    <3> HIDE DEF a, b
    <3>4. w \o <<a, b>> \in Seq(Alphabet)
      BY <3>3
    <3>5. DataLine(w, x) = IF x = LF THEN w \o <<a, b>> ELSE w \o <<x>>
      BY DEF DataLine, a, b
    <3>6. QED
      BY <3>2, <3>4, <3>5
  <2>4. <<"data: ">> \in Seq(Alphabet)
    BY <2>0, <2>1
  <2>5. QED
    BY <2>3, <2>4
<1> HIDE DEF W, start
<1>2. StepOf(move, W, LineChars)
  BY <1>1 DEF StepOf
<1>3. \A w \in W, x \in LineChars : move[<<w, x>>] = DataLine(w, x)
  OBVIOUS
<1> HIDE DEF move
<1>4. ASSUME NEW s \in Seq(LineChars), NEW f \in Runs(s, move, start, W) PROVE F[s] = f[Len(s)]
  <2> DEFINE P(h) == h = [n \in 0 .. Len(s) |-> IF n = 0 THEN start ELSE DataLine(h[n - 1], s[n])]
             g == CHOOSE h : P(h)
             N == Len(s)
  <2>1. F[s] = g[N]
    BY DEF Folded
  <2>2. /\ N \in Nat /\ 0 \in 0 .. N /\ \A n \in 0 .. N : n = 0 \/ n \in 1 .. N
        /\ \A n \in 1 .. N : n \in 0 .. N /\ n # 0 /\ n - 1 \in 0 .. N /\ s[n] \in LineChars
    OBVIOUS
  <2>3. /\ f \in [0 .. N -> W] /\ f[0] = start
        /\ \A n \in 1 .. N : f[n] = move[<<f[n - 1], s[n]>>]
    BY DEF Runs
  <2> HIDE DEF N
  <2>4. \A n \in 1 .. N : f[n] = DataLine(f[n - 1], s[n])
    BY <1>3, <2>2, <2>3
  <2>5. f = [n \in 0 .. N |-> IF n = 0 THEN start ELSE DataLine(f[n - 1], s[n])]
    <3>1. \A n \in 0 .. N : f[n] = IF n = 0 THEN start ELSE DataLine(f[n - 1], s[n])
      BY <2>2, <2>3, <2>4
    <3>2. QED
      BY <2>3, <3>1
  <2>6. P(g)
    BY <2>5 DEF N
  <2> HIDE DEF g
  <2>7. g[0] = start /\ \A n \in 1 .. N : g[n] = DataLine(g[n - 1], s[n])
    BY <2>2, <2>6 DEF N
  <2> HIDE DEF P
  <2>8. \A n \in 1 .. N : f[n - 1] = g[n - 1] => f[n] = g[n]
    BY <2>4, <2>7
  <2>9. f[N] = g[N]
    <3>1. N \in Nat /\ f[0] = g[0]
      BY <2>2, <2>3, <2>7
    <3>2. QED
      BY <2>8, <3>1, FoldUnique
  <2>10. QED
    BY <2>1, <2>9 DEF N
<1> HIDE DEF F
<1>5. /\ F[<<>>] = start /\ \A s \in Seq(LineChars) : F[s] \in W
      /\ \A s \in Seq(LineChars), x \in LineChars : F[Append(s, x)] = move[<<F[s], x>>]
  <2>1. \A s \in Seq(LineChars) : \A f \in Runs(s, move, start, W) : F[s] = f[Len(s)]
    BY <1>4
  <2>2. QED
    BY <1>1, <1>2, <2>1, FoldLaws
<1>6. \A s \in Seq(LineChars) : F[s] = Folded(DataLine, start, s)
  BY DEF F
<1>7. /\ <<>> \in Seq(LineChars)
      /\ \A s \in Seq(LineChars), x \in LineChars : Append(s, x) \in Seq(LineChars)
  OBVIOUS
<1>8. Folded(DataLine, start, <<>>) = start
  BY <1>5, <1>6, <1>7
<1>9. ASSUME NEW s \in Seq(LineChars) PROVE Folded(DataLine, start, s) \in W
  BY <1>5, <1>6
<1>10. ASSUME NEW s \in Seq(LineChars), NEW x \in LineChars
       PROVE  Folded(DataLine, start, Append(s, x)) = DataLine(Folded(DataLine, start, s), x)
  <2>1. F[s] \in W /\ F[Append(s, x)] = move[<<F[s], x>>]
    BY <1>5
  <2>2. move[<<F[s], x>>] = DataLine(F[s], x)
    BY <1>3, <2>1
  <2>3. F[s] = Folded(DataLine, start, s) /\ F[Append(s, x)] = Folded(DataLine, start, Append(s, x))
    BY <1>6, <1>7
  <2>4. QED
    BY <2>1, <2>2, <2>3
<1>11. QED
  BY <1>8, <1>9, <1>10 DEF W, start

\* The lines of a text by its characters.
LEMMA AddToFolds ==
  /\ Folded(AddTo, [lines |-> <<>>, line |-> <<>>, cr |-> FALSE], <<>>) = [lines |-> <<>>, line |-> <<>>, cr |-> FALSE]
  /\ \A s \in Seq(Chars) : Folded(AddTo, [lines |-> <<>>, line |-> <<>>, cr |-> FALSE], s) \in LineLists
  /\ \A s \in Seq(Chars), x \in Chars : Folded(AddTo, [lines |-> <<>>, line |-> <<>>, cr |-> FALSE], Append(s, x)) = AddTo(Folded(AddTo, [lines |-> <<>>, line |-> <<>>, cr |-> FALSE], s), x)
<1> DEFINE W == LineLists
           start == [lines |-> <<>>, line |-> <<>>, cr |-> FALSE]
           move == [p \in W \X Chars |-> AddTo(p[1], p[2])]
           F == [s \in Seq(Chars) |-> Folded(AddTo, start, s)]
<1>1. start \in W /\ \A w \in W, x \in Chars : AddTo(w, x) \in W
  <2>1. [lines |-> <<>>, line |-> <<>>, cr |-> FALSE] \in LineLists
    BY DEF LineLists
  <2>2. ASSUME NEW w \in LineLists, NEW x \in Chars PROVE AddTo(w, x) \in LineLists
    <3>1. w.lines \in Seq(Seq(Chars)) /\ w.line \in Seq(Chars)
      BY DEF LineLists
    <3>2. Append(w.lines, w.line) \in Seq(Seq(Chars)) /\ Append(w.line, x) \in Seq(Chars)
      BY <3>1
    <3>3. CASE x = LF /\ w.cr
      BY <3>3 DEF AddTo, LineLists
    <3>4. CASE ~(x = LF /\ w.cr) /\ x \in {CR, LF}
      <4>1. AddTo(w, x) = [lines |-> Append(w.lines, w.line), line |-> <<>>, cr |-> x = CR]
        BY <3>4 DEF AddTo
      <4>2. QED
        BY <3>2, <4>1 DEF LineLists
    <3>5. CASE x \notin {CR, LF}
      <4>1. AddTo(w, x) = [lines |-> w.lines, line |-> Append(w.line, x), cr |-> FALSE]
        BY <3>5 DEF AddTo
      <4>2. QED
        BY <3>1, <3>2, <4>1 DEF LineLists
    <3>6. QED
      BY <3>3, <3>4, <3>5
  <2>3. QED
    BY <2>1, <2>2
<1> HIDE DEF W, start
<1>2. StepOf(move, W, Chars)
  BY <1>1 DEF StepOf
<1>3. \A w \in W, x \in Chars : move[<<w, x>>] = AddTo(w, x)
  OBVIOUS
<1> HIDE DEF move
<1>4. ASSUME NEW s \in Seq(Chars), NEW f \in Runs(s, move, start, W) PROVE F[s] = f[Len(s)]
  <2> DEFINE P(h) == h = [n \in 0 .. Len(s) |-> IF n = 0 THEN start ELSE AddTo(h[n - 1], s[n])]
             g == CHOOSE h : P(h)
             N == Len(s)
  <2>1. F[s] = g[N]
    BY DEF Folded
  <2>2. /\ N \in Nat /\ 0 \in 0 .. N /\ \A n \in 0 .. N : n = 0 \/ n \in 1 .. N
        /\ \A n \in 1 .. N : n \in 0 .. N /\ n # 0 /\ n - 1 \in 0 .. N /\ s[n] \in Chars
    OBVIOUS
  <2>3. /\ f \in [0 .. N -> W] /\ f[0] = start
        /\ \A n \in 1 .. N : f[n] = move[<<f[n - 1], s[n]>>]
    BY DEF Runs
  <2> HIDE DEF N
  <2>4. \A n \in 1 .. N : f[n] = AddTo(f[n - 1], s[n])
    BY <1>3, <2>2, <2>3
  <2>5. f = [n \in 0 .. N |-> IF n = 0 THEN start ELSE AddTo(f[n - 1], s[n])]
    <3>1. \A n \in 0 .. N : f[n] = IF n = 0 THEN start ELSE AddTo(f[n - 1], s[n])
      BY <2>2, <2>3, <2>4
    <3>2. QED
      BY <2>3, <3>1
  <2>6. P(g)
    BY <2>5 DEF N
  <2> HIDE DEF g
  <2>7. g[0] = start /\ \A n \in 1 .. N : g[n] = AddTo(g[n - 1], s[n])
    BY <2>2, <2>6 DEF N
  <2> HIDE DEF P
  <2>8. \A n \in 1 .. N : f[n - 1] = g[n - 1] => f[n] = g[n]
    BY <2>4, <2>7
  <2>9. f[N] = g[N]
    <3>1. N \in Nat /\ f[0] = g[0]
      BY <2>2, <2>3, <2>7
    <3>2. QED
      BY <2>8, <3>1, FoldUnique
  <2>10. QED
    BY <2>1, <2>9 DEF N
<1> HIDE DEF F
<1>5. /\ F[<<>>] = start /\ \A s \in Seq(Chars) : F[s] \in W
      /\ \A s \in Seq(Chars), x \in Chars : F[Append(s, x)] = move[<<F[s], x>>]
  <2>1. \A s \in Seq(Chars) : \A f \in Runs(s, move, start, W) : F[s] = f[Len(s)]
    BY <1>4
  <2>2. QED
    BY <1>1, <1>2, <2>1, FoldLaws
<1>6. \A s \in Seq(Chars) : F[s] = Folded(AddTo, start, s)
  BY DEF F
<1>7. /\ <<>> \in Seq(Chars)
      /\ \A s \in Seq(Chars), x \in Chars : Append(s, x) \in Seq(Chars)
  OBVIOUS
<1>8. Folded(AddTo, start, <<>>) = start
  BY <1>5, <1>6, <1>7
<1>9. ASSUME NEW s \in Seq(Chars) PROVE Folded(AddTo, start, s) \in W
  BY <1>5, <1>6
<1>10. ASSUME NEW s \in Seq(Chars), NEW x \in Chars
       PROVE  Folded(AddTo, start, Append(s, x)) = AddTo(Folded(AddTo, start, s), x)
  <2>1. F[s] \in W /\ F[Append(s, x)] = move[<<F[s], x>>]
    BY <1>5
  <2>2. move[<<F[s], x>>] = AddTo(F[s], x)
    BY <1>3, <2>1
  <2>3. F[s] = Folded(AddTo, start, s) /\ F[Append(s, x)] = Folded(AddTo, start, Append(s, x))
    BY <1>6, <1>7
  <2>4. QED
    BY <2>1, <2>2, <2>3
<1>11. QED
  BY <1>8, <1>9, <1>10 DEF W, start

\* A client that reads a line has at most one more event.
LEMMA ReadLineTyped ==
  ASSUME NEW c \in Clients
  PROVE  /\ ReadLine(c) \in Clients
         /\ \/ ReadLine(c).events = c.events
            \/ \E v \in EventType : ReadLine(c).events = Append(c.events, v)
<1>1. /\ c.line \in Seq(Alphabet) /\ c.cr \in BOOLEAN /\ c.id \in Seq(Alphabet)
      /\ c.type \in Seq(Alphabet) /\ c.data \in Seq(Seq(Alphabet)) /\ c.events \in Seq(EventType)
  BY DEF Clients
<1>2. ReadLine(c) \in Clients
  <2> DEFINE e == [id |-> c.id, type |-> c.type, data |-> c.data]
  <2>1. e \in EventType
    BY <1>1 DEF EventType
  <2>2. Append(c.events, e) \in Seq(EventType)
    BY <1>1, <2>1
  <2>3. CASE c.line = <<>>
    <3>1. CASE c.data = <<>>
      BY <1>1, <2>3, <3>1 DEF ReadLine, Clients
    <3>2. CASE c.data # <<>>
      <4>1. ReadLine(c) = [c EXCEPT !.type = <<>>, !.data = <<>>, !.events = Append(c.events, e)]
        BY <2>3, <3>2 DEF ReadLine
      <4>2. ASSUME NEW v \in Seq(EventType)
            PROVE  [c EXCEPT !.type = <<>>, !.data = <<>>, !.events = v] \in Clients
        <5>1. <<>> \in Seq(Alphabet) /\ <<>> \in Seq(Seq(Alphabet))
          OBVIOUS
        <5>2. QED
          BY <1>1, <5>1 DEF Clients
      <4> HIDE DEF e
      <4>3. QED
        BY <2>2, <4>1, <4>2
    <3>3. QED
      BY <3>1, <3>2
  <2>4. CASE c.line # <<>>
    <3>1. Tail(c.line) \in Seq(Alphabet)
      BY <1>1, <2>4
    <3>2. Append(c.data, Tail(c.line)) \in Seq(Seq(Alphabet))
      BY <1>1, <3>1
    <3>3. CASE c.line[1] = "id: "
      BY <1>1, <2>4, <3>1, <3>3 DEF ReadLine, Clients
    <3>4. CASE c.line[1] = "event: "
      BY <1>1, <2>4, <3>1, <3>4 DEF ReadLine, Clients
    <3>5. CASE c.line[1] = "data: "
      BY <1>1, <2>4, <3>2, <3>5 DEF ReadLine, Clients
    <3>6. CASE c.line[1] \notin {"id: ", "event: ", "data: "}
      BY <2>4, <3>6 DEF ReadLine
    <3>7. QED
      BY <3>3, <3>4, <3>5, <3>6
  <2>5. QED
    BY <2>3, <2>4
<1>3. ReadLine(c).events = c.events
      \/ \E v \in EventType : ReadLine(c).events = Append(c.events, v)
  <2> DEFINE e == [id |-> c.id, type |-> c.type, data |-> c.data]
  <2>1. e \in EventType
    BY <1>1 DEF EventType
  <2>2. CASE c.line = <<>> /\ c.data # <<>>
    <3>1. ReadLine(c) = [c EXCEPT !.type = <<>>, !.data = <<>>, !.events = Append(c.events, e)]
      BY <2>2 DEF ReadLine
    <3>2. ReadLine(c).events = Append(c.events, e)
      BY <3>1 DEF Clients
    <3>3. QED
      BY <2>1, <3>2
  <2>3. CASE ~(c.line = <<>> /\ c.data # <<>>)
    <3>1. ReadLine(c).events = c.events
      BY <2>3 DEF ReadLine, Clients
    <3>2. QED
      BY <3>1
  <2>4. QED
    BY <2>2, <2>3
<1>4. QED
  BY <1>2, <1>3

\* A client stays one, whatever it reads.
LEMMA ReadCharTyped ==
  \A c \in Clients, x \in Alphabet : ReadChar(c, x) \in Clients
<1> SUFFICES ASSUME NEW c \in Clients, NEW x \in Alphabet
             PROVE  ReadChar(c, x) \in Clients
  OBVIOUS
<1>1. c.line \in Seq(Alphabet) /\ c.cr \in BOOLEAN
  BY DEF Clients
<1>2. ReadLine(c) \in Clients
  BY ReadLineTyped
<1>3. Append(c.line, x) \in Seq(Alphabet)
  BY <1>1
<1>4. QED
  <2> DEFINE d == ReadLine(c)
  <2> HIDE DEF d
  <2>1. [d EXCEPT !.line = <<>>, !.cr = (x = CR)] \in Clients
    <3>1. d \in Clients /\ (x = CR) \in BOOLEAN /\ <<>> \in Seq(Alphabet)
      BY <1>2 DEF d
    <3>2. ASSUME NEW b \in BOOLEAN PROVE [d EXCEPT !.line = <<>>, !.cr = b] \in Clients
      BY <3>1 DEF Clients
    <3>3. QED
      BY <3>1, <3>2
  <2>2. QED
    BY <1>1, <1>3, <2>1 DEF ReadChar, Clients, d

\* What a client becomes, by the characters it reads.
LEMMA ReadFolds ==
  ASSUME NEW c \in Clients
  PROVE  /\ Folded(ReadChar, c, <<>>) = c
         /\ \A s \in Seq(Alphabet) : Folded(ReadChar, c, s) \in Clients
         /\ \A s \in Seq(Alphabet), x \in Alphabet : Folded(ReadChar, c, Append(s, x)) = ReadChar(Folded(ReadChar, c, s), x)
<1> DEFINE W == Clients
           start == c
           move == [p \in W \X Alphabet |-> ReadChar(p[1], p[2])]
           F == [s \in Seq(Alphabet) |-> Folded(ReadChar, start, s)]
<1>1. start \in W /\ \A w \in W, x \in Alphabet : ReadChar(w, x) \in W
  BY ReadCharTyped
<1> HIDE DEF W, start
<1>2. StepOf(move, W, Alphabet)
  BY <1>1 DEF StepOf
<1>3. \A w \in W, x \in Alphabet : move[<<w, x>>] = ReadChar(w, x)
  OBVIOUS
<1> HIDE DEF move
<1>4. ASSUME NEW s \in Seq(Alphabet), NEW f \in Runs(s, move, start, W) PROVE F[s] = f[Len(s)]
  <2> DEFINE P(h) == h = [n \in 0 .. Len(s) |-> IF n = 0 THEN start ELSE ReadChar(h[n - 1], s[n])]
             g == CHOOSE h : P(h)
             N == Len(s)
  <2>1. F[s] = g[N]
    BY DEF Folded
  <2>2. /\ N \in Nat /\ 0 \in 0 .. N /\ \A n \in 0 .. N : n = 0 \/ n \in 1 .. N
        /\ \A n \in 1 .. N : n \in 0 .. N /\ n # 0 /\ n - 1 \in 0 .. N /\ s[n] \in Alphabet
    OBVIOUS
  <2>3. /\ f \in [0 .. N -> W] /\ f[0] = start
        /\ \A n \in 1 .. N : f[n] = move[<<f[n - 1], s[n]>>]
    BY DEF Runs
  <2> HIDE DEF N
  <2>4. \A n \in 1 .. N : f[n] = ReadChar(f[n - 1], s[n])
    BY <1>3, <2>2, <2>3
  <2>5. f = [n \in 0 .. N |-> IF n = 0 THEN start ELSE ReadChar(f[n - 1], s[n])]
    <3>1. \A n \in 0 .. N : f[n] = IF n = 0 THEN start ELSE ReadChar(f[n - 1], s[n])
      BY <2>2, <2>3, <2>4
    <3>2. QED
      BY <2>3, <3>1
  <2>6. P(g)
    BY <2>5 DEF N
  <2> HIDE DEF g
  <2>7. g[0] = start /\ \A n \in 1 .. N : g[n] = ReadChar(g[n - 1], s[n])
    BY <2>2, <2>6 DEF N
  <2> HIDE DEF P
  <2>8. \A n \in 1 .. N : f[n - 1] = g[n - 1] => f[n] = g[n]
    BY <2>4, <2>7
  <2>9. f[N] = g[N]
    <3>1. N \in Nat /\ f[0] = g[0]
      BY <2>2, <2>3, <2>7
    <3>2. QED
      BY <2>8, <3>1, FoldUnique
  <2>10. QED
    BY <2>1, <2>9 DEF N
<1> HIDE DEF F
<1>5. /\ F[<<>>] = start /\ \A s \in Seq(Alphabet) : F[s] \in W
      /\ \A s \in Seq(Alphabet), x \in Alphabet : F[Append(s, x)] = move[<<F[s], x>>]
  <2>1. \A s \in Seq(Alphabet) : \A f \in Runs(s, move, start, W) : F[s] = f[Len(s)]
    BY <1>4
  <2>2. QED
    BY <1>1, <1>2, <2>1, FoldLaws
<1>6. \A s \in Seq(Alphabet) : F[s] = Folded(ReadChar, start, s)
  BY DEF F
<1>7. /\ <<>> \in Seq(Alphabet)
      /\ \A s \in Seq(Alphabet), x \in Alphabet : Append(s, x) \in Seq(Alphabet)
  OBVIOUS
<1>8. Folded(ReadChar, start, <<>>) = start
  BY <1>5, <1>6, <1>7
<1>9. ASSUME NEW s \in Seq(Alphabet) PROVE Folded(ReadChar, start, s) \in W
  BY <1>5, <1>6
<1>10. ASSUME NEW s \in Seq(Alphabet), NEW x \in Alphabet
       PROVE  Folded(ReadChar, start, Append(s, x)) = ReadChar(Folded(ReadChar, start, s), x)
  <2>1. F[s] \in W /\ F[Append(s, x)] = move[<<F[s], x>>]
    BY <1>5
  <2>2. move[<<F[s], x>>] = ReadChar(F[s], x)
    BY <1>3, <2>1
  <2>3. F[s] = Folded(ReadChar, start, s) /\ F[Append(s, x)] = Folded(ReadChar, start, Append(s, x))
    BY <1>6, <1>7
  <2>4. QED
    BY <2>1, <2>2, <2>3
<1>11. QED
  BY <1>8, <1>9, <1>10 DEF W, start

\* Reading goes on where it stopped.
LEMMA ReadTwo ==
  ASSUME NEW c \in Clients, NEW s \in Seq(Alphabet), NEW t \in Seq(Alphabet)
  PROVE  ReadFrom(c, s \o t) = ReadFrom(ReadFrom(c, s), t)
<1> DEFINE d == ReadFrom(c, s)
           S == {u \in Seq(Alphabet) : ReadFrom(c, s \o u) = ReadFrom(d, u)}
<1>1. d \in Clients
  BY ReadFolds DEF ReadFrom
<1> HIDE DEF d
<1>2. <<>> \in S
  <2>1. s \o <<>> = s /\ <<>> \in Seq(Alphabet)
    OBVIOUS
  <2>2. ReadFrom(d, <<>>) = d
    BY <1>1, ReadFolds DEF ReadFrom
  <2>3. QED
    BY <2>1, <2>2 DEF d
<1>3. ASSUME NEW u \in S, NEW x \in Alphabet PROVE Append(u, x) \in S
  <2>1. s \o Append(u, x) = Append(s \o u, x) /\ s \o u \in Seq(Alphabet) /\ Append(u, x) \in Seq(Alphabet)
    BY AppendConcat
  <2>2. ReadFrom(c, Append(s \o u, x)) = ReadChar(ReadFrom(c, s \o u), x)
    BY <2>1, ReadFolds DEF ReadFrom
  <2>3. ReadFrom(d, Append(u, x)) = ReadChar(ReadFrom(d, u), x)
    BY <1>1, ReadFolds DEF ReadFrom
  <2>4. QED
    BY <2>1, <2>2, <2>3
<1>4. S = Seq(Alphabet)
  <2>1. S \in SUBSET Seq(Alphabet)
    OBVIOUS
  <2> HIDE DEF S
  <2>2. QED
    BY <1>2, <1>3, <2>1, SequenceInduction
<1>5. QED
  BY <1>4 DEF d

\* Characters that end no line are added to it.
LEMMA ReadPlain ==
  ASSUME NEW c \in Clients, ~c.cr, NEW t \in Seq(Alphabet \ {CR, LF})
  PROVE  ReadFrom(c, t) = [c EXCEPT !.line = c.line \o t]
<1> DEFINE A == Alphabet \ {CR, LF}
           S == {u \in Seq(A) : ReadFrom(c, u) = [c EXCEPT !.line = c.line \o u]}
<1>1. c.line \in Seq(Alphabet) /\ c.cr = FALSE
  BY DEF Clients
<1>2. <<>> \in S
  <2>1. c.line \o <<>> = c.line /\ <<>> \in Seq(A)
    BY <1>1
  <2>2. ReadFrom(c, <<>>) = c
    BY ReadFolds DEF ReadFrom
  <2>3. [c EXCEPT !.line = c.line] = c
    BY DEF Clients
  <2>4. QED
    BY <2>1, <2>2, <2>3
<1>3. ASSUME NEW u \in S, NEW x \in A PROVE Append(u, x) \in S
  <2>1. u \in Seq(Alphabet) /\ x \in Alphabet /\ x # CR /\ x # LF
    OBVIOUS
  <2>2. Append(u, x) \in Seq(A) /\ c.line \o Append(u, x) = Append(c.line \o u, x)
    <3>1. Append(u, x) \in Seq(A)
      OBVIOUS
    <3> DEFINE l == c.line
    <3>2. l \in Seq(Alphabet)
      BY <1>1
    <3> HIDE DEF S, A, l
    <3>3. l \o Append(u, x) = Append(l \o u, x)
      BY <2>1, <3>2, AppendConcat
    <3>4. QED
      BY <3>1, <3>3 DEF l
  <2> DEFINE d == [c EXCEPT !.line = c.line \o u]
  <2>3. ReadFrom(c, Append(u, x)) = ReadChar(d, x)
    <3>1. ReadFrom(c, Append(u, x)) = ReadChar(ReadFrom(c, u), x)
      BY <2>1, ReadFolds DEF ReadFrom
    <3>2. ReadFrom(c, u) = d
      OBVIOUS
    <3>3. QED
      BY <3>1, <3>2
  <2>4. ReadChar(d, x) = [d EXCEPT !.line = Append(d.line, x), !.cr = FALSE]
    BY <2>1 DEF ReadChar
  <2>5. [d EXCEPT !.line = Append(d.line, x), !.cr = FALSE]
        = [c EXCEPT !.line = Append(c.line \o u, x)]
    BY <1>1 DEF Clients
  <2>6. QED
    BY <2>2, <2>3, <2>4, <2>5
<1>4. S = Seq(A)
  <2>1. S \in SUBSET Seq(A)
    OBVIOUS
  <2> HIDE DEF S, A
  <2>2. QED
    BY <1>2, <1>3, <2>1, SequenceInduction
<1>5. QED
  BY <1>4

\* A client keeps the events it has.
LEMMA EventsGrow ==
  ASSUME NEW c \in Clients, NEW t \in Seq(Alphabet)
  PROVE  \E e \in Seq(EventType) : ReadFrom(c, t).events = c.events \o e
<1> DEFINE S == {u \in Seq(Alphabet) : \E e \in Seq(EventType) : ReadFrom(c, u).events = c.events \o e}
<1>0. c.events \in Seq(EventType)
  BY DEF Clients
<1>1. <<>> \in S
  <2>1. ReadFrom(c, <<>>) = c
    BY ReadFolds DEF ReadFrom
  <2>2. c.events = c.events \o <<>> /\ <<>> \in Seq(EventType) /\ <<>> \in Seq(Alphabet)
    BY <1>0
  <2>3. QED
    BY <2>1, <2>2
<1>2. ASSUME NEW u \in S, NEW x \in Alphabet PROVE Append(u, x) \in S
  <2> DEFINE d == ReadFrom(c, u)
  <2>1. d \in Clients /\ ReadFrom(c, Append(u, x)) = ReadChar(d, x)
    BY ReadFolds DEF ReadFrom
  <2>2. PICK e \in Seq(EventType) : d.events = c.events \o e
    OBVIOUS
  <2> HIDE DEF d
  <2>3. ReadChar(d, x).events = d.events
        \/ \E v \in EventType : ReadChar(d, x).events = Append(d.events, v)
    <3>1. ReadLine(d) \in Clients
      BY <2>1, ReadLineTyped
    <3>2. ReadChar(d, x).events \in {d.events, ReadLine(d).events}
      BY <2>1, <3>1 DEF ReadChar, Clients
    <3>3. \/ ReadLine(d).events = d.events
          \/ \E v \in EventType : ReadLine(d).events = Append(d.events, v)
      BY <2>1, ReadLineTyped
    <3>4. CASE ReadChar(d, x).events = d.events
      BY <3>4
    <3>5. CASE ReadChar(d, x).events = ReadLine(d).events
      <4> DEFINE l == ReadLine(d).events
      <4> HIDE DEF l
      <4>1. QED
        BY <3>3, <3>5 DEF l
    <3>6. QED
      BY <3>2, <3>4, <3>5
  <2>4. CASE ReadChar(d, x).events = d.events
    <3>1. Append(u, x) \in Seq(Alphabet)
      OBVIOUS
    <3>2. ReadFrom(c, Append(u, x)).events = c.events \o e
      BY <2>1, <2>2, <2>4
    <3>3. QED
      BY <3>1, <3>2
  <2>5. CASE \E v \in EventType : ReadChar(d, x).events = Append(d.events, v)
    <3>1. PICK v \in EventType : ReadChar(d, x).events = Append(d.events, v)
      BY <2>5
    <3>2. Append(e, v) \in Seq(EventType)
      OBVIOUS
    <3>5. Append(c.events \o e, v) = c.events \o Append(e, v)
      <4> DEFINE l == c.events
      <4>1. l \in Seq(EventType)
        BY <1>0
      <4> HIDE DEF S, l
      <4>2. l \o Append(e, v) = Append(l \o e, v)
        BY <4>1, AppendConcat
      <4>3. QED
        BY <4>2 DEF l
    <3>3. Append(u, x) \in Seq(Alphabet)
      OBVIOUS
    <3>4. QED
      BY <2>1, <2>2, <3>1, <3>2, <3>3, <3>5
  <2>6. QED
    BY <2>3, <2>4, <2>5
<1>3. S = Seq(Alphabet)
  <2>1. S \in SUBSET Seq(Alphabet)
    OBVIOUS
  <2> HIDE DEF S
  <2>2. QED
    BY <1>1, <1>2, <2>1, SequenceInduction
<1>4. QED
  BY <1>3

\* A sequence without its first element.
LEMMA TailOfMarked ==
  ASSUME NEW A, NEW t \in Seq(A), NEW x \in A
  PROVE  /\ <<x>> \o t \in Seq(A) \ {<<>>} /\ (<<x>> \o t)[1] = x
         /\ Tail(<<x>> \o t) = t
<1>1. <<x>> \o t \in Seq(A) /\ Len(<<x>> \o t) = 1 + Len(t) /\ (<<x>> \o t)[1] = x
      /\ Len(t) \in Nat
  OBVIOUS
<1>2. <<x>> \o t # <<>>
  BY <1>1
<1>3. Tail(<<x>> \o t) = t
  <2>1. Tail(<<x>> \o t) \in Seq(A) /\ Len(Tail(<<x>> \o t)) = Len(t)
    BY <1>1, <1>2
  <2>2. ASSUME NEW i \in 1 .. Len(t) PROVE Tail(<<x>> \o t)[i] = t[i]
    <3>1. Tail(<<x>> \o t)[i] = (<<x>> \o t)[i + 1]
      BY <1>1, <1>2
    <3>2. (<<x>> \o t)[i + 1] = t[i]
      BY <1>1
    <3>3. QED
      BY <3>1, <3>2
  <2>3. QED
    BY <2>1, <2>2, SeqEqual
<1>4. QED
  BY <1>1, <1>2, <1>3

LEMMA MarksInAlphabet ==
  /\ Marks \subseteq Alphabet \ {CR, LF} /\ CR \in Alphabet /\ LF \in Alphabet /\ CR # LF
  /\ Chars \subseteq Alphabet /\ LineChars \subseteq Alphabet
<1>1. CR \notin Marks /\ LF \notin Marks /\ CR # LF
  BY DEF Marks, CR, LF
<1>2. Marks \subseteq Alphabet /\ CR \in Alphabet /\ LF \in Alphabet /\ Chars \subseteq Alphabet
  BY DEF Alphabet
<1>3. LineChars \subseteq Alphabet
  BY DEF Alphabet, LineChars
<1>4. QED
  BY <1>1, <1>2, <1>3

\* A line that begins with a field's name is that field, and others are ignored.
LEMMA LineRead ==
  ASSUME NEW d \in Clients, ~d.cr, NEW name \in Marks, NEW t \in Seq(Alphabet),
         d.line = <<name>> \o t
  PROVE  ReadChar(d, LF) =
           IF name = "id: " THEN [d EXCEPT !.line = <<>>, !.id = t]
           ELSE IF name = "event: " THEN [d EXCEPT !.line = <<>>, !.type = t]
           ELSE IF name = "data: " THEN [d EXCEPT !.line = <<>>, !.data = Append(d.data, t)]
           ELSE [d EXCEPT !.line = <<>>]
<1>1. d.line # <<>> /\ d.line[1] = name /\ Tail(d.line) = t
  <2>1. name \in Alphabet
    BY MarksInAlphabet
  <2>2. QED
    BY <2>1, TailOfMarked
<1>2. ReadChar(d, LF) = [ReadLine(d) EXCEPT !.line = <<>>, !.cr = FALSE]
  BY MarksInAlphabet DEF ReadChar
<1>3. CASE name = "id: "
  <2>1. ReadLine(d) = [d EXCEPT !.id = t]
    BY <1>1, <1>3 DEF ReadLine
  <2>2. [[d EXCEPT !.id = t] EXCEPT !.line = <<>>, !.cr = FALSE] = [d EXCEPT !.line = <<>>, !.id = t]
    BY DEF Clients
  <2>3. QED
    BY <1>2, <1>3, <2>1, <2>2
<1>4. CASE name = "event: "
  <2>1. ReadLine(d) = [d EXCEPT !.type = t]
    BY <1>1, <1>4 DEF ReadLine
  <2>2. [[d EXCEPT !.type = t] EXCEPT !.line = <<>>, !.cr = FALSE] = [d EXCEPT !.line = <<>>, !.type = t]
    BY DEF Clients
  <2>3. QED
    BY <1>2, <1>4, <2>1, <2>2
<1>5. CASE name = "data: "
  <2>1. ReadLine(d) = [d EXCEPT !.data = Append(d.data, t)]
    BY <1>1, <1>5 DEF ReadLine
  <2>2. [[d EXCEPT !.data = Append(d.data, t)] EXCEPT !.line = <<>>, !.cr = FALSE]
        = [d EXCEPT !.line = <<>>, !.data = Append(d.data, t)]
    BY DEF Clients
  <2>3. QED
    BY <1>2, <1>5, <2>1, <2>2
<1>6. CASE name \notin {"id: ", "event: ", "data: "}
  <2>1. ReadLine(d) = d
    BY <1>1, <1>6 DEF ReadLine
  <2>2. QED
    BY <1>2, <1>6, <2>1 DEF Clients
<1>7. QED
  BY <1>3, <1>4, <1>5, <1>6

\* The line of a field, read where another line ended.
LEMMA FieldRead ==
  ASSUME NEW c \in Clients, c.line = <<>>, ~c.cr, NEW name \in Marks,
         NEW t \in Seq(Alphabet \ {CR, LF})
  PROVE  /\ <<name>> \o t \o <<LF>> \in Seq(Alphabet)
         /\ ReadFrom(c, <<name>> \o t \o <<LF>>) =
              IF name = "id: " THEN [c EXCEPT !.id = t]
              ELSE IF name = "event: " THEN [c EXCEPT !.type = t]
              ELSE IF name = "data: " THEN [c EXCEPT !.data = Append(c.data, t)]
              ELSE c
<1> DEFINE s == <<name>> \o t
           d == [c EXCEPT !.line = s]
<1>1. name \in Alphabet \ {CR, LF} /\ LF \in Alphabet
  BY MarksInAlphabet
<1>2. s \in Seq(Alphabet \ {CR, LF}) /\ s \in Seq(Alphabet) /\ t \in Seq(Alphabet)
  BY <1>1
<1>3. s \o <<LF>> = Append(s, LF) /\ Append(s, LF) \in Seq(Alphabet)
  BY <1>1, <1>2
<1>4. ReadFrom(c, s) = d
  <2>1. c.line \o s = s
    BY <1>2
  <2> HIDE DEF s
  <2>2. QED
    BY <1>2, <2>1, ReadPlain
<1>5. d \in Clients /\ ~d.cr /\ d.line = <<name>> \o t
  BY <1>2 DEF Clients
<1>6. ReadFrom(c, Append(s, LF)) = ReadChar(d, LF)
  <2> HIDE DEF s, d
  <2>1. ReadFrom(c, Append(s, LF)) = ReadChar(ReadFrom(c, s), LF)
    BY <1>1, <1>2, ReadFolds DEF ReadFrom
  <2>2. QED
    BY <1>4, <2>1
<1>7. [d EXCEPT !.line = <<>>] = c /\ d.data = c.data
  BY DEF Clients
<1> HIDE DEF d, s
<1>8. ReadChar(d, LF) =
        IF name = "id: " THEN [d EXCEPT !.line = <<>>, !.id = t]
        ELSE IF name = "event: " THEN [d EXCEPT !.line = <<>>, !.type = t]
        ELSE IF name = "data: " THEN [d EXCEPT !.line = <<>>, !.data = Append(d.data, t)]
        ELSE [d EXCEPT !.line = <<>>]
  BY <1>2, <1>5, LineRead
<1>9. /\ [d EXCEPT !.line = <<>>, !.id = t] = [c EXCEPT !.id = t]
      /\ [d EXCEPT !.line = <<>>, !.type = t] = [c EXCEPT !.type = t]
      /\ [d EXCEPT !.line = <<>>, !.data = Append(d.data, t)] = [c EXCEPT !.data = Append(c.data, t)]
  BY <1>5, <1>7 DEF Clients
<1>10. QED
  BY <1>3, <1>6, <1>7, <1>8, <1>9 DEF s

\* An empty line ends an event, or what has no data.
LEMMA EmptyLineRead ==
  ASSUME NEW c \in Clients, c.line = <<>>, ~c.cr
  PROVE  ReadFrom(c, <<LF>>) =
           [c EXCEPT !.type = <<>>, !.data = <<>>,
                     !.events = IF c.data = <<>> THEN c.events
                                ELSE Append(c.events, [id |-> c.id, type |-> c.type, data |-> c.data])]
<1>1. ReadFrom(c, <<LF>>) = ReadChar(c, LF)
  <2>1. <<>> \in Seq(Alphabet) /\ Append(<<>>, LF) = <<LF>> /\ LF \in Alphabet
    BY MarksInAlphabet
  <2>2. ReadFrom(c, Append(<<>>, LF)) = ReadChar(ReadFrom(c, <<>>), LF) /\ ReadFrom(c, <<>>) = c
    BY <2>1, ReadFolds DEF ReadFrom
  <2>3. QED
    BY <2>1, <2>2
<1>2. ReadChar(c, LF) = [ReadLine(c) EXCEPT !.line = <<>>, !.cr = FALSE]
  BY MarksInAlphabet DEF ReadChar
<1> DEFINE v == IF c.data = <<>> THEN c.events
                ELSE Append(c.events, [id |-> c.id, type |-> c.type, data |-> c.data])
<1>3. ReadLine(c) = [c EXCEPT !.type = <<>>, !.data = <<>>, !.events = v]
  BY DEF ReadLine
<1> HIDE DEF v
<1>4. [[c EXCEPT !.type = <<>>, !.data = <<>>, !.events = v] EXCEPT !.line = <<>>, !.cr = FALSE]
      = [c EXCEPT !.type = <<>>, !.data = <<>>, !.events = v]
  BY DEF Clients
<1>5. QED
  BY <1>1, <1>2, <1>3, <1>4 DEF v

\* The fields of a message give a client its id and type.
LEMMA FieldsRead ==
  ASSUME NEW c \in Clients, AtLineEnd(c), NEW m \in Messages
  PROVE  /\ FieldLines(m) \in Seq(Alphabet)
         /\ ReadFrom(c, FieldLines(m)) =
              [c EXCEPT !.id = Sanitized(IdOf(m)),
                        !.type = IF m.event = <<>> THEN c.type ELSE Sanitized(m.event)]
<1>1. /\ IdOf(m) \in Seq(Chars) /\ IdOf(m) # <<>> /\ m.event \in Seq(Chars)
      /\ m.retry \in Seq(Chars)
  BY EventAssumption DEF IdOf
<1>2. ASSUME NEW t \in Seq(Chars)
      PROVE  Sanitized(t) \in Seq(Alphabet \ {CR, LF}) /\ Sanitized(t) \in Seq(Alphabet)
  <2>1. Sanitized(t) \in Seq(Chars \ {CR, LF})
    BY KeepFolds DEF Sanitized
  <2>2. Chars \ {CR, LF} \subseteq Alphabet \ {CR, LF}
    BY MarksInAlphabet
  <2>3. QED
    BY <2>1, <2>2
<1>3. {"id: ", "event: ", "retry: "} \subseteq Marks
  BY DEF Marks
<1>4. ASSUME NEW b \in Clients, b.line = <<>>, ~b.cr, NEW name \in Marks, NEW t \in Seq(Chars)
      PROVE  /\ FieldLine(name, t) \in Seq(Alphabet)
             /\ ReadFrom(b, FieldLine(name, t)) =
                  IF t = <<>> THEN b
                  ELSE IF name = "id: " THEN [b EXCEPT !.id = Sanitized(t)]
                  ELSE IF name = "event: " THEN [b EXCEPT !.type = Sanitized(t)]
                  ELSE IF name = "data: " THEN [b EXCEPT !.data = Append(b.data, Sanitized(t))]
                  ELSE b
  <2>1. CASE t = <<>>
    <3>1. FieldLine(name, t) = <<>> /\ <<>> \in Seq(Alphabet)
      BY <2>1 DEF FieldLine
    <3>2. ReadFrom(b, <<>>) = b
      BY <1>4, ReadFolds DEF ReadFrom
    <3>3. QED
      BY <2>1, <3>1, <3>2
  <2>2. CASE t # <<>>
    <3> DEFINE u == Sanitized(t)
    <3>1. FieldLine(name, t) = <<name>> \o u \o <<LF>>
      BY <2>2 DEF FieldLine
    <3>2. u \in Seq(Alphabet \ {CR, LF})
      BY <1>2
    <3> HIDE DEF u
    <3>3. /\ <<name>> \o u \o <<LF>> \in Seq(Alphabet)
          /\ ReadFrom(b, <<name>> \o u \o <<LF>>) =
               IF name = "id: " THEN [b EXCEPT !.id = u]
               ELSE IF name = "event: " THEN [b EXCEPT !.type = u]
               ELSE IF name = "data: " THEN [b EXCEPT !.data = Append(b.data, u)]
               ELSE b
      BY <1>4, <3>2, FieldRead
    <3>4. QED
      BY <2>2, <3>1, <3>3 DEF u
  <2>3. QED
    BY <2>1, <2>2
<1>20. ASSUME NEW b \in Clients, b.line = <<>>, ~b.cr, NEW t \in Seq(Chars)
      PROVE  /\ FieldLine("id: ", t) \in Seq(Alphabet)
             /\ ReadFrom(b, FieldLine("id: ", t)) = IF t = <<>> THEN b ELSE [b EXCEPT !.id = Sanitized(t)]
  <2> DEFINE k == "id: "
  <2>1. k \in Marks
    BY <1>3
  <2>2. k = "id: "
    OBVIOUS
  <2> HIDE DEF k
  <2>3. /\ FieldLine(k, t) \in Seq(Alphabet)
        /\ ReadFrom(b, FieldLine(k, t)) =
             IF t = <<>> THEN b
             ELSE IF k = "id: " THEN [b EXCEPT !.id = Sanitized(t)]
             ELSE IF k = "event: " THEN [b EXCEPT !.type = Sanitized(t)]
             ELSE IF k = "data: " THEN [b EXCEPT !.data = Append(b.data, Sanitized(t))]
             ELSE b
    BY <1>4, <1>20, <2>1
  <2>4. FieldLine(k, t) \in Seq(Alphabet) /\ ReadFrom(b, FieldLine(k, t)) = IF t = <<>> THEN b ELSE [b EXCEPT !.id = Sanitized(t)]
    BY <2>2, <2>3
  <2>5. QED
    BY <2>4 DEF k
<1>21. ASSUME NEW b \in Clients, b.line = <<>>, ~b.cr, NEW t \in Seq(Chars)
      PROVE  /\ FieldLine("event: ", t) \in Seq(Alphabet)
             /\ ReadFrom(b, FieldLine("event: ", t)) = IF t = <<>> THEN b ELSE [b EXCEPT !.type = Sanitized(t)]
  <2> DEFINE k == "event: "
  <2>1. k \in Marks
    BY <1>3
  <2>2. k # "id: " /\ k = "event: "
    OBVIOUS
  <2> HIDE DEF k
  <2>3. /\ FieldLine(k, t) \in Seq(Alphabet)
        /\ ReadFrom(b, FieldLine(k, t)) =
             IF t = <<>> THEN b
             ELSE IF k = "id: " THEN [b EXCEPT !.id = Sanitized(t)]
             ELSE IF k = "event: " THEN [b EXCEPT !.type = Sanitized(t)]
             ELSE IF k = "data: " THEN [b EXCEPT !.data = Append(b.data, Sanitized(t))]
             ELSE b
    BY <1>4, <1>21, <2>1
  <2>4. FieldLine(k, t) \in Seq(Alphabet) /\ ReadFrom(b, FieldLine(k, t)) = IF t = <<>> THEN b ELSE [b EXCEPT !.type = Sanitized(t)]
    BY <2>2, <2>3
  <2>5. QED
    BY <2>4 DEF k
<1>22. ASSUME NEW b \in Clients, b.line = <<>>, ~b.cr, NEW t \in Seq(Chars)
      PROVE  /\ FieldLine("retry: ", t) \in Seq(Alphabet)
             /\ ReadFrom(b, FieldLine("retry: ", t)) = b
  <2> DEFINE k == "retry: "
  <2>1. k \in Marks
    BY <1>3
  <2>2. k # "id: " /\ k # "event: " /\ k # "data: "
    OBVIOUS
  <2> HIDE DEF k
  <2>3. /\ FieldLine(k, t) \in Seq(Alphabet)
        /\ ReadFrom(b, FieldLine(k, t)) =
             IF t = <<>> THEN b
             ELSE IF k = "id: " THEN [b EXCEPT !.id = Sanitized(t)]
             ELSE IF k = "event: " THEN [b EXCEPT !.type = Sanitized(t)]
             ELSE IF k = "data: " THEN [b EXCEPT !.data = Append(b.data, Sanitized(t))]
             ELSE b
    BY <1>4, <1>22, <2>1
  <2>4. FieldLine(k, t) \in Seq(Alphabet) /\ ReadFrom(b, FieldLine(k, t)) = b
    BY <2>2, <2>3
  <2>5. QED
    BY <2>4 DEF k
<1> DEFINE f1 == FieldLine("id: ", IdOf(m))
           f2 == FieldLine("event: ", m.event)
           f3 == FieldLine("retry: ", m.retry)
           c1 == [c EXCEPT !.id = Sanitized(IdOf(m))]
           c2 == [c EXCEPT !.id = Sanitized(IdOf(m)),
                           !.type = IF m.event = <<>> THEN c.type ELSE Sanitized(m.event)]
<1>5. c.line = <<>> /\ ~c.cr
  BY DEF AtLineEnd
<1>6. f1 \in Seq(Alphabet) /\ ReadFrom(c, f1) = c1
  BY <1>1, <1>5, <1>20
<1>7. c1 \in Clients /\ c1.line = <<>> /\ ~c1.cr /\ c1.type = c.type
  BY <1>1, <1>2, <1>5 DEF Clients
<1>8. f2 \in Seq(Alphabet) /\ ReadFrom(c1, f2) = c2
  <2>1. /\ f2 \in Seq(Alphabet)
        /\ ReadFrom(c1, f2) = IF m.event = <<>> THEN c1 ELSE [c1 EXCEPT !.type = Sanitized(m.event)]
    <3> HIDE DEF c1
    <3>1. QED
      BY <1>1, <1>7, <1>21
  <2>2. CASE m.event = <<>>
    <3>1. c2 = c1
      BY <2>2 DEF Clients
    <3> HIDE DEF f2, c1, c2
    <3>2. QED
      BY <2>1, <2>2, <3>1
  <2>3. CASE m.event # <<>>
    <3>1. c2 = [c1 EXCEPT !.type = Sanitized(m.event)]
      BY <2>3 DEF Clients
    <3> HIDE DEF f2, c1, c2
    <3>2. QED
      BY <2>1, <2>3, <3>1
  <2>4. QED
    BY <2>2, <2>3
<1>9. c2 \in Clients /\ c2.line = <<>> /\ ~c2.cr
  BY <1>1, <1>2, <1>5 DEF Clients
<1> HIDE DEF f1, f2, c1, c2
<1>10. f3 \in Seq(Alphabet) /\ ReadFrom(c2, f3) = c2
  BY <1>1, <1>9, <1>22
<1> HIDE DEF f3
<1>11. f1 \o f2 \in Seq(Alphabet) /\ ReadFrom(c, f1 \o f2) = c2
  <2>1. f1 \o f2 \in Seq(Alphabet)
    BY <1>6, <1>8
  <2>2. ReadFrom(c, f1 \o f2) = ReadFrom(ReadFrom(c, f1), f2)
    BY <1>6, <1>8, ReadTwo
  <2>3. QED
    BY <1>6, <1>8, <2>1, <2>2
<1>12. (f1 \o f2) \o f3 \in Seq(Alphabet) /\ ReadFrom(c, (f1 \o f2) \o f3) = c2
  <2>1. (f1 \o f2) \o f3 \in Seq(Alphabet)
    BY <1>10, <1>11
  <2>2. ReadFrom(c, (f1 \o f2) \o f3) = ReadFrom(ReadFrom(c, f1 \o f2), f3)
    BY <1>10, <1>11, ReadTwo
  <2>3. QED
    BY <1>10, <1>11, <2>1, <2>2
<1>13. QED
  BY <1>12 DEF f1, f2, f3, c2, FieldLines

\* Converting, framing and reading a text gives its lines.
LEMMA DataRead ==
  ASSUME NEW c \in Clients, AtLineEnd(c), NEW t \in Seq(Chars)
  PROVE  LET C == Folded(Convert, [text |-> <<>>, cr |-> FALSE], t)
             L == Folded(AddTo, [lines |-> <<>>, line |-> <<>>, cr |-> FALSE], t)
         IN  /\ C \in Converted /\ L \in LineLists /\ C.cr = L.cr
             /\ Folded(DataLine, <<"data: ">>, C.text) \in Seq(Alphabet)
             /\ ReadFrom(c, Folded(DataLine, <<"data: ">>, C.text)) =
                  [c EXCEPT !.data = L.lines, !.line = <<"data: ">> \o L.line]
<1> DEFINE k == "data: "
           C(s) == Folded(Convert, [text |-> <<>>, cr |-> FALSE], s)
           L(s) == Folded(AddTo, [lines |-> <<>>, line |-> <<>>, cr |-> FALSE], s)
           D(s) == Folded(DataLine, <<k>>, s)
           Good(s) == /\ C(s).cr = L(s).cr
                      /\ ReadFrom(c, D(C(s).text)) = [c EXCEPT !.data = L(s).lines, !.line = <<k>> \o L(s).line]
           S == {s \in Seq(Chars) : Good(s)}
<1>0. k \in Marks /\ k \in Alphabet /\ k # CR /\ k # LF
  BY MarksInAlphabet DEF Marks
<1>1. /\ C(<<>>) = [text |-> <<>>, cr |-> FALSE]
      /\ \A s \in Seq(Chars) : C(s) \in Converted
      /\ \A s \in Seq(Chars), x \in Chars : C(Append(s, x)) = Convert(C(s), x)
  BY ConvertFolds
<1>2. /\ L(<<>>) = [lines |-> <<>>, line |-> <<>>, cr |-> FALSE]
      /\ \A s \in Seq(Chars) : L(s) \in LineLists
      /\ \A s \in Seq(Chars), x \in Chars : L(Append(s, x)) = AddTo(L(s), x)
  BY AddToFolds
<1>3. /\ D(<<>>) = <<k>>
      /\ \A s \in Seq(LineChars) : D(s) \in Seq(Alphabet)
      /\ \A s \in Seq(LineChars), x \in LineChars : D(Append(s, x)) = DataLine(D(s), x)
  BY DataLineFolds
<1>4. DataLine(<<>>, LF) = <<LF, k>> /\ \A s, x : DataLine(s, x) = s \o (IF x = LF THEN <<LF, k>> ELSE <<x>>)
  BY DEF DataLine
<1> HIDE DEF C, L, D, k
<1>12. /\ <<k>> \in Seq(Alphabet \ {CR, LF}) /\ <<k>> \in Seq(Alphabet)
       /\ <<k>> \o <<>> = <<k>> /\ <<>> \o <<k>> = <<k>> /\ Append(<<>>, k) = <<k>>
  BY <1>0
<1>5. c.line = <<>> /\ c.cr = FALSE /\ c.data = <<>> /\ ~c.cr
  BY DEF AtLineEnd, Clients
<1>6. <<>> \in S
  <2>1. C(<<>>).text = <<>> /\ C(<<>>).cr = FALSE
    BY <1>1
  <2>2. L(<<>>).lines = <<>> /\ L(<<>>).line = <<>> /\ L(<<>>).cr = FALSE
    BY <1>2
  <2>3. ReadFrom(c, <<k>>) = [c EXCEPT !.line = <<k>>]
    <3>1. ReadFrom(c, <<k>>) = [c EXCEPT !.line = c.line \o <<k>>]
      BY <1>5, <1>12, ReadPlain
    <3>2. QED
      BY <1>5, <1>12, <3>1
  <2>4. [c EXCEPT !.data = <<>>, !.line = <<k>> \o <<>>] = [c EXCEPT !.line = <<k>>]
    <3>1. [c EXCEPT !.data = <<>>, !.line = <<k>>] = [c EXCEPT !.line = <<k>>]
      BY <1>5 DEF Clients
    <3>2. QED
      BY <1>12, <3>1
  <2>5. ReadFrom(c, D(C(<<>>).text)) = [c EXCEPT !.data = L(<<>>).lines, !.line = <<k>> \o L(<<>>).line]
    BY <1>3, <2>1, <2>2, <2>3, <2>4
  <2>6. C(<<>>).cr = L(<<>>).cr
    BY <2>1, <2>2
  <2>7. Good(<<>>)
    BY <2>5, <2>6
  <2> HIDE DEF Good
  <2>8. <<>> \in Seq(Chars)
    OBVIOUS
  <2>9. QED
    BY <2>7, <2>8
<1>7. ASSUME NEW s \in S, NEW x \in Chars PROVE Append(s, x) \in S
  <2> DEFINE u == Append(s, x)
             l == L(s)
             v == C(s)
             d == [c EXCEPT !.data = l.lines, !.line = <<k>> \o l.line]
  <2>0. s \in Seq(Chars) /\ u \in Seq(Chars)
    OBVIOUS
  <2>1. v.cr = l.cr /\ ReadFrom(c, D(v.text)) = d
    OBVIOUS
  <2>2. C(u) = Convert(v, x) /\ L(u) = AddTo(l, x) /\ v \in Converted /\ l \in LineLists
    BY <1>1, <1>2, <2>0
  <2> SUFFICES Good(u)
    BY <2>0
  <2> HIDE DEF u, v, l
  <2>3. /\ v.text \in Seq(LineChars) /\ v.cr \in BOOLEAN
        /\ l.lines \in Seq(Seq(Chars)) /\ l.line \in Seq(Chars) /\ l.cr \in BOOLEAN
    BY <2>2 DEF Converted, LineLists
  <2>4. D(v.text) \in Seq(Alphabet)
    BY <1>3, <2>3
  <2>5. d \in Clients /\ d.cr = FALSE /\ d.line = <<k>> \o l.line /\ d.data = l.lines
    <3>1. <<k>> \o l.line \in Seq(Alphabet) /\ l.lines \in Seq(Seq(Alphabet))
      <4>1. Chars \subseteq Alphabet
        BY MarksInAlphabet
      <4>2. l.line \in Seq(Alphabet)
        BY <2>3, <4>1
      <4>3. l.lines \in Seq(Seq(Alphabet))
        <5>1. Seq(Chars) \subseteq Seq(Alphabet)
          BY <4>1
        <5>2. QED
          BY <2>3, <5>1
      <4>4. QED
        BY <1>12, <4>2, <4>3
    <3>2. QED
      BY <1>5, <3>1 DEF Clients
  <2>6. CASE x = LF /\ v.cr
    <3>1. Convert(v, x) = [text |-> v.text, cr |-> FALSE]
      BY <2>6, MarksInAlphabet DEF Convert
    <3>2. AddTo(l, x) = [l EXCEPT !.cr = FALSE]
      BY <2>1, <2>6 DEF AddTo
    <3>3. AddTo(l, x).lines = l.lines /\ AddTo(l, x).line = l.line /\ AddTo(l, x).cr = FALSE
      BY <2>2, <3>2 DEF LineLists
    <3>4. C(u).cr = FALSE /\ L(u).cr = FALSE /\ C(u).text = v.text
          /\ L(u).lines = l.lines /\ L(u).line = l.line
      BY <2>2, <3>1, <3>3
    <3>5. [c EXCEPT !.data = L(u).lines, !.line = <<k>> \o L(u).line] = d
      BY <3>4
    <3> HIDE DEF d
    <3>6. QED
      BY <2>1, <3>4, <3>5
  <2>7. CASE ~(x = LF /\ v.cr) /\ x \in {CR, LF}
    <3>1. Convert(v, x) = [text |-> Append(v.text, LF), cr |-> x = CR]
      BY <2>7 DEF Convert
    <3>2. AddTo(l, x) = [lines |-> Append(l.lines, l.line), line |-> <<>>, cr |-> x = CR]
      BY <2>1, <2>7 DEF AddTo
    <3>3. LF \in LineChars /\ LF \in Alphabet
      BY MarksInAlphabet DEF LineChars
    <3>4. D(Append(v.text, LF)) = D(v.text) \o <<LF, k>>
      BY <1>3, <1>4, <2>3, <3>3
    <3>5. D(v.text) \o <<LF, k>> = Append(Append(D(v.text), LF), k)
          /\ Append(D(v.text), LF) \in Seq(Alphabet)
      <4> DEFINE w == D(v.text)
      <4>1. w \in Seq(Alphabet)
        BY <2>4
      <4> HIDE DEF w
      <4>2. Append(w, LF) \in Seq(Alphabet) /\ w \o <<LF>> = Append(w, LF)
        BY <3>3, <4>1
      <4>3. w \o <<LF, k>> = Append(Append(w, LF), k)
        <5>1. <<LF, k>> = Append(<<LF>>, k) /\ <<LF>> \in Seq(Alphabet)
          BY <1>0, <3>3
        <5> DEFINE b == <<LF>>
        <5>2. b \in Seq(Alphabet)
          BY <5>1
        <5> HIDE DEF b
        <5>3. w \o Append(b, k) = Append(w \o b, k)
          BY <1>0, <4>1, <5>2, AppendConcat
        <5>4. QED
          BY <4>2, <5>1, <5>3 DEF b
      <4>4. QED
        BY <4>2, <4>3 DEF w
    <3> DEFINE e == [c EXCEPT !.data = Append(l.lines, l.line)]
    <3>6. ReadFrom(c, Append(D(v.text), LF)) = e
      <4>1. ReadFrom(c, Append(D(v.text), LF)) = ReadChar(d, LF)
        <5> HIDE DEF d
        <5>1. ReadFrom(c, Append(D(v.text), LF)) = ReadChar(ReadFrom(c, D(v.text)), LF)
          BY <2>4, <3>3, ReadFolds DEF ReadFrom
        <5>2. QED
          BY <2>1, <5>1
      <4>2. l.line \in Seq(Alphabet)
        BY <2>3, MarksInAlphabet
      <4>3. ReadChar(d, LF) = [d EXCEPT !.line = <<>>, !.data = Append(d.data, l.line)]
        <5> HIDE DEF d
        <5>1. k # "id: " /\ k # "event: " /\ k = "data: "
          BY DEF k
        <5>2. QED
          BY <1>0, <2>5, <4>2, <5>1, LineRead
      <4>4. [d EXCEPT !.line = <<>>, !.data = Append(d.data, l.line)] = e
        BY <1>5, <2>5 DEF Clients
      <4>5. QED
        BY <4>1, <4>3, <4>4
    <3>7. e \in Clients /\ e.cr = FALSE /\ e.line = <<>>
      <4>1. Append(l.lines, l.line) \in Seq(Seq(Alphabet))
        <5>1. Seq(Chars) \subseteq Seq(Alphabet)
          BY MarksInAlphabet
        <5>2. l.line \in Seq(Alphabet)
          BY <2>3, <5>1
        <5>3. d.data \in Seq(Seq(Alphabet))
          BY <2>5 DEF Clients
        <5> HIDE DEF d
        <5>4. QED
          BY <2>5, <5>2, <5>3
      <4>2. QED
        BY <1>5, <4>1 DEF Clients
    <3>8. ReadFrom(c, D(Append(v.text, LF))) = ReadChar(e, k)
      <4>1. ReadFrom(c, Append(Append(D(v.text), LF), k)) = ReadChar(ReadFrom(c, Append(D(v.text), LF)), k)
        BY <1>0, <3>5, ReadFolds DEF ReadFrom
      <4>2. QED
        BY <3>4, <3>5, <3>6, <4>1
    <3>9. ReadChar(e, k) = [e EXCEPT !.line = Append(e.line, k), !.cr = FALSE]
      BY <1>0 DEF ReadChar
    <3>10. [e EXCEPT !.line = Append(e.line, k), !.cr = FALSE]
           = [c EXCEPT !.data = Append(l.lines, l.line), !.line = <<k>> \o <<>>]
      <4>1. [e EXCEPT !.line = <<k>>, !.cr = FALSE]
            = [c EXCEPT !.data = Append(l.lines, l.line), !.line = <<k>>]
        BY <1>5, <3>7 DEF Clients
      <4>2. QED
        BY <1>12, <3>7, <4>1
    <3>11. /\ C(u).cr = L(u).cr /\ C(u).text = Append(v.text, LF)
           /\ L(u).lines = Append(l.lines, l.line) /\ L(u).line = <<>>
      BY <2>2, <3>1, <3>2
    <3> HIDE DEF e
    <3>12. QED
      BY <3>8, <3>9, <3>10, <3>11
  <2>8. CASE x \notin {CR, LF}
    <3>1. Convert(v, x) = [text |-> Append(v.text, x), cr |-> FALSE]
      BY <2>8 DEF Convert
    <3>2. AddTo(l, x) = [lines |-> l.lines, line |-> Append(l.line, x), cr |-> FALSE]
      BY <2>8 DEF AddTo
    <3>3. x \in LineChars /\ x \in Alphabet
      BY <2>8, MarksInAlphabet DEF LineChars
    <3>4. D(Append(v.text, x)) = Append(D(v.text), x)
      <4>1. D(Append(v.text, x)) = DataLine(D(v.text), x)
        BY <1>3, <2>3, <3>3
      <4>2. DataLine(D(v.text), x) = D(v.text) \o <<x>>
        BY <1>4, <2>8
      <4>3. D(v.text) \o <<x>> = Append(D(v.text), x)
        BY <2>4, <3>3
      <4>4. QED
        BY <4>1, <4>2, <4>3
    <3>5. ReadFrom(c, Append(D(v.text), x)) = ReadChar(d, x)
      <4> HIDE DEF d
      <4>1. ReadFrom(c, Append(D(v.text), x)) = ReadChar(ReadFrom(c, D(v.text)), x)
        BY <2>4, <3>3, ReadFolds DEF ReadFrom
      <4>2. QED
        BY <2>1, <4>1
    <3>6. ReadChar(d, x) = [d EXCEPT !.line = Append(d.line, x), !.cr = FALSE]
      BY <2>8 DEF ReadChar
    <3>7. [d EXCEPT !.line = Append(d.line, x), !.cr = FALSE]
          = [c EXCEPT !.data = l.lines, !.line = <<k>> \o Append(l.line, x)]
      <4>1. Append(d.line, x) = <<k>> \o Append(l.line, x)
        <5>1. <<k>> \in Seq(Alphabet) /\ l.line \in Seq(Alphabet)
          BY <1>12, <2>3, MarksInAlphabet
        <5> DEFINE a == <<k>>
                   b == l.line
        <5> HIDE DEF a, b
        <5>2. a \o Append(b, x) = Append(a \o b, x)
          BY <3>3, <5>1, AppendConcat DEF a, b
        <5>3. QED
          BY <2>5, <5>2 DEF a, b
      <4>2. QED
        BY <1>5, <2>5, <4>1 DEF Clients
    <3>8. /\ C(u).cr = L(u).cr /\ C(u).text = Append(v.text, x)
          /\ L(u).lines = l.lines /\ L(u).line = Append(l.line, x)
      BY <2>2, <3>1, <3>2
    <3> HIDE DEF d
    <3>9. QED
      BY <3>4, <3>5, <3>6, <3>7, <3>8
  <2>9. QED
    BY <2>6, <2>7, <2>8
<1>8. S = Seq(Chars)
  <2>1. S \in SUBSET Seq(Chars)
    OBVIOUS
  <2> HIDE DEF S
  <2>2. QED
    BY <1>6, <1>7, <2>1, SequenceInduction
<1>9. Good(t) /\ C(t) \in Converted /\ L(t) \in LineLists
  BY <1>1, <1>2, <1>8
<1>10. D(C(t).text) \in Seq(Alphabet)
  BY <1>3, <1>9 DEF Converted
<1>11. QED
  BY <1>9, <1>10 DEF C, L, D, k

\* The data of a message, after its fields, is one event, which only the last line end sends.
LEMMA MessageRead ==
  ASSUME NEW c \in Clients, AtLineEnd(c), NEW t \in Seq(Chars)
  PROVE  \E front \in Seq(Alphabet) :
           /\ DataLines(t) = front \o <<LF>>
           /\ ReadFrom(c, front).events = c.events
           /\ ReadFrom(c, front \o <<LF>>) =
                [c EXCEPT !.type = <<>>, !.data = <<>>,
                          !.events = Append(c.events, [id |-> c.id, type |-> c.type, data |-> TextLines(t)])]
<1> DEFINE k == "data: "
           D == Folded(DataLine, <<k>>, Normalized(t))
           L == Folded(AddTo, [lines |-> <<>>, line |-> <<>>, cr |-> FALSE], t)
           d == [c EXCEPT !.data = L.lines, !.line = <<k>> \o L.line]
           e == [c EXCEPT !.data = TextLines(t)]
<1>1. D \in Seq(Alphabet) /\ ReadFrom(c, D) = d /\ L \in LineLists
  BY DataRead DEF Normalized
<1>2. DataLines(t) = D \o <<LF, LF>>
  BY DEF DataLines
<1>16. TextLines(t) = Append(L.lines, L.line)
  BY DEF TextLines
<1>3. k \in Marks /\ k \in Alphabet
  BY MarksInAlphabet DEF Marks
<1>4. c.line = <<>> /\ c.cr = FALSE /\ c.data = <<>> /\ ~c.cr
  BY DEF AtLineEnd, Clients
<1>5. L.lines \in Seq(Seq(Alphabet)) /\ L.line \in Seq(Alphabet) /\ TextLines(t) \in Seq(Seq(Alphabet))
      /\ TextLines(t) # <<>>
  <2>1. L.lines \in Seq(Seq(Chars)) /\ L.line \in Seq(Chars)
    BY <1>1 DEF LineLists
  <2>2. Seq(Chars) \subseteq Seq(Alphabet)
    BY MarksInAlphabet
  <2>3. L.lines \in Seq(Seq(Alphabet)) /\ L.line \in Seq(Alphabet)
    BY <2>1, <2>2
  <2> HIDE DEF L
  <2>4. TextLines(t) \in Seq(Seq(Alphabet))
    BY <1>16, <2>3
  <2>5. TextLines(t) # <<>>
    <3>1. Len(TextLines(t)) = Len(L.lines) + 1 /\ Len(L.lines) \in Nat
      BY <1>16, <2>3
    <3>2. QED
      BY <3>1
  <2>6. QED
    BY <2>3, <2>4, <2>5
<1> HIDE DEF k, D, L
<1>6. LF \in Alphabet /\ <<LF>> \in Seq(Alphabet)
  BY MarksInAlphabet
<1>7. d \in Clients /\ d.cr = FALSE /\ d.line = <<k>> \o L.line /\ d.data = L.lines
  <2>1. <<k>> \o L.line \in Seq(Alphabet)
    BY <1>3, <1>5
  <2>2. QED
    BY <1>4, <1>5, <2>1 DEF Clients
<1> DEFINE front == Append(D, LF)
<1>8. front \in Seq(Alphabet) /\ D \o <<LF, LF>> = front \o <<LF>>
  BY <1>1, <1>6
<1>9. ReadFrom(c, front) = e
  <2>1. ReadFrom(c, front) = ReadChar(d, LF)
    <3> HIDE DEF d
    <3>1. ReadFrom(c, Append(D, LF)) = ReadChar(ReadFrom(c, D), LF)
      BY <1>1, <1>6, ReadFolds DEF ReadFrom
    <3>2. QED
      BY <1>1, <3>1
  <2>2. ReadChar(d, LF) = [d EXCEPT !.line = <<>>, !.data = Append(d.data, L.line)]
    <3> HIDE DEF d
    <3>1. k # "id: " /\ k # "event: " /\ k = "data: " /\ k \in Marks
      BY <1>3 DEF k
    <3>2. QED
      BY <1>5, <1>7, <3>1, LineRead
  <2>3. [d EXCEPT !.line = <<>>, !.data = Append(d.data, L.line)] = e
    BY <1>16, <1>4, <1>7 DEF Clients
  <2>4. QED
    BY <2>1, <2>2, <2>3
<1>10. e \in Clients /\ e.line = <<>> /\ ~e.cr /\ e.data = TextLines(t) /\ e.id = c.id
       /\ e.type = c.type /\ e.events = c.events
  BY <1>4, <1>5 DEF Clients
<1>11. ReadFrom(c, front \o <<LF>>) = ReadFrom(e, <<LF>>)
  <2> HIDE DEF front, e
  <2>1. QED
    BY <1>6, <1>8, <1>9, ReadTwo
<1> DEFINE v == Append(c.events, [id |-> c.id, type |-> c.type, data |-> TextLines(t)])
<1>12. ReadFrom(e, <<LF>>) = [e EXCEPT !.type = <<>>, !.data = <<>>, !.events = v]
  <2> HIDE DEF e
  <2>1. QED
    BY <1>5, <1>10, EmptyLineRead
<1>13. [e EXCEPT !.type = <<>>, !.data = <<>>, !.events = v]
       = [c EXCEPT !.type = <<>>, !.data = <<>>, !.events = v]
  <2> HIDE DEF v
  <2>1. QED
    BY DEF Clients
<1>14. ReadFrom(c, front).events = c.events
  <2> HIDE DEF e
  <2>1. QED
    BY <1>9, <1>10
<1> HIDE DEF front
<1>15. QED
  BY <1>2, <1>8, <1>11, <1>12, <1>13, <1>14

\* What breaks off has no more events than what would follow.
LEMMA NoEventBefore ==
  ASSUME NEW c \in Clients, NEW front \in Seq(Alphabet), NEW x \in Alphabet,
         ReadFrom(c, front).events = c.events, NEW n \in 0 .. Len(Append(front, x)) - 1
  PROVE  /\ SubSeq(Append(front, x), 1, n) \in Seq(Alphabet)
         /\ ReadFrom(c, SubSeq(Append(front, x), 1, n)).events = c.events
<1> DEFINE s == SubSeq(front, 1, n)
           t == SubSeq(front, n + 1, Len(front))
<1>1. Len(front) \in Nat /\ n \in 0 .. Len(front)
  OBVIOUS
<1>2. SubSeq(Append(front, x), 1, n) = s /\ s \in Seq(Alphabet) /\ t \in Seq(Alphabet)
  <2>1. s \in Seq(Alphabet) /\ Len(s) = n /\ t \in Seq(Alphabet)
    BY <1>1
  <2>2. SubSeq(Append(front, x), 1, n) \in Seq(Alphabet) /\ Len(SubSeq(Append(front, x), 1, n)) = n
    BY <1>1
  <2>3. \A i \in 1 .. n : SubSeq(Append(front, x), 1, n)[i] = s[i]
    BY <1>1
  <2>4. QED
    BY <2>1, <2>2, <2>3, SeqEqual
<1>3. s \o t = front
  <2>1. s = SubSeq(front, 1, n) /\ t = SubSeq(front, n + 1, Len(front))
    OBVIOUS
  <2>2. SubSeq(front, 1, n) \o SubSeq(front, n + 1, Len(front)) = SubSeq(front, 1, Len(front))
    <3>1. /\ 1 \in 1 .. Len(front) + 1 /\ n \in 1 - 1 .. Len(front)
          /\ Len(front) \in n .. Len(front)
      BY <1>1
    <3> DEFINE N == Len(front)
    <3> HIDE DEF N
    <3>2. SubSeq(front, 1, n) \o SubSeq(front, n + 1, N) = SubSeq(front, 1, N)
      BY <3>1, ConcatAdjacentSubSeq DEF N
    <3>3. QED
      BY <3>2 DEF N
  <2>3. SubSeq(front, 1, Len(front)) = front
    BY SubSeqFull
  <2>4. QED
    BY <2>2, <2>3
<1> DEFINE d == ReadFrom(c, s)
<1> HIDE DEF s, t
<1>4. ReadFrom(c, front) = ReadFrom(d, t) /\ d \in Clients
  <2>1. d \in Clients
    BY <1>2, ReadFolds DEF ReadFrom
  <2>2. ReadFrom(c, s \o t) = ReadFrom(ReadFrom(c, s), t)
    BY <1>2, ReadTwo
  <2>3. QED
    BY <1>3, <2>1, <2>2
<1>5. PICK e \in Seq(EventType) : d.events = c.events \o e
  BY <1>2, EventsGrow
<1>6. PICK f \in Seq(EventType) : ReadFrom(d, t).events = d.events \o f
  <2> HIDE DEF d
  <2>1. QED
    BY <1>2, <1>4, EventsGrow
<1>7. c.events = (c.events \o e) \o f /\ c.events \in Seq(EventType)
  <2> HIDE DEF d
  <2>1. QED
    BY <1>4, <1>5, <1>6 DEF Clients
<1>8. e = <<>>
  <2> DEFINE l == c.events
  <2>1. l = (l \o e) \o f /\ l \in Seq(EventType)
    BY <1>7
  <2> HIDE DEF l
  <2>2. Len(l) = Len(l) + Len(e) + Len(f)
    BY <2>1
  <2>3. Len(e) = 0
    BY <2>1, <2>2
  <2>4. QED
    BY <2>3
<1>9. c.events \o e = c.events
  BY <1>7, <1>8
<1>10. QED
  BY <1>2, <1>5, <1>9

\* What a client that is at the end of a line reads of a message, whole or broken off.
LEMMA SendRead ==
  ASSUME NEW c \in Clients, AtLineEnd(c), NEW m \in Messages, NEW t \in Seq(Chars)
  PROVE  LET whole == FieldLines(m) \o DataLines(t)
             event == [id |-> Sanitized(IdOf(m)),
                       type |-> IF m.event = <<>> THEN c.type ELSE Sanitized(m.event),
                       data |-> TextLines(t)]
         IN  /\ whole \in Seq(Alphabet)
             /\ ReadFrom(c, whole) = [c EXCEPT !.id = Sanitized(IdOf(m)), !.type = <<>>,
                                           !.events = Append(c.events, event)]
             /\ \A n \in 0 .. Len(whole) - 1 :
                  /\ SubSeq(whole, 1, n) \in Seq(Alphabet)
                  /\ ReadFrom(c, SubSeq(whole, 1, n)).events = c.events
<1> DEFINE whole == FieldLines(m) \o DataLines(t)
           id == Sanitized(IdOf(m))
           type == IF m.event = <<>> THEN c.type ELSE Sanitized(m.event)
           event == [id |-> id, type |-> type, data |-> TextLines(t)]
           d == [c EXCEPT !.id = id, !.type = type]
           f == FieldLines(m)
<1> HIDE DEF id, type
<1>1. f \in Seq(Alphabet) /\ ReadFrom(c, f) = d
  BY FieldsRead DEF id, type
<1>2. c.line = <<>> /\ ~c.cr /\ c.data = <<>>
  BY DEF AtLineEnd
<1>3. d \in Clients
  BY <1>1, ReadFolds DEF ReadFrom
<1>4. d.line = <<>> /\ ~d.cr /\ d.data = <<>> /\ d.id = id /\ d.type = type /\ d.events = c.events
  BY <1>2 DEF Clients
<1>5. [d EXCEPT !.type = <<>>, !.data = <<>>, !.events = Append(c.events, event)]
      = [c EXCEPT !.id = id, !.type = <<>>, !.events = Append(c.events, event)]
  <2> DEFINE v == Append(c.events, event)
  <2> HIDE DEF v
  <2>1. [d EXCEPT !.type = <<>>, !.data = <<>>, !.events = v]
        = [c EXCEPT !.id = id, !.type = <<>>, !.events = v]
    BY <1>2 DEF Clients
  <2>2. QED
    BY <2>1 DEF v
<1> HIDE DEF d
<1>6. PICK front \in Seq(Alphabet) :
        /\ DataLines(t) = front \o <<LF>>
        /\ ReadFrom(d, front).events = d.events
        /\ ReadFrom(d, front \o <<LF>>) =
             [d EXCEPT !.type = <<>>, !.data = <<>>,
                       !.events = Append(d.events, [id |-> d.id, type |-> d.type, data |-> TextLines(t)])]
  <2>1. AtLineEnd(d)
    BY <1>4 DEF AtLineEnd
  <2>2. QED
    BY <1>3, <2>1, MessageRead
<1>7. LF \in Alphabet /\ <<LF>> \in Seq(Alphabet) /\ front \o <<LF>> \in Seq(Alphabet)
  BY MarksInAlphabet
<1> HIDE DEF f
<1>8. f \o (front \o <<LF>>) \in Seq(Alphabet)
      /\ ReadFrom(c, f \o (front \o <<LF>>)) = ReadFrom(d, front \o <<LF>>)
  <2>1. ReadFrom(c, f \o (front \o <<LF>>)) = ReadFrom(ReadFrom(c, f), front \o <<LF>>)
    BY <1>1, <1>7, ReadTwo
  <2>2. QED
    BY <1>1, <1>7, <2>1
<1>9. whole = f \o (front \o <<LF>>)
  BY <1>6 DEF f
<1>10. f \o front \in Seq(Alphabet) /\ ReadFrom(c, f \o front).events = c.events
  <2>1. f \o front \in Seq(Alphabet)
    BY <1>1
  <2>2. ReadFrom(c, f \o front) = ReadFrom(ReadFrom(c, f), front)
    BY <1>1, ReadTwo
  <2>3. QED
    BY <1>1, <1>4, <1>6, <2>1, <2>2
<1>11. whole = Append(f \o front, LF)
  <2>1. front \o <<LF>> = Append(front, LF)
    BY <1>7
  <2>2. f \o Append(front, LF) = Append(f \o front, LF)
    BY <1>1, <1>7, AppendConcat
  <2>3. QED
    BY <1>9, <2>1, <2>2
<1> HIDE DEF whole
<1>12. ASSUME NEW n \in 0 .. Len(whole) - 1
       PROVE  SubSeq(whole, 1, n) \in Seq(Alphabet) /\ ReadFrom(c, SubSeq(whole, 1, n)).events = c.events
  <2> DEFINE g == f \o front
  <2>1. g \in Seq(Alphabet) /\ ReadFrom(c, g).events = c.events /\ whole = Append(g, LF)
    BY <1>10, <1>11
  <2> HIDE DEF g
  <2>2. n \in 0 .. Len(Append(g, LF)) - 1
    BY <2>1
  <2>3. /\ SubSeq(Append(g, LF), 1, n) \in Seq(Alphabet)
        /\ ReadFrom(c, SubSeq(Append(g, LF), 1, n)).events = c.events
    BY <1>7, <2>1, <2>2, NoEventBefore
  <2>4. QED
    BY <2>1, <2>3
<1>13. ReadFrom(c, whole) = [c EXCEPT !.id = id, !.type = <<>>, !.events = Append(c.events, event)]
  <2>1. Append(d.events, [id |-> d.id, type |-> d.type, data |-> TextLines(t)]) = Append(c.events, event)
    BY <1>4
  <2> HIDE DEF event
  <2>2. QED
    BY <1>5, <1>6, <1>8, <1>9, <2>1
<1>14. whole \in Seq(Alphabet)
  BY <1>8, <1>9
<1>15. QED
  BY <1>12, <1>13, <1>14 DEF whole, id, type

-----------------------------------------------------------------------------
Client == ReadFrom(Fresh, wire)

\* Until the connection breaks the client is at the end of a line, and has no type unless
\* an encoding failed.
EventInv ==
  /\ wire \in Seq(Alphabet)
  /\ sent \in Seq([message : Messages, text : Seq(Chars), afterFailure : BOOLEAN])
  /\ failed \in BOOLEAN /\ withOption \in BOOLEAN
  /\ mode \in {"handler", "stream", "broken"}
  /\ mode # "broken" => AtLineEnd(Client) /\ (~failed => Client.type = <<>>)
  /\ EventsAsSent

LEMMA FreshClient == Fresh \in Clients /\ AtLineEnd(Fresh) /\ Fresh.type = <<>> /\ Fresh.events = <<>>
<1>1. <<>> \in Seq(Alphabet) /\ <<>> \in Seq(Seq(Alphabet)) /\ <<>> \in Seq(EventType)
  OBVIOUS
<1>2. QED
  BY <1>1 DEF Fresh, Clients, AtLineEnd

LEMMA EventInit1 == EventInit => EventInv
<1> SUFFICES ASSUME EventInit PROVE EventInv
  OBVIOUS
<1>1. /\ wire = <<>> /\ wire \in Seq(Alphabet)
      /\ sent = <<>> /\ sent \in Seq([message : Messages, text : Seq(Chars), afterFailure : BOOLEAN])
      /\ failed = FALSE /\ mode = "handler" /\ withOption = FALSE
  BY DEF EventInit
<1>2. ReadFrom(Fresh, <<>>) = Fresh
  BY FreshClient, ReadFolds DEF ReadFrom
<1>3. Client = Fresh /\ Received = <<>>
  BY <1>1, <1>2, FreshClient DEF Client, Received, ReadFrom
<1>4. EventsAsSent
  <2>1. Len(Received) = Len(sent) /\ DOMAIN sent = {}
    BY <1>1, <1>3
  <2>2. QED
    BY <2>1 DEF EventsAsSent
<1>5. QED
  BY <1>1, <1>3, <1>4, FreshClient DEF EventInv

\* A send keeps the invariant, with the serializer of a stream or without one.
LEMMA SendKeeps ==
  ASSUME EventInv, mode # "broken", NEW m \in Messages, NEW option \in BOOLEAN, Send(m, option)
  PROVE  EventInv'
<1> DEFINE c == Client
           f == FieldLines(m)
           sentType == [message : Messages, text : Seq(Chars), afterFailure : BOOLEAN]
<1>1. /\ wire \in Seq(Alphabet) /\ sent \in Seq(sentType) /\ failed \in BOOLEAN
      /\ mode \in {"handler", "stream"} /\ AtLineEnd(c) /\ (~failed => c.type = <<>>)
      /\ EventsAsSent /\ withOption' \in BOOLEAN
  BY DEF EventInv, Send
<1>2. c \in Clients /\ Received = c.events
  BY <1>1, FreshClient, ReadFolds DEF Client, ReadFrom, Received
<1>3. ASSUME NEW s \in Seq(Alphabet), wire' = wire \o s
      PROVE  wire' \in Seq(Alphabet) /\ Client' = ReadFrom(c, s) /\ Received' = ReadFrom(c, s).events
  <2>1. wire' \in Seq(Alphabet)
    BY <1>1, <1>3
  <2>2. ReadFrom(Fresh, wire \o s) = ReadFrom(ReadFrom(Fresh, wire), s)
    BY <1>1, FreshClient, ReadTwo
  <2>3. Client' = ReadFrom(Fresh, wire') /\ Received' = ReadFrom(Fresh, wire').events
    BY DEF Client, Received, ReadFrom, Fresh
  <2>4. QED
    BY <1>3, <2>1, <2>2, <2>3 DEF Client
<1>4. Encoded(m, option) \subseteq Seq(Chars)
  <2>1. m.own \subseteq Seq(Chars) /\ m.option \subseteq Seq(Chars) /\ m.plain \subseteq Seq(Chars)
    BY EventAssumption
  <2>2. {<<>>} \subseteq Seq(Chars)
    OBVIOUS
  <2>3. Encoded(m, option) \in {{<<>>}, m.own, m.option, m.plain}
    BY DEF Encoded
  <2>4. QED
    BY <2>1, <2>2, <2>3
<1> HIDE DEF c
<1>5. CASE /\ Encoded(m, option) = {}
           /\ wire' = wire \o FieldLines(m) /\ failed' = TRUE /\ mode' = "handler"
           /\ UNCHANGED sent
  <2>1. /\ f \in Seq(Alphabet)
        /\ ReadFrom(c, f) = [c EXCEPT !.id = Sanitized(IdOf(m)),
                                  !.type = IF m.event = <<>> THEN c.type ELSE Sanitized(m.event)]
    BY <1>1, <1>2, FieldsRead
  <2> HIDE DEF f
  <2>2. wire' \in Seq(Alphabet) /\ Client' = ReadFrom(c, f) /\ Received' = ReadFrom(c, f).events
    BY <1>3, <1>5, <2>1 DEF f
  <2>3. AtLineEnd(ReadFrom(c, f)) /\ ReadFrom(c, f).events = c.events
    BY <1>1, <1>2, <2>1 DEF AtLineEnd, Clients
  <2>4. EventsAsSent'
    <3>1. Received' = Received /\ sent' = sent
      BY <1>2, <1>5, <2>2, <2>3
    <3>2. QED
      BY <1>1, <3>1 DEF EventsAsSent
  <2>5. AtLineEnd(Client)'
    BY <2>2, <2>3 DEF AtLineEnd
  <2>6. QED
    BY <1>1, <1>5, <2>2, <2>4, <2>5 DEF EventInv
<1>6. ASSUME NEW t \in Encoded(m, option),
             wire' = wire \o FieldLines(m) \o DataLines(t),
             sent' = Append(sent, [message |-> m, text |-> t, afterFailure |-> failed]),
             failed' = FALSE, UNCHANGED mode
      PROVE  EventInv'
  <2> DEFINE whole == f \o DataLines(t)
             event == [id |-> Sanitized(IdOf(m)),
                       type |-> IF m.event = <<>> THEN c.type ELSE Sanitized(m.event),
                       data |-> TextLines(t)]
             one == [message |-> m, text |-> t, afterFailure |-> failed]
  <2>1. t \in Seq(Chars)
    BY <1>4
  <2>2. /\ whole \in Seq(Alphabet)
        /\ ReadFrom(c, whole) = [c EXCEPT !.id = Sanitized(IdOf(m)), !.type = <<>>,
                                      !.events = Append(c.events, event)]
    BY <1>1, <1>2, <2>1, SendRead
  <2>3. f \in Seq(Alphabet) /\ DataLines(t) \in Seq(Alphabet)
    <3>1. f \in Seq(Alphabet)
      BY <1>1, <1>2, FieldsRead
    <3>2. PICK front \in Seq(Alphabet) : DataLines(t) = front \o <<LF>>
      BY <1>1, <1>2, <2>1, MessageRead
    <3>3. <<LF>> \in Seq(Alphabet)
      BY MarksInAlphabet
    <3>4. QED
      BY <3>1, <3>2, <3>3
  <2>4. wire' = wire \o whole
    <3> DEFINE g == DataLines(t)
    <3> HIDE DEF f, g
    <3>1. (wire \o f) \o g = wire \o (f \o g)
      BY <1>1, <2>3, ConcatAssociative DEF g
    <3>2. QED
      BY <1>6, <3>1 DEF f, g
  <2>5. wire' \in Seq(Alphabet) /\ Client' = ReadFrom(c, whole) /\ Received' = ReadFrom(c, whole).events
    <3> HIDE DEF whole
    <3>1. QED
      BY <1>3, <2>2, <2>4
  <2> DEFINE v == Append(c.events, event)
  <2> HIDE DEF whole
  <2>6. AtLineEnd(Client') /\ Client'.type = <<>> /\ Received' = v
    <3> HIDE DEF v
    <3>1. QED
      BY <1>1, <1>2, <2>2, <2>5 DEF AtLineEnd, Clients, v
  <2>7. one \in sentType
    BY <1>1, <2>1
  <2>8. sent' \in Seq(sentType)
    <3> HIDE DEF sentType, one
    <3>1. QED
      BY <1>1, <1>6, <2>7 DEF one
  <2>9. EventsAsSent'
    <3> DEFINE l == c.events
               Right(r, x) ==
                 /\ r.data = TextLines(x.text)
                 /\ r.id = Sanitized(IdOf(x.message))
                 /\ (x.message.event = <<>> /\ x.afterFailure) \/ r.type = Sanitized(x.message.event)
    <3>1. l \in Seq(EventType) /\ Len(l) = Len(sent) /\ Len(sent) \in Nat /\ Received = l
      BY <1>1, <1>2 DEF EventsAsSent, Clients
    <3>2. \A k \in 1 .. Len(sent) : Right(l[k], sent[k])
      BY <1>1, <3>1 DEF EventsAsSent
    <3>3. Right(event, one)
      <4>1. m.event = <<>> /\ ~failed => c.type = Sanitized(m.event)
        BY <1>1, KeepFolds DEF Sanitized
      <4>2. QED
        BY <1>1, <4>1
    <3>4. v = Append(l, event) /\ sent' = Append(sent, one)
      BY <1>6 DEF v
    <3> HIDE DEF l, event, one, Right, v, sentType
    <3>5. /\ Len(v) = Len(sent) + 1 /\ v[Len(sent) + 1] = event
          /\ \A k \in 1 .. Len(sent) : v[k] = l[k]
      BY <3>1, <3>4
    <3>6. /\ Len(sent') = Len(sent) + 1 /\ sent'[Len(sent) + 1] = one
          /\ \A k \in 1 .. Len(sent) : sent'[k] = sent[k]
          /\ DOMAIN sent' = 1 .. Len(sent) + 1
      BY <1>1, <3>4
    <3>7. ASSUME NEW k \in DOMAIN sent' PROVE Right(v[k], sent'[k])
      <4>1. CASE k = Len(sent) + 1
        BY <3>3, <3>5, <3>6, <4>1
      <4>2. CASE k # Len(sent) + 1
        <5>1. k \in 1 .. Len(sent)
          BY <3>1, <3>6, <4>2
        <5>2. QED
          BY <3>2, <3>5, <3>6, <5>1
      <4>3. QED
        BY <4>1, <4>2
    <3>8. Len(Received') = Len(sent')
      BY <2>6, <3>5, <3>6
    <3>9. \A k \in DOMAIN sent' : Right(Received'[k], sent'[k])
      BY <2>6, <3>7
    <3>10. QED
      BY <3>8, <3>9 DEF EventsAsSent, Right
  <2>10. QED
    BY <1>1, <1>6, <2>5, <2>6, <2>8, <2>9 DEF EventInv, AtLineEnd
<1>7. ASSUME NEW t \in Encoded(m, option), NEW n \in 0 .. Len(FieldLines(m) \o DataLines(t)) - 1,
             wire' = wire \o SubSeq(FieldLines(m) \o DataLines(t), 1, n),
             mode' = "broken", UNCHANGED <<sent, failed>>
      PROVE  EventInv'
  <2> DEFINE s == SubSeq(FieldLines(m) \o DataLines(t), 1, n)
  <2>1. t \in Seq(Chars)
    BY <1>4
  <2>2. s \in Seq(Alphabet) /\ ReadFrom(c, s).events = c.events
    <3> DEFINE whole == FieldLines(m) \o DataLines(t)
    <3>1. \A i \in 0 .. Len(whole) - 1 :
            /\ SubSeq(whole, 1, i) \in Seq(Alphabet)
            /\ ReadFrom(c, SubSeq(whole, 1, i)).events = c.events
      BY <1>1, <1>2, <2>1, SendRead, ZenonT(30)
    <3>2. n \in 0 .. Len(whole) - 1 /\ s = SubSeq(whole, 1, n)
      OBVIOUS
    <3> HIDE DEF whole, s
    <3>3. QED
      BY <3>1, <3>2
  <2>3. wire' \in Seq(Alphabet) /\ Received' = c.events
    <3> HIDE DEF s
    <3>1. QED
      BY <1>3, <1>7, <2>2 DEF s
  <2>4. EventsAsSent'
    <3>1. Received' = Received /\ sent' = sent
      BY <1>2, <1>7, <2>3
    <3>2. QED
      BY <1>1, <3>1 DEF EventsAsSent
  <2>5. QED
    BY <1>1, <1>7, <2>3, <2>4 DEF EventInv
<1>8. QED
  BY <1>5, <1>6, <1>7 DEF Send

\* A ping is a comment, and a line that ends no event.
LEMMA PingKeeps == EventInv /\ Ping => EventInv'
<1> SUFFICES ASSUME EventInv, Ping PROVE EventInv'
  OBVIOUS
<1> DEFINE c == Client
           k == ": ping"
           p1 == <<k>> \o <<>> \o <<LF>>
<1>1. /\ wire \in Seq(Alphabet) /\ AtLineEnd(c) /\ EventsAsSent /\ failed \in BOOLEAN
      /\ mode = "stream" /\ withOption \in BOOLEAN
      /\ sent \in Seq([message : Messages, text : Seq(Chars), afterFailure : BOOLEAN])
  BY DEF EventInv, Ping
<1>2. c \in Clients /\ Received = c.events
  BY <1>1, FreshClient, ReadFolds DEF Client, ReadFrom, Received
<1>3. wire' = wire \o <<k, LF, LF>> /\ UNCHANGED <<sent, failed, mode, withOption>>
  BY DEF Ping
<1>4. k \in Marks /\ k \in Alphabet /\ LF \in Alphabet
  BY MarksInAlphabet DEF Marks
<1>5. c.line = <<>> /\ ~c.cr /\ c.data = <<>>
  BY <1>1 DEF AtLineEnd
<1> HIDE DEF c, k
<1>6. p1 \in Seq(Alphabet) /\ ReadFrom(c, p1) = c
  <2>1. /\ <<k>> \o <<>> \o <<LF>> \in Seq(Alphabet)
        /\ ReadFrom(c, <<k>> \o <<>> \o <<LF>>) =
             IF k = "id: " THEN [c EXCEPT !.id = <<>>]
             ELSE IF k = "event: " THEN [c EXCEPT !.type = <<>>]
             ELSE IF k = "data: " THEN [c EXCEPT !.data = Append(c.data, <<>>)]
             ELSE c
    <3>1. <<>> \in Seq(Alphabet \ {CR, LF})
      OBVIOUS
    <3>2. QED
      BY <1>2, <1>4, <1>5, <3>1, FieldRead
  <2>2. k # "id: " /\ k # "event: " /\ k # "data: "
    BY DEF k
  <2>3. QED
    BY <2>1, <2>2
<1>7. <<k, LF, LF>> = p1 \o <<LF>> /\ <<LF>> \in Seq(Alphabet)
  BY <1>4
<1> HIDE DEF p1
<1>8. ReadFrom(c, p1 \o <<LF>>) = ReadFrom(c, <<LF>>) /\ p1 \o <<LF>> \in Seq(Alphabet)
  <2>1. ReadFrom(c, p1 \o <<LF>>) = ReadFrom(ReadFrom(c, p1), <<LF>>)
    BY <1>2, <1>6, <1>7, ReadTwo
  <2>2. QED
    BY <1>6, <1>7, <2>1
<1>9. ReadFrom(c, <<LF>>) = [c EXCEPT !.type = <<>>, !.data = <<>>, !.events = c.events]
  BY <1>2, <1>5, EmptyLineRead
<1>10. wire' \in Seq(Alphabet) /\ Client' = ReadFrom(c, <<LF>>) /\ Received' = ReadFrom(c, <<LF>>).events
  <2> DEFINE s == p1 \o <<LF>>
  <2>1. s \in Seq(Alphabet) /\ wire' = wire \o s /\ ReadFrom(c, s) = ReadFrom(c, <<LF>>)
    BY <1>3, <1>7, <1>8
  <2> HIDE DEF s
  <2>2. ReadFrom(Fresh, wire \o s) = ReadFrom(ReadFrom(Fresh, wire), s)
    BY <1>1, <2>1, FreshClient, ReadTwo
  <2>3. Client' = ReadFrom(Fresh, wire') /\ Received' = ReadFrom(Fresh, wire').events
    BY DEF Client, Received, ReadFrom, Fresh
  <2>4. wire' \in Seq(Alphabet)
    BY <1>1, <2>1
  <2>5. QED
    BY <2>1, <2>2, <2>3, <2>4 DEF Client, c
<1>11. AtLineEnd(Client)' /\ (Client.type = <<>>)' /\ Received' = Received
  <2>1. /\ Client'.line = <<>> /\ ~Client'.cr /\ Client'.data = <<>> /\ Client'.type = <<>>
        /\ Received' = c.events
    BY <1>2, <1>5, <1>9, <1>10 DEF Clients
  <2>2. QED
    BY <1>2, <2>1 DEF AtLineEnd
<1>12. EventsAsSent'
  BY <1>1, <1>3, <1>11 DEF EventsAsSent
<1>13. QED
  BY <1>1, <1>3, <1>10, <1>11, <1>12 DEF EventInv

LEMMA EventStep == EventInv /\ [EventNext]_eventVars => EventInv'
<1> SUFFICES ASSUME EventInv, [EventNext]_eventVars PROVE EventInv'
  OBVIOUS
<1>1. ASSUME NEW m \in Messages, SendSSE(m) PROVE EventInv'
  BY <1>1, SendKeeps DEF SendSSE
<1>2. ASSUME NEW m \in Messages, StreamMessage(m) PROVE EventInv'
  BY <1>2, SendKeeps DEF StreamMessage, EventInv
<1>3. CASE Ping
  BY <1>3, PingKeeps
<1>4. ASSUME UNCHANGED <<wire, sent, failed>>, mode # "broken", mode' \in {"handler", "stream"},
             withOption' \in BOOLEAN
      PROVE  EventInv'
  BY <1>4 DEF EventInv, EventsAsSent, Received, Client, AtLineEnd
<1>5. CASE SSEStream
  BY <1>4, <1>5 DEF SSEStream
<1>6. CASE StreamStops
  BY <1>4, <1>6 DEF StreamStops, EventInv
<1>7. CASE UNCHANGED eventVars
  BY <1>7 DEF eventVars, EventInv, EventsAsSent, Received, Client, AtLineEnd
<1>8. QED
  BY <1>1, <1>2, <1>3, <1>5, <1>6, <1>7 DEF EventNext

\* What Send, SSEvent and their like write, in a handler or a stream, gives every client by
\* the standard each message sent without an error, once, whole, in order and under its own
\* id and type, whatever the texts hold and wherever the connection breaks (sse.go).
THEOREM EventsAlwaysAsSent == EventSpec => []EventsAsSent
<1>1. EventSpec => []EventInv
  BY EventInit1, EventStep, PTL DEF EventSpec
<1>2. EventInv => EventsAsSent
  BY DEF EventInv
<1>3. QED
  BY <1>1, <1>2, PTL
=============================================================================
