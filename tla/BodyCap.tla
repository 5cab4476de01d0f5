------------------------------ MODULE BodyCap ------------------------------
(***************************************************************************)
(* What bounds the body of a request: BodyLimit middlewares, which read it *)
(* ahead and put a buffer in its place, and the cap that the first binder  *)
(* installs over it when there was none.  Binders run in middlewares and   *)
(* handlers, in any order with BodyLimit and several times; one may stop   *)
(* before the end of the body.                                             *)
(***************************************************************************)
EXTENDS Integers, Sequences, Functions

CONSTANTS
  MaxInt,          \* the largest int64
  Cap, DefaultCap, \* WithMaxRequestBody, or the default
  Sizes,           \* sizes of a body
  Limits,          \* MaxBytes of the BodyLimit middlewares a chain may have
  MaxBounds        \* how many limits may apply, for TLC

ASSUME BodyCapAssumption ==
  /\ MaxInt \in Nat /\ {Cap, DefaultCap} \subseteq 1 .. MaxInt /\ MaxBounds \in Nat
  /\ Sizes \subseteq 0 .. MaxInt /\ Limits \subseteq 0 .. MaxInt

VARIABLES
  size,         \* the body as it was sent
  left,         \* what the current body still has
  caps,         \* what the caps installed over the current body still allow
  tripped,      \* a cap was exceeded: every later read fails
  buffered,     \* BodyLimit put a buffer in place of the body, and set bodyLimited
  isCapped,     \* its cappedBody is the current body
  copied,       \* the context in use is a Copy, which has neither of its fields set
  consumed,     \* read from the connection
  seen,         \* given to binders
  bounds,       \* the limits that have applied, as documented, in order
  outcome       \* of the last step: "begun", "part", "whole" (read to the end),
                \* "refused" (a MaxBytesError, BodyLimit's 413 or 500)

bodyCapVars == <<size, left, caps, tripped, buffered, isCapped, copied, consumed, seen,
                 bounds, outcome>>

BodyCapTypeOK ==
  /\ size \in Sizes /\ left \in 0 .. size /\ caps \subseteq 0 .. MaxInt
  /\ {tripped, buffered, isCapped, copied} \subseteq BOOLEAN
  /\ {consumed, seen} \subseteq 0 .. size
  /\ bounds \in Seq(Limits \cup {Cap, DefaultCap}) /\ Len(bounds) <= MaxBounds
  /\ outcome \in {"begun", "part", "whole", "refused"}

BodyCapInit ==
  /\ size \in Sizes /\ left = size /\ caps = {} /\ tripped = FALSE
  /\ buffered = FALSE /\ isCapped = FALSE /\ copied = FALSE
  /\ consumed = 0 /\ seen = 0 /\ bounds = <<>> /\ outcome = "begun"

-----------------------------------------------------------------------------
\* Reading n bytes, or to the end if there are fewer, through the caps in place.
Allowed(over, n) == \A c \in over : n <= c
Got(over, n) == CHOOSE k \in 0 .. left :
  /\ k <= n /\ Allowed(over, k)
  /\ k = left \/ k = n \/ ~Allowed(over, k + 1)
Exceeds(over, n) == tripped \/ (Got(over, n) < left /\ Got(over, n) < n)

\* MaxBytesReader takes one byte more from below to know that its limit is exceeded.
Consumed(over, n) ==
  IF buffered \/ tripped THEN consumed
  ELSE consumed + Got(over, n) + (IF Exceeds(over, n) THEN 1 ELSE 0)

\* capBody: once over a body, and not over BodyLimit's buffer.
InUse == IF copied THEN DefaultCap ELSE Cap
Stands == (buffered /\ ~copied) \/ isCapped

\* Bug: the cap is put over BodyLimit's buffer too.
CapBodyAlways == IF isCapped THEN caps ELSE caps \cup {InUse}

CapBody == IF Stands THEN caps ELSE caps \cup {InUse}

\* A binder or a form parser reads n bytes, or to the end if there are fewer.
BindBody(n) ==
  /\ outcome # "refused" /\ (Len(bounds) < MaxBounds \/ buffered)
  /\ bounds' = IF buffered THEN bounds ELSE Append(bounds, InUse)
  /\ isCapped' = (isCapped \/ ~(buffered /\ ~copied))
  /\ LET got == IF tripped THEN 0 ELSE Got(CapBody, n)
     IN  /\ left' = left - got /\ seen' = seen + got
         /\ caps' = {c - got : c \in CapBody}
         /\ outcome' = IF Exceeds(CapBody, n) THEN "refused"
                       ELSE IF got < n THEN "whole" ELSE "part"
  /\ tripped' = Exceeds(CapBody, n) /\ consumed' = Consumed(CapBody, n)
  /\ UNCHANGED <<size, buffered, copied>>

\* int64 arithmetic.
Wrap(n) == IF n > MaxInt THEN n - 2 * (MaxInt + 1) ELSE n

\* BodyLimit with MaxBytes m; a LimitReader of a negative size reads nothing.
BodyLimit(m) ==
  LET ahead == IF Wrap(m + 1) < 0 THEN 0 ELSE Wrap(m + 1)
      got   == Got(caps, ahead)
  IN  /\ outcome # "refused" /\ ~copied /\ Len(bounds) < MaxBounds
      /\ bounds' = Append(bounds, m)
      /\ consumed' = Consumed(caps, ahead)
      /\ IF Exceeds(caps, ahead) \/ got > m
         THEN outcome' = "refused" /\ UNCHANGED <<left, caps, buffered, isCapped, tripped>>
         ELSE /\ left' = got /\ caps' = {} /\ tripped' = FALSE
              /\ buffered' = TRUE /\ isCapped' = FALSE
              /\ UNCHANGED outcome
      /\ UNCHANGED <<size, copied, seen>>

\* Context.Copy, used from here on.
Copy ==
  /\ ~copied /\ outcome # "refused"
  /\ copied' = TRUE /\ isCapped' = FALSE
  /\ UNCHANGED <<size, left, caps, tripped, buffered, consumed, seen, bounds, outcome>>

BodyCapNext ==
  \/ \E n \in 1 .. MaxInt : BindBody(n)
  \/ \E m \in Limits : BodyLimit(m)
  \/ Copy

BodyCapSpec == BodyCapInit /\ [][BodyCapNext]_bodyCapVars

-----------------------------------------------------------------------------
\* Whatever middlewares and binders read the body, in parts or whole, before or after a
\* BodyLimit: what is read to the end is all of the body, a body is refused only over one of
\* the limits that applied, and no more is taken from the connection than the first limit
\* and the byte that tells it is exceeded.  A BodyLimit of the largest int64 empties the
\* body, and a Copy puts the default cap over whatever applied; both are left out.
BodyBounded ==
  /\ outcome = "whole" /\ MaxInt \notin Range(bounds) => seen = size
  /\ outcome = "refused" /\ ~copied => \E b \in Range(bounds) : size > b
  /\ bounds # <<>> => consumed <= bounds[1] + 1
=============================================================================
