------------------------- MODULE ClientRetryProofs -------------------------
(***************************************************************************)
(* Theorems about ClientRetry for any calls, requests and policies, and    *)
(* any number of connections.                                              *)
(***************************************************************************)
EXTENDS ClientRetry, TLAPS

\* A call holds a connection from the start of an attempt to its failure, or
\* to the closing of its response.
Holding(c) ==
  /\ resp[c] # "none" => pc[c] \in {"judge", "drain", "read", "done"}
  /\ pc[c] \in {"drain", "read"} => resp[c] # "none"
  /\ held[c] = IF \/ pc[c] \in {"sending", "served", "drain", "read"}
                  \/ pc[c] = "judge" /\ resp[c] # "none"
               THEN 1 ELSE 0

Whole(c, s) == \A i \in 1..Len(s) : s[i] = setting[c].chunks

\* The body is whole before an attempt, in two parts during one.
Bodies(c) ==
  /\ pc[c] \in {"idle", "buffer", "send", "backoff"} =>
       unread[c] = setting[c].chunks
  /\ pc[c] = "sending" => received[c] + unread[c] = setting[c].chunks
  /\ Whole(c, effects[c])
  /\ Whole(c, orphans[c])

\* What the server carried out, or still may, came from an attempt each.
Counted(c) ==
  /\ attempt[c] <= Limit(c)
  /\ pc[c] = "drain" => attempt[c] < Limit(c)
  /\ Len(effects[c]) + Len(orphans[c]) <=
       IF pc[c] \in {"idle", "buffer", "send", "sending", "backoff"}
       THEN attempt[c] - 1 ELSE attempt[c]

\* While the loop runs, every outcome so far was to be retried.
Judged(c) ==
  LET n == Len(outcomes[c])
  IN /\ result[c] = "none" <=> pc[c] # "done"
     /\ \A i \in 1..n - 1 : Retryable(c, outcomes[c][i])
     /\ pc[c] \notin {"read", "done"} /\ n > 0 => Retryable(c, outcomes[c][n])
     /\ pc[c] \in {"drain", "backoff", "read"} => n > 0
     /\ pc[c] = "read" => outcomes[c][n] = resp[c]
     /\ result[c] \in Outcomes => n > 0 /\ outcomes[c][n] = result[c]
     /\ result[c] = "cancelled" => n > 0 /\ Retryable(c, outcomes[c][n])

CallInv(c) == Holding(c) /\ Bodies(c) /\ Counted(c) /\ Judged(c)

CallsInv == TypeOK /\ \A c \in Calls : CallInv(c)

-----------------------------------------------------------------------------
(* The policy.                                                             *)

LEMMA LimitType ==
  ASSUME TypeOK, NEW c \in Calls
  PROVE  /\ Limit(c) \in Nat \ {0}
         /\ Limit(c) = Allowed(c)
         /\ setting[c].chunks \in Nat
<1>1. setting[c] \in Settings
  BY DEF TypeOK
<1>2. /\ setting[c].maxAttempts \in Nat /\ setting[c].chunks \in Nat
      /\ setting[c].idempotent \in BOOLEAN /\ setting[c].key \in BOOLEAN
      /\ setting[c].retryNonIdempotent \in BOOLEAN
  BY <1>1, ClientAssumption
<1>3. QED
  BY <1>2 DEF Limit, Allowed, Retries, Enabled, CanRetry

LEMMA Retried ==
  ASSUME NEW c \in Calls, NEW o \in Outcomes, ShouldRetry(c, o)
  PROVE  Retryable(c, o)
BY DEF ShouldRetry, Retryable

LEMMA Words ==
  ASSUME NEW s \in Statuses
  PROVE  s \notin {"none", "error", "cancelled", "unsent", "unread"}
BY ClientAssumption

LEMMA OutcomeType ==
  ASSUME TypeOK, NEW c \in Calls
  PROVE  Outcome(c) \in Outcomes
BY DEF TypeOK, Outcome, Outcomes

-----------------------------------------------------------------------------
(* A step of one call leaves the others alone.                             *)
LEMMA Frame ==
  ASSUME TypeOK, NEW c \in Calls, CallStep(c), NEW d \in Calls, d # c,
         CallInv(d)
  PROVE  CallInv(d)'
<1>1. setting' = setting
  BY DEF CallStep, Serve, Loop, Do, BufferBody, Connect, SendChunk, Execute,
         Respond, AttemptFails, LateExecute, GiveUp, TryAgain, Drain,
         BackoffEnds, BackoffInterrupted, ReadResponse, Cancel
<1>2. /\ pc'[d] = pc[d] /\ attempt'[d] = attempt[d] /\ unread'[d] = unread[d]
      /\ received'[d] = received[d] /\ resp'[d] = resp[d]
      /\ held'[d] = held[d] /\ result'[d] = result[d]
      /\ outcomes'[d] = outcomes[d] /\ effects'[d] = effects[d]
      /\ orphans'[d] = orphans[d]
  <2> USE DEF TypeOK, Goes, Returns, Releases, KeepConnection, NextAttempt,
              transport, server
  <2>1. CASE Do(c) \/ BufferBody(c) \/ Cancel(c) \/ BackoffEnds(c)
    BY <2>1 DEF Do, BufferBody, Cancel, BackoffEnds
  <2>2. CASE Connect(c) \/ AttemptFails(c)
    <3>1. CASE Connect(c)
      BY <3>1, SMTT(30) DEF Connect
    <3>2. CASE AttemptFails(c)
      BY <3>2, SMTT(30) DEF AttemptFails
    <3> QED BY <2>2, <3>1, <3>2
  <2>3. CASE Serve(c)
    <3>1. CASE SendChunk(c) \/ Execute(c)
      BY <3>1, SMTT(30) DEF SendChunk, Execute
    <3>2. CASE Respond(c)
      BY <3>2, SMTT(30) DEF Respond
    <3>3. CASE LateExecute(c)
      BY <3>3, SMTT(30) DEF LateExecute
    <3> QED BY <2>3, <3>1, <3>2, <3>3 DEF Serve
  <2>4. CASE GiveUp(c) \/ TryAgain(c)
    BY <2>4, SMTT(30) DEF GiveUp, TryAgain
  <2>5. CASE Drain(c) \/ BackoffInterrupted(c) \/ ReadResponse(c)
    BY <2>5, SMTT(30) DEF Drain, BackoffInterrupted, ReadResponse
  <2>6. QED
    BY <2>1, <2>2, <2>3, <2>4, <2>5 DEF CallStep, Loop
<1>3. Holding(d)' /\ Bodies(d)'
  BY <1>1, <1>2 DEF CallInv, Holding, Bodies, Whole
<1>4. Counted(d)'
  BY <1>1, <1>2 DEF CallInv, Counted, Limit, Retries, Enabled, CanRetry
<1>5. Judged(d)'
  BY <1>1, <1>2 DEF CallInv, Judged, Retryable
<1>6. QED
  BY <1>3, <1>4, <1>5 DEF CallInv

-----------------------------------------------------------------------------
(* The call that moves.                                                    *)
LEMMA TypeStep ==
  ASSUME TypeOK, NEW c \in Calls, Holding(c), CallStep(c)
  PROVE  TypeOK'
<1> USE DEF TypeOK, transport, server
<1>1. CASE Do(c) \/ BufferBody(c) \/ Cancel(c) \/ BackoffEnds(c)
  BY <1>1 DEF Do, BufferBody, Cancel, BackoffEnds, Goes, Returns, Stages,
              Errors
<1>2. CASE Connect(c)
  BY <1>2 DEF Connect, Goes, Stages
<1>3. CASE SendChunk(c)
  <2>1. unread' \in [Calls -> Nat] /\ received' \in [Calls -> Nat]
    BY <1>3 DEF SendChunk
  <2>2. QED
    BY <1>3, <2>1 DEF SendChunk
<1>4. CASE Execute(c)
  <2>1. Append(effects[c], received[c]) \in Seq(Nat)
    OBVIOUS
  <2>2. effects' \in [Calls -> Seq(Nat)]
    BY <1>4, <2>1 DEF Execute
  <2>3. pc' \in [Calls -> Stages]
    BY <1>4 DEF Execute, Goes, Stages
  <2>4. QED
    BY <1>4, <2>2, <2>3 DEF Execute
<1>5. CASE Respond(c)
  <2>1. resp' \in [Calls -> Statuses \cup {"none"}]
    BY <1>5 DEF Respond
  <2>2. pc' \in [Calls -> Stages]
    BY <1>5 DEF Respond, Goes, Stages
  <2>3. QED
    BY <1>5, <2>1, <2>2 DEF Respond
<1>6. CASE LateExecute(c)
  <2>1. /\ Head(orphans[c]) \in Nat /\ Tail(orphans[c]) \in Seq(Nat)
        /\ Append(effects[c], Head(orphans[c])) \in Seq(Nat)
    BY <1>6 DEF LateExecute
  <2>2. effects' \in [Calls -> Seq(Nat)] /\ orphans' \in [Calls -> Seq(Nat)]
    BY <1>6, <2>1 DEF LateExecute
  <2>3. QED
    BY <1>6, <2>2 DEF LateExecute
<1>7. CASE AttemptFails(c)
  <2>1. free' \in Nat /\ held' \in [Calls -> Nat]
    <3>1. CASE KeepConnection
      BY <3>1 DEF KeepConnection
    <3>2. CASE pc[c] \in {"sending", "served"} /\ Releases(c)
      <4>1. held[c] = 1
        BY <3>2 DEF Holding
      <4>2. QED
        BY <3>2, <4>1 DEF Releases
    <3>3. QED
      BY <1>7, <3>1, <3>2 DEF AttemptFails
  <2>2. Append(orphans[c], received[c]) \in Seq(Nat)
    OBVIOUS
  <2>3. orphans' \in [Calls -> Seq(Nat)]
    <3>1. CASE UNCHANGED orphans
      BY <3>1
    <3>2. CASE orphans' = [orphans EXCEPT ![c] = Append(@, received[c])]
      BY <3>2, <2>2
    <3>3. QED
      BY <1>7, <3>1, <3>2 DEF AttemptFails
  <2>4. pc' \in [Calls -> Stages]
    BY <1>7 DEF AttemptFails, Goes, Stages
  <2>5. QED
    BY <1>7, <2>1, <2>3, <2>4 DEF AttemptFails
<1>8. CASE GiveUp(c)
  <2>1. outcomes' \in [Calls -> Seq(Outcomes)]
    <3>1. Append(outcomes[c], Outcome(c)) \in Seq(Outcomes)
      BY OutcomeType
    <3>2. QED
      BY <1>8, <3>1 DEF GiveUp
  <2>2. pc' \in [Calls -> Stages]
    <3>1. \E stage \in Stages : pc' = [pc EXCEPT ![c] = stage]
      BY <1>8 DEF GiveUp, Goes, Returns, Stages
    <3>2. QED
      BY <3>1
  <2>3. result' \in [Calls -> Statuses \cup Errors \cup {"none"}]
    BY <1>8 DEF GiveUp, Returns, Errors
  <2>4. QED
    BY <1>8, <2>1, <2>2, <2>3 DEF GiveUp
<1>9. CASE TryAgain(c)
  <2>1. outcomes' \in [Calls -> Seq(Outcomes)]
    <3>1. Append(outcomes[c], Outcome(c)) \in Seq(Outcomes)
      BY OutcomeType
    <3>2. QED
      BY <1>9, <3>1 DEF TryAgain
  <2>2. /\ attempt' \in [Calls -> Nat \ {0}] /\ unread' \in [Calls -> Nat]
        /\ resp' \in [Calls -> Statuses \cup {"none"}]
    <3>1. setting[c].chunks \in Nat
      BY LimitType
    <3>2. attempt[c] + 1 \in Nat \ {0}
      OBVIOUS
    <3>3. CASE NextAttempt(c)
      BY <3>1, <3>2, <3>3 DEF NextAttempt
    <3>4. QED
      BY <1>9, <3>3 DEF TryAgain
  <2>3. pc' \in [Calls -> Stages]
    <3>1. \E stage \in Stages : pc' = [pc EXCEPT ![c] = stage]
      BY <1>9 DEF TryAgain, NextAttempt, Goes, Stages
    <3>2. QED
      BY <3>1
  <2>4. QED
    BY <1>9, <2>1, <2>2, <2>3 DEF TryAgain
<1>10. CASE Drain(c)
  <2>1. /\ attempt' \in [Calls -> Nat \ {0}] /\ unread' \in [Calls -> Nat]
        /\ resp' \in [Calls -> Statuses \cup {"none"}]
    <3>1. setting[c].chunks \in Nat
      BY LimitType
    <3>2. attempt[c] + 1 \in Nat \ {0}
      OBVIOUS
    <3>3. CASE NextAttempt(c)
      BY <3>1, <3>2, <3>3 DEF NextAttempt
    <3>4. QED
      BY <1>10, <3>3 DEF Drain
  <2>2. pc' \in [Calls -> Stages]
    BY <1>10 DEF Drain, NextAttempt, Goes, Stages
  <2>3. free' \in Nat /\ held' \in [Calls -> Nat]
    BY <1>10 DEF Drain, Releases, Holding
  <2>4. QED
    BY <1>10, <2>1, <2>2, <2>3 DEF Drain
<1>11. CASE BackoffInterrupted(c)
  BY <1>11 DEF BackoffInterrupted, Goes, Returns, Stages, Errors
<1>12. CASE ReadResponse(c)
  <2>1. free' \in Nat /\ held' \in [Calls -> Nat]
    BY <1>12 DEF ReadResponse, Releases, Holding
  <2>2. pc' \in [Calls -> Stages]
    BY <1>12 DEF ReadResponse, Goes, Returns, Stages
  <2>3. result' \in [Calls -> Statuses \cup Errors \cup {"none"}]
    BY <1>12 DEF ReadResponse, Returns, Errors
  <2>4. QED
    BY <1>12, <2>1, <2>2, <2>3 DEF ReadResponse
<1>13. QED
  BY <1>1, <1>2, <1>3, <1>4, <1>5, <1>6, <1>7, <1>8, <1>9, <1>10, <1>11,
     <1>12 DEF CallStep, Serve, Loop

LEMMA HoldingStep ==
  ASSUME TypeOK, NEW c \in Calls, Holding(c), CallStep(c)
  PROVE  Holding(c)'
<1> USE DEF TypeOK, Holding, transport, Goes
<1>1. CASE Do(c) \/ BufferBody(c) \/ Cancel(c) \/ BackoffEnds(c)
  BY <1>1 DEF Do, BufferBody, Cancel, BackoffEnds, Returns
<1>2. CASE Connect(c) \/ SendChunk(c) \/ Execute(c) \/ LateExecute(c)
  BY <1>2 DEF Connect, SendChunk, Execute, LateExecute
<1>3. CASE Respond(c)
  BY <1>3, Words DEF Respond
<1>4. CASE AttemptFails(c)
  BY <1>4 DEF AttemptFails, KeepConnection, Releases
<1>5. CASE GiveUp(c)
  BY <1>5 DEF GiveUp, Returns
<1>6. CASE TryAgain(c)
  BY <1>6 DEF TryAgain, NextAttempt
<1>7. CASE Drain(c)
  BY <1>7 DEF Drain, NextAttempt, Releases
<1>8. CASE BackoffInterrupted(c) \/ ReadResponse(c)
  BY <1>8 DEF BackoffInterrupted, ReadResponse, Returns, Releases
<1>9. QED
  BY <1>1, <1>2, <1>3, <1>4, <1>5, <1>6, <1>7, <1>8 DEF CallStep, Serve, Loop

\* A whole body appended to whole bodies.
LEMMA AppendWhole ==
  ASSUME NEW k, NEW s \in Seq(Nat), NEW n \in Nat, n = k, \A i \in 1..Len(s) : s[i] = k
  PROVE  \A i \in 1..Len(Append(s, n)) : Append(s, n)[i] = k
  OBVIOUS

LEMMA BodiesStep ==
  ASSUME TypeOK, NEW c \in Calls, Bodies(c), CallStep(c)
  PROVE  Bodies(c)'
<1>1. setting[c].chunks \in Nat
  BY LimitType
<1> USE <1>1 DEF TypeOK, Bodies, Whole, server, Goes
<1>2. CASE Do(c) \/ BufferBody(c) \/ Cancel(c) \/ BackoffEnds(c)
  BY <1>2 DEF Do, BufferBody, Cancel, BackoffEnds, Returns
<1>3. CASE Connect(c)
  BY <1>3 DEF Connect
<1>4. CASE SendChunk(c)
  BY <1>4 DEF SendChunk
<1>5. CASE Execute(c)
  <2>1. received[c] = setting[c].chunks
    BY <1>5 DEF Execute
  <2>2. effects'[c] = Append(effects[c], received[c])
    BY <1>5 DEF Execute
  <2>3. \A i \in 1..Len(effects'[c]) : effects'[c][i] = setting[c].chunks
    <3>1. effects[c] \in Seq(Nat) /\ \A i \in 1..Len(effects[c]) : effects[c][i] = setting[c].chunks
      OBVIOUS
    <3> HIDE DEF TypeOK, Bodies, Whole, server, Goes
    <3> QED BY <1>1, <2>1, <2>2, <3>1, AppendWhole
  <2>4. QED
    BY <1>5, <2>3 DEF Execute
<1>6. CASE Respond(c)
  BY <1>6 DEF Respond
<1>7. CASE LateExecute(c)
  BY <1>7, SMTT(30) DEF LateExecute
<1>8. CASE AttemptFails(c)
  <2>1. \/ orphans'[c] = orphans[c]
        \/ /\ received[c] = setting[c].chunks
           /\ orphans'[c] = Append(orphans[c], received[c])
    BY <1>8 DEF AttemptFails
  <2>2. \A i \in 1..Len(orphans'[c]) : orphans'[c][i] = setting[c].chunks
    <3>1. orphans[c] \in Seq(Nat) /\ \A i \in 1..Len(orphans[c]) : orphans[c][i] = setting[c].chunks
      OBVIOUS
    <3> HIDE DEF TypeOK, Bodies, Whole, server, Goes
    <3> QED BY <1>1, <2>1, <3>1, AppendWhole
  <2>3. pc'[c] = "judge" /\ UNCHANGED <<setting, unread, received, effects>>
    BY <1>8 DEF AttemptFails
  <2>4. QED
    BY <2>2, <2>3
<1>9. CASE GiveUp(c)
  BY <1>9 DEF GiveUp, Returns
<1>10. CASE TryAgain(c)
  BY <1>10 DEF TryAgain, NextAttempt
<1>11. CASE Drain(c)
  BY <1>11 DEF Drain, NextAttempt
<1>12. CASE BackoffInterrupted(c) \/ ReadResponse(c)
  BY <1>12 DEF BackoffInterrupted, ReadResponse, Returns
<1>13. QED
  BY <1>2, <1>3, <1>4, <1>5, <1>6, <1>7, <1>8, <1>9, <1>10, <1>11, <1>12
     DEF CallStep, Serve, Loop

LEMMA CountedStep ==
  ASSUME TypeOK, NEW c \in Calls, Counted(c), CallStep(c)
  PROVE  Counted(c)'
<1>1. setting' = setting
  BY DEF CallStep, Serve, Loop, Do, BufferBody, Connect, SendChunk, Execute,
         Respond, AttemptFails, LateExecute, GiveUp, TryAgain, Drain,
         BackoffEnds, BackoffInterrupted, ReadResponse, Cancel
<1>2. Limit(c)' = Limit(c) /\ Limit(c) \in Nat \ {0}
  BY <1>1, LimitType DEF Limit, Retries, Enabled, CanRetry
<1>3. Len(effects[c]) \in Nat /\ Len(orphans[c]) \in Nat
  BY DEF TypeOK
<1> USE <1>2, <1>3 DEF TypeOK, Counted, server, Goes
<1>4. CASE Do(c) \/ BufferBody(c) \/ Cancel(c) \/ BackoffEnds(c)
  <2>1. UNCHANGED <<attempt, effects, orphans>>
    BY <1>4 DEF Do, BufferBody, Cancel, BackoffEnds
  <2>2. \/ pc'[c] = pc[c]
        \/ pc'[c] \in {"buffer", "send"}
        \/ pc'[c] = "done"
    BY <1>4 DEF Do, BufferBody, Cancel, BackoffEnds, Returns
  <2>3. pc'[c] # pc[c] => pc[c] \in {"idle", "buffer", "backoff"}
    BY <1>4 DEF Do, BufferBody, Cancel, BackoffEnds
  <2>4. QED
    BY <2>1, <2>2, <2>3
<1>5. CASE Connect(c) \/ SendChunk(c)
  BY <1>5 DEF Connect, SendChunk
<1>6. CASE Execute(c)
  <2>1. Len(effects'[c]) = Len(effects[c]) + 1
    BY <1>6 DEF Execute
  <2>2. QED
    BY <1>6, <2>1 DEF Execute
<1>7. CASE Respond(c)
  BY <1>7 DEF Respond
<1>8. CASE LateExecute(c)
  <2>1. /\ Len(effects'[c]) = Len(effects[c]) + 1
        /\ Len(orphans'[c]) = Len(orphans[c]) - 1
    BY <1>8 DEF LateExecute
  <2>2. QED
    BY <1>8, <2>1 DEF LateExecute
<1>9. CASE AttemptFails(c)
  <2>1. \/ orphans'[c] = orphans[c]
        \/ /\ pc[c] = "sending"
           /\ Len(orphans'[c]) = Len(orphans[c]) + 1
    BY <1>9 DEF AttemptFails
  <2>2. QED
    BY <1>9, <2>1 DEF AttemptFails
<1>10. CASE GiveUp(c)
  BY <1>10 DEF GiveUp, Returns
<1>11. CASE TryAgain(c)
  <2>1. attempt[c] < Limit(c)
    BY <1>11 DEF TryAgain, Last
  <2>2. QED
    BY <1>11, <2>1 DEF TryAgain, NextAttempt
<1>12. CASE Drain(c)
  BY <1>12 DEF Drain, NextAttempt
<1>13. CASE BackoffInterrupted(c) \/ ReadResponse(c)
  <2>1. UNCHANGED <<attempt, effects, orphans>> /\ pc'[c] = "done"
    BY <1>13 DEF BackoffInterrupted, ReadResponse, Returns
  <2>2. QED
    BY <2>1
<1>14. QED
  BY <1>4, <1>5, <1>6, <1>7, <1>8, <1>9, <1>10, <1>11, <1>12, <1>13
     DEF CallStep, Serve, Loop

LEMMA JudgedStep ==
  ASSUME TypeOK, NEW c \in Calls, Holding(c), Judged(c), CallStep(c)
  PROVE  Judged(c)'
<1> DEFINE n == Len(outcomes[c])
<1>1. /\ n \in Nat
      /\ \A o \in Outcomes :
           /\ Append(outcomes[c], o) \in Seq(Outcomes)
           /\ Len(Append(outcomes[c], o)) = n + 1
           /\ Append(outcomes[c], o)[n + 1] = o
           /\ \A i \in 1..n : Append(outcomes[c], o)[i] = outcomes[c][i]
  BY DEF TypeOK
<1>2. setting' = setting
  BY DEF CallStep, Serve, Loop, Do, BufferBody, Connect, SendChunk, Execute,
         Respond, AttemptFails, LateExecute, GiveUp, TryAgain, Drain,
         BackoffEnds, BackoffInterrupted, ReadResponse, Cancel
<1>3. CASE UNCHANGED <<pc, resp, outcomes, result>>
  BY <1>2, <1>3 DEF Judged, Retryable
<1>4. ASSUME UNCHANGED <<outcomes, result>>,
             pc[c] \notin {"read", "done"}, pc'[c] \notin {"read", "done"},
             pc'[c] \in {"drain", "backoff"} => pc[c] \in {"drain", "backoff"}
      PROVE  Judged(c)'
  BY <1>2, <1>4 DEF Judged, Retryable
<1>5. CASE Cancel(c) \/ SendChunk(c) \/ LateExecute(c)
  BY <1>3, <1>5 DEF Cancel, SendChunk, LateExecute
<1>6. CASE Do(c) \/ BackoffEnds(c) \/ Connect(c)
  BY <1>4, <1>6 DEF Do, BackoffEnds, Connect, Goes, TypeOK
<1>7. CASE Execute(c) \/ Respond(c) \/ AttemptFails(c)
  BY <1>4, <1>7 DEF Execute, Respond, AttemptFails, Goes, TypeOK
<1>8. CASE BufferBody(c)
  <2>1. CASE Goes(c, "send") /\ UNCHANGED result
    BY <1>4, <1>8, <2>1 DEF BufferBody, Goes, TypeOK
  <2>2. CASE Returns(c, "unsent")
    <3>1. /\ pc'[c] = "done" /\ result'[c] = "unsent"
          /\ UNCHANGED outcomes /\ pc[c] = "buffer"
      BY <1>8, <2>2 DEF BufferBody, Goes, Returns, TypeOK
    <3>2. "unsent" \notin Outcomes
      BY ClientAssumption DEF Outcomes
    <3>3. QED
      BY <1>2, <3>1, <3>2 DEF Judged, Retryable
  <2>3. QED
    BY <1>8, <2>1, <2>2 DEF BufferBody
<1>9. CASE GiveUp(c)
  <2>1. /\ pc[c] = "judge" /\ Outcome(c) \in Outcomes
        /\ outcomes'[c] = Append(outcomes[c], Outcome(c))
        /\ resp'[c] = resp[c]
    BY <1>9, OutcomeType DEF GiveUp, TypeOK
  <2>2. \A i \in 1..n : Retryable(c, outcomes[c][i])
    BY <1>1, <2>1 DEF Judged
  <2>3. /\ Len(outcomes'[c]) = n + 1
        /\ outcomes'[c][n + 1] = Outcome(c)
        /\ \A i \in 1..n : Retryable(c, outcomes'[c][i])
    BY <1>1, <1>2, <2>1, <2>2
  <2>4. CASE resp[c] = "none"
    <3>1. pc'[c] = "done" /\ result'[c] = "error" /\ Outcome(c) = "error"
      BY <1>9, <2>4 DEF GiveUp, Returns, Goes, Outcome, TypeOK
    <3>2. QED
      BY <1>1, <1>2, <2>3, <3>1 DEF Judged, Retryable
  <2>5. CASE resp[c] # "none"
    <3>1. /\ pc'[c] = "read" /\ result'[c] = result[c]
          /\ Outcome(c) = resp[c] /\ result[c] = "none"
      BY <1>9, <2>5 DEF GiveUp, Goes, Outcome, TypeOK, Judged
    <3>2. "none" \notin Outcomes
      BY ClientAssumption DEF Outcomes
    <3>3. QED
      BY <1>1, <1>2, <2>1, <2>3, <3>1, <3>2 DEF Judged, Retryable
  <2>6. QED
    BY <2>4, <2>5
<1>10. CASE TryAgain(c)
  <2>1. /\ pc[c] = "judge" /\ Outcome(c) \in Outcomes
        /\ Retryable(c, Outcome(c))
        /\ outcomes'[c] = Append(outcomes[c], Outcome(c))
        /\ result'[c] = result[c] /\ result[c] = "none"
    BY <1>10, OutcomeType, Retried DEF TryAgain, Last, TypeOK, Judged
  <2>2. pc'[c] \in {"drain", "backoff", "send"}
    BY <1>10 DEF TryAgain, NextAttempt, Goes, TypeOK
  <2>3. \A i \in 1..n : Retryable(c, outcomes[c][i])
    BY <1>1, <2>1 DEF Judged
  <2>4. /\ Len(outcomes'[c]) = n + 1
        /\ \A i \in 1..n + 1 : Retryable(c, outcomes'[c][i])
    BY <1>1, <1>2, <2>1, <2>3
  <2>5. "none" \notin Outcomes
    BY ClientAssumption DEF Outcomes
  <2>6. QED
    BY <1>1, <1>2, <2>1, <2>2, <2>4, <2>5 DEF Judged, Retryable
<1>11. CASE Drain(c)
  BY <1>4, <1>11 DEF Drain, NextAttempt, Goes, TypeOK
<1>12. CASE BackoffInterrupted(c)
  <2>1. /\ pc[c] = "backoff" /\ pc'[c] = "done" /\ result'[c] = "cancelled"
        /\ UNCHANGED outcomes
    BY <1>12 DEF BackoffInterrupted, Returns, Goes, TypeOK
  <2>2. "cancelled" \notin Outcomes
    BY ClientAssumption DEF Outcomes
  <2>3. QED
    BY <1>2, <2>1, <2>2 DEF Judged, Retryable
<1>13. CASE ReadResponse(c)
  <2>1. /\ pc[c] = "read" /\ pc'[c] = "done" /\ UNCHANGED outcomes
        /\ result'[c] \in {resp[c], "unread"} /\ resp[c] \in Statuses
    BY <1>13 DEF ReadResponse, Returns, Goes, TypeOK, Holding
  <2>2. /\ resp[c] \notin {"none", "cancelled"}
        /\ "unread" \notin Outcomes
    BY <2>1, ClientAssumption DEF Outcomes
  <2>3. QED
    BY <1>2, <2>1, <2>2 DEF Judged, Retryable
<1>14. QED
  BY <1>5, <1>6, <1>7, <1>8, <1>9, <1>10, <1>11, <1>12, <1>13
     DEF CallStep, Serve, Loop

-----------------------------------------------------------------------------
LEMMA InitCalls == Init => CallsInv
<1> SUFFICES ASSUME Init PROVE CallsInv
  OBVIOUS
<1>1. \A s \in Settings : s.chunks \in Nat
  BY ClientAssumption
<1>2. TypeOK
  BY <1>1, ClientAssumption DEF Init, TypeOK, Stages, Errors
<1>3. ASSUME NEW c \in Calls PROVE CallInv(c)
  <2>1. /\ pc[c] = "idle" /\ attempt[c] = 1 /\ held[c] = 0
        /\ unread[c] = setting[c].chunks /\ resp[c] = "none"
        /\ result[c] = "none" /\ outcomes[c] = <<>>
        /\ effects[c] = <<>> /\ orphans[c] = <<>>
    BY DEF Init
  <2>2. "none" \notin Outcomes
    BY ClientAssumption DEF Outcomes
  <2>3. Limit(c) \in Nat \ {0}
    BY <1>2, LimitType
  <2>4. Holding(c) /\ Bodies(c)
    BY <2>1 DEF Holding, Bodies, Whole
  <2>5. Counted(c)
    BY <2>1, <2>3 DEF Counted
  <2>6. Judged(c)
    BY <2>1, <2>2 DEF Judged
  <2>7. QED
    BY <2>4, <2>5, <2>6 DEF CallInv
<1>4. QED
  BY <1>2, <1>3 DEF CallsInv

LEMMA CallsStep == CallsInv /\ [Next]_vars => CallsInv'
<1> SUFFICES ASSUME CallsInv, [Next]_vars PROVE CallsInv'
  OBVIOUS
<1>1. TypeOK /\ \A c \in Calls : CallInv(c)
  BY DEF CallsInv
<1>2. CASE UNCHANGED vars
  <2>1. TypeOK'
    BY <1>1, <1>2 DEF vars, transport, server, TypeOK
  <2>2. ASSUME NEW c \in Calls PROVE CallInv(c)'
    <3>1. UNCHANGED <<setting, pc, attempt, unread, received, resp, held,
                      result, outcomes, effects, orphans>>
      BY <1>2 DEF vars, transport, server
    <3>2. Holding(c)' /\ Bodies(c)'
      BY <1>1, <3>1 DEF CallInv, Holding, Bodies, Whole
    <3>3. Counted(c)'
      BY <1>1, <3>1 DEF CallInv, Counted, Limit, Retries, Enabled, CanRetry
    <3>4. Judged(c)'
      BY <1>1, <3>1 DEF CallInv, Judged, Retryable
    <3>5. QED
      BY <3>2, <3>3, <3>4 DEF CallInv
  <2>3. QED
    BY <2>1, <2>2 DEF CallsInv
<1>3. ASSUME NEW c \in Calls, CallStep(c) PROVE CallsInv'
  <2>1. Holding(c) /\ Bodies(c) /\ Counted(c) /\ Judged(c)
    BY <1>1 DEF CallInv
  <2>2. CallInv(c)'
    BY <1>1, <1>3, <2>1, HoldingStep, BodiesStep, CountedStep, JudgedStep
       DEF CallInv
  <2>3. TypeOK'
    BY <1>1, <1>3, <2>1, TypeStep
  <2>4. ASSUME NEW d \in Calls, d # c PROVE CallInv(d)'
    BY <1>1, <1>3, <2>4, Frame
  <2>5. QED
    BY <2>2, <2>3, <2>4 DEF CallsInv
<1>4. QED
  BY <1>2, <1>3 DEF Next

LEMMA CallsInvariant == Spec => []CallsInv
BY InitCalls, CallsStep, PTL DEF Spec

(* Every variable has its type.                                            *)
THEOREM TypeCorrect == Spec => []TypeOK
<1>1. CallsInv => TypeOK
  BY DEF CallsInv
<1>2. QED
  BY <1>1, CallsInvariant, PTL

(* Whatever attempts failed before, and wherever in the body, the server   *)
(* only carries out requests with the caller's whole body; a call that     *)
(* waits holds no connection; and a call returns the first outcome its     *)
(* policy accepts.                                                         *)
THEOREM CallsCorrect ==
  Spec => [](WholeBody /\ WaitsEmptyHanded /\ StopsAtAcceptable)
<1>1. ASSUME CallsInv
      PROVE  WholeBody /\ WaitsEmptyHanded /\ StopsAtAcceptable
  <2>1. \A c \in Calls : Holding(c) /\ Bodies(c) /\ Judged(c)
    BY <1>1 DEF CallsInv, CallInv
  <2>2. WholeBody
    BY <2>1 DEF WholeBody, Bodies, Whole
  <2>3. WaitsEmptyHanded
    <3>1. ASSUME NEW c \in Calls, pc[c] \in {"send", "backoff", "done"}
          PROVE  held[c] = 0
      BY <2>1, <3>1 DEF Holding
    <3>2. QED
      BY <3>1 DEF WaitsEmptyHanded
  <2>4. StopsAtAcceptable
    BY <2>1 DEF StopsAtAcceptable, Judged
  <2>5. QED
    BY <2>2, <2>3, <2>4
<1>2. QED
  BY <1>1, CallsInvariant, PTL

(* A call that waits, for a connection or in a backoff, holds none.        *)
THEOREM NoHoldAndWait == Spec => []WaitsEmptyHanded
  BY CallsCorrect, PTL

(* A call returns the first outcome its policy accepts.                    *)
THEOREM FirstAcceptableReturned == Spec => []StopsAtAcceptable
  BY CallsCorrect, PTL

-----------------------------------------------------------------------------
(* The contract: each step is a step of Delivery, or changes nothing there. *)
Promise == <<[c \in Calls |-> Allowed(c)], [c \in Calls |-> Len(effects[c])],
             resp, result>>

LEMMA ContractInit == Init => Contract!Init
<1> SUFFICES ASSUME Init PROVE Contract!Init
  OBVIOUS
<1>1. \A c \in Calls : Allowed(c) \in Nat \ {0}
  BY InitCalls, LimitType DEF CallsInv
<1>2. [c \in Calls |-> Len(effects[c])] = [c \in Calls |-> 0]
  BY DEF Init
<1>3. QED
  BY <1>1, <1>2 DEF Init, Contract!Init

LEMMA ContractStep ==
  CallsInv /\ CallsInv' /\ [Next]_vars => [Contract!Next]_Promise
<1> SUFFICES ASSUME CallsInv, CallsInv', [Next]_vars
             PROVE  [Contract!Next]_Promise
  OBVIOUS
<1> DEFINE allow == [c \in Calls |-> Allowed(c)]
           eff == [c \in Calls |-> Len(effects[c])]
<1>1. setting' = setting
  BY DEF Next, vars, CallStep, Serve, Loop, Do, BufferBody, Connect,
         SendChunk, Execute, Respond, AttemptFails, LateExecute, GiveUp,
         TryAgain, Drain, BackoffEnds, BackoffInterrupted, ReadResponse,
         Cancel
<1>2. allow' = allow
  BY <1>1 DEF Allowed
<1>3. CASE UNCHANGED vars
  BY <1>2, <1>3 DEF vars, server, Promise
<1>4. ASSUME NEW c \in Calls, CallStep(c) PROVE [Contract!Next]_Promise
  <2>1. /\ TypeOK /\ CallInv(c) /\ CallInv(c)' /\ TypeOK'
    BY DEF CallsInv
  <2>2. Limit(c) = Allowed(c) /\ Limit(c) \in Nat
    BY <2>1, LimitType
  <2>3. CASE UNCHANGED <<effects, resp, result>>
    BY <1>2, <2>3 DEF Promise
  <2>4. ASSUME UNCHANGED <<resp, result>>, NEW x \in Nat,
               Len(effects[c]) < Limit(c),
               effects' = [effects EXCEPT ![c] = Append(@, x)]
        PROVE  [Contract!Next]_Promise
    <3>1. Len(effects'[c]) = Len(effects[c]) + 1 /\ Len(effects[c]) \in Nat
      BY <2>1, <2>4 DEF TypeOK
    <3>2. eff[c] < allow[c]
      BY <2>2, <2>4
    <3>3. eff' = [eff EXCEPT ![c] = @ + 1]
      BY <2>1, <2>4, <3>1 DEF TypeOK
    <3>4. Contract!Execute(c)
      BY <1>2, <2>4, <3>2, <3>3 DEF Contract!Execute
    <3>5. QED
      BY <3>4 DEF Contract!Next
  <2>5. ASSUME UNCHANGED <<effects, result>>, pc[c] # "done",
               NEW s \in Statuses \cup {"none"},
               resp' = [resp EXCEPT ![c] = s]
        PROVE  [Contract!Next]_Promise
    <3>1. result[c] = "none" /\ UNCHANGED eff
      BY <2>1, <2>5 DEF CallInv, Judged
    <3>2. CASE s \in Statuses
      BY <1>2, <2>5, <3>1, <3>2 DEF Contract!Reply, Contract!Next
    <3>3. CASE s = "none"
      BY <1>2, <2>5, <3>1, <3>3 DEF Contract!Discard, Contract!Next
    <3>4. QED
      BY <2>5, <3>2, <3>3
  <2>6. ASSUME UNCHANGED <<effects, resp>>, pc[c] # "done",
               NEW r \in Errors \cup ({resp[c]} \ {"none"}),
               result' = [result EXCEPT ![c] = r]
        PROVE  [Contract!Next]_Promise
    <3>1. result[c] = "none" /\ UNCHANGED eff
      BY <2>1, <2>6 DEF CallInv, Judged
    <3>2. Contract!Return(c)
      BY <1>2, <2>6, <3>1 DEF Contract!Return
    <3>3. QED
      BY <3>2 DEF Contract!Next
  <2>7. CASE Do(c) \/ Connect(c) \/ SendChunk(c) \/ AttemptFails(c)
              \/ BackoffEnds(c) \/ Cancel(c)
    BY <2>3, <2>7 DEF Do, Connect, SendChunk, AttemptFails, BackoffEnds,
                      Cancel, server
  <2>8. CASE Execute(c)
    <3>1. Len(effects[c]) < Limit(c)
      BY <2>1, <2>2, <2>8 DEF Execute, CallInv, Counted, TypeOK
    <3>2. received[c] \in Nat
      BY <2>1 DEF TypeOK
    <3>3. QED
      BY <2>4, <2>8, <3>1, <3>2 DEF Execute
  <2>9. CASE LateExecute(c)
    <3>1. Head(orphans[c]) \in Nat
      BY <2>1, <2>9 DEF LateExecute, TypeOK
    <3>2. Len(effects[c]) < Limit(c)
      <4> DEFINE e == Len(effects[c])
                 o == Len(orphans[c])
      <4>1. o > 0 /\ o \in Nat /\ e \in Nat /\ attempt[c] \in Nat
        BY <2>1, <2>9 DEF LateExecute, TypeOK
      <4>2. Counted(c)
        BY <2>1 DEF CallInv
      <4>3. /\ attempt[c] <= Limit(c)
            /\ e + o <= attempt[c] \/ e + o <= attempt[c] - 1
        BY <4>2 DEF Counted
      <4>4. e < Limit(c)
        <5> HIDE DEF e, o
        <5>1. QED
          BY <2>2, <4>1, <4>3
      <4>5. QED
        BY <4>4
    <3>3. QED
      BY <2>4, <2>9, <3>1, <3>2 DEF LateExecute
  <2>10. CASE Respond(c)
    BY <2>5, <2>10 DEF Respond, server
  <2>11. CASE Drain(c)
    BY <2>5, <2>11 DEF Drain, NextAttempt, server
  <2>12. CASE TryAgain(c)
    <3>1. CASE resp[c] = "none"
      BY <2>5, <2>12, <3>1 DEF TryAgain, NextAttempt, server
    <3>2. CASE resp[c] # "none"
      BY <2>3, <2>12, <3>2 DEF TryAgain, server
    <3>3. QED
      BY <3>1, <3>2
  <2>13. CASE BufferBody(c)
    <3>1. "unsent" \in Errors
      BY DEF Errors
    <3>2. QED
      BY <2>3, <2>6, <2>13, <3>1 DEF BufferBody, Returns, server
  <2>14. CASE GiveUp(c)
    <3>1. "error" \in Errors
      BY DEF Errors
    <3>2. QED
      BY <2>3, <2>6, <2>14, <3>1 DEF GiveUp, Returns, server
  <2>15. CASE BackoffInterrupted(c)
    <3>1. "cancelled" \in Errors
      BY DEF Errors
    <3>2. QED
      BY <2>6, <2>15, <3>1 DEF BackoffInterrupted, Returns, server
  <2>16. CASE ReadResponse(c)
    <3>1. "unread" \in Errors /\ resp[c] # "none"
      BY <2>1, <2>16 DEF Errors, ReadResponse, CallInv, Holding
    <3>2. QED
      BY <2>6, <2>16, <3>1 DEF ReadResponse, Returns, server
  <2>17. QED
    BY <1>4, <2>7, <2>8, <2>9, <2>10, <2>11, <2>12, <2>13, <2>14, <2>15,
       <2>16 DEF CallStep, Serve, Loop
<1>5. QED
  BY <1>3, <1>4 DEF Next

(* The client keeps its contract: the server carries a request that must   *)
(* not be repeated out at most once, early or late, any other at most      *)
(* MaxAttempts times, and a status returned answers the last attempt.      *)
THEOREM ClientDelivers == Spec => Delivers
<1>1. Init => Contract!Init
  BY ContractInit
<1>2. CallsInv /\ CallsInv' /\ [Next]_vars => [Contract!Next]_Contract!vars
  BY ContractStep DEF Promise, Contract!vars
<1>3. QED
  BY <1>1, <1>2, CallsInvariant, PTL DEF Spec, Delivers, Contract!Spec
=============================================================================
