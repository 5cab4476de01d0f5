----------------------------- MODULE JwtProofs ------------------------------
(***************************************************************************)
(* Which tokens are enough, for any callers, keys, configurations, sources *)
(* and claims expressions: the cache of a remote key set, the parser of claims *)
(* expressions, and a request before the middleware.                       *)
(***************************************************************************)
EXTENDS JwksCache, JwtAuth, NumberLemmas, TLAPS

-----------------------------------------------------------------------------
(* The cache, for any number of callers and key ids, any TTLs and any      *)
(* cooldown, grace and fetch timeout with FetchTimeout < Cooldown <= Grace. *)

(* Every variable keeps its type.                                          *)
THEOREM TypeCorrect == Spec => []TypeOK
<1> USE JwksAssumption DEF TypeOK, provider, entry, fetches, callers
<1>0. LongAgo \in Int
  BY DEF LongAgo
<1>1. Init => TypeOK
  <2> SUFFICES ASSUME Init PROVE TypeOK
    OBVIOUS
  <2>1. /\ now \in Nat /\ published \in SUBSET Kids
        /\ since \in [Kids -> Int] /\ until \in [Kids -> Int]
    BY <1>0 DEF Init
  <2>2. /\ fetchPc \in [FetchIds -> {"sent", "answered", "done"}]
        /\ fetchAt \in [FetchIds -> Int]
        /\ fetchTtl \in [FetchIds -> Nat]
        /\ reply \in [FetchIds -> SUBSET Kids]
    BY <1>0 DEF Init
  <2>3. QED
    BY <1>0, <2>1, <2>2 DEF Init
<1>2. TypeOK /\ [Next]_vars => TypeOK'
  <2> SUFFICES ASSUME TypeOK, [Next]_vars PROVE TypeOK'
    OBVIOUS
  <2>1. CASE Tick
    BY <2>1 DEF Tick
  <2>2. ASSUME NEW k \in Kids, Publish(k) PROVE TypeOK'
    BY <2>2 DEF Publish
  <2>3. ASSUME NEW k \in Kids, Withdraw(k) PROVE TypeOK'
    BY <2>3 DEF Withdraw
  <2>4. ASSUME NEW f \in FetchIds, FetchAnswered(f) PROVE TypeOK'
    BY <2>4 DEF FetchAnswered
  <2>5. ASSUME NEW f \in FetchIds, FetchDone(f) PROVE TypeOK'
    <3>1. keys' = NoKeys \/ keys' \in SUBSET Kids
      BY <2>5 DEF FetchDone
    <3>2. fetchedAt' \in Int
      BY <2>5 DEF FetchDone
    <3>6. err' \in BOOLEAN
      BY <2>5 DEF FetchDone
    <3>3. /\ fetchPc' \in [FetchIds -> {"sent", "answered", "done"}]
          /\ fetchAt' \in [FetchIds -> Int]
          /\ fetchTtl' \in [FetchIds -> Nat]
          /\ reply' \in [FetchIds -> SUBSET Kids]
      BY <2>5, <1>0 DEF FetchDone
    <3>4. /\ inflight' = NoFetch
          /\ UNCHANGED <<now, lastFetch, published, since, until>>
          /\ UNCHANGED <<pc, kid, callAt, waitOn, answer>>
      BY <2>5 DEF FetchDone
    <3>5. QED
      BY <3>1, <3>2, <3>3, <3>4, <3>6
  <2>6. ASSUME NEW c \in Callers, NEW k \in Kids, Lookup(c, k) PROVE TypeOK'
    BY <2>6 DEF Lookup, StartFetch, KeepFetch, Free, Goes, UseCached, Fail
  <2>7. ASSUME NEW c \in Callers, LookupResumes(c) PROVE TypeOK'
    BY <2>7 DEF LookupResumes, Goes, UseCached, Fail
  <2>8. ASSUME NEW c \in Callers, Refresh(c) PROVE TypeOK'
    BY <2>8 DEF Refresh, StartFetch, KeepFetch, Free, Goes, Refreshed
  <2>9. ASSUME NEW c \in Callers, RefreshResumes(c) PROVE TypeOK'
    BY <2>9 DEF RefreshResumes, Goes, Refreshed
  <2>10. CASE UNCHANGED vars
    BY <2>10 DEF vars
  <2>11. QED
    BY <2>1, <2>2, <2>3, <2>4, <2>5, <2>6, <2>7, <2>8, <2>9, <2>10 DEF Next,
       CallerStep
<1>3. QED
  BY <1>1, <1>2, PTL DEF Spec

-----------------------------------------------------------------------------
(* The inductive invariant, in parts.                                      *)

\* Nothing recorded lies in the future, and a published key is seen now.
Clock ==
  /\ lastFetch <= now /\ fetchedAt <= now
  /\ \A c \in Callers : callAt[c] <= now
  /\ \A k \in Kids : since[k] <= now /\ until[k] <= now
  /\ \A k \in published : until[k] = now

\* A running fetch is the latest one and has not outlived its timeout; an
\* answer holds every key published since before the fetch, and only keys
\* published at some time after its start.
FetchesRunning ==
  \A f \in FetchIds :
    /\ Running(f) => fetchAt[f] = lastFetch /\ now <= lastFetch + FetchTimeout
    /\ fetchPc[f] = "answered" =>
         /\ \A k \in reply[f] : until[k] >= lastFetch
         /\ \A k \in published \ reply[f] : since[k] >= lastFetch

\* The cached set is a snapshot at most one fetch timeout older than
\* fetchedAt.
Snapshot ==
  keys # NoKeys =>
    /\ \A k \in keys : until[k] + FetchTimeout >= fetchedAt
    /\ \A k \in published \ keys : since[k] + FetchTimeout >= fetchedAt

\* While no fetch runs and the latest one did not fail, it is the one that
\* filled the cache (or there was none).
Outcome ==
  inflight = NoFetch /\ ~err =>
    \/ keys = NoKeys /\ lastFetch = LongAgo
    \/ /\ keys # NoKeys
       /\ fetchedAt >= lastFetch
       /\ \A k \in published \ keys : since[k] >= lastFetch

\* A caller whose fetch is done finds a failure, or a set at least as recent
\* as its own call, even when later fetches came in between.
Waiters ==
  \A c \in Callers :
    IF pc[c] \in {"idle", "refresh"} THEN waitOn[c] = NoFetch
    ELSE /\ waitOn[c] \in FetchIds
         /\ ~Running(waitOn[c]) /\ ~err
              => keys # NoKeys /\ fetchedAt >= callAt[c]

\* A caller that waits for a refresh found its fetch still running.
Awaited ==
  \A c \in Callers :
    pc[c] = "waitRefresh" => lastFetch + FetchTimeout >= callAt[c]

Answers == WithdrawnKeyBounded /\ EveryRefusalHasCause

JwksInv ==
  /\ Clock /\ SingleFlight /\ FetchesRunning /\ Snapshot /\ Outcome /\ Waiters
  /\ Awaited /\ Answers

-----------------------------------------------------------------------------
(* What the steps of callers and of fetches can change.                    *)

LEMMA CallerEffect ==
  ASSUME TypeOK, NEW c \in Callers, CallerStep(c)
  PROVE  /\ UNCHANGED <<now, published, since, until>>
         /\ UNCHANGED <<keys, err, fetchedAt, reply>>
         /\ (inflight = NoFetch /\ StartFetch(c)) \/ KeepFetch
<1> USE DEF provider, entry, fetches, KeepFetch
<1>1. CASE \E k \in Kids : Lookup(c, k)
  BY <1>1 DEF Lookup
<1>2. CASE LookupResumes(c)
  BY <1>2 DEF LookupResumes
<1>3. CASE Refresh(c)
  BY <1>3 DEF Refresh
<1>4. CASE RefreshResumes(c)
  BY <1>4 DEF RefreshResumes
<1>5. QED
  BY <1>1, <1>2, <1>3, <1>4 DEF CallerStep

LEMMA CallerOthers ==
  ASSUME TypeOK, NEW c \in Callers, CallerStep(c), NEW d \in Callers, d # c
  PROVE  /\ pc'[d] = pc[d] /\ waitOn'[d] = waitOn[d]
         /\ kid'[d] = kid[d] /\ callAt'[d] = callAt[d]
         /\ answer'[d] = answer[d]
<1> USE DEF TypeOK, Goes
<1>1. CASE \E k \in Kids : Lookup(c, k)
  BY <1>1 DEF Lookup, UseCached, Fail
<1>2. CASE LookupResumes(c)
  BY <1>2 DEF LookupResumes, UseCached, Fail
<1>3. CASE Refresh(c)
  BY <1>3 DEF Refresh, Refreshed
<1>4. CASE RefreshResumes(c)
  BY <1>4 DEF RefreshResumes, Refreshed
<1>5. QED
  BY <1>1, <1>2, <1>3, <1>4 DEF CallerStep

LEMMA CallerOwn ==
  ASSUME TypeOK, NEW c \in Callers, CallerStep(c)
  PROVE  callAt'[c] = callAt[c] \/ callAt'[c] = now
<1> USE DEF TypeOK, Goes
<1>1. CASE \E k \in Kids : Lookup(c, k)
  BY <1>1 DEF Lookup
<1>2. CASE LookupResumes(c)
  BY <1>2 DEF LookupResumes
<1>3. CASE Refresh(c)
  BY <1>3 DEF Refresh
<1>4. CASE RefreshResumes(c)
  BY <1>4 DEF RefreshResumes
<1>5. QED
  BY <1>1, <1>2, <1>3, <1>4 DEF CallerStep

LEMMA StartEffect ==
  ASSUME TypeOK, SingleFlight, NEW c \in Callers, inflight = NoFetch,
         StartFetch(c)
  PROVE  \E f \in FetchIds :
           /\ Free(f) /\ inflight' = f /\ lastFetch' = now
           /\ fetchPc'[f] = "sent" /\ fetchAt'[f] = now /\ fetchTtl'[f] = Ttl[c]
           /\ \A g \in FetchIds : ~Running(g)
           /\ \A g \in FetchIds \ {f} :
                fetchPc'[g] = fetchPc[g] /\ fetchAt'[g] = fetchAt[g]
<1>1. PICK f \in FetchIds :
        /\ Free(f) /\ inflight' = f /\ lastFetch' = now
        /\ fetchPc' = [fetchPc EXCEPT ![f] = "sent"]
        /\ fetchAt' = [fetchAt EXCEPT ![f] = now]
        /\ fetchTtl' = [fetchTtl EXCEPT ![f] = Ttl[c]]
  BY DEF StartFetch
<1>2. \A g \in FetchIds : ~Running(g)
  BY JwksAssumption DEF SingleFlight
<1>3. /\ fetchPc'[f] = "sent" /\ fetchAt'[f] = now /\ fetchTtl'[f] = Ttl[c]
      /\ \A g \in FetchIds \ {f} :
           fetchPc'[g] = fetchPc[g] /\ fetchAt'[g] = fetchAt[g]
  BY <1>1 DEF TypeOK
<1>4. QED
  BY <1>1, <1>2, <1>3

LEMMA DoneEffect ==
  ASSUME TypeOK, SingleFlight, NEW f \in FetchIds, FetchDone(f)
  PROVE  /\ inflight = f /\ inflight' = NoFetch /\ fetchPc'[f] = "done"
         /\ \A g \in FetchIds \ {f} :
              /\ ~Running(g)
              /\ fetchPc'[g] = fetchPc[g] /\ fetchAt'[g] = fetchAt[g]
              /\ reply'[g] = reply[g]
         /\ UNCHANGED <<now, lastFetch, published, since, until>>
         /\ UNCHANGED <<pc, kid, callAt, waitOn, answer>>
         /\ \/ err'
            \/ /\ fetchPc[f] = "answered" /\ keys' = reply[f]
               /\ fetchedAt' = now /\ ~err'
         /\ fetchedAt' = now \/ (fetchedAt' = fetchedAt /\ keys' = keys)
<1>1. Running(f)
  BY DEF FetchDone, Running
<1>2. inflight = f /\ \A g \in FetchIds \ {f} : ~Running(g)
  BY <1>1, JwksAssumption DEF SingleFlight, TypeOK
<1>3. /\ inflight' = NoFetch
      /\ UNCHANGED <<now, lastFetch, published, since, until>>
      /\ UNCHANGED <<pc, kid, callAt, waitOn, answer>>
  BY DEF FetchDone, provider, callers
<1>4. /\ fetchPc'[f] = "done"
      /\ \A g \in FetchIds \ {f} :
           /\ fetchPc'[g] = fetchPc[g] /\ fetchAt'[g] = fetchAt[g]
           /\ reply'[g] = reply[g]
  BY DEF FetchDone, TypeOK
<1>5. \/ err'
      \/ /\ fetchPc[f] = "answered" /\ keys' = reply[f]
         /\ fetchedAt' = now /\ ~err'
  BY DEF FetchDone
<1>6. fetchedAt' = now \/ (fetchedAt' = fetchedAt /\ keys' = keys)
  BY DEF FetchDone
<1>7. QED
  BY <1>2, <1>3, <1>4, <1>5, <1>6

-----------------------------------------------------------------------------
(* Each part of the invariant is preserved.                                *)

LEMMA ClockStep ==
  ASSUME TypeOK, TypeOK', SingleFlight, Clock, [Next]_vars
  PROVE  Clock'
<1> USE DEF Clock, provider, entry, fetches, callers
<1>1. CASE Tick
  BY <1>1 DEF Tick, TypeOK
<1>2. ASSUME NEW k \in Kids, Publish(k) PROVE Clock'
  BY <1>2 DEF Publish, TypeOK
<1>3. ASSUME NEW k \in Kids, Withdraw(k) PROVE Clock'
  BY <1>3 DEF Withdraw, TypeOK
<1>4. ASSUME NEW f \in FetchIds, FetchAnswered(f) PROVE Clock'
  BY <1>4 DEF FetchAnswered
<1>5. ASSUME NEW f \in FetchIds, FetchDone(f) PROVE Clock'
  BY <1>5, DoneEffect DEF TypeOK
<1>6. ASSUME NEW c \in Callers, CallerStep(c) PROVE Clock'
  <2>1. UNCHANGED <<now, published, since, until, fetchedAt>>
    BY <1>6, CallerEffect
  <2>2. lastFetch' = now \/ lastFetch' = lastFetch
    BY <1>6, CallerEffect, StartEffect DEF KeepFetch
  <2>3. \A d \in Callers : callAt'[d] <= now
    BY <1>6, CallerOwn, CallerOthers DEF TypeOK
  <2>4. QED
    BY <2>1, <2>2, <2>3 DEF TypeOK
<1>7. CASE UNCHANGED vars
  BY <1>7 DEF vars
<1>8. QED
  BY <1>1, <1>2, <1>3, <1>4, <1>5, <1>6, <1>7 DEF Next

LEMMA SingleFlightStep ==
  ASSUME TypeOK, TypeOK', SingleFlight, [Next]_vars
  PROVE  SingleFlight'
<1> USE DEF Running, provider, entry, fetches, callers
<1>1. CASE UNCHANGED <<fetchPc, inflight>>
  BY <1>1 DEF SingleFlight
<1>2. ASSUME NEW f \in FetchIds, FetchAnswered(f) PROVE SingleFlight'
  BY <1>2 DEF FetchAnswered, TypeOK, SingleFlight
<1>3. ASSUME NEW f \in FetchIds, FetchDone(f) PROVE SingleFlight'
  <2>1. inflight' = NoFetch /\ \A g \in FetchIds : ~Running(g)'
    BY <1>3, DoneEffect
  <2>2. QED
    BY <2>1, JwksAssumption DEF SingleFlight
<1>4. ASSUME NEW c \in Callers, CallerStep(c) PROVE SingleFlight'
  <2>1. CASE KeepFetch
    BY <2>1, <1>1 DEF KeepFetch
  <2>2. CASE inflight = NoFetch /\ StartFetch(c)
    <3>1. PICK f \in FetchIds :
            /\ inflight' = f /\ fetchPc'[f] = "sent"
            /\ \A g \in FetchIds : ~Running(g)
            /\ \A g \in FetchIds \ {f} : fetchPc'[g] = fetchPc[g]
      BY <2>2, StartEffect
    <3>2. QED
      BY <3>1 DEF SingleFlight
  <2>3. QED
    BY <1>4, <2>1, <2>2, CallerEffect
<1>5. QED
  BY <1>1, <1>2, <1>3, <1>4
     DEF Next, vars, Tick, Publish, Withdraw

LEMMA FetchesRunningStep ==
  ASSUME TypeOK, TypeOK', SingleFlight, Clock, FetchesRunning, [Next]_vars
  PROVE  FetchesRunning'
<1> USE DEF Running, provider, entry, fetches, callers
<1>1. CASE Tick
  <2>1. UNCHANGED <<published, since, lastFetch, fetchPc, fetchAt, reply>>
    BY <1>1 DEF Tick
  <2>2. \A f \in FetchIds :
          Running(f) => fetchAt[f] = lastFetch /\ now' <= lastFetch + FetchTimeout
    BY <1>1, JwksAssumption DEF Tick, TypeOK, FetchesRunning
  <2>3. \A k \in Kids : until[k] >= lastFetch => until'[k] >= lastFetch
    BY <1>1 DEF Tick, TypeOK, Clock
  <2>4. \A f \in FetchIds : reply[f] \subseteq Kids
    BY DEF TypeOK
  <2>5. QED
    BY <2>1, <2>2, <2>3, <2>4 DEF FetchesRunning
<1>2. ASSUME NEW k \in Kids, Publish(k) PROVE FetchesRunning'
  BY <1>2 DEF Publish, TypeOK, Clock, FetchesRunning
<1>3. ASSUME NEW k \in Kids, Withdraw(k) PROVE FetchesRunning'
  BY <1>3 DEF Withdraw, TypeOK, FetchesRunning
<1>4. ASSUME NEW f \in FetchIds, FetchAnswered(f) PROVE FetchesRunning'
  <2>1. /\ UNCHANGED <<now, published, since, until, lastFetch, fetchAt>>
        /\ fetchPc[f] = "sent" /\ fetchPc'[f] = "answered"
        /\ reply'[f] = published
    BY <1>4 DEF FetchAnswered, TypeOK
  <2>2. \A g \in FetchIds \ {f} : fetchPc'[g] = fetchPc[g] /\ reply'[g] = reply[g]
    BY <1>4 DEF FetchAnswered, TypeOK
  <2>3. \A k \in published : until[k] >= lastFetch
    BY DEF Clock, TypeOK
  <2>4. QED
    BY <2>1, <2>2, <2>3 DEF FetchesRunning
<1>5. ASSUME NEW f \in FetchIds, FetchDone(f) PROVE FetchesRunning'
  BY <1>5, DoneEffect DEF FetchesRunning
<1>6. ASSUME NEW c \in Callers, CallerStep(c) PROVE FetchesRunning'
  <2>1. UNCHANGED <<now, published, since, until, reply>>
    BY <1>6, CallerEffect
  <2>2. CASE KeepFetch
    BY <2>1, <2>2 DEF KeepFetch, FetchesRunning
  <2>3. CASE inflight = NoFetch /\ StartFetch(c)
    <3>1. PICK f \in FetchIds :
            /\ lastFetch' = now /\ fetchPc'[f] = "sent" /\ fetchAt'[f] = now
            /\ \A g \in FetchIds : ~Running(g)
            /\ \A g \in FetchIds \ {f} : fetchPc'[g] = fetchPc[g]
      BY <2>3, StartEffect
    <3>2. now <= now + FetchTimeout
      BY JwksAssumption DEF TypeOK
    <3>3. QED
      BY <2>1, <3>1, <3>2 DEF FetchesRunning
  <2>4. QED
    BY <1>6, <2>2, <2>3, CallerEffect
<1>7. CASE UNCHANGED vars
  BY <1>7 DEF vars, FetchesRunning
<1>8. QED
  BY <1>1, <1>2, <1>3, <1>4, <1>5, <1>6, <1>7 DEF Next

LEMMA SnapshotStep ==
  ASSUME TypeOK, TypeOK', SingleFlight, Clock, FetchesRunning, Snapshot,
         [Next]_vars
  PROVE  Snapshot'
<1> USE DEF provider, entry, fetches, callers
<1>0. FetchTimeout \in Nat /\ \A S \in SUBSET Kids : NoKeys # S
  BY JwksAssumption
<1>1. CASE Tick
  BY <1>0, <1>1 DEF Tick, TypeOK, Clock, Snapshot
<1>2. ASSUME NEW k \in Kids, Publish(k) PROVE Snapshot'
  BY <1>0, <1>2 DEF Publish, TypeOK, Clock, Snapshot
<1>3. ASSUME NEW k \in Kids, Withdraw(k) PROVE Snapshot'
  BY <1>0, <1>3 DEF Withdraw, TypeOK, Snapshot
<1>4. ASSUME NEW f \in FetchIds, FetchAnswered(f) PROVE Snapshot'
  BY <1>4 DEF FetchAnswered, Snapshot
<1>5. ASSUME NEW f \in FetchIds, FetchDone(f) PROVE Snapshot'
  <2>1. UNCHANGED <<published, since, until>>
    BY <1>5, DoneEffect
  <2>2. CASE fetchedAt' = fetchedAt /\ keys' = keys
    BY <2>1, <2>2 DEF Snapshot
  <2>3. CASE fetchPc[f] = "answered" /\ keys' = reply[f] /\ fetchedAt' = now
    <3>1. now <= lastFetch + FetchTimeout
      BY <2>3 DEF FetchesRunning, Running
    <3>2. /\ \A k \in reply[f] : until[k] >= lastFetch
          /\ \A k \in published \ reply[f] : since[k] >= lastFetch
      BY <2>3 DEF FetchesRunning
    <3>3. reply[f] \in SUBSET Kids
      BY DEF TypeOK
    <3>4. /\ \A k \in reply[f] : until[k] + FetchTimeout >= now
          /\ \A k \in published \ reply[f] : since[k] + FetchTimeout >= now
      BY <1>0, <3>1, <3>2, <3>3 DEF TypeOK
    <3>5. QED
      BY <2>1, <2>3, <3>4 DEF Snapshot
  <2>4. QED
    BY <1>5, <2>2, <2>3 DEF FetchDone
<1>6. ASSUME NEW c \in Callers, CallerStep(c) PROVE Snapshot'
  BY <1>6, CallerEffect DEF Snapshot
<1>7. CASE UNCHANGED vars
  BY <1>7 DEF vars, Snapshot
<1>8. QED
  BY <1>1, <1>2, <1>3, <1>4, <1>5, <1>6, <1>7 DEF Next

LEMMA OutcomeStep ==
  ASSUME TypeOK, TypeOK', SingleFlight, Clock, FetchesRunning, Outcome,
         [Next]_vars
  PROVE  Outcome'
<1> USE DEF provider, entry, fetches, callers, Outcome
<1>1. CASE Tick
  BY <1>1 DEF Tick
<1>2. ASSUME NEW k \in Kids, Publish(k) PROVE Outcome'
  BY <1>2 DEF Publish, TypeOK, Clock
<1>3. ASSUME NEW k \in Kids, Withdraw(k) PROVE Outcome'
  BY <1>3 DEF Withdraw
<1>4. ASSUME NEW f \in FetchIds, FetchAnswered(f) PROVE Outcome'
  BY <1>4 DEF FetchAnswered
<1>5. ASSUME NEW f \in FetchIds, FetchDone(f) PROVE Outcome'
  <2>1. UNCHANGED <<lastFetch, published, since>>
    BY <1>5, DoneEffect
  <2>2. CASE err'
    BY <2>2
  <2>3. CASE fetchPc[f] = "answered" /\ keys' = reply[f] /\ fetchedAt' = now
    <3>1. reply[f] # NoKeys
      BY JwksAssumption DEF TypeOK
    <3>2. \A k \in published \ reply[f] : since[k] >= lastFetch
      BY <2>3 DEF FetchesRunning
    <3>3. now >= lastFetch
      BY DEF Clock, TypeOK
    <3>4. QED
      BY <2>1, <2>3, <3>1, <3>2, <3>3
  <2>4. QED
    BY <1>5, <2>2, <2>3, DoneEffect
<1>6. ASSUME NEW c \in Callers, CallerStep(c) PROVE Outcome'
  <2>1. UNCHANGED <<published, since, keys, err, fetchedAt>>
    BY <1>6, CallerEffect
  <2>2. CASE KeepFetch
    BY <2>1, <2>2 DEF KeepFetch
  <2>3. CASE inflight = NoFetch /\ StartFetch(c)
    BY <2>3, StartEffect, JwksAssumption
  <2>4. QED
    BY <1>6, <2>2, <2>3, CallerEffect
<1>7. CASE UNCHANGED vars
  BY <1>7 DEF vars
<1>8. QED
  BY <1>1, <1>2, <1>3, <1>4, <1>5, <1>6, <1>7 DEF Next

LEMMA WaitersStep ==
  ASSUME TypeOK, TypeOK', SingleFlight, Clock, Waiters, [Next]_vars
  PROVE  Waiters'
<1> USE DEF provider, entry, fetches, callers
<1> DEFINE Waits(c) ==
      IF pc[c] \in {"idle", "refresh"} THEN waitOn[c] = NoFetch
      ELSE /\ waitOn[c] \in FetchIds
           /\ ~Running(waitOn[c]) /\ ~err
                => keys # NoKeys /\ fetchedAt >= callAt[c]
<1>0. \A c \in Callers : Waits(c)
  BY DEF Waiters
<1>1. CASE UNCHANGED <<keys, err, fetchedAt, fetchPc, callers>>
  BY <1>1 DEF Waiters, Running
<1>2. ASSUME NEW f \in FetchIds, FetchAnswered(f) PROVE Waiters'
  <2>1. UNCHANGED <<keys, err, fetchedAt, callers>>
    BY <1>2 DEF FetchAnswered
  <2>2. \A g \in FetchIds : Running(g)' <=> Running(g)
    BY <1>2 DEF FetchAnswered, TypeOK, Running
  <2>3. QED
    BY <2>1, <2>2 DEF Waiters, Running
<1>3. ASSUME NEW f \in FetchIds, FetchDone(f) PROVE Waiters'
  <2>1. UNCHANGED <<pc, callAt, waitOn, now>>
    BY <1>3, DoneEffect
  <2>2. CASE err'
    BY <2>1, <2>2 DEF Waiters
  <2>3. CASE keys' = reply[f] /\ fetchedAt' = now
    <3>1. keys' # NoKeys
      BY <2>3, JwksAssumption DEF TypeOK
    <3>2. \A c \in Callers : fetchedAt' >= callAt[c]
      BY <2>3 DEF Clock, TypeOK
    <3>3. QED
      BY <2>1, <3>1, <3>2 DEF Waiters
  <2>4. QED
    BY <1>3, <2>2, <2>3, DoneEffect
<1>4. ASSUME NEW c \in Callers, CallerStep(c) PROVE Waiters'
  <2>1. UNCHANGED <<keys, err, fetchedAt>>
    BY <1>4, CallerEffect
  <2>2. ASSUME NEW d \in Callers, waitOn[d] \in FetchIds
        PROVE  fetchPc'[waitOn[d]] \in {"sent", "answered"}
                 <=> Running(waitOn[d])
    <3>1. CASE KeepFetch
      BY <3>1 DEF KeepFetch, Running
    <3>2. CASE inflight = NoFetch /\ StartFetch(c)
      BY <2>2, <3>2, StartEffect DEF Free, Running
    <3>3. QED
      BY <1>4, <3>1, <3>2, CallerEffect
  <2>3. ASSUME NEW d \in Callers, d # c PROVE Waits(d)'
    BY <1>0, <1>4, <2>1, <2>2, <2>3, CallerOthers DEF Running
  <2>4. inflight' # NoFetch => /\ inflight' \in FetchIds
                               /\ fetchPc'[inflight'] \in {"sent", "answered"}
    BY SingleFlightStep DEF TypeOK, SingleFlight, Running
  <2>5. Waits(c)'
    <3> USE DEF Goes
    <3>1. CASE \E k \in Kids : Lookup(c, k)
      <4>1. waitOn[c] = NoFetch
        BY <1>0, <3>1 DEF Lookup
      <4>2. \/ pc'[c] \in {"idle", "refresh"} /\ waitOn' = waitOn
            \/ /\ pc'[c] = "waitCache" /\ waitOn'[c] = inflight'
               /\ inflight' # NoFetch
        BY <3>1 DEF Lookup, UseCached, Fail, TypeOK
      <4>3. QED
        BY <2>4, <4>1, <4>2 DEF Running
    <3>2. CASE LookupResumes(c)
      <4>1. pc'[c] \in {"idle", "refresh"} /\ waitOn'[c] = NoFetch
        BY <3>2 DEF LookupResumes, UseCached, Fail, TypeOK
      <4>2. QED
        BY <4>1
    <3>3. CASE Refresh(c)
      <4>1. waitOn[c] = NoFetch
        BY <1>0, <3>3 DEF Refresh
      <4>2. CASE pc'[c] = "idle" /\ waitOn' = waitOn
        BY <4>1, <4>2
      <4>3. CASE /\ pc'[c] = "waitRefresh" /\ waitOn'[c] = inflight'
                 /\ inflight' # NoFetch
        BY <2>4, <4>3 DEF Running
      <4>4. (inflight = NoFetch /\ StartFetch(c)) => inflight' # NoFetch
        BY StartEffect, JwksAssumption
      <4>5. QED
        BY <3>3, <4>2, <4>3, <4>4 DEF Refresh, Refreshed, KeepFetch, TypeOK
    <3>4. CASE RefreshResumes(c)
      <4>1. pc'[c] = "idle" /\ waitOn'[c] = NoFetch
        BY <3>4 DEF RefreshResumes, Refreshed, TypeOK
      <4>2. QED
        BY <4>1
    <3>5. QED
      BY <1>4, <3>1, <3>2, <3>3, <3>4 DEF CallerStep
  <2>6. \A d \in Callers : Waits(d)'
    BY <2>3, <2>5
  <2>7. QED
    BY <2>6 DEF Waiters
<1>5. QED
  BY <1>1, <1>2, <1>3, <1>4 DEF Next, vars, Tick, Publish, Withdraw

\* What Answers says of one caller.
AnswerOK(c) ==
  /\ answer[c] = "accepted" =>
       until[kid[c]] + FetchTimeout + Ttl[c] + Grace > callAt[c]
  /\ answer[c] # "sentinel"

\* A set jwksRefresh answers from is recent enough for what it accepts.
LEMMA RefreshedOK ==
  ASSUME TypeOK, Snapshot, NEW c \in Callers, Refreshed(c),
         UNCHANGED <<until, kid, callAt>>,
         keys # NoKeys /\ ~err => fetchedAt > callAt[c] - Cooldown
  PROVE  AnswerOK(c)'
<1> USE JwksAssumption
<1>1. CASE ~err /\ keys # NoKeys /\ kid[c] \in keys
  <2>1. answer'[c] = "accepted"
    BY <1>1 DEF Refreshed, Goes, TypeOK
  <2>2. until[kid[c]] + FetchTimeout >= fetchedAt
    BY <1>1 DEF Snapshot
  <2>3. fetchedAt > callAt[c] - Cooldown
    BY <1>1 DEF TypeOK
  <2>4. until[kid[c]] + FetchTimeout + Ttl[c] + Grace > callAt[c]
    BY <2>2, <2>3 DEF TypeOK
  <2>5. QED
    BY <2>1, <2>4 DEF AnswerOK
<1>2. CASE ~(~err /\ keys # NoKeys /\ kid[c] \in keys)
  <2>1. answer'[c] = "unknown"
    BY <1>2 DEF Refreshed, Goes, TypeOK
  <2>2. QED
    BY <2>1 DEF AnswerOK
<1>3. QED
  BY <1>1, <1>2

LEMMA LookupOK ==
  ASSUME TypeOK, TypeOK', Clock, Snapshot, Outcome, SingleFlight,
         NEW c \in Callers, NEW q \in Kids, Lookup(c, q)
  PROVE  AnswerOK(c)'
<1> USE JwksAssumption
<1>1. /\ UNCHANGED <<now, keys, err, fetchedAt, until>>
      /\ kid'[c] = q /\ callAt'[c] = now
  BY DEF Lookup, TypeOK, provider
<1>2. CASE Servable(c) /\ UseCached(c, q)
  <2>1. \/ answer'[c] = "none"
        \/ answer'[c] = "accepted" /\ q \in keys
    BY <1>2 DEF UseCached, Goes, TypeOK
  <2>2. q \in keys => until[q] + FetchTimeout >= fetchedAt
    BY <1>2 DEF Snapshot, Servable
  <2>3. q \in keys => until[q] + FetchTimeout + Ttl[c] + Grace > now
    BY <1>2, <2>2 DEF Servable, TypeOK
  <2>4. QED
    BY <1>1, <2>1, <2>3 DEF AnswerOK
<1>3. CASE ~Servable(c) /\ inflight' = NoFetch /\ Fail(c)
  <2>1. inflight = NoFetch /\ now - lastFetch < Smaller(Ttl[c], Cooldown)
    <3>1. ~Fresh(c)
      BY <1>3 DEF Fresh, Servable, TypeOK
    <3>2. ~(inflight = NoFetch /\ StartFetch(c))
      BY <1>3, StartEffect
    <3>3. inflight = NoFetch
      BY <1>3, <3>1, <3>2 DEF Lookup, KeepFetch
    <3>4. ~(now - lastFetch >= Smaller(Ttl[c], Cooldown))
      BY <3>1, <3>2, <3>3 DEF Lookup, Due
    <3>5. QED
      BY <3>3, <3>4 DEF TypeOK, Smaller
  <2>2. ASSUME ~err PROVE FALSE
    <3>1. now - lastFetch < Ttl[c] /\ now - lastFetch < Cooldown
      BY <2>1 DEF Smaller, TypeOK
    <3>2. lastFetch # LongAgo
      BY <3>1 DEF LongAgo, TypeOK
    <3>3. keys # NoKeys /\ fetchedAt >= lastFetch
      BY <2>1, <2>2, <3>2 DEF Outcome
    <3>4. QED
      BY <1>3, <3>1, <3>3 DEF Servable, TypeOK
  <2>3. answer'[c] = "failed"
    BY <1>3, <2>2 DEF Fail, Goes, TypeOK
  <2>4. QED
    BY <2>3 DEF AnswerOK
<1>4. CASE Goes(c, "waitCache", "none")
  <2>1. answer'[c] = "none"
    BY <1>4 DEF Goes, TypeOK
  <2>2. QED
    BY <2>1 DEF AnswerOK
<1>5. QED
  BY <1>2, <1>3, <1>4 DEF Lookup

LEMMA LookupResumesOK ==
  ASSUME TypeOK, Snapshot, Waiters, NEW c \in Callers, LookupResumes(c)
  PROVE  AnswerOK(c)'
<1> USE JwksAssumption
<1>1. UNCHANGED <<kid, callAt, until, keys, err, fetchedAt>>
  BY DEF LookupResumes, provider, entry
<1>2. ~err => keys # NoKeys /\ fetchedAt >= callAt[c]
  BY DEF LookupResumes, Waiters, Running
<1>3. CASE err
  <2>1. answer'[c] = "failed"
    BY <1>3 DEF LookupResumes, Fail, Goes, TypeOK
  <2>2. QED
    BY <2>1 DEF AnswerOK
<1>4. CASE ~err
  <2>1. \/ answer'[c] = "none"
        \/ answer'[c] = "accepted" /\ kid[c] \in keys
    BY <1>2, <1>4 DEF LookupResumes, UseCached, Goes, TypeOK
  <2>2. kid[c] \in keys => until[kid[c]] + FetchTimeout >= fetchedAt
    BY <1>2, <1>4 DEF Snapshot
  <2>3. kid[c] \in keys =>
          until[kid[c]] + FetchTimeout + Ttl[c] + Grace > callAt[c]
    BY <1>2, <1>4, <2>2 DEF TypeOK
  <2>4. QED
    BY <1>1, <2>1, <2>3 DEF AnswerOK
<1>5. QED
  BY <1>3, <1>4

\* While the cooldown lasts, the latest fetch failed or filled the cache, and it
\* started less than a cooldown before the call.
LEMMA CoolingFinds ==
  ASSUME TypeOK, Clock, Outcome, NEW c \in Callers, inflight = NoFetch, Cooling
  PROVE  /\ lastFetch > callAt[c] - Cooldown
         /\ ~err => /\ keys # NoKeys /\ fetchedAt > callAt[c] - Cooldown
                    /\ \A k \in published \ keys : since[k] > callAt[c] - Cooldown
<1> USE JwksAssumption
<1>1. callAt[c] <= now /\ now < lastFetch + Cooldown
  BY DEF Cooling, Clock, TypeOK
<1>2. lastFetch # LongAgo
  BY <1>1 DEF LongAgo, Cooling, TypeOK
<1>3. ASSUME ~err
      PROVE  /\ keys # NoKeys /\ fetchedAt >= lastFetch
             /\ \A k \in published \ keys : since[k] >= lastFetch
  BY <1>2, <1>3 DEF Outcome
<1>4. lastFetch > callAt[c] - Cooldown
  BY <1>1 DEF TypeOK
<1>5. ASSUME ~err
      PROVE  /\ fetchedAt > callAt[c] - Cooldown
             /\ \A k \in published \ keys : since[k] > callAt[c] - Cooldown
  BY <1>3, <1>4, <1>5 DEF TypeOK
<1>6. QED
  BY <1>3, <1>4, <1>5

LEMMA RefreshOK ==
  ASSUME TypeOK, Clock, Snapshot, Outcome, NEW c \in Callers, Refresh(c)
  PROVE  AnswerOK(c)'
<1>1. CASE inflight = NoFetch /\ Cooling /\ Refreshed(c)
  <2>1. UNCHANGED <<until, kid, callAt>>
    BY DEF Refresh, provider
  <2>2. QED
    BY <1>1, <2>1, CoolingFinds, RefreshedOK
<1>2. CASE Goes(c, "waitRefresh", "none")
  <2>1. answer'[c] = "none"
    BY <1>2 DEF Goes, TypeOK
  <2>2. QED
    BY <2>1 DEF AnswerOK
<1>3. QED
  BY <1>1, <1>2 DEF Refresh

LEMMA RefreshResumesOK ==
  ASSUME TypeOK, Clock, Snapshot, Waiters, NEW c \in Callers,
         RefreshResumes(c)
  PROVE  AnswerOK(c)'
<1>1. UNCHANGED <<until, kid, callAt>> /\ Refreshed(c)
  BY DEF RefreshResumes, provider
<1>2. ~err => keys # NoKeys /\ fetchedAt >= callAt[c]
  BY DEF RefreshResumes, Waiters, Running
<1>3. ~err => fetchedAt > callAt[c] - Cooldown
  BY <1>2, JwksAssumption DEF TypeOK
<1>4. QED
  BY <1>1, <1>3, RefreshedOK

\* What the wait of a refresh finds is known from the fetch it joined.
LEMMA AwaitedStep ==
  ASSUME TypeOK, TypeOK', SingleFlight, Clock, FetchesRunning, Awaited, [Next]_vars
  PROVE  Awaited'
<1> USE DEF provider, entry, fetches, callers
<1>1. CASE UNCHANGED <<lastFetch, pc, callAt>>
  BY <1>1 DEF Awaited
<1>2. ASSUME NEW f \in FetchIds, FetchDone(f) PROVE Awaited'
  BY <1>1, <1>2, DoneEffect
<1>3. ASSUME NEW c \in Callers, CallerStep(c) PROVE Awaited'
  <2>1. lastFetch' = now \/ lastFetch' = lastFetch
    BY <1>3, CallerEffect, StartEffect DEF KeepFetch
  <2>2. lastFetch' >= lastFetch
    BY <2>1 DEF Clock, TypeOK
  <2>3. ASSUME NEW d \in Callers, d # c, pc'[d] = "waitRefresh"
        PROVE  lastFetch' + FetchTimeout >= callAt'[d]
    <3>1. pc[d] = "waitRefresh" /\ callAt'[d] = callAt[d]
      BY <1>3, <2>3, CallerOthers
    <3>2. lastFetch + FetchTimeout >= callAt[d]
      BY <3>1 DEF Awaited
    <3>3. QED
      BY <2>2, <3>1, <3>2, JwksAssumption DEF TypeOK
  <2>4. ASSUME pc'[c] = "waitRefresh"
        PROVE  lastFetch' + FetchTimeout >= callAt'[c]
    <3> USE DEF Goes
    <3>1. Refresh(c)
      BY <1>3, <2>4 DEF CallerStep, Lookup, LookupResumes, RefreshResumes,
         UseCached, Fail, Refreshed, TypeOK
    <3>2. callAt'[c] = callAt[c] /\ callAt[c] <= now
      BY <3>1 DEF Refresh, Clock
    <3>3. CASE lastFetch' = now
      BY <3>2, <3>3, JwksAssumption DEF TypeOK
    <3>4. CASE inflight # NoFetch /\ lastFetch' = lastFetch
      <4>1. inflight \in FetchIds /\ Running(inflight)
        BY <3>4 DEF SingleFlight, TypeOK
      <4>2. now <= lastFetch + FetchTimeout
        BY <4>1 DEF FetchesRunning
      <4>3. QED
        BY <3>2, <3>4, <4>2, JwksAssumption DEF TypeOK
    <3>5. inflight = NoFetch => lastFetch' = now
      BY <2>4, <3>1, StartEffect DEF Refresh, Refreshed, TypeOK
    <3>6. QED
      BY <2>1, <3>3, <3>4, <3>5
  <2>5. QED
    BY <2>3, <2>4 DEF Awaited
<1>4. QED
  BY <1>1, <1>2, <1>3 DEF Next, vars, Tick, Publish, Withdraw, FetchAnswered

LEMMA AnswersStep ==
  ASSUME TypeOK, TypeOK', SingleFlight, Clock, Snapshot, Outcome, Waiters,
         Answers, [Next]_vars
  PROVE  Answers'
<1> USE DEF provider, entry, fetches, callers
<1>0. \A c \in Callers : AnswerOK(c)
  BY DEF Answers, AnswerOK, WithdrawnKeyBounded, EveryRefusalHasCause
<1>1. SUFFICES \A c \in Callers : AnswerOK(c)'
  BY DEF Answers, AnswerOK, WithdrawnKeyBounded, EveryRefusalHasCause
<1>2. SUFFICES ASSUME NEW d \in Callers PROVE AnswerOK(d)'
  OBVIOUS
<1>3. AnswerOK(d)
  BY <1>0
<1>4. kid[d] \in Kids /\ callAt[d] \in Int /\ Ttl[d] \in Nat
  BY JwksAssumption DEF TypeOK
<1>5. CASE Tick
  <2>1. UNCHANGED <<published, since, callers>>
    BY <1>5 DEF Tick
  <2>2. until'[kid[d]] >= until[kid[d]]
    BY <1>4, <1>5 DEF Tick, TypeOK, Clock
  <2>3. QED
    BY <1>3, <1>4, <2>1, <2>2, JwksAssumption DEF AnswerOK, TypeOK
<1>6. ASSUME NEW k \in Kids, Publish(k) PROVE AnswerOK(d)'
  <2>1. UNCHANGED callers /\ published' = published \cup {k}
    BY <1>6 DEF Publish
  <2>2. until'[kid[d]] >= until[kid[d]]
    BY <1>4, <1>6 DEF Publish, TypeOK, Clock
  <2>3. answer'[d] = "accepted" =>
          until'[kid'[d]] + FetchTimeout + Ttl[d] + Grace > callAt'[d]
    BY <1>3, <1>4, <2>1, <2>2, JwksAssumption DEF AnswerOK, TypeOK
  <2>7. QED
    BY <1>3, <2>1, <2>3 DEF AnswerOK
<1>7. ASSUME NEW k \in Kids, Withdraw(k) PROVE AnswerOK(d)'
  BY <1>3, <1>7 DEF Withdraw, AnswerOK
<1>8. ASSUME NEW f \in FetchIds, FetchAnswered(f) PROVE AnswerOK(d)'
  BY <1>3, <1>8 DEF FetchAnswered, AnswerOK
<1>9. ASSUME NEW f \in FetchIds, FetchDone(f) PROVE AnswerOK(d)'
  BY <1>3, <1>9 DEF FetchDone, AnswerOK
<1>10. ASSUME NEW c \in Callers, CallerStep(c) PROVE AnswerOK(d)'
  <2>1. CASE d # c
    BY <1>3, <1>10, <2>1, CallerEffect, CallerOthers DEF AnswerOK
  <2>2. CASE d = c
    BY <1>10, <2>2, LookupOK, LookupResumesOK, RefreshOK, RefreshResumesOK
       DEF CallerStep
  <2>3. QED
    BY <2>1, <2>2
<1>11. CASE UNCHANGED vars
  BY <1>3, <1>11 DEF vars, AnswerOK
<1>12. QED
  BY <1>5, <1>6, <1>7, <1>8, <1>9, <1>10, <1>11 DEF Next

-----------------------------------------------------------------------------
(* The inductive invariant holds; at most one fetch runs; a withdrawn key  *)
(* is accepted no later than its TTL, the grace and one fetch timeout; and *)
(* no call is refused for want of a key set without a failure to name.     *)
THEOREM JwksCorrect ==
  Spec => []( /\ JwksInv /\ SingleFlight /\ WithdrawnKeyBounded
              /\ EveryRefusalHasCause)
<1>1. Init => JwksInv
  <2> SUFFICES ASSUME Init PROVE JwksInv
    OBVIOUS
  <2> USE JwksAssumption DEF Init
  <2>1. LongAgo <= 0 /\ LongAgo \in Int
    BY DEF LongAgo
  <2>2. Clock
    BY <2>1 DEF Clock
  <2>3. SingleFlight /\ FetchesRunning
    BY DEF SingleFlight, FetchesRunning, Running
  <2>4. Snapshot /\ Outcome /\ Waiters /\ Awaited
    BY DEF Snapshot, Outcome, Waiters, Awaited
  <2>5. Answers
    BY DEF Answers, WithdrawnKeyBounded, EveryRefusalHasCause
  <2>6. QED
    BY <2>2, <2>3, <2>4, <2>5 DEF JwksInv
<1>2. TypeOK /\ TypeOK' /\ JwksInv /\ [Next]_vars => JwksInv'
  BY ClockStep, SingleFlightStep, FetchesRunningStep, SnapshotStep,
     OutcomeStep, WaitersStep, AwaitedStep, AnswersStep DEF JwksInv
<1>3. JwksInv => SingleFlight /\ WithdrawnKeyBounded /\ EveryRefusalHasCause
  BY DEF JwksInv, Answers
<1>4. QED
  BY <1>1, <1>2, <1>3, TypeCorrect, PTL DEF Spec

(* At most one fetch runs, however many callers find the set expired.      *)
THEOREM OneFetch == Spec => []SingleFlight
  BY JwksCorrect, PTL

(* A withdrawn key verifies nothing after its TTL, the grace and a fetch.  *)
THEOREM WithdrawnKeysEnd == Spec => []WithdrawnKeyBounded
  BY JwksCorrect, PTL

(* A call refused for want of a key set is given the failure as its cause. *)
THEOREM RefusalsExplained == Spec => []EveryRefusalHasCause
  BY JwksCorrect, PTL

(* A published key is refused as unknown only within a cooldown of its     *)
(* publication, or after a failed fetch with one started since a cooldown  *)
(* before the call.                                                        *)
THEOREM RotationsPickedUp == Spec => RotationPickedUp
<1> DEFINE Explained(c) ==
      \/ kid'[c] \notin published
      \/ since[kid'[c]] > callAt'[c] - Cooldown
      \/ err /\ lastFetch > callAt'[c] - Cooldown
<1>1. TypeOK /\ JwksInv /\ [Next]_vars =>
        [\A c \in Callers : answer[c] # "unknown" /\ answer'[c] = "unknown"
           => Explained(c)]_vars
  <2> SUFFICES ASSUME TypeOK, JwksInv, [Next]_vars, NEW d \in Callers,
                      answer[d] # "unknown", answer'[d] = "unknown"
               PROVE  Explained(d)
    OBVIOUS
  <2> USE DEF JwksInv, provider, entry, fetches, callers
  <2>1. PICK c \in Callers : CallerStep(c)
    BY DEF Next, vars, Tick, Publish, Withdraw, FetchAnswered, FetchDone
  <2>2. c = d
    BY <2>1, CallerOthers
  <2>3. (Refresh(d) /\ inflight = NoFetch /\ Cooling) \/ RefreshResumes(d)
    BY <2>1, <2>2 DEF CallerStep, Lookup, LookupResumes, Refresh, UseCached, Fail,
       Goes, TypeOK
  <2>4. kid' = kid /\ callAt' = callAt /\ Refreshed(d)
    BY <2>3, <2>2 DEF Refresh, RefreshResumes
  <2>5. ~err /\ keys # NoKeys => kid[d] \notin keys
    BY <2>4 DEF Refreshed, Goes, TypeOK
  <2>6. CASE inflight = NoFetch /\ Cooling
    BY <2>4, <2>5, <2>6, CoolingFinds
  <2>7. CASE RefreshResumes(d)
    <3>1. ~err => keys # NoKeys /\ fetchedAt >= callAt[d]
      BY <2>7 DEF RefreshResumes, Waiters, Running
    <3>2. lastFetch + FetchTimeout >= callAt[d]
      BY <2>7 DEF RefreshResumes, Awaited
    <3>3. lastFetch > callAt[d] - Cooldown
      BY <3>2, JwksAssumption DEF TypeOK
    <3>4. ASSUME ~err, kid[d] \in published
          PROVE  since[kid[d]] > callAt[d] - Cooldown
      <4>1. since[kid[d]] + FetchTimeout >= fetchedAt
        BY <2>5, <3>1, <3>4 DEF Snapshot
      <4>2. QED
        BY <3>1, <3>4, <4>1, JwksAssumption DEF TypeOK
    <3>5. QED
      BY <2>4, <3>3, <3>4
  <2>8. QED
    BY <2>3, <2>6, <2>7
<1>2. QED
  BY <1>1, TypeCorrect, JwksCorrect, PTL DEF Spec, RotationPickedUp

(* Two fetches of one endpoint start at least the smaller of the cooldown  *)
(* and the TTL of the caller who starts the later one apart, also when it  *)
(* is served a stale set meanwhile.                                        *)
THEOREM FetchesSpaced == Spec => FetchSpacing
<1>1. TypeOK /\ JwksInv /\ [Next]_vars =>
        [\A f \in FetchIds :
           fetchPc[f] = "done" /\ fetchPc'[f] # "done" =>
             now - lastFetch >= Smaller(fetchTtl'[f], Cooldown)]_vars
  <2> SUFFICES ASSUME TypeOK, JwksInv, [Next]_vars, NEW f \in FetchIds,
                      fetchPc[f] = "done", fetchPc'[f] # "done"
               PROVE  now - lastFetch >= Smaller(fetchTtl'[f], Cooldown)
    OBVIOUS
  <2> USE DEF JwksInv, provider, entry, fetches, callers
  <2>1. PICK c \in Callers : CallerStep(c)
    <3>1. ASSUME NEW g \in FetchIds, FetchAnswered(g) \/ FetchDone(g) PROVE FALSE
      <4>1. fetchPc[g] # "done" /\ (g # f => fetchPc'[f] = fetchPc[f])
        BY <3>1 DEF FetchAnswered, FetchDone, Running, TypeOK
      <4>2. QED
        BY <4>1
    <3>2. QED
      BY <3>1 DEF Next, vars, Tick, Publish, Withdraw
  <2>2. inflight = NoFetch /\ StartFetch(c)
    BY <2>1, CallerEffect DEF KeepFetch
  <2>3. fetchTtl'[f] = Ttl[c]
    BY <2>2, StartEffect
  <2>4. lastFetch' = now /\ inflight' # NoFetch
    BY <2>2, StartEffect, JwksAssumption
  <2>5. ~KeepFetch
    BY <2>2, <2>4 DEF KeepFetch
  <2>6. ASSUME NEW k \in Kids, Lookup(c, k)
        PROVE  now - lastFetch >= Smaller(Ttl[c], Cooldown)
    BY <2>5, <2>6 DEF Lookup, Due
  <2>7. ASSUME Refresh(c)
        PROVE  now - lastFetch >= Smaller(Ttl[c], Cooldown)
    <3>1. ~Cooling
      BY <2>2, <2>5, <2>7 DEF Refresh
    <3>2. QED
      BY <3>1, JwksAssumption DEF Cooling, Smaller, TypeOK
  <2>8. QED
    BY <2>1, <2>3, <2>5, <2>6, <2>7
       DEF CallerStep, LookupResumes, RefreshResumes, KeepFetch
<1>2. QED
  BY <1>1, TypeCorrect, JwksCorrect, PTL DEF Spec, FetchSpacing

-----------------------------------------------------------------------------
(* The parser and the grammar are recursive functions.  Each is defined, since *)
(* every call is of a smaller size; the parser returns readings of the grammar *)
(* by induction on the position, and every one of them by induction on the *)
(* length of what is read, so that there is one at most.                   *)

\* A chain of operands: the rule of an operand, its loop, its operator and what that makes of two.
Chains == {"or", "and"}
Operand(c)      == IF c = "or" THEN "and" ELSE "not"
Loop(c)         == IF c = "or" THEN "or..." ELSE "and..."
Sign(c)         == IF c = "or" THEN "||" ELSE "&&"
Joined(c, l, r) == IF c = "or" THEN Or(l, r) ELSE And(l, r)

\* What each rule of the parser does.
LEMMA ChainIs ==
  ASSUME NEW input, NEW parse, NEW p, NEW left, NEW c \in Chains
  PROVE  /\ ParseRule(input, parse, c, p, left) =
              LET r == parse[<<Operand(c), p, left>>]
              IN  IF r.ok THEN parse[<<Loop(c), r.pos, r.expr>>] ELSE Failed
         /\ ParseRule(input, parse, Loop(c), p, left) =
              IF Peek(input, p) # Sign(c) THEN At(p, left)
              ELSE LET r == parse[<<Operand(c), p + 1, left>>]
                   IN  IF r.ok THEN parse[<<Loop(c), r.pos, Joined(c, left, r.expr)>>] ELSE Failed
<1>1. CASE c = "or"
  <2>1. ParseRule(input, parse, "or", p, left) =
          LET r == parse[<<"and", p, left>>]
          IN  IF r.ok THEN parse[<<"or...", r.pos, r.expr>>] ELSE Failed
    BY Zenon DEF ParseRule
  <2>2. ParseRule(input, parse, "or...", p, left) =
          IF Peek(input, p) # "||" THEN At(p, left)
          ELSE LET r == parse[<<"and", p + 1, left>>]
               IN  IF r.ok THEN parse[<<"or...", r.pos, Or(left, r.expr)>>] ELSE Failed
    BY DEF ParseRule
  <2>3. Operand(c) = "and" /\ Loop(c) = "or..." /\ Sign(c) = "||"
        /\ \A l, r : Joined(c, l, r) = Or(l, r)
    BY <1>1 DEF Operand, Loop, Sign, Joined
  <2>4. QED
    BY <1>1, <2>1, <2>2, <2>3, Zenon
<1>2. CASE c = "and"
  <2>1. ParseRule(input, parse, "and", p, left) =
          LET r == parse[<<"not", p, left>>]
          IN  IF r.ok THEN parse[<<"and...", r.pos, r.expr>>] ELSE Failed
    BY Zenon DEF ParseRule
  <2>2. ParseRule(input, parse, "and...", p, left) =
          IF Peek(input, p) # "&&" THEN At(p, left)
          ELSE LET r == parse[<<"not", p + 1, left>>]
               IN  IF r.ok THEN parse[<<"and...", r.pos, And(left, r.expr)>>] ELSE Failed
    BY DEF ParseRule
  <2>3. Operand(c) = "not" /\ Loop(c) = "and..." /\ Sign(c) = "&&"
        /\ \A l, r : Joined(c, l, r) = And(l, r)
    BY <1>2 DEF Operand, Loop, Sign, Joined
  <2>4. QED
    BY <1>2, <2>1, <2>2, <2>3, Zenon
<1>3. QED
  BY <1>1, <1>2 DEF Chains

LEMMA NotIs ==
  ASSUME NEW input, NEW parse, NEW p, NEW left
  PROVE  ParseRule(input, parse, "not", p, left) =
           IF Peek(input, p) = "!"
           THEN LET r == parse[<<"not", p + 1, left>>]
                IN  IF r.ok THEN At(r.pos, Not(r.expr)) ELSE Failed
           ELSE IF Peek(input, p) = "("
           THEN LET r == parse[<<"or", p + 1, left>>]
                IN  IF r.ok /\ Peek(input, r.pos) = ")" THEN At(r.pos + 1, r.expr) ELSE Failed
           ELSE IF p <= Len(input) /\ input[p] \in DOMAIN Call
                THEN At(p + 1, CallExpr(input[p])) ELSE Failed
BY DEF ParseRule

LEMMA ExpressionsClosed ==
  /\ \A l, r \in Expressions : \A c : Joined(c, l, r) \in Expressions
  /\ \A e \in Expressions : Not(e) \in Expressions
  /\ \A name : CallExpr(name) \in Expressions
BY DEF Expressions, Results, Joined, And, Or, Not, CallExpr, Truth

\* A function of the parser stops behind where it starts, except for a loop, which may stop there.
Outcomes(input) == {Failed} \cup [ok : {TRUE}, pos : 1 .. Len(input) + 1, expr : Expressions]
Positions(input) == 1 .. Len(input) + 1

Stops(input, rule, p, r) ==
  /\ r \in Outcomes(input)
  /\ r.ok => p <= r.pos /\ (rule \in {"or", "and", "not"} => p < r.pos)

Parsers(input) ==
  {f \in [Starts(input) -> Outcomes(input)] :
     \A rule \in Rules, p \in Positions(input), left \in Expressions :
       Stops(input, rule, p, f[<<rule, p, left>>])}

LEMMA OutcomeIs ==
  ASSUME NEW input, NEW r \in Outcomes(input)
  PROVE  /\ r.ok \in BOOLEAN
         /\ r.ok => r.pos \in Positions(input) /\ r.expr \in Expressions /\ r = At(r.pos, r.expr)
         /\ ~r.ok => r = Failed
<1>1. CASE r = Failed
  BY <1>1 DEF Failed
<1>2. CASE r \in [ok : {TRUE}, pos : 1 .. Len(input) + 1, expr : Expressions]
  <2>1. r.ok = TRUE /\ r.pos \in Positions(input) /\ r.expr \in Expressions
    BY <1>2 DEF Positions
  <2>2. r = At(r.pos, r.expr)
    BY <1>2 DEF At
  <2>3. QED
    BY <2>1, <2>2
<1>3. QED
  BY <1>1, <1>2 DEF Outcomes

LEMMA AtIs ==
  ASSUME NEW input, NEW p \in Positions(input), NEW e \in Expressions
  PROVE  /\ At(p, e) \in Outcomes(input) /\ At(p, e).ok = TRUE /\ At(p, e).pos = p
         /\ At(p, e).expr = e
BY DEF Outcomes, At, Positions

LEMMA AtStops ==
  ASSUME NEW input, NEW rule, NEW p, NEW q \in Positions(input), NEW e \in Expressions,
         p <= q, rule \in {"or", "and", "not"} => p < q
  PROVE  Stops(input, rule, p, At(q, e))
BY AtIs DEF Stops

LEMMA AtHas == \A p, e : At(p, e).ok = TRUE /\ At(p, e).pos = p /\ At(p, e).expr = e
BY DEF At

LEMMA FailedIs == \A input : Failed \in Outcomes(input) /\ Failed.ok = FALSE
BY DEF Outcomes, Failed

LEMMA NextPosition ==
  ASSUME NEW input, Len(input) \in Nat, NEW p \in Positions(input), p <= Len(input)
  PROVE  p + 1 \in Positions(input)
BY DEF Positions

LEMMA PeekIs ==
  ASSUME NEW input, Len(input) \in Nat, NEW p \in Positions(input), Peek(input, p) # ""
  PROVE  p <= Len(input) /\ p + 1 \in Positions(input) /\ input[p] = Peek(input, p)
         /\ input[p] \in Operators
<1>1. p <= Len(input) /\ input[p] \in Operators
  BY DEF Peek
<1>2. p + 1 \in Positions(input)
  BY <1>1, NextPosition
<1>3. input[p] = Peek(input, p)
  BY <1>1, Zenon DEF Peek
<1>4. QED
  BY <1>1, <1>2, <1>3

LEMMA SignsPeeked ==
  ASSUME NEW input, Len(input) \in Nat, NEW p \in Positions(input)
  PROVE  \A c \in Chains : Sign(c) # "" /\ Sign(c) \in Operators
BY DEF Sign, Chains, Operators

\* What a rule at p may ask for: what is further on, and the operand of its chain at p.
Rank(rule) == IF rule = "or" THEN 2 ELSE IF rule = "and" THEN 1 ELSE 0
Ahead(x, q, rule, p) == p < q \/ (p = q /\ Rank(x) < Rank(rule))

LEMMA OperandAhead ==
  \A p : \A c \in Chains : Operand(c) \in Rules /\ Loop(c) \in Rules /\ Ahead(Operand(c), p, c, p)
BY DEF Chains, Operand, Loop, Rules, Ahead, Rank

LEMMA RuleStops ==
  ASSUME NEW input, Len(input) \in Nat, NEW f,
         NEW rule \in Rules, NEW p \in Positions(input), NEW left \in Expressions,
         \A x \in Rules, q \in Positions(input), e \in Expressions :
           Ahead(x, q, rule, p) => Stops(input, x, q, f[<<x, q, e>>])
  PROVE  Stops(input, rule, p, ParseRule(input, f, rule, p, left))
<1> DEFINE R(x, q, e) == f[<<x, q, e>>]
<1>1. \A x \in Rules, q \in Positions(input), e \in Expressions :
        Ahead(x, q, rule, p) => Stops(input, x, q, R(x, q, e))
  OBVIOUS
<1>2. \A x \in Rules, q \in Positions(input), e \in Expressions :
        Ahead(x, q, rule, p) =>
          /\ R(x, q, e).ok \in BOOLEAN
          /\ R(x, q, e).ok => /\ R(x, q, e).pos \in Positions(input)
                              /\ R(x, q, e).expr \in Expressions
                              /\ q <= R(x, q, e).pos
                              /\ x \in {"or", "and", "not"} => q < R(x, q, e).pos
  BY <1>1, OutcomeIs DEF Stops
<1>3. Stops(input, rule, p, Failed)
  BY FailedIs DEF Stops
<1>4. ASSUME NEW q \in Positions(input), NEW e \in Expressions,
             p <= q, rule \in {"or", "and", "not"} => p < q
      PROVE  Stops(input, rule, p, At(q, e))
  BY <1>4, AtStops
\* A loop that goes on from q.
<1>5. ASSUME NEW x \in {"or...", "and..."}, NEW q \in Positions(input), NEW e \in Expressions, p < q
      PROVE  Stops(input, rule, p, R(x, q, e))
  <2>1. Stops(input, x, q, R(x, q, e))
    BY <1>1, <1>5 DEF Rules, Ahead
  <2>2. R(x, q, e).ok => R(x, q, e).pos \in Positions(input) /\ q <= R(x, q, e).pos
    BY <1>2, <1>5 DEF Rules, Ahead
  <2>3. QED
    BY <1>5, <2>1, <2>2 DEF Stops, Positions
<1>6. ASSUME NEW c \in Chains, rule = c \/ rule = Loop(c)
      PROVE  Stops(input, rule, p, ParseRule(input, f, rule, p, left))
  <2>1. /\ Operand(c) \in Rules /\ Operand(c) \in {"or", "and", "not"}
        /\ Loop(c) \in {"or...", "and..."} /\ Ahead(Operand(c), p, c, p)
    BY OperandAhead DEF Operand, Loop
  <2>2. CASE rule = c
    <3> DEFINE r == R(Operand(c), p, left)
    <3>1. ParseRule(input, f, rule, p, left) = IF r.ok THEN R(Loop(c), r.pos, r.expr) ELSE Failed
      BY <2>2, ChainIs
    <3>2. r.ok => r.pos \in Positions(input) /\ r.expr \in Expressions /\ p < r.pos
      BY <1>2, <2>1, <2>2
    <3> HIDE DEF r, R
    <3>3. QED
      BY <1>3, <1>5, <2>1, <3>1, <3>2
  <2>3. CASE rule = Loop(c) /\ Peek(input, p) # Sign(c)
    <3>1. ParseRule(input, f, rule, p, left) = At(p, left)
      <4>1. ParseRule(input, f, Loop(c), p, left) =
              IF Peek(input, p) # Sign(c) THEN At(p, left)
              ELSE LET r == f[<<Operand(c), p + 1, left>>]
                   IN  IF r.ok THEN f[<<Loop(c), r.pos, Joined(c, left, r.expr)>>] ELSE Failed
        BY ChainIs
      <4>2. QED
        BY <2>3, <4>1, Zenon
    <3>2. rule \notin {"or", "and", "not"} /\ p <= p
      BY <2>1, <2>3 DEF Positions
    <3>3. QED
      BY <1>4, <3>1, <3>2
  <2>4. CASE rule = Loop(c) /\ Peek(input, p) = Sign(c)
    <3> DEFINE r == R(Operand(c), p + 1, left)
    <3>1. ParseRule(input, f, rule, p, left) =
            IF r.ok THEN R(Loop(c), r.pos, Joined(c, left, r.expr)) ELSE Failed
      BY <2>4, ChainIs
    <3>2. p + 1 \in Positions(input)
      BY <2>4, PeekIs, SignsPeeked
    <3>3. r.ok => r.pos \in Positions(input) /\ r.expr \in Expressions /\ p + 1 < r.pos
      <4>1. Ahead(Operand(c), p + 1, rule, p)
        BY DEF Ahead, Positions
      <4>2. QED
        BY <1>2, <2>1, <3>2, <4>1
    <3>4. r.ok => p < r.pos
      BY <3>3 DEF Positions
    <3> HIDE DEF r, R
    <3>5. QED
      BY <1>3, <1>5, <2>1, <3>1, <3>3, <3>4, ExpressionsClosed
  <2>5. QED
    BY <1>6, <2>2, <2>3, <2>4
<1>7. CASE rule = "not"
  <2>1. CASE Peek(input, p) = "!"
    <3> DEFINE r == R("not", p + 1, left)
    <3> Ahead("not", p + 1, rule, p)
      BY DEF Ahead, Positions
    <3>1. ParseRule(input, f, rule, p, left) = IF r.ok THEN At(r.pos, Not(r.expr)) ELSE Failed
      BY <1>7, <2>1, NotIs
    <3>2. p + 1 \in Positions(input)
      BY <2>1, PeekIs
    <3>3. r.ok => r.pos \in Positions(input) /\ r.expr \in Expressions /\ p + 1 < r.pos
      BY <1>2, <3>2 DEF Rules
    <3>4. r.ok => p < r.pos /\ p <= r.pos
      BY <3>3 DEF Positions
    <3> HIDE DEF r, R
    <3>5. QED
      BY <1>3, <1>4, <3>1, <3>3, <3>4, ExpressionsClosed
  <2>2. CASE Peek(input, p) = "("
    <3> DEFINE r == R("or", p + 1, left)
    <3> Ahead("or", p + 1, rule, p)
      BY DEF Ahead, Positions
    <3>1. ParseRule(input, f, rule, p, left) =
            IF r.ok /\ Peek(input, r.pos) = ")" THEN At(r.pos + 1, r.expr) ELSE Failed
      BY <1>7, <2>2, NotIs
    <3>2. p + 1 \in Positions(input)
      BY <2>2, PeekIs
    <3>3. r.ok => r.pos \in Positions(input) /\ r.expr \in Expressions /\ p + 1 < r.pos
      BY <1>2, <3>2 DEF Rules
    <3>4. r.ok => p < r.pos + 1 /\ p <= r.pos + 1
      BY <3>3 DEF Positions
    <3>5. r.ok /\ Peek(input, r.pos) = ")" => r.pos + 1 \in Positions(input)
      <4> HIDE DEF r
      <4>1. QED
        BY <3>3, PeekIs
    <3> HIDE DEF r, R
    <3>6. QED
      BY <1>3, <1>4, <3>1, <3>3, <3>4, <3>5, ExpressionsClosed
  <2>3. CASE Peek(input, p) # "!" /\ Peek(input, p) # "("
    <3>1. ParseRule(input, f, rule, p, left) =
            IF p <= Len(input) /\ input[p] \in DOMAIN Call THEN At(p + 1, CallExpr(input[p])) ELSE Failed
      BY <1>7, <2>3, NotIs
    <3>2. p <= Len(input) => p + 1 \in Positions(input) /\ p < p + 1 /\ p <= p + 1
      BY DEF Positions
    <3>3. QED
      BY <1>3, <1>4, <3>1, <3>2, ExpressionsClosed
  <2>4. QED
    BY <2>1, <2>2, <2>3
<1>8. rule = "not" \/ \E c \in Chains : rule = c \/ rule = Loop(c)
  BY DEF Rules, Chains, Loop
<1>9. QED
  BY <1>6, <1>7, <1>8

\* It asks for nothing else.
LEMMA RuleLocal ==
  ASSUME NEW input, Len(input) \in Nat, NEW f, NEW g,
         NEW rule \in Rules, NEW p \in Positions(input), NEW left \in Expressions,
         \A x \in Rules, q \in Positions(input), e \in Expressions :
           Ahead(x, q, rule, p) =>
             Stops(input, x, q, f[<<x, q, e>>]) /\ f[<<x, q, e>>] = g[<<x, q, e>>]
  PROVE  ParseRule(input, f, rule, p, left) = ParseRule(input, g, rule, p, left)
<1> DEFINE R(x, q, e) == f[<<x, q, e>>]
           Q(x, q, e) == g[<<x, q, e>>]
<1>1. \A x \in Rules, q \in Positions(input), e \in Expressions :
        Ahead(x, q, rule, p) =>
          /\ R(x, q, e) = Q(x, q, e)
          /\ R(x, q, e).ok => /\ R(x, q, e).pos \in Positions(input)
                              /\ R(x, q, e).expr \in Expressions
                              /\ x \in {"or", "and", "not"} => q < R(x, q, e).pos
  BY OutcomeIs DEF Stops
<1>2. ASSUME NEW x \in Rules, NEW q \in Positions(input), NEW e \in Expressions, p < q
      PROVE  /\ R(x, q, e) = Q(x, q, e)
             /\ R(x, q, e).ok => /\ R(x, q, e).pos \in Positions(input)
                                 /\ R(x, q, e).expr \in Expressions
                                 /\ x \in {"or", "and", "not"} => p < R(x, q, e).pos
  <2>1. Ahead(x, q, rule, p)
    BY <1>2 DEF Ahead
  <2>2. QED
    BY <1>1, <1>2, <2>1 DEF Positions
<1>3. p <= Len(input) => p + 1 \in Positions(input) /\ p < p + 1
  BY NextPosition DEF Positions
<1>4. ASSUME NEW c \in Chains, rule = c
      PROVE  ParseRule(input, f, rule, p, left) = ParseRule(input, g, rule, p, left)
  <2> DEFINE r == R(Operand(c), p, left)
  <2>1. Operand(c) \in Rules /\ Loop(c) \in Rules /\ Ahead(Operand(c), p, rule, p)
        /\ Operand(c) \in {"or", "and", "not"}
    BY <1>4, OperandAhead DEF Operand
  <2>2. r = Q(Operand(c), p, left)
        /\ (r.ok => r.pos \in Positions(input) /\ r.expr \in Expressions /\ p < r.pos)
    BY <1>1, <2>1
  <2>3. r.ok => R(Loop(c), r.pos, r.expr) = Q(Loop(c), r.pos, r.expr)
    <3> HIDE DEF r, R, Q
    <3>1. QED
      BY <1>2, <2>1, <2>2
  <2>4. ParseRule(input, f, rule, p, left) = IF r.ok THEN R(Loop(c), r.pos, r.expr) ELSE Failed
    BY <1>4, ChainIs
  <2>5. ParseRule(input, g, rule, p, left) =
          LET t == Q(Operand(c), p, left) IN IF t.ok THEN Q(Loop(c), t.pos, t.expr) ELSE Failed
    BY <1>4, ChainIs
  <2> HIDE DEF r, R, Q
  <2>6. QED
    BY <2>2, <2>3, <2>4, <2>5
<1>5. ASSUME NEW c \in Chains, rule = Loop(c)
      PROVE  ParseRule(input, f, rule, p, left) = ParseRule(input, g, rule, p, left)
  <2> DEFINE r == R(Operand(c), p + 1, left)
  <2>1. Operand(c) \in Rules /\ Loop(c) \in Rules /\ Operand(c) \in {"or", "and", "not"}
    BY OperandAhead DEF Operand
  <2>2. ParseRule(input, f, rule, p, left) =
          IF Peek(input, p) # Sign(c) THEN At(p, left)
          ELSE IF r.ok THEN R(Loop(c), r.pos, Joined(c, left, r.expr)) ELSE Failed
    BY <1>5, ChainIs
  <2>3. ParseRule(input, g, rule, p, left) =
          IF Peek(input, p) # Sign(c) THEN At(p, left)
          ELSE LET t == Q(Operand(c), p + 1, left)
               IN  IF t.ok THEN Q(Loop(c), t.pos, Joined(c, left, t.expr)) ELSE Failed
    BY <1>5, ChainIs
  <2>4. CASE Peek(input, p) = Sign(c)
    <3>1. p + 1 \in Positions(input) /\ p < p + 1
      BY <1>3, <2>4, PeekIs, SignsPeeked
    <3>2. r = Q(Operand(c), p + 1, left)
          /\ (r.ok => r.pos \in Positions(input) /\ r.expr \in Expressions /\ p < r.pos)
      BY <1>2, <2>1, <3>1
    <3>3. r.ok => R(Loop(c), r.pos, Joined(c, left, r.expr)) = Q(Loop(c), r.pos, Joined(c, left, r.expr))
      <4> HIDE DEF r, R, Q
      <4>1. QED
        BY <1>2, <2>1, <3>2, ExpressionsClosed
    <3> HIDE DEF r, R, Q
    <3>4. QED
      BY <2>2, <2>3, <2>4, <3>2, <3>3
  <2>5. CASE Peek(input, p) # Sign(c)
    <3> HIDE DEF r, R, Q
    <3>1. QED
      BY <2>2, <2>3, <2>5
  <2>6. QED
    BY <2>4, <2>5
<1>6. CASE rule = "not"
  <2>1. /\ Peek(input, p) = "!" => R("not", p + 1, left) = Q("not", p + 1, left)
        /\ Peek(input, p) = "(" => R("or", p + 1, left) = Q("or", p + 1, left)
    <3> HIDE DEF R, Q
    <3>1. Peek(input, p) \in {"!", "("} => p + 1 \in Positions(input) /\ p < p + 1
      BY <1>3, PeekIs
    <3>2. QED
      BY <1>2, <3>1 DEF Rules
  <2>2. ParseRule(input, f, rule, p, left) =
          IF Peek(input, p) = "!"
          THEN LET r == R("not", p + 1, left) IN IF r.ok THEN At(r.pos, Not(r.expr)) ELSE Failed
          ELSE IF Peek(input, p) = "("
          THEN LET r == R("or", p + 1, left)
               IN  IF r.ok /\ Peek(input, r.pos) = ")" THEN At(r.pos + 1, r.expr) ELSE Failed
          ELSE IF p <= Len(input) /\ input[p] \in DOMAIN Call
               THEN At(p + 1, CallExpr(input[p])) ELSE Failed
    BY <1>6, NotIs
  <2>3. ParseRule(input, g, rule, p, left) =
          IF Peek(input, p) = "!"
          THEN LET r == Q("not", p + 1, left) IN IF r.ok THEN At(r.pos, Not(r.expr)) ELSE Failed
          ELSE IF Peek(input, p) = "("
          THEN LET r == Q("or", p + 1, left)
               IN  IF r.ok /\ Peek(input, r.pos) = ")" THEN At(r.pos + 1, r.expr) ELSE Failed
          ELSE IF p <= Len(input) /\ input[p] \in DOMAIN Call
               THEN At(p + 1, CallExpr(input[p])) ELSE Failed
    BY <1>6, NotIs
  <2> HIDE DEF R, Q
  <2>4. CASE Peek(input, p) = "!"
    BY <2>1, <2>2, <2>3, <2>4
  <2>5. CASE Peek(input, p) = "("
    BY <2>1, <2>2, <2>3, <2>5
  <2>6. CASE Peek(input, p) # "!" /\ Peek(input, p) # "("
    BY <2>2, <2>3, <2>6
  <2>7. QED
    BY <2>4, <2>5, <2>6
<1>7. rule = "not" \/ \E c \in Chains : rule = c \/ rule = Loop(c)
  BY DEF Rules, Chains, Loop
<1>8. QED
  BY <1>4, <1>5, <1>6, <1>7

Size(input, rule, p) == 3 * (Len(input) + 1 - p) + Rank(rule)

LEMMA SizeIs ==
  ASSUME NEW input, Len(input) \in Nat
  PROVE  /\ \A rule \in Rules, p \in Positions(input) :
              Size(input, rule, p) \in Nat /\ Size(input, rule, p) \in 0 .. 3 * Len(input) + 2
         /\ \A rule \in Rules, x \in Rules, p \in Positions(input), q \in Positions(input) :
              Ahead(x, q, rule, p) <=> Size(input, x, q) < Size(input, rule, p)
<1>1. \A rule : Rank(rule) \in 0 .. 2
  BY DEF Rank
<1> DEFINE n == Len(input)
<1>2. n \in Nat
  OBVIOUS
<1> HIDE DEF n
<1>3. ASSUME NEW p \in Positions(input)
      PROVE  p \in 1 .. n + 1 /\ \A rule : Size(input, rule, p) = 3 * (n + 1 - p) + Rank(rule)
  <2>1. \A rule : Size(input, rule, p) = 3 * (n + 1 - p) + Rank(rule)
    BY Zenon DEF n, Size
  <2>2. p \in 1 .. n + 1
    BY DEF n, Positions
  <2>3. QED
    BY <2>1, <2>2
<1>4. 3 * Len(input) + 2 = 3 * n + 2
  BY DEF n
<1>5. ASSUME NEW rule \in Rules, NEW p \in Positions(input)
      PROVE  Size(input, rule, p) \in 0 .. 3 * Len(input) + 2
  <2>1. 3 * (n + 1 - p) + Rank(rule) \in 0 .. 3 * n + 2
    BY <1>1, <1>2, <1>3
  <2>2. QED
    BY <1>3, <1>4, <2>1
<1>6. \A rule \in Rules, p \in Positions(input) : Size(input, rule, p) \in Nat
  BY <1>5
<1>7. ASSUME NEW rule \in Rules, NEW x \in Rules, NEW p \in Positions(input), NEW q \in Positions(input)
      PROVE  Ahead(x, q, rule, p) <=> Size(input, x, q) < Size(input, rule, p)
  <2>1. p \in 1 .. n + 1 /\ q \in 1 .. n + 1
    BY <1>3
  <2>2. (p < q \/ (p = q /\ Rank(x) < Rank(rule)))
          <=> 3 * (n + 1 - q) + Rank(x) < 3 * (n + 1 - p) + Rank(rule)
    BY <1>1, <1>2, <2>1
  <2>3. QED
    BY <1>3, <2>2 DEF Ahead
<1>8. QED
  BY <1>5, <1>6, <1>7

LEMMA StartIs ==
  ASSUME NEW input
  PROVE  /\ \A rule \in Rules, p \in Positions(input), left \in Expressions :
              /\ <<rule, p, left>> \in Starts(input)
              /\ <<rule, p, left>>[1] = rule /\ <<rule, p, left>>[2] = p /\ <<rule, p, left>>[3] = left
         /\ \A start \in Starts(input) :
              /\ start[1] \in Rules /\ start[2] \in Positions(input) /\ start[3] \in Expressions
              /\ start = <<start[1], start[2], start[3]>>
BY DEF Starts, Positions

\* The recursion of Descend.
Parses(input, f) ==
  f = [start \in Starts(input) |-> ParseRule(input, f, start[1], start[2], start[3])]

\* What its functions return stops behind where they start.
LEMMA ParseStops ==
  ASSUME NEW input, Len(input) \in Nat, NEW f, Parses(input, f)
  PROVE  \A rule \in Rules, p \in Positions(input), left \in Expressions :
           /\ f[<<rule, p, left>>] = ParseRule(input, f, rule, p, left)
           /\ Stops(input, rule, p, f[<<rule, p, left>>])
<1>1. \A rule \in Rules, p \in Positions(input), left \in Expressions :
        f[<<rule, p, left>>] = ParseRule(input, f, rule, p, left)
  <2>1. \A start \in Starts(input) :
          f[start] = ParseRule(input, f, start[1], start[2], start[3])
    BY Zenon DEF Parses
  <2>2. ASSUME NEW rule \in Rules, NEW p \in Positions(input), NEW left \in Expressions
        PROVE  f[<<rule, p, left>>] = ParseRule(input, f, rule, p, left)
    <3> DEFINE start == <<rule, p, left>>
    <3>1. start \in Starts(input) /\ start[1] = rule /\ start[2] = p /\ start[3] = left
      BY StartIs, Zenon
    <3> HIDE DEF start
    <3>2. f[start] = ParseRule(input, f, rule, p, left)
      BY <2>1, <3>1
    <3>3. QED
      BY <3>2 DEF start
  <2>3. QED
    BY <2>2
<1> DEFINE S == {n \in Nat : \A rule \in Rules, p \in Positions(input), left \in Expressions :
                   Size(input, rule, p) < n => Stops(input, rule, p, f[<<rule, p, left>>])}
<1>2. 0 \in S
  <2>1. ASSUME NEW rule \in Rules, NEW p \in Positions(input) PROVE ~(Size(input, rule, p) < 0)
    <3>1. Size(input, rule, p) \in Nat
      BY SizeIs, Zenon
    <3>2. QED
      BY <3>1
  <2>2. QED
    BY <2>1
<1>3. ASSUME NEW n \in S PROVE n + 1 \in S
  <2>1. ASSUME NEW rule \in Rules, NEW p \in Positions(input), NEW left \in Expressions,
               Size(input, rule, p) < n + 1
        PROVE  Stops(input, rule, p, f[<<rule, p, left>>])
    <3>1. ASSUME NEW x \in Rules, NEW q \in Positions(input), NEW e \in Expressions,
                 Ahead(x, q, rule, p)
          PROVE  Stops(input, x, q, f[<<x, q, e>>])
      <4>1. Size(input, x, q) < Size(input, rule, p)
        BY <3>1, SizeIs, Zenon
      <4>2. Size(input, x, q) \in Nat /\ Size(input, rule, p) \in Nat
        BY SizeIs, Zenon
      <4>3. Size(input, x, q) < n
        BY <2>1, <4>1, <4>2
      <4>4. QED
        BY <4>3
    <3>2. Stops(input, rule, p, ParseRule(input, f, rule, p, left))
      BY <3>1, RuleStops
    <3>3. QED
      BY <1>1, <3>2
  <2>2. QED
    BY <2>1
<1> HIDE DEF S
<1>4. S = Nat
  <2>1. S \in SUBSET Nat
    BY DEF S
  <2>2. QED
    BY <1>2, <1>3, <2>1, Induction
<1>5. ASSUME NEW rule \in Rules, NEW p \in Positions(input), NEW left \in Expressions
      PROVE  Stops(input, rule, p, f[<<rule, p, left>>])
  <2>1. Size(input, rule, p) + 1 \in S /\ Size(input, rule, p) < Size(input, rule, p) + 1
    <3>1. Size(input, rule, p) \in Nat
      BY SizeIs, Zenon
    <3>2. QED
      BY <1>4, <3>1
  <2>2. QED
    BY <2>1 DEF S
<1>6. QED
  BY <1>1, <1>5

\* The recursion of the parser ends: each function calls those that start further on, or whose
\* rule is closer to the operands.
LEMMA ParserExists ==
  ASSUME NEW input, Len(input) \in Nat
  PROVE  \E f : Parses(input, f)
<1> DEFINE D == Starts(input)
           size == [start \in D |-> Size(input, start[1], start[2])]
           Advance(f) == [start \in D |-> ParseRule(input, f, start[1], start[2], start[3])]
           W == {f \in [D -> Outcomes(input)] :
                   \A rule \in Rules, p \in Positions(input), left \in Expressions :
                     Stops(input, rule, p, f[<<rule, p, left>>])}
           F == [f \in W |-> Advance(f)]
<1>1. 3 * Len(input) + 2 \in Nat /\ \A start \in D : size[start] \in 0 .. 3 * Len(input) + 2
  <2>1. 3 * Len(input) + 2 \in Nat
    OBVIOUS
  <2>2. ASSUME NEW start \in D PROVE size[start] \in 0 .. 3 * Len(input) + 2
    <3>1. start[1] \in Rules /\ start[2] \in Positions(input)
      BY StartIs, Zenon
    <3>2. Size(input, start[1], start[2]) \in 0 .. 3 * Len(input) + 2
      BY <3>1, SizeIs, Zenon
    <3>3. QED
      BY <3>2
  <2>3. QED
    BY <2>1, <2>2
<1>2. W # {}
  <2> DEFINE f == [start \in D |-> Failed]
  <2>1. f \in [D -> Outcomes(input)]
    BY FailedIs
  <2>2. \A rule \in Rules, p \in Positions(input), left \in Expressions :
          Stops(input, rule, p, f[<<rule, p, left>>])
    BY FailedIs, StartIs DEF Stops
  <2>3. QED
    BY <2>1, <2>2
<1>3. ASSUME NEW f \in W PROVE F[f] \in W
  <2>1. \A rule \in Rules, p \in Positions(input), left \in Expressions :
          Stops(input, rule, p, ParseRule(input, f, rule, p, left))
    BY RuleStops
  <2>2. F[f] = Advance(f)
    OBVIOUS
  <2>3. Advance(f) \in [D -> Outcomes(input)]
    BY <2>1, StartIs DEF Stops
  <2>4. \A rule \in Rules, p \in Positions(input), left \in Expressions :
          Stops(input, rule, p, Advance(f)[<<rule, p, left>>])
    BY <2>1, StartIs
  <2> HIDE DEF F, Advance
  <2>5. QED
    BY <2>2, <2>3, <2>4
<1>4. ASSUME NEW f \in W, NEW g \in W, NEW start \in D,
             \A y \in D : size[y] < size[start] => f[y] = g[y]
      PROVE  F[f][start] = F[g][start]
  <2>1. start[1] \in Rules /\ start[2] \in Positions(input) /\ start[3] \in Expressions
    BY StartIs
  <2>2. ASSUME NEW x \in Rules, NEW q \in Positions(input), NEW e \in Expressions,
               Ahead(x, q, start[1], start[2])
        PROVE  Stops(input, x, q, f[<<x, q, e>>]) /\ f[<<x, q, e>>] = g[<<x, q, e>>]
    <3>1. <<x, q, e>> \in D /\ size[<<x, q, e>>] < size[start]
      <4>1. Size(input, x, q) < Size(input, start[1], start[2])
        BY <2>1, <2>2, SizeIs, Zenon
      <4>2. <<x, q, e>> \in D /\ <<x, q, e>>[1] = x /\ <<x, q, e>>[2] = q
        BY StartIs, Zenon
      <4>3. size[<<x, q, e>>] = Size(input, x, q) /\ size[start] = Size(input, start[1], start[2])
        <5>1. \A y \in D : size[y] = Size(input, y[1], y[2])
          OBVIOUS
        <5> HIDE DEF size
        <5>2. QED
          BY <4>2, <5>1
      <4>4. QED
        BY <4>1, <4>2, <4>3
    <3>2. QED
      BY <1>4, <3>1
  <2>3. ParseRule(input, f, start[1], start[2], start[3])
          = ParseRule(input, g, start[1], start[2], start[3])
    <3> HIDE DEF D, size, W, F, Advance
    <3>1. QED
      BY <2>1, <2>2, RuleLocal
  <2>4. QED
    BY <2>3
<1> HIDE DEF W, F, size
<1>5. PICK f \in W : \A start \in D : F[f][start] = f[start]
  <2> HIDE DEF D
  <2>1. \A f, g \in W : \A x \in D :
           (\A y \in D : size[y] < size[x] => f[y] = g[y]) => F[f][x] = F[g][x]
    BY <1>4
  <2>2. \A f \in W : F[f] \in W
    BY <1>3
  <2> DEFINE bound == 3 * Len(input) + 2
  <2>3. bound \in Nat /\ \A start \in D : size[start] \in 0 .. bound
    BY <1>1
  <2> HIDE DEF bound
  <2>4. Recursive(D, size, bound, W, F)
    BY <1>2, <2>1, <2>2, <2>3, Zenon DEF Recursive
  <2>5. \E f \in W : \A start \in D : F[f][start] = f[start]
    BY <2>4, Recursion
  <2>6. QED
    BY <2>5
<1>6. F[f] = Advance(f) /\ f = [start \in D |-> f[start]]
  BY DEF F, W
<1>7. f = Advance(f)
  BY <1>5, <1>6
<1>8. QED
  BY <1>7 DEF Parses

\* So it is defined, and returns what its rules say.
LEMMA DescendIs ==
  ASSUME NEW input, Len(input) \in Nat
  PROVE  \E f : /\ Descend(input) = f[<<"or", 1, [c \in Claims |-> "error"]>>]
                /\ \A rule \in Rules, p \in Positions(input), left \in Expressions :
                     /\ f[<<rule, p, left>>] = ParseRule(input, f, rule, p, left)
                     /\ Stops(input, rule, p, f[<<rule, p, left>>])
<1> DEFINE f == CHOOSE f : Parses(input, f)
<1>1. Parses(input, f)
  BY ParserExists
<1>2. Descend(input) = f[<<"or", 1, [c \in Claims |-> "error"]>>]
  BY DEF Descend, Parses
<1> HIDE DEF f
<1>3. QED
  BY <1>1, <1>2, ParseStops

-----------------------------------------------------------------------------
\* The grammar, one reading at a time.
Readers(input) == [Spans(input) -> SUBSET Expressions]
Ends(input) == 0 .. Len(input)

Phrases == {"or", "and", "not"}

LEMMA SpanIs ==
  ASSUME NEW input
  PROVE  /\ \A rule \in Phrases, i \in Positions(input), j \in Ends(input) :
              /\ <<rule, i, j>> \in Spans(input)
              /\ <<rule, i, j>>[1] = rule /\ <<rule, i, j>>[2] = i /\ <<rule, i, j>>[3] = j
         /\ \A span \in Spans(input) :
              /\ span[1] \in Phrases /\ span[2] \in Positions(input)
              /\ span[3] \in Ends(input)
              /\ span = <<span[1], span[2], span[3]>>
BY DEF Spans, Positions, Ends, Phrases

\* e is a chain of operands from i to j: one, or a chain and another after its operator.
Chained(input, read, c, i, j, e) ==
  /\ i <= j
  /\ \/ e \in read[<<Operand(c), i, j>>]
     \/ \E k \in i + 1 .. j - 1 :
          /\ input[k] = Sign(c)
          /\ \E l \in read[<<c, i, k - 1>>], r \in read[<<Operand(c), k + 1, j>>] : e = Joined(c, l, r)

LEMMA ChainRead ==
  ASSUME NEW input, NEW read, NEW c \in Chains, NEW i \in Nat, NEW j \in Nat, NEW e
  PROVE  e \in ReadRule(input, read, c, i, j) <=> Chained(input, read, c, i, j, e)
<1>1. CASE c = "or"
  <2>1. e \in ReadRule(input, read, "or", i, j) <=>
          /\ ~(i > j)
          /\ \/ e \in read[<<"and", i, j>>]
             \/ \E k \in i + 1 .. j - 1 :
                  /\ input[k] = "||"
                  /\ \E l \in read[<<"or", i, k - 1>>], r \in read[<<"and", k + 1, j>>] : e = Or(l, r)
    BY DEF ReadRule
  <2>2. Chained(input, read, "or", i, j, e) <=>
          /\ i <= j
          /\ \/ e \in read[<<"and", i, j>>]
             \/ \E k \in i + 1 .. j - 1 :
                  /\ input[k] = "||"
                  /\ \E l \in read[<<"or", i, k - 1>>], r \in read[<<"and", k + 1, j>>] : e = Or(l, r)
    BY DEF Chained, Operand, Sign, Joined
  <2>3. i <= j <=> ~(i > j)
    OBVIOUS
  <2>4. QED
    BY <1>1, <2>1, <2>2, <2>3
<1>2. CASE c = "and"
  <2>1. e \in ReadRule(input, read, "and", i, j) <=>
          /\ ~(i > j)
          /\ \/ e \in read[<<"not", i, j>>]
             \/ \E k \in i + 1 .. j - 1 :
                  /\ input[k] = "&&"
                  /\ \E l \in read[<<"and", i, k - 1>>], r \in read[<<"not", k + 1, j>>] : e = And(l, r)
    BY DEF ReadRule
  <2>2. Chained(input, read, "and", i, j, e) <=>
          /\ i <= j
          /\ \/ e \in read[<<"not", i, j>>]
             \/ \E k \in i + 1 .. j - 1 :
                  /\ input[k] = "&&"
                  /\ \E l \in read[<<"and", i, k - 1>>], r \in read[<<"not", k + 1, j>>] : e = And(l, r)
    BY DEF Chained, Operand, Sign, Joined
  <2>3. i <= j <=> ~(i > j)
    OBVIOUS
  <2>4. QED
    BY <1>2, <2>1, <2>2, <2>3
<1>3. QED
  BY <1>1, <1>2 DEF Chains

\* e is an operand of && from i to j.
Negated(input, read, i, j, e) ==
  /\ i <= j
  /\ \/ input[i] = "!" /\ \E f \in read[<<"not", i + 1, j>>] : e = Not(f)
     \/ input[i] = "(" /\ input[j] = ")" /\ i < j /\ e \in read[<<"or", i + 1, j - 1>>]
     \/ i = j /\ input[i] \in DOMAIN Call /\ e = CallExpr(input[i])

LEMMA NotRead ==
  ASSUME NEW input, NEW read, NEW i \in Nat, NEW j \in Nat, NEW e
  PROVE  e \in ReadRule(input, read, "not", i, j) <=> Negated(input, read, i, j, e)
<1>1. CASE i > j
  BY <1>1 DEF ReadRule, Negated
<1>2. CASE ~(i > j)
  <2>1. ReadRule(input, read, "not", i, j) =
          (IF input[i] = "!" THEN {Not(f) : f \in read[<<"not", i + 1, j>>]} ELSE {})
          \cup (IF input[i] = "(" /\ input[j] = ")" /\ i < j
                THEN read[<<"or", i + 1, j - 1>>] ELSE {})
          \cup (IF i = j /\ input[i] \in DOMAIN Call THEN {CallExpr(input[i])} ELSE {})
    BY <1>2 DEF ReadRule
  <2>2. QED
    BY <1>2, <2>1 DEF Negated
<1>3. QED
  BY <1>1, <1>2

\* What a reading from i to j is made of: readings of less.
Extent(rule, i, j) == IF i > j THEN 0 ELSE 3 * (j - i + 1) + Rank(rule)

LEMMA PartsWithin ==
  ASSUME NEW input, Len(input) \in Nat, NEW i \in Positions(input), NEW j \in Ends(input), i <= j
  PROVE  /\ i \in Nat /\ j \in Nat
         /\ \A c \in Chains :
              /\ Extent(Operand(c), i, j) < Extent(c, i, j)
              /\ \A k \in i + 1 .. j - 1 :
                   /\ k - 1 \in Ends(input) /\ k + 1 \in Positions(input)
                   /\ Extent(c, i, k - 1) < Extent(c, i, j)
                   /\ Extent(Operand(c), k + 1, j) < Extent(c, i, j)
         /\ i + 1 \in Positions(input) /\ j - 1 \in Ends(input)
         /\ Extent("not", i + 1, j) < Extent("not", i, j)
         /\ Extent("or", i + 1, j - 1) < Extent("not", i, j)
<1> DEFINE n == Len(input)
<1>1. n \in Nat /\ i \in 1 .. n + 1 /\ j \in 0 .. n
  BY DEF Positions, Ends
<1>2. \A rule : Rank(rule) \in 0 .. 2
  BY DEF Rank
<1>3. ASSUME NEW c \in Chains PROVE Rank(Operand(c)) < Rank(c)
  BY DEF Chains, Operand, Rank
<1> HIDE DEF n
<1>4. ASSUME NEW c \in Chains
      PROVE  /\ Extent(Operand(c), i, j) < Extent(c, i, j)
             /\ \A k \in i + 1 .. j - 1 :
                  /\ Extent(c, i, k - 1) < Extent(c, i, j)
                  /\ Extent(Operand(c), k + 1, j) < Extent(c, i, j)
  <2>1. Rank(c) \in 0 .. 2 /\ Rank(Operand(c)) \in 0 .. 2 /\ Rank(Operand(c)) < Rank(c)
    BY <1>2, <1>3
  <2>2. QED
    BY <1>1, <2>1 DEF Extent
<1>5. \A k \in i + 1 .. j - 1 : k - 1 \in 0 .. n /\ k + 1 \in 1 .. n + 1
  BY <1>1
<1>6. i + 1 \in 1 .. n + 1 /\ j - 1 \in 0 .. n
  BY <1>1
<1>7. /\ Extent("not", i + 1, j) < Extent("not", i, j)
      /\ Extent("or", i + 1, j - 1) < Extent("not", i, j)
  <2>1. Rank("not") = 0 /\ Rank("or") = 2
    BY DEF Rank
  <2>2. QED
    BY <1>1, <2>1 DEF Extent
<1>8. QED
  BY <1>1, <1>4, <1>5, <1>6, <1>7 DEF n, Positions, Ends

LEMMA ReadClosed ==
  ASSUME NEW input, Len(input) \in Nat, NEW f \in Readers(input),
         NEW rule \in Phrases, NEW i \in Positions(input), NEW j \in Ends(input)
  PROVE  ReadRule(input, f, rule, i, j) \in SUBSET Expressions
<1> SUFFICES ASSUME NEW e \in ReadRule(input, f, rule, i, j) PROVE e \in Expressions
  OBVIOUS
<1>1. \A x \in Phrases, q \in Positions(input), t \in Ends(input) :
        f[<<x, q, t>>] \in SUBSET Expressions
  BY SpanIs DEF Readers
<1>2. i \in Nat /\ j \in Nat
  BY DEF Positions, Ends
<1>3. CASE rule = "not"
  <2>1. Negated(input, f, i, j, e)
    BY <1>2, <1>3, NotRead
  <2>2. i + 1 \in Positions(input) /\ j - 1 \in Ends(input)
    BY <2>1, PartsWithin DEF Negated
  <2>3. QED
    BY <1>1, <2>1, <2>2, ExpressionsClosed DEF Negated, Phrases
<1>4. ASSUME NEW c \in Chains, rule = c PROVE e \in Expressions
  <2>1. Chained(input, f, c, i, j, e)
    BY <1>2, <1>4, ChainRead
  <2>2. \A k \in i + 1 .. j - 1 : k - 1 \in Ends(input) /\ k + 1 \in Positions(input)
    BY <2>1, PartsWithin DEF Chained
  <2>3. c \in Phrases /\ Operand(c) \in Phrases
    BY DEF Chains, Operand, Phrases
  <2>4. CASE e \in f[<<Operand(c), i, j>>]
    BY <1>1, <2>3, <2>4
  <2>5. ASSUME NEW k \in i + 1 .. j - 1,
               NEW l \in f[<<c, i, k - 1>>], NEW r \in f[<<Operand(c), k + 1, j>>], e = Joined(c, l, r)
        PROVE  e \in Expressions
    <3>1. l \in Expressions /\ r \in Expressions
      BY <1>1, <2>2, <2>3
    <3>2. QED
      BY <2>5, <3>1, ExpressionsClosed
  <2>6. QED
    BY <2>1, <2>4, <2>5 DEF Chained
<1>5. QED
  BY <1>3, <1>4 DEF Chains, Phrases

\* A reading asks for those of less only.
LEMMA ReadLocal ==
  ASSUME NEW input, Len(input) \in Nat, NEW f, NEW g,
         NEW rule \in Phrases, NEW i \in Positions(input), NEW j \in Ends(input),
         \A x \in Phrases, q \in Positions(input), t \in Ends(input) :
           Extent(x, q, t) < Extent(rule, i, j) => f[<<x, q, t>>] = g[<<x, q, t>>]
  PROVE  ReadRule(input, f, rule, i, j) = ReadRule(input, g, rule, i, j)
<1>1. i \in Nat /\ j \in Nat
  BY DEF Positions, Ends
<1>2. CASE rule = "not"
  <2>1. ASSUME NEW e PROVE Negated(input, f, i, j, e) <=> Negated(input, g, i, j, e)
    <3>1. CASE i <= j
      <4>1. /\ f[<<"not", i + 1, j>>] = g[<<"not", i + 1, j>>]
            /\ f[<<"or", i + 1, j - 1>>] = g[<<"or", i + 1, j - 1>>]
        BY <1>2, <3>1, PartsWithin DEF Phrases
      <4>2. QED
        BY <4>1 DEF Negated
    <3>2. CASE ~(i <= j)
      BY <3>2 DEF Negated
    <3>3. QED
      BY <3>1, <3>2
  <2>2. \A e : e \in ReadRule(input, f, rule, i, j) <=> e \in ReadRule(input, g, rule, i, j)
    BY <1>1, <1>2, <2>1, NotRead
  <2>3. QED
    BY <2>2, Zenon
<1>3. ASSUME NEW c \in Chains, rule = c
      PROVE  ReadRule(input, f, rule, i, j) = ReadRule(input, g, rule, i, j)
  <2>1. ASSUME NEW e PROVE Chained(input, f, c, i, j, e) <=> Chained(input, g, c, i, j, e)
    <3>1. CASE i <= j
      <4>1. c \in Phrases /\ Operand(c) \in Phrases
        BY DEF Chains, Operand, Phrases
      <4>2. f[<<Operand(c), i, j>>] = g[<<Operand(c), i, j>>]
        BY <1>3, <3>1, <4>1, PartsWithin
      <4>3. \A k \in i + 1 .. j - 1 :
              /\ f[<<c, i, k - 1>>] = g[<<c, i, k - 1>>]
              /\ f[<<Operand(c), k + 1, j>>] = g[<<Operand(c), k + 1, j>>]
        BY <1>3, <3>1, <4>1, PartsWithin
      <4>4. ASSUME NEW k \in i + 1 .. j - 1
            PROVE  (\E l \in f[<<c, i, k - 1>>], r \in f[<<Operand(c), k + 1, j>>] : e = Joined(c, l, r))
                   <=> \E l \in g[<<c, i, k - 1>>], r \in g[<<Operand(c), k + 1, j>>] : e = Joined(c, l, r)
        BY <4>3
      <4>5. QED
        BY <4>2, <4>4 DEF Chained
    <3>2. CASE ~(i <= j)
      BY <3>2 DEF Chained
    <3>3. QED
      BY <3>1, <3>2
  <2>2. \A e : e \in ReadRule(input, f, rule, i, j) <=> e \in ReadRule(input, g, rule, i, j)
    BY <1>1, <1>3, <2>1, ChainRead
  <2>3. QED
    BY <2>2, Zenon
<1>4. QED
  BY <1>2, <1>3 DEF Chains, Phrases

\* The recursion of Readings.
Reads(input, f) == f = [span \in Spans(input) |-> ReadRule(input, f, span[1], span[2], span[3])]

\* The grammar is defined by what shorter spans stand for, and by the rules below.
LEMMA ReaderExists ==
  ASSUME NEW input, Len(input) \in Nat
  PROVE  \E f : Reads(input, f)
<1> DEFINE D == Spans(input)
           size == [span \in D |-> Extent(span[1], span[2], span[3])]
           Advance(f) == [span \in D |-> ReadRule(input, f, span[1], span[2], span[3])]
           W == Readers(input)
           F == [f \in W |-> Advance(f)]
           bound == 3 * Len(input) + 2
<1>1. bound \in Nat /\ \A span \in D : size[span] \in 0 .. bound
  <2>1. ASSUME NEW span \in D PROVE size[span] \in 0 .. bound
    <3>1. span[2] \in Positions(input) /\ span[3] \in Ends(input)
      BY SpanIs, Zenon
    <3>2. Rank(span[1]) \in 0 .. 2
      BY DEF Rank
    <3>3. \A rule : \A i \in Positions(input), j \in Ends(input) :
            Rank(rule) \in 0 .. 2 => Extent(rule, i, j) \in 0 .. bound
      <4>1. ASSUME NEW rule, NEW i \in Positions(input), NEW j \in Ends(input),
                   Rank(rule) \in 0 .. 2
            PROVE  Extent(rule, i, j) \in 0 .. bound
        <5>1. CASE i > j
          BY <5>1 DEF Extent
        <5>2. CASE ~(i > j)
          <6> DEFINE k == Rank(rule)
          <6>1. Extent(rule, i, j) = 3 * (j - i + 1) + k
            BY <5>2 DEF Extent
          <6>2. k \in 0 .. 2
            BY <4>1
          <6> HIDE DEF k
          <6>3. QED
            BY <5>2, <6>1, <6>2 DEF Positions, Ends
        <5>3. QED
          BY <5>1, <5>2
      <4>2. QED
        BY <4>1
    <3>4. Extent(span[1], span[2], span[3]) \in 0 .. bound
      <4> HIDE DEF bound, D, size
      <4>1. QED
        BY <3>1, <3>2, <3>3, Zenon
    <3>5. QED
      BY <3>4
  <2>2. QED
    BY <2>1
<1>2. W # {}
  <2>1. [span \in D |-> {}] \in W
    BY DEF Readers
  <2>2. QED
    BY <2>1
<1>3. ASSUME NEW f \in W PROVE F[f] \in W
  <2>1. \A span \in D : ReadRule(input, f, span[1], span[2], span[3]) \in SUBSET Expressions
    BY ReadClosed, SpanIs
  <2>2. Advance(f) \in W
    BY <2>1 DEF Readers
  <2>3. QED
    BY <2>2
<1>4. ASSUME NEW f \in W, NEW g \in W, NEW span \in D,
             \A y \in D : size[y] < size[span] => f[y] = g[y]
      PROVE  F[f][span] = F[g][span]
  <2>1. span[1] \in Phrases /\ span[2] \in Positions(input) /\ span[3] \in Ends(input)
    BY SpanIs
  <2>2. ASSUME NEW x \in Phrases, NEW q \in Positions(input), NEW t \in Ends(input),
               Extent(x, q, t) < Extent(span[1], span[2], span[3])
        PROVE  f[<<x, q, t>>] = g[<<x, q, t>>]
    <3>1. <<x, q, t>> \in D /\ <<x, q, t>>[1] = x /\ <<x, q, t>>[2] = q /\ <<x, q, t>>[3] = t
      BY SpanIs, Zenon
    <3>2. \A y \in D : size[y] = Extent(y[1], y[2], y[3])
      OBVIOUS
    <3> HIDE DEF size
    <3>3. size[<<x, q, t>>] = Extent(x, q, t)
      BY <3>1, <3>2
    <3>4. QED
      BY <1>4, <2>2, <3>1, <3>2, <3>3
  <2>3. ReadRule(input, f, span[1], span[2], span[3]) = ReadRule(input, g, span[1], span[2], span[3])
    <3> HIDE DEF F, W, size, Advance, D
    <3>1. \A x \in Phrases, q \in Positions(input), t \in Ends(input) :
            Extent(x, q, t) < Extent(span[1], span[2], span[3]) => f[<<x, q, t>>] = g[<<x, q, t>>]
      BY <2>2
    <3>2. QED
      BY <2>1, <3>1, ReadLocal
  <2>4. QED
    BY <2>3
<1> HIDE DEF W, F, size, bound
<1>5. PICK f \in W : \A span \in D : F[f][span] = f[span]
  <2> HIDE DEF D
  <2>1. \A f, g \in W : \A x \in D :
           (\A y \in D : size[y] < size[x] => f[y] = g[y]) => F[f][x] = F[g][x]
    BY <1>4
  <2>2. \A f \in W : F[f] \in W
    BY <1>3
  <2>3. Recursive(D, size, bound, W, F)
    BY <1>1, <1>2, <2>1, <2>2, Zenon DEF Recursive
  <2>4. QED
    BY <2>3, Recursion
<1>6. F[f] = Advance(f) /\ f = [span \in D |-> f[span]]
  BY DEF F, W, Readers
<1>7. f = Advance(f)
  BY <1>5, <1>6
<1>8. QED
  BY <1>7 DEF Reads

LEMMA ReadingsAre ==
  ASSUME NEW input, Len(input) \in Nat
  PROVE  \E g : /\ Readings(input) = g[<<"or", 1, Len(input)>>]
                /\ \A i \in Positions(input), j \in Ends(input) : \A e :
                     /\ \A c \in Chains : e \in g[<<c, i, j>>] <=> Chained(input, g, c, i, j, e)
                     /\ e \in g[<<"not", i, j>>] <=> Negated(input, g, i, j, e)
<1> DEFINE g == CHOOSE f : Reads(input, f)
<1>1. Reads(input, g)
  BY ReaderExists
<1>2. Readings(input) = g[<<"or", 1, Len(input)>>]
  BY DEF Readings, Reads
<1> HIDE DEF g
<1>3. \A rule \in Phrases, i \in Positions(input), j \in Ends(input) :
        g[<<rule, i, j>>] = ReadRule(input, g, rule, i, j)
  <2>1. \A span \in Spans(input) : g[span] = ReadRule(input, g, span[1], span[2], span[3])
    BY <1>1, Zenon DEF Reads
  <2>2. ASSUME NEW rule \in Phrases, NEW i \in Positions(input), NEW j \in Ends(input)
        PROVE  g[<<rule, i, j>>] = ReadRule(input, g, rule, i, j)
    <3> DEFINE span == <<rule, i, j>>
    <3>1. span \in Spans(input) /\ span[1] = rule /\ span[2] = i /\ span[3] = j
      BY SpanIs, Zenon
    <3> HIDE DEF span
    <3>2. g[span] = ReadRule(input, g, rule, i, j)
      BY <2>1, <3>1
    <3>3. QED
      BY <3>2 DEF span
  <2>3. QED
    BY <2>2
<1>4. ASSUME NEW i \in Positions(input), NEW j \in Ends(input), NEW e
      PROVE  /\ \A c \in Chains : e \in g[<<c, i, j>>] <=> Chained(input, g, c, i, j, e)
             /\ e \in g[<<"not", i, j>>] <=> Negated(input, g, i, j, e)
  <2>1. i \in Nat /\ j \in Nat
    BY DEF Positions, Ends
  <2>2. g[<<"not", i, j>>] = ReadRule(input, g, "not", i, j)
        /\ \A c \in Chains : g[<<c, i, j>>] = ReadRule(input, g, c, i, j)
    BY <1>3 DEF Chains, Phrases
  <2>3. QED
    BY <2>1, <2>2, ChainRead, NotRead
<1>5. QED
  BY <1>2, <1>4

-----------------------------------------------------------------------------
\* f is the parser's recursion, g the grammar's.
Parsing(input, f) ==
  \A rule \in Rules, p \in Positions(input), left \in Expressions :
    /\ f[<<rule, p, left>>] = ParseRule(input, f, rule, p, left)
    /\ Stops(input, rule, p, f[<<rule, p, left>>])

Reading(input, g) ==
  \A i \in Positions(input), j \in Ends(input) : \A e :
    /\ \A c \in Chains : e \in g[<<c, i, j>>] <=> Chained(input, g, c, i, j, e)
    /\ e \in g[<<"not", i, j>>] <=> Negated(input, g, i, j, e)

\* The parser finds e from i to j, and goes on with it as the left side of a loop.
Finds(f, x, i, j, e) ==
  e \in Expressions /\ \A left \in Expressions : f[<<x, i, left>>] = At(j + 1, e)
GoesOn(f, c, i, j, e) ==
  e \in Expressions /\ \A left \in Expressions : f[<<c, i, left>>] = f[<<Loop(c), j + 1, e>>]

\* What follows at q is not a part of the last operand of c.
Over(input, c, q) == c = "or" => Peek(input, q) # "&&"

OperandsFound(input, f, g, c, i, j) ==
  Over(input, c, j + 1) => \A e \in g[<<Operand(c), i, j>>] : Finds(f, Operand(c), i, j, e)
ChainsFound(input, f, g, c, i, j) ==
  Over(input, c, j + 1) => \A e \in g[<<c, i, j>>] : GoesOn(f, c, i, j, e)
Complete(input, f, g, i, j) ==
  \A c \in Chains : OperandsFound(input, f, g, c, i, j) /\ ChainsFound(input, f, g, c, i, j)

LEMMA ChainParsed ==
  ASSUME NEW input, NEW f, Parsing(input, f), NEW c \in Chains, NEW p \in Positions(input),
         NEW left \in Expressions
  PROVE  /\ f[<<c, p, left>>] =
              LET r == f[<<Operand(c), p, left>>]
              IN  IF r.ok THEN f[<<Loop(c), r.pos, r.expr>>] ELSE Failed
         /\ f[<<Loop(c), p, left>>] =
              IF Peek(input, p) # Sign(c) THEN At(p, left)
              ELSE LET r == f[<<Operand(c), p + 1, left>>]
                   IN  IF r.ok THEN f[<<Loop(c), r.pos, Joined(c, left, r.expr)>>] ELSE Failed
<1>1. c \in Rules /\ Loop(c) \in Rules
  BY OperandAhead DEF Chains, Rules
<1>2. /\ f[<<c, p, left>>] = ParseRule(input, f, c, p, left)
      /\ f[<<Loop(c), p, left>>] = ParseRule(input, f, Loop(c), p, left)
  BY <1>1 DEF Parsing
<1>3. ParseRule(input, f, c, p, left) =
        LET r == f[<<Operand(c), p, left>>]
        IN  IF r.ok THEN f[<<Loop(c), r.pos, r.expr>>] ELSE Failed
  BY ChainIs
<1>4. ParseRule(input, f, Loop(c), p, left) =
        IF Peek(input, p) # Sign(c) THEN At(p, left)
        ELSE LET r == f[<<Operand(c), p + 1, left>>]
             IN  IF r.ok THEN f[<<Loop(c), r.pos, Joined(c, left, r.expr)>>] ELSE Failed
  BY ChainIs
<1>5. QED
  BY <1>2, <1>3, <1>4

\* A chain is over where its operator does not follow.
LEMMA LoopEnds ==
  ASSUME NEW input, NEW f, Parsing(input, f), NEW c \in Chains, NEW p \in Positions(input),
         NEW e \in Expressions, Peek(input, p) # Sign(c)
  PROVE  f[<<Loop(c), p, e>>] = At(p, e)
BY ChainParsed, Zenon

LEMMA NextEnd ==
  ASSUME NEW input, Len(input) \in Nat, NEW j \in Ends(input)
  PROVE  j + 1 \in Positions(input)
BY DEF Positions, Ends

LEMMA AndIsOperand ==
  ASSUME NEW input, Len(input) \in Nat, NEW f, NEW g, Parsing(input, f),
         NEW i \in Positions(input), NEW j \in Ends(input), ChainsFound(input, f, g, "and", i, j)
  PROVE  OperandsFound(input, f, g, "or", i, j)
<1>1. SUFFICES ASSUME Peek(input, j + 1) # "&&", NEW e \in g[<<"and", i, j>>]
               PROVE  Finds(f, "and", i, j, e)
  BY DEF OperandsFound, Over, Operand
<1>2. "and" \in Chains /\ Sign("and") = "&&" /\ Over(input, "and", j + 1)
  BY DEF Chains, Sign, Over
<1>3. GoesOn(f, "and", i, j, e)
  BY <1>2 DEF ChainsFound
<1>4. f[<<Loop("and"), j + 1, e>>] = At(j + 1, e)
  BY <1>1, <1>2, <1>3, LoopEnds, NextEnd DEF GoesOn
<1>5. QED
  BY <1>3, <1>4 DEF Finds, GoesOn

\* Peek sees an operator where there is one.
LEMMA Peeked ==
  ASSUME NEW input, NEW p, p <= Len(input)
  PROVE  /\ input[p] \in Operators => Peek(input, p) = input[p]
         /\ input[p] \notin Operators => Peek(input, p) = ""
BY DEF Peek

\* Where the parser finds every operand that there is and every shorter reading, it finds
\* every chain.
LEMMA ChainsComplete ==
  ASSUME NEW input, Len(input) \in Nat, NEW f, NEW g, Parsing(input, f), Reading(input, g),
         NEW i \in Positions(input), NEW j \in Ends(input), NEW c \in Chains,
         OperandsFound(input, f, g, c, i, j),
         \A q \in Positions(input), t \in Ends(input) : t - q < j - i => Complete(input, f, g, q, t)
  PROVE  ChainsFound(input, f, g, c, i, j)
<1>1. SUFFICES ASSUME Over(input, c, j + 1), NEW e \in g[<<c, i, j>>] PROVE GoesOn(f, c, i, j, e)
  BY DEF ChainsFound
<1>2. Chained(input, g, c, i, j, e)
  BY DEF Reading
<1>3. c \in Rules /\ Operand(c) \in Rules /\ Loop(c) \in Rules
  BY OperandAhead DEF Chains, Rules
<1>4. CASE e \in g[<<Operand(c), i, j>>]
  <2>1. Finds(f, Operand(c), i, j, e)
    BY <1>1, <1>4 DEF OperandsFound
  <2>2. ASSUME NEW left \in Expressions PROVE f[<<c, i, left>>] = f[<<Loop(c), j + 1, e>>]
    <3> DEFINE r == f[<<Operand(c), i, left>>]
    <3>1. f[<<c, i, left>>] = IF r.ok THEN f[<<Loop(c), r.pos, r.expr>>] ELSE Failed
      BY ChainParsed, Zenon
    <3>2. r.ok = TRUE /\ r.pos = j + 1 /\ r.expr = e
      <4>1. r = At(j + 1, e)
        BY <2>1 DEF Finds
      <4>2. QED
        BY <4>1, AtHas
    <3> HIDE DEF r
    <3>3. QED
      BY <3>1, <3>2
  <2>3. QED
    BY <2>1, <2>2 DEF Finds, GoesOn
<1>5. ASSUME NEW k \in i + 1 .. j - 1, input[k] = Sign(c),
             NEW l \in g[<<c, i, k - 1>>], NEW h \in g[<<Operand(c), k + 1, j>>], e = Joined(c, l, h)
      PROVE  GoesOn(f, c, i, j, e)
  <2>1. /\ k \in Positions(input) /\ k <= Len(input)
        /\ k - 1 \in Ends(input) /\ k + 1 \in Positions(input)
        /\ (k - 1) - i < j - i /\ j - (k + 1) < j - i /\ (k - 1) + 1 = k
    BY DEF Positions, Ends
  <2>2. Peek(input, k) = Sign(c)
    BY <1>5, <2>1, Peeked, SignsPeeked
  <2>3. GoesOn(f, c, i, k - 1, l)
    <3>1. Over(input, c, k)
      BY <2>2 DEF Over, Sign
    <3>2. Complete(input, f, g, i, k - 1)
      BY <2>1
    <3>3. QED
      BY <2>1, <3>1, <3>2 DEF Complete, ChainsFound
  <2>4. Finds(f, Operand(c), k + 1, j, h)
    <3>1. Complete(input, f, g, k + 1, j)
      BY <2>1
    <3>2. QED
      BY <1>1, <3>1 DEF Complete, OperandsFound
  <2>5. f[<<Loop(c), k, l>>] = f[<<Loop(c), j + 1, e>>]
    <3> DEFINE r == f[<<Operand(c), k + 1, l>>]
    <3>1. l \in Expressions
      BY <2>3 DEF GoesOn
    <3>2. f[<<Loop(c), k, l>>] =
            IF r.ok THEN f[<<Loop(c), r.pos, Joined(c, l, r.expr)>>] ELSE Failed
      BY <2>1, <2>2, <3>1, ChainParsed, Zenon
    <3>3. r.ok = TRUE /\ r.pos = j + 1 /\ r.expr = h
      <4>1. r = At(j + 1, h)
        BY <2>4, <3>1 DEF Finds
      <4>2. QED
        BY <4>1, AtHas
    <3> HIDE DEF r
    <3>4. QED
      BY <1>5, <3>2, <3>3
  <2>6. \A left \in Expressions : f[<<c, i, left>>] = f[<<Loop(c), k, l>>]
    BY <2>1, <2>3 DEF GoesOn
  <2>7. e \in Expressions
    BY <1>5, <2>3, <2>4, ExpressionsClosed DEF GoesOn, Finds
  <2>8. QED
    BY <2>5, <2>6, <2>7 DEF GoesOn
<1>6. QED
  BY <1>2, <1>4, <1>5 DEF Chained

\* ... and every operand.
LEMMA NotsComplete ==
  ASSUME NEW input, Len(input) \in Nat, NEW f, NEW g, Parsing(input, f), Reading(input, g),
         NEW i \in Positions(input), NEW j \in Ends(input),
         \A q \in Positions(input), t \in Ends(input) : t - q < j - i => Complete(input, f, g, q, t)
  PROVE  OperandsFound(input, f, g, "and", i, j)
<1>1. SUFFICES ASSUME NEW e \in g[<<"not", i, j>>] PROVE Finds(f, "not", i, j, e)
  BY DEF OperandsFound, Operand
<1>2. Negated(input, g, i, j, e)
  BY DEF Reading
<1>3. /\ i <= Len(input) /\ i + 1 \in Positions(input) /\ j + 1 \in Positions(input)
      /\ j - (i + 1) < j - i
  BY <1>2 DEF Negated, Positions, Ends
<1>4. ASSUME NEW left \in Expressions
      PROVE  f[<<"not", i, left>>] =
               IF Peek(input, i) = "!"
               THEN LET r == f[<<"not", i + 1, left>>]
                    IN  IF r.ok THEN At(r.pos, Not(r.expr)) ELSE Failed
               ELSE IF Peek(input, i) = "("
               THEN LET r == f[<<"or", i + 1, left>>]
                    IN  IF r.ok /\ Peek(input, r.pos) = ")" THEN At(r.pos + 1, r.expr) ELSE Failed
               ELSE IF i <= Len(input) /\ input[i] \in DOMAIN Call
                    THEN At(i + 1, CallExpr(input[i])) ELSE Failed
  <2>1. f[<<"not", i, left>>] = ParseRule(input, f, "not", i, left)
    BY DEF Parsing, Rules
  <2>2. ParseRule(input, f, "not", i, left) =
               IF Peek(input, i) = "!"
               THEN LET r == f[<<"not", i + 1, left>>]
                    IN  IF r.ok THEN At(r.pos, Not(r.expr)) ELSE Failed
               ELSE IF Peek(input, i) = "("
               THEN LET r == f[<<"or", i + 1, left>>]
                    IN  IF r.ok /\ Peek(input, r.pos) = ")" THEN At(r.pos + 1, r.expr) ELSE Failed
               ELSE IF i <= Len(input) /\ input[i] \in DOMAIN Call
                    THEN At(i + 1, CallExpr(input[i])) ELSE Failed
    BY NotIs
  <2>3. QED
    BY <2>1, <2>2
<1>5. ASSUME NEW h \in g[<<"not", i + 1, j>>], input[i] = "!", e = Not(h)
      PROVE  Finds(f, "not", i, j, e)
  <2>1. Peek(input, i) = "!"
    BY <1>3, <1>5, Peeked DEF Operators
  <2>2. Finds(f, "not", i + 1, j, h)
    <3>1. Complete(input, f, g, i + 1, j)
      BY <1>3
    <3>2. QED
      BY <1>5, <3>1 DEF Complete, OperandsFound, Operand, Over, Chains
  <2>3. ASSUME NEW left \in Expressions PROVE f[<<"not", i, left>>] = At(j + 1, e)
    <3> DEFINE r == f[<<"not", i + 1, left>>]
    <3>1. r.ok = TRUE /\ r.pos = j + 1 /\ r.expr = h
      <4>1. r = At(j + 1, h)
        BY <2>2 DEF Finds
      <4>2. QED
        BY <4>1, AtHas
    <3>2. f[<<"not", i, left>>] = IF r.ok THEN At(r.pos, Not(r.expr)) ELSE Failed
      BY <1>4, <2>1
    <3> HIDE DEF r
    <3>3. QED
      BY <1>5, <3>1, <3>2
  <2>4. QED
    BY <1>5, <2>2, <2>3, ExpressionsClosed DEF Finds
<1>6. ASSUME e \in g[<<"or", i + 1, j - 1>>], input[i] = "(", input[j] = ")", i < j
      PROVE  Finds(f, "not", i, j, e)
  <2>1. Peek(input, i) = "("
    BY <1>3, <1>6, Peeked DEF Operators
  <2>2. /\ j - 1 \in Ends(input) /\ j \in Positions(input) /\ j <= Len(input)
        /\ (j - 1) - (i + 1) < j - i /\ (j - 1) + 1 = j
    BY <1>6 DEF Positions, Ends
  <2>3. Peek(input, j) = ")"
    BY <1>6, <2>2, Peeked DEF Operators
  <2>4. GoesOn(f, "or", i + 1, j - 1, e)
    <3>1. Complete(input, f, g, i + 1, j - 1)
      BY <1>3, <2>2
    <3>2. Over(input, "or", (j - 1) + 1)
      BY <2>2, <2>3 DEF Over
    <3>3. QED
      BY <1>6, <3>1, <3>2 DEF Complete, ChainsFound, Chains
  <2>5. f[<<Loop("or"), j, e>>] = At(j, e)
    BY <2>2, <2>3, <2>4, LoopEnds DEF GoesOn, Chains, Sign
  <2>6. ASSUME NEW left \in Expressions PROVE f[<<"not", i, left>>] = At(j + 1, e)
    <3> DEFINE r == f[<<"or", i + 1, left>>]
    <3>1. r.ok = TRUE /\ r.pos = j /\ r.expr = e
      <4>1. r = At(j, e)
        BY <2>2, <2>4, <2>5 DEF GoesOn
      <4>2. QED
        BY <4>1, AtHas
    <3>2. f[<<"not", i, left>>] =
            IF r.ok /\ Peek(input, r.pos) = ")" THEN At(r.pos + 1, r.expr) ELSE Failed
      BY <1>4, <2>1
    <3> HIDE DEF r
    <3>3. QED
      BY <2>3, <3>1, <3>2
  <2>7. QED
    BY <2>4, <2>6 DEF GoesOn, Finds
<1>7. ASSUME i = j, input[i] \in DOMAIN Call, e = CallExpr(input[i])
      PROVE  Finds(f, "not", i, j, e)
  <2>1. Peek(input, i) = ""
    BY <1>3, <1>7, Peeked, ClaimsAssumption
  <2>2. ASSUME NEW left \in Expressions PROVE f[<<"not", i, left>>] = At(j + 1, e)
    BY <1>3, <1>4, <1>7, <2>1
  <2>3. QED
    BY <1>7, <2>2, ExpressionsClosed DEF Finds
<1>8. QED
  BY <1>2, <1>5, <1>6, <1>7 DEF Negated

\* Whatever the grammar reads, the parser finds.
LEMMA ParserComplete ==
  ASSUME NEW input, Len(input) \in Nat, NEW f, NEW g, Parsing(input, f), Reading(input, g)
  PROVE  \A i \in Positions(input), j \in Ends(input) : Complete(input, f, g, i, j)
<1> DEFINE S == {n \in Nat : \A i \in Positions(input), j \in Ends(input) :
                               j - i < n => Complete(input, f, g, i, j)}
<1>1. ASSUME NEW i \in Positions(input), NEW j \in Ends(input),
             \A q \in Positions(input), t \in Ends(input) : t - q < j - i => Complete(input, f, g, q, t)
      PROVE  Complete(input, f, g, i, j)
  <2>1. OperandsFound(input, f, g, "and", i, j)
    BY <1>1, NotsComplete
  <2>2. ChainsFound(input, f, g, "and", i, j)
    BY <1>1, <2>1, ChainsComplete DEF Chains
  <2>3. OperandsFound(input, f, g, "or", i, j)
    BY <2>2, AndIsOperand
  <2>4. ChainsFound(input, f, g, "or", i, j)
    BY <1>1, <2>3, ChainsComplete DEF Chains
  <2>5. QED
    BY <2>1, <2>2, <2>3, <2>4 DEF Complete, Chains
<1>2. 0 \in S
  <2>1. ASSUME NEW i \in Positions(input), NEW j \in Ends(input), j - i < 0
        PROVE  Complete(input, f, g, i, j)
    <3>1. ~(i <= j)
      BY <2>1 DEF Positions, Ends
    <3>2. g[<<"not", i, j>>] = {} /\ g[<<"and", i, j>>] = {} /\ g[<<"or", i, j>>] = {}
      BY <3>1 DEF Reading, Negated, Chained, Chains
    <3>3. QED
      BY <3>2 DEF Complete, OperandsFound, ChainsFound, Operand, Chains
  <2>2. QED
    BY <2>1
<1>3. ASSUME NEW n \in S PROVE n + 1 \in S
  <2>1. ASSUME NEW i \in Positions(input), NEW j \in Ends(input), j - i < n + 1
        PROVE  Complete(input, f, g, i, j)
    <3>1. ASSUME NEW q \in Positions(input), NEW t \in Ends(input), t - q < j - i
          PROVE  Complete(input, f, g, q, t)
      <4>1. t - q < n
        BY <2>1, <3>1 DEF Positions, Ends
      <4>2. QED
        BY <4>1
    <3>2. QED
      BY <1>1, <3>1
  <2>2. QED
    BY <2>1
<1> HIDE DEF S
<1>4. S = Nat
  <2>1. S \in SUBSET Nat
    BY DEF S
  <2>2. QED
    BY <1>2, <1>3, <2>1, Induction
<1>5. ASSUME NEW i \in Positions(input), NEW j \in Ends(input) PROVE Complete(input, f, g, i, j)
  <2>1. Len(input) + 1 \in S /\ j - i < Len(input) + 1
    BY <1>4 DEF Positions, Ends
  <2>2. QED
    BY <2>1 DEF S
<1>6. QED
  BY <1>5

-----------------------------------------------------------------------------
\* What the parser returns is read by the grammar.
Sound(input, f, g, x, p) ==
  \A left \in Expressions :
    f[<<x, p, left>>].ok => f[<<x, p, left>>].expr \in g[<<x, p, f[<<x, p, left>>].pos - 1>>]

LoopSound(input, f, g, c, p) ==
  \A left \in Expressions, i \in Positions(input) :
    i < p /\ left \in g[<<c, i, p - 1>>] /\ f[<<Loop(c), p, left>>].ok =>
      f[<<Loop(c), p, left>>].expr \in g[<<c, i, f[<<Loop(c), p, left>>].pos - 1>>]

SoundFrom(input, f, g, p) ==
  /\ \A x \in Phrases : Sound(input, f, g, x, p)
  /\ \A c \in Chains : LoopSound(input, f, g, c, p)

\* Where the parser stops.
LEMMA StopsAt ==
  ASSUME NEW input, Len(input) \in Nat, NEW f, Parsing(input, f), NEW rule \in Rules,
         NEW p \in Positions(input), NEW left \in Expressions, f[<<rule, p, left>>].ok
  PROVE  /\ f[<<rule, p, left>>].pos \in Positions(input) /\ f[<<rule, p, left>>].expr \in Expressions
         /\ f[<<rule, p, left>>].pos - 1 \in Ends(input) /\ p <= f[<<rule, p, left>>].pos
         /\ rule \in Phrases => p < f[<<rule, p, left>>].pos
<1> DEFINE r == f[<<rule, p, left>>]
<1>1. Stops(input, rule, p, r)
  BY DEF Parsing
<1> HIDE DEF r
<1>2. r.ok => r.pos \in Positions(input) /\ r.expr \in Expressions
  BY <1>1, OutcomeIs DEF Stops
<1>3. r.ok => r.pos - 1 \in Ends(input)
  BY <1>2 DEF Positions, Ends
<1>4. r.ok => p <= r.pos /\ (rule \in Phrases => p < r.pos)
  BY <1>1 DEF Stops, Phrases
<1>5. QED
  BY <1>2, <1>3, <1>4 DEF r

\* Where the parser stops further on, what it returns is a reading: so it is in a loop,
LEMMA LoopsSound ==
  ASSUME NEW input, Len(input) \in Nat, NEW f, NEW g, Parsing(input, f), Reading(input, g),
         NEW p \in Positions(input), NEW c \in Chains,
         \A q \in Positions(input) : p < q => SoundFrom(input, f, g, q)
  PROVE  LoopSound(input, f, g, c, p)
<1> SUFFICES ASSUME NEW left \in Expressions, NEW i \in Positions(input),
                    i < p, left \in g[<<c, i, p - 1>>], f[<<Loop(c), p, left>>].ok
             PROVE  f[<<Loop(c), p, left>>].expr \in g[<<c, i, f[<<Loop(c), p, left>>].pos - 1>>]
  BY DEF LoopSound
<1>1. CASE Peek(input, p) # Sign(c)
  <2>1. f[<<Loop(c), p, left>>] = At(p, left)
    BY <1>1, LoopEnds
  <2>2. QED
    BY <2>1, AtHas
<1>2. CASE Peek(input, p) = Sign(c)
  <2> DEFINE r == f[<<Operand(c), p + 1, left>>]
  <2>1. p <= Len(input) /\ p + 1 \in Positions(input) /\ input[p] = Sign(c)
    BY <1>2, PeekIs, SignsPeeked
  <2>2. f[<<Loop(c), p, left>>] =
          IF r.ok THEN f[<<Loop(c), r.pos, Joined(c, left, r.expr)>>] ELSE Failed
    BY <1>2, ChainParsed
  <2>3. r.ok
    <3> HIDE DEF r
    <3>1. QED
      BY <2>2, FailedIs
  <2>4. Operand(c) \in Rules /\ Operand(c) \in Phrases
    BY OperandAhead DEF Operand, Phrases
  <2>5. /\ r.pos \in Positions(input) /\ r.expr \in Expressions
        /\ r.pos - 1 \in Ends(input) /\ p + 1 < r.pos
    BY <2>1, <2>3, <2>4, StopsAt
  <2>6. r.expr \in g[<<Operand(c), p + 1, r.pos - 1>>]
    <3>1. p < p + 1
      BY DEF Positions
    <3>2. Sound(input, f, g, Operand(c), p + 1)
      BY <2>1, <2>4, <3>1 DEF SoundFrom
    <3>3. QED
      BY <2>3, <3>2 DEF Sound
  <2> HIDE DEF r
  <2> DEFINE e == Joined(c, left, r.expr)
  <2>7. e \in g[<<c, i, r.pos - 1>>]
    <3>1. p \in i + 1 .. (r.pos - 1) - 1 /\ i <= r.pos - 1
      BY <2>5 DEF Positions
    <3>2. Chained(input, g, c, i, r.pos - 1, e)
      BY <2>1, <2>6, <3>1 DEF Chained
    <3>3. QED
      BY <2>5, <3>2 DEF Reading
  <2>8. LoopSound(input, f, g, c, r.pos) /\ i < r.pos
    <3>1. p < r.pos /\ i < r.pos
      BY <2>5 DEF Positions
    <3>2. QED
      BY <2>5, <3>1 DEF SoundFrom
  <2>9. e \in Expressions
    BY <2>5, ExpressionsClosed
  <2>10. f[<<Loop(c), p, left>>] = f[<<Loop(c), r.pos, e>>]
    BY <2>2, <2>3
  <2> HIDE DEF e
  <2>11. QED
    BY <2>7, <2>8, <2>9, <2>10 DEF LoopSound
<1>3. QED
  BY <1>1, <1>2

\* for a chain whose first operand is one,
LEMMA ChainsSound ==
  ASSUME NEW input, Len(input) \in Nat, NEW f, NEW g, Parsing(input, f), Reading(input, g),
         NEW p \in Positions(input), NEW c \in Chains,
         \A q \in Positions(input) : p < q => SoundFrom(input, f, g, q),
         Sound(input, f, g, Operand(c), p)
  PROVE  Sound(input, f, g, c, p)
<1> SUFFICES ASSUME NEW left \in Expressions, f[<<c, p, left>>].ok
             PROVE  f[<<c, p, left>>].expr \in g[<<c, p, f[<<c, p, left>>].pos - 1>>]
  BY DEF Sound
<1> DEFINE r == f[<<Operand(c), p, left>>]
<1>1. f[<<c, p, left>>] = IF r.ok THEN f[<<Loop(c), r.pos, r.expr>>] ELSE Failed
  BY ChainParsed
<1>2. r.ok
  <2> HIDE DEF r
  <2>1. QED
    BY <1>1, FailedIs
<1>3. Operand(c) \in Rules /\ Operand(c) \in Phrases
  BY OperandAhead DEF Operand, Phrases
<1>4. /\ r.pos \in Positions(input) /\ r.expr \in Expressions
      /\ r.pos - 1 \in Ends(input) /\ p < r.pos
  BY <1>2, <1>3, StopsAt
<1>5. r.expr \in g[<<Operand(c), p, r.pos - 1>>]
  BY <1>2 DEF Sound
<1> HIDE DEF r
<1>6. r.expr \in g[<<c, p, r.pos - 1>>]
  <2>1. p <= r.pos - 1
    BY <1>4 DEF Positions
  <2>2. Chained(input, g, c, p, r.pos - 1, r.expr)
    BY <1>5, <2>1 DEF Chained
  <2>3. QED
    BY <1>4, <2>2 DEF Reading
<1>7. LoopSound(input, f, g, c, r.pos)
  BY <1>4 DEF SoundFrom
<1>8. f[<<c, p, left>>] = f[<<Loop(c), r.pos, r.expr>>]
  BY <1>1, <1>2
<1>9. QED
  BY <1>4, <1>6, <1>7, <1>8 DEF LoopSound

\* and for an operand.
LEMMA NotsSound ==
  ASSUME NEW input, Len(input) \in Nat, NEW f, NEW g, Parsing(input, f), Reading(input, g),
         NEW p \in Positions(input),
         \A q \in Positions(input) : p < q => SoundFrom(input, f, g, q)
  PROVE  Sound(input, f, g, "not", p)
<1> SUFFICES ASSUME NEW left \in Expressions, f[<<"not", p, left>>].ok
             PROVE  f[<<"not", p, left>>].expr \in g[<<"not", p, f[<<"not", p, left>>].pos - 1>>]
  BY DEF Sound
<1>1. f[<<"not", p, left>>] = ParseRule(input, f, "not", p, left)
  BY DEF Parsing, Rules
<1>2. ASSUME NEW j \in Ends(input), NEW e, Negated(input, g, p, j, e) PROVE e \in g[<<"not", p, j>>]
  BY <1>2 DEF Reading
<1>3. p < p + 1
  BY DEF Positions
<1>4. CASE Peek(input, p) = "!"
  <2> DEFINE r == f[<<"not", p + 1, left>>]
  <2>1. input[p] = "!" /\ p + 1 \in Positions(input)
    BY <1>4, PeekIs
  <2>2. f[<<"not", p, left>>] = IF r.ok THEN At(r.pos, Not(r.expr)) ELSE Failed
    BY <1>1, <1>4, NotIs
  <2>3. r.ok
    <3> HIDE DEF r
    <3>1. QED
      BY <2>2, FailedIs
  <2>4. r.pos - 1 \in Ends(input) /\ p + 1 < r.pos /\ r.pos \in Positions(input)
    BY <2>1, <2>3, StopsAt DEF Rules, Phrases
  <2>5. r.expr \in g[<<"not", p + 1, r.pos - 1>>]
    <3>1. Sound(input, f, g, "not", p + 1)
      BY <1>3, <2>1 DEF SoundFrom, Phrases
    <3>2. QED
      BY <2>3, <3>1 DEF Sound
  <2> HIDE DEF r
  <2>6. f[<<"not", p, left>>].pos = r.pos /\ f[<<"not", p, left>>].expr = Not(r.expr)
    BY <2>2, <2>3, AtHas
  <2>7. p <= r.pos - 1
    BY <2>4 DEF Positions
  <2>8. Negated(input, g, p, r.pos - 1, Not(r.expr))
    BY <2>1, <2>5, <2>7 DEF Negated
  <2>9. QED
    BY <1>2, <2>4, <2>6, <2>8
<1>5. CASE Peek(input, p) = "("
  <2> DEFINE r == f[<<"or", p + 1, left>>]
  <2>1. input[p] = "(" /\ p + 1 \in Positions(input)
    BY <1>5, PeekIs
  <2>2. f[<<"not", p, left>>] =
          IF r.ok /\ Peek(input, r.pos) = ")" THEN At(r.pos + 1, r.expr) ELSE Failed
    <3>1. ParseRule(input, f, "not", p, left) =
            IF Peek(input, p) = "!"
            THEN IF f[<<"not", p + 1, left>>].ok
                 THEN At(f[<<"not", p + 1, left>>].pos, Not(f[<<"not", p + 1, left>>].expr))
                 ELSE Failed
            ELSE IF Peek(input, p) = "("
            THEN IF r.ok /\ Peek(input, r.pos) = ")" THEN At(r.pos + 1, r.expr) ELSE Failed
            ELSE IF p <= Len(input) /\ input[p] \in DOMAIN Call
            THEN At(p + 1, CallExpr(input[p])) ELSE Failed
      BY NotIs
    <3>2. Peek(input, p) # "!"
      BY <1>5
    <3> HIDE DEF r
    <3>3. QED
      BY <1>1, <1>5, <3>1, <3>2
  <2>3. r.ok /\ Peek(input, r.pos) = ")"
    <3> HIDE DEF r
    <3>1. QED
      BY <2>2, FailedIs
  <2>4. r.pos \in Positions(input) /\ p + 1 < r.pos
    BY <2>1, <2>3, StopsAt DEF Rules, Phrases
  <2>5. r.expr \in g[<<"or", p + 1, r.pos - 1>>]
    <3>1. Sound(input, f, g, "or", p + 1)
      BY <1>3, <2>1 DEF SoundFrom, Phrases
    <3>2. QED
      BY <2>3, <3>1 DEF Sound
  <2> HIDE DEF r
  <2>6. f[<<"not", p, left>>].pos = r.pos + 1 /\ f[<<"not", p, left>>].expr = r.expr
    BY <2>2, <2>3, AtHas
  <2>7. input[r.pos] = ")" /\ r.pos <= Len(input)
    BY <2>3, <2>4, PeekIs
  <2>8. r.pos \in Ends(input) /\ p <= r.pos /\ p < r.pos /\ (r.pos + 1) - 1 = r.pos
    BY <2>4, <2>7 DEF Positions, Ends
  <2>9. Negated(input, g, p, r.pos, r.expr)
    BY <2>1, <2>5, <2>7, <2>8 DEF Negated
  <2>10. QED
    BY <1>2, <2>6, <2>8, <2>9
<1>6. CASE Peek(input, p) # "!" /\ Peek(input, p) # "("
  <2>1. f[<<"not", p, left>>] =
          IF p <= Len(input) /\ input[p] \in DOMAIN Call THEN At(p + 1, CallExpr(input[p])) ELSE Failed
    BY <1>1, <1>6, NotIs
  <2>2. p <= Len(input) /\ input[p] \in DOMAIN Call
    BY <2>1, FailedIs
  <2>3. f[<<"not", p, left>>].pos = p + 1 /\ f[<<"not", p, left>>].expr = CallExpr(input[p])
    BY <2>1, <2>2, AtHas
  <2>4. p \in Ends(input) /\ (p + 1) - 1 = p /\ p <= p
    BY <2>2 DEF Positions, Ends
  <2>5. Negated(input, g, p, p, CallExpr(input[p]))
    BY <2>2, <2>4 DEF Negated
  <2>6. QED
    BY <1>2, <2>3, <2>4, <2>5
<1>7. QED
  BY <1>4, <1>5, <1>6

\* Whatever the parser returns, the grammar reads.
LEMMA ParserSound ==
  ASSUME NEW input, Len(input) \in Nat, NEW f, NEW g, Parsing(input, f), Reading(input, g)
  PROVE  \A p \in Positions(input) : SoundFrom(input, f, g, p)
<1> DEFINE S == {n \in Nat : \A p \in Positions(input) :
                               Len(input) + 1 - p < n => SoundFrom(input, f, g, p)}
<1>1. ASSUME NEW p \in Positions(input),
             \A q \in Positions(input) : p < q => SoundFrom(input, f, g, q)
      PROVE  SoundFrom(input, f, g, p)
  <2>1. Sound(input, f, g, "not", p)
    BY <1>1, NotsSound
  <2>2. "or" \in Chains /\ "and" \in Chains /\ Operand("and") = "not" /\ Operand("or") = "and"
    BY DEF Chains, Operand
  <2>3. Sound(input, f, g, "and", p)
    BY <1>1, <2>1, <2>2, ChainsSound
  <2>4. Sound(input, f, g, "or", p)
    BY <1>1, <2>2, <2>3, ChainsSound
  <2>5. \A c \in Chains : LoopSound(input, f, g, c, p)
    BY <1>1, LoopsSound
  <2>6. QED
    BY <2>1, <2>3, <2>4, <2>5 DEF SoundFrom, Phrases
<1>2. 0 \in S
  BY DEF Positions
<1>3. ASSUME NEW n \in S PROVE n + 1 \in S
  <2>1. ASSUME NEW p \in Positions(input), Len(input) + 1 - p < n + 1
        PROVE  SoundFrom(input, f, g, p)
    <3>1. ASSUME NEW q \in Positions(input), p < q PROVE SoundFrom(input, f, g, q)
      <4>1. Len(input) + 1 - q < n
        BY <2>1, <3>1 DEF Positions
      <4>2. QED
        BY <4>1
    <3>2. QED
      BY <1>1, <3>1
  <2>2. QED
    BY <2>1
<1> HIDE DEF S
<1>4. S = Nat
  <2>1. S \in SUBSET Nat
    BY DEF S
  <2>2. QED
    BY <1>2, <1>3, <2>1, Induction
<1>5. ASSUME NEW p \in Positions(input) PROVE SoundFrom(input, f, g, p)
  <2>1. Len(input) + 2 \in S /\ Len(input) + 1 - p < Len(input) + 2
    BY <1>4 DEF Positions
  <2>2. QED
    BY <2>1 DEF S
<1>6. QED
  BY <1>5

\* An input the grammar cannot read is no expression, and one it can is read in one way, which
\* is the parser's.
THEOREM ParserFollowsGrammar ==
  ASSUME NEW input, Len(input) \in Nat
  PROVE  ParsesByGrammar(input)
<1> DEFINE start == [c \in Claims |-> "error"]
<1>1. PICK f : Descend(input) = f[<<"or", 1, start>>] /\ Parsing(input, f)
  BY DescendIs DEF Parsing
<1>2. PICK g : Readings(input) = g[<<"or", 1, Len(input)>>] /\ Reading(input, g)
  BY ReadingsAre DEF Reading
<1>3. start \in Expressions
  BY DEF Expressions, Results
<1>4. 1 \in Positions(input) /\ Len(input) \in Ends(input) /\ Len(input) + 1 \in Positions(input)
  BY DEF Positions, Ends
<1> HIDE DEF start
<1> DEFINE r == f[<<"or", 1, start>>]
<1>5. ASSUME NEW e \in Readings(input)
      PROVE  r = At(Len(input) + 1, e)
  <2>1. Peek(input, Len(input) + 1) = ""
    <3>1. ~(Len(input) + 1 <= Len(input))
      OBVIOUS
    <3>2. QED
      BY <3>1 DEF Peek
  <2>2. Complete(input, f, g, 1, Len(input))
    BY <1>1, <1>2, <1>4, ParserComplete
  <2>3. GoesOn(f, "or", 1, Len(input), e)
    BY <1>2, <2>1, <2>2 DEF Complete, ChainsFound, Chains, Over
  <2>4. f[<<Loop("or"), Len(input) + 1, e>>] = At(Len(input) + 1, e)
    <3>1. "or" \in Chains /\ Sign("or") = "||"
      BY DEF Chains, Sign
    <3>2. Peek(input, Len(input) + 1) # Sign("or")
      BY <2>1, <3>1
    <3>3. e \in Expressions
      BY <2>3 DEF GoesOn
    <3>4. QED
      BY <1>1, <1>4, <3>1, <3>2, <3>3, LoopEnds
  <2>5. QED
    BY <1>3, <2>3, <2>4 DEF GoesOn
<1>6. ASSUME r.ok, r.pos > Len(input)
      PROVE  r.expr \in Readings(input) /\ r.expr \in Expressions
  <2>1. r.pos \in Positions(input) /\ r.expr \in Expressions
    BY <1>1, <1>3, <1>4, <1>6, StopsAt DEF Rules
  <2>2. r.pos - 1 = Len(input)
    BY <1>6, <2>1 DEF Positions
  <2>3. Sound(input, f, g, "or", 1)
    BY <1>1, <1>2, <1>4, ParserSound DEF SoundFrom, Phrases
  <2>4. r.expr \in g[<<"or", 1, r.pos - 1>>]
    BY <1>3, <1>6, <2>3 DEF Sound
  <2>5. QED
    BY <1>2, <2>1, <2>2, <2>4
<1>7. ParseExpression(input) = IF r.ok /\ r.pos > Len(input) THEN r ELSE Failed
  BY <1>1 DEF ParseExpression
<1> HIDE DEF r
<1>8. CASE r.ok /\ r.pos > Len(input)
  <2>1. \A e \in Readings(input) : e = r.expr
    BY <1>5, AtHas
  <2>2. QED
    BY <1>6, <1>7, <1>8, <2>1 DEF ParsesByGrammar
<1>9. CASE ~(r.ok /\ r.pos > Len(input))
  <2>1. Readings(input) = {}
    <3>1. \A e \in Readings(input) : r.ok /\ r.pos = Len(input) + 1
      BY <1>5, AtHas
    <3>2. Len(input) + 1 > Len(input)
      OBVIOUS
    <3>3. QED
      BY <1>9, <3>1, <3>2
  <2>2. QED
    BY <1>7, <1>9, <2>1, FailedIs DEF ParsesByGrammar
<1>10. QED
  BY <1>8, <1>9

-----------------------------------------------------------------------------
(* Which requests a token lets through: the invariant says, for each phase,  *)
(* which checks are behind the request, the expression as the parser and     *)
(* Evaluate have it; what the grammar says is the theorem above.             *)

Verified == token # {} /\ \A t \in token : Verifies(t)

\* What the parser and Evaluate make of the expression, "error" included.
Evaluated ==
  IF auth.expression = <<>> THEN "true"
  ELSE LET parsed == ParseExpression(auth.expression)
       IN  IF parsed.ok THEN parsed.expr[TokenClaims] ELSE "error"

JwtInv ==
  /\ auth \in AuthCases
  /\ phase \in {"extract", "parse", "expression", "claims", "role", "admit", "done"}
  /\ phase = "extract" => token = {}
  /\ phase \in {"parse", "expression", "claims", "role", "admit"} =>
       \E t : token = {t} /\ t.claims \in Claims
  /\ phase \in {"expression", "claims", "role", "admit"} => Verified
  /\ phase \in {"claims", "role", "admit"} => Evaluated = "true"
  /\ phase \in {"role", "admit"} => TokenClaims \in auth.validateClaims
  /\ phase = "admit" => TokenClaims \in auth.validateRole
  /\ phase = "done" =>
       \/ /\ response = 200 /\ Verified /\ Evaluated = "true"
          /\ TokenClaims \in auth.validateClaims \cap auth.validateRole
       \/ /\ response = 403 /\ Verified
          /\ \/ Evaluated = "false"
             \/ TokenClaims \notin auth.validateClaims \cap auth.validateRole
       \/ response = 401 /\ (~Verified \/ Evaluated = "error")

\* What stays while the configuration and the token do.
LEMMA RequestStays ==
  ASSUME UNCHANGED <<auth, token>>
  PROVE  Verified' = Verified /\ Evaluated' = Evaluated /\ TokenClaims' = TokenClaims
<1>1. TokenClaims' = TokenClaims
  BY DEF TokenClaims
<1>2. Verified' = Verified
  BY DEF Verified, Verifies, ResolvedKey
<1>3. Evaluated' = Evaluated
  BY <1>1 DEF Evaluated
<1>4. QED
  BY <1>1, <1>2, <1>3

\* The parser follows the grammar on every expression that is configured.
LEMMA ConfiguredParses ==
  ASSUME NEW c \in AuthCases
  PROVE  ParsesByGrammar(c.expression)
<1>1. Len(c.expression) \in Nat
  BY JwtAssumption
<1>2. QED
  BY <1>1, ParserFollowsGrammar

\* What the configured expression decides.
LEMMA ExpressionChecked ==
  ASSUME JwtInv, CheckExpression
  PROVE  /\ phase = "expression" /\ UNCHANGED <<auth, token>>
         /\ \/ Evaluated = "true" /\ phase' = "claims"
            \/ Evaluated = "false" /\ phase' = "done" /\ response' = 403
            \/ Evaluated = "error" /\ phase' = "done" /\ response' = 401
<1>1. phase = "expression" /\ ParsesByGrammar(auth.expression)
  BY ConfiguredParses DEF CheckExpression, JwtInv
<1>2. CASE auth.expression = <<>>
  BY <1>1, <1>2 DEF CheckExpression, Proceed, Evaluated
<1>3. CASE auth.expression # <<>>
  <2> DEFINE parsed == ParseExpression(auth.expression)
  <2>1. CASE ~parsed.ok
    BY <1>1, <1>3, <2>1 DEF CheckExpression, Refuse, Evaluated
  <2>2. CASE parsed.ok
    <3>1. PICK t : token = {t} /\ t.claims \in Claims
      BY <1>1 DEF JwtInv
    <3>2. TokenClaims \in Claims
      BY <3>1 DEF TokenClaims
    <3>3. parsed.expr[TokenClaims] \in Results
      <4>1. parsed.expr \in Expressions
        BY <1>1, <2>2 DEF ParsesByGrammar
      <4> HIDE DEF parsed
      <4>2. QED
        BY <3>2, <4>1 DEF Expressions
    <3>4. Evaluated = parsed.expr[TokenClaims]
      BY <1>3, <2>2 DEF Evaluated
    <3>5. CASE parsed.expr[TokenClaims] = "error"
      BY <1>1, <1>3, <2>2, <3>4, <3>5 DEF CheckExpression, Refuse
    <3>6. CASE parsed.expr[TokenClaims] = "false"
      BY <1>1, <1>3, <2>2, <3>4, <3>6 DEF CheckExpression, Refuse
    <3>7. CASE parsed.expr[TokenClaims] = "true"
      BY <1>1, <1>3, <2>2, <3>4, <3>7 DEF CheckExpression, Proceed
    <3>8. QED
      BY <3>3, <3>5, <3>6, <3>7 DEF Results
  <2>3. QED
    BY <2>1, <2>2
<1>4. QED
  BY <1>2, <1>3

\* For any configurations, expressions, tokens and sources, as often as a request comes again: a
\* request goes on exactly when its token verifies and its claims are enough in every respect.
THEOREM AlwaysEnoughToPass == JwtSpec => []EnoughToPass
<1>1. JwtInit => JwtInv
  BY DEF JwtInit, JwtStart, JwtInv
<1>2. JwtInv /\ [JwtNext]_jwtVars => JwtInv'
  <2> SUFFICES ASSUME JwtInv, [JwtNext]_jwtVars PROVE JwtInv'
    OBVIOUS
  <2>1. CASE ExtractToken
    <3> DEFINE holds == {i \in DOMAIN auth.sources : auth.sources[i] # {}}
               first == CHOOSE i \in holds : \A j \in holds : i <= j
    <3>1. CASE holds = {}
      <4>1. token' = {} /\ phase' = "done" /\ response' = 401 /\ auth' = auth
        BY <2>1, <3>1 DEF ExtractToken, Refuse, JwtInv
      <4>2. QED
        BY <4>1 DEF JwtInv, Verified
    <3>2. CASE holds # {}
      <4>1. holds \in SUBSET Nat
        BY JwtAssumption DEF JwtInv
      <4>2. first \in holds
        <5> HIDE DEF holds
        <5>1. QED
          BY <3>2, <4>1, LeastChosen
      <4>3. token' = auth.sources[first] /\ phase' = "parse" /\ UNCHANGED auth
        <5>1. \/ holds = {} /\ Refuse(401)
              \/ holds # {} /\ token' = auth.sources[first] /\ phase' = "parse"
                 /\ UNCHANGED <<auth, response, stored>>
          BY <2>1 DEF ExtractToken
        <5> HIDE DEF first, holds
        <5>2. QED
          BY <3>2, <5>1
      <4>4. PICK t : auth.sources[first] = {t} /\ t.claims \in Claims
        <5>1. auth \in AuthCases
          BY DEF JwtInv
        <5>2. first \in DOMAIN auth.sources /\ auth.sources[first] # {}
          BY <4>2
        <5> HIDE DEF first, holds
        <5>3. QED
          BY <5>1, <5>2, JwtAssumption
      <4> HIDE DEF first, holds
      <4>5. QED
        BY <4>3, <4>4 DEF JwtInv
    <3>3. QED
      BY <3>1, <3>2
  <2>2. CASE UNCHANGED <<auth, token>>
    <3>1. Verified' = Verified /\ Evaluated' = Evaluated /\ TokenClaims' = TokenClaims
      BY <2>2, RequestStays
    <3>2. CASE Parse
      BY <2>2, <3>1, <3>2 DEF JwtInv, Parse, Proceed, Refuse, Verified
    <3>3. CASE CheckExpression
      BY <2>2, <3>1, <3>3, ExpressionChecked DEF JwtInv
    <3>4. CASE CheckClaims
      BY <2>2, <3>1, <3>4 DEF JwtInv, CheckClaims, Proceed, Refuse
    <3>5. CASE CheckRole
      BY <2>2, <3>1, <3>5 DEF JwtInv, CheckRole, Proceed, Refuse
    <3>6. CASE Admit
      BY <2>2, <3>1, <3>6 DEF JwtInv, Admit
    <3>7. CASE UNCHANGED jwtVars
      BY <3>1, <3>7 DEF JwtInv, jwtVars
    <3>8. CASE ExtractToken
      BY <2>1, <3>8
    <3>9. CASE Arrive
      BY <3>9 DEF JwtInv, Arrive
    <3>10. QED
      BY <3>2, <3>3, <3>4, <3>5, <3>6, <3>7, <3>8, <3>9 DEF JwtNext
  <2>3. CASE Arrive
    BY <2>3 DEF JwtInv, Arrive
  <2>4. ASSUME ~ExtractToken, ~Arrive PROVE UNCHANGED <<auth, token>>
    <3>1. CASE Parse \/ CheckClaims \/ CheckRole \/ Admit \/ UNCHANGED jwtVars
      BY <3>1 DEF Parse, CheckClaims, CheckRole, Admit, Proceed, Refuse, jwtVars
    <3>2. CASE CheckExpression
      BY <3>2, ExpressionChecked
    <3>3. QED
      BY <2>4, <3>1, <3>2 DEF JwtNext
  <2>5. QED
    BY <2>1, <2>2, <2>3, <2>4
<1>3. JwtInv => EnoughToPass
  <2> SUFFICES ASSUME JwtInv, phase = "done" PROVE EnoughToPass
    BY DEF EnoughToPass
  <2>1. \A e, f \in Readings(auth.expression) : e = f
    <3>1. ParsesByGrammar(auth.expression)
      BY ConfiguredParses DEF JwtInv
    <3>2. QED
      BY <3>1 DEF ParsesByGrammar
  <2>2. ASSUME NEW result \in {"true", "false"}, token # {}
        PROVE  Says(result) <=> Evaluated = result
    <3> DEFINE parsed == ParseExpression(auth.expression)
    <3>1. ParsesByGrammar(auth.expression)
      BY ConfiguredParses DEF JwtInv
    <3>2. CASE auth.expression = <<>>
      BY <3>2 DEF Says, Evaluated
    <3>3. CASE auth.expression # <<>> /\ parsed.ok
      <4>1. Readings(auth.expression) = {parsed.expr}
        BY <3>1, <3>3 DEF ParsesByGrammar
      <4>2. Evaluated = parsed.expr[TokenClaims]
        BY <3>3 DEF Evaluated
      <4>3. Says(result) <=> \E e \in Readings(auth.expression) : e[TokenClaims] = result
        BY <3>3 DEF Says
      <4>4. QED
        BY <4>1, <4>2, <4>3
    <3>4. CASE auth.expression # <<>> /\ ~parsed.ok
      <4>1. Readings(auth.expression) = {}
        BY <3>1, <3>4 DEF ParsesByGrammar
      <4>2. Evaluated = "error"
        BY <3>4 DEF Evaluated
      <4>3. ~Says(result)
        BY <3>4, <4>1 DEF Says
      <4>4. QED
        BY <4>2, <4>3
    <3>5. QED
      BY <3>2, <3>3, <3>4
  <2>3. QED
    BY <2>1, <2>2 DEF JwtInv, EnoughToPass, Verified
<1>4. QED
  BY <1>1, <1>2, <1>3, PTL DEF JwtSpec
=============================================================================
