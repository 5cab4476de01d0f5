----------------------------- MODULE JwksCache -----------------------------
(***************************************************************************)
(* The JWKS cache that verifies tokens against a remote key set (jwks.go), *)
(* and the key function that uses it (resolveKeyFunc, jwt.go).             *)
(*                                                                         *)
(* One entry of jwksStore is modelled: the cache of one endpoint, shared   *)
(* by every request that verifies a token against it, possibly under       *)
(* JWTAuth configurations with different JwksCacheTTL.  A section under    *)
(* the entry's mutex is one action; the wait for a fetch and the gap       *)
(* between jwksFromCache and jwksRefresh are open to every interleaving.   *)
(* The identity provider may publish and withdraw keys, and fail, at any   *)
(* time.                                                                   *)
(***************************************************************************)
EXTENDS Integers, FiniteSets

CONSTANTS
  Callers,       (* requests' goroutines, each verifying one token a time   *)
  Kids,          (* key ids                                                 *)
  Ttl,           (* each caller's JwksCacheTTL, defaulted when not positive *)
  Cooldown,      (* jwksRefreshCooldown                                     *)
  Grace,         (* jwksStaleGrace                                          *)
  FetchTimeout,  (* jwksFetchTimeout                                        *)
  NoKeys,        (* a nil e.keys: no key set cached                         *)
  MaxTime,       (* bound on the clock                                      *)
  FetchIds,      (* names for startFetch's goroutines and their channels,   *)
                 (* reused when nobody holds them: one more than the        *)
                 (* callers is enough                                       *)
  NoFetch        (* a nil e.inflight                                        *)

ASSUME JwksAssumption ==
  /\ Ttl \in [Callers -> Nat \ {0}]
  /\ Cooldown \in Nat \ {0}
  /\ Grace \in Nat
  /\ Cooldown <= Grace
  /\ FetchTimeout \in Nat
  /\ FetchTimeout < Cooldown
  /\ \A S \in SUBSET Kids : NoKeys # S
  /\ MaxTime \in Nat
  /\ NoFetch \notin FetchIds

VARIABLES
  now,        \* the clock
  published,  \* the keys the endpoint publishes
  since,      \* for a published key, when it was last published anew
  until,      \* when each key was last seen published
  keys,       \* e.keys: the usable key ids of the cached set
  err,        \* e.err # nil
  fetchedAt,  \* e.fetchedAt
  lastFetch,  \* e.lastFetch
  inflight,   \* e.inflight: the fetch whose channel it is
  fetchPc,    \* each fetch goroutine: "sent", "answered", then "done"
  fetchAt,    \* when it started
  fetchTtl,   \* the TTL of the caller that started it
  reply,      \* the key set the endpoint answered it with
  pc,         \* where each caller is
  kid,        \* the key id of its token
  callAt,     \* when it entered the key function
  waitOn,     \* the fetch it awaits
  answer      \* what the key function returned

provider == <<published, since, until>>
entry == <<keys, err, fetchedAt, lastFetch, inflight>>
fetches == <<fetchPc, fetchAt, fetchTtl, reply>>
callers == <<pc, kid, callAt, waitOn, answer>>
vars == <<now, provider, entry, fetches, callers>>

\* The type of every variable.
TypeOK ==
  /\ now \in Nat
  /\ published \in SUBSET Kids
  /\ since \in [Kids -> Int]
  /\ until \in [Kids -> Int]
  /\ keys = NoKeys \/ keys \in SUBSET Kids
  /\ err \in BOOLEAN
  /\ fetchedAt \in Int
  /\ lastFetch \in Int
  /\ inflight \in FetchIds \cup {NoFetch}
  /\ fetchPc \in [FetchIds -> {"sent", "answered", "done"}]
  /\ fetchAt \in [FetchIds -> Int]
  /\ fetchTtl \in [FetchIds -> Nat]
  /\ reply \in [FetchIds -> SUBSET Kids]
  /\ pc \in [Callers -> {"idle", "waitCache", "refresh", "waitRefresh"}]
  /\ kid \in [Callers -> Kids]
  /\ callAt \in [Callers -> Int]
  /\ waitOn \in [Callers -> FetchIds \cup {NoFetch}]
  /\ answer \in [Callers -> {"none", "accepted", "unknown", "failed", "sentinel"}]

\* The zero time.Time is long past: any age measured from it is large.
LongAgo == -(Cooldown + FetchTimeout + 1)

Init ==
  /\ now = 0
  /\ published \in SUBSET Kids
  /\ since = [k \in Kids |-> LongAgo]
  /\ until = [k \in Kids |-> IF k \in published THEN 0 ELSE LongAgo]
  /\ keys = NoKeys
  /\ err = FALSE
  /\ fetchedAt = LongAgo
  /\ lastFetch = LongAgo
  /\ inflight = NoFetch
  /\ fetchPc = [f \in FetchIds |-> "done"]
  /\ fetchAt = [f \in FetchIds |-> LongAgo]
  /\ fetchTtl = [f \in FetchIds |-> 0]
  /\ reply = [f \in FetchIds |-> {}]
  /\ pc = [c \in Callers |-> "idle"]
  /\ kid \in [Callers -> Kids]
  /\ callAt = [c \in Callers |-> LongAgo]
  /\ waitOn = [c \in Callers |-> NoFetch]
  /\ answer = [c \in Callers |-> "none"]

-----------------------------------------------------------------------------
(* Time and the identity provider (external).                              *)

Running(f) == fetchPc[f] \in {"sent", "answered"}

\* The HTTP client's timeout: no fetch outlives FetchTimeout.
Tick ==
  /\ now < MaxTime
  /\ \A f \in FetchIds : Running(f) => now < fetchAt[f] + FetchTimeout
  /\ now' = now + 1
  /\ until' = [k \in Kids |-> IF k \in published THEN now + 1 ELSE until[k]]
  /\ UNCHANGED <<published, since, entry, fetches, callers>>

\* The provider adds a key to its set, or takes one out.
Publish(k) ==
  /\ k \notin published
  /\ published' = published \cup {k}
  /\ since' = [since EXCEPT ![k] = now]
  /\ until' = [until EXCEPT ![k] = now]
  /\ UNCHANGED <<now, entry, fetches, callers>>

Withdraw(k) ==
  /\ k \in published
  /\ published' = published \ {k}
  /\ UNCHANGED <<now, since, until, entry, fetches, callers>>

-----------------------------------------------------------------------------
(* The goroutine of startFetch.                                            *)

\* The endpoint answers with the keys it publishes at that moment.
FetchAnswered(f) ==
  /\ fetchPc[f] = "sent"
  /\ fetchPc' = [fetchPc EXCEPT ![f] = "answered"]
  /\ reply' = [reply EXCEPT ![f] = published]
  /\ UNCHANGED <<now, fetchAt, fetchTtl, provider, entry, callers>>

\* Bugs: an error is not recorded; the error path leaves e.inflight set; the
\* HTTP client has no timeout, so only an answer ends a fetch.
FetchDoneWith(f, mayFail, failure, afterFailure) ==
  /\ \/ /\ fetchPc[f] = "answered"
        /\ keys' = reply[f]
        /\ fetchedAt' = now
        /\ err' = FALSE
        /\ inflight' = NoFetch
     \/ /\ mayFail /\ Running(f)
        /\ err' = failure
        /\ inflight' = afterFailure
        /\ UNCHANGED <<keys, fetchedAt>>
  /\ fetchPc' = [fetchPc EXCEPT ![f] = "done"]
  /\ fetchAt' = [fetchAt EXCEPT ![f] = LongAgo]
  /\ fetchTtl' = [fetchTtl EXCEPT ![f] = 0]
  /\ reply' = [reply EXCEPT ![f] = {}]
  /\ UNCHANGED <<now, lastFetch, provider, callers>>

FetchDoneQuiet(f) == FetchDoneWith(f, TRUE, FALSE, NoFetch)
FetchDoneHeld(f) == FetchDoneWith(f, TRUE, TRUE, f)
FetchDoneAnswered(f) == FetchDoneWith(f, FALSE, TRUE, NoFetch)

\* fetchJWKS returned, with the answer or with any error: under e.mu, record
\* the outcome, clear inflight and close the channel.
FetchDone(f) ==
  /\ \/ /\ fetchPc[f] = "answered"
        /\ keys' = reply[f]
        /\ fetchedAt' = now
        /\ err' = FALSE
     \/ /\ Running(f)
        /\ err' = TRUE
        /\ UNCHANGED <<keys, fetchedAt>>
  /\ inflight' = NoFetch
  /\ fetchPc' = [fetchPc EXCEPT ![f] = "done"]
  /\ fetchAt' = [fetchAt EXCEPT ![f] = LongAgo]
  /\ fetchTtl' = [fetchTtl EXCEPT ![f] = 0]
  /\ reply' = [reply EXCEPT ![f] = {}]
  /\ UNCHANGED <<now, lastFetch, provider, callers>>

-----------------------------------------------------------------------------
(* The key function: jwksFromCache, getKey, jwksRefresh.                   *)

Smaller(a, b) == IF a < b THEN a ELSE b

\* Bug: a stale set is served however old it is.
ServableAlways(c) == keys # NoKeys

Fresh(c) == keys # NoKeys /\ now - fetchedAt < Ttl[c]
Servable(c) == keys # NoKeys /\ now - fetchedAt < Ttl[c] + Grace
Cooling == now - lastFetch < Cooldown

\* Bug: while a stale set can be served, its refresh is always due.
DueWhenServed(c) == Servable(c) \/ now - lastFetch >= Smaller(Ttl[c], Cooldown)

\* jwksFromCache may start a fetch, the latest one having started long enough ago.
Due(c) == now - lastFetch >= Smaller(Ttl[c], Cooldown)

Free(f) == fetchPc[f] = "done" /\ \A c \in Callers : waitOn[c] # f

StartFetch(c) ==
  \E f \in FetchIds :
    /\ f = CHOOSE g \in FetchIds : Free(g)
    /\ Free(f)
    /\ inflight' = f
    /\ lastFetch' = now
    /\ fetchPc' = [fetchPc EXCEPT ![f] = "sent"]
    /\ fetchAt' = [fetchAt EXCEPT ![f] = now]
    /\ fetchTtl' = [fetchTtl EXCEPT ![f] = Ttl[c]]

KeepFetch == UNCHANGED <<inflight, lastFetch, fetchPc, fetchAt, fetchTtl>>

Goes(c, to, result) ==
  /\ pc' = [pc EXCEPT ![c] = to]
  /\ answer' = [answer EXCEPT ![c] = result]

\* Bug: a miss in the cached set is final.
UseCachedOnly(c, k) ==
  Goes(c, "idle", IF k \in keys THEN "accepted" ELSE "unknown")

\* getKey on the cached set; a miss goes on to jwksRefresh.
UseCached(c, k) == IF k \in keys THEN Goes(c, "idle", "accepted")
                                 ELSE Goes(c, "refresh", "none")

\* failure(): the cause of the latest failure, or the sentinel if none.
Fail(c) == Goes(c, "idle", IF err THEN "failed" ELSE "sentinel")

\* jwksFromCache, up to its return or to its wait: serve a fresh set; else
\* join or, if due, start a fetch; serve a set within its grace meanwhile.
Lookup(c, k) ==
  /\ pc[c] = "idle"
  /\ kid' = [kid EXCEPT ![c] = k]
  /\ callAt' = [callAt EXCEPT ![c] = now]
  /\ IF ~Fresh(c) /\ inflight = NoFetch /\ Due(c) THEN StartFetch(c) ELSE KeepFetch
  /\ \/ /\ Servable(c)
        /\ UseCached(c, k)
        /\ waitOn' = waitOn
     \/ /\ ~Servable(c)
        /\ inflight' = NoFetch
        /\ Fail(c)
        /\ waitOn' = waitOn
     \/ /\ ~Servable(c)
        /\ inflight' # NoFetch
        /\ Goes(c, "waitCache", "none")
        /\ waitOn' = [waitOn EXCEPT ![c] = inflight']
  /\ UNCHANGED <<now, keys, err, fetchedAt, reply, provider>>

\* jwksFromCache after its wait: it holds e.mu again, and the entry may have
\* changed since the channel was closed.
LookupResumes(c) ==
  /\ pc[c] = "waitCache"
  /\ fetchPc[waitOn[c]] = "done"
  /\ IF err \/ keys = NoKeys THEN Fail(c) ELSE UseCached(c, kid[c])
  /\ waitOn' = [waitOn EXCEPT ![c] = NoFetch]
  /\ UNCHANGED <<now, kid, callAt, provider, entry, fetches>>

\* The key function after jwksRefresh: getKey on the refreshed set, or, without
\* one, the error of its first getKey, which refuses the key id as well.
Refreshed(c) ==
  LET refreshed == ~err /\ keys # NoKeys
  IN Goes(c, "idle",
          IF refreshed /\ kid[c] \in keys THEN "accepted" ELSE "unknown")

\* jwksRefresh, up to its return or to its wait.
Refresh(c) ==
  /\ pc[c] = "refresh"
  /\ \/ /\ inflight = NoFetch
        /\ Cooling
        /\ Refreshed(c)
        /\ KeepFetch
        /\ waitOn' = waitOn
     \/ /\ inflight # NoFetch \/ ~Cooling
        /\ IF inflight = NoFetch THEN StartFetch(c) ELSE KeepFetch
        /\ Goes(c, "waitRefresh", "none")
        /\ waitOn' = [waitOn EXCEPT ![c] = inflight']
  /\ UNCHANGED <<now, kid, callAt, keys, err, fetchedAt, reply, provider>>

RefreshResumes(c) ==
  /\ pc[c] = "waitRefresh"
  /\ fetchPc[waitOn[c]] = "done"
  /\ Refreshed(c)
  /\ waitOn' = [waitOn EXCEPT ![c] = NoFetch]
  /\ UNCHANGED <<now, kid, callAt, provider, entry, fetches>>

-----------------------------------------------------------------------------
CallerStep(c) ==
  \/ \E k \in Kids : Lookup(c, k)
  \/ LookupResumes(c) \/ Refresh(c) \/ RefreshResumes(c)

Next ==
  \/ Tick
  \/ \E k \in Kids : Publish(k) \/ Withdraw(k)
  \/ \E f \in FetchIds : FetchAnswered(f) \/ FetchDone(f)
  \/ \E c \in Callers : CallerStep(c)

Spec == Init /\ [][Next]_vars

(***************************************************************************)
(* Fairness.  The HTTP client's timeout ends every fetch, and a caller     *)
(* whose channel is closed is scheduled.                                   *)
(***************************************************************************)
Fairness ==
  /\ \A f \in FetchIds : WF_vars(FetchDone(f))
  /\ \A c \in Callers :
       WF_vars(LookupResumes(c) \/ Refresh(c) \/ RefreshResumes(c))

FairSpec == Spec /\ Fairness

-----------------------------------------------------------------------------
(* Safety.                                                                 *)

\* At most one fetch runs at a time, and it is the one new callers join: a
\* burst of tokens never becomes a burst of requests to the provider.
SingleFlight ==
  \A f \in FetchIds : Running(f) <=> f = inflight

\* Two fetches start at least min(TTL, cooldown) apart, the TTL being that of
\* the caller who starts the later one, whatever mixture of misses, unknown
\* key ids, stale sets served meanwhile and failures asks for them.
FetchSpacing ==
  [][\A f \in FetchIds :
       fetchPc[f] = "done" /\ fetchPc'[f] # "done" =>
         now - lastFetch >= Smaller(fetchTtl'[f], Cooldown)]_vars

\* A withdrawn key stops verifying tokens: a key accepted by a call was still
\* published within the TTL, the grace and one fetch timeout before the call.
WithdrawnKeyBounded ==
  \A c \in Callers : answer[c] = "accepted" =>
    until[kid[c]] + FetchTimeout + Ttl[c] + Grace > callAt[c]

\* Key rotation is picked up: a call refuses a key id as unknown only if that
\* key was not published throughout the cooldown before the call, or if the
\* latest fetch to end failed while one was started within that cooldown or
\* since.
RotationPickedUp ==
  [][\A c \in Callers : answer[c] # "unknown" /\ answer'[c] = "unknown" =>
       \/ kid'[c] \notin published
       \/ since[kid'[c]] > callAt'[c] - Cooldown
       \/ err /\ lastFetch > callAt'[c] - Cooldown]_vars

\* A call is refused for want of a key set only when the latest fetch failed:
\* errJWKSUnavailable, the sentinel without a cause, is never returned.
EveryRefusalHasCause == \A c \in Callers : answer[c] # "sentinel"

\* "a failing endpoint is retried no more often than" once per cooldown.
FailingEndpointThrottled ==
  [][lastFetch' # lastFetch /\ err =>
       lastFetch' - lastFetch >= Cooldown]_<<lastFetch, err>>

-----------------------------------------------------------------------------
(* Liveness, under FairSpec.                                               *)

\* No caller waits forever, whatever the provider does.
CallersAnswered ==
  \A c \in Callers : pc[c] # "idle" ~> answer[c] # "none"
=============================================================================
