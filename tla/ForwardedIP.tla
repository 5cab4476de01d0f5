---------------------------- MODULE ForwardedIP ----------------------------
(***************************************************************************)
(* The client's address: a request passes from host to host, each of which *)
(* may add to its headers, until the application asks realIP.              *)
(***************************************************************************)
EXTENDS Integers, Sequences, FiniteSetsExt

CONSTANTS
  Hosts,    \* addresses outside of the trusted networks
  Proxies,  \* addresses inside
  MaxHops   \* how many times a request is passed on, for TLC

Blank   == "blank"
Junk    == "junk"     \* what is no address
Missing == "missing"  \* no such header

Addresses == Hosts \cup Proxies

ASSUME ForwardedAssumption ==
  /\ Hosts \cap Proxies = {} /\ Addresses \cap {Blank, Junk, Missing} = {}
  /\ MaxHops \in Nat

VARIABLES
  restricted, \* trusted proxies were configured (trustedProxies # nil)
  peer,       \* the address the request comes from now
  forwarded,  \* the entries of X-Forwarded-For, its lines one after the other
  real,       \* X-Real-IP
  client,     \* the last host that is not a trusted proxy, or who sent the request first
  honest,     \* nobody wrote into the headers but proxies
  hops

forwardedVars == <<restricted, peer, forwarded, real, client, honest, hops>>

ForwardedStart(origin) ==
  /\ restricted \in BOOLEAN /\ peer = origin /\ client = origin
  /\ forwarded = <<>> /\ real = Missing /\ honest = TRUE /\ hops = 0

ForwardedInit == \E origin \in Addresses : ForwardedStart(origin)

\* A host that is not trusted sends the request on, or a first time, as it likes.  It replaces
\* all there was, so that once is enough.
Rewrite(host, entries, value) ==
  /\ honest /\ hops < MaxHops /\ hops' = hops + 1
  /\ peer' = host /\ client' = host /\ honest' = FALSE
  /\ forwarded' = entries /\ real' = value
  /\ UNCHANGED restricted

\* A proxy appends the address it got the request from; X-Real-IP passes.
Forward(proxy) ==
  /\ hops < MaxHops /\ hops' = hops + 1
  /\ peer' = proxy /\ forwarded' = Append(forwarded, peer)
  /\ UNCHANGED <<restricted, real, client, honest>>

\* Or, before the application and behind the client only, it replaces both headers.
Replace(proxy) ==
  /\ peer = client /\ hops < MaxHops /\ hops' = MaxHops
  /\ peer' = proxy /\ forwarded' = <<>> /\ real' = peer
  /\ UNCHANGED <<restricted, client, honest>>

Written == Addresses \cup {Blank, Junk}

ForwardedNext ==
  \/ \E host \in Hosts, entries \in UNION {[1 .. n -> Written] : n \in 0 .. 2},
        value \in Written \cup {Missing} : Rewrite(host, entries, value)
  \/ \E proxy \in Proxies : Forward(proxy) \/ Replace(proxy)

ForwardedSpec == ForwardedInit /\ [][ForwardedNext]_forwardedVars

-----------------------------------------------------------------------------
\* remoteAddrIn, ipIn
Trusted(address) == address \in Proxies

Nonblank(entries) == {i \in DOMAIN entries : entries[i] # Blank}
Stops(entries)  == {i \in Nonblank(entries) : ~Trusted(entries[i])}

\* Bug: the walk starts from the left.
ForwardedClientIPLeft(entries) ==
  IF Nonblank(entries) = {} THEN Missing
  ELSE IF Stops(entries) = {} THEN entries[Min(Nonblank(entries))]
  ELSE IF entries[Min(Stops(entries))] = Junk THEN Missing
  ELSE entries[Min(Stops(entries))]

\* forwardedClientIP: from the right up to what is no trusted proxy.
ForwardedClientIP(entries) ==
  IF Nonblank(entries) = {} THEN Missing
  ELSE IF Stops(entries) = {} THEN entries[Min(Nonblank(entries))]
  ELSE IF entries[Max(Stops(entries))] = Junk THEN Missing
  ELSE entries[Max(Stops(entries))]

\* realIP
RealIP ==
  IF restricted
  THEN IF ~Trusted(peer) THEN peer
       ELSE IF ForwardedClientIP(forwarded) # Missing THEN ForwardedClientIP(forwarded)
       ELSE IF real \in Addresses THEN real ELSE peer
  ELSE IF forwarded # <<>> THEN forwarded[1]
       ELSE IF real \notin {Missing, Blank} THEN real ELSE peer

\* With trusted proxies configured, the address is that of the last host outside of them,
\* whatever that host or others before it wrote into the headers and however many proxies the
\* request passed, those that append and one that replaces.  Without, it is so as long as only
\* proxies wrote into the headers.
ClientSeen == restricted \/ honest => RealIP = client
=============================================================================
