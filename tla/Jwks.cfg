SPECIFICATION FairSpec
CONSTANTS
  c1 = c1
  c2 = c2
  Callers = {c1, c2}
  Kids = {k1}
  Ttl <- MixedTtls
  Cooldown = 2
  Grace = 2
  NoKeys = NoKeys
  FetchTimeout = 1
  MaxTime = 4
  FetchIds = {f1, f2, f3}
  NoFetch = NoFetch
CHECK_DEADLOCK FALSE
INVARIANTS
  SingleFlight
  WithdrawnKeyBounded
  EveryRefusalHasCause
PROPERTIES
  FetchSpacing
  RotationPickedUp
  CallersAnswered
