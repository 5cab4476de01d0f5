SPECIFICATION FairSpec
CONSTANTS
  ok = ok
  busy = busy
  Calls = {c1, c2}
  Statuses = {ok, busy}
  Settings <- MCSettings
  Connections = 1
CHECK_DEADLOCK FALSE
INVARIANTS
  WholeBody
  WaitsEmptyHanded
  StopsAtAcceptable
PROPERTIES
  Delivers
  CallsEnd
