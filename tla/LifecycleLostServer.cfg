SPECIFICATION Spec
CONSTANTS
  s1 = s1
  srv1 = srv1
  srv2 = srv2
  Starters = {s1}
  Stoppers = {t1}
  Deadlined = {t1}
  Requests = {r1}
  Streams = {}
  HttpServers = {srv1, srv2}
  DefaultServer = srv1
  TlsServer = tlsSrv
  StartWith <- OneCustomStart
  OwnField = OwnField
  WithTls = FALSE
  EarlyStop = TRUE
  NoServer = NoServer
  NoRun = NoRun
CHECK_DEADLOCK FALSE
INVARIANTS
  ServingIsStoppable
