SPECIFICATION RunSpec
CONSTANTS
  s1 = s1
  Starters = {s1}
  Stoppers = {t1, t2}
  Deadlined = {t1}
  Requests = {r1, r2}
  Streams = {r2}
  HttpServers = {srv1}
  DefaultServer = srv1
  TlsServer = tlsSrv
  StartWith <- OneOwnStart
  OwnField = OwnField
  WithTls = FALSE
  EarlyStop = TRUE
  NoServer = NoServer
  NoRun = NoRun
  RunStarter = s1
  RunStopper = t1
CHECK_DEADLOCK FALSE
INVARIANTS
  NoStillbornRequests
  ReturnsDrained
PROPERTIES
  SignalEndsRun
