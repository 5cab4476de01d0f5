SPECIFICATION FairSpec
CONSTANTS
  s1 = s1
  srv1 = srv1
  srv2 = srv2
  Starters = {s1}
  Stoppers = {t1, t2}
  Deadlined = {t1}
  Requests = {r1, r2}
  Streams = {r2}
  HttpServers = {srv1}
  DefaultServer = srv1
  TlsServer = tlsSrv
  StartWith <- OneStart
  OwnField = OwnField
  WithTls = TRUE
  EarlyStop = FALSE
  NoServer = NoServer
  NoRun = NoRun
CHECK_DEADLOCK FALSE
INVARIANTS
  CloseOnce
  DrainBeforeCancel
  StopMeansDrained
  ServingIsStoppable
PROPERTIES
  StreamsEndOnShutdown
  StopReturns
