SPECIFICATION Spec
CONSTANTS
  s1 = s1
  srv1 = srv1
  srv2 = srv2
  Starters = {s1}
  Stoppers = {t1}
  Deadlined = {}
  Requests = {r1}
  Streams = {}
  HttpServers = {srv1}
  DefaultServer = srv1
  TlsServer = tlsSrv
  StartWith <- OneStart
  OwnField = OwnField
  WithTls = TRUE
  EarlyStop = FALSE
  NoServer = NoServer
  NoRun = NoRun
CHECK_DEADLOCK FALSE
INVARIANTS
  HttpsDrainBeforeCancel
