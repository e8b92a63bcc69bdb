SPECIFICATION FairSpec
CONSTANTS
  p1 = p1
  p2 = p2
  Master = Master
  Padawans = {p1, p2}
  QueueLength = 3
  WriterQueueLength = 3
  MAX_WINDOW_SIZE = 2
  TotalChunks = 2
  WindowSize = 1
  MaxRetries = 1
  MaxOrderListSize = 3
  SameVersion = FALSE
  Faults = {"setup", "read", "send", "txFull"}
  WriterFaults = {"begin", "write", "corrupt", "verify", "flip", "rollback", "local"}
  Agendas <- MasterBetween
  MaxLosses = 1
  MaxCrashes = 1
  MaxBacklog = 2
  Patient = TRUE
  XferIds = {}
  Totals = {}
  Windows = {}
  Retries = {}
  PeerSeqs = {}
INVARIANTS ReportMatchesOrder SuccessIsReal
PROPERTIES DeployEnds
CHECK_DEADLOCK FALSE
