SPECIFICATION Spec
CONSTANTS
  p1 = p1
  p2 = p2
  Master = Master
  Padawans = {p1, p2}
  QueueLength = 3
  WriterQueueLength = 3
  MAX_WINDOW_SIZE = 2
  TotalChunks = 1
  WindowSize = 2
  MaxRetries = 1
  MaxOrderListSize = 3
  SameVersion = TRUE
  Faults = {}
  WriterFaults = {"begin", "write", "corrupt", "verify", "flip", "local"}
  Agendas <- Mixed
  MaxLosses = 1
  MaxCrashes = 1
  MaxBacklog = 1
  Patient = FALSE
  XferIds = {}
  Totals = {}
  Windows = {}
  Retries = {}
  PeerSeqs = {}
INVARIANTS TypeOK OneReportPerDeploy NoStrayTimer WaitIsBounded PollsYieldToTransfer SuccessIsReal
CHECK_DEADLOCK FALSE
