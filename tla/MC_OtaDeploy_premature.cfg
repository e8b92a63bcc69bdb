SPECIFICATION Spec
CONSTANTS
  p1 = p1
  p2 = p2
  Master = Master
  Padawans = {p1}
  QueueLength = 3
  WriterQueueLength = 3
  MAX_WINDOW_SIZE = 2
  TotalChunks = 2
  WindowSize = 2
  MaxRetries = 1
  MaxOrderListSize = 3
  SameVersion = FALSE
  Faults = {"txFull"}
  WriterFaults = {}
  Agendas <- One
  MaxLosses = 1
  MaxCrashes = 0
  MaxBacklog = 2
  Patient = TRUE
  XferIds = {}
  Totals = {}
  Windows = {}
  Retries = {}
  PeerSeqs = {}
INVARIANTS PrematureIsMisuse
CHECK_DEADLOCK FALSE
