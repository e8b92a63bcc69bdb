SPECIFICATION Spec
CONSTANTS
  MAX_WINDOW_SIZE = 2
  XferIds = {}
  Totals = {}
  Windows = {}
  Retries = {}
  PeerSeqs = {}
  TotalChunks = 2
  WindowSize = 2
  MaxRetries = 1
  MaxTransfers = 2
INVARIANTS TypeOK ConfirmedIsCommitted HonestAckInRange FlashIsPrefix DoneIsComplete TransferInvariant
PROPERTIES VerifiedImageIsWhole ImplementsPromise
