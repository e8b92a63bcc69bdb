SPECIFICATION SenderSpec
CONSTANTS
  MAX_WINDOW_SIZE = 2
  XferIds = {1, 2}
  Totals = {0, 1, 4}
  Windows = {0, 1, 2, 3}
  Retries = {0, 1, 2}
  PeerSeqs = {0, 1, 2, 3, 4, 5}
INVARIANTS SenderTypeOK CursorsOrdered WindowRespected CompletionIsEarned
PROPERTIES CursorsNeverSkip
