SPECIFICATION FairSpec
CONSTANTS
  Modulus = 16
  Images = {"a", "b"}
  SizeOf <- Sizes
  ChunkSize = 4
  XferIds = {1, 256}
  QueueLength = 2
  Faults = {"card", "write", "close", "rename", "power"}
INVARIANTS TypeOK UploadInvariant AccessorIsVerified StreamedIsHashed Watched
PROPERTIES Released
CHECK_DEADLOCK FALSE
