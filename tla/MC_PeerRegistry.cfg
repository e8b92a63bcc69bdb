SPECIFICATION FairSpec
CONSTANTS
  p1 = p1
  p2 = p2
  Master = Master
  NoMac = NoMac
  Padawans = {p1, p2}
  Away <- SecondAway
  PeerLimit = 4
  NameCount = 2
  QueueLength = 3
  MaxTroubles = 2
INVARIANTS RegistrationIsKept StoredAsListed
PROPERTIES AbsenceIsReported ReturnIsReported
CHECK_DEADLOCK FALSE
