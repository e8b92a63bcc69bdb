SPECIFICATION Spec
CONSTANTS
  Ids = {a, b}
  NoId = NoId
  PACKET_EXPIRATION_TIME = 1
  ClockMax = 3
  MaxLives = 2
  MaxPackets = 3
  LinkLength = 3
  MaxTicks = 4
  MaxTroubles = 2
SYMMETRY SymmetricIds
INVARIANTS DeliveredWhole PunctualIsDelivered
CHECK_DEADLOCK FALSE
