SPECIFICATION FairSpec
CONSTANTS
  s1 = s1
  s2 = s2
  c1 = c1
  Scripts = {s1, s2}
  Length <- WithEmpty
  Commands = {c1}
  Capacity = 2
  Timeouts = TRUE
  MaxRequests = 5
INVARIANTS TypeOK LoadedMeansEvents PanicInvariant
PROPERTIES PanicHalts ImplementsPlayer PlaylistDrains
