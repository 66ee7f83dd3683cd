SPECIFICATION FairSpec
CONSTANTS
  s1 = s1
  s2 = s2
  c1 = c1
  c2 = c2
  c3 = c3
  None = None
  Sessions = {s1, s2}
  Cameras = {c1, c2, c3}
  Known = {c1, c3}
  Feeds <- MixedFeeds
  Checking = TRUE
  NThreads = 2
  Faults = {"select", "next", "begin", "insert", "commit"}
  MaxEvents = 2
  MaxChanges = 1
INVARIANTS TypeOK OnlyActiveStored MemoryMatchesTable ToldIsSaved
PROPERTIES EventsHandled ImplementsLog
