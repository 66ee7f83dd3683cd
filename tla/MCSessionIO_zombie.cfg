SPECIFICATION FairSpec
CONSTANTS
  MaxTimeout = 4
  Latency = 2
  Kinds = {"answer"}
  MaxFibo = 0
  MaxReady = 2
PROPERTY IdleIsDropped
