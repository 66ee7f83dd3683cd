SPECIFICATION FairSpec
CONSTANTS
  MaxTimeout = 4
  Latency = 1
  Kinds = {"answer", "fibo", "reread", "exit", "unknown"}
  MaxFibo = 2
  MaxReady = 2
INVARIANTS TypeOK OneReadChain DroppedInTime
PROPERTIES DeafOnlyIfUnknown DroppedOnlyIfSilent IdleIsDropped
