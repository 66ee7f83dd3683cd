SPECIFICATION Spec
CONSTANTS
  Sessions = {s1, s2}
  Threads = {t1, t2}
  None = None
  Commands = {"login", "ping"}
  Faults = {}
  MaxTimers = 1
PROPERTY ClearedOnlyIfTold
