SPECIFICATION FairSpec
CONSTANTS
  Sessions = {s1, s2}
  Threads = {t1, t2}
  None = None
  Commands = {"login", "exit_cs"}
  Faults = {"shutdown"}
  MaxTimers = 1
PROPERTIES HandlersFinish StoppedIsReleased
