SPECIFICATION Spec
CONSTANTS
  Sessions = {s1, s2}
  Threads = {t1, t2, t3}
  None = None
  Commands = {"login", "ping", "who_reg", "exit_cs", "write", "reread"}
  Faults = {"db_open", "shutdown"}
  MaxTimers = 1
SYMMETRY Symmetry
INVARIANTS NoWaitCycle TypeOK ListedIffStarted
PROPERTY ImplementsClientList
