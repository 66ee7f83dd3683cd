SPECIFICATION FairSpec
CONSTANTS
  Conns = {d1}
  None = None
  Attempts = 2
  Faults = {"commit"}
  MaxCalls = 2
PROPERTY CallsReturn
