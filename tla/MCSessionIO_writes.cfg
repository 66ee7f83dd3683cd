SPECIFICATION Spec
CONSTANTS
  MaxTimeout = 4
  Latency = 1
  Kinds = {"answer", "fibo"}
  MaxFibo = 1
  MaxReady = 2
INVARIANT WritesExclusive
