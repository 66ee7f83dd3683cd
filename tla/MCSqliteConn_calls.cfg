SPECIFICATION FairSpec
CONSTANTS
  Conns = {d1, d2}
  None = None
  Attempts = 2
  Faults = {"begin", "sql", "commit", "query", "columns"}
  MaxCalls = 2
INVARIANTS TypeOK StatementsReleased TransactionClosed ReportedIsDurable FailedIsAbsent
PROPERTIES CallsReturnUnlessHeld ImplementsDbCalls
