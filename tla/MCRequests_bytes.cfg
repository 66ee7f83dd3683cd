SPECIFICATION FairSpec
CONSTANTS
  Messages <- SomeMessages
  Ends <- SomeEnds
  W = 8
  Fib <- FibUpTo
  NThreads = 2
  BufferSize = 7
  MaxSent = 2
  MaxOthers = 1
INVARIANTS TypeOK ExecutedOnce AloneExecuted FiboCorrect
PROPERTIES ImplementsConversation ReadAnswered Served FiboAnswered
CHECK_DEADLOCK FALSE
