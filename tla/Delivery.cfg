SPECIFICATION Spec
CONSTANTS
  Message = {1}
  Background = {0}
  RetryLimit = 3
  MaxTracked = 1
  None = None
  MaxLosses = 3
  MaxLostReceipts = 1
  MaxRestarts = 1
INVARIANTS
  TypeOK
  TickIsTrue
  NeverDouble
  TimersAwaitReceipts
PROPERTIES
  TickNeverFalls
  PublishedIsKept
  TickArrives
CHECK_DEADLOCK FALSE
