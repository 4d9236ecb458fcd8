SPECIFICATION FairSpec
CONSTANTS
  MaxCalls = 4
  ResendTimes = 2
  UartQueueLen = 2
  RspQueueLen = 2
INVARIANTS TypeOK TimelyAnswersOwnRequest
PROPERTIES AnswersInOrder CallReturns
CHECK_DEADLOCK FALSE
