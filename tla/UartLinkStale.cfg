SPECIFICATION Spec
CONSTANTS
  MaxCalls = 2
  ResendTimes = 2
  UartQueueLen = 2
  RspQueueLen = 2
INVARIANT AnswersOwnRequest
CHECK_DEADLOCK FALSE
