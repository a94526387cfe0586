SPECIFICATION FairSpec
CONSTANTS
  Request = {m1, m2}
  Worker = {w1, w2}
  QueueSize = 1
INVARIANTS TypeOK OneAnswer NoneForgotten NoSendOnClosedQueue
PROPERTIES AcceptedIsHandled StopReturns
CHECK_DEADLOCK FALSE
