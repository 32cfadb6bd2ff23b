SPECIFICATION FairSpec
CONSTANTS
  Inbound = {i1, i2}
  Publishers = {i1, i2, o1}
  Closers = {x1, x2}
  QueueOf <- SplitQueues
  Cap = 1
  JoinFirst = FALSE
  Nobody = Nobody
INVARIANTS AcceptedOnce ClosedMeansEmpty
PROPERTIES BlockedCallsReturn
