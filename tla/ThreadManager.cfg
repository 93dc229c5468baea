CONSTANTS
  User = {u1, u2}
  Nobody = nobody
  GetBlockTaskThreadCount = 2
  Calls <- SomeCalls
  MaxThreads = 4
  MaxPushes = 3
SPECIFICATION Spec
INVARIANT ManagedRun
 
PROPERTY StopAllEnds
CHECK_DEADLOCK FALSE
