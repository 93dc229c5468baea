CONSTANTS
  NoTask = none
  Thread = {u1}
  Heart = heart
  Nobody = nobody
  Name = {regist, other}
  regist = regist
  other = other
  Regist = regist
  Calls <- SomeCalls
  MaxCalls = 2
  MaxTasks = 1
  MaxPipes = 4
SPECIFICATION Spec
INVARIANT NoOrphan
INVARIANT NoLostWork
PROPERTY RegistComesBack
PROPERTY StopReturns
PROPERTY PumpSpec
CHECK_DEADLOCK FALSE
