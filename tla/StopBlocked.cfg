CONSTANTS
  Thread = {looper, c1, c2, c3}
  Looper = looper
  Times = {"wait"}
  ResetValues = {}
  Task = {a, b, c}
  NoTask = nullptr
  NullTask = {}
  Endless = {}
  MaxU32 = 3
  InitMaxCnt = 1
  MaxCnts = {}
  Ops = {"stop"}
  TaskOps = {}
SPECIFICATION Spec
PROPERTY StopReleasesPushers
