CONSTANTS
  Thread = {looper, c1, c2}
  Looper = looper
  Times = {"wait", "wait_for"}
  ResetValues = {}
  Task = {a, b, c}
  NoTask = nullptr
  NullTask = {}
  Endless = {}
  MaxU32 = 3
  InitMaxCnt = 1
  MaxCnts = {}
  Ops = {"clear_queue"}
  TaskOps = {"stop"}
SPECIFICATION Spec
 
PROPERTY TasksProgress
 
CHECK_DEADLOCK FALSE
