CONSTANTS
  Thread = {looper, c1, c2}
  Looper = looper
  Times = {"wait", "wait_for"}
  ResetValues = {}
  Task = {a, b, n}
  NoTask = nullptr
  NullTask = {n}
  Endless = {a}
  MaxU32 = 3
  InitMaxCnt = 1
  MaxCnts = {2}
  Ops = {"stop", "stop_current", "clear_all", "clear_queue", "set_max_cnt"}
  TaskOps = {"push_task", "stop"}
SPECIFICATION Safety
SYMMETRY ClientSymmetry
INVARIANT StopReachesTask
INVARIANT NoTaskLost
INVARIANT FifoOnce
INVARIANT NoLostPush
PROPERTY RespectsMaxCnt
