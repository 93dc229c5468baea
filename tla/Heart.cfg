CONSTANTS
  Thread = {looper, c1, c2}
  Looper = looper
  Times = {"wait"}
  ResetValues = {}
  Task = {twice, ever}
  NoTask = nullptr
  once = once
  twice = twice
  ever = ever
  m_times <- TimesOf
  m_timeOut <- Intervals
  NoCallback = {}
  U64 = 16
  MaxNow = 3
  SetBack = FALSE
  MaxRuns = 3
  Ops = {"stop", "stop_current", "clear_all", "clear_queue"}
  TaskOps = {"push_task", "clear_queue", "stop"}
SPECIFICATION Safety
INVARIANT EachOnce
 
INVARIANT TimesKept
INVARIANT StopReachesCurrent
 
SYMMETRY ClientSymmetry
