CONSTANTS
  Thread = {looper, c1, c2}
  Looper = looper
  Times = {"wait"}
  ResetValues = {}
  Task = {once, ever}
  NoTask = nullptr
  once = once
  twice = twice
  ever = ever
  m_times <- TimesOf
  m_timeOut <- AlwaysDue
  NoCallback = {once}
  U64 = 16
  MaxNow = 1
  SetBack = TRUE
  MaxRuns = 3
  Ops = {"stop"}
  TaskOps = {"stop"}
SPECIFICATION Spec
PROPERTY TurnsComeRound
PROPERTY LoopSpec
