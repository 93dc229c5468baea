CONSTANTS
  Thread = {looper, t1, t2}
  Looper = looper
  Times = {"wait", "wait_for"}
  ResetValues = {}
SPECIFICATION LoopSpec
INVARIANT NoLostSignal
INVARIANT TrueMeansEnded
INVARIANT EndSignalKept
PROPERTY StopReturns
PROPERTY StopEndsLoop
PROPERTY EventSpec
