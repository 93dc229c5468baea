CONSTANTS
  Client = {c1, c2}
  Nobody = nobody
  MaxIds = 1
  MaxNames = 3
  MaxEnds = 1
SYMMETRY ClientSymmetry
SPECIFICATION Spec
INVARIANT AcceptedWasTold
INVARIANT NameIsMine
CHECK_DEADLOCK FALSE
