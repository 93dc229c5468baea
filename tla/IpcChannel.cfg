CONSTANTS
  Client = {c1, c2}
  Server = {s1, s2}
  Nobody = nobody
  Message = {a, large, huge}
  NoMessage = none
  large = large
  huge = huge
  Size <- SizeOf
  MaxSize <- SmallServer
  Header = 1
  TimeLimited = {c1, c2, s1, s2}
  MaxEnds = 1
SPECIFICATION Safety
SYMMETRY ProcSymmetry
INVARIANT OneToken
INVARIANT OneReceiver
INVARIANT DeliveredAsSent
PROPERTY TokenKept
