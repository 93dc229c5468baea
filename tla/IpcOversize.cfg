CONSTANTS
  Client = {c1}
  Server = {s1}
  Nobody = nobody
  Message = {a, large}
  NoMessage = none
  large = large
  huge = huge
  Size <- SizeOf
  MaxSize <- Equal
  Header = 1
  TimeLimited = {}
  MaxEnds = 0
SPECIFICATION Spec
PROPERTY SendReturns
CHECK_DEADLOCK FALSE
