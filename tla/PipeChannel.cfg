CONSTANTS
  Message = {req, rep, huge}
  req = req
  rep = rep
  huge = huge
  Hello = hello
  From <- FromOf
  Size <- SizeOf
  Header = 1
  Request = {req}
  Reply <- ReplyOf
  TimeLimited = {req}
  CloseTask = close
  kReadBufferSize = 2
  kMaximumMessageSize = 3
SPECIFICATION Spec
INVARIANT DeliveredInOrder
INVARIANT NeverIdle
 
INVARIANT ErrorReleasesCallers
PROPERTY EventuallyDelivered
CHECK_DEADLOCK FALSE
