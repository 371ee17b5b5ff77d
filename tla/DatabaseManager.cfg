SPECIFICATION MCSpec
CONSTANTS
  x = x
  y = y
  z = z
  one = one
  two = two
  None = None
  Callers = {x, y, z}
  Loops = {one}
  LoopOf <- Where
  Does <- Requests
  SharedLoops = {one, two}
  SharedCalls = 3
  SharedCancels = 1
  Failures = {"create", "probe", "ping", "closePool", "closeClient"}
  MaxCalls = 4
  MaxCancels = 1
CHECK_DEADLOCK FALSE
INVARIANTS UsersNeverDeadlock ResourcesSound SharedAsStated
PROPERTIES CallsReturn 
