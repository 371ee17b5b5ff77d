SPECIFICATION MCSpec
CONSTANTS
  a = a
  b = b
  c = c
  Plugins = {a, c}
  Order <- Two
  Registered <- Two
  Deps <- TwoDeps
  r = r
  Refreshers = {}
  MaxCancels = 0
INVARIANTS FailedShutdownKeepsState
