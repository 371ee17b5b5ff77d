SPECIFICATION MCSpec
CONSTANTS
  a = a
  b = b
  c = c
  Plugins = {a, b, c}
  Order <- Three
  Registered <- Three
  Deps <- ThreeDeps
  Refreshers = {r}
  r = r
  MaxCancels = 1
INVARIANTS DependenciesActive RegistriesAgree NoOrphans ResolvesOrder
PROPERTIES EveryCallEnds
