SPECIFICATION Spec
CONSTANTS
  Consumers = {"a", "b"}
  Messages = 2
  BatchSize = 2
  StreamLength = 1
  MaxStops = 1
CHECK_DEADLOCK FALSE
PROPERTIES PendingTakenUp
