\* One worker: an AI test, then an inspection.
SPECIFICATION Spec
CONSTANTS
  w1 = w1
  Workers = {w1}
  SetModes = {"AITest"}
  MaxSessions = 2
PROPERTIES
  CompletionEndsItsOwnTest
CHECK_DEADLOCK FALSE
