\* One session, every disturbance of the link and of the clock, Binary mode.
SPECIFICATION Spec
CONSTANTS
  Cap = 1
  StaleAge = 1
  AiMode = "Binary"
  EarlyReplies = TRUE
  SubTasks = {}
  MaxPairs = 3
  MaxTime = 2
  MaxSessions = 1
  MaxUnknown = 1
  MaxReconnects = 1
  MaxStepBacks = 1
VIEW WithoutFiles
INVARIANTS
  AtMostOncePerPair
  PendingBounded
  ExactMatchIsOwn
\* The bounds on pairs, time and sessions stop the model.
CHECK_DEADLOCK FALSE
