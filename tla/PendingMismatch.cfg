\* Two sessions; AIVD loses nothing and answers only what is stored.
SPECIFICATION Spec
CONSTANTS
  Cap = 2
  StaleAge = 2
  AiMode = "Binary"
  EarlyReplies = FALSE
  SubTasks = {}
  MaxPairs = 2
  MaxTime = 2
  MaxSessions = 2
  MaxUnknown = 0
  MaxReconnects = 0
  MaxStepBacks = 0
INVARIANTS
  ResultsCarryOwnImages
\* The bounds on pairs, time and sessions stop the model.
CHECK_DEADLOCK FALSE
