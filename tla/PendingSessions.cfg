\* Two sessions, sub-task changes, File mode.
SPECIFICATION Spec
CONSTANTS
  Cap = 0
  StaleAge = 0
  AiMode = "File"
  EarlyReplies = FALSE
  SubTasks = {"Marking"}
  MaxPairs = 2
  MaxTime = 1
  MaxSessions = 2
  MaxUnknown = 0
  MaxReconnects = 0
  MaxStepBacks = 0
INVARIANTS
  TypeOK
  PendingOfCurrentSession
  FiledUnderOwnRecord
  OverwrittenByOneStray
  MatchedUnlessDisturbed
PROPERTIES
  StopReturns
\* The bounds on pairs, time and sessions stop the model.
CHECK_DEADLOCK FALSE
