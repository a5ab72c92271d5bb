\* A queue of two, an interval of one tick, two sessions.
SPECIFICATION Spec
CONSTANTS
  Cap = 2
  Interval = 1
  MaxFrames = 4
  MaxSessions = 2
  MaxTime = 2
  SetTasks = {"Installation", "GapInspection"}
INVARIANTS
  TypeOK
  StaleFramesBounded
  InstallationPaced
  FramesInOrder
PROPERTIES
  FramesLeave
\* The bounds end every behaviour.
CHECK_DEADLOCK FALSE
