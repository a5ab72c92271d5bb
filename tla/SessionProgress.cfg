\* The sessions: one worker and the completion threads of up to three AI tests.
\* The live view: a queue of two, an interval of one tick, four pictures.
SPECIFICATION SideBySide
CONSTANTS
  w1 = w1
  Workers = {w1}
  SetModes = {"AITest"}
  MaxSessions = 3
  MaxQueued = 2
  LiveInterval = 1
  MaxLive = 4
  MaxClock = 5
INVARIANTS
  LivePaced
PROPERTIES
  CallsReturn
  CompletionFollows
  ViewImplementsLossyFifo
  EveryFrameSettled
\* Core may terminate, and the bounds stop the models.
CHECK_DEADLOCK FALSE
