\* Two workers start a session at once.
SPECIFICATION Spec
CONSTANTS
  w1 = w1
  w2 = w2
  Workers = {w1, w2}
  SetModes = {"AITest"}
  MaxSessions = 2
INVARIANTS
  OneStartAtATime
CHECK_DEADLOCK FALSE
