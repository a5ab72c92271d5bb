\* One reply, both cameras, and a queue that holds all it queues.
SPECIFICATION Spec
CONSTANTS
  MaxQueue = 10
  Matches = {{"L", "R"}}
  MaxReplies = 1
INVARIANTS
  DetectionsKept
\* The program ends.
CHECK_DEADLOCK FALSE
