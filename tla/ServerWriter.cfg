\* The server: two workers, a queue of one, three clients of whom one owes nothing.
\* The writer: a queue of two, one reply of up to nine requests, of both cameras.
SPECIFICATION SideBySide
CONSTANTS
  c1 = c1
  c2 = c2
  c3 = c3
  Clients = {c1, c2, c3}
  Mute = {c3}
  t1 = t1
  t2 = t2
  Threads = {t1, t2}
  QueueLimit = 1
  MaxQueue = 2
  Matches = {{}, {"L", "R"}}
  MaxReplies = 1
INVARIANTS
  HeldOnce
  NoneServedAfterStop
  TypeOK
PROPERTIES
  EveryoneServed
  ServerStopReturns
  ImplementsLossyFifo
  EveryRequestSettled
\* The writer ends, and a stopped server stays so.
CHECK_DEADLOCK FALSE
