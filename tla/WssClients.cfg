\* Two connections, any number of broadcasts.
SPECIFICATION Spec
CONSTANT
  Conns = {c1, c2}
INVARIANTS
  TypeOK
  UsedWhileItExists
  NoneMissed
PROPERTIES
  ServerGoesOn
\* The server stops, and undefined behaviour ends every behaviour.
CHECK_DEADLOCK FALSE
