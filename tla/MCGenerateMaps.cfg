\* Maps with two slots and three keys, so that two keys share a slot and the
\* third may come to a list; arrays of 2 * 2 for MaxProcesses 3, which is
\* rounded up to 4; pid 5 is too large.  Five events make a collision, take
\* one of the two out and put another in.
CONSTANTS
  x1 = x1
  x2 = x2
  Paths <- MCPaths
  Hash <- MCHash
  Unit = 2
  Times = 2
  Pids = {0, 2, 5}
  Fds = {3, 4, 5}
  MaxProcesses = 3
  MapSize = 2
  MaxEvents = 5
SPECIFICATION Spec
CHECK_DEADLOCK FALSE
INVARIANTS
  KeysInOnePlace
PROPERTIES
  ImplementsProcessTable
