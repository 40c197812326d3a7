\* A file that is opened without O_CREAT and written behind a hole.
CONSTANTS
  Paths <- MCPaths
  Parent <- MCParent
  Fds = {3}
  HoleBytes = 1
  MaxBytes = 3
  MaxOffset = 3
  MaxEvents = 5
SPECIFICATION Spec
CHECK_DEADLOCK FALSE
INVARIANT RequiredIsInitialised
