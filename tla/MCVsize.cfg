\* One descriptor and every capture of six events: enough for an open, a
\* hole, and three reads around it, or for a directory that is first met as a
\* file.  Holes of up to one byte are ignored.
CONSTANTS
  Paths <- MCPaths
  Parent <- MCParent
  Fds = {3}
  HoleBytes = 1
  MaxBytes = 3
  MaxOffset = 3
  MaxEvents = 6
SPECIFICATION Spec
CHECK_DEADLOCK FALSE
INVARIANTS
  RangesExact
  SkippedReadsKnown
  ParentKnown
  InitSectionExact
