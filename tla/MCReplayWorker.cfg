\* Four lines about up to three paths: with two threads the third path waits
\* for a thread to get idle.  A ring of two slots holds one task, so it gets
\* full; task_buffer holds one object (one thread) or three (two threads), so
\* four task objects are both recycled and freed.  One descriptor, so that an
\* open, a use and a close fit into a file.
CONSTANTS
  Files <- MCFiles
  Length = 4
  Paths = {1, 2, 3}
  Fds = {1}
  MaxThreads = 2
  TaskRing = 2
  Tasks = {k1, k2, k3, k4}
  NumWorkers = 1
  WorkerNum = 0
  NumVsizes = 3
  AmapUnit = 4
  None = None
SPECIFICATION Spec
SYMMETRY TaskSymmetry
INVARIANTS
  TypeOK
  VsizeOrder
  NoUseAfterDestroy
  TaskInOnePlace
  NoTaskLeft
  AllLinesReplayed
  NoThreadLost
