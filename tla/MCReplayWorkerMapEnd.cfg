\* The number of paths is a multiple of the unit in which amap_new rounds
\* sizes up, so that the last path's number is not below the size of the map.
CONSTANTS
  Files <- MCFiles
  Length = 4
  Paths = {1, 2}
  Fds = {1}
  MaxThreads = 2
  TaskRing = 2
  Tasks = {k1, k2, k3, k4}
  NumWorkers = 1
  WorkerNum = 0
  NumVsizes = 2
  AmapUnit = 2
  None = None
SPECIFICATION Spec
SYMMETRY TaskSymmetry
INVARIANTS
  NoUseAfterDestroy
