\* As MCReplayWorker.cfg, without descriptors: paths 1, 3 and 5 belong to this
\* worker, path 2 to the other one, and there are two threads.
CONSTANTS
  Files <- MCFiles
  Length = 4
  Paths = {1, 2, 3, 5}
  Fds = {}
  MaxThreads = 2
  TaskRing = 2
  Tasks = {k1, k2, k3, k4}
  NumWorkers = 2
  WorkerNum = 1
  NumVsizes = 5
  AmapUnit = 4
  None = None
SPECIFICATION FairSpec
PROPERTIES
  WorkerFinishes
