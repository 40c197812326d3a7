\* A worker, or the init, that fails: what the caller of ioriot gets to see.
CONSTANTS
  a = a
  b = b
  af = af
  bf = bf
  FsPaths <- MCFsPaths
  Chain <- MCChain
  Mount <- MCMount
  InitSections <- MCInitSections
  QueueCap = 1
  ReuseCap = 1
  OldTrees <- MCOldTrees
  MaxPurgers = 2
  ITasks = {k1, k2, k3}
  ReplayFiles <- MCReplayFiles
  MaxWorkers = 2
  x = x
  y = y
  proc1 = proc1
  proc2 = proc2
  t1 = t1
  t2 = t2
  t3 = t3
  Threads <- MCThreads
  Process <- MCProcess
  Wanted = {proc1, proc2}
  CapturedPaths = {x, y}
  Numbers = {3, 4}
  MapCap = 2
  Programs <- MCNoPrograms
SPECIFICATION Spec
CHECK_DEADLOCK FALSE
INVARIANTS
  ExitCodeTells
