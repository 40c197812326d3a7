\* Every .capture file of up to four lines, with queues of one task each:
\* every queue is full at some time, and reuse_queue is when the writer has
\* to give back several tasks while the reader waits.  One object per line.
CONSTANTS
  MaxLines = 4
  QueueCap = 1
  ReuseCap = 1
  Tasks <- MCTasks
  None = 0
SPECIFICATION FairSpec
CHECK_DEADLOCK FALSE
INVARIANTS
  FileInOrder
  TaskInOnePlace
  HeaderCounts
PROPERTIES
  GenerateFinishes
