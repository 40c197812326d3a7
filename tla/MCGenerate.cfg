\* Two processes with two descriptors each, a directory and a file in it, and
\* every capture of five events: enough to open a number again after its
\* close was lost or after the process has ended, with a recycled vfd_s, and
\* to use what came out of it.  Three vfd_s objects and a buffer of one make
\* the buffer full.  The capture ends: there the writer stops.
CONSTANTS
  dir = dir
  file = file
  Pids = {p1, p2}
  Fds = {f1, f2}
  Paths <- MCPaths
  Parent <- MCParent
  Vfds = {o1, o2, o3}
  BufferCap = 1
  MaxLines = 5
  None = None
SPECIFICATION Spec
SYMMETRY Symmetry
CHECK_DEADLOCK FALSE
INVARIANTS
  TypeOK
  DescriptorsWellFormed
  NothingForgotten
  VfdInOnePlace
  MapsAgree
  HeaderCoversLines
PROPERTIES
  ImplementsTable
