\* Four slots, two producers around the mutex and three pointers: the
\* positions wrap, the ring gets full and gets empty, and a full ring holds
\* three different pointers, so that an order that is not FIFO shows.
CONSTANTS
  Size = 4
  Producers = {p1, p2}
  Values = {v1, v2, v3}
  NULL = NULL
  NoOne = NoOne
SPECIFICATION Spec
INVARIANTS
  TypeOK
  SidesApart
PROPERTIES
  ImplementsQueue
  HasNextStable
