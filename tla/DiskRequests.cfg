SPECIFICATION FairDisk
CONSTANTS
  Callers = {"t1", "t2"}
  Sectors = {0, 1}
  Values = {0, 1}
  MaxRequests <- ThreeRequests
  MaxSpurious = 1
CHECK_DEADLOCK FALSE
INVARIANTS ChannelInv
PROPERTIES ImplementsAtomicDisk RequestsReturn
