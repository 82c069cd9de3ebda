SPECIFICATION FairSpec
CONSTANTS
  BufSize = 3
  None = None  Writer = Writer  Reader = Reader
  MaxOut = 4
  PanicOut = 3
  MaxIn = 3
INVARIANTS SerialInv
PROPERTIES OutputDelivered InputInOrder CallsServed
