SPECIFICATION Spec
CONSTANTS
  h1 = h1  h2 = h2  p1 = p1  p2 = p2
  NumPages = 5
  Actors = {h1, h2, p1, p2}
  Nobody = Nobody
  Callers = {h1, h2}
  PageSize = 4
  HeaderSize = 2
  MinBlock = 1
  Sizes = {1, 3}
  Procs = {p1, p2}
  Index = {0, 1}
  Vas <- TwoVas
  NumFrames = 2
  Loads <- FiveLoads
  Elements = {1, 2, 3, 4, 5, 6}
  Key <- KeyOf6
  Hash <- HashOf5
  NoElement = 0
  MinBuckets = 2
  BestPerBucket = 1
SYMMETRY Alike
INVARIANTS PoolInv HeapInv ProcessorInv TableSound
PROPERTIES ImplementsAddressMaps ImplementsKeyedSet
