SPECIFICATION BoundedSpec
CONSTANTS
  Top = 5
  StackLimit = 3
  Segment = {1}
  Files = {2}
  FullPages <- FullPages1
  HasRest <- HasRest1
  NumFrames = 2
  NumSlots = 2
  Values = {0, 1}
INVARIANTS FramesInv MemoryKept
PROPERTIES SecondChance
