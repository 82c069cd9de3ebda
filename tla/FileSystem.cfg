SPECIFICATION Spec
CONSTANTS
  NumSectors = 6
  SectorSize = 2
  Names = {"a", "b"}
  DirSlots = 2
  MaxDepth = 2
  MaxFd = 3
  MaxHeld = 2
  MaxCreates <- FewerWhenForked
  Programs = {"a"}
  Children = {"b"}
  CallNames = {"a", "b"}
  FirstLength = 3
  Lengths <- LengthsAndNegative
  Positions = {1}
  Sizes = {3}
  Values = {1}
INVARIANTS FilesInv
PROPERTIES LostOnlyThere DeniedUnchanged ImplementsFileStore
