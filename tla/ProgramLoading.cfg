SPECIFICATION MCSpec
CONSTANTS
  PGSIZE = 16
  WordSize = 2
  ByteSize = 16
  USER_STACK = 112
  KERN_BASE = 128
  StackRange = 48
  CountRange = 64
  AddressRange = 256
  MaxArgs = 5
  Space = 1
  Commands <- TestCommands
  FileNames <- Names
  FileLength = 40
  Images <- TestImages
  OldStacks = {0, 60, 90, 106}
CHECK_DEADLOCK FALSE
INVARIANTS ImageLoaded ArgumentsPassed
