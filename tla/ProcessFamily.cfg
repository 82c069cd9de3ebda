SPECIFICATION FairSpec
CONSTANTS
  MaxTid = 4
  Codes = {7}
  None = None  Poison = Poison  Alive = Alive  Killed = Killed
INVARIANTS ProcessInv ChildrenAllocated NeverStuck
PROPERTIES ParentResumes CollectedFreed
