SPECIFICATION EitherSpec
CONSTANTS
  t1 = t1  t2 = t2  t3 = t3  l1 = l1  e1 = e1  e2 = e2
  Idle = Idle  None = None
  Threads <- Threads3
  Locks = {l1}
  Events = {e1, e2}
  MaxUnits = 2
  Prios = {1, 2, 3}
  BasePrio <- Equal3
  NewPrios = {1, 2, 3}
  TryLocks = {}
  Anywhere = {t1, t2}
  Sliced = {t1, t2, t3}
  Order <- Order1
  Addr <- Addr3
INVARIANTS HighestRuns MergeSortAgrees
PROPERTIES FreedLockTaken
