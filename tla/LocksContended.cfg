SPECIFICATION ContendedSpec
CONSTANTS
  t1 = t1  t2 = t2  t3 = t3  l1 = l1  l2 = l2  e1 = e1  e2 = e2  e3 = e3  e4 = e4
  Idle = Idle  None = None
  Threads <- Threads3
  Locks <- Locks2
  Lock = l1
  Events = {e1, e2, e3, e4}
  Waiter <- Waiter3
  MaxUnits = 1
  Prios = {1, 2, 3}
  BasePrio <- Base3
  NewPrios = {1, 2}
  TryLocks = {l1}
  Sliced = {t1}
  Order <- Order2
  Addr <- Addr3
INVARIANTS LockInv NoLostWakeup ElemInOneList MonitorInv
PROPERTIES WakesHighest ImplementsMutex BroadcastWakesAll
