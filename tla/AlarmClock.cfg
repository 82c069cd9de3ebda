SPECIFICATION FairAlarm
CONSTANTS
  t1 = t1  t2 = t2  t3 = t3
  Idle = Idle
  Threads <- Threads3
  Prio <- Mixed3
  Sleeps <- Sleeps3
  TimeSlice = 4
INVARIANTS AlarmInv
PROPERTIES ImplementsTimers GetsProcessor
