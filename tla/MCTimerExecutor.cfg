SPECIFICATION FairSpec
CONSTANTS
  t1 = t1
  t2 = t2
  t3 = t3
  Tasks = {t1, t2, t3}
  Timers <- TimersOf
  MaxQueued = 3
INVARIANTS OneWakeUpEach QueuedHasFuture SendsNeverBlock EndMeansAllDone
PROPERTIES RunEnds
CHECK_DEADLOCK FALSE
