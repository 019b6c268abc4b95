\* Four workers of a key that is always limited and one that is not.
SPECIFICATION FairSpec
CONSTANTS
  t1 = t1
  t2 = t2
  t3 = t3
  t4 = t4
  k1 = k1
  k2 = k2
  NoKey = NoKey
  Tasks <- FourTasks
  Keys <- TwoKeys
  Limits <- TwoLimits
INVARIANTS WithinLimit NoLostWakeup CountExact
PROPERTIES EveryWorkerFinishes
CHECK_DEADLOCK FALSE
