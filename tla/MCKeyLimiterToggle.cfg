\* A key that is unlimited from time to time.
SPECIFICATION Spec
CONSTANTS
  t1 = t1
  t2 = t2
  t3 = t3
  t4 = t4
  k1 = k1
  k2 = k2
  NoKey = NoKey
  Tasks <- ThreeTasks
  Keys <- OneKey
  Limits <- OneLimit
INVARIANTS EveryLimitRespected
CHECK_DEADLOCK FALSE
