\* All kinds of task over two accounts, three permits, two edits.
SPECIFICATION FairSpec
CONSTANTS
  t1 = t1
  t2 = t2
  t3 = t3
  t4 = t4
  Tasks <- FourTasks
  NoTask = NoTask
  Job <- Mixed
  NumAccounts = 2
  NoAccount = NoAccount
  MaxConcurrency = 3
  MaxEdits = 2
INVARIANTS SomebodyMoves ProfileExclusive NoLockLeak
PROPERTIES ProfileStays DispatchedFit RestrictionSticks EveryTaskEnds
CHECK_DEADLOCK FALSE
