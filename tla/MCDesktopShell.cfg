\* Safety, and closing, retrying and orphans under fair threads.
SPECIFICATION FairSpec
CONSTANTS
  p1 = p1
  p2 = p2
  Procs <- TwoProcs
  NoProc = NoProc
  NoThread = NoThread
  MaxAutomaticRestarts = 1
INVARIANTS OneBackend NoChildForgotten RestartsBounded
PROPERTIES RetryAnswered ClosingEnds NoOrphans
CHECK_DEADLOCK FALSE
