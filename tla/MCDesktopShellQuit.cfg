\* What the exit handler leaves running.
SPECIFICATION Spec
CONSTANTS
  p1 = p1
  p2 = p2
  Procs <- TwoProcs
  NoProc = NoProc
  NoThread = NoThread
  MaxAutomaticRestarts = 1
INVARIANTS QuitLeavesNothing
CHECK_DEADLOCK FALSE
