\* New generations over two accounts, one edit.
SPECIFICATION Spec
CONSTANTS
  t1 = t1
  t2 = t2
  t3 = t3
  t4 = t4
  Tasks <- ThreeTasks
  NoTask = NoTask
  Job <- Fresh
  NumAccounts = 2
  NoAccount = NoAccount
  MaxConcurrency = 3
  MaxEdits = 1
INVARIANTS OneBrowserPerProfile
CHECK_DEADLOCK FALSE
