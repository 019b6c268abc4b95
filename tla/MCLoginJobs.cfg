\* Six requests under a fair event loop.
SPECIFICATION FairSpec
CONSTANTS
  l1 = l1
  l2 = l2
  l3 = l3
  a1 = a1
  a2 = a2
  a3 = a3
  c1 = c1
  c2 = c2
  d1 = d1
  d2 = d2
  NoLogin = NoLogin
  Logins <- ThreeLogins
  Requests <- FewRequests
  Op <- FewOps
INVARIANTS OpenIsCancellable
PROPERTIES NotRefusedForever
CHECK_DEADLOCK FALSE
