\* Two logins of one account.
SPECIFICATION Spec
CONSTANTS
  l1 = l1
  l2 = l2
  l3 = l3
  a1 = a1
  a2 = a2
  a3 = a3
  c1 = c1
  c2 = c2
  d1 = d1
  d2 = d2
  NoLogin = NoLogin
  Logins <- ThreeLogins
  Requests <- AllRequests
  Op <- AllOps
SYMMETRY LoginSymmetry
INVARIANTS OneLogin
CHECK_DEADLOCK FALSE
