SPECIFICATION Spec
CONSTANTS
  u1 = u1
  u2 = u2
  a1 = a1
  a2 = a2
  a3 = a3
  NoUser = NoUser
  Absent = Absent
  Null = Null
  Users <- MCUsers
  Proxies <- MCProxies
  Addr <- MCAddr
SYMMETRY MCSymmetry
INVARIANT TimerReachesUser
