SPECIFICATION MCSpec
CONSTANTS
  k = k
  a1 = a1
  a2 = a2
  a3 = a3
  Account = {k, a1, a2, a3}
  RoleOf <- MCRoleOf
  Keeper = k
  Student = {s1}
  Upload = {u1, u2}
  Removal = {r1, r2}
  MaxLost = 1
  None = None
  Tab = {t1, t2}
  MaxSessions = 2
  Photo = {1, 2, 3}
INVARIANTS SignedInAsAnswered PhotoIsThere
PROPERTIES RemovalsLeaveNothing OnlyRefusedSessionsGo
CHECK_DEADLOCK FALSE
