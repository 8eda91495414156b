CONSTANTS
  Pages = {p1}
  Sessions = {s1, s2}
  Users = {u1, u2}
  None = None
  MaxLogins = 1
  MaxDrops = 1
  MaxRestarts = 1
SPECIFICATION FairSpec
PROPERTY LeavingUnbinds
CHECK_DEADLOCK FALSE
