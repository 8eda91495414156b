CONSTANTS
  Pages = {p1}
  Sessions = {s1, s2}
  Users = {u1}
  None = None
  MaxLogins = 1
  MaxDrops = 1
  MaxRestarts = 0
SPECIFICATION Spec
INVARIANT DeadSessionsReleased
CHECK_DEADLOCK FALSE
