CONSTANTS
  Pages = {p1}
  Sessions = {s1, s2}
  Users = {u1}
  None = None
  MaxLogins = 1
  MaxDrops = 0
  MaxRestarts = 1
SPECIFICATION Spec
INVARIANT ConnectedIsServed
CHECK_DEADLOCK FALSE
