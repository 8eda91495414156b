CONSTANTS
  Pages = {p1, p2}
  Sessions = {s1, s2}
  Users = {u1, u2}
  None = None
  MaxLogins = 2
  MaxDrops = 1
  MaxRestarts = 1
SPECIFICATION Spec
SYMMETRY Symmetry
INVARIANTS TypeOK OnlineIsBound Released
CHECK_DEADLOCK FALSE
