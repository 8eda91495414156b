CONSTANTS
  Pages = {p1, p2}
  Sessions = {s1, s2, s3}
  Users = {u1}
  None = None
  MaxLogins = 1
  MaxDrops = 0
  MaxRestarts = 0
SPECIFICATION Spec
SYMMETRY Symmetry
INVARIANT OneLoginPerUser
CHECK_DEADLOCK FALSE
