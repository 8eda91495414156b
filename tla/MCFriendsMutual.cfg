CONSTANTS
  Users = {u1, u2}
  Pages = {p1, p2}
  Conns = {c1, c2}
  None = None
  MaxAsks = 2
  MaxLogins = 2
SPECIFICATION Spec
SYMMETRY Symmetry
INVARIANT Mutual
CHECK_DEADLOCK FALSE
