CONSTANTS
  Users = {u1, u2}
  Conns = {c1, c2, c3}
  Everyone = Everyone
  None = None
  MaxTexts = 2
SPECIFICATION Spec
SYMMETRY Symmetry
INVARIANTS TypeOK NoGap OwnOnce OnceEachWay InOrder
CHECK_DEADLOCK FALSE
