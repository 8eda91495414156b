CONSTANTS
  Pages = {p1, p2}
  Passwords = {pw1, pw2, Blank}
  Blank = Blank
  Salts = {salt1, salt2}
  Digits <- MCDigits
  IdLength = 2
  Ints = 256
  Typed <- MCTyped
  NaN = NaN
  None = None
  MaxRequests = 3
SYMMETRY Symmetry
SPECIFICATION Spec
INVARIANTS TypeOK ShownLogsIn ChatIsOwned OwedIsUnderWay
CHECK_DEADLOCK FALSE
