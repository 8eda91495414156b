CONSTANTS
  Sessions = {s1, s2}
  Messages = {m1, m2}
  MaxSize = 1
  Outs <- MCOuts
  MaxSends = 2
SPECIFICATION FairSpec
INVARIANTS TypeOK WriteDiscipline Fifo OpenIsServed StopForgets
PROPERTIES ImplementsChannel SentIsWritten
CHECK_DEADLOCK FALSE
