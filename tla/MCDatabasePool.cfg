CONSTANTS
  PoolSize = 10
  MaxStarts = 3
SPECIFICATION FairSpec
INVARIANTS TypeOK BlockedOnlyWhenExhausted
PROPERTY RequestsFinish
CHECK_DEADLOCK FALSE
