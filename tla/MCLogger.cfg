CONSTANT MaxCalls = 3
SPECIFICATION FairSpec
INVARIANTS TypeOK NoLostWakeup
PROPERTIES ImplementsChannel EveryEntryPrinted
CHECK_DEADLOCK FALSE
