CONSTANTS
    Timeout = 5
SPECIFICATION FairSpec
INVARIANTS TypeOK StaleOnlyAfterTimeout
PROPERTIES InitReturns CreatedThreadsRun
CHECK_DEADLOCK FALSE
