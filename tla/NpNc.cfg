CONSTANTS
    N = 2
    PNUM = 2
    CNUM = 2
    BUF_NUM = 2
    SpawnMayFail = TRUE
SPECIFICATION FairSpec
INVARIANTS TypeOK MutualExclusion PermitsConserved QuitsOnlyAfterCNUM
PROPERTIES FifoSpec CflagSpec ProducersFinish
CHECK_DEADLOCK FALSE
