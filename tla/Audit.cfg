CONSTANTS
    Readers = {"d1"}
    Calls = {5, 238}
    AUDIT_BUF_SIZE = 5
    SerialMod = 8
    LinesPerRecord = 1
    StaleEax = {0}
    MaxSignals = 1
    MaxUnloads = 1
SPECIFICATION FairSpec
INVARIANTS TypeOK LatestSerials
PROPERTIES LogSpec ReaderServed PrintingFeedsItself
CHECK_DEADLOCK FALSE
