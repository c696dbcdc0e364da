CONSTANTS
    Readers = {"d1"}
    Calls = {5, 238}
    AUDIT_BUF_SIZE = 5
    SerialMod = 8
    LinesPerRecord = 1
    StaleEax = {0}
    MaxSignals = 0
    MaxUnloads = 0
SPECIFICATION Spec
INVARIANTS PrintsOnlyWhatWasCopied
CHECK_DEADLOCK FALSE
