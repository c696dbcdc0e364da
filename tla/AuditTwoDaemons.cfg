CONSTANTS
    Readers = {d1, d2}
    Calls = {5, 238}
    AUDIT_BUF_SIZE = 3
    SerialMod = 1
    LinesPerRecord = 1
    StaleEax = {0}
    MaxSignals = 1
    MaxUnloads = 0
SPECIFICATION Spec
INVARIANTS SleepsExactlyBelowThreshold
PROPERTIES NoShortBatch
CHECK_DEADLOCK FALSE
