CONSTANTS
    Tasks = {t0, t1, t2, t3, t4}
    init_task = t0
    current = t1
SPECIFICATION Spec
SYMMETRY Symmetry
INVARIANTS TypeOK VisitsEachOnce NotAstray FaultsOnlyAfterExit
CHECK_DEADLOCK FALSE
