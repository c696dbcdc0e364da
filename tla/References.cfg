CONSTANTS
    Loaders = {l1, l2}
    MaxRefs = 2
    MaxGens = 2
SPECIFICATION Spec
INVARIANTS TypeOK BugOnlyAfterStrayPuts
PROPERTIES FreedAtExit ReferencesPinTestModule
