CONSTANTS
    Drivers = {"newchrdevbase", "mutex", "dtsofled", "my_device", "chrdevbase", "sys", "sys2", "procsys", "mynetwork", "dtsof"}
    Users = {u1, u2}
SPECIFICATION FairSpec
INVARIANTS TypeOK NothingLeftBehind ReleasesWhatItHolds OperationsFindWhatTheyNeed
PROPERTIES OperationsReturn InsmodAndRmmodEnd
CHECK_DEADLOCK FALSE
