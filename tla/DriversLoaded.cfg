CONSTANTS
    Drivers = {"chrdevbase"}
    Users = {u1}
SPECIFICATION Spec
INVARIANTS LoadedMeansRegistered
CHECK_DEADLOCK FALSE
