CONSTANTS
    Writers = {w1}
    Devs = {"eth0"}
    UidOf <- MCUidOf
    Sockets <- MCSockets
    Texts <- MCRepeated
SPECIFICATION Spec
INVARIANTS EmptyInputRefused
CHECK_DEADLOCK FALSE
