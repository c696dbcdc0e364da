CONSTANTS
    Writers = {w1, w2}
    Devs = {"eth0"}
    UidOf <- MCUidOf
    Sockets <- MCSockets
    Texts <- MCTexts
SPECIFICATION FairSpec
INVARIANTS TypeOK RefsBalanced
PROPERTIES UnregisterCompletes DispatchesNamedCommand
CHECK_DEADLOCK FALSE
