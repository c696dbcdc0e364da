CONSTANTS
    CPUs = {p1, p2, p3}
    Vids = {7}
    MaxFrames = 4
SPECIFICATION Spec
INVARIANTS TypeOK ExactWithoutOverlap HookOnlyWhileLoaded
PROPERTIES CountersSpec
