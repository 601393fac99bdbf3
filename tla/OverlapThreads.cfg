CONSTANTS
    Pairs = {"p", "q", "r"}
    Touching = {"p", "q", "r"}
    Excluded = {"q"}
    Threads = {1, 2, 3}
    Works <- Harmless
SPECIFICATION Spec
CHECK_DEADLOCK FALSE
INVARIANT
    DistinctIds
PROPERTY
    EveryTouchCreated
