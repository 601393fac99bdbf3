CONSTANTS
    Pairs = {"p", "q", "r"}
    Touching = {"p", "q", "r"}
    Excluded = {"q"}
    Threads = {1, 2}
    Works <- Apart
SPECIFICATION Spec
CHECK_DEADLOCK FALSE
PROPERTY
    EveryReportHandled
