CONSTANTS
    NCpu = 2
    TimeStep = 1
    Interval = 2
    Duration = 4
    MaxLaunches = 3
    Fresh = FALSE
    Tears = FALSE
SPECIFICATION Spec
INVARIANT AsUninterrupted
CHECK_DEADLOCK FALSE
