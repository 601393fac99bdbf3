CONSTANTS
    NCpu = 2
    TimeStep = 1
    Interval = 2
    Duration = 4
    MaxLaunches = 3
    Fresh = FALSE
    Tears = TRUE
SPECIFICATION Spec
INVARIANTS OneMoment SeekFinds TornNotCounted
PROPERTY CompleteFramesKept
CHECK_DEADLOCK FALSE
