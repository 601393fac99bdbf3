CONSTANTS
    NCpu = 4
    Nodes = {1, 2, 3, 4, 5}
    Graphs <- FourColors
    Variants <- AllVariants
    Reverse = TRUE
    MaxIter = 2
    Buffering = {TRUE, FALSE}
SPECIFICATION Spec
CHECK_DEADLOCK FALSE
INVARIANT AllDone
PROPERTIES
    SequentialUpdate
    Termination
