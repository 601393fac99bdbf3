CONSTANTS
    Boxes = {1, 2, 3, 4}
    Dim = 2
    Scenes <- Rows
    Far = 5
    AnyOrder = FALSE
    Builds <- JustTree
SPECIFICATION Spec
CHECK_DEADLOCK FALSE
INVARIANTS
    Complete
