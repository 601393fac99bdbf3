CONSTANTS
    Boxes = {1, 2, 3}
    Dim = 2
    Scenes <- AllScenes
    Far = 5
    AnyOrder = FALSE
    Builds <- TreeAndTask
SPECIFICATION Spec
CHECK_DEADLOCK FALSE
INVARIANTS
    Stabbed
    ScanExact
PROPERTY
    Termination
