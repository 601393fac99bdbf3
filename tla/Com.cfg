CONSTANTS
    NCpu = 3
    Scripts <- AllScripts
    IntMax = 3
    Buffering = {TRUE, FALSE}
SPECIFICATION Spec
INVARIANTS ReadyReceives OwnReceives CollectivesAgree
PROPERTIES Exchanged Termination
