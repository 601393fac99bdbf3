CONSTANTS
    a = a
    b = b
    c = c
    d = d
    NCpu = 3
    UIntMax = 6
    Bodies <- TwoBodies
    Touching <- ContactPair
    Links = {}
    Fixable = {}
    Lost = {}
    Parts <- Whole
    Deletable = {}
    Careful = TRUE
    Debug = TRUE
SPECIFICATION Spec
INVARIANTS
    ImagesMatch
    OneContactPerPair
