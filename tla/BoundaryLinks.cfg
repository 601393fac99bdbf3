CONSTANTS
    a = a
    b = b
    c = c
    d = d
    NCpu = 2
    UIntMax = 5
    Bodies <- AndPart
    Touching <- ContactPair
    Links <- LinkAside
    Fixable = {a}
    Lost = {a}
    Parts <- Cracks
    Deletable = {"FIXPNT"}
    Careful = TRUE
    Debug = TRUE
SPECIFICATION Spec
INVARIANTS
    TypeOK
    ImagesMatch
    OwnerHasBodies
    LookupsSucceed
    HoldersSeeAll
    BodyListsTake
PROPERTY
    IdentifiersRefined
CHECK_DEADLOCK FALSE
