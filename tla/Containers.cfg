CONSTANTS
    Size = 7
    ChunksInBlock = 3
    MaxBlocks = 2
    NCpu = 3
    UIntMax = 9
SPECIFICATION ContainersSpec
INVARIANTS Balanced LoopsMeetAll InsertSparesSentinel OneOwner ZeroedOnReturn TypeOK UniqueIds NoLostIds
PROPERTY SetOfData
