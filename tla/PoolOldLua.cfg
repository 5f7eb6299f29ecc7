SPECIFICATION BridgeSpec
CONSTANTS
    b1 = b1
    b2 = b2
    Nil = Nil
    Blocks <- MCBlocks
    Sizes <- MCSizes
    Alignments <- MCAlignments
    Capacities <- MCCapacities
    Positions <- MCPositions
    SizeMax = 15
    PtrdiffMax = 7
    Header = 2
    DefaultAlignment = 2
    NilKeyAllocates = TRUE
INVARIANTS
    TypeCorrect
    OwnersSound
    DetachedIsLuas
    AccessInside
    AnswersTrue
    ReuseSound
PROPERTIES
    DeletedInTheEnd
