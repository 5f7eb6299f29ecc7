SPECIFICATION Spec
CONSTANTS
    b1 = b1
    b2 = b2
    b3 = b3
    Nil = Nil
    Blocks <- MCBlocks
    Sizes <- MCSizes
    Alignments <- MCAlignments
    Capacities <- MCCapacities
    SizeMax = 15
    PtrdiffMax = 7
    Header = 2
    DefaultAlignment = 2
    NilKeyAllocates = TRUE
SYMMETRY Symmetry
PROPERTIES
    FailureLeavesPoolUnchanged
