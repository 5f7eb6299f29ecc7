SPECIFICATION Spec
CONSTANTS
    SizeMax = 63
    PtrdiffMax = 31
    Header = 3
    DefaultAlignment = 4
    MaxBlocks = 2
    Sizes <- MCSizes
    Addresses <- MCAddresses
    Alignments <- MCAlignments
INVARIANTS
    RegionsSound
    RequestsJudged
