SPECIFICATION Spec
CONSTANTS
    key1 = key1
    key2 = key2
    NoKey = NoKey
    Invalid = Invalid
    Keys <- MCKeys
    MaxNodes = 4
    Documents <- MCDocuments
    FirstCapacity = 1
    MaxFrames = 4
    NilKeyAllocates = TRUE
    CallsRaise = TRUE
INVARIANTS
    TypeOK
    FramesSound
    HeapSound
    ReleasedUnlessRaised
    ReportTrue
PROPERTIES
    EveryParseEnds
    KeepsPromise
