SPECIFICATION PlaceSpec
CONSTANTS
    byte = byte
    quote = quote
    NewLine = NewLine
    Blank = Blank
    Caret = Caret
    LessThan = LessThan
    GreaterThan = GreaterThan
    NoSource = NoSource
    NoNumber = NoNumber
    NoTag = NoTag
    NoPosition = NoPosition
    MaxLength = 5
    Sources <- MCSources
    Inputs <- MCInputs
    StartTags <- MCStartTags
    SizeMax = 31
    Base = 3
INVARIANTS
    PlaceTypeOK
    RangeIsTheTag
    LocationsRight
    SnippetRight
PROPERTIES
    EveryCallReturns
