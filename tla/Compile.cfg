SPECIFICATION Spec
CONSTANTS
    div = div
    p = p
    br = br
    NoTag = NoTag
    Tags <- MCTags
    VoidTags <- MCVoidTags
    MaxTokens = 4
    MaxAttrs = 1
    NilKeyAllocates = TRUE
    CallsRaise = TRUE
SYMMETRY Symmetry
INVARIANTS
    TypeOK
    TreeMatchesTokens
    EveryTokenKept
    StacksAgree
    RepresentationSound
    ErrorsAreObjects
