SPECIFICATION Spec
CONSTANTS
    p1 = p1
    p2 = p2
    p3 = p3
    Nil = Nil
    Pools <- MCPools
    MaxHooks = 2
    MaxFinalizers = 2
    CFunctionAllocates = TRUE
INVARIANTS
    TypeOK
    HooksGuarded
    BalancedUnlessCut
    OkMeansTokenized
PROPERTIES
    EveryCallReturns
