SPECIFICATION Spec
CONSTANTS
    Vertices <- MCVertices
    Edges <- MCEdges
    Pop <- MCPop
    LowerPop = 2
    UpperPop = 4
    Seats = 4
    CountyLayouts <- MCCountyLayouts
    Barred <- MCBarred
    InitialPlans <- MCNone
INVARIANT NeverThrows
CHECK_DEADLOCK FALSE
