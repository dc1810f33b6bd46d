SPECIFICATION Spec
CONSTANTS
    Vertices <- MCVertices
    Edges <- MCEdges
    Pop <- MCPop
    LowerPop = 2
    UpperPop = 4
    Seats = 4
    CountyLayouts <- MCCountyLayouts
    Barred <- MCNone
    InitialPlans <- MCInitialPlans
INVARIANTS LinkedTreeIsHierarchical CachedCutsAreCurrent NeverThrows SearchFindsEveryCut BoundaryAgreesWithSearch
CHECK_DEADLOCK FALSE
