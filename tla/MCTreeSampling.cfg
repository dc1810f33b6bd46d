SPECIFICATION DrawSpec
CONSTANTS
    Vertices <- MCVertices
    Edges <- MCEdges
    Pop <- MCPop
    LowerPop = 9
    UpperPop = 14
    Layouts <- MCLayouts
    Draws <- MCDraws
    Earlier <- MCEarlier
    Unit = 2
    MaxTries = 7
INVARIANTS DrawnTreeIsHierarchical SkippedCountiesHoldNoCut ForestIsOfTheParts
PROPERTY DrawEnds
CHECK_DEADLOCK FALSE
