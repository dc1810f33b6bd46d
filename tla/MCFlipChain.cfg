SPECIFICATION Spec
CONSTANTS
    Vertices <- MCVertices
    Edges <- MCEdges
    Pop <- MCPop
    ndists = 3
    Tolerances <- MCTolerances
    PopBounds <- MCPopBounds
    MaxIter = 3
    MaxSwaps = 2
INVARIANTS DistrictsStayConnected RecordsFollowThePlan RatioTellsCutEdges
PROPERTY MovesCanBeTakenBack
CHECK_DEADLOCK FALSE
