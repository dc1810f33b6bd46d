SPECIFICATION Spec
CONSTANTS
    Vertices <- MCVertices
    Edges <- MCEdges
    CountyLayouts <- MCCountyLayouts
    MaxRegions = 4
INVARIANTS BuildsTheHierarchicalPlans TauCountsLinkings KeptPairsAreMergeable RegionTreesAreCounted
PROPERTY KeepsTheWayBack
CHECK_DEADLOCK FALSE
