SPECIFICATION Spec
CONSTANTS
    Vertices = {1, 2, 3, 4, 5, 6}
    NULL = NULL
    Edges <- Grid
    pop <- UnequalPop
    region_sizes <- ThreeSeats
    lower = 1
    upper = 4
    init_plan <- Columns
INVARIANTS
    TreesSpanTheDistricts
    PopulationsInBounds
    MoveBackSeesTheSameCuts
PROPERTY
    RejectedMoveIsUndone
