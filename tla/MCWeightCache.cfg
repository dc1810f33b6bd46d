SPECIFICATION CacheSpec
CONSTANTS
    ndists = 5
    total_seats = 5
    district_seat_sizes = {1}
    diagnostic_mode = FALSE
    MaxOrder = 14
INVARIANTS
    WeightsSumOverAncestors
    FreshMeansUnchanged
