SPECIFICATION CacheSpec
CONSTANTS
    ndists = 4
    total_seats = 4
    district_seat_sizes = {1}
    diagnostic_mode = TRUE
    MaxOrder = 14
INVARIANT
    FreshMeansUnchanged
