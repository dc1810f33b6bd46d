SPECIFICATION Spec
CONSTANTS
    ndists = 4
    total_seats = 11
    smallest_district_size = 2
    largest_district_size = 4
    district_seat_sizes = {2, 3, 4}
    diagnostic_mode = FALSE
    supposedly_safe_input_checks = TRUE
    MaxOrder = 22
INVARIANTS
    FinishedPlanAllDistricts
    AtMostOneNonDistrict
    AlwaysARegionToSplit
    WeightsSumOverAncestors
PROPERTIES
    MergeSplitIsReversible
    KeepsPlanCompletable
