SPECIFICATION Spec
CONSTANTS
    ndists = 5
    total_seats = 5
    district_seat_sizes = {1}
    diagnostic_mode = FALSE
    MaxOrder = 16
INVARIANT
    RemainderIsLast
