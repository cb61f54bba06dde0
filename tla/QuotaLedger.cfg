SPECIFICATION Spec
CONSTANTS
    Runs = {r1, r2, r3}
    Sweepers = {s1, s2}
    Limit = 5
    Estimates <- MCEstimates
    Actuals = {0, 4}
    Window = 2
    Deadline = 1
    Grace = 2
    SweepPeriod = 1
    MaxTime = 4
SYMMETRY RunSymmetry
INVARIANTS TypeOK LedgerBalanced SpendBounded LiveReservationHeld NothingLeaks
CHECK_DEADLOCK FALSE
