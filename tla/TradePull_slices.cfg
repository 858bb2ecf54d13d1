\* A live slice marks the ticker-day complete before the repair has seen it.
SPECIFICATION Spec
CONSTANTS
    N = 5
    W = 2
    WindowOf <- MCWindowOf
    PageSize = 2
    Repairs <- MCRepairs
    Slices <- MCSlices
    MaxSlices = 1
    MaxFaults = 1
    None = None
INVARIANTS CompleteDayIsFullDepth
CHECK_DEADLOCK FALSE
