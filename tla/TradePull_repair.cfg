\* Safety, stickiness and completion of one ticker-day under slices, failures and kills.
SPECIFICATION FairSpec
CONSTANTS
    N = 5
    W = 2
    WindowOf <- MCWindowOf
    PageSize = 2
    Repairs <- MCRepairs
    Slices <- MCSlices
    MaxSlices = 2
    MaxFaults = 2
    None = None
INVARIANTS TypeOK CompleteDayIsStored CompletedWindowsAreStored CursorSkipsOnlyStored
PROPERTIES CompleteIsKept DayIsCompleted
CHECK_DEADLOCK FALSE
