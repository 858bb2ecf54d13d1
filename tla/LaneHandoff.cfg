\* The tick beside one manual refresh, from a closed market over the night and
\* pre-market to regular hours, and a span of time; one fault.
SPECIFICATION FairSpec
CONSTANTS
    a = a
    b = b
    Tickers = {a, b}
    Slices <- MCSlices
    Sessions = {"closed"}
    Requests = {manual}
    MaxTurns = 3
    MaxAge = 1
    MaxFaults = 1
INVARIANTS TypeOK HandOffIsWhole
PROPERTIES LanesSettle
CHECK_DEADLOCK FALSE
