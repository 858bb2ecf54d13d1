CONSTANTS
    Requests = {r1, r2}
    Builds = {b1, b2}
    None = None
    StandIns = {timeout, artifact}
    Recognised = {timeout}
    MaxData = 2
SPECIFICATION Spec
INVARIANTS TypeOK SingleFlight JoinedBuildIsFresh
PROPERTIES ReportIsFresh EventuallyFresh WaitsEnd
