\* One job of each kind but a signal lane, a manual refresh, a unit of time.
SPECIFICATION Spec
CONSTANTS
    Lanes = {lane}
    Datasets = {dataset}
    Signals = {}
    Manuals = {m1}
    NoJob = NoJob
    MaxCommands = 2
    RuntimeCycle = TRUE
    Cadence = 1
    MaxTime = 1
INVARIANTS TypeOK ActiveCommandIsBacked SuccessesAreReal CycleOnlyAfterSuccess TickOwnsFlag
PROPERTIES RunsReturn
