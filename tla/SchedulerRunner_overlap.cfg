CONSTANTS
    Lanes = {lane}
    Datasets = {dataset}
    Signals = {signal}
    Manuals = {m1}
    NoJob = NoJob
    MaxCommands = 2
    RuntimeCycle = TRUE
    Cadence = 1
    MaxTime = 1
SPECIFICATION Spec
INVARIANTS TickExcludesManual
