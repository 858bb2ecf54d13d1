CONSTANTS
    Lanes = {lane}
    Datasets = {dataset}
    Signals = {signal}
    Manuals = {}
    NoJob = NoJob
    MaxCommands = 2
    RuntimeCycle = TRUE
    Cadence = 1
    MaxTime = 1
SPECIFICATION Spec
PROPERTIES CadenceRespected
