\* Recomputing the tail shortens the windows of the rows it starts with.
SPECIFICATION SettlementSpec
CONSTANTS
    Trainer = Trainer
    forecast1 = forecast1
    Forecasters = {}
    MaxCandle = 6
    PageLimit = 2
    WantLimit = 3
    Window = 2
    Overlap = 3
    MaxForecasts = 1
    Orphans = 0
    Horizon = 0
    BatchLimit = 1
    MinSamples = 1
PROPERTIES
    RecomputationStable
CHECK_DEADLOCK FALSE
