\* Five candles, pages of two, one forecaster; expected to be violated.  So is Calibrates in
\* its place, with Orphans = 1 and MaxForecasts = 3: a row of a removed symbol fills the batch.
SPECIFICATION SettlementSpec
CONSTANTS
    Trainer = Trainer
    forecast1 = forecast1
    Forecasters = {forecast1}
    MaxCandle = 5
    PageLimit = 2
    WantLimit = 2
    Window = 2
    Overlap = 3
    MaxForecasts = 2
    Orphans = 0
    Horizon = 0
    BatchLimit = 1
    MinSamples = 2
INVARIANTS
    OutcomeIsFirstCandle
CHECK_DEADLOCK FALSE
