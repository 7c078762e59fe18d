\* The last sequence a forecast reads ends before the newest closed candle, and its target is
\* that candle: expected to be violated.
SPECIFICATION ModelsSpec
CONSTANTS
    MaxBars = 21
    Ratio = 3
    RowsWanted = 20
    WarmUp = 1
    LookBack = 2
    LabelHorizon = 1
    BrainHorizon = 2
    PurgeBars = 1
    MinFitted = 5
    Share = 15
    MinPart = 1
    MaxData = 2
    MinNew = 2
    MaxLeft = 1
INVARIANT ForecastIsAhead
CHECK_DEADLOCK FALSE
