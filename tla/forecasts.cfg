\* Five candles, pages of two, one forecaster.  One mode and the overview, one request
\* beside the loop, two attempts.
SPECIFICATION ForecastsSpec
CONSTANTS
    Trainer = Trainer
    forecast1 = forecast1
    Forecasters = {forecast1}
    MaxCandle = 5
    PageLimit = 2
    WantLimit = 2
    Window = 2
    Overlap = 3
    MaxForecasts = 2
    Orphans = 0
    Horizon = 0
    BatchLimit = 1
    MinSamples = 2
    scalping = scalping
    Modes = {scalping}
    Overview = overview
    Requests = {request}
    Loop = loop
    Forecaster = forecaster
    NoThread = NoThread
    ForecastWrites = TRUE
    RetryAttempts = 2
    ModeOrder <- MCModeOrder
PROPERTIES
    NoCandleSkipped
    CalibratesHere
    FreshOverviewSurvives
    RecoversHere
