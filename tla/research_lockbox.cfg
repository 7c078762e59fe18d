\* A second version evaluates nearly the same candles.
SPECIFICATION ResearchSpec
CONSTANTS
    btc = btc
    eth = eth
    Symbols = {btc, eth}
    Horizons = {2, 4}
    InitialEquity = 10
    DailyLimit = 1
    WeeklyLimit = 3
    DrawdownPercent = 40
    Gross = 2
    DayLength = 8
    DaysPerWeek = 5
    LastDay = 6
    Commits = {1, 2}
    FirstClock = 44
    LastClock = 46
    PanelRows = 9
    LockboxPercent = 25
    MaxFolds = 2
    MinTrain = 1
    Slow = {16, 24, 28, 36}
    MaxRuns = 2
INVARIANT
    LockboxIsFresh
SYMMETRY Symmetry
CHECK_DEADLOCK FALSE
