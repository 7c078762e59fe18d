\* The rebuild: two symbols, two horizons, two versions, two runs.  The research
\* on events: a job, two events, two workers.
SPECIFICATION Spec
CONSTANTS
    btc = btc
    eth = eth
    Symbols = {btc, eth}
    Horizons = {2, 4}
    InitialEquity = 10
    DailyLimit = 1
    WeeklyLimit = 3
    DrawdownPercent = 40
    Gross = 2
    DayLength = 8
    DaysPerWeek = 5
    LastDay = 6
    Commits = {1, 2}
    FirstClock = 44
    LastClock = 46
    PanelRows = 9
    LockboxPercent = 25
    MaxFolds = 2
    MinTrain = 1
    Slow = {16, 24, 28, 36}
    MaxRuns = 2
    Jobs = {"j1"}
    Events = {"e1", "e2"}
    Sources = {"s1"}
    Analysts = {"w1", "w2"}
    MaxRevisions = 2
    MaxHour = 1
INVARIANTS
    TrainedBeforeTested
    OneHorizonIsCausal
    LateWorkerIsShadow
    BlackoutIsPrimary
PROPERTY
    RevisionsAreHistory
SYMMETRY Symmetry
