\* A ticket that was approved before an error is not evaluated again.
SPECIFICATION RiskSpec
CONSTANTS
    btc = btc
    eth = eth
    Symbols = {btc, eth}
    MaxGross = 1
    MaxDay = 1
    MaxCrashes = 1
    MaxForeign = 1
    Instruments = {btc, eth}
    Correlated = {btc, eth}
    Base = 3
    Ttl = 0
    Cooldown = 1
    LossDiv = 1
    DrawdownDiv = 2
    MaxStreak = 2
    Leverage = 1
    CorrDiv = 1
    TicketLots = 2
    DayLength = 2
    MaxTime = 2
    MaxRecords = 2
PROPERTIES
    CheckedBeforeOrder
