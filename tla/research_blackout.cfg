\* A later revision, or the end of its job, does not lift a blackout.
SPECIFICATION JobsSpec
CONSTANTS
    Jobs = {"j1", "j2"}
    Events = {"e1"}
    Sources = {"s1"}
    Analysts = {"w1", "w2"}
    MaxRevisions = 2
    MaxHour = 1
INVARIANT
    BlackoutFollowsNewest
CHECK_DEADLOCK FALSE
