\* An entry of two lots, two targets of half the position each, no restart; a
\* CANCEL ticket of the entry that supersedes it or does not, with a restart.
SPECIFICATION RestartSpec
CONSTANTS
  t1 = t1
  c1 = c1
  c2 = c2
  s1 = s1
  s2 = s2
  Tickets = {t1, c1, c2}
  Cancels = {c1, c2}
  Supersedes <- Replacement
  Sessions = {s1, s2}
  Execs <- Executions
  ExitRoles = {"take_profit_1", "take_profit_2", "time_exit_1"}
  CommandRoles = {"cancel_1"}
  Lots = 2
  MaxEpoch = 3
  NoTicket = NoTicket
  NoSession = NoSession
  Ticket = t1
  Target = t1
  Targets <- TwoTargets
  TimeExit = "time_exit_1"
  Fraction <- HalfOfIt
  Whole = 2
  Expires = FALSE
  Lapses = FALSE
INVARIANTS
    TargetsWithinEntry
    ExitsFollowExchange
    CancelledOnce
