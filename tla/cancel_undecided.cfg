\* A CANCEL ticket that supersedes its target is never decided; with CancelDecided
\* in the place of EveryCancelDecided nothing is found.
SPECIFICATION CancelFairSpec
CONSTANTS
  t1 = t1
  c1 = c1
  c2 = c2
  s1 = s1
  s2 = s2
  Tickets = {t1, c1, c2}
  Cancels = {c1, c2}
  Supersedes <- Replacement
  Sessions = {s1, s2}
  Execs <- Executions
  ExitRoles = {"take_profit_1", "take_profit_2", "time_exit_1"}
  CommandRoles = {"cancel_1"}
  Lots = 1
  MaxEpoch = 3
  NoTicket = NoTicket
  NoSession = NoSession
  Ticket = t1
  Target = t1
  Targets <- TwoTargets
  TimeExit = "time_exit_1"
  Fraction <- HalfOfIt
  Whole = 2
  Expires = FALSE
  Lapses = FALSE
PROPERTY
    EveryCancelDecided
CHECK_DEADLOCK FALSE
