\* One target, fair, without a restart.
SPECIFICATION FairSpec
CONSTANTS
  t1 = t1
  s1 = s1
  s2 = s2
  Tickets = {t1}
  Cancels = {}
  Supersedes <- NoSupersession
  Sessions = {s1}
  Execs <- Executions
  ExitRoles = {"take_profit_1", "time_exit_1"}
  CommandRoles = {}
  Lots = 1
  MaxEpoch = 2
  NoTicket = NoTicket
  NoSession = NoSession
  Ticket = t1
  Targets <- OneTarget
  TimeExit = "time_exit_1"
  Fraction <- AllOfIt
  Whole = 1
  Expires = FALSE
  Lapses = TRUE
PROPERTIES
    ProtectedOrStopped
    ChildOutcomeReachesJournal
