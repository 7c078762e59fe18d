\* A target, a time exit and a restart, an entry of one lot.
SPECIFICATION Spec
CONSTANTS
  t1 = t1
  s1 = s1
  s2 = s2
  Tickets = {t1}
  Cancels = {}
  Supersedes <- NoSupersession
  Sessions = {s1, s2}
  Execs <- Executions
  ExitRoles = {"take_profit_1", "time_exit_1"}
  CommandRoles = {}
  Lots = 1
  MaxEpoch = 3
  NoTicket = NoTicket
  NoSession = NoSession
  Ticket = t1
  Targets <- OneTarget
  TimeExit = "time_exit_1"
  Fraction <- AllOfIt
  Whole = 1
  Expires = TRUE
  Lapses = TRUE
SYMMETRY SymmetrySessions
INVARIANTS
    ChildCreatedOnce
    RiskStoppedBeforeExit
