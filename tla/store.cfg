\* The journal: a ticket and a CANCEL ticket that may also supersede it; two
\* sessions of the service compete for them; two executions of an order of two lots.
\* The decisions: three modes, two needed for a decision; one timeout or restart.
SPECIFICATION StoresSpec
CONSTANTS
  t1 = t1
  c1 = c1
  s1 = s1
  s2 = s2
  Tickets = {t1, c1}
  Cancels = {c1}
  Supersedes <- Replacement
  Sessions = {s1, s2}
  Execs = {e1, e2}
  ExitRoles = {}
  CommandRoles = {}
  Lots = 2
  MaxEpoch = 2
  NoTicket = NoTicket
  NoSession = NoSession
  Modes = {m1, m2, m3}
  Prices = {p1}
  NoMode = NoMode
  NoDecision = NoDecision
  MinHorizons = 2
  RowLimit = 3
  QueueSize = 2
  MaxForecasts = 3
  MaxInterruptions = 1
  MaxPosition = 1
SYMMETRY Symmetry
INVARIANTS
    FenceExclusive
    FillsDecideTheState
    DecisionsDiffer
    DecisionsMoveOn
PROPERTY
    TerminalUpgradedOnlyByFill
