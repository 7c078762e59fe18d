\* A receipt that cannot be rebuilt.
SPECIFICATION Spec
CONSTANTS
  t1 = t1
  s1 = s1
  s2 = s2
  e1 = e1
  e2 = e2
  Tickets = {t1}
  Cancels = {}
  Supersedes <- NoSupersession
  Sessions = {s1}
  Execs = {e1, e2}
  ExitRoles = {}
  CommandRoles = {}
  Lots = 2
  MaxEpoch = 2
  NoTicket = NoTicket
  NoSession = NoSession
  Outbox <- OneTicket
INVARIANT
  RebuildingIsSafe
