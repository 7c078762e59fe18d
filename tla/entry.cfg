\* One ticket, a crash, an order of two lots with a stop loss.
SPECIFICATION FromFirst
CONSTANTS
  t1 = t1
  s1 = s1
  s2 = s2
  e1 = e1
  e2 = e2
  Tickets = {t1}
  Cancels = {}
  Supersedes <- NoSupersession
  Sessions = {s1, s2}
  Execs = {e1, e2}
  ExitRoles = {}
  CommandRoles = {"stop_loss_1"}
  Lots = 2
  MaxEpoch = 2
  NoTicket = NoTicket
  NoSession = NoSession
  Outbox <- OneTicket
INVARIANTS
    CreatedOnce
    JournalFollowsExchange
    CommandsFollowOrder
PROPERTY
    KeepsPromise
