\* Two tickets, a page of both, one restart.
SPECIFICATION FairSpec
CONSTANTS
  MaxTickets = 2
  PageLimit = 2
  PostLimit = 4
  MaxLate = 1
  MaxSessions = 2
  MaxEvents = 2
  MaxDetail = 0
  MaxPosition = 1
INVARIANTS
    ReceiptsInOrder
    CursorSkipsNothing
PROPERTIES
    PublishedIsReceived
