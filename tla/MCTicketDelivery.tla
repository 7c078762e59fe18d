-------------------------- MODULE MCTicketDelivery --------------------------
(* The instance TLC checks: the constants are numbers given in the .cfg.   *)
EXTENDS TicketDelivery, TLC
=============================================================================
