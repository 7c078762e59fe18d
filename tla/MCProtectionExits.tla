------------------------- MODULE MCProtectionExits -------------------------
(* Small instances of the exits of a position for TLC. *)
EXTENDS ProtectionExits, TLC

CONSTANTS t1, s1, s2

NoSupersession == [t \in Tickets |-> NoTicket]
OneTarget == <<"take_profit_1">>
TwoTargets == <<"take_profit_1", "take_profit_2">>
AllOfIt == [r \in ExitRoles |-> 1]
Executions == Links \X (1..Lots)

SymmetrySessions == Permutations(Sessions)
=============================================================================
