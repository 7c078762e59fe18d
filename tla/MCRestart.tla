------------------------------ MODULE MCRestart ------------------------------
(***************************************************************************)
(* The exits of a position without a restart (ProtectionExits) and a CANCEL *)
(* ticket with one (CancelExecution), on small instances for TLC.  The two  *)
(* have the journal in common and would write different tickets of it:      *)
(* `part` says which of them moves in a behaviour.  Sessions are            *)
(* interchangeable: s1 is the first.                                        *)
(***************************************************************************)
EXTENDS ProtectionExits, CancelExecution, TLC

CONSTANTS t1, c1, c2, s1, s2

\* One CANCEL ticket supersedes its target, the other does not.
Replacement == [t \in Tickets |-> IF t = c1 THEN t1 ELSE NoTicket]
TwoTargets == <<"take_profit_1", "take_profit_2">>
HalfOfIt == [r \in ExitRoles |-> 1]
Executions == Links \X (1..Lots)

VARIABLE part \* "exits" or "cancel"

ownVars == <<procVars, visitVars, exitVars, riskVars, qty, exchVars>>

RestartInit ==
  /\ ThreadsStart /\ ServiceInit /\ sess = s1 /\ session = s1
  /\ \/ part = "exits" /\ EntryPlaced /\ canceller = c2
     \/ part = "cancel" /\ TargetPlaced

RestartSpec ==
  /\ RestartInit
  /\ [][\/ part = "exits" /\ UNCHANGED <<procVars, cancelVars, part>> /\ Next
        \/ part = "cancel" /\ UNCHANGED <<ownVars, part>> /\ CancelNext
     ]_<<storeVars, ownVars, cancelVars, part>>

\* The CANCEL ticket alone, fair.
CancelFairSpec == RestartSpec /\ part = "cancel" /\ CancelFairness
=============================================================================
