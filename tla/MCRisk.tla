-------------------------------- MODULE MCRisk --------------------------------
(***************************************************************************)
(* What stops a new order, on small instances for TLC: the interlocks of   *)
(* the service (RiskControl) and the budget of a ticket (RiskBudget).  No  *)
(* variable is common to both, so that a property of one holds whatever    *)
(* the other does: `part` says which of the two moves in a behaviour.      *)
(***************************************************************************)
EXTENDS RiskControl, RiskBudget, TLC

CONSTANTS btc, eth

Symmetry == Permutations({btc, eth})

VARIABLE part

riskVars == <<vars, budgetVars, part>>

RiskInit == part \in {"interlocks", "budget"} /\ Init /\ BudgetInit

RiskSpec ==
    /\ RiskInit
    /\ [][\/ part = "interlocks" /\ Next /\ UNCHANGED <<budgetVars, part>>
          \/ part = "budget" /\ BudgetNext /\ UNCHANGED <<vars, part>>]_riskVars
=============================================================================
