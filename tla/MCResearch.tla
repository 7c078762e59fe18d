----------------------------- MODULE MCResearch -----------------------------
(***************************************************************************)
(* The quarterly rebuild and the research on events share nothing: a       *)
(* behaviour is one of the one or one of the other.                        *)
(***************************************************************************)
EXTENDS MCProfitabilityResearch, ResearchJobs

VARIABLE part \* the one that moves: "rebuild" or "jobs"

Init == part \in {"rebuild", "jobs"} /\ ResearchInit /\ JobsInit

Next ==
    \/ part = "rebuild" /\ ResearchNext /\ UNCHANGED <<jobVars, part>>
    \/ part = "jobs" /\ JobsNext /\ UNCHANGED <<researchVars, part>>

Spec == Init /\ [][Next]_<<researchVars, jobVars, part>>
=============================================================================
