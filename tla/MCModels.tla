------------------------------- MODULE MCModels -------------------------------
(***************************************************************************)
(* The models of a symbol, on small instances for TLC: what they are       *)
(* fitted on and asked for (ModeDataset), and how their files reach the    *)
(* forecasts (ModelArtifacts).  The two share nothing: `part` says which   *)
(* of them moves in a behaviour.                                           *)
(***************************************************************************)
EXTENDS ModeDataset, ModelArtifacts

VARIABLE part \* the one that moves: "dataset" or "artifacts"

modelVars == <<datasetVars, artifactVars, part>>

DatasetMoves(A)   == part = "dataset" /\ A /\ UNCHANGED <<artifactVars, part>>
ArtifactsMove(A)  == part = "artifacts" /\ A /\ UNCHANGED <<datasetVars, part>>

ModelsInit ==
    /\ part \in {"dataset", "artifacts"}
    /\ DatasetInit /\ ArtifactsInit
    /\ part # "dataset" => config = [multi |-> FALSE, versioned |-> TRUE] /\ holes = {}

\* A training that runs goes on, and the scheduler comes back to the symbol.
ModelsSpec ==
    /\ ModelsInit
    /\ [][DatasetMoves(DatasetNext) \/ ArtifactsMove(ArtifactsNext)]_modelVars
    /\ WF_modelVars(ArtifactsMove(Train)) /\ WF_modelVars(ArtifactsMove(Schedule))

\* The newest model reaches read/: NewestIsServed, of the behaviours in which the
\* artifacts move.
NewestIsServedHere == part = "artifacts" => NewestIsServed
=============================================================================
