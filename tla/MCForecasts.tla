------------------------------ MODULE MCForecasts ------------------------------
(***************************************************************************)
(* What the forecast process shares with others through files, on small    *)
(* instances for TLC: the candles of a symbol and the forecasts settled    *)
(* from them (ForecastSettlement, with the training process), and its      *)
(* summaries (AiCache, with the API server).  The two have no variable in  *)
(* common: `part` says which of them moves in a behaviour.                 *)
(***************************************************************************)
EXTENDS ForecastSettlement, AiCache

CONSTANTS forecast1, scalping

MCModeOrder == <<scalping>>

VARIABLE part \* the one that moves: "candles" or "summaries"

forecastsVars == <<settleVars, cacheVars, part>>

CandlesMove(A)   == part = "candles" /\ A /\ UNCHANGED <<cacheVars, part>>
SummariesMove(A) == part = "summaries" /\ A /\ UNCHANGED <<settleVars, part>>

ForecastsInit ==
    /\ part \in {"candles", "summaries"}
    /\ SettlementInit /\ CacheInit
    /\ part = "summaries" => closed = 1 /\ cache = {}
    /\ part = "candles" => gateway /\ configured

\* Of the candles: they go on to close, and the process has some forecast again and
\* again in which every call succeeds.  Of the summaries: FairCacheSpec.
ForecastsSpec ==
    /\ ForecastsInit
    /\ [][CandlesMove(SettlementNext) \/ SummariesMove(CacheNext)]_forecastsVars
    /\ WF_forecastsVars(CandlesMove(CandleCloses /\ UNCHANGED <<forecasts, prepared, status>>))
    /\ part = "candles" => \A p \in Forecasters : []<><<PredictWell(p)>>_settleVars
    /\ WF_forecastsVars(SummariesMove(NextCycle))
    /\ \A t \in Threads : WF_forecastsVars(SummariesMove(Work(t)))
    /\ WF_forecastsVars(SummariesMove(ForecastPersist))
    /\ WF_forecastsVars(SummariesMove(ForecastRename))
    /\ \A f \in Files : WF_forecastsVars(SummariesMove(Age(f)))

\* Forecasts become calibrated and stay so: Calibrates, of the behaviours in which
\* the candles move.
CalibratesHere == part = "candles" => Calibrates

\* Every file is usable again once the gateway answers: RecoversWithGateway, of the
\* behaviours in which the summaries move.
RecoversHere == part = "summaries" => RecoversWithGateway
=============================================================================
