------------------------- MODULE ForecastSettlement -------------------------
(***************************************************************************)
(* The forecasts of one symbol over the life of its candles: a prediction  *)
(* (Portfolio._predict_single_symbol) loads the candles, runs the model in *)
(* a process of the pool, and then settles the forecasts that are due from *)
(* the candle cache, calibrates itself on them and records itself          *)
(* (core/online_calibration.py).  Only calibrated forecasts become tickets. *)
(*                                                                         *)
(* The candles, their cache and the training process that shares it are    *)
(* those of KlineFeatureStore.  A forecast keeps the candle its horizon    *)
(* ends in and the candle its outcome was taken from.                      *)
(***************************************************************************)
EXTENDS KlineFeatureStore, Sequences

CONSTANTS MaxForecasts, \* bound: rows of the table predictions
          Orphans,      \* rows of symbols that are no longer configured
          Horizon,      \* candles until a forecast is due
          BatchLimit,   \* rows one settlement reads (200)
          MinSamples    \* settled forecasts a calibration needs

ASSUME SettlementAssumption ==
    /\ {MaxForecasts, BatchLimit, MinSamples} \subseteq Nat \ {0}
    /\ {Horizon, Orphans} \subseteq Nat
    /\ Orphans < MaxForecasts

VARIABLES forecasts, \* the table predictions, in the order of its ids
          prepared,  \* forecasters whose features are ready for the model
          status     \* calibration_status of the newest result

settleVars == <<vars, forecasts, prepared, status>>

Orphan == [own |-> FALSE, due |-> 0, outcome |-> 0]

SettlementTypeOK ==
    /\ TypeOK
    /\ forecasts \in Seq([own : BOOLEAN, due : Nat, outcome : 0..closed])
    /\ Len(forecasts) <= MaxForecasts
    /\ prepared \subseteq Forecasters
    /\ status \in {"unknown", "insufficient_samples", "valid"}

SettlementInit ==
    /\ Init
    /\ forecasts = [i \in 1..Orphans |-> Orphan]
    /\ prepared = {}
    /\ status = "unknown"

-----------------------------------------------------------------------------
(* The candles move on, and the training process with them.                *)

Candle == (CandleCloses \/ Update \/ Abort) /\ UNCHANGED <<forecasts, prepared, status>>

\* _feature_df: get_ohlcv of the forecaster.
LoadFeatures(p) ==
    /\ p \notin prepared
    /\ ReadCache(p)
    /\ UNCHANGED <<forecasts, prepared, status>>

\* prepare_data_for_process returns its features.
Prepare(p) ==
    /\ SaveCache(p)
    /\ prepared' = prepared \cup {p}
    /\ UNCHANGED <<forecasts, status>>

\* No candles, a factor the exchange does not serve, a timeout, a scaler that
\* does not fit, or no result from the process of the pool.
PredictionFails(p) ==
    /\ \/ AbortForecast(p) /\ UNCHANGED prepared
       \/ p \in prepared /\ prepared' = prepared \ {p} /\ UNCHANGED vars
    /\ UNCHANGED <<forecasts, status>>

-----------------------------------------------------------------------------
(* settle_due, calibrate and record, in one step of the event loop.        *)

\* The horizon ends within candle row.due; now is within closed + 1.
DueRows(now) == {i \in DOMAIN forecasts : forecasts[i].outcome = 0 /\ forecasts[i].due <= now}

\* A mutant: the rows that are already settled count as well.
MutantRereads(now) ==
    {i \in DOMAIN forecasts : forecasts[i].due <= now /\ i <= BatchLimit}

Batch(now) == {i \in DueRows(now) : Cardinality({j \in DueRows(now) : j < i}) < BatchLimit}

\* _actual_return_from_cache: the first candle in the cache that opened after
\* the horizon; 0 if there is none.
Outcome(due, seen) ==
    LET later == {c \in seen : c > due} IN IF later = {} THEN 0 ELSE Min(later)

\* Rows without an outcome stay; the cache of an orphan does not grow.
Settled(now, seen) ==
    [i \in DOMAIN forecasts |->
        IF i \in Batch(now) /\ forecasts[i].own
        THEN [forecasts[i] EXCEPT !.outcome = Outcome(forecasts[i].due, seen)]
        ELSE forecasts[i]]

\* calibrate: too few samples leave the forecast as the model made it.
CalibrationStatus(rows) ==
    IF Cardinality({i \in DOMAIN rows : rows[i].own /\ rows[i].outcome > 0}) >= MinSamples
    THEN "valid" ELSE "insufficient_samples"

\* The bound MaxForecasts keeps the table, never the settlement, from growing.
Recorded(rows) ==
    IF Len(rows) < MaxForecasts /\ closed + 2 + Horizon <= MaxCandle
    THEN Append(rows, [own |-> TRUE, due |-> closed + 1 + Horizon, outcome |-> 0])
    ELSE rows

\* The answer of the process of the pool arrives.
Predict(p) ==
    /\ p \in prepared
    /\ \E now \in {closed, closed + 1}, seen \in {cache, {}} :
           LET rows == Settled(now, seen)
           IN  /\ status' = CalibrationStatus(rows)
               /\ forecasts' = Recorded(rows)
    /\ prepared' = prepared \ {p}
    /\ UNCHANGED vars

-----------------------------------------------------------------------------
SettlementNext ==
    \/ Candle
    \/ \E p \in Forecasters : LoadFeatures(p) \/ Prepare(p) \/ PredictionFails(p) \/ Predict(p)

\* Time passes, and the modes are predicted again and again: requests and the
\* model do not fail, nor is the cache being replaced, every time.
PredictWell(p) == Predict(p) /\ forecasts' = Recorded(Settled(closed, cache))

SettlementSpec ==
    /\ SettlementInit /\ [][SettlementNext]_settleVars
    /\ WF_settleVars(CandleCloses /\ UNCHANGED <<forecasts, prepared, status>>)
    /\ \A p \in Forecasters : []<><<PredictWell(p)>>_settleVars

-----------------------------------------------------------------------------
(* Properties.                                                             *)

\* Although a settlement reads a limited batch, a cache the training process
\* truncates or that is just being replaced, no forecast is passed over: one
\* that is settled has no unsettled predecessor.
SettledInOrder ==
    \A i \in DOMAIN forecasts : \A j \in 1..(i - 1) :
        forecasts[i].outcome > 0 /\ forecasts[j].own => forecasts[j].outcome > 0

\* Predictions that go on become calibrated as soon as they are many enough,
\* across outages longer than the cache, and stay so: without it no forecast
\* would ever become a ticket.
Calibrates ==
    (Cardinality({i \in DOMAIN forecasts : forecasts[i].own}) >= MinSamples)
        ~> [](status = "valid")

\* "the first candle after the horizon" (portfolio3_3_fixed.py,
\* _actual_return_from_cache).
OutcomeIsFirstCandle ==
    \A i \in DOMAIN forecasts : forecasts[i].outcome \in {0, forecasts[i].due + 1}
=============================================================================
