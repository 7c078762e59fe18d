----------------------------- MODULE ModeDataset -----------------------------
(***************************************************************************)
(* What the models of a mode are fitted on, judged on and asked for: the   *)
(* dataset built from the feature store (core/kline_feature_store.py), its *)
(* split for the LSTM (core/trainer3.py) and the Brain                     *)
(* (core/brain_model.py), and the frame a forecast is made from            *)
(* (core/inferencer3_fixed.py).                                            *)
(*                                                                         *)
(* Time is counted in candles of the base timeframe.  Of a row the model   *)
(* keeps the candle it stands for and the newest candle its features rest  *)
(* on, which `knows` names; of a fitted model, what it rests on.           *)
(***************************************************************************)
EXTENDS Integers, Sequences, FiniteSets, FiniteSetsExt, SequencesExt

CONSTANTS MaxBars,       \* bound: candles of the base timeframe
          Ratio,         \* candles of the base timeframe in one of the higher
          RowsWanted,    \* requested_limit of the mode
          WarmUp,        \* rows at the start of a frame without all features
          LookBack,      \* lookback_window: rows in one sequence of the LSTM
          LabelHorizon,  \* label_horizon of the mode's specification
          BrainHorizon,  \* horizon_for_mode
          PurgeBars,     \* validation_purge_bars, as configured
          MinFitted,     \* the smallest training part of the Brain (200)
          Share,         \* validation_fraction and test_fraction, in percent
          MinPart        \* the smallest validation or test part

ASSUME DatasetAssumption ==
    /\ {MaxBars, Ratio, RowsWanted, LookBack, LabelHorizon, BrainHorizon, MinFitted,
        MinPart} \subseteq Nat \ {0}
    /\ {WarmUp, PurgeBars} \subseteq Nat /\ Share \in 1..49
    /\ MaxBars >= 2
    /\ MinFitted >= BrainHorizon + 3

VARIABLES bar,      \* the newest candle that has closed
          config,   \* training.multi_timeframe, require_versioned_feature_store
          holes,    \* candles whose stored features are incomplete
          base,     \* the newest base candle in the store
          high,     \* where the newest higher candle in the store closes
          stage,    \* what _train_single_symbol is doing
          dataset,  \* what it trains on
          lstm, brain,   \* the models that forecasts load
          forecast       \* the last forecast

datasetVars == <<bar, config, holes, base, high, stage, dataset, lstm, brain, forecast>>

NoDataset  == [rows |-> <<>>, columns |-> {}]
NoModel    == [parts |-> <<>>, leads |-> {}, columns |-> {}]
NoForecast == [newest |-> 0, lstm |-> [knows |-> 0, target |-> 0],
               brain |-> [knows |-> 0, target |-> 0]]

Columns == {"base", "high", "raw"}
Bars    == 0..MaxBars
Row     == [candle : Bars, knows : Bars]
Part    == [from : Bars, upto : Bars]

DatasetTypeOK ==
    /\ bar \in Bars /\ base \in 0..bar /\ high \in 0..bar
    /\ config \in [multi : BOOLEAN, versioned : BOOLEAN]
    /\ holes \subseteq 1..MaxBars
    /\ stage \in {"idle", "base", "stored", "built", "fitted"}
    /\ Range(dataset.rows) \subseteq Row /\ dataset.columns \subseteq Columns
    /\ \A m \in {lstm, brain} : /\ Range(m.parts) \subseteq Part
                                /\ m.leads \subseteq Nat /\ m.columns \subseteq Columns
    /\ forecast.newest \in 0..bar

\* At most one hole, where an earlier recomputation of the tail has begun.
DatasetInit ==
    /\ bar = MaxBars - 2
    /\ config \in [multi : BOOLEAN, versioned : BOOLEAN]
    /\ holes \in {{}} \cup {{c} : c \in 1..bar}
    /\ base = 0 /\ high = 0
    /\ stage = "idle" /\ dataset = NoDataset
    /\ lstm = NoModel /\ brain = NoModel /\ forecast = NoForecast

BarCloses ==
    /\ bar < MaxBars
    /\ bar' = bar + 1
    /\ UNCHANGED <<config, holes, base, high, stage, dataset, lstm, brain, forecast>>

-----------------------------------------------------------------------------
(* update_for_mode: one timeframe after the other.                         *)

UpdateBase ==
    /\ stage = "idle"
    /\ base' = bar
    /\ stage' = IF config.multi THEN "base" ELSE "stored"
    /\ UNCHANGED <<bar, config, holes, high, dataset, lstm, brain, forecast>>

UpdateHigh ==
    /\ stage = "base"
    /\ high' = (bar \div Ratio) * Ratio
    /\ stage' = "stored"
    /\ UNCHANGED <<bar, config, holes, base, dataset, lstm, brain, forecast>>

-----------------------------------------------------------------------------
(* build_feature_frame, build_mode_dataset.                                *)

NewestOf(S) == IF S = {} THEN 0 ELSE Max(S)
NthOf(S, n) == CHOOSE c \in S : Cardinality({d \in S : d <= c}) = n

\* load_enhanced_frame: the last rows of the base timeframe.
FrameRows == {c \in 1..base : base - c < RowsWanted}

HighRows == {c \in 1..high : c % Ratio = 0}

\* A mutant: the higher candle the row lies in.
MutantMergesForward(c) == LET later == {h \in HighRows : h >= c}
                          IN  IF later = {} THEN 0 ELSE Min(later)

\* merge_asof, backward on close_time: the higher candle that had closed by then.
Merged(c) == NewestOf({h \in HighRows : h <= c})

\* Without any candle of the higher timeframe its columns are left out.
Merging == config.multi /\ HighRows # {}

CompleteRow(c) == /\ c \notin holes /\ c >= Min(FrameRows) + WarmUp
                  /\ Merging => Merged(c) > 0

\* The features of a row are those of the row before (shift_features); the
\* label looks LabelHorizon rows ahead; rows that miss either are dropped.
BuiltRows ==
    LET kept == {c \in FrameRows : c - 1 \in FrameRows /\ CompleteRow(c - 1)
                                   /\ c + LabelHorizon \in FrameRows}
        Known(c) == Max({c - 1, IF Merging THEN Merged(c - 1) ELSE 0})
    IN  [i \in 1..Cardinality(kept) |->
            LET c == NthOf(kept, i) IN [candle |-> c, knows |-> Known(c)]]

Build ==
    /\ stage = "stored"
    /\ dataset' = [rows |-> BuiltRows,
                   columns |-> IF Merging THEN {"base", "high"} ELSE {"base"}]
    /\ stage' = "built"
    /\ UNCHANGED <<bar, config, holes, base, high, lstm, brain, forecast>>

\* The candles as the fetcher has them; the OHLCV columns are not shifted.
LiveRows(shifted) ==
    [i \in 1..(bar - WarmUp - 1) |->
        [candle |-> WarmUp + 1 + i, knows |-> WarmUp + 1 + i - (IF shifted THEN 1 ELSE 0)]]

\* The store is not there and not required: the legacy path loads candles.
BuildLegacy ==
    /\ stage \in {"idle", "base", "stored"} /\ ~config.versioned
    /\ dataset' = [rows |-> LiveRows(FALSE), columns |-> {"base", "raw"}]
    /\ stage' = "built"
    /\ UNCHANGED <<bar, config, holes, base, high, lstm, brain, forecast>>

\* should_train says no, a request or the child fails, or the process ends.
DropDataset ==
    /\ stage # "idle"
    /\ stage' = "idle" /\ dataset' = NoDataset
    /\ UNCHANGED <<bar, config, holes, base, high, lstm, brain, forecast>>

-----------------------------------------------------------------------------
(* Chronological parts of n samples (core/evaluation/time_series_split.py).*)

PartSize(n) == Max({MinPart, (n * Share + 50) \div 100})

\* purged_holdout_boundary: where fitting ends and the holdout begins; the
\* latter gives way to the smallest training part.
Holdout(n, least, purge) ==
    LET size == Min({PartSize(n), n - least - purge})
    IN  [end |-> n - size - purge, validation |-> n - size + 1, fits |-> size >= MinPart]

\* purged_three_way_boundary.
ThreeWay(n, least, purge) ==
    LET test  == n - PartSize(n) + 1
        valid == test - purge - PartSize(n)
    IN  [end |-> valid - purge - 1, validation |-> valid, validationEnd |-> test - purge - 1,
         test |-> test, fits |-> valid - purge - 1 >= least]

Purge(reach) == Max({reach, PurgeBars})

-----------------------------------------------------------------------------
(* run_training_in_process, train_brain_from_df.                           *)

CandleOf(i) == dataset.rows[i].candle
KnownTo(i)  == dataset.rows[i].knows

\* Sequences of LookBack rows, each with the close of the next row as target.
\* The scalers are fitted on the same rows as the model.
LstmFitted(split) ==
    [parts   |-> << [from |-> CandleOf(1),
                     upto |-> NewestOf({CandleOf(i) : i \in 1..split.end}
                                       \cup {KnownTo(i) : i \in 1..split.end})],
                    [from |-> CandleOf(split.validation - LookBack),
                     upto |-> CandleOf(Len(dataset.rows))] >>,
     leads   |-> {CandleOf(i) - KnownTo(i - 1) : i \in (LookBack + 1)..split.end},
     columns |-> dataset.columns]

TrainLstm ==
    /\ stage = "built"
    /\ Len(dataset.rows) > LookBack
    /\ LET split == Holdout(Len(dataset.rows), LookBack + 2, Purge(LookBack))
       IN  split.fits /\ lstm' = LstmFitted(split)
    /\ stage' = "fitted"
    /\ UNCHANGED <<bar, config, holes, base, high, dataset, brain, forecast>>

\* make_brain_dataset: the label of row i is the return from row i to row
\* i + BrainHorizon, its features are computed up to row i - 1.
BrainFitted(split) ==
    [parts   |-> << [from |-> CandleOf(1), upto |-> CandleOf(split.end + BrainHorizon)],
                    [from |-> CandleOf(split.validation),
                     upto |-> CandleOf(split.validationEnd + BrainHorizon)],
                    [from |-> CandleOf(split.test), upto |-> CandleOf(Len(dataset.rows))] >>,
     leads   |-> {CandleOf(i + BrainHorizon) - CandleOf(i - 1) : i \in 2..split.end},
     columns |-> {"base"}]

\* Where the dataset is too short the Brain stays as it is.
TrainBrain ==
    /\ stage = "fitted"
    /\ LET split == ThreeWay(Len(dataset.rows) - BrainHorizon, MinFitted, Purge(BrainHorizon))
       IN  brain' = IF split.fits THEN BrainFitted(split) ELSE brain
    /\ stage' = "idle" /\ dataset' = NoDataset
    /\ UNCHANGED <<bar, config, holes, base, high, lstm, forecast>>

-----------------------------------------------------------------------------
(* The forecast: InferencerDataPreparer, run_keras_inference_in_process.   *)

\* A mutant: the frame of a forecast keeps the features where they are.
MutantServesUnshifted == LiveRows(FALSE)

\* The derived features are shifted as in training.  A model that was trained
\* on the OHLCV columns themselves gets them as they are.
Served == LiveRows("raw" \notin lstm.columns)

\* The last sequence ends one row before the last row, whose close is its
\* target; the Brain reads the last row, of which it knows the row before.
\* Without the columns it was trained on there is no forecast.
Forecast ==
    /\ lstm # NoModel
    /\ lstm.columns \subseteq {"base", "raw"}
    /\ Len(Served) > LookBack
    /\ LET last == Len(Served)
       IN  forecast' = [newest |-> bar,
                        lstm  |-> [knows |-> Served[last - 1].knows,
                                   target |-> Served[last].candle],
                        brain |-> IF brain = NoModel THEN NoForecast.brain
                                  ELSE [knows |-> bar - 1, target |-> bar + BrainHorizon]]
    /\ UNCHANGED <<bar, config, holes, base, high, stage, dataset, lstm, brain>>

DatasetNext == \/ BarCloses \/ UpdateBase \/ UpdateHigh \/ Build \/ BuildLegacy
               \/ DropDataset \/ TrainLstm \/ TrainBrain \/ Forecast

-----------------------------------------------------------------------------
(* dataset_attrition: its own account of the base timeframe.               *)

Attrition ==
    LET eligible == Cardinality({c \in FrameRows :
                       /\ c - 1 \in FrameRows /\ c - 1 \notin holes
                       /\ c - 1 >= Min(FrameRows) + WarmUp
                       /\ c + LabelHorizon \in FrameRows})
    IN  [eligible |-> eligible,
         split    |-> ThreeWay(eligible, Max({1, eligible \div 2}),
                               Max({LabelHorizon, PurgeBars}))]

-----------------------------------------------------------------------------
(* Properties.                                                             *)

\* "ensure the holdout was never observed by either model fitting or
\* overlapping feature windows" (run_training_in_process): no candle that one
\* part of the data rests on, be it by a feature, a label, a scaler or a candle
\* of the higher timeframe, is one a later part is judged on.
HoldoutUnseen ==
    \A model \in {lstm, brain} : \A i, j \in DOMAIN model.parts :
        i < j => model.parts[i].upto < model.parts[j].from

\* "identical point-in-time semantics in training and inference"
\* (build_brain_features): the model is asked for a candle as far ahead of what
\* it is shown as it was in a sample it was fitted on.
ServedAsTrained ==
    [][forecast' # forecast =>
           /\ forecast'.lstm.target - forecast'.lstm.knows \in lstm.leads
           /\ forecast'.brain # NoForecast.brain =>
                 forecast'.brain.target - forecast'.brain.knows \in brain.leads]_datasetVars

\* "predicts next close" (prepare_data_for_process): the forecast is about a
\* candle that has not closed yet.
ForecastIsAhead == forecast # NoForecast => forecast.lstm.target > forecast.newest

\* "Explain every material row reduction before Brain/LSTM training": what the
\* report counts as training rows is what the Brain would be fitted on.
AttritionExplains ==
    stage = "built" /\ dataset.columns = {"base"} /\ base = bar =>
        LET split == ThreeWay(Len(dataset.rows) - BrainHorizon, MinFitted, Purge(BrainHorizon))
        IN  split.fits => Attrition.split.end = split.end
=============================================================================
