----------------------- MODULE ProfitabilityResearch -----------------------
(***************************************************************************)
(* The rebuild of the profitability model (evaluation/                      *)
(* profitability_rebuild.py, scripts/run_profitability_rebuild.py): candles *)
(* are loaded and labelled, each horizon is split into development folds    *)
(* and a lockbox (training/pooled_panel.py), the folds and the lockbox are  *)
(* traded by EventBacktest, and the ledger of trials                        *)
(* (evaluation/statistical_governance.py), the reports and the manifest of  *)
(* a release (release/profitability_release.py) are written.  A worker of   *)
(* the prediction service reads report and manifest when it starts          *)
(* (result_manager.py).                                                    *)
(*                                                                         *)
(* The run may raise or die at any step.  Models, metrics and the stressed  *)
(* second backtest of the lockbox are left out: execution evidence and      *)
(* factor ablation are constants of the code, so no gate passes today; what *)
(* may lie in the output directory is the release of an older version.     *)
(***************************************************************************)
EXTENDS EventBacktest

CONSTANTS
    Commits,          \* 1..n, the versions of the code
    FirstClock, LastClock,
    PanelRows,        \* decisions loaded of each horizon
    LockboxPercent,
    MaxFolds, MinTrain,
    Slow,             \* decisions whose label needs the second candle
    MaxRuns           \* bound: runs of the script

ASSUME ResearchAssumption ==
    /\ Commits \subseteq Nat \ {0} /\ 1 \in Commits
    /\ {FirstClock, LastClock, PanelRows, LockboxPercent, MaxFolds, MinTrain, MaxRuns} \subseteq Nat
    /\ \A h \in Horizons : FirstClock > (PanelRows + 1) * h
    /\ FirstClock <= LastClock /\ LastClock < DayLength * (LastDay + 1)

VARIABLES
    clock,     \* the last candle of the feature store
    commit,    \* the version checked out
    runs,      \* runs of the script so far
    pc,        \* the step of the run
    data,      \* the last candle loaded of each horizon, 0 if none is yet
    at, cursor, folds, \* the horizon, test start and folds of the walk-forward
    train,     \* the decisions the model that trades is fitted to, with their horizon
    records,   \* research_trials: what each trial was recorded with
    claims,    \* lockbox_evaluations: the trial of each fingerprint
    report,    \* profitability_report.json
    evidence,  \* lockbox_report.json
    manifest,  \* candidate_release_manifest.json
    revoked,   \* history: a failed run has put the manifest away
    worker,    \* the worker's state
    late       \* history: it started after that

diskVars == <<records, claims, report, evidence, manifest, revoked>>
foldVars == <<at, cursor, folds>>
workerVars == <<worker, late>>
researchVars ==
    <<backtestVars, clock, commit, runs, pc, data, foldVars, train, diskVars, workerVars>>

Nothing == [trial |-> 0, lockbox |-> 0]

\* Instead of the data a result was computed from.
Unrecorded == [h \in Horizons |-> 0]
FailedTrial == [h \in Horizons |-> -1]

ResearchTypeOK ==
    /\ clock \in FirstClock..LastClock /\ commit \in Commits /\ runs \in 0..MaxRuns
    /\ data \in [Horizons -> 0..LastClock]
    /\ at \in {0} \cup Horizons
    /\ train \subseteq Horizons \X (0..LastClock)
    /\ DOMAIN records = Commits /\ report \in {"none", "older", "failed"}
    /\ manifest \in {"none", "older"}
    /\ worker \in {"down", "report", "manifest", "shadow", "authorized"}
    /\ open # {} => pc \in {"fold", "lockbox"}
    /\ \A a, b \in open : a.symbol = b.symbol => a = b

ResearchInit ==
    /\ Fresh({})
    /\ clock = FirstClock /\ commit = 1 /\ runs = 0
    /\ pc = "off" /\ data = [h \in Horizons |-> 0]
    /\ at = 0 /\ cursor = 0 /\ folds = 0 /\ train = {}
    /\ records = [c \in Commits |-> Unrecorded]
    /\ claims = {}
    /\ \/ report = "none" /\ manifest = "none"
       \/ report = "older" /\ manifest = "older"
    /\ evidence = Nothing /\ revoked = FALSE
    /\ worker = "down" /\ late = FALSE

-----------------------------------------------------------------------------
(* PooledPanelBuilder: the rows of a horizon, their lockbox and their folds *)

\* _panel_rows: the decisions with two candles after them.
Rows(h) == {data[h] - h * i : i \in 2..(PanelRows + 1)}

\* The time at a position, from 0.
Nth(times, n) == CHOOSE t \in times : Cardinality({u \in times : u < t}) = n

LabelAt(h, t) == IF t \in Slow THEN t + 2 * h ELSE t + h

LockboxPosition == EarlierOf(PanelRows - 1, Max({1, (PanelRows * (100 - LockboxPercent) + 50) \div 100}))
LockboxStart(h) == Nth(Rows(h), LockboxPosition)
Lockbox(h) == {t \in Rows(h) : t >= LockboxStart(h)}
Fingerprint == data

\* A mutant: a plain split in time.
MutantSplits(h, times, boundary) == {t \in times : t < boundary}

\* Decisions more than a purge before the boundary, and their labels before it.
Before(h, times, boundary) == {t \in times : t < boundary - h /\ LabelAt(h, t) < boundary}

Development(h) == Before(h, Rows(h), LockboxStart(h))

\* _walk_forward_folds
TestCount(times) == Max({1, Cardinality(times) \div (MaxFolds + 2)})
TestEnd(times) == EarlierOf(Cardinality(times), cursor + TestCount(times))
Test(times) == {Nth(times, i) : i \in cursor..(TestEnd(times) - 1)}
Train(times) == Before(at, times, Nth(times, cursor))

\* The first decision a quarter of a horizon after the test, and never back.
NextCursor(times) ==
    LET start == Nth(times, TestEnd(times) - 1) + (at \div 4)
    IN  Max({TestEnd(times), Cardinality({t \in times : t < start})})

WalkedForward == folds = MaxFolds \/ cursor >= Cardinality(Development(at))

\* _signals_from_predictions, before the model says which of them to trade.
SignalsOf(h, times) == [symbol : Symbols, horizon : {h}, at : times]

-----------------------------------------------------------------------------
(* ProfitabilityRebuild.run                                                *)

Goto(step) == pc' = step /\ UNCHANGED <<clock, commit, runs>>
NoBacktest == UNCHANGED <<backtestVars, train>>
Forget == Launch({}) /\ train' = {}
GiveUp == data' = [h \in Horizons |-> 0] /\ at' = 0 /\ cursor' = 0 /\ folds' = 0 /\ Forget

Start ==
    /\ pc = "off" /\ runs < MaxRuns
    /\ pc' = "load" /\ runs' = runs + 1
    /\ UNCHANGED <<clock, commit, data, foldVars, diskVars, workerVars>> /\ NoBacktest

\* The candles of each horizon, shortest first, while new ones are stored.
Load ==
    /\ pc = "load"
    /\ LET missing == {h \in Horizons : data[h] = 0}
           h == Min(missing)
       IN  /\ data' = [data EXCEPT ![h] = clock - (clock % h)]
           /\ Goto(IF missing = {h} THEN "split" ELSE "load")
    /\ UNCHANGED <<foldVars, diskVars, workerVars>> /\ NoBacktest

Walk(h) == at' = h /\ cursor' = 2 * TestCount(Development(h)) /\ folds' = 0

\* build: every horizon is split before any is trained.
Split ==
    /\ pc = "split"
    /\ Walk(Min(Horizons))
    /\ Goto("folds")
    /\ UNCHANGED <<data, diskVars, workerVars>> /\ NoBacktest

NextHorizon ==
    /\ pc = "folds" /\ WalkedForward
    /\ LET rest == {h \in Horizons : h > at}
       IN  IF rest = {} THEN Goto("claim") /\ at' = 0 /\ cursor' = 0 /\ folds' = 0
           ELSE Goto("folds") /\ Walk(Min(rest))
    /\ UNCHANGED <<data, diskVars, workerVars>> /\ NoBacktest

\* A fold with too few rows is passed over; the others are trained and traded.
Fold ==
    /\ pc = "folds" /\ ~WalkedForward
    /\ LET times == Development(at)
       IN  /\ cursor' = NextCursor(times)
           /\ IF Cardinality(Train(times)) >= MinTrain
              THEN /\ Goto("fold") /\ folds' = folds + 1
                   /\ train' = {at} \X Train(times)
                   /\ Launch(SignalsOf(at, Test(times)))
              ELSE Goto("folds") /\ UNCHANGED folds /\ NoBacktest
    /\ UNCHANGED <<data, at, diskVars, workerVars>>

\* backtest.run, over the test rows of a fold or over every lockbox at once.
Backtest ==
    /\ pc \in {"fold", "lockbox"}
    /\ Settle \/ Decide
    /\ UNCHANGED <<clock, commit, runs, pc, data, foldVars, train, diskVars, workerVars>>

FoldDone ==
    /\ pc = "fold" /\ Finished
    /\ Goto("folds") /\ Forget
    /\ UNCHANGED <<data, foldVars, diskVars, workerVars>>

\* claim_lockbox: its fingerprint is another trial's.
Consumed == \E claim \in claims : claim.lockbox = Fingerprint /\ claim.trial # commit

\* The lockbox is claimed, and one model per horizon trades it.
Claim ==
    /\ pc = "claim"
    /\ IF Consumed
       THEN Goto("failed") /\ NoBacktest /\ UNCHANGED claims
       ELSE /\ Goto("lockbox")
            /\ claims' = IF \E claim \in claims : claim.lockbox = Fingerprint THEN claims
                         ELSE claims \cup {[trial |-> commit, lockbox |-> Fingerprint]}
            /\ train' = UNION {{h} \X Development(h) : h \in Horizons}
            /\ Launch(UNION {SignalsOf(h, Lockbox(h)) : h \in Horizons})
    /\ UNCHANGED <<data, foldVars, records, report, evidence, manifest, revoked, workerVars>>

\* The gate fails: its evidence is never complete.
LockboxDone ==
    /\ pc = "lockbox" /\ Finished
    /\ Goto("archive") /\ Forget
    /\ UNCHANGED <<data, foldVars, diskVars, workerVars>>

\* A mutant: the manifest is left to the next successful run.
MutantKeepsManifest == manifest

\* _archive_candidate_manifest
Archived == "none"

Archive ==
    /\ pc \in {"archive", "failed archive"}
    /\ manifest' = Archived /\ revoked' = TRUE
    /\ Goto(IF pc = "archive" THEN "report" ELSE "failed report")
    /\ UNCHANGED <<data, foldVars, records, claims, report, evidence, workerVars>> /\ NoBacktest

WriteReport ==
    /\ pc \in {"report", "failed report"}
    /\ report' = "failed"
    /\ Goto(IF pc = "report" THEN "evidence" ELSE "failed evidence")
    /\ UNCHANGED <<data, foldVars, records, claims, evidence, manifest, revoked, workerVars>>
    /\ NoBacktest

WriteEvidence ==
    /\ pc = "evidence" /\ Goto("append")
    /\ evidence' = [trial |-> commit, lockbox |-> Fingerprint]
    /\ UNCHANGED <<data, foldVars, records, claims, report, manifest, revoked, workerVars>>
    /\ NoBacktest

WriteNoEvidence ==
    /\ pc = "failed evidence" /\ Goto("off")
    /\ evidence' = Nothing
    /\ UNCHANGED <<data, foldVars, records, claims, report, manifest, revoked, workerVars>>
    /\ NoBacktest

\* TrialLedger.append: a trial is recorded once, and may only be repeated.
AppendTrial ==
    /\ pc = "append"
    /\ IF records[commit] \in {Unrecorded, Fingerprint}
       THEN records' = [records EXCEPT ![commit] = Fingerprint] /\ Goto("off") /\ GiveUp
       ELSE UNCHANGED <<records, data, foldVars>> /\ Goto("failed") /\ NoBacktest
    /\ UNCHANGED <<claims, report, evidence, manifest, revoked, workerVars>>

\* record_failure: a trial that has its record keeps it.
RecordFailure ==
    /\ pc = "failed"
    /\ records' = IF records[commit] = Unrecorded THEN [records EXCEPT ![commit] = FailedTrial]
                  ELSE records
    /\ Goto("failed archive") /\ GiveUp
    /\ UNCHANGED <<claims, report, evidence, manifest, revoked, workerVars>>

\* An exception in main's try.
Raises ==
    /\ pc \in {"load", "split", "folds", "fold", "claim", "lockbox", "archive", "report",
               "evidence", "append"}
    /\ Goto("failed") /\ GiveUp
    /\ UNCHANGED <<diskVars, workerVars>>

Crash ==
    /\ pc # "off"
    /\ Goto("off") /\ GiveUp
    /\ UNCHANGED <<diskVars, workerVars>>

Run == \/ Start \/ Load \/ Split \/ NextHorizon \/ Fold \/ Backtest \/ FoldDone \/ Claim
       \/ LockboxDone \/ Archive \/ WriteReport \/ WriteEvidence \/ WriteNoEvidence
       \/ AppendTrial \/ RecordFailure \/ Raises \/ Crash

-----------------------------------------------------------------------------
(* The worker and the world                                                *)

Others == UNCHANGED <<backtestVars, runs, pc, data, foldVars, train, diskVars>>

\* verify_candidate_authorization: the report, while both files exist.
ReadReport ==
    /\ worker = "down"
    /\ late' = revoked
    /\ worker' = IF report = "older" /\ manifest # "none" THEN "report" ELSE "shadow"
    /\ UNCHANGED <<clock, commit>> /\ Others

\* The manifest, and the hash of the report it was written for.
ReadManifest ==
    /\ worker = "report"
    /\ worker' = IF manifest # "none" /\ report = "older" THEN "manifest" ELSE "shadow"
    /\ UNCHANGED <<clock, commit, late>> /\ Others

\* ResultManager.__init__ reads the manifest again, outside of any try.
KeepManifest ==
    /\ worker = "manifest"
    /\ worker' = IF manifest # "none" THEN "authorized" ELSE "down"
    /\ UNCHANGED <<clock, commit, late>> /\ Others

Restart ==
    /\ worker # "down"
    /\ worker' = "down" /\ late' = FALSE
    /\ UNCHANGED <<clock, commit>> /\ Others

Candle == clock + 2 <= LastClock /\ clock' = clock + 2 /\ UNCHANGED <<commit, workerVars>> /\ Others

CheckOut ==
    /\ pc = "off" /\ commit + 1 \in Commits
    /\ commit' = commit + 1
    /\ UNCHANGED <<clock, workerVars>> /\ Others

Worker == ReadReport \/ ReadManifest \/ KeepManifest \/ Restart

ResearchNext == Run \/ Worker \/ Candle \/ CheckOut

ResearchSpec == ResearchInit /\ [][ResearchNext]_researchVars

-----------------------------------------------------------------------------
(* Properties.                                                             *)

\* No model is fitted to a label that is not known at a decision it is tested on:
\* labels take up to two candles, the purge is one, and folds are cut from what
\* the lockbox left, with gaps.
TrainedBeforeTested ==
    \A row \in train, s \in signals : row[1] = s.horizon => LabelAt(row[1], row[2]) <= s.at

\* A walk-forward backtest settles no trade before its outcome is known: the
\* decisions of one horizon fall on the closes of its own candles.
OneHorizonIsCausal == pc = "fold" => SettledAreObserved

\* What is known of a lockbox was claimed first, and by the same trial, though
\* the run may die between any two writes and another version may follow it.
ResultsWereClaimed == evidence # Nothing => evidence \in claims

\* Once a failed run has put the manifest away, no worker that starts is
\* authorized, whichever of the files it reads before and after.
LateWorkerIsShadow == worker = "authorized" => ~late

\* "Preserve, but deactivate, a manifest left by an older successful run"
\* (profitability_rebuild.py, _archive_candidate_manifest).
DeactivatedStopsTrading == worker = "authorized" => ~revoked

\* "Claim an immutable lockbox once; never recycle it for parameter selection"
\* (statistical_governance.py, claim_lockbox): of the candles, not of the hash.
LockboxIsFresh ==
    \A a, b \in claims : a.trial # b.trial =>
        \E h \in Horizons : a.lockbox[h] + PanelRows * h < b.lockbox[h]
=============================================================================
