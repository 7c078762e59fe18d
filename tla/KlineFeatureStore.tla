-------------------------- MODULE KlineFeatureStore --------------------------
(***************************************************************************)
(* Candles and features of one symbol and timeframe: the exchange, the     *)
(* fetcher's cache (core/data_fetch.py), the tables raw_kline and          *)
(* enhanced_kline (core/kline_feature_store.py), which the training        *)
(* process updates, and the forecasts of other processes, which share the   *)
(* cache.                                                                  *)
(*                                                                         *)
(* Candles are numbered in time.  Of the features of a row the model keeps *)
(* the depth of the window they were computed on, up to the longest one.   *)
(***************************************************************************)
EXTENDS Integers, FiniteSets, FiniteSetsExt

CONSTANTS Trainer,    \* the training process, which updates the store
          Forecasters,\* processes that only load candles
          MaxCandle,  \* bound: candles that ever close
          PageLimit,  \* candles in one answer of the exchange (1500)
          WantLimit,  \* requested_limit of the mode
          Window,     \* the longest rolling window (55)
          Overlap     \* _overlap_rows

ASSUME KlineAssumption ==
    /\ {MaxCandle, PageLimit, WantLimit, Window} \subseteq Nat \ {0}
    /\ Trainer \notin Forecasters
    /\ Overlap \in Nat /\ Overlap >= Window

Candles == 1..MaxCandle

VARIABLES closed,  \* the newest candle that has closed
          cache,   \* the fetcher's cache file
          raw,     \* raw_kline
          depth,   \* enhanced_kline: depth of each row's window, 0: no row
          load,    \* for each process, the cache as get_ohlcv has read it
          job      \* what the training process is doing

vars == <<closed, cache, raw, depth, load, job>>

Loaders == {Trainer} \cup Forecasters

Idle == [step |-> "idle", last |-> 0, rows |-> {}, frame |-> {}]

NoLoad == [busy |-> FALSE, seen |-> {}]

Depths == [Candles -> 0..Window]

\* In particular no table and no frame ever holds the open candle.
TypeOK ==
    /\ closed \in 0..MaxCandle
    /\ cache \subseteq 1..closed /\ raw \subseteq 1..closed
    /\ depth \in Depths
    /\ load \in [Loaders -> [busy : BOOLEAN, seen : SUBSET (1..closed)]]
    /\ job \in [step : {"idle", "fetch", "upsert", "frame", "write"},
                last : 0..closed, rows : SUBSET (1..closed), frame : SUBSET (1..closed)]

-----------------------------------------------------------------------------
(* Sets of candles as time series.                                         *)

Newest(S)       == IF S = {} THEN 0 ELSE Max(S)
RowsUpTo(S, c)  == Cardinality({r \in S : r <= c})
LastRows(S, n)  == {c \in S : Cardinality(S) - RowsUpTo(S, c) < n}
FirstRows(S, n) == {c \in S : RowsUpTo(S, c) <= n}
Gaps(S)         == IF S = {} THEN {} ELSE (Min(S)..Max(S)) \ S
Featured(d)     == {c \in Candles : d[c] > 0}

\* A cache of an earlier installation may be there already.
Init ==
    /\ closed \in 1..MaxCandle
    /\ cache \in {{}, {1}}
    /\ raw = {}
    /\ depth = [c \in Candles |-> 0]
    /\ load = [p \in Loaders |-> NoLoad]
    /\ job = Idle

-----------------------------------------------------------------------------
(* The exchange and the fetcher.                                           *)

CandleCloses ==
    /\ closed < MaxCandle
    /\ closed' = closed + 1
    /\ UNCHANGED <<cache, raw, depth, load, job>>

\* get_ohlcv: the cache, the latest page, and then older candles page by page
\* until enough are there or an error stops the way back.
Fetched(seen) ==
    LET known   == seen \cup {c \in LastRows(1..closed, PageLimit) : c > Newest(seen)}
        missing == Max({0, WantLimit - Cardinality(known)})
    IN  {LastRows(known \cup {c \in 1..(Min(known) - 1) : c >= Min(known) - k}, WantLimit)
             : k \in 0..missing}

\* While another process replaces the table, the cache reads as empty.
ReadCache(p) ==
    /\ ~load[p].busy
    /\ p = Trainer => job.step = "fetch" /\ job.last = 0
    /\ \E seen \in {cache, {}} : load' = [load EXCEPT ![p] = [busy |-> TRUE, seen |-> seen]]
    /\ UNCHANGED <<closed, cache, raw, depth, job>>

SaveCache(p) ==
    /\ load[p].busy
    /\ \E got \in Fetched(load[p].seen) :
          /\ cache' = got
          /\ job' = IF p = Trainer THEN [job EXCEPT !.step = "upsert", !.rows = got] ELSE job
    /\ load' = [load EXCEPT ![p] = NoLoad]
    /\ UNCHANGED <<closed, raw, depth>>

\* A mutant: the newest page, whatever the store has.
MutantNewestPage(last) == {c \in LastRows(1..closed, PageLimit) : c > last}

\* get_ohlcv_incremental: one page from the candle after the last one stored.
NextPage(last) == FirstRows({c \in 1..closed : c > last}, PageLimit)

-----------------------------------------------------------------------------
(* update_for_mode: ensure_raw_kline, then update_enhanced_kline.          *)

ReadLast ==
    /\ job.step = "idle"
    /\ job' = [Idle EXCEPT !.step = "fetch", !.last = Newest(raw)]
    /\ UNCHANGED <<closed, cache, raw, depth, load>>

FetchNext ==
    /\ job.step = "fetch" /\ job.last > 0
    /\ job' = [job EXCEPT !.step = "upsert", !.rows = NextPage(job.last)]
    /\ UNCHANGED <<closed, cache, raw, depth, load>>

UpsertRaw ==
    /\ job.step = "upsert"
    /\ raw' = raw \cup job.rows
    /\ job' = [Idle EXCEPT !.step = "frame"]
    /\ UNCHANGED <<closed, cache, depth, load>>

\* The candle Overlap rows before the last one that has features; the
\* beginning when there are not so many.
FrameStart ==
    LET last == Newest(Featured(depth))
    IN  Newest({c \in raw : c <= last /\ RowsUpTo(raw, last) - RowsUpTo(raw, c) = Overlap})

LoadFrame ==
    /\ job.step = "frame"
    /\ job' = [job EXCEPT !.step = "write", !.frame = {c \in raw : c >= FrameStart}]
    /\ UNCHANGED <<closed, cache, raw, depth, load>>

\* The features of a frame replace those of all its rows.
Recomputed(d, frame) ==
    [c \in Candles |-> IF c \in frame THEN Min({Window, RowsUpTo(frame, c)}) ELSE d[c]]

WriteFeatures ==
    /\ job.step = "write"
    /\ depth' = Recomputed(depth, job.frame)
    /\ job' = Idle
    /\ UNCHANGED <<closed, cache, raw, load>>

\* A request fails, the cache is too old (MarketDataUnavailable), the database
\* is locked, the task times out or the process ends: what has committed stays.
Abort ==
    /\ job.step # "idle"
    /\ job' = Idle
    /\ load' = [load EXCEPT ![Trainer] = NoLoad]
    /\ UNCHANGED <<closed, cache, raw, depth>>

AbortForecast(p) ==
    /\ load[p].busy
    /\ load' = [load EXCEPT ![p] = NoLoad]
    /\ UNCHANGED <<closed, cache, raw, depth, job>>

-----------------------------------------------------------------------------
Update == ReadLast \/ ReadCache(Trainer) \/ SaveCache(Trainer) \/ FetchNext
          \/ UpsertRaw \/ LoadFrame \/ WriteFeatures

Next == \/ CandleCloses
        \/ Update \/ Abort
        \/ \E p \in Forecasters : ReadCache(p) \/ SaveCache(p) \/ AbortForecast(p)

Spec == Init /\ [][Next]_vars

-----------------------------------------------------------------------------
(* Properties.                                                             *)

\* A first load may import a gap from an old cache; after it, each update
\* continues the candles where they end, however late its answer and however
\* many updates failed before: no candle is ever skipped.
NoCandleSkipped == [][raw # {} => Gaps(raw') = Gaps(raw)]_vars

\* The rows with features are the oldest rows: an update that ended between the
\* candles and their features leaves nothing the next one would not reach.
NothingUnfeatured ==
    \A c \in raw : (\E d \in Featured(depth) : d > c) => depth[c] > 0

\* The newest rows, those the overlap is there for, have features of a window
\* as deep as the candles allow.
TailIsWhole ==
    \A c \in LastRows(Featured(depth), Overlap - Window + 2) :
        depth[c] = Min({Window, RowsUpTo(raw, c)})

\* "use a conservative default so tail recomputation is stable"
\* (_overlap_rows): a row that had its whole window keeps it.
RecomputationStable ==
    [][\A c \in Candles : depth[c] = Window => depth'[c] = Window]_vars
=============================================================================
