--------------------------- MODULE TrainingProofs ---------------------------
(***************************************************************************)
(* Theorems about the training of a symbol and timeframe, for any number   *)
(* of candles and datasets, any windows, horizons and shares: the store    *)
(* skips no candle, the model and the scaler of a promotion that went well *)
(* belong together, no part of a dataset is seen by one that is fitted     *)
(* before it, and a model is asked for what it was taught.                 *)
(***************************************************************************)
EXTENDS ForecastSettlement, ModelArtifacts, ModeDataset, FiniteSetTheorems,
        WellFoundedInduction, TLAPS

-----------------------------------------------------------------------------
(* Least, greatest and n-th members.                                       *)

LEMMA LeastOfSet ==
  ASSUME NEW S, S \subseteq Nat, S # {}
  PROVE  \E x \in S : \A y \in S : x <= y
<1> DEFINE Less == OpToRel(<, Nat)
<1>1. IsWellFoundedOn(Less, Nat)
  BY NatLessThanWellFounded
<1>2. \A x, y \in Nat : y < x => <<y, x>> \in Less
  BY DEF OpToRel
<1> HIDE DEF Less
<1>3. PICK x \in S : \A y \in S : ~(<<y, x>> \in Less)
  BY <1>1, WFMin
<1>4. \A y \in S : ~(y < x)
  BY <1>2, <1>3, Zenon
<1>5. \A y \in S : x <= y
  BY <1>4
<1> QED
  BY <1>5

LEMMA GreatestOfSet ==
  ASSUME NEW b \in Nat, NEW S \in SUBSET (0..b), S # {}
  PROVE  Max(S) \in S /\ \A y \in S : y <= Max(S)
<1> DEFINE Below == {k \in Nat : b - k \in S}
<1>1. PICK s : s \in S
  OBVIOUS
<1>2. b - s \in Below
  <2>1. b - s \in Nat /\ b - (b - s) = s
    BY <1>1
  <2> QED
    BY <1>1, <2>1
<1>3. PICK k \in Below : \A m \in Below : k <= m
  <2>1. Below \subseteq Nat /\ Below # {}
    BY <1>2
  <2> HIDE DEF Below
  <2> QED
    BY <2>1, LeastOfSet
<1>4. ASSUME NEW y \in S
      PROVE  b - k >= y
  <2>1. b - y \in Nat /\ b - (b - y) = y
    OBVIOUS
  <2>2. k <= b - y
    BY <1>3, <2>1
  <2> QED
    BY <1>3, <2>2
<1>5. \E x \in S : \A y \in S : x >= y
  BY <1>3, <1>4
<1>6. Max(S) \in S /\ \A y \in S : Max(S) >= y
  BY <1>5 DEF Max
<1> QED
  BY <1>6

LEMMA OfTwo ==
  ASSUME NEW a \in Int, NEW b \in Int
  PROVE  /\ Max({a, b}) \in {a, b} /\ Max({a, b}) >= a /\ Max({a, b}) >= b
         /\ Min({a, b}) \in {a, b} /\ Min({a, b}) <= a /\ Min({a, b}) <= b
<1>1. \E x \in {a, b} : \A y \in {a, b} : x >= y
  OBVIOUS
<1>2. \E x \in {a, b} : \A y \in {a, b} : x =< y
  OBVIOUS
<1> QED
  BY <1>1, <1>2 DEF Max, Min

-----------------------------------------------------------------------------
(* Candles.                                                                *)

LEMMA IntervalMembers ==
  ASSUME NEW a \in Nat, NEW b \in Nat, a <= b
  PROVE  Cardinality((a + 1)..b) = b - a
<1>1. a + 1 \in Int /\ b \in Int
  OBVIOUS
<1>2. Cardinality((a + 1)..b) = IF a + 1 > b THEN 0 ELSE b - (a + 1) + 1
  BY <1>1, FS_Interval
<1> QED
  BY <1>2

\* One page from the candle after the last one stored: consecutive candles.
LEMMA PageFollows ==
  ASSUME closed \in Nat, NEW last \in Nat
  PROVE  \E x \in Nat : last <= x /\ NextPage(last) = (last + 1)..x /\ (x <= closed \/ x = last)
<1> DEFINE S == {c \in 1..closed : c > last}
           x == IF closed <= last THEN last
                ELSE IF closed <= last + PageLimit THEN closed ELSE last + PageLimit
<1>1. PageLimit \in Nat /\ PageLimit >= 1
  BY KlineAssumption
<1>2. x \in Nat /\ last <= x /\ (x <= closed \/ x = last)
  BY <1>1
<1>3. ASSUME NEW c \in S
      PROVE  RowsUpTo(S, c) = c - last
  <2>1. c \in Nat /\ last <= c /\ c <= closed
    OBVIOUS
  <2>2. {r \in S : r <= c} = (last + 1)..c
    BY <2>1
  <2> QED
    BY <2>1, <2>2, IntervalMembers DEF RowsUpTo
<1>4. NextPage(last) = {c \in S : c - last <= PageLimit}
  <2>1. NextPage(last) = {c \in S : RowsUpTo(S, c) <= PageLimit}
    BY DEF NextPage, FirstRows
  <2> HIDE DEF S
  <2> QED
    BY <1>3, <2>1
<1>5. {c \in S : c - last <= PageLimit} = (last + 1)..x
  BY <1>1
<1> QED
  BY <1>2, <1>4, <1>5

\* Consecutive candles after the newest one leave the gaps as they are.
LEMMA GapsStay ==
  ASSUME closed \in Nat, raw \in SUBSET (1..closed), raw # {},
         NEW x \in Nat, Newest(raw) <= x
  PROVE  Gaps(raw \cup (Newest(raw) + 1)..x) = Gaps(raw)
<1> DEFINE n == Newest(raw)
           more == (n + 1)..x
           all == raw \cup more
<1>1. Max(raw) \in raw /\ \A y \in raw : y <= Max(raw)
  <2>1. raw \in SUBSET (0..closed)
    OBVIOUS
  <2> QED
    BY <2>1, GreatestOfSet
<1>0. \A y \in raw : y \in Nat
  OBVIOUS
<1>2. n = Max(raw) /\ \A y \in raw : y \in Nat
  BY <1>0 DEF Newest
<1>3. n \in Nat /\ n \in raw /\ \A y \in raw : y <= n
  BY <1>1, <1>2
<1>4. PICK m \in raw : \A y \in raw : m <= y
  <2>1. raw \subseteq Nat
    BY <1>2
  <2> QED
    BY <2>1, LeastOfSet
<1>5. m \in Nat /\ m <= n
  BY <1>2, <1>3, <1>4
<1>6. ASSUME NEW S, m \in S, \A y \in S : y \in Nat /\ m <= y
      PROVE  Min(S) = m
  <2>1. Min(S) \in S /\ \A y \in S : Min(S) =< y
    BY <1>6 DEF Min
  <2> QED
    <3>1. PICK k \in S : k = Min(S)
      BY <2>1
    <3>2. k \in Nat /\ m <= k /\ k <= m
      BY <1>6, <2>1, <3>1
    <3> QED
      BY <1>5, <3>1, <3>2
<1>7. ASSUME NEW S, NEW g \in S, \A y \in S : y \in Nat /\ y <= g
      PROVE  Max(S) = g
  <2>1. g \in Nat /\ \E z \in S : \A y \in S : z >= y
    BY <1>7
  <2>2. Max(S) \in S /\ \A y \in S : Max(S) >= y
    BY <2>1 DEF Max
  <2> QED
    <3>1. PICK k \in S : k = Max(S)
      BY <2>2
    <3>2. k \in Nat /\ k <= g /\ k >= g
      BY <1>7, <2>2, <3>1
    <3> QED
      BY <2>1, <3>1, <3>2
<1> HIDE DEF n
<1>8. \A y \in more : y \in Nat /\ n < y /\ y <= x
  BY <1>3
<1>9. Min(raw) = m /\ Min(all) = m
  <2>1. m \in all /\ \A y \in all : y \in Nat /\ m <= y
    BY <1>2, <1>4, <1>5, <1>3, <1>8
  <2> HIDE DEF all
  <2> QED
    BY <1>2, <1>4, <1>6, <2>1
<1>10. Max(raw) = n /\ Max(all) = x
  <2>1. x \in all /\ \A y \in all : y \in Nat /\ y <= x
    BY <1>2, <1>3, <1>8 DEF n
  <2> HIDE DEF all
  <2> QED
    BY <1>2, <1>7, <2>1 DEF n
<1>11. Gaps(raw) = (m..n) \ raw /\ Gaps(all) = (m..x) \ all
  BY <1>4, <1>9, <1>10 DEF Gaps
<1>12. (m..x) \ all = (m..n) \ raw
  BY <1>3, <1>5 DEF n
<1> QED
  BY <1>11, <1>12 DEF n

\* Whatever the fetcher had in its cache, it answers with candles that have closed.
LEMMA FetchedIsClosed ==
  ASSUME closed \in Nat, closed >= 1, NEW held \in SUBSET (1..closed), NEW got \in Fetched(held)
  PROVE  got \in SUBSET (1..closed)
<1> DEFINE fresh == {c \in LastRows(1..closed, PageLimit) : c > Newest(held)}
           known == held \cup fresh
           older(k) == {c \in 1..(Min(known) - 1) : c >= Min(known) - k}
<1>1. known \in SUBSET (1..closed)
  BY DEF LastRows
<1>2. known # {}
  <2>1. SUFFICES ASSUME held = {} PROVE closed \in fresh
    OBVIOUS
  <2>2. Newest(held) = 0
    BY <2>1 DEF Newest
  <2>3. /\ {r \in 1..closed : r <= closed} = 1..closed /\ Cardinality(1..closed) = closed
        /\ Cardinality(1..closed) - closed = 0
    BY FS_Interval
  <2>4. closed \in LastRows(1..closed, PageLimit)
    <3>1. RowsUpTo(1..closed, closed) = closed /\ Cardinality(1..closed) - closed = 0
      BY <2>3, Zenon DEF RowsUpTo
    <3>2. 0 < PageLimit /\ closed \in 1..closed
      BY KlineAssumption
    <3> QED
      BY <3>1, <3>2 DEF LastRows
  <2> QED
    BY <2>2, <2>4
<1> HIDE DEF fresh, known
<1>3. Min(known) \in 1..closed
  <2>1. known \subseteq Nat
    BY <1>1
  <2>2. \E x \in known : \A y \in known : x <= y
    BY <1>2, <2>1, LeastOfSet
  <2>3. Min(known) \in known
    BY <2>2 DEF Min
  <2> QED
    BY <1>1, <2>3
<1>4. \A k : older(k) \in SUBSET (1..closed)
  BY <1>3
<1>5. PICK k : got = LastRows(known \cup older(k), WantLimit)
  BY DEF Fetched, known, fresh
<1> QED
  BY <1>1, <1>4, <1>5 DEF LastRows

\* A page after the newest row, up to what has closed.
LEMMA NextPageIsClosed ==
  ASSUME closed \in Nat, NEW last \in Nat
  PROVE  NextPage(last) \in SUBSET (1..closed)
BY DEF NextPage, FirstRows

LEMMA NewestIsClosed ==
  ASSUME closed \in Nat, NEW S \in SUBSET (1..closed)
  PROVE  /\ Newest(S) \in 0..closed
         /\ S # {} => Newest(S) >= 1
<1>1. S \in SUBSET (0..closed)
  OBVIOUS
<1>2. CASE S = {}
  BY <1>2 DEF Newest
<1>3. CASE S # {}
  <2>1. Max(S) \in S
    BY <1>1, <1>3, GreatestOfSet
  <2> QED
    <3>1. Newest(S) = Max(S) /\ Newest(S) \in S
      BY <1>3, <2>1 DEF Newest
    <3>2. PICK k \in 1..closed : k = Newest(S)
      BY <3>1
    <3> QED
      BY <3>2
<1> QED
  BY <1>2, <1>3

LEMMA RecomputedTyped ==
  ASSUME NEW d \in Depths, closed \in Nat, NEW frame \in SUBSET (1..closed)
  PROVE  Recomputed(d, frame) \in Depths
<1>1. Window \in Nat
  BY KlineAssumption
<1>2. IsFiniteSet(1..closed)
  BY FS_Interval
<1>3. ASSUME NEW c \in Candles
      PROVE  Min({Window, RowsUpTo(frame, c)}) \in 0..Window
  <2>1. IsFiniteSet({r \in frame : r <= c})
    <3>1. {r \in frame : r <= c} \in SUBSET (1..closed)
      OBVIOUS
    <3> QED
      BY <1>2, <3>1, FS_Subset
  <2>2. RowsUpTo(frame, c) \in Nat
    BY <2>1, FS_CardinalityType DEF RowsUpTo
  <2>3. PICK n \in Nat : n = RowsUpTo(frame, c)
    BY <2>2
  <2>4. Min({Window, n}) \in {Window, n} /\ Min({Window, n}) <= Window
    <3>1. Window \in Int /\ n \in Int
      BY <1>1
    <3> QED
      BY <3>1, OfTwo, Zenon
  <2> QED
    BY <1>1, <2>3, <2>4
<1>4. \A c \in Candles : d[c] \in 0..Window
  BY DEF Depths
<1> QED
  BY <1>3, <1>4 DEF Recomputed, Depths

-----------------------------------------------------------------------------
(* The store over time.                                                    *)

(***************************************************************************)
(* What the training process has fetched continues the table it found, and *)
(* only the training process writes the table: it loads from the cache     *)
(* only when the table is empty.                                           *)
(***************************************************************************)
FetchInv ==
  /\ load[Trainer].busy => job.step = "fetch" /\ job.last = 0
  /\ job.step = "fetch" => job.last = Newest(raw)
  /\ job.step = "upsert" /\ raw # {} =>
       \E x \in Nat : Newest(raw) <= x /\ job.rows = (Newest(raw) + 1)..x

StoreInv == TypeOK /\ closed >= 1 /\ FetchInv

LEMMA StoreInit == Init => StoreInv
<1> SUFFICES ASSUME Init PROVE StoreInv
  OBVIOUS
<1>1. MaxCandle \in Nat /\ Window \in Nat
  BY KlineAssumption
<1>2. closed \in Nat /\ closed >= 1 /\ closed <= MaxCandle
  BY <1>1 DEF Init
<1>3. cache \subseteq 1..closed /\ raw \subseteq 1..closed
  BY <1>2 DEF Init
<1>4. depth \in Depths
  BY <1>1 DEF Init, Depths
<1>5. load \in [Loaders -> [busy : BOOLEAN, seen : SUBSET (1..closed)]]
  BY DEF Init, NoLoad
<1>6. job \in [step : {"idle", "fetch", "upsert", "frame", "write"},
               last : 0..closed, rows : SUBSET (1..closed), frame : SUBSET (1..closed)]
  BY <1>2 DEF Init, Idle
<1>7. FetchInv
  BY DEF Init, FetchInv, NoLoad, Idle, Loaders
<1> QED
  BY <1>1, <1>2, <1>3, <1>4, <1>5, <1>6, <1>7 DEF StoreInv, TypeOK

Loads == [Loaders -> [busy : BOOLEAN, seen : SUBSET (1..closed)]]
Jobs ==
  [step : {"idle", "fetch", "upsert", "frame", "write"},
   last : 0..closed, rows : SUBSET (1..closed), frame : SUBSET (1..closed)]

\* The steps that leave the exchange alone, one variable at a time.
LEMMA TypedAgain ==
  ASSUME TypeOK, UNCHANGED closed,
         cache' \subseteq 1..closed, raw' \subseteq 1..closed, depth' \in Depths,
         load' \in Loads, job' \in Jobs
  PROVE  TypeOK'
BY DEF TypeOK, Loads, Jobs

LEMMA ReadCacheStep ==
  ASSUME StoreInv, NEW p \in Loaders, ReadCache(p)
  PROVE  StoreInv'
<1>1. PICK cached \in {cache, {}} : load' = [load EXCEPT ![p] = [busy |-> TRUE, seen |-> cached]]
  BY DEF ReadCache
<1>2. UNCHANGED <<closed, cache, raw, depth, job>>
  BY DEF ReadCache
<1>3. load' \in Loads
  BY <1>1 DEF StoreInv, TypeOK, Loads
<1>4. TypeOK'
  BY <1>2, <1>3, TypedAgain DEF StoreInv, TypeOK, Loads, Jobs
<1>5. load'[Trainer].busy => load[Trainer].busy \/ p = Trainer
  BY <1>1 DEF StoreInv, TypeOK, Loaders
<1>6. p = Trainer => job.step = "fetch" /\ job.last = 0
  BY DEF ReadCache
<1> QED
  BY <1>2, <1>4, <1>5, <1>6 DEF StoreInv, FetchInv, Newest

LEMMA SaveCacheStep ==
  ASSUME StoreInv, NEW p \in Loaders, SaveCache(p)
  PROVE  StoreInv'
<1>0. closed \in Nat /\ closed >= 1
  BY KlineAssumption DEF StoreInv, TypeOK
<1>1. PICK got \in Fetched(load[p].seen) :
        /\ cache' = got
        /\ job' = IF p = Trainer THEN [job EXCEPT !.step = "upsert", !.rows = got] ELSE job
  BY DEF SaveCache
<1>2. load[p].busy /\ load' = [load EXCEPT ![p] = NoLoad] /\ UNCHANGED <<closed, raw, depth>>
  BY DEF SaveCache
<1>3. got \in SUBSET (1..closed)
  <2>1. load[p].seen \in SUBSET (1..closed)
    BY DEF StoreInv, TypeOK
  <2> QED
    BY <1>0, <1>1, <2>1, FetchedIsClosed
<1>4. load' \in Loads
  BY <1>2 DEF StoreInv, TypeOK, Loads, NoLoad
<1>5. job' \in Jobs
  BY <1>1, <1>3 DEF StoreInv, TypeOK, Jobs
<1>6. TypeOK'
  BY <1>1, <1>2, <1>3, <1>4, <1>5, TypedAgain DEF StoreInv, TypeOK
<1>7. CASE p = Trainer
  <2>1. job.step = "fetch" /\ job.last = 0 /\ job.last = Newest(raw)
    BY <1>2, <1>7 DEF StoreInv, FetchInv
  <2>2. raw = {}
    BY <1>0, <2>1, NewestIsClosed DEF StoreInv, TypeOK
  <2>3. job'.step = "upsert" /\ ~load'[Trainer].busy /\ raw' = {}
    BY <1>1, <1>2, <1>7, <2>2 DEF StoreInv, TypeOK, NoLoad
  <2> QED
    BY <1>2, <1>6, <2>3 DEF StoreInv, FetchInv
<1>8. CASE p # Trainer
  <2>1. job' = job /\ load'[Trainer] = load[Trainer]
    BY <1>1, <1>2, <1>8 DEF StoreInv, TypeOK, Loaders
  <2> QED
    BY <1>2, <1>6, <2>1 DEF StoreInv, FetchInv, Newest
<1> QED
  BY <1>7, <1>8

LEMMA StoreStep == StoreInv /\ [Next]_vars => StoreInv'
<1> SUFFICES ASSUME StoreInv, [Next]_vars PROVE StoreInv'
  OBVIOUS
<1>0. closed \in Nat /\ closed >= 1 /\ MaxCandle \in Nat
  BY KlineAssumption DEF StoreInv, TypeOK
<1>1. CASE CandleCloses
  <2>1. closed' = closed + 1 /\ closed' \in 0..MaxCandle
        /\ UNCHANGED <<cache, raw, depth, load, job>>
    BY <1>0, <1>1 DEF CandleCloses
  <2>2. 0..closed \subseteq 0..closed' /\ 1..closed \subseteq 1..closed'
    BY <1>0, <2>1
  <2>3. cache \subseteq 1..closed' /\ raw \subseteq 1..closed'
    BY <2>2 DEF StoreInv, TypeOK
  <2>4. load \in [Loaders -> [busy : BOOLEAN, seen : SUBSET (1..closed')]]
    BY <2>2 DEF StoreInv, TypeOK
  <2>5. job \in [step : {"idle", "fetch", "upsert", "frame", "write"}, last : 0..closed',
                 rows : SUBSET (1..closed'), frame : SUBSET (1..closed')]
    BY <2>2 DEF StoreInv, TypeOK
  <2>6. TypeOK'
    BY <2>1, <2>3, <2>4, <2>5 DEF StoreInv, TypeOK, Depths
  <2> QED
    BY <1>0, <2>1, <2>6 DEF StoreInv, FetchInv, Newest
<1>2. CASE ReadLast
  <2>1. job' = [Idle EXCEPT !.step = "fetch", !.last = Newest(raw)]
        /\ UNCHANGED <<closed, cache, raw, depth, load>> /\ job.step = "idle"
    BY <1>2 DEF ReadLast
  <2>2. Newest(raw) \in 0..closed
    BY <1>0, NewestIsClosed DEF StoreInv, TypeOK
  <2>3. job' \in Jobs /\ job'.step = "fetch" /\ job'.last = Newest(raw)
    BY <1>0, <2>1, <2>2 DEF Jobs, Idle
  <2>4. TypeOK'
    BY <2>1, <2>3, TypedAgain DEF StoreInv, TypeOK, Loads
  <2>5. ~load[Trainer].busy
    BY <2>1 DEF StoreInv, FetchInv
  <2> QED
    BY <2>1, <2>3, <2>4, <2>5 DEF StoreInv, FetchInv, Newest
<1>3. CASE FetchNext
  <2>1. job.step = "fetch" /\ job.last > 0
        /\ job' = [job EXCEPT !.step = "upsert", !.rows = NextPage(job.last)]
        /\ UNCHANGED <<closed, cache, raw, depth, load>>
    BY <1>3 DEF FetchNext
  <2>2. job.last = Newest(raw) /\ job.last \in Nat
    BY <1>0, <2>1 DEF StoreInv, FetchInv, TypeOK
  <2>3. job' \in Jobs /\ job'.step = "upsert" /\ job'.rows = NextPage(job.last)
    BY <1>0, <2>1, <2>2, NextPageIsClosed DEF StoreInv, TypeOK, Jobs
  <2>4. TypeOK'
    BY <2>1, <2>3, TypedAgain DEF StoreInv, TypeOK, Loads
  <2>5. ~load[Trainer].busy
    BY <2>1, <2>2 DEF StoreInv, FetchInv
  <2>6. \E x \in Nat : Newest(raw) <= x /\ job'.rows = (Newest(raw) + 1)..x
    BY <1>0, <2>2, <2>3, PageFollows
  <2> QED
    BY <2>1, <2>3, <2>4, <2>5, <2>6 DEF StoreInv, FetchInv, Newest
<1>4. CASE UpsertRaw
  <2>1. raw' = raw \cup job.rows /\ job' = [Idle EXCEPT !.step = "frame"]
        /\ job.step = "upsert" /\ UNCHANGED <<closed, cache, depth, load>>
    BY <1>4 DEF UpsertRaw
  <2>2. raw' \subseteq 1..closed /\ job' \in Jobs /\ job'.step = "frame"
    BY <1>0, <2>1 DEF StoreInv, TypeOK, Jobs, Idle
  <2>3. TypeOK'
    BY <2>1, <2>2, TypedAgain DEF StoreInv, TypeOK, Loads
  <2> QED
    BY <2>1, <2>2, <2>3 DEF StoreInv, FetchInv
<1>5. CASE LoadFrame
  <2>1. job' = [job EXCEPT !.step = "write", !.frame = {c \in raw : c >= FrameStart}]
        /\ job.step = "frame" /\ UNCHANGED <<closed, cache, raw, depth, load>>
    BY <1>5 DEF LoadFrame
  <2>2. {c \in raw : c >= FrameStart} \in SUBSET (1..closed)
    BY DEF StoreInv, TypeOK
  <2>3. job' \in Jobs /\ job'.step = "write"
    BY <2>1, <2>2 DEF StoreInv, TypeOK, Jobs
  <2>4. TypeOK'
    BY <2>1, <2>3, TypedAgain DEF StoreInv, TypeOK, Loads
  <2> QED
    BY <2>1, <2>3, <2>4 DEF StoreInv, FetchInv
<1>6. CASE WriteFeatures
  <2>1. depth' = Recomputed(depth, job.frame) /\ job' = Idle /\ job.step = "write"
        /\ UNCHANGED <<closed, cache, raw, load>>
    BY <1>6 DEF WriteFeatures
  <2>2. depth' \in Depths
    BY <1>0, <2>1, RecomputedTyped DEF StoreInv, TypeOK
  <2>3. job' \in Jobs /\ job'.step = "idle"
    BY <1>0, <2>1 DEF Jobs, Idle
  <2>4. TypeOK'
    BY <2>1, <2>2, <2>3, TypedAgain DEF StoreInv, TypeOK, Loads
  <2> QED
    BY <2>1, <2>3, <2>4 DEF StoreInv, FetchInv
<1>7. CASE Abort
  <2>1. job' = Idle /\ load' = [load EXCEPT ![Trainer] = NoLoad]
        /\ UNCHANGED <<closed, cache, raw, depth>>
    BY <1>7 DEF Abort
  <2>2. job' \in Jobs /\ job'.step = "idle"
    BY <1>0, <2>1 DEF Jobs, Idle
  <2>3. load' \in Loads /\ ~load'[Trainer].busy
    BY <2>1 DEF StoreInv, TypeOK, Loads, NoLoad, Loaders
  <2>4. TypeOK'
    BY <2>1, <2>2, <2>3, TypedAgain DEF StoreInv, TypeOK
  <2> QED
    BY <2>1, <2>2, <2>3, <2>4 DEF StoreInv, FetchInv
<1>8. CASE \E p \in Forecasters : AbortForecast(p)
  <2>1. PICK p \in Forecasters : load' = [load EXCEPT ![p] = NoLoad]
                                 /\ UNCHANGED <<closed, cache, raw, depth, job>>
    BY <1>8 DEF AbortForecast
  <2>2. load' \in Loads /\ load'[Trainer] = load[Trainer]
    BY <2>1, KlineAssumption DEF StoreInv, TypeOK, Loads, NoLoad, Loaders
  <2>3. TypeOK'
    BY <2>1, <2>2, TypedAgain DEF StoreInv, TypeOK, Jobs
  <2> QED
    BY <2>1, <2>2, <2>3 DEF StoreInv, FetchInv, Newest
<1>9. CASE \E p \in Loaders : ReadCache(p) \/ SaveCache(p)
  BY <1>9, ReadCacheStep, SaveCacheStep
<1>10. CASE UNCHANGED vars
  BY <1>10 DEF vars, StoreInv, TypeOK, FetchInv, Newest, Depths
<1> QED
  BY <1>1, <1>2, <1>3, <1>4, <1>5, <1>6, <1>7, <1>8, <1>9, <1>10 DEF Next, Update, Loaders

LEMMA StoreInvariant == Spec => []StoreInv
BY StoreInit, StoreStep, PTL DEF Spec

(***************************************************************************)
(* The candles and features keep their types; in particular no table ever  *)
(* holds the open candle.                                                  *)
(***************************************************************************)
THEOREM StoreTypes == Spec => []TypeOK
<1>1. StoreInv => TypeOK
  BY DEF StoreInv
<1> QED
  BY <1>1, StoreInvariant, PTL

(***************************************************************************)
(* For any page size and limit, and however late an answer is or however   *)
(* often updates fail: after its first load the table gains no gap.        *)
(***************************************************************************)
THEOREM NothingSkipped == Spec => NoCandleSkipped
<1>1. ASSUME StoreInv, [Next]_vars, raw # {}
      PROVE  Gaps(raw') = Gaps(raw)
  <2>1. CASE UpsertRaw
    <3>1. raw' = raw \cup job.rows /\ job.step = "upsert"
      BY <2>1 DEF UpsertRaw
    <3>2. PICK x \in Nat : Newest(raw) <= x /\ job.rows = (Newest(raw) + 1)..x
      BY <1>1, <3>1 DEF StoreInv, FetchInv
    <3>3. closed \in Nat /\ raw \in SUBSET (1..closed)
      BY <1>1, KlineAssumption DEF StoreInv, TypeOK
    <3> QED
      BY <1>1, <3>1, <3>2, <3>3, GapsStay
  <2>2. CASE UNCHANGED raw
    BY <2>2
  <2> QED
    BY <1>1, <2>1, <2>2
    DEF Next, Update, vars, CandleCloses, ReadLast, ReadCache, SaveCache, FetchNext, LoadFrame,
        WriteFeatures, Abort, AbortForecast
<1>2. StoreInv /\ [Next]_vars => [raw # {} => Gaps(raw') = Gaps(raw)]_vars
  BY <1>1
<1> QED
  BY <1>2, StoreInvariant, PTL DEF Spec, NoCandleSkipped

(***************************************************************************)
(* Forecasts that load and settle beside it move the store as Spec does:   *)
(* what is proved of the store holds of it together with the settlement.   *)
(***************************************************************************)
THEOREM SettlementKeepsStore == SettlementInit /\ [][SettlementNext]_settleVars => Spec
<1>1. SettlementInit => Init
  BY DEF SettlementInit
<1>2. [SettlementNext]_settleVars => [Next]_vars
  BY DEF SettlementNext, Candle, LoadFeatures, Prepare, PredictionFails, Predict, Next, settleVars,
         vars
<1> QED
  BY <1>1, <1>2, PTL DEF Spec

-----------------------------------------------------------------------------
(* Artifacts.                                                              *)

ArtifactsSpec == ArtifactsInit /\ [][ArtifactsNext]_artifactVars

ChildType == [step : {"none", "fit", "model", "scaler", "dump", "return"}, data : 0..MaxData]
ParentType == [step : {"idle", "queued", "running", "read_model", "backup_model",
                       "read_scaler", "backup_scaler", "record"},
               data : 0..MaxData, attempt : 1..2]

Promoting == {"read_model", "backup_model", "read_scaler", "backup_scaler", "record"}

\* Whoever trains, trains on a dataset; a pool whose child has returned is empty.
DataInv ==
  /\ parent.step # "idle" => parent.data \in 1..MaxData
  /\ \A c \in Children : child[c].step # "none" => child[c].data \in 1..MaxData
  /\ parent.step \in Promoting => child[Pool].step = "none"

(***************************************************************************)
(* What the child of the pool has written, when no child left behind has   *)
(* written beside it: each step of it vouches for the files it has         *)
(* finished, and the promotion finds them as it left them.                 *)
(***************************************************************************)
WriteInv ==
  /\ alone /\ child[Pool].step \in {"scaler", "dump", "return"} =>
       write.model = child[Pool].data
  /\ alone /\ child[Pool].step = "return" => write.scaler = child[Pool].data
  /\ whole /\ Copying => write.model \in 1..MaxData /\ write.scaler = write.model

(***************************************************************************)
(* How far a promotion has come that goes well: a file of read/ is the     *)
(* promoted one or has disappeared, and the copy in backup/, from which    *)
(* alone it is repaired, is the promoted one.                              *)
(***************************************************************************)
CopiedInv ==
  whole =>
    /\ parent.step \in {"backup_model", "read_scaler", "backup_scaler"} =>
         read.model \in {Missing, write.model}
    /\ parent.step \in {"read_scaler", "backup_scaler"} =>
         backup.model = write.model
    /\ parent.step = "backup_scaler" => read.scaler \in {Missing, write.scaler}
    /\ parent.step \in {"idle", "queued", "running", "record"} =>
         /\ Valid(backup.model) /\ backup.scaler = backup.model
         /\ read.model \in {Missing, backup.model}
         /\ read.scaler \in {Missing, backup.scaler}

PairInv == ArtifactsTypeOK /\ DataInv /\ WriteInv /\ CopiedInv

\* The steps of the training process, of a child and of the outside.
LEMMA StepsOfArtifacts ==
  ASSUME ArtifactsNext
  PROVE  \/ NewCandle \/ Skip \/ Submit \/ Take
         \/ \E c \in Children : \/ RotateModel(c) \/ SaveModel(c) \/ OpenScaler(c)
                                \/ DumpScaler(c) \/ Return(c)
         \/ WorkerRaises \/ (\E c \in Left : LeftRaises(c)) \/ TimesOut \/ GivesUp
         \/ PromoteModel \/ BackupModel \/ PromoteScaler \/ BackupScaler \/ CopyFails
         \/ RecordTrained \/ Killed
         \/ (\E kind \in Kinds : Damage(kind)) \/ \E kind \in Kinds : Repair(kind)
BY DEF ArtifactsNext, Schedule, Train, Fault

LEMMA ChildrenFacts == Pool \in Children /\ Pool \notin Left /\ Left \subseteq Children
BY ArtifactsAssumption DEF Pool, Left, Children

LEMMA NoChildTyped == NoChild \in ChildType /\ NoChild.step = "none"
BY ArtifactsAssumption DEF NoChild, ChildType

\* A step of one child leaves the others alone.
LEMMA OneMoves ==
  ASSUME child \in [Children -> ChildType], NEW c \in Children,
         NEW from, NEW to \in {"model", "scaler", "dump", "return"}, Moves(c, from, to)
  PROVE  /\ child' \in [Children -> ChildType] /\ child[c].step = from
         /\ child'[c].step = to /\ child'[c].data = child[c].data
         /\ \A d \in Children \ {c} : child'[d] = child[d]
<1>1. child[c] \in ChildType
  OBVIOUS
<1>2. [child[c] EXCEPT !.step = to] \in ChildType
  BY <1>1 DEF ChildType
<1>3. child' = [child EXCEPT ![c] = [child[c] EXCEPT !.step = to]]
  BY DEF Moves
<1>4. child'[c] = [child[c] EXCEPT !.step = to]
  BY <1>3
<1> QED
  BY <1>1, <1>2, <1>3, <1>4 DEF Moves, ChildType

\* So does its end.
LEMMA OneEnds ==
  ASSUME child \in [Children -> ChildType], NEW c \in Children, Ends(c)
  PROVE  /\ child' \in [Children -> ChildType] /\ child'[c] = NoChild
         /\ \A d \in Children \ {c} : child'[d] = child[d]
BY NoChildTyped DEF Ends

\* A shutdown empties the pool; whoever is left behind was running before.
LEMMA ShutdownEnds ==
  ASSUME child \in [Children -> ChildType], Shutdown
  PROVE  /\ child' \in [Children -> ChildType] /\ child'[Pool] = NoChild
         /\ \A c \in Children : child'[c] = NoChild \/ \E d \in Children : child'[c] = child[d]
<1>1. CASE Terminated
  <2>1. PICK kept \in SUBSET Left :
          child' = [c \in Children |-> IF c \in kept THEN child[c] ELSE NoChild]
    BY <1>1 DEF Terminated
  <2> QED
    BY <2>1, ChildrenFacts, NoChildTyped
<1>2. CASE LeftBehind
  <2>1. PICK c \in Left : child' = [child EXCEPT ![c] = child[Pool], ![Pool] = NoChild]
    BY <1>2 DEF LeftBehind
  <2> QED
    BY <2>1, ChildrenFacts, NoChildTyped
<1> QED
  BY <1>1, <1>2 DEF Shutdown


LEMMA DataStep ==
  ASSUME ArtifactsTypeOK, DataInv, [ArtifactsNext]_artifactVars
  PROVE  child' \in [Children -> ChildType] /\ DataInv'
<1>t. child \in [Children -> ChildType]
  BY DEF ArtifactsTypeOK, ChildType
<1>1. CASE UNCHANGED child /\ \/ parent' = parent \/ parent'.step = "idle"
                              \/ /\ parent.step # "idle" /\ parent'.data = parent.data
                                 /\ parent'.step \in Promoting => parent.step \in Promoting
  BY <1>t, <1>1 DEF DataInv, Promoting
<1>2. CASE Skip \/ NewCandle \/ (\E kind \in Kinds : Damage(kind)) \/ \E kind \in Kinds : Repair(kind)
  <2>1. UNCHANGED <<child, parent>>
    BY <1>2 DEF Skip, NewCandle, Damage, Repair
  <2> QED
    BY <1>1, <2>1
<1>3. CASE Submit
  <2>1. /\ parent' = [step |-> "queued", data |-> data, attempt |-> 1] /\ data \in 1..MaxData
        /\ UNCHANGED child \/ Shutdown
    BY <1>3 DEF Submit, ArtifactsTypeOK
  <2>2. /\ child' \in [Children -> ChildType]
        /\ \A c \in Children : child'[c] = NoChild \/ \E d \in Children : child'[c] = child[d]
    BY <1>t, <2>1, ShutdownEnds
  <2>3. \A c \in Children : child'[c].step # "none" => child'[c].data \in 1..MaxData
    BY <2>2, NoChildTyped DEF DataInv
  <2> QED
    BY <2>1, <2>2, <2>3 DEF DataInv, Promoting
<1>4. CASE Take
  <2>1. parent.data \in 1..MaxData
    BY <1>4 DEF Take, DataInv
  <2>2. [step |-> "fit", data |-> parent.data] \in ChildType
    BY <2>1 DEF ChildType
  <2>3. /\ child' \in [Children -> ChildType]
        /\ child'[Pool] = [step |-> "fit", data |-> parent.data]
        /\ \A c \in Children \ {Pool} : child'[c] = child[c]
    BY <1>t, <1>4, <2>2, ChildrenFacts DEF Take
  <2>4. parent'.step = "running" /\ parent'.data = parent.data
    BY <1>4 DEF Take, ArtifactsTypeOK
  <2> QED
    BY <2>1, <2>3, <2>4 DEF DataInv, Promoting
<1>5. CASE \E c \in Children : RotateModel(c) \/ SaveModel(c) \/ OpenScaler(c) \/ DumpScaler(c)
  <2>1. PICK c \in Children : RotateModel(c) \/ SaveModel(c) \/ OpenScaler(c) \/ DumpScaler(c)
    BY <1>5
  <2>2. parent' = parent
    BY <2>1 DEF RotateModel, SaveModel, OpenScaler, DumpScaler
  <2>3. PICK from \in {"fit", "model", "scaler", "dump"}, to \in {"model", "scaler", "dump", "return"} :
          Moves(c, from, to)
    BY <2>1 DEF RotateModel, SaveModel, OpenScaler, DumpScaler
  <2>4. /\ child' \in [Children -> ChildType] /\ child[c].step = from
        /\ child'[c].step = to /\ child'[c].data = child[c].data
        /\ \A d \in Children \ {c} : child'[d] = child[d]
    BY <1>t, <2>3, OneMoves
  <2> QED
    BY <2>2, <2>3, <2>4, ChildrenFacts DEF DataInv
<1>6. CASE \E c \in Children : Return(c)
  <2>1. PICK c \in Children : Return(c)
    BY <1>6
  <2>2. /\ child' \in [Children -> ChildType] /\ child'[c] = NoChild
        /\ \A d \in Children \ {c} : child'[d] = child[d]
    BY <1>t, <2>1, OneEnds DEF Return
  <2>3. CASE c = Pool /\ parent.step = "running"
    <3>1. parent'.step = "read_model" /\ parent'.data = parent.data
      BY <2>1, <2>3 DEF Return, ArtifactsTypeOK
    <3> QED
      BY <2>2, <2>3, <3>1, NoChildTyped DEF DataInv
  <2>4. CASE ~(c = Pool /\ parent.step = "running")
    <3>1. parent' = parent
      BY <2>1, <2>4 DEF Return
    <3> QED
      BY <2>2, <3>1, NoChildTyped, ChildrenFacts DEF DataInv
  <2> QED
    BY <2>3, <2>4
<1>7. CASE WorkerRaises
  <2>1. /\ child' \in [Children -> ChildType] /\ child'[Pool] = NoChild
        /\ \A d \in Children \ {Pool} : child'[d] = child[d]
    BY <1>t, <1>7, OneEnds, ChildrenFacts DEF WorkerRaises
  <2>2. parent'.step = "idle"
    BY <1>7 DEF WorkerRaises, AfterFailure, Resting
  <2> QED
    BY <2>1, <2>2, NoChildTyped DEF DataInv, Promoting
<1>8. CASE \E c \in Left : LeftRaises(c)
  <2>1. PICK c \in Left : LeftRaises(c)
    BY <1>8
  <2>2. /\ child' \in [Children -> ChildType] /\ child'[c] = NoChild
        /\ \A d \in Children \ {c} : child'[d] = child[d]
    BY <1>t, <2>1, OneEnds, ChildrenFacts DEF LeftRaises
  <2>3. parent' = parent
    BY <2>1 DEF LeftRaises
  <2> QED
    BY <2>2, <2>3, NoChildTyped, ChildrenFacts DEF DataInv
<1>9. CASE TimesOut \/ Killed
  <2>1. Shutdown /\ \/ parent'.step = "idle"
                    \/ parent.step # "idle" /\ parent'.step = "queued" /\ parent'.data = parent.data
    <3>1. CASE TimesOut
      <4>1. parent' = [step |-> "queued", data |-> parent.data, attempt |-> 2]
        BY <3>1 DEF TimesOut, ArtifactsTypeOK
      <4> QED
        BY <3>1, <4>1 DEF TimesOut
    <3>2. CASE Killed
      BY <3>2 DEF Killed, Resting
    <3> QED
      BY <1>9, <3>1, <3>2
  <2>2. /\ child' \in [Children -> ChildType]
        /\ \A c \in Children : child'[c] = NoChild \/ \E d \in Children : child'[c] = child[d]
    BY <1>t, <2>1, ShutdownEnds
  <2>3. \A c \in Children : child'[c].step # "none" => child'[c].data \in 1..MaxData
    BY <2>2, NoChildTyped DEF DataInv
  <2> QED
    BY <2>1, <2>2, <2>3 DEF DataInv, Promoting
<1>10. CASE PromoteModel \/ BackupModel \/ PromoteScaler \/ BackupScaler \/ CopyFails
  <2>1. /\ UNCHANGED child /\ parent.step \in Promoting
        /\ parent'.step \in Promoting /\ parent'.data = parent.data
    BY <1>10 DEF PromoteModel, BackupModel, PromoteScaler, BackupScaler, CopyFails, Copying,
       Promoting, ArtifactsTypeOK
  <2> QED
    BY <1>1, <2>1 DEF Promoting
<1>11. CASE GivesUp \/ RecordTrained
  <2>1. UNCHANGED child /\ parent'.step = "idle"
    BY <1>11 DEF GivesUp, RecordTrained, Resting
  <2> QED
    BY <1>1, <2>1
<1>12. CASE UNCHANGED artifactVars
  BY <1>1, <1>12 DEF artifactVars
<1> QED
  BY <1>2, <1>3, <1>4, <1>5, <1>6, <1>7, <1>8, <1>9, <1>10, <1>11, <1>12, StepsOfArtifacts

\* What a child or the outside does to the histories and to write/.
LEMMA ChildWrites ==
  ASSUME ArtifactsTypeOK, DataInv, NEW c \in Children,
         RotateModel(c) \/ SaveModel(c) \/ OpenScaler(c) \/ DumpScaler(c)
  PROVE  /\ write' \in Pair /\ {alone', whole'} \subseteq BOOLEAN
         /\ UNCHANGED <<data, seen, registry, read, backup, parent>>
<1> USE ArtifactsAssumption DEF Pair, Artifacts, Missing, Torn
<1>1. child[c].step \in {"model", "dump"} => child[c].data \in 1..MaxData
  BY DEF DataInv
<1>2. {alone', whole'} \subseteq BOOLEAN
  BY DEF ArtifactsTypeOK, RotateModel, SaveModel, OpenScaler, DumpScaler, Writes, LeftWrites
<1>3. CASE RotateModel(c)
  BY <1>2, <1>3 DEF RotateModel, ArtifactsTypeOK
<1>4. CASE SaveModel(c)
  BY <1>1, <1>2, <1>4 DEF SaveModel, Moves, ArtifactsTypeOK
<1>5. CASE OpenScaler(c)
  BY <1>2, <1>5 DEF OpenScaler, ArtifactsTypeOK
<1>6. CASE DumpScaler(c)
  BY <1>1, <1>2, <1>6 DEF DumpScaler, Moves, ArtifactsTypeOK
<1> QED
  BY <1>3, <1>4, <1>5, <1>6

LEMMA ArtifactsTypesStep ==
  ASSUME ArtifactsTypeOK, DataInv, [ArtifactsNext]_artifactVars
  PROVE  ArtifactsTypeOK'
<1> USE ArtifactsAssumption DEF Pair, Artifacts, Missing, Torn
<1> DEFINE Rest == /\ data \in 1..MaxData /\ seen \in 0..data
                   /\ registry \in [1..MaxData -> {"none", "trained", "skipped"}]
                   /\ {write, read, backup} \subseteq Pair
                   /\ parent \in ParentType /\ {alone, whole} \subseteq BOOLEAN
<1>t. Rest
  BY DEF ArtifactsTypeOK, ParentType
<1>c. child' \in [Children -> ChildType]
  BY DataStep
<1>s. SUFFICES Rest'
  BY <1>c DEF ArtifactsTypeOK, ParentType, ChildType
<1>1. CASE NewCandle
  BY <1>t, <1>1 DEF NewCandle, promotion
<1>2. CASE Skip
  BY <1>t, <1>2 DEF Skip, Record, promotion
<1>3. CASE Submit
  BY <1>t, <1>3 DEF Submit, ParentType, promotion
<1>4. CASE Take
  <2>1. parent' \in ParentType
    BY <1>t, <1>4 DEF Take, ParentType
  <2> QED
    BY <1>t, <1>4, <2>1 DEF Take, promotion
<1>5. CASE \E c \in Children : RotateModel(c) \/ SaveModel(c) \/ OpenScaler(c) \/ DumpScaler(c)
  BY <1>t, <1>5, ChildWrites
<1>6. CASE \E c \in Children : Return(c)
  <2>1. PICK c \in Children : Return(c)
    BY <1>6
  <2>2. parent' \in ParentType
    <3>1. \/ parent' = parent
          \/ parent' = [step |-> "read_model", data |-> parent.data, attempt |-> 1]
      BY <1>t, <2>1 DEF Return, ParentType
    <3> QED
      BY <1>t, <3>1 DEF ParentType
  <2>3. {alone', whole'} \subseteq BOOLEAN
    BY <1>t, <2>1 DEF Return
  <2> QED
    BY <1>t, <2>1, <2>2, <2>3 DEF Return
<1>7. CASE WorkerRaises
  BY <1>t, <1>7 DEF WorkerRaises, AfterFailure, Resting, ParentType
<1>8. CASE \E c \in Left : LeftRaises(c)
  BY <1>t, <1>8 DEF LeftRaises, promotion
<1>9. CASE TimesOut
  <2>1. parent' = [step |-> "queued", data |-> parent.data, attempt |-> 2]
    BY <1>t, <1>9 DEF TimesOut, ParentType
  <2> QED
    BY <1>t, <1>9, <2>1 DEF TimesOut, ParentType, promotion
<1>10. CASE GivesUp
  BY <1>t, <1>10 DEF GivesUp, Resting, ParentType, promotion
<1>11. CASE PromoteModel \/ BackupModel \/ PromoteScaler \/ BackupScaler
  <2>1. parent' \in ParentType
    BY <1>t, <1>11 DEF PromoteModel, BackupModel, PromoteScaler, BackupScaler, ParentType
  <2>2. {read', backup'} \subseteq Pair
    BY <1>t, <1>11 DEF PromoteModel, BackupModel, PromoteScaler, BackupScaler
  <2> QED
    BY <1>t, <1>11, <2>1, <2>2 DEF PromoteModel, BackupModel, PromoteScaler, BackupScaler, promotion
<1>12. CASE CopyFails
  BY <1>t, <1>12 DEF CopyFails, Copying, ParentType
<1>13. CASE RecordTrained
  <2>1. registry' \in [1..MaxData -> {"none", "trained", "skipped"}]
    BY <1>t, <1>13 DEF RecordTrained
  <2> QED
    BY <1>t, <1>13, <2>1 DEF RecordTrained, Resting, ParentType, promotion
<1>14. CASE Killed
  BY <1>t, <1>14 DEF Killed, Resting, ParentType
<1>15. CASE \E kind \in Kinds : Damage(kind)
  BY <1>t, <1>15 DEF Damage, Kinds, promotion
<1>16. CASE \E kind \in Kinds : Repair(kind)
  <2>1. PICK kind \in {"model", "scaler"} : Repair(kind)
    BY <1>16 DEF Kinds
  <2>2. read' \in Pair
    BY <1>t, <2>1 DEF Repair
  <2>3. whole' \in BOOLEAN
    BY <1>t, <2>1 DEF Repair, Valid
  <2> QED
    BY <1>t, <2>1, <2>2, <2>3 DEF Repair
<1>17. CASE UNCHANGED artifactVars
  BY <1>t, <1>17 DEF artifactVars, promotion
<1> QED
  BY <1>1, <1>2, <1>3, <1>4, <1>5, <1>6, <1>7, <1>8, <1>9, <1>10, <1>11, <1>12, <1>13,
     <1>14, <1>15, <1>16, <1>17, StepsOfArtifacts

LEMMA WriteStep ==
  ASSUME PairInv, [ArtifactsNext]_artifactVars
  PROVE  WriteInv'
<1> USE DEF WriteInv, Copying
<1>t. child \in [Children -> ChildType] /\ write \in Pair /\ {alone, whole} \subseteq BOOLEAN
  BY DEF PairInv, ArtifactsTypeOK, ChildType
<1>p. PairInv /\ WriteInv
  BY DEF PairInv
<1>0. CASE /\ UNCHANGED <<write, alone>> /\ (whole' => whole)
           /\ child'[Pool] = child[Pool] \/ child'[Pool] = NoChild
           /\ parent' = parent \/ ~Copying'
  <2>1. /\ alone' /\ child'[Pool].step \in {"scaler", "dump", "return"} =>
             write'.model = child'[Pool].data
        /\ alone' /\ child'[Pool].step = "return" => write'.scaler = child'[Pool].data
    BY <1>p, <1>0, NoChildTyped
  <2>2. whole' /\ Copying' => write'.model \in 1..MaxData /\ write'.scaler = write'.model
    <3>1. whole' /\ Copying' => whole /\ Copying
      BY <1>0
    <3> QED
      BY <1>p, <1>0, <3>1
  <2> QED
    BY <2>1, <2>2
<1>1. CASE \/ NewCandle \/ Skip \/ (\E kind \in Kinds : Damage(kind))
           \/ \E kind \in Kinds : Repair(kind)
  <2>1. UNCHANGED <<write, alone, child, parent>> /\ (whole' => whole)
    <3>1. UNCHANGED <<write, alone, child, parent>>
      BY <1>1 DEF NewCandle, Skip, Damage, Repair, promotion
    <3>2. whole' => whole
      BY <1>t, <1>1 DEF NewCandle, Skip, Damage, Repair, promotion
    <3> QED
      BY <3>1, <3>2
  <2>2. child'[Pool] = child[Pool]
    BY <2>1
  <2> QED
    BY <1>0, <2>1, <2>2
<1>2. CASE Submit \/ TimesOut \/ Killed \/ GivesUp
  <2>1. UNCHANGED <<write, alone>> /\ (whole' => whole)
    <3>1. UNCHANGED <<write, alone>>
      BY <1>2 DEF Submit, TimesOut, Killed, GivesUp, promotion
    <3>2. whole' => whole
      BY <1>t, <1>2 DEF Submit, TimesOut, Killed, GivesUp, promotion
    <3> QED
      BY <3>1, <3>2
  <2>2. ~Copying'
    <3>1. CASE TimesOut
      <4>1. parent' = [step |-> "queued", data |-> parent.data, attempt |-> 2]
        BY <1>p, <3>1 DEF TimesOut, PairInv, ArtifactsTypeOK
      <4> QED
        BY <4>1
    <3>2. CASE Submit \/ Killed \/ GivesUp
      BY <3>2 DEF Submit, Killed, GivesUp, Resting
    <3> QED
      BY <1>2, <3>1, <3>2
  <2>3. child'[Pool] = child[Pool] \/ child'[Pool] = NoChild
    BY <1>t, <1>2, ShutdownEnds DEF Submit, TimesOut, Killed, GivesUp
  <2> QED
    BY <1>0, <2>1, <2>2, <2>3
<1>3. CASE Take
  <2>1. child'[Pool] = [step |-> "fit", data |-> parent.data]
    BY <1>t, <1>3, ChildrenFacts DEF Take
  <2>2. parent'.step = "running"
    BY <1>3, <1>p DEF Take, PairInv, ArtifactsTypeOK
  <2> QED
    BY <2>1, <2>2
<1>4. CASE \E c \in Left : RotateModel(c) \/ SaveModel(c) \/ OpenScaler(c) \/ DumpScaler(c)
  <2>1. PICK c \in Left : RotateModel(c) \/ SaveModel(c) \/ OpenScaler(c) \/ DumpScaler(c)
    BY <1>4
  <2>2. alone' = FALSE /\ whole' = (whole /\ ~Copying) /\ parent' = parent
    BY <2>1 DEF RotateModel, SaveModel, OpenScaler, DumpScaler, Writes, LeftWrites
  <2> QED
    BY <2>2
<1>5. CASE RotateModel(Pool)
  <2>1. child'[Pool].step = "model" /\ child[Pool].step = "fit"
    BY <1>t, <1>5, OneMoves, ChildrenFacts DEF RotateModel
  <2>2. ~Copying /\ parent' = parent
    BY <1>5, <1>p, <2>1 DEF RotateModel, PairInv, DataInv, Promoting
  <2> QED
    BY <2>1, <2>2
<1>6. CASE SaveModel(Pool)
  <2>1. child'[Pool].step = "scaler" /\ child[Pool].step = "model" /\ child'[Pool].data = child[Pool].data
    BY <1>t, <1>6, OneMoves, ChildrenFacts DEF SaveModel
  <2>2. ~Copying /\ parent' = parent
    BY <1>6, <1>p, <2>1 DEF SaveModel, PairInv, DataInv, Promoting
  <2>3. write'.model = child[Pool].data
    BY <1>t, <1>6 DEF SaveModel, Pair
  <2> QED
    BY <2>1, <2>2, <2>3
<1>7. CASE OpenScaler(Pool)
  <2>1. child'[Pool].step = "dump" /\ child[Pool].step = "scaler" /\ child'[Pool].data = child[Pool].data
    BY <1>t, <1>7, OneMoves, ChildrenFacts DEF OpenScaler
  <2>2. ~Copying /\ parent' = parent
    BY <1>7, <1>p, <2>1 DEF OpenScaler, PairInv, DataInv, Promoting
  <2>3. write'.model = write.model /\ alone' = alone
    BY <1>t, <1>7, <2>1, ChildrenFacts DEF OpenScaler, Pair, Writes
  <2> QED
    BY <1>p, <2>1, <2>2, <2>3
<1>8. CASE DumpScaler(Pool)
  <2>1. child'[Pool].step = "return" /\ child[Pool].step = "dump" /\ child'[Pool].data = child[Pool].data
    BY <1>t, <1>8, OneMoves, ChildrenFacts DEF DumpScaler
  <2>2. ~Copying /\ parent' = parent
    BY <1>8, <1>p, <2>1 DEF DumpScaler, PairInv, DataInv, Promoting
  <2>3. \/ write'.model = write.model /\ write'.scaler = child[Pool].data /\ alone' = alone
        \/ alone' = FALSE
    BY <1>t, <1>8, <2>1, ChildrenFacts DEF DumpScaler, Pair, Writes, LeftWrites
  <2> QED
    BY <1>p, <2>1, <2>2, <2>3
<1>9. CASE \E c \in Children : Return(c)
  <2>1. PICK c \in Children : Return(c)
    BY <1>9
  <2>2. child'[Pool] = child[Pool] \/ child'[Pool] = NoChild
    BY <1>t, <2>1, OneEnds, ChildrenFacts DEF Return
  <2>3. CASE c = Pool /\ parent.step = "running"
    <3>1. child'[Pool] = NoChild /\ child[Pool].step = "return" /\ whole' = alone
      BY <1>t, <2>1, <2>3, OneEnds, ChildrenFacts DEF Return
    <3>2. child[Pool].data \in 1..MaxData
      BY <1>p, <3>1, ChildrenFacts DEF PairInv, DataInv
    <3>3. UNCHANGED <<write, alone>>
      BY <2>1 DEF Return
    <3> QED
      BY <1>p, <3>1, <3>2, <3>3, NoChildTyped
  <2>4. CASE ~(c = Pool /\ parent.step = "running")
    <3>1. UNCHANGED <<write, alone, whole, parent>>
      BY <2>1, <2>4 DEF Return
    <3> QED
      BY <1>0, <2>2, <3>1
  <2> QED
    BY <2>3, <2>4
<1>10. CASE WorkerRaises
  <2>1. UNCHANGED <<write, alone, whole>> /\ ~Copying'
    BY <1>10 DEF WorkerRaises, AfterFailure, Resting
  <2>2. child'[Pool] = NoChild
    BY <1>t, <1>10, OneEnds, ChildrenFacts DEF WorkerRaises
  <2> QED
    BY <1>0, <2>1, <2>2
<1>11. CASE \E c \in Left : LeftRaises(c)
  <2>1. PICK c \in Left : LeftRaises(c)
    BY <1>11
  <2>2. child'[Pool] = child[Pool] /\ UNCHANGED <<write, alone, whole, parent>>
    BY <1>t, <2>1, OneEnds, ChildrenFacts DEF LeftRaises, promotion
  <2> QED
    BY <1>0, <2>2
<1>12. CASE PromoteModel \/ BackupModel \/ PromoteScaler
  <2>1. UNCHANGED <<write, alone, whole, child>> /\ Copying
    BY <1>12 DEF PromoteModel, BackupModel, PromoteScaler, promotion
  <2> QED
    BY <1>p, <2>1
<1>13. CASE BackupScaler \/ RecordTrained
  <2>1. UNCHANGED <<write, alone, whole, child>>
    BY <1>13 DEF BackupScaler, RecordTrained, promotion
  <2>2. ~Copying'
    BY <1>13, <1>p DEF BackupScaler, RecordTrained, Resting, PairInv, ArtifactsTypeOK
  <2> QED
    BY <1>0, <2>1, <2>2
<1>14. CASE CopyFails
  <2>1. UNCHANGED <<write, alone, child>> /\ whole' = FALSE
    BY <1>14 DEF CopyFails
  <2> QED
    BY <1>p, <2>1
<1>15. CASE UNCHANGED artifactVars
  BY <1>0, <1>15 DEF artifactVars, promotion
<1> QED
  BY <1>1, <1>2, <1>3, <1>4, <1>5, <1>6, <1>7, <1>8, <1>9, <1>10, <1>11, <1>12, <1>13,
     <1>14, <1>15, StepsOfArtifacts DEF Children

LEMMA CopiedStep ==
  ASSUME PairInv, [ArtifactsNext]_artifactVars
  PROVE  CopiedInv'
<1> USE DEF CopiedInv, Valid, Missing
<1>t. /\ {write, read, backup} \subseteq Pair /\ {alone, whole} \subseteq BOOLEAN
      /\ parent \in ParentType
  BY DEF PairInv, ArtifactsTypeOK, ParentType
<1>p. CopiedInv /\ WriteInv /\ DataInv
  BY DEF PairInv
<1>0. CASE /\ UNCHANGED <<read, backup, parent>> /\ (whole' => whole)
           /\ write' = write \/ ~Copying \/ ~whole'
  BY <1>t, <1>p, <1>0 DEF Copying
<1>1. CASE /\ UNCHANGED <<read, backup>> /\ (whole' => whole /\ ~Copying)
           /\ parent'.step \in {"idle", "queued", "running"}
  BY <1>t, <1>p, <1>1 DEF Copying, ParentType
<1>2. CASE NewCandle \/ Skip \/ \E c \in Left : LeftRaises(c)
  BY <1>0, <1>2 DEF NewCandle, Skip, LeftRaises, promotion
<1>3. CASE \E c \in Children : RotateModel(c) \/ SaveModel(c) \/ OpenScaler(c) \/ DumpScaler(c)
  <2>1. PICK c \in Children : RotateModel(c) \/ SaveModel(c) \/ OpenScaler(c) \/ DumpScaler(c)
    BY <1>3
  <2>2. UNCHANGED <<read, backup, parent>>
    BY <2>1 DEF RotateModel, SaveModel, OpenScaler, DumpScaler
  <2>3. (whole' = (whole /\ ~Copying)) \/ (c = Pool /\ whole' = whole)
    BY <2>1, ChildrenFacts DEF RotateModel, SaveModel, OpenScaler, DumpScaler, Writes, LeftWrites,
       Children, Pool
  <2>4. c = Pool => ~Copying
    BY <1>p, <2>1 DEF RotateModel, SaveModel, OpenScaler, DumpScaler, Moves, DataInv, Promoting,
       Copying
  <2> QED
    BY <1>0, <1>t, <2>2, <2>3, <2>4
<1>4. CASE \E c \in Children : Return(c)
  <2>1. PICK c \in Children : Return(c)
    BY <1>4
  <2>2. UNCHANGED <<read, backup, write>>
    BY <2>1 DEF Return
  <2>3. CASE c = Pool /\ parent.step = "running"
    <3>1. parent'.step = "read_model"
      BY <1>t, <2>1, <2>3 DEF Return, ParentType
    <3> QED
      BY <3>1
  <2>4. CASE ~(c = Pool /\ parent.step = "running")
    <3>1. UNCHANGED <<parent, whole>>
      BY <2>1, <2>4 DEF Return
    <3> QED
      BY <1>0, <2>2, <3>1
  <2> QED
    BY <2>3, <2>4
<1>5. CASE Submit \/ Take \/ TimesOut
  <2>1. UNCHANGED <<read, backup, whole>> /\ ~Copying
    BY <1>5 DEF Submit, Take, TimesOut, Copying, promotion
  <2>2. CASE Submit \/ Take
    <3>1. parent'.step \in {"queued", "running"}
      BY <1>t, <2>2 DEF Submit, Take, ParentType
    <3> QED
      BY <1>1, <2>1, <3>1
  <2>3. CASE TimesOut
    <3>1. parent' = [step |-> "queued", data |-> parent.data, attempt |-> 2]
      BY <1>t, <2>3 DEF TimesOut, ParentType
    <3> QED
      BY <1>1, <2>1, <3>1
  <2> QED
    BY <1>5, <2>2, <2>3
<1>6. CASE GivesUp \/ WorkerRaises \/ RecordTrained \/ Killed
  <2>1. UNCHANGED <<read, backup>> /\ parent'.step = "idle"
    BY <1>6 DEF GivesUp, WorkerRaises, RecordTrained, Killed, AfterFailure, Resting, promotion
  <2>2. whole' => whole /\ ~Copying
    BY <1>t, <1>6 DEF GivesUp, WorkerRaises, RecordTrained, Killed, AfterFailure, Resting, Copying,
       promotion
  <2> QED
    BY <1>1, <2>1, <2>2
<1>7. CASE PromoteModel
  <2>1. /\ read'.model = write.model /\ parent'.step = "backup_model"
        /\ UNCHANGED <<write, backup, whole>>
    BY <1>t, <1>7 DEF PromoteModel, Pair, ParentType, promotion
  <2> QED
    BY <2>1
<1>8. CASE BackupModel
  <2>1. /\ backup'.model = read.model /\ parent'.step = "read_scaler" /\ read.model # 0
        /\ parent.step = "backup_model" /\ UNCHANGED <<write, read, whole>>
    BY <1>t, <1>8 DEF BackupModel, Pair, ParentType, promotion
  <2> QED
    BY <1>p, <2>1
<1>9. CASE PromoteScaler
  <2>1. /\ read'.scaler = write.scaler /\ read'.model = read.model
        /\ parent'.step = "backup_scaler" /\ parent.step = "read_scaler"
        /\ UNCHANGED <<write, backup, whole>>
    BY <1>t, <1>9 DEF PromoteScaler, Pair, ParentType, promotion
  <2> QED
    BY <1>p, <2>1
<1>10. CASE BackupScaler
  <2>1. /\ backup'.scaler = read.scaler /\ backup'.model = backup.model /\ read.scaler # 0
        /\ parent'.step = "record" /\ parent.step = "backup_scaler"
        /\ UNCHANGED <<write, read, whole>>
    BY <1>t, <1>10 DEF BackupScaler, Pair, ParentType, promotion
  <2>2. whole => write.model \in 1..MaxData /\ write.scaler = write.model
    BY <1>p, <2>1 DEF WriteInv, Copying
  <2> QED
    BY <1>p, <2>1, <2>2, ArtifactsAssumption
<1>11. CASE CopyFails
  BY <1>11 DEF CopyFails
<1>12. CASE \E kind \in Kinds : Damage(kind)
  <2>1. PICK kind \in {"model", "scaler"} : Damage(kind)
    BY <1>12 DEF Kinds
  <2>2. /\ read'.model \in {0, read.model} /\ read'.scaler \in {0, read.scaler}
        /\ UNCHANGED <<write, backup, parent, whole>>
    BY <1>t, <2>1 DEF Damage, Pair, promotion
  <2> QED
    BY <1>p, <2>2
<1>13. CASE \E kind \in Kinds : Repair(kind)
  <2>1. PICK kind \in {"model", "scaler"} : Repair(kind)
    BY <1>13 DEF Kinds
  <2>2. UNCHANGED <<parent, backup, write>>
    BY <2>1 DEF Repair
  <2>3. CASE whole'
    <3>1. whole /\ backup[kind] # 0 /\ ~Copying
      BY <1>t, <2>1, <2>3 DEF Repair
    <3>2. read' = [read EXCEPT ![kind] = backup[kind]]
      BY <2>1, <3>1 DEF Repair
    <3>3. /\ read'.model \in {read.model, backup.model}
          /\ read'.scaler \in {read.scaler, backup.scaler}
      BY <1>t, <3>2 DEF Pair
    <3> QED
      BY <1>p, <2>2, <3>1, <3>3 DEF Copying
  <2>4. CASE ~whole'
    BY <2>4
  <2> QED
    BY <2>3, <2>4
<1>14. CASE UNCHANGED artifactVars
  BY <1>0, <1>14 DEF artifactVars, promotion
<1> QED
  BY <1>2, <1>3, <1>4, <1>5, <1>6, <1>7, <1>8, <1>9, <1>10, <1>11, <1>12, <1>13, <1>14,
     StepsOfArtifacts

LEMMA PairInit == ArtifactsInit => PairInv
<1> SUFFICES ASSUME ArtifactsInit PROVE PairInv
  OBVIOUS
<1> USE ArtifactsAssumption DEF ArtifactsInit, NoPair, NoChild, Resting
<1>1. WriteInv /\ CopiedInv
  BY DEF WriteInv, CopiedInv, Copying
<1>2. {write, read, backup} \subseteq Pair
  BY DEF Pair, Artifacts, Missing
<1>3. data \in 1..MaxData /\ seen \in 0..data
  OBVIOUS
<1>4. alone \in BOOLEAN /\ whole \in BOOLEAN
  OBVIOUS
<1>5. child \in [Children -> ChildType]
  BY NoChildTyped
<1>6. parent \in ParentType
  BY DEF ParentType
<1>7. registry \in [1..MaxData -> {"none", "trained", "skipped"}]
  OBVIOUS
<1>8. DataInv
  BY ChildrenFacts DEF DataInv, Promoting
<1> QED
  BY <1>1, <1>2, <1>3, <1>4, <1>5, <1>6, <1>7, <1>8
  DEF PairInv, ArtifactsTypeOK, ChildType, ParentType

LEMMA PairStep == PairInv /\ [ArtifactsNext]_artifactVars => PairInv'
BY DataStep, ArtifactsTypesStep, WriteStep, CopiedStep DEF PairInv

LEMMA PairInvariant == ArtifactsSpec => []PairInv
BY PairInit, PairStep, PTL DEF ArtifactsSpec

(***************************************************************************)
(* The artifacts, the children and the training process keep to what they  *)
(* can be.                                                                 *)
(***************************************************************************)
THEOREM ArtifactsTypes == ArtifactsSpec => []ArtifactsTypeOK
<1>1. PairInv => ArtifactsTypeOK
  BY DEF PairInv
<1> QED
  BY <1>1, PairInvariant, PTL

(***************************************************************************)
(* After a promotion that went well, of what a child alone has saved, the  *)
(* model and the scaler of read/ belong together, whatever children that   *)
(* failed, were terminated or were left behind had written before, write   *)
(* after it, or write while files of read/ disappear and are repaired from *)
(* backup/ (execute_with_memory_limit, _promote_with_backup).              *)
(***************************************************************************)
THEOREM ServedPairsMatch == ArtifactsSpec => []PairedAfterPromotion
<1>1. PairInv => PairedAfterPromotion
  BY DEF PairInv, CopiedInv, PairedAfterPromotion, Valid
<1> QED
  BY <1>1, PairInvariant, PTL

-----------------------------------------------------------------------------
(* The members of a set in their order.                                   *)

LEMMA FiniteMembers ==
  ASSUME NEW b \in Nat, NEW S \in SUBSET (1..b)
  PROVE  IsFiniteSet(S) /\ Cardinality(S) \in Nat
<1>1. IsFiniteSet(1..b)
  BY FS_Interval
<1>2. IsFiniteSet(S)
  BY <1>1, FS_Subset
<1> QED
  BY <1>2, FS_CardinalityType

\* The n-th member of a set of candles has n members up to it, and a later one
\* is greater.
LEMMA NthMember ==
  ASSUME NEW b \in Nat, NEW S \in SUBSET (1..b), NEW n \in 1..Cardinality(S)
  PROVE  /\ NthOf(S, n) \in S
         /\ Cardinality({d \in S : d <= NthOf(S, n)}) = n
<1> DEFINE UpTo(c) == {d \in S : d <= c}
           Ranks == {Cardinality(UpTo(c)) : c \in S}
           N == Cardinality(S)
<1>0. \A y \in S : y \in Nat /\ 1 <= y /\ y <= b
  OBVIOUS
<1>1. IsFiniteSet(S) /\ N \in Nat
  BY FiniteMembers
<1>2. \A c : IsFiniteSet(UpTo(c)) /\ Cardinality(UpTo(c)) \in Nat
  BY <1>1, FS_Subset, FS_CardinalityType
<1>3. N \in Ranks
  <2>1. S # {}
    BY FS_EmptySet
  <2>2. Max(S) \in S /\ \A y \in S : y <= Max(S)
    <3>1. S \in SUBSET (0..b)
      BY <1>0
    <3> QED
      BY <2>1, <3>1, GreatestOfSet
  <2>3. UpTo(Max(S)) = S
    BY <2>2
  <2> QED
    BY <2>2, <2>3
<1>4. ASSUME NEW k \in 2..N, k \in Ranks
      PROVE  k - 1 \in Ranks
  <2>1. PICK c \in S : Cardinality(UpTo(c)) = k
    BY <1>4
  <2>c. c \in Nat
    BY <1>0
  <2> DEFINE T == {d \in S : d < c}
  <2>2. T = UpTo(c) \ {c} /\ c \in UpTo(c)
    <3>1. \A y \in S : y < c <=> y <= c /\ y # c
      BY <1>0, <2>c
    <3>2. c <= c
      BY <2>c
    <3> QED
      BY <3>1, <3>2
  <2>3. IsFiniteSet(T) /\ Cardinality(T) = k - 1
    BY <1>2, <2>1, <2>2, FS_RemoveElement
  <2>4. T # {}
    BY <2>3, FS_EmptySet
  <2>5. Max(T) \in T /\ \A y \in T : y <= Max(T)
    <3>1. \A y \in S : y \in 0..b
      BY <1>0
    <3>2. T \in SUBSET (0..b)
      BY <3>1
    <3> HIDE DEF T
    <3> QED
      BY <2>4, <3>2, GreatestOfSet
  <2>6. UpTo(Max(T)) = T
    <3>1. PICK m \in T : m = Max(T)
      BY <2>5
    <3>2. m \in Nat /\ m < c
      BY <1>0, <2>c, <3>1
    <3>3. \A y \in S : y <= m => y < c
      BY <1>0, <2>c, <3>2
    <3>4. \A y \in S : y < c => y <= m
      BY <2>5, <3>1
    <3> QED
      BY <3>1, <3>3, <3>4
  <2> QED
    BY <2>3, <2>5, <2>6
<1>5. n \in Ranks
  <2> DEFINE Missed == {k \in 0..N : k > 0 /\ k \notin Ranks}
  <2>1. SUFFICES ASSUME n \notin Ranks PROVE FALSE
    OBVIOUS
  <2>2. n \in Missed
    BY <1>1, <2>1
  <2>3. Max(Missed) \in Missed /\ \A y \in Missed : y <= Max(Missed)
    <3>1. Missed \in SUBSET (0..N) /\ Missed # {}
      BY <2>2
    <3> HIDE DEF Missed
    <3> QED
      BY <1>1, <3>1, GreatestOfSet
  <2> DEFINE g == Max(Missed)
  <2> HIDE DEF g, Ranks
  <2>4. g \in 1..N /\ g # N /\ g \notin Ranks
    BY <1>1, <1>3, <2>3 DEF g
  <2>5. g + 1 \in Ranks
    BY <1>1, <2>3, <2>4 DEF g
  <2>6. g + 1 \in 2..N /\ g + 1 - 1 = g
    BY <1>1, <2>4
  <2> QED
    BY <1>4, <2>4, <2>5, <2>6
<1>6. \E c \in S : Cardinality(UpTo(c)) = n
  BY <1>5
<1> QED
  BY <1>6 DEF NthOf

LEMMA NthIncreases ==
  ASSUME NEW b \in Nat, NEW S \in SUBSET (1..b),
         NEW i \in 1..Cardinality(S), NEW j \in 1..Cardinality(S), i < j
  PROVE  NthOf(S, i) < NthOf(S, j)
<1> DEFINE UpTo(c) == {d \in S : d <= c}
<1>0. \A y \in S : y \in Nat
  OBVIOUS
<1>1. NthOf(S, i) \in S /\ NthOf(S, j) \in S
  BY NthMember
<1>2. Cardinality(UpTo(NthOf(S, i))) = i /\ Cardinality(UpTo(NthOf(S, j))) = j
  BY NthMember
<1> DEFINE c == NthOf(S, i)
           d == NthOf(S, j)
<1> HIDE DEF c, d
<1>c. c \in Nat /\ d \in Nat
  BY <1>0, <1>1 DEF c, d
<1>3. SUFFICES ASSUME d <= c PROVE FALSE
  BY <1>c DEF c, d
<1>4. UpTo(d) \subseteq UpTo(c)
  <2>1. \A y \in S : y <= d => y <= c
    BY <1>0, <1>c, <1>3
  <2> QED
    BY <2>1
<1>5. IsFiniteSet(UpTo(c))
  BY FiniteMembers, FS_Subset
<1>6. Cardinality(UpTo(d)) <= Cardinality(UpTo(c))
  <2> HIDE DEF UpTo
  <2> QED
    BY <1>4, <1>5, FS_Subset
<1>7. i \in Int /\ j \in Int
  BY FiniteMembers
<1> QED
  BY <1>2, <1>6, <1>7 DEF c, d

-----------------------------------------------------------------------------
(* The parts of n samples.                                                 *)

LEMMA PartSizes ==
  ASSUME NEW n \in Int
  PROVE  PartSize(n) \in Int /\ PartSize(n) >= MinPart /\ MinPart \in Nat /\ MinPart >= 1
<1>1. MinPart \in Nat /\ MinPart >= 1 /\ n * Share + 50 \in Int
  BY DatasetAssumption
<1>2. (n * Share + 50) \div 100 \in Int
  BY <1>1
<1> QED
  BY <1>1, <1>2, OfTwo DEF PartSize

LEMMA HoldoutBounds ==
  ASSUME NEW n \in Nat, NEW least \in Nat, NEW purge \in Nat, Holdout(n, least, purge).fits
  PROVE  LET split == Holdout(n, least, purge)
         IN  /\ split.end \in Nat /\ split.end >= least
             /\ split.validation = split.end + purge + 1
             /\ split.validation <= n
<1> DEFINE size == Min({PartSize(n), n - least - purge})
<1>0. PartSize(n) \in Int /\ n - least - purge \in Int
  BY PartSizes
<1>1. size \in Int /\ size <= n - least - purge
  BY <1>0, OfTwo
<1>2. size >= 1
  <2>1. size >= MinPart
    BY DEF Holdout
  <2> HIDE DEF size
  <2> QED
    BY <1>1, <2>1, PartSizes
<1> HIDE DEF size
<1>3. Holdout(n, least, purge).end = n - size - purge
      /\ Holdout(n, least, purge).validation = n - size + 1
  BY DEF Holdout, size
<1> QED
  BY <1>1, <1>2, <1>3

LEMMA ThreeWayBounds ==
  ASSUME NEW n \in Int, NEW least \in Nat, NEW purge \in Nat,
         ThreeWay(n, least, purge).fits
  PROVE  LET split == ThreeWay(n, least, purge)
         IN  /\ split.end \in Nat /\ split.end >= least
             /\ split.validation = split.end + purge + 1
             /\ split.validationEnd \in Nat /\ split.validationEnd >= split.validation
             /\ split.test = split.validationEnd + purge + 1
             /\ split.test <= n
<1> DEFINE test == n - PartSize(n) + 1
           valid == test - purge - PartSize(n)
<1>1. PartSize(n) \in Int /\ PartSize(n) >= 1
  BY PartSizes
<1>2. /\ ThreeWay(n, least, purge).end = valid - purge - 1
      /\ ThreeWay(n, least, purge).validation = valid
      /\ ThreeWay(n, least, purge).validationEnd = test - purge - 1
      /\ ThreeWay(n, least, purge).test = test
      /\ ThreeWay(n, least, purge).fits = (valid - purge - 1 >= least)
  BY DEF ThreeWay
<1> QED
  <2>1. PICK p \in Nat : PartSize(n) = p /\ p >= 1
    BY <1>1
  <2>2. test = n - p + 1 /\ valid = n - p + 1 - purge - p
    BY <2>1
  <2> HIDE DEF test, valid
  <2>3. valid - purge - 1 >= least
    BY <1>2
  <2> QED
    BY <1>2, <2>1, <2>2, <2>3

-----------------------------------------------------------------------------
(* The rows of a dataset.                                                  *)

LEMMA EachIsNth ==
  ASSUME NEW b \in Nat, NEW S \in SUBSET (1..b), NEW c \in S
  PROVE  \E k \in 1..Cardinality(S) : NthOf(S, k) = c
<1> DEFINE UpTo(x) == {y \in S : y <= x}
           k == Cardinality(UpTo(c))
<1>0. \A y \in S : y \in Nat
  OBVIOUS
<1>1. IsFiniteSet(S) /\ Cardinality(S) \in Nat
  BY FiniteMembers
<1>2. k \in 1..Cardinality(S)
  <2>1. UpTo(c) \in SUBSET S /\ c \in UpTo(c)
    BY <1>0
  <2>2. IsFiniteSet(UpTo(c)) /\ k <= Cardinality(S)
    BY <1>1, <2>1, FS_Subset
  <2>3. k \in Nat /\ k # 0
    BY <2>1, <2>2, FS_CardinalityType, FS_EmptySet
  <2> QED
    BY <1>1, <2>2, <2>3
<1> HIDE DEF k
<1>3. NthOf(S, k) \in S /\ Cardinality(UpTo(NthOf(S, k))) = k
  BY <1>2, NthMember
<1> DEFINE d == NthOf(S, k)
<1> HIDE DEF d
<1>4. d \in S /\ d \in Nat /\ c \in Nat /\ Cardinality(UpTo(d)) = k /\ Cardinality(UpTo(c)) = k
  BY <1>0, <1>3 DEF d, k
<1>5. ASSUME NEW x \in S, NEW y \in S, x < y, Cardinality(UpTo(x)) = Cardinality(UpTo(y))
      PROVE  FALSE
  <2>1. UpTo(x) \in SUBSET UpTo(y) /\ y \in UpTo(y) /\ y \notin UpTo(x)
    <3>1. \A z \in S : z <= x => z <= y
      BY <1>0, <1>5
    <3>2. y <= y /\ ~(y <= x)
      BY <1>0, <1>5
    <3> QED
      BY <3>1, <3>2
  <2>2. IsFiniteSet(UpTo(y))
    BY <1>1, FS_Subset
  <2> HIDE DEF UpTo
  <2>3. UpTo(x) = UpTo(y)
    BY <1>5, <2>1, <2>2, FS_Subset
  <2> QED
    BY <2>1, <2>3
<1> HIDE DEF UpTo
<1>6. d = c
  BY <1>4, <1>5
<1> QED
  BY <1>2, <1>6 DEF d

(***************************************************************************)
(* The rows are in the order of time, and none rests on a candle after its *)
(* own; a candle without features makes the only gap.                      *)
(***************************************************************************)
Chronological(rows) ==
  /\ rows \in Seq(Row)
  /\ \A i \in 1..Len(rows) : rows[i].knows <= rows[i].candle
  /\ \A i, j \in 1..Len(rows) : i < j => rows[i].candle < rows[j].candle

Gap(rows, i) == rows[i + 1].candle # rows[i].candle + 1

OneGap(rows) ==
  \A i, j \in 1..(Len(rows) - 1) : Gap(rows, i) /\ Gap(rows, j) => i = j

\* How far the features of a row reach: up to its candle or the one before.
Reaches(rows, lag) == \A i \in 1..Len(rows) : rows[i].knows = rows[i].candle - lag

BaseTyped == bar \in Bars /\ base \in 0..bar /\ high \in 0..bar

LEMMA MergedIsPast ==
  ASSUME BaseTyped, NEW c \in Nat
  PROVE  /\ Merged(c) \in 0..c
         /\ \A d \in Nat : c <= d => Merged(c) <= Merged(d)
<1> DEFINE Upto(x) == {h \in HighRows : h <= x}
<1>0. \A h \in HighRows : h \in Nat /\ h >= 1
  BY DEF HighRows, BaseTyped, Bars
<1>1. ASSUME NEW x \in Nat
      PROVE  /\ Upto(x) \in SUBSET (0..x)
             /\ Upto(x) = {} => Merged(x) = 0
             /\ Upto(x) # {} => Merged(x) \in Upto(x) /\ \A y \in Upto(x) : y <= Merged(x)
  <2>1. Upto(x) \in SUBSET (0..x)
    BY <1>0
  <2>2. Merged(x) = IF Upto(x) = {} THEN 0 ELSE Max(Upto(x))
    BY DEF Merged, NewestOf
  <2> HIDE DEF Upto
  <2> QED
    BY <2>1, <2>2, GreatestOfSet
<1>2. \A x \in Nat : Merged(x) \in 0..x
  BY <1>1
<1>3. ASSUME NEW d \in Nat, c <= d
      PROVE  Merged(c) <= Merged(d)
  <2>1. CASE Upto(c) = {}
    BY <1>1, <1>2, <2>1
  <2>2. CASE Upto(c) # {}
    <3>1. Merged(c) \in Upto(c)
      BY <1>1, <2>2
    <3>2. Merged(c) \in Upto(d)
      BY <1>0, <1>3, <3>1
    <3> HIDE DEF Upto
    <3> QED
      BY <1>1, <3>2
  <2> QED
    BY <2>1, <2>2
<1> QED
  BY <1>2, <1>3

LEMMA BuiltRowsFacts ==
  ASSUME BaseTyped, \A g, h \in holes : g = h
  PROVE  /\ Chronological(BuiltRows) /\ OneGap(BuiltRows)
         /\ Reaches(BuiltRows, 1)
<1> DEFINE kept == {c \in FrameRows : c - 1 \in FrameRows /\ CompleteRow(c - 1)
                                      /\ c + LabelHorizon \in FrameRows}
           Known(c) == Max({c - 1, IF Merging THEN Merged(c - 1) ELSE 0})
           N == Cardinality(kept)
           At(i) == NthOf(kept, i)
<1>1. BuiltRows = [i \in 1..N |-> [candle |-> At(i), knows |-> Known(At(i))]]
  BY DEF BuiltRows
<1>2. base \in Nat /\ base <= MaxBars /\ MaxBars \in Nat /\ LabelHorizon \in Nat /\ WarmUp \in Nat
  BY DatasetAssumption DEF BaseTyped, Bars
<1>3. /\ FrameRows \in SUBSET (1..base)
      /\ \A c, d \in FrameRows : \A x \in Nat : c <= x /\ x <= d => x \in FrameRows
  BY <1>2, DatasetAssumption DEF FrameRows
<1>4. kept \in SUBSET (1..base)
  BY <1>3
<1>5. \A c \in kept : /\ c \in Nat /\ c - 1 \in Nat /\ c - 1 \in FrameRows
                      /\ CompleteRow(c - 1) /\ c + LabelHorizon \in FrameRows
  BY <1>3
<1>6. Min(FrameRows) \in Int \/ kept = {}
  <2>0. FrameRows \subseteq Nat
    BY <1>2, <1>3
  <2>1. FrameRows = {} \/ \E x \in FrameRows : \A y \in FrameRows : x <= y
    BY <2>0, LeastOfSet
  <2>2. CASE FrameRows = {}
    BY <2>2
  <2>3. CASE \E x \in FrameRows : \A y \in FrameRows : x <= y
    <3>1. Min(FrameRows) \in FrameRows
      BY <2>3 DEF Min
    <3>2. Min(FrameRows) \in Nat
      BY <2>0, <3>1, Zenon
    <3> QED
      BY <3>2
  <2> QED
    BY <2>1, <2>2, <2>3
<1>7. ASSUME NEW c \in kept, NEW d \in kept, c + 1 < d, c + 1 \notin kept
      PROVE  c \in holes
  <2>1. c \in Nat /\ d \in Nat /\ c - 1 \in Nat
    BY <1>5
  <2>2. c \in FrameRows /\ c + 1 \in FrameRows /\ c + 1 + LabelHorizon \in FrameRows
    <3>1. c - 1 \in FrameRows /\ d \in FrameRows /\ d + LabelHorizon \in FrameRows
      BY <1>5
    <3> QED
      BY <1>2, <1>3, <1>7, <2>1, <3>1
  <2>3. ~CompleteRow(c)
    <3> SUFFICES ASSUME CompleteRow(c) PROVE c + 1 \in kept
      BY <1>7
    <3>1. PICK x \in Nat : x = c + 1 /\ x - 1 = c
      BY <2>1
    <3>2. x \in FrameRows /\ x - 1 \in FrameRows /\ x + LabelHorizon \in FrameRows
      BY <2>2, <3>1
    <3>3. CompleteRow(x - 1)
      BY <3>1, Zenon
    <3>4. x \in kept
      BY <3>2, <3>3, Zenon
    <3> QED
      BY <3>1, <3>4
  <2>4. Min(FrameRows) + WarmUp <= c
    <3>1. c - 1 >= Min(FrameRows) + WarmUp
      BY <1>5 DEF CompleteRow
    <3> QED
      BY <1>2, <1>6, <2>1, <3>1
  <2>5. Merging => Merged(c) > 0
    <3> SUFFICES ASSUME Merging PROVE Merged(c) > 0
      OBVIOUS
    <3>1. Merged(c - 1) > 0
      BY <1>5 DEF CompleteRow
    <3>2. Merged(c - 1) <= Merged(c) /\ Merged(c - 1) \in Nat /\ Merged(c) \in Nat
      BY <2>1, MergedIsPast
    <3> QED
      BY <3>1, <3>2
  <2> QED
    BY <2>3, <2>4, <2>5, <1>2, <1>6, <2>1 DEF CompleteRow
<1>8. ASSUME NEW c \in kept
      PROVE  Known(c) = c - 1
  <2>1. c - 1 \in Nat
    BY <1>5
  <2>2. Merged(c - 1) \in 0..(c - 1)
    BY <2>1, MergedIsPast
  <2> DEFINE m == IF Merging THEN Merged(c - 1) ELSE 0
  <2>3. m \in Int /\ m <= c - 1
    BY <2>1, <2>2
  <2> HIDE DEF m
  <2>4. PICK p \in Nat : p = c - 1
    BY <2>1
  <2>5. Max({p, m}) \in {p, m} /\ Max({p, m}) >= p
    <3>1. m \in Int /\ p \in Int
      BY <2>3
    <3> QED
      BY <3>1, OfTwo, Zenon
  <2>6. Max({p, m}) = p
    BY <2>3, <2>4, <2>5
  <2> QED
    BY <2>4, <2>6 DEF m
<1> HIDE DEF kept, Known
<1>9. N \in Nat
  BY <1>2, <1>4, FiniteMembers
<1>10. \A i \in 1..N : At(i) \in kept
  BY <1>2, <1>4, NthMember
<1>11. \A i, j \in 1..N : i < j => At(i) < At(j)
  BY <1>2, <1>4, NthIncreases
<1> HIDE DEF At, N
<1>12. BuiltRows = [i \in 1..N |-> [candle |-> At(i), knows |-> At(i) - 1]]
  BY <1>1, <1>8, <1>10
<1>13. \A i \in 1..N : At(i) \in Nat /\ At(i) - 1 \in Nat /\ At(i) \in Bars /\ At(i) - 1 \in Bars
  <2>1. \A c \in kept : c \in Nat /\ c - 1 \in Nat /\ c <= MaxBars
    BY <1>2, <1>4, <1>5
  <2>2. \A c \in kept : c \in Bars /\ c - 1 \in Bars
    BY <1>2, <2>1 DEF Bars
  <2> QED
    BY <1>10, <2>1, <2>2
<1>14. BuiltRows \in Seq(Row) /\ Len(BuiltRows) = N
  BY <1>9, <1>12, <1>13 DEF Row
<1>15. \A i \in 1..N : BuiltRows[i].candle = At(i) /\ BuiltRows[i].knows = At(i) - 1
  BY <1>12
<1>16. Chronological(BuiltRows) /\ Reaches(BuiltRows, 1)
  BY <1>11, <1>13, <1>14, <1>15 DEF Chronological, Reaches
<1>17. ASSUME NEW i \in 1..(N - 1), Gap(BuiltRows, i)
       PROVE  At(i) \in holes
  <2>1. i \in 1..N /\ i + 1 \in 1..N /\ i < i + 1
    BY <1>9
  <2>2. At(i) \in kept /\ At(i + 1) \in kept /\ At(i) < At(i + 1) /\ At(i + 1) # At(i) + 1
    BY <1>10, <1>11, <1>15, <1>17, <2>1 DEF Gap
  <2>3. At(i) + 1 \notin kept
    <3> SUFFICES ASSUME At(i) + 1 \in kept PROVE FALSE
      OBVIOUS
    <3>1. PICK k \in 1..N : At(k) = At(i) + 1
      BY <1>2, <1>4, EachIsNth DEF N, At
    <3>2. At(i) < At(k) /\ At(k) < At(i + 1)
      BY <1>13, <2>1, <2>2, <3>1
    <3>3. k # i /\ ~(k < i) /\ k # i + 1 /\ ~(i + 1 < k)
      BY <1>11, <1>13, <2>1, <3>2
    <3> QED
      BY <1>9, <3>3
  <2>4. At(i) + 1 < At(i + 1)
    BY <1>13, <2>1, <2>2
  <2> QED
    BY <1>7, <2>2, <2>3, <2>4
<1>18. ASSUME NEW i \in 1..(N - 1), NEW j \in 1..(N - 1), Gap(BuiltRows, i), Gap(BuiltRows, j)
       PROVE  i = j
  <2>1. At(i) = At(j)
    BY <1>17, <1>18
  <2>2. i \in 1..N /\ j \in 1..N
    BY <1>9
  <2>3. ~(i < j) /\ ~(j < i)
    BY <1>11, <1>13, <2>1, <2>2
  <2> QED
    BY <2>2, <2>3
<1>19. OneGap(BuiltRows)
  BY <1>14, <1>18 DEF OneGap
<1> QED
  BY <1>16, <1>19

LEMMA LiveRowsFacts ==
  ASSUME bar \in Bars, NEW shifted \in BOOLEAN
  PROVE  LET rows == LiveRows(shifted)
         IN  /\ Chronological(rows) /\ OneGap(rows)
             /\ Reaches(rows, IF shifted THEN 1 ELSE 0)
             /\ \A i \in 1..Len(rows) :
                  /\ rows[i].candle = WarmUp + 1 + i
                  /\ rows[i].knows = WarmUp + 1 + i - (IF shifted THEN 1 ELSE 0)
<1> DEFINE last == bar - WarmUp - 1
           lag == IF shifted THEN 1 ELSE 0
           rows == LiveRows(shifted)
<1>1. bar \in Nat /\ bar <= MaxBars /\ WarmUp \in Nat /\ MaxBars \in Nat
  BY DatasetAssumption DEF Bars
<1>2. PICK n \in Nat : 1..last = 1..n /\ (\A i \in 1..n : i <= last)
  <2>1. CASE last \in Nat
    BY <2>1
  <2>2. CASE last \notin Nat
    <3>1. 1..last = 1..0
      BY <1>1, <2>2
    <3>2. \A i \in 1..0 : i <= last
      OBVIOUS
    <3> HIDE DEF last
    <3> QED
      BY <3>1, <3>2
  <2> QED
    BY <2>1, <2>2
<1>3. lag \in 0..1
  OBVIOUS
<1> HIDE DEF lag
<1>4. rows = [i \in 1..n |-> [candle |-> WarmUp + 1 + i, knows |-> WarmUp + 1 + i - lag]]
  BY <1>2 DEF LiveRows, lag
<1>5. \A i \in 1..n : WarmUp + 1 + i \in Bars /\ WarmUp + 1 + i - lag \in Bars
  BY <1>1, <1>2, <1>3 DEF Bars
<1> HIDE DEF rows
<1>6. rows \in Seq(Row) /\ Len(rows) = n
  BY <1>4, <1>5 DEF Row
<1>7. \A i \in 1..n : rows[i].candle = WarmUp + 1 + i /\ rows[i].knows = WarmUp + 1 + i - lag
  BY <1>4
<1>8. Reaches(rows, lag)
  <2>1. ASSUME NEW i \in 1..n
        PROVE  rows[i].knows = rows[i].candle - lag
    <3>1. rows[i].candle = WarmUp + 1 + i /\ rows[i].knows = WarmUp + 1 + i - lag
      BY <1>7
    <3>2. WarmUp + 1 + i - lag = (WarmUp + 1 + i) - lag
      BY <1>1, <1>3
    <3> QED
      BY <3>1, <3>2
  <2> QED
    BY <1>6, <2>1 DEF Reaches
<1>10. \A i \in 1..n : rows[i].knows <= rows[i].candle
  BY <1>1, <1>3, <1>7
<1>11. \A i, j \in 1..n : i < j => rows[i].candle < rows[j].candle
  BY <1>1, <1>7
<1>12. Chronological(rows)
  BY <1>6, <1>10, <1>11 DEF Chronological
<1>9. OneGap(rows)
  BY <1>1, <1>6, <1>7 DEF OneGap, Gap
<1> QED
  BY <1>6, <1>7, <1>8, <1>9, <1>12 DEF rows, lag

LEMMA RowFacts ==
  ASSUME NEW rows, Chronological(rows)
  PROVE  /\ Len(rows) \in Nat
         /\ \A i \in 1..Len(rows) :
              /\ rows[i].candle \in Bars /\ rows[i].knows \in Bars
              /\ rows[i].candle \in Nat /\ rows[i].knows \in Nat
<1>1. rows \in Seq(Row)
  BY DEF Chronological
<1>2. Len(rows) \in Nat /\ \A i \in 1..Len(rows) : rows[i] \in Row
  BY <1>1
<1>3. \A r \in Row : r.candle \in Bars /\ r.knows \in Bars
  BY DEF Row
<1>4. \A x \in Bars : x \in Nat
  BY DEF Bars
<1> QED
  BY <1>2, <1>3, <1>4

\* Where no gap lies the rows are consecutive candles.
LEMMA Stretch ==
  ASSUME NEW rows, Chronological(rows), NEW a \in 1..Len(rows), NEW b \in 1..Len(rows), a <= b,
         \A k \in a..(b - 1) : ~Gap(rows, k)
  PROVE  rows[b].candle = rows[a].candle + (b - a)
<1>1. Len(rows) \in Nat /\ \A k \in 1..Len(rows) : rows[k].candle \in Nat
  BY RowFacts
<1> DEFINE Off == {k \in Nat : a + k <= b /\ rows[a + k].candle # rows[a].candle + k}
<1>2. SUFFICES ASSUME Off # {} PROVE FALSE
  <2>1. b - a \in Nat /\ a + (b - a) = b /\ b <= b
    BY <1>1
  <2> SUFFICES ASSUME rows[b].candle # rows[a].candle + (b - a) PROVE b - a \in Off
    OBVIOUS
  <2> QED
    BY <2>1
<1>3. PICK k \in Off : \A m \in Off : k <= m
  <2>1. Off \subseteq Nat
    OBVIOUS
  <2> HIDE DEF Off
  <2> QED
    BY <1>2, <2>1, LeastOfSet
<1>4. k \in Nat /\ a + k <= b /\ rows[a + k].candle # rows[a].candle + k
  BY <1>3
<1>5. k # 0
  <2>1. a + 0 = a /\ rows[a].candle + 0 = rows[a].candle
    BY <1>1
  <2> QED
    BY <1>4, <2>1
<1>6. k - 1 \in Nat /\ a + (k - 1) <= b /\ k - 1 \notin Off
  BY <1>1, <1>3, <1>4, <1>5
<1>7. rows[a + (k - 1)].candle = rows[a].candle + (k - 1)
  BY <1>6
<1>8. a + (k - 1) \in a..(b - 1) /\ a + (k - 1) + 1 = a + k
  BY <1>1, <1>4, <1>5
<1>9. rows[a + k].candle = rows[a + (k - 1)].candle + 1
  BY <1>8 DEF Gap
<1> QED
  BY <1>1, <1>4, <1>7, <1>9

\* The parts of a fitted model follow one another, its candles and the distances it
\* has learnt are what they can be.
Fitted(model) ==
  /\ \A i, j \in DOMAIN model.parts : i < j => model.parts[i].upto < model.parts[j].from
  /\ Range(model.parts) \subseteq Part
  /\ model.leads \subseteq Nat

LEMMA PurgeCovers ==
  ASSUME NEW reach \in Nat
  PROVE  Purge(reach) \in Nat /\ Purge(reach) >= reach
<1>1. PurgeBars \in Nat
  BY DatasetAssumption
<1> QED
  BY <1>1, OfTwo DEF Purge

LEMMA LstmFits ==
  ASSUME Chronological(dataset.rows), OneGap(dataset.rows),
         NEW lag \in 0..1, Reaches(dataset.rows, lag),
         Holdout(Len(dataset.rows), LookBack + 2, Purge(LookBack)).fits
  PROVE  LET model == LstmFitted(Holdout(Len(dataset.rows), LookBack + 2, Purge(LookBack)))
         IN  Fitted(model) /\ 1 + lag \in model.leads
<1> DEFINE n == Len(dataset.rows)
           split == Holdout(n, LookBack + 2, Purge(LookBack))
           C(i) == CandleOf(i)
           Seen == {CandleOf(i) : i \in 1..split.end} \cup {KnownTo(i) : i \in 1..split.end}
<1>1. LookBack \in Nat /\ LookBack >= 1
  BY DatasetAssumption
<1>2. n \in Nat
  BY RowFacts
<1>3. \A i \in 1..n : /\ C(i) \in Bars /\ KnownTo(i) \in Bars /\ KnownTo(i) = C(i) - lag
                      /\ KnownTo(i) <= C(i)
  BY RowFacts DEF Chronological, Reaches, CandleOf, KnownTo
<1>4. \A i, j \in 1..n : i < j => C(i) < C(j)
  BY DEF Chronological, CandleOf
<1>5. \A i, j \in 1..(n - 1) : C(i + 1) # C(i) + 1 /\ C(j + 1) # C(j) + 1 => i = j
  BY DEF OneGap, Gap, CandleOf
<1>6. Purge(LookBack) \in Nat /\ Purge(LookBack) >= LookBack
  BY <1>1, PurgeCovers
<1>7. /\ split.end \in Nat /\ split.end >= LookBack + 2
      /\ split.validation = split.end + Purge(LookBack) + 1
      /\ split.validation <= n
  BY <1>1, <1>2, <1>6, HoldoutBounds
<1> DEFINE e == split.end
           v == split.validation - LookBack
<1>8. e \in Nat /\ LookBack + 2 <= e /\ v \in 1..n /\ e < v /\ e <= n
  BY <1>1, <1>2, <1>6, <1>7
<1>9. NewestOf(Seen) \in Bars /\ NewestOf(Seen) < C(v)
  <2>0. MaxBars \in Nat /\ \A x \in Bars : x \in Nat
    BY DatasetAssumption DEF Bars
  <2>1. \A i \in 1..e : i \in 1..n /\ i < v
    BY <1>8
  <2>2. \A i \in 1..e : C(i) \in Bars /\ KnownTo(i) \in Bars /\ C(i) < C(v) /\ KnownTo(i) < C(v)
    BY <1>3, <1>4, <1>8, <2>0, <2>1
  <2>3. Seen \in SUBSET Bars /\ \A x \in Seen : x < C(v)
    BY <2>2
  <2>4. C(1) \in Seen
    BY <1>1, <1>8
  <2> HIDE DEF Seen, e, v, split
  <2>5. Max(Seen) \in Seen
    BY <2>0, <2>3, <2>4, GreatestOfSet DEF Bars
  <2> QED
    BY <2>3, <2>4, <2>5 DEF NewestOf
<1> DEFINE model == LstmFitted(split)
<1>10. /\ model.parts = << [from |-> C(1), upto |-> NewestOf(Seen)],
                           [from |-> C(v), upto |-> C(n)] >>
       /\ model.leads = {C(i) - KnownTo(i - 1) : i \in (LookBack + 1)..e}
  BY DEF LstmFitted
<1>11. C(1) \in Bars /\ C(v) \in Bars /\ C(n) \in Bars
  BY <1>1, <1>2, <1>3, <1>8
<1> HIDE DEF model, Seen, C, v, e, split, n
<1>12. \A i, j \in DOMAIN model.parts : i < j => model.parts[i].upto < model.parts[j].from
  BY <1>9, <1>10
<1>13. Range(model.parts) \subseteq Part
  BY <1>9, <1>10, <1>11 DEF Range, Part
<1>14. \A i \in (LookBack + 1)..e :
          i \in 1..n /\ i - 1 \in 1..n /\ i - 1 < i /\ i - 1 \in 1..(n - 1)
  BY <1>1, <1>2, <1>8
<1>15. \A i \in (LookBack + 1)..e : C(i) - KnownTo(i - 1) \in Nat
  BY <1>3, <1>4, <1>14 DEF Bars
<1>16. \E k \in 1..(n - 1) : k + 1 \in (LookBack + 1)..e /\ C(k + 1) = C(k) + 1
  <2>1. LookBack + 1 \in (LookBack + 1)..e /\ LookBack + 1 + 1 \in (LookBack + 1)..e
    BY <1>1, <1>8
  <2>2. LookBack \in 1..(n - 1) /\ LookBack + 1 \in 1..(n - 1) /\ LookBack # LookBack + 1
    BY <1>1, <1>2, <1>8
  <2>3. C(LookBack + 1) = C(LookBack) + 1 \/ C(LookBack + 1 + 1) = C(LookBack + 1) + 1
    BY <1>5, <2>2
  <2> QED
    BY <2>1, <2>2, <2>3
<1>17. 1 + lag \in model.leads
  <2>1. PICK k \in 1..(n - 1) : k + 1 \in (LookBack + 1)..e /\ C(k + 1) = C(k) + 1
    BY <1>16
  <2>2. PICK i \in (LookBack + 1)..e : i = k + 1 /\ i - 1 = k /\ k \in 1..n
    BY <1>2, <2>1
  <2>3. C(k) \in Int /\ KnownTo(k) = C(k) - lag /\ lag \in Int
    BY <1>3, <2>2 DEF Bars
  <2>4. C(i) - KnownTo(i - 1) = 1 + lag
    BY <2>1, <2>2, <2>3
  <2> QED
    BY <1>10, <2>4
<1> QED
  BY <1>10, <1>12, <1>13, <1>15, <1>17 DEF Fitted, model, split, n

LEMMA BrainFits ==
  ASSUME Chronological(dataset.rows), OneGap(dataset.rows),
         ThreeWay(Len(dataset.rows) - BrainHorizon, MinFitted, Purge(BrainHorizon)).fits
  PROVE  LET model == BrainFitted(ThreeWay(Len(dataset.rows) - BrainHorizon, MinFitted,
                                           Purge(BrainHorizon)))
         IN  Fitted(model) /\ BrainHorizon + 1 \in model.leads
<1> DEFINE n == Len(dataset.rows)
           H == BrainHorizon
           split == ThreeWay(n - H, MinFitted, Purge(H))
           C(i) == CandleOf(i)
           e == split.end
           v == split.validation
           w == split.validationEnd
           t == split.test
           model == BrainFitted(split)
<1>1. H \in Nat /\ H >= 1 /\ MinFitted \in Nat /\ MinFitted >= H + 3
  BY DatasetAssumption
<1>2. n \in Nat /\ n - H \in Int
  BY RowFacts, <1>1
<1>3. \A i \in 1..n : C(i) \in Bars /\ C(i) \in Nat
  BY RowFacts DEF CandleOf
<1>4. \A i, j \in 1..n : i < j => C(i) < C(j)
  BY DEF Chronological, CandleOf
<1>5. Purge(H) \in Nat /\ Purge(H) >= H
  BY <1>1, PurgeCovers
<1>6. /\ e \in Nat /\ e >= MinFitted /\ v = e + Purge(H) + 1 /\ w \in Nat /\ w >= v
      /\ t = w + Purge(H) + 1 /\ t <= n - H
  <2> HIDE DEF H, n
  <2> QED
    BY <1>1, <1>2, <1>5, ThreeWayBounds DEF H, n
<1>7. /\ model.parts = << [from |-> C(1), upto |-> C(e + H)], [from |-> C(v), upto |-> C(w + H)],
                          [from |-> C(t), upto |-> C(n)] >>
      /\ model.leads = {C(i + H) - C(i - 1) : i \in 2..e}
  BY DEF BrainFitted
<1> HIDE DEF n, H, split, e, v, w, t, model
<1>8. /\ 1 \in 1..n /\ e + H \in 1..n /\ v \in 1..n /\ w + H \in 1..n /\ t \in 1..n /\ n \in 1..n
      /\ e + H < v /\ v <= w + H /\ w + H < t
  BY <1>1, <1>2, <1>5, <1>6
<1>9. C(e + H) < C(v) /\ C(w + H) < C(t) /\ C(e + H) < C(t)
  <2>1. e + H < t
    BY <1>1, <1>2, <1>6, <1>8
  <2> QED
    BY <1>4, <1>8, <2>1
<1>10. \A i, j \in DOMAIN model.parts : i < j => model.parts[i].upto < model.parts[j].from
  BY <1>7, <1>9
<1>11. Range(model.parts) \subseteq Part
  <2>1. {[from |-> C(1), upto |-> C(e + H)], [from |-> C(v), upto |-> C(w + H)],
         [from |-> C(t), upto |-> C(n)]} \subseteq Part
    BY <1>3, <1>8 DEF Part
  <2> QED
    BY <1>7, <2>1 DEF Range
<1>12. \A i \in 2..e : i + H \in 1..n /\ i - 1 \in 1..n /\ i - 1 < i + H
  BY <1>1, <1>2, <1>6, <1>8
<1>13. model.leads \subseteq Nat
  <2>1. \A i \in 2..e : C(i + H) - C(i - 1) \in Nat
    <3> SUFFICES ASSUME NEW i \in 2..e PROVE C(i + H) - C(i - 1) \in Nat
      OBVIOUS
    <3>1. C(i + H) \in Nat /\ C(i - 1) \in Nat /\ C(i - 1) < C(i + H)
      BY <1>3, <1>4, <1>12
    <3> QED
      BY <3>1
  <2> QED
    BY <1>7, <2>1
<1>14. \E i \in 2..e : \A k \in (i - 1)..(i + H - 1) : ~Gap(dataset.rows, k)
  <2>1. 2 \in 2..e /\ H + 3 \in 2..e
    BY <1>1, <1>6
  <2>2. CASE \A k \in (2 - 1)..(2 + H - 1) : ~Gap(dataset.rows, k)
    BY <2>1, <2>2
  <2>3. CASE \E k \in 1..(H + 1) : Gap(dataset.rows, k)
    <3>1. PICK g \in 1..(H + 1) : Gap(dataset.rows, g)
      BY <2>3
    <3>2. g \in 1..(n - 1)
      BY <1>1, <1>2, <1>6, <1>8
    <3>3. \A k \in (H + 2)..(H + 3 + H - 1) : k \in 1..(n - 1) /\ k # g
      BY <1>1, <1>2, <1>6, <1>8
    <3>4. \A k \in (H + 2)..(H + 3 + H - 1) : ~Gap(dataset.rows, k)
      BY <3>1, <3>2, <3>3 DEF OneGap, n
    <3>5. (H + 3) - 1 = H + 2
      BY <1>1
    <3> QED
      BY <2>1, <3>4, <3>5
  <2>4. 2 - 1 = 1 /\ 2 + H - 1 = H + 1
    BY <1>1
  <2> QED
    BY <2>2, <2>3, <2>4
<1>15. H + 1 \in model.leads
  <2>1. PICK i \in 2..e : \A k \in (i - 1)..(i + H - 1) : ~Gap(dataset.rows, k)
    BY <1>14
  <2>2. i + H \in 1..n /\ i - 1 \in 1..n /\ i - 1 <= i + H /\ i \in Nat
    BY <1>1, <1>6, <1>12
  <2>3. C(i + H) = C(i - 1) + (i + H - (i - 1))
    <3>1. PICK a \in 1..n, b \in 1..n : a = i - 1 /\ b = i + H
      BY <2>2
    <3>2. a <= b
      BY <1>1, <2>2, <3>1
    <3>3. b - 1 = i + H - 1 /\ b - a = i + H - (i - 1)
      BY <1>1, <2>2, <3>1
    <3>4. \A k \in a..(b - 1) : ~Gap(dataset.rows, k)
      BY <2>1, <3>1, <3>3
    <3>5. dataset.rows[b].candle = dataset.rows[a].candle + (b - a)
      BY <3>2, <3>4, Stretch DEF n
    <3> QED
      BY <3>1, <3>3, <3>5 DEF C, CandleOf
  <2>4. C(i - 1) \in Nat
    BY <1>3, <2>2
  <2>5. C(i + H) - C(i - 1) = H + 1
    BY <1>1, <2>2, <2>3, <2>4
  <2> QED
    BY <1>7, <2>5
<1> QED
  BY <1>10, <1>11, <1>13, <1>15 DEF Fitted, model, split, n, H

-----------------------------------------------------------------------------
(* The datasets and the models over time.                                  *)

DatasetSpec == DatasetInit /\ [][DatasetNext]_datasetVars

(***************************************************************************)
(* The rows of the dataset, whichever way it was built, and the distance   *)
(* between what a model has seen and its target, as it will be asked for.  *)
(***************************************************************************)
RowsInv ==
  /\ Chronological(dataset.rows) /\ OneGap(dataset.rows)
  /\ dataset.rows # <<>> =>
       \/ dataset.columns = {"base", "raw"} /\ Reaches(dataset.rows, 0)
       \/ dataset.columns \in {{"base"}, {"base", "high"}} /\ Reaches(dataset.rows, 1)

LeadsInv ==
  /\ lstm.parts # <<>> /\ "raw" \in lstm.columns => 1 \in lstm.leads
  /\ lstm.parts # <<>> /\ "raw" \notin lstm.columns => 2 \in lstm.leads
  /\ brain.parts # <<>> => BrainHorizon + 1 \in brain.leads
  /\ lstm.parts = <<>> => lstm = NoModel
  /\ brain.parts = <<>> => brain = NoModel

HolesInv == holes \subseteq 1..MaxBars /\ \A g, h \in holes : g = h

ModelsInv == Fitted(lstm) /\ Fitted(brain) /\ lstm.columns \subseteq Columns
             /\ brain.columns \subseteq Columns

RestTyped ==
  /\ BaseTyped
  /\ config \in [multi : BOOLEAN, versioned : BOOLEAN]
  /\ stage \in {"idle", "base", "stored", "built", "fitted"}
  /\ dataset.columns \subseteq Columns
  /\ forecast.newest \in 0..bar

DatasetInv == RestTyped /\ HolesInv /\ RowsInv /\ ModelsInv /\ LeadsInv

LEMMA NoDatasetFacts ==
  /\ Chronological(NoDataset.rows) /\ OneGap(NoDataset.rows)
  /\ NoDataset.rows = <<>> /\ NoDataset.columns = {}
<1>1. NoDataset.rows = <<>> /\ NoDataset.columns = {} /\ Len(<<>>) = 0 /\ <<>> \in Seq(Row)
  BY DEF NoDataset
<1> QED
  BY <1>1 DEF Chronological, OneGap

LEMMA NoModelFacts == Fitted(NoModel) /\ NoModel.parts = <<>> /\ NoModel.columns = {}
BY DEF NoModel, Fitted, Range

LEMMA DatasetInits == DatasetInit => DatasetInv
<1> SUFFICES ASSUME DatasetInit PROVE DatasetInv
  OBVIOUS
<1>1. MaxBars \in Nat /\ MaxBars >= 2
  BY DatasetAssumption
<1>2. HolesInv
  BY <1>1 DEF DatasetInit, HolesInv
<1>3. RowsInv /\ ModelsInv /\ LeadsInv
  BY NoDatasetFacts, NoModelFacts DEF DatasetInit, RowsInv, ModelsInv, LeadsInv
<1>4. RestTyped
  BY <1>1, NoDatasetFacts DEF DatasetInit, RestTyped, BaseTyped, Bars, NoForecast
<1> QED
  BY <1>2, <1>3, <1>4 DEF DatasetInv

\* The newest higher candle that has closed.
LEMMA HighCloses ==
  ASSUME NEW b \in Nat
  PROVE  (b \div Ratio) * Ratio \in 0..b
<1>1. Ratio \in Nat /\ Ratio >= 1
  BY DatasetAssumption
<1>2. b \div Ratio \in Int /\ b \div Ratio >= 0
  BY <1>1
<1>3. (b \div Ratio) * Ratio <= b
  BY <1>1
<1>4. \A q \in Nat : q * Ratio \in Nat
  BY <1>1
<1> QED
  BY <1>2, <1>3, <1>4

LEMMA RestStep ==
  ASSUME DatasetInv, [DatasetNext]_datasetVars
  PROVE  RestTyped'
<1> USE DEF DatasetInv, RestTyped, BaseTyped, Bars
<1>0. bar \in Nat /\ MaxBars \in Nat
  BY DatasetAssumption
<1>1. CASE BarCloses
  BY <1>0, <1>1 DEF BarCloses
<1>2. CASE UpdateBase
  BY <1>0, <1>2 DEF UpdateBase
<1>3. CASE UpdateHigh
  BY <1>0, <1>3, HighCloses DEF UpdateHigh
<1>4. CASE Build
  BY <1>4 DEF Build, Columns
<1>5. CASE BuildLegacy
  BY <1>5 DEF BuildLegacy, Columns
<1>6. CASE DropDataset
  BY <1>6, NoDatasetFacts DEF DropDataset
<1>7. CASE TrainLstm
  BY <1>7 DEF TrainLstm
<1>8. CASE TrainBrain
  BY <1>8, NoDatasetFacts DEF TrainBrain
<1>9. CASE Forecast
  BY <1>0, <1>9 DEF Forecast
<1>10. CASE UNCHANGED datasetVars
  BY <1>10 DEF datasetVars
<1> QED
  BY <1>1, <1>2, <1>3, <1>4, <1>5, <1>6, <1>7, <1>8, <1>9, <1>10 DEF DatasetNext

LEMMA HolesStep == HolesInv /\ [DatasetNext]_datasetVars => HolesInv'
BY DEF HolesInv, DatasetNext, BarCloses, UpdateBase, UpdateHigh, Build, BuildLegacy, DropDataset,
       TrainLstm, TrainBrain, Forecast, datasetVars

LEMMA RowsStep ==
  ASSUME DatasetInv, [DatasetNext]_datasetVars
  PROVE  RowsInv'
<1>1. CASE Build
  <2>1. /\ Chronological(BuiltRows) /\ OneGap(BuiltRows) /\ Reaches(BuiltRows, 1)
    BY BuiltRowsFacts DEF DatasetInv, RestTyped, HolesInv
  <2>2. dataset'.rows = BuiltRows /\ dataset'.columns \in {{"base"}, {"base", "high"}}
    BY <1>1 DEF Build
  <2> QED
    BY <2>1, <2>2 DEF RowsInv
<1>2. CASE BuildLegacy
  <2>1. Chronological(LiveRows(FALSE)) /\ OneGap(LiveRows(FALSE)) /\ Reaches(LiveRows(FALSE), 0)
    BY LiveRowsFacts DEF DatasetInv, RestTyped, BaseTyped
  <2>2. dataset'.rows = LiveRows(FALSE) /\ dataset'.columns = {"base", "raw"}
    BY <1>2 DEF BuildLegacy
  <2> QED
    BY <2>1, <2>2 DEF RowsInv
<1>3. CASE DropDataset \/ TrainBrain
  <2>1. dataset' = NoDataset
    BY <1>3 DEF DropDataset, TrainBrain
  <2> QED
    BY <2>1, NoDatasetFacts DEF RowsInv
<1>4. CASE UNCHANGED dataset
  BY <1>4 DEF DatasetInv, RowsInv
<1> QED
  BY <1>1, <1>2, <1>3, <1>4
  DEF DatasetNext, BarCloses, UpdateBase, UpdateHigh, TrainLstm, Forecast, datasetVars

LEMMA ModelsStep ==
  ASSUME DatasetInv, [DatasetNext]_datasetVars
  PROVE  ModelsInv' /\ LeadsInv'
<1>1. CASE TrainLstm
  <2> DEFINE model == LstmFitted(Holdout(Len(dataset.rows), LookBack + 2, Purge(LookBack)))
  <2>1. lstm' = model /\ brain' = brain /\ Len(dataset.rows) > LookBack
        /\ Holdout(Len(dataset.rows), LookBack + 2, Purge(LookBack)).fits
    BY <1>1 DEF TrainLstm
  <2>2. Chronological(dataset.rows) /\ OneGap(dataset.rows) /\ dataset.rows # <<>>
    BY <2>1, DatasetAssumption DEF DatasetInv, RowsInv
  <2>3. model.columns = dataset.columns /\ model.parts # <<>>
    BY DEF LstmFitted
  <2> HIDE DEF model
  <2>4. CASE dataset.columns = {"base", "raw"} /\ Reaches(dataset.rows, 0)
    <3>1. Fitted(model) /\ 1 + 0 \in model.leads
      BY <2>1, <2>2, <2>4, LstmFits DEF model
    <3> QED
      BY <2>1, <2>3, <2>4, <3>1 DEF DatasetInv, ModelsInv, LeadsInv, Columns
  <2>5. CASE dataset.columns \in {{"base"}, {"base", "high"}} /\ Reaches(dataset.rows, 1)
    <3>1. Fitted(model) /\ 1 + 1 \in model.leads
      BY <2>1, <2>2, <2>5, LstmFits DEF model
    <3> QED
      BY <2>1, <2>3, <2>5, <3>1 DEF DatasetInv, ModelsInv, LeadsInv, Columns
  <2> QED
    BY <2>2, <2>4, <2>5 DEF DatasetInv, RowsInv
<1>2. CASE TrainBrain
  <2> DEFINE split == ThreeWay(Len(dataset.rows) - BrainHorizon, MinFitted, Purge(BrainHorizon))
  <2>1. lstm' = lstm /\ brain' = IF split.fits THEN BrainFitted(split) ELSE brain
    BY <1>2 DEF TrainBrain
  <2>2. CASE split.fits
    <3>1. Chronological(dataset.rows) /\ OneGap(dataset.rows)
      BY DEF DatasetInv, RowsInv
    <3>3. Fitted(BrainFitted(split)) /\ BrainHorizon + 1 \in BrainFitted(split).leads
      BY <2>2, <3>1, BrainFits
    <3>4. BrainFitted(split).columns = {"base"} /\ BrainFitted(split).parts # <<>>
      BY DEF BrainFitted
    <3> HIDE DEF split
    <3> QED
      BY <2>1, <2>2, <3>3, <3>4 DEF DatasetInv, ModelsInv, LeadsInv, Columns
  <2>3. CASE ~split.fits
    BY <2>1, <2>3 DEF DatasetInv, ModelsInv, LeadsInv
  <2> QED
    BY <2>2, <2>3
<1>3. CASE UNCHANGED <<lstm, brain>>
  BY <1>3 DEF DatasetInv, ModelsInv, LeadsInv
<1> QED
  BY <1>1, <1>2, <1>3
  DEF DatasetNext, BarCloses, UpdateBase, UpdateHigh, Build, BuildLegacy, DropDataset, Forecast,
      datasetVars

LEMMA DatasetStep == DatasetInv /\ [DatasetNext]_datasetVars => DatasetInv'
<1> SUFFICES ASSUME DatasetInv, [DatasetNext]_datasetVars PROVE DatasetInv'
  OBVIOUS
<1> QED
  BY RestStep, HolesStep, RowsStep, ModelsStep DEF DatasetInv

LEMMA DatasetInvariant == DatasetSpec => []DatasetInv
BY DatasetInits, DatasetStep, PTL DEF DatasetSpec

(***************************************************************************)
(* The store, the datasets and the models keep to what they can be.        *)
(***************************************************************************)
THEOREM DatasetTypes == DatasetSpec => []DatasetTypeOK
<1>1. ASSUME DatasetInv PROVE DatasetTypeOK
  <2>1. Range(dataset.rows) \subseteq Row
    <3>1. dataset.rows \in Seq(Row)
      BY <1>1 DEF DatasetInv, RowsInv, Chronological
    <3> QED
      BY <3>1 DEF Range
  <2> QED
    BY <1>1, <2>1 DEF DatasetInv, RestTyped, BaseTyped, ModelsInv, Fitted, HolesInv, DatasetTypeOK
<1> QED
  BY <1>1, DatasetInvariant, PTL

(***************************************************************************)
(* For any timeframes, horizons, windows, shares and purges: no candle a   *)
(* part rests on is one that a later part is judged on.                    *)
(***************************************************************************)
THEOREM HoldoutsUnseen == DatasetSpec => []HoldoutUnseen
<1>1. DatasetInv => HoldoutUnseen
  BY DEF DatasetInv, ModelsInv, Fitted, HoldoutUnseen
<1> QED
  BY <1>1, DatasetInvariant, PTL

(***************************************************************************)
(* With a single incomplete candle at most, each model is asked for a      *)
(* candle as far ahead as it was taught.                                   *)
(***************************************************************************)
THEOREM ServedAsTaught == DatasetSpec => ServedAsTrained
<1>1. ASSUME DatasetInv, [DatasetNext]_datasetVars, forecast' # forecast
      PROVE  /\ forecast'.lstm.target - forecast'.lstm.knows \in lstm.leads
             /\ forecast'.brain # NoForecast.brain =>
                   forecast'.brain.target - forecast'.brain.knows \in brain.leads
  <2>1. Forecast
    BY <1>1 DEF DatasetNext, BarCloses, UpdateBase, UpdateHigh, Build, BuildLegacy, DropDataset,
                TrainLstm, TrainBrain, datasetVars
  <2> DEFINE shifted == "raw" \notin lstm.columns
             last == Len(Served)
  <2>2. lstm # NoModel /\ last > LookBack
        /\ forecast'.lstm = [knows |-> Served[last - 1].knows, target |-> Served[last].candle]
        /\ forecast'.brain = IF brain = NoModel THEN NoForecast.brain
                             ELSE [knows |-> bar - 1, target |-> bar + BrainHorizon]
    BY <2>1 DEF Forecast
  <2>3. /\ Chronological(Served)
        /\ \A i \in 1..last :
             /\ Served[i].candle = WarmUp + 1 + i
             /\ Served[i].knows = WarmUp + 1 + i - (IF shifted THEN 1 ELSE 0)
    <3>1. bar \in Bars /\ shifted \in BOOLEAN /\ Served = LiveRows(shifted)
      BY <1>1 DEF DatasetInv, RestTyped, BaseTyped, Served
    <3> HIDE DEF shifted
    <3> QED
      BY <3>1, LiveRowsFacts
  <2>4. last \in Nat /\ last - 1 \in 1..last /\ last \in 1..last
    BY <2>2, <2>3, RowFacts, DatasetAssumption
  <2>5. /\ Served[last].candle = WarmUp + 1 + last
        /\ Served[last - 1].knows = WarmUp + 1 + (last - 1) - (IF shifted THEN 1 ELSE 0)
    BY <2>3, <2>4
  <2> HIDE DEF last, shifted
  <2>6. WarmUp \in Nat /\ BrainHorizon \in Nat /\ bar \in Nat
    BY <1>1, DatasetAssumption DEF DatasetInv, RestTyped, BaseTyped, Bars
  <2>7. forecast'.lstm.target - forecast'.lstm.knows = IF shifted THEN 2 ELSE 1
    BY <2>2, <2>4, <2>5, <2>6
  <2>8. (IF shifted THEN 2 ELSE 1) \in lstm.leads
    BY <1>1, <2>2 DEF DatasetInv, LeadsInv, shifted
  <2>9. ASSUME forecast'.brain # NoForecast.brain
        PROVE  forecast'.brain.target - forecast'.brain.knows \in brain.leads
    <3>1. brain # NoModel /\ forecast'.brain = [knows |-> bar - 1, target |-> bar + BrainHorizon]
      BY <2>2, <2>9
    <3>2. forecast'.brain.target - forecast'.brain.knows = BrainHorizon + 1
      BY <2>6, <3>1
    <3> QED
      BY <1>1, <3>1, <3>2 DEF DatasetInv, LeadsInv
  <2> QED
    BY <2>7, <2>8, <2>9
<1>2. DatasetInv /\ [DatasetNext]_datasetVars =>
        [forecast' # forecast =>
           /\ forecast'.lstm.target - forecast'.lstm.knows \in lstm.leads
           /\ forecast'.brain # NoForecast.brain =>
                 forecast'.brain.target - forecast'.brain.knows \in brain.leads]_datasetVars
  BY <1>1
<1> QED
  BY <1>2, DatasetInvariant, PTL DEF DatasetSpec, ServedAsTrained
=============================================================================
