---------------------------- MODULE ResearchProofs ----------------------------
(***************************************************************************)
(* Theorems about research: the rebuild of the profitability model, its    *)
(* panels, folds and backtests, and the workers that are authorized by     *)
(* what it leaves on disk (ProfitabilityResearch, EventBacktest), for any  *)
(* horizons, panels, versions and number of runs, each of which may raise  *)
(* or die at any step; and the research on events (ResearchJobs), for any  *)
(* number of jobs, events, sources and workers.                            *)
(***************************************************************************)
EXTENDS ProfitabilityResearch, ResearchJobs, FiniteSetTheorems, WellFoundedInduction, TLAPS

\* The steps of a run that put nothing on disk; the loading and the backtests
\* belong to them.
Silent == \/ Start \/ Load \/ Split \/ NextHorizon \/ Fold \/ Backtest \/ FoldDone
          \/ LockboxDone \/ Raises \/ Crash

LEMMA SilentLeavesDisk ==
  ASSUME Silent
  PROVE  UNCHANGED diskVars /\ UNCHANGED workerVars
<1>1. CASE Start \/ Load \/ Split
  BY <1>1 DEF Start, Load, Split
<1>2. CASE NextHorizon
  BY <1>2 DEF NextHorizon
<1>3. CASE Fold
  BY <1>3 DEF Fold
<1>4. CASE Backtest
  BY <1>4 DEF Backtest
<1>5. CASE FoldDone \/ LockboxDone \/ Raises \/ Crash
  BY <1>5 DEF FoldDone, LockboxDone, Raises, Crash
<1> QED  BY <1>1, <1>2, <1>3, <1>4, <1>5 DEF Silent

\* A step is silent, writes to the disk, is one of a worker, or changes neither
\* the disk nor the worker.
LEMMA StepsOfResearch ==
  ASSUME [ResearchNext]_researchVars
  PROVE  \/ Silent \/ Claim \/ Archive \/ WriteReport \/ WriteEvidence \/ WriteNoEvidence
         \/ AppendTrial \/ RecordFailure
         \/ Worker \/ Candle \/ CheckOut \/ UNCHANGED researchVars
BY DEF ResearchNext, Run, Silent

-----------------------------------------------------------------------------
\* A manifest that was put away does not come back, and a worker that started
\* after that has left the way to an authorization already at the report.
PutAway == /\ revoked => manifest = "none"
           /\ late => worker \notin {"report", "manifest", "authorized"}

LEMMA PutAwayStep == PutAway /\ [ResearchNext]_researchVars => PutAway'
<1> SUFFICES ASSUME PutAway, [ResearchNext]_researchVars
             PROVE  PutAway'
  OBVIOUS
<1>1. CASE UNCHANGED <<manifest, revoked>> /\ UNCHANGED workerVars
  BY <1>1 DEF PutAway, workerVars
<1>2. CASE Silent
  BY <1>1, <1>2, SilentLeavesDisk DEF diskVars
<1>3. CASE Archive
  BY <1>3 DEF Archive, Archived, PutAway, workerVars
<1>4. CASE Claim \/ WriteReport \/ WriteEvidence \/ WriteNoEvidence \/ AppendTrial \/ RecordFailure
  BY <1>1, <1>4 DEF Claim, WriteReport, WriteEvidence, WriteNoEvidence, AppendTrial, RecordFailure
<1>5. CASE Worker
  <2>1. CASE ReadReport
    BY <2>1 DEF ReadReport, Others, diskVars, PutAway
  <2>2. CASE ReadManifest \/ KeepManifest \/ Restart
    BY <2>2 DEF ReadManifest, KeepManifest, Restart, Others, diskVars, PutAway
  <2> QED  BY <1>5, <2>1, <2>2 DEF Worker
<1>6. CASE Candle \/ CheckOut \/ UNCHANGED researchVars
  BY <1>1, <1>6 DEF Candle, CheckOut, Others, diskVars, researchVars
<1> QED  BY <1>2, <1>3, <1>4, <1>5, <1>6, StepsOfResearch

\* A worker that starts after a failed run is never authorized
\* (_archive_candidate_manifest, verify_candidate_authorization).
THEOREM LateWorkersAreShadows == ResearchSpec => []LateWorkerIsShadow
<1>1. ResearchInit => PutAway
  BY DEF ResearchInit, PutAway
<1>2. PutAway => LateWorkerIsShadow
  BY DEF PutAway, LateWorkerIsShadow
<1> QED  BY <1>1, <1>2, PutAwayStep, PTL DEF ResearchSpec

-----------------------------------------------------------------------------
\* From the claim to the report of the evidence a run knows its lockbox as its
\* own: neither the version nor the candles it has loaded change under it.
Owned == [trial |-> commit, lockbox |-> Fingerprint] \in claims

Claimed ==
    /\ \A claim \in claims : claim = [trial |-> claim.trial, lockbox |-> claim.lockbox]
    /\ pc \in {"lockbox", "archive", "report", "evidence"} => Owned
    /\ ResultsWereClaimed

LEMMA ClaimedStep == Claimed /\ [ResearchNext]_researchVars => Claimed'
<1> SUFFICES ASSUME Claimed, [ResearchNext]_researchVars
             PROVE  Claimed'
  OBVIOUS
<1>1. ASSUME UNCHANGED <<claims, evidence>>,
             \/ pc' \notin {"lockbox", "archive", "report", "evidence"}
             \/ /\ pc \in {"lockbox", "archive", "report", "evidence"}
                /\ UNCHANGED <<commit, data>>
      PROVE  Claimed'
  BY <1>1 DEF Claimed, Owned, Fingerprint, ResultsWereClaimed, Nothing
<1>2. CASE Silent
  <2>1. UNCHANGED <<claims, evidence>>
    BY <1>2, SilentLeavesDisk DEF diskVars
  <2>2. CASE Start \/ Load \/ Split \/ FoldDone \/ Raises \/ Crash
    BY <1>1, <2>1, <2>2 DEF Start, Load, Split, FoldDone, Raises, Crash, Goto
  <2>3. CASE NextHorizon \/ Fold
    BY <1>1, <2>1, <2>3 DEF NextHorizon, Fold, Goto
  <2>4. CASE Backtest \/ LockboxDone
    BY <1>1, <2>1, <2>4 DEF Backtest, LockboxDone, Goto
  <2> QED  BY <1>2, <2>2, <2>3, <2>4 DEF Silent
<1>3. CASE Claim
  <2>1. CASE Consumed
    BY <1>1, <1>3, <2>1 DEF Claim, Goto
  <2>2. CASE ~Consumed
    <3> DEFINE mine == [trial |-> commit, lockbox |-> Fingerprint]
    <3>1. UNCHANGED <<evidence, commit, data>>
      BY <1>3, <2>2 DEF Claim, Goto
    <3>2. claims' = claims \cup {mine}
      <4>1. CASE \E claim \in claims : claim.lockbox = Fingerprint
        <5>1. PICK claim \in claims : claim.lockbox = Fingerprint
          BY <4>1
        <5>2. claim.trial = commit
          BY <2>2, <5>1 DEF Consumed
        <5>3. claim = mine
          BY <5>1, <5>2 DEF Claimed
        <5>4. claims' = claims
          BY <1>3, <2>2, <4>1 DEF Claim
        <5> QED  BY <5>3, <5>4
      <4>2. CASE ~\E claim \in claims : claim.lockbox = Fingerprint
        BY <1>3, <2>2, <4>2 DEF Claim
      <4> QED  BY <4>1, <4>2
    <3>3. Owned'
      BY <3>1, <3>2 DEF Owned, Fingerprint
    <3>4. ResultsWereClaimed'
      BY <3>1, <3>2 DEF Claimed, ResultsWereClaimed, Nothing
    <3>5. \A claim \in claims' : claim = [trial |-> claim.trial, lockbox |-> claim.lockbox]
      BY <3>2 DEF Claimed
    <3> QED  BY <3>3, <3>4, <3>5 DEF Claimed
  <2> QED  BY <2>1, <2>2
<1>4. CASE Archive \/ WriteReport \/ AppendTrial \/ RecordFailure
  BY <1>1, <1>4 DEF Archive, WriteReport, AppendTrial, RecordFailure, Goto
<1>5. CASE WriteEvidence
  <2>1. pc = "evidence" /\ UNCHANGED claims /\ pc' = "append"
    BY <1>5 DEF WriteEvidence, Goto
  <2>2. evidence' = [trial |-> commit, lockbox |-> Fingerprint] /\ Owned
    BY <1>5, <2>1 DEF WriteEvidence, Claimed
  <2> QED  BY <2>1, <2>2 DEF Claimed, Owned, ResultsWereClaimed
<1>6. CASE WriteNoEvidence
  BY <1>6 DEF WriteNoEvidence, Goto, Claimed, ResultsWereClaimed, Nothing
<1>7. CASE Worker \/ Candle \/ UNCHANGED researchVars
  <2>1. UNCHANGED <<claims, evidence, pc, commit, data>>
    BY <1>7 DEF Worker, ReadReport, ReadManifest, KeepManifest, Restart, Candle, Others, diskVars,
                researchVars
  <2> QED  BY <1>1, <2>1
<1>8. CASE CheckOut
  BY <1>1, <1>8 DEF CheckOut, Others, diskVars
<1> QED  BY <1>2, <1>3, <1>4, <1>5, <1>6, <1>7, <1>8, StepsOfResearch

\* What the lockbox has shown was claimed before, by the trial that was shown it
\* (claim_lockbox, ProfitabilityRebuild.run).
THEOREM ResultsAreClaimed == ResearchSpec => []ResultsWereClaimed
<1>1. ResearchInit => Claimed
  BY DEF ResearchInit, Claimed, ResultsWereClaimed, Nothing
<1>2. Claimed => ResultsWereClaimed
  BY DEF Claimed
<1> QED  BY <1>1, <1>2, ClaimedStep, PTL DEF ResearchSpec

-----------------------------------------------------------------------------
(* Times: whole numbers of candles, and the members of a set in their order. *)

LEMMA SmallestOf ==
  ASSUME NEW S, S \subseteq Nat, S # {}
  PROVE  Min(S) \in S /\ \A y \in S : Min(S) <= y
<1> DEFINE Less == OpToRel(<, Nat)
<1>1. IsWellFoundedOn(Less, Nat)
  BY NatLessThanWellFounded
<1>2. \A x, y \in Nat : y < x => <<y, x>> \in Less
  BY DEF OpToRel
<1> HIDE DEF Less
<1>3. PICK x \in S : \A y \in S : ~(<<y, x>> \in Less)
  BY <1>1, WFMin
<1>4. \A y \in S : ~(y < x)
  BY <1>2, <1>3, Zenon
<1>5. \A y \in S : x <= y
  BY <1>4
<1> QED
  BY <1>5 DEF Min

LEMMA LargestOf ==
  ASSUME NEW b \in Nat, NEW S \in SUBSET (0..b), S # {}
  PROVE  Max(S) \in S /\ \A y \in S : y <= Max(S)
<1> DEFINE Below == {k \in Nat : b - k \in S}
<1>1. PICK s : s \in S
  OBVIOUS
<1>2. b - s \in Below
  <2>1. b - s \in Nat /\ b - (b - s) = s
    BY <1>1
  <2> QED
    BY <1>1, <2>1
<1>3. PICK k \in Below : \A m \in Below : k <= m
  <2>1. Below \subseteq Nat /\ Below # {}
    BY <1>2
  <2> HIDE DEF Below
  <2> QED
    BY <2>1, SmallestOf
<1>4. ASSUME NEW y \in S
      PROVE  b - k >= y
  <2>1. b - y \in Nat /\ b - (b - y) = y
    OBVIOUS
  <2>2. k <= b - y
    BY <1>3, <2>1
  <2> QED
    BY <1>3, <2>2
<1>5. \E x \in S : \A y \in S : x >= y
  BY <1>3, <1>4
<1>6. Max(S) \in S /\ \A y \in S : Max(S) >= y
  BY <1>5 DEF Max
<1> QED
  BY <1>6

LEMMA GreaterOfTwo ==
  ASSUME NEW a \in Int, NEW b \in Int
  PROVE  Max({a, b}) \in {a, b} /\ Max({a, b}) >= a /\ Max({a, b}) >= b
<1>1. \E x \in {a, b} : \A y \in {a, b} : x >= y
  OBVIOUS
<1> QED
  BY <1>1 DEF Max

LEMMA Products ==
  ASSUME NEW h \in Nat, NEW j \in Int, NEW k \in Int
  PROVE  /\ j <= k => j * h <= k * h
         /\ h > 0 /\ j * h < k * h => j < k
         /\ j * h - h * k = (j - k) * h
         /\ j * h + k * h = (j + k) * h
         /\ j * h \in Int
OBVIOUS

LEMMA Division ==
  ASSUME NEW h \in Nat \ {0}, NEW t \in Nat
  PROVE  /\ t \div h \in Nat
         /\ t - (t % h) = (t \div h) * h
         /\ t < (t \div h) * h + h
         /\ (t \div h) * h <= t
<1>1. t \div h \in Nat /\ (t \div h) * h <= t
  OBVIOUS
<1>2. t < (t \div h) * h + h
  OBVIOUS
<1>3. t - (t % h) = (t \div h) * h
  OBVIOUS
<1> QED BY <1>1, <1>2, <1>3

LEMMA NthOfTimes ==
  ASSUME NEW b \in Nat, NEW times \in SUBSET (0..b), NEW n \in Nat, n < Cardinality(times)
  PROVE  /\ Nth(times, n) \in times
         /\ Cardinality({u \in times : u < Nth(times, n)}) = n
<1> DEFINE Earlier(c) == {u \in times : u < c}
           Ranks == {Cardinality(Earlier(c)) : c \in times}
           Missed == {k \in 0..(Cardinality(times) - 1) : k \notin Ranks}
<1>0. \A y \in times : y \in Nat /\ y <= b
  OBVIOUS
<1>1. IsFiniteSet(times) /\ Cardinality(times) \in Nat
  <2>1. IsFiniteSet(0..b)
    BY FS_Interval
  <2>2. IsFiniteSet(times)
    BY <2>1, FS_Subset
  <2> QED
    BY <2>2, FS_CardinalityType
<1>2. \A c : IsFiniteSet(Earlier(c)) /\ Cardinality(Earlier(c)) \in Nat
  BY <1>1, FS_Subset, FS_CardinalityType
<1>3. Cardinality(times) - 1 \in Ranks
  <2>1. times # {}
    BY <1>1, FS_EmptySet
  <2>2. PICK m \in times : \A y \in times : y <= m
    BY <2>1, LargestOf
  <2>3. Earlier(m) = times \ {m}
    <3>1. \A y \in times : y < m <=> y # m
      BY <1>0, <2>2
    <3> QED
      BY <3>1
  <2>4. Cardinality(times \ {m}) = Cardinality(times) - 1
    BY <1>1, FS_RemoveElement
  <2> QED
    BY <2>3, <2>4
<1>4. ASSUME NEW k \in Nat, k + 1 \in Ranks
      PROVE  k \in Ranks
  <2>1. PICK c \in times : Cardinality(Earlier(c)) = k + 1
    BY <1>4
  <2>2. Earlier(c) # {}
    BY <2>1, FS_EmptySet
  <2>3. PICK m \in Earlier(c) : \A y \in Earlier(c) : y <= m
    <3>1. Earlier(c) \in SUBSET (0..b)
      BY <1>0
    <3> HIDE DEF Earlier
    <3> QED
      BY <2>2, <3>1, LargestOf
  <2>4. Earlier(m) = Earlier(c) \ {m}
    <3>1. c \in Nat /\ m \in Nat /\ m < c /\ m \in times
      BY <1>0, <2>3
    <3>2. \A y \in times : y < m <=> y < c /\ y # m
      BY <1>0, <2>3, <3>1
    <3> QED
      BY <3>2
  <2>5. Cardinality(Earlier(m)) = (k + 1) - 1
    <3> HIDE DEF Earlier
    <3> QED
      BY <1>2, <2>1, <2>3, <2>4, FS_RemoveElement
  <2>6. m \in times /\ (k + 1) - 1 = k
    BY <2>3
  <2> QED
    BY <2>5, <2>6
<1>5. n \in Ranks
  <2>1. SUFFICES ASSUME n \notin Ranks PROVE FALSE
    OBVIOUS
  <2>2. n \in Missed
    BY <1>1, <2>1
  <2>3. PICK k \in Missed : \A y \in Missed : y <= k
    <3>1. Missed \in SUBSET (0..Cardinality(times)) /\ Missed # {}
      BY <1>1, <2>2
    <3> HIDE DEF Missed
    <3> QED
      BY <1>1, <3>1, LargestOf
  <2>4. k \in Nat /\ k \notin Ranks /\ k <= Cardinality(times) - 1
    BY <1>1, <2>3
  <2>5. k + 1 \in Ranks
    <3>1. CASE k = Cardinality(times) - 1
      BY <1>3, <2>4, <3>1
    <3>2. CASE k < Cardinality(times) - 1
      <4>1. k + 1 \in 0..(Cardinality(times) - 1) /\ ~(k + 1 <= k)
        BY <1>1, <2>4, <3>2
      <4> QED
        BY <2>3, <4>1
    <3> QED
      BY <1>1, <2>4, <3>1, <3>2
  <2> QED
    BY <1>4, <2>4, <2>5
<1>6. \E t \in times : Cardinality(Earlier(t)) = n
  BY <1>5
<1> QED
  BY <1>6 DEF Nth

LEMMA NthIsLater ==
  ASSUME NEW b \in Nat, NEW times \in SUBSET (0..b),
         NEW i \in Nat, NEW j \in Nat, i <= j, j < Cardinality(times)
  PROVE  Nth(times, i) <= Nth(times, j)
<1> DEFINE Earlier(c) == {u \in times : u < c}
<1>0. IsFiniteSet(times) /\ Cardinality(times) \in Nat
  <2>1. IsFiniteSet(0..b)
    BY FS_Interval
  <2>2. IsFiniteSet(times)
    BY <2>1, FS_Subset
  <2> QED
    BY <2>2, FS_CardinalityType
<1>1. PICK c \in times : c = Nth(times, i) /\ Cardinality(Earlier(c)) = i
  <2>1. i < Cardinality(times)
    BY <1>0
  <2> QED
    BY <2>1, NthOfTimes
<1>2. PICK d \in times : d = Nth(times, j) /\ Cardinality(Earlier(d)) = j
  BY <1>0, NthOfTimes
<1>3. c \in Nat /\ d \in Nat
  BY <1>1, <1>2
<1>4. SUFFICES ASSUME d < c PROVE FALSE
  BY <1>1, <1>2, <1>3
<1>5. Earlier(d) \cup {d} \subseteq Earlier(c) /\ d \notin Earlier(d)
  <2>1. \A y \in times : y \in Nat
    OBVIOUS
  <2>2. \A y \in times : y < d => y < c
    BY <1>3, <1>4, <2>1
  <2>3. ~(d < d)
    BY <1>3
  <2> QED
    BY <1>4, <2>2, <2>3
<1>6. IsFiniteSet(Earlier(c)) /\ IsFiniteSet(Earlier(d))
  BY <1>0, FS_Subset
<1> HIDE DEF Earlier
<1>7. Cardinality(Earlier(d) \cup {d}) = j + 1 /\ Cardinality(Earlier(d) \cup {d}) <= i
  BY <1>1, <1>2, <1>5, <1>6, FS_Subset, FS_AddElement
<1> QED
  BY <1>7

-----------------------------------------------------------------------------
(* Panels.                                                                 *)

\* A close of a candle of this horizon.
OnClose(h, t) == \E k \in Nat : t = k * h

\* The candles of a horizon are loaded, enough of them for a panel.
Loaded(h) == data[h] \in 1..LastClock /\ \E k \in Nat : k > PanelRows /\ data[h] = k * h

\* A decision with two candles after it.
Priced(h, t) == t \in Nat /\ OnClose(h, t) /\ t + 2 * h <= LastClock

LEMMA HorizonType ==
  ASSUME NEW h \in Horizons
  PROVE  h \in Nat /\ h > 0
BY BacktestAssumption

LEMMA RowIsPriced ==
  ASSUME NEW h \in Horizons, Loaded(h)
  PROVE  /\ \A t \in Rows(h) : Priced(h, t)
         /\ Rows(h) \in SUBSET (0..LastClock)
<1>0. h \in Nat /\ h > 0 /\ PanelRows \in Nat /\ LastClock \in Nat
  BY HorizonType, ResearchAssumption
<1>1. PICK k \in Nat : k > PanelRows /\ data[h] = k * h
  BY DEF Loaded
<1>2. ASSUME NEW t \in Rows(h)
      PROVE  Priced(h, t)
  <2>1. PICK i \in 2..(PanelRows + 1) : t = data[h] - h * i
    BY <1>2 DEF Rows
  <2>2. i \in Nat /\ i >= 2 /\ i <= k
    BY <1>0, <1>1, <2>1
  <2>3. t = (k - i) * h /\ k - i \in Nat
    BY <1>0, <1>1, <2>1, <2>2, Products
  <2>4. t + 2 * h = (k - i + 2) * h /\ (k - i + 2) <= k
    BY <1>0, <2>2, <2>3, Products
  <2>5. t + 2 * h <= k * h
    BY <1>0, <2>2, <2>4, Products
  <2>6. k * h <= LastClock
    BY <1>0, <1>1 DEF Loaded
  <2>7. t \in Nat /\ t + 2 * h <= LastClock
    <3>1. k * h \in Int /\ (k - i) * h \in Nat
      BY <1>0, <2>2, <2>3
    <3> QED
      BY <1>0, <2>3, <2>5, <2>6, <3>1
  <2> QED
    BY <2>3, <2>7 DEF Priced, OnClose
<1>3. \A t : Priced(h, t) => t \in 0..LastClock
  BY <1>0 DEF Priced
<1> QED
  BY <1>2, <1>3

\* The panel has the rows it was asked for.
LEMMA RowsCounted ==
  ASSUME NEW h \in Horizons, Loaded(h)
  PROVE  Cardinality(Rows(h)) = PanelRows
<1>0. h \in Nat /\ h > 0 /\ PanelRows \in Nat /\ data[h] \in Nat
  BY HorizonType, ResearchAssumption DEF Loaded
<1> DEFINE row == [i \in 2..(PanelRows + 1) |-> data[h] - h * i]
<1>1. row \in Surjection(2..(PanelRows + 1), Rows(h))
  BY DEF Rows, Surjection
<1>2. row \in Injection(2..(PanelRows + 1), Rows(h))
  <2>1. ASSUME NEW i \in 2..(PanelRows + 1), NEW j \in 2..(PanelRows + 1), row[i] = row[j]
        PROVE  i = j
    <3>1. data[h] - h * i = data[h] - h * j /\ i \in Nat /\ j \in Nat
      BY <1>0, <2>1
    <3>2. h * i = h * j
      BY <1>0, <3>1
    <3> QED
      BY <1>0, <3>1, <3>2
  <2>2. row \in [2..(PanelRows + 1) -> Rows(h)]
    BY <1>1 DEF Surjection
  <2> QED
    BY <2>1, <2>2 DEF Injection, IsInjective
<1>3. ExistsBijection(2..(PanelRows + 1), Rows(h))
  BY <1>1, <1>2 DEF ExistsBijection, Bijection
<1>4. IsFiniteSet(2..(PanelRows + 1)) /\ Cardinality(2..(PanelRows + 1)) = PanelRows
  <2>1. 2 \in Int /\ PanelRows + 1 \in Int
    BY <1>0
  <2>2. IsFiniteSet(2..(PanelRows + 1))
        /\ Cardinality(2..(PanelRows + 1)) = IF 2 > PanelRows + 1 THEN 0 ELSE (PanelRows + 1) - 2 + 1
    BY <2>1, FS_Interval
  <2> QED
    BY <1>0, <2>2
<1> QED
  BY <1>3, <1>4, FS_Bijection

LEMMA DevelopmentIsPriced ==
  ASSUME NEW h \in Horizons, Loaded(h)
  PROVE  /\ Development(h) \in SUBSET (0..LastClock)
         /\ \A t \in Development(h) : Priced(h, t)
         /\ IsFiniteSet(Development(h)) /\ Cardinality(Development(h)) \in Nat
<1>1. Development(h) \in SUBSET Rows(h)
  BY DEF Development, Before
<1>2. Development(h) \in SUBSET (0..LastClock) /\ \A t \in Development(h) : Priced(h, t)
  BY <1>1, RowIsPriced
<1>3. IsFiniteSet(0..LastClock)
  BY ResearchAssumption, FS_Interval
<1> QED
  BY <1>2, <1>3, FS_Subset, FS_CardinalityType

\* Labels end before the lockbox starts.
LEMMA LockboxIsLater ==
  ASSUME NEW h \in Horizons, Loaded(h),
         NEW t \in Development(h), NEW s \in Lockbox(h)
  PROVE  LabelAt(h, t) <= s
<1>0. PanelRows \in Nat /\ LockboxPercent \in Nat /\ PanelRows >= 1
  <2>1. PanelRows \in Nat /\ LockboxPercent \in Nat
    BY ResearchAssumption
  <2>2. Rows(h) # {}
    BY DEF Lockbox
  <2>3. Cardinality(Rows(h)) # 0
    <3>1. IsFiniteSet(Rows(h))
      <4>1. IsFiniteSet(0..LastClock)
        BY ResearchAssumption, FS_Interval
      <4> QED
        BY <4>1, RowIsPriced, FS_Subset
    <3> QED
      BY <2>2, <3>1, FS_EmptySet
  <2> QED
    BY <2>1, <2>3, RowsCounted
<1> DEFINE share == (PanelRows * (100 - LockboxPercent) + 50) \div 100
<1>1. share \in Int
  <2>1. PanelRows * (100 - LockboxPercent) + 50 \in Int
    BY <1>0
  <2> QED
    BY <2>1
<1>2. LockboxPosition \in Nat /\ LockboxPosition < PanelRows
  <2> HIDE DEF share
  <2>1. Max({1, share}) \in Int /\ Max({1, share}) >= 1
    <3>1. 1 \in Int /\ share \in Int
      BY <1>1
    <3>2. Max({1, share}) \in {1, share} /\ Max({1, share}) >= 1
      BY <3>1, GreaterOfTwo, Zenon
    <3> QED
      BY <3>1, <3>2
  <2>2. LockboxPosition = EarlierOf(PanelRows - 1, Max({1, share}))
    BY DEF LockboxPosition, share
  <2> QED
    BY <1>0, <2>1, <2>2 DEF EarlierOf
<1>3. LockboxStart(h) \in Rows(h)
  <2>1. LockboxPosition < Cardinality(Rows(h)) /\ LastClock \in Nat
    BY <1>2, RowsCounted, ResearchAssumption
  <2> QED
    BY <1>2, <2>1, RowIsPriced, NthOfTimes DEF LockboxStart
<1>4. LockboxStart(h) \in Nat /\ s \in Nat /\ t \in Nat
  <2>1. s \in Rows(h) /\ t \in Rows(h)
    BY DEF Lockbox, Development, Before
  <2> QED
    BY <1>3, <2>1, RowIsPriced
<1>5. LabelAt(h, t) \in Int
  BY <1>4, HorizonType DEF LabelAt
<1>6. LabelAt(h, t) < LockboxStart(h) /\ s >= LockboxStart(h)
  BY DEF Development, Before, Lockbox
<1> QED
  BY <1>4, <1>5, <1>6

-----------------------------------------------------------------------------
(* Folds.                                                                  *)

LEMMA TestCountType ==
  ASSUME NEW times, Cardinality(times) \in Nat
  PROVE  TestCount(times) \in Nat /\ TestCount(times) >= 1
<1>1. MaxFolds + 2 \in Nat \ {0}
  BY ResearchAssumption
<1>2. Cardinality(times) \div (MaxFolds + 2) \in Nat
  BY <1>1, Division
<1>3. 1 \in Int /\ Cardinality(times) \div (MaxFolds + 2) \in Int
  BY <1>2
<1>4. TestCount(times) \in {1, Cardinality(times) \div (MaxFolds + 2)} /\ TestCount(times) >= 1
  BY <1>3, GreaterOfTwo, Zenon DEF TestCount
<1> QED
  BY <1>2, <1>4

LEMMA TestEndType ==
  ASSUME NEW times, Cardinality(times) \in Nat, cursor \in Nat
  PROVE  TestEnd(times) \in Nat /\ TestEnd(times) <= Cardinality(times)
BY TestCountType DEF TestEnd, EarlierOf

LEMMA NextCursorType ==
  ASSUME NEW h \in Horizons, Loaded(h), cursor \in Nat
  PROVE  NextCursor(Development(h)) \in Nat
<1> DEFINE times == Development(h)
           start == Nth(times, TestEnd(times) - 1) + (at \div 4)
           past == {t \in times : t < start}
<1>1. IsFiniteSet(times) /\ Cardinality(times) \in Nat
  BY DevelopmentIsPriced
<1>2. IsFiniteSet(past)
  BY <1>1, FS_Subset
<1>3. Cardinality(past) \in Nat
  BY <1>2, FS_CardinalityType
<1>4. TestEnd(times) \in Nat
  BY <1>1, TestEndType
<1>5. NextCursor(times) = Max({TestEnd(times), Cardinality(past)})
  BY DEF NextCursor
<1> HIDE DEF past, times
<1>6. TestEnd(times) \in Int /\ Cardinality(past) \in Int
  BY <1>3, <1>4
<1>7. NextCursor(times) \in {TestEnd(times), Cardinality(past)}
  BY <1>5, <1>6, GreaterOfTwo, Zenon
<1> QED
  BY <1>3, <1>4, <1>7 DEF times

\* The test rows of a fold come after the labels of its training rows.
LEMMA TestIsLater ==
  ASSUME at \in Horizons, Loaded(at), cursor \in Nat,
         NEW s \in Test(Development(at))
  PROVE  /\ s \in Development(at)
         /\ \A t \in Train(Development(at)) : LabelAt(at, t) <= s
<1> DEFINE times == Development(at)
<1>1. times \in SUBSET (0..LastClock) /\ Cardinality(times) \in Nat /\ LastClock \in Nat
  BY DevelopmentIsPriced, ResearchAssumption
<1>2. TestEnd(times) \in Nat /\ TestEnd(times) <= Cardinality(times)
  BY <1>1, TestEndType
<1>3. PICK i \in cursor..(TestEnd(times) - 1) : s = Nth(times, i)
  BY DEF Test
<1>4. i \in Nat /\ cursor <= i /\ i < Cardinality(times) /\ cursor < Cardinality(times)
  BY <1>1, <1>2
<1> HIDE DEF times
<1>5. s \in times /\ Nth(times, cursor) \in times /\ Nth(times, cursor) <= s
  BY <1>1, <1>3, <1>4, NthOfTimes, NthIsLater
<1>6. ASSUME NEW t \in Train(times)
      PROVE  LabelAt(at, t) <= s
  <2>1. t \in times /\ LabelAt(at, t) < Nth(times, cursor)
    BY DEF Train, Before
  <2>2. t \in Nat /\ s \in Nat /\ Nth(times, cursor) \in Nat
    <3>1. \A y \in times : y \in Nat
      BY <1>1
    <3> QED
      BY <1>5, <2>1, <3>1
  <2>3. LabelAt(at, t) \in Int
    BY <2>2, HorizonType DEF LabelAt
  <2> QED
    BY <1>5, <2>1, <2>2, <2>3
<1> QED
  BY <1>5, <1>6 DEF times

-----------------------------------------------------------------------------
(* What a run has loaded.                                                  *)

Trading == {"fold", "lockbox"}

Panels ==
    /\ clock \in FirstClock..LastClock
    /\ data \in [Horizons -> 0..LastClock]
    /\ \A h \in Horizons : data[h] # 0 => Loaded(h)
    /\ pc \in {"split", "folds", "claim"} \cup Trading =>
          Horizons # {} /\ \A h \in Horizons : data[h] # 0
    /\ pc \in {"folds", "fold"} => at \in Horizons /\ cursor \in Nat
    /\ at \in {0} \cup Horizons

\* What a step does with the backtest: it is a step of it, it launches one, it
\* clears what is left of it, or it is none of its business.
LEMMA StepsOfBacktest ==
  ASSUME [ResearchNext]_researchVars
  PROVE  \/ Backtest
         \/ Fold /\ pc' = "fold"
         \/ Claim /\ pc' = "lockbox"
         \/ Forget /\ pc' \notin Trading
         \/ /\ UNCHANGED <<backtestVars, train>>
            /\ pc' \in Trading \/ pc \in Trading => pc' = pc /\ at' = at
<1>1. CASE Backtest
  BY <1>1
<1>2. CASE Fold
  BY <1>2 DEF Fold, Goto, Trading, NoBacktest
<1>3. CASE Claim
  BY <1>3 DEF Claim, Goto, Trading, NoBacktest
<1>4. CASE FoldDone \/ LockboxDone \/ Raises \/ Crash
  BY <1>4 DEF FoldDone, LockboxDone, Raises, Crash, Goto, Trading, GiveUp
<1>5. CASE AppendTrial
  BY <1>5 DEF AppendTrial, Goto, Trading, GiveUp, NoBacktest
<1>6. CASE RecordFailure
  BY <1>6 DEF RecordFailure, Goto, Trading, GiveUp
<1>7. CASE Start \/ Load \/ Split \/ NextHorizon
  BY <1>7 DEF Start, Load, Split, NextHorizon, Goto, Trading, NoBacktest
<1>8. CASE Archive \/ WriteReport \/ WriteEvidence \/ WriteNoEvidence
  BY <1>8 DEF Archive, WriteReport, WriteEvidence, WriteNoEvidence, Goto, Trading, NoBacktest
<1>9. CASE Worker \/ Candle \/ CheckOut
  BY <1>9 DEF Worker, ReadReport, ReadManifest, KeepManifest, Restart, Candle, CheckOut, Others,
              foldVars
<1>10. CASE UNCHANGED researchVars
  BY <1>10 DEF researchVars, foldVars
<1> QED
  BY <1>1, <1>2, <1>3, <1>4, <1>5, <1>6, <1>7, <1>8, <1>9, <1>10 DEF ResearchNext, Run

LEMMA WalkTypes ==
  ASSUME NEW h \in Horizons, Loaded(h), Walk(h)
  PROVE  at' \in Horizons /\ cursor' \in Nat
<1>1. TestCount(Development(h)) \in Nat
  BY DevelopmentIsPriced, TestCountType
<1> QED
  BY <1>1 DEF Walk

LEMMA PanelsLoad ==
  ASSUME Panels, Load
  PROVE  Panels'
<1> DEFINE missing == {h \in Horizons : data[h] = 0}
           h == Min(missing)
<1>1. /\ data' = [data EXCEPT ![h] = clock - (clock % h)]
      /\ pc' = (IF missing = {h} THEN "split" ELSE "load")
      /\ UNCHANGED <<clock, at>>
  BY DEF Load, Goto, foldVars
<1>2. CASE h \notin Horizons
  <2>1. missing = {}
    <3>1. missing \subseteq Nat /\ h \notin missing
      BY <1>2, HorizonType
    <3> HIDE DEF missing
    <3> QED
      BY <3>1, SmallestOf
  <2>2. data' = data /\ pc' = "load"
    BY <1>1, <1>2, <2>1 DEF Panels
  <2> QED
    BY <1>1, <2>2 DEF Panels, Loaded, Trading
<1>3. CASE h \in Horizons
  <2> PICK g \in Horizons : g = h
    BY <1>3
  <2>3. clock \in Nat /\ clock >= FirstClock /\ clock <= LastClock /\ FirstClock > (PanelRows + 1) * g
        /\ PanelRows \in Nat /\ LastClock \in Nat /\ FirstClock \in Nat
    BY ResearchAssumption DEF Panels
  <2>4. g \in Nat \ {0}
    BY HorizonType
  <2> DEFINE k == clock \div g
  <2>5. k \in Nat /\ clock - (clock % g) = k * g /\ clock < k * g + g /\ k * g <= clock
    BY <2>3, <2>4, Division
  <2> HIDE DEF k
  <2>6. k > PanelRows
    <3>1. (PanelRows + 1) * g < k * g + g
      <4>1. (PanelRows + 1) * g \in Nat /\ k * g \in Nat
        BY <2>3, <2>4, <2>5
      <4> QED
        BY <2>3, <2>4, <2>5, <4>1
    <3>2. k * g + g = (k + 1) * g
      BY <2>4, <2>5
    <3>3. PanelRows + 1 < k + 1
      BY <2>3, <2>4, <2>5, <3>1, <3>2, Products
    <3> QED
      BY <2>3, <2>5, <3>3
  <2>7. k * g \in 1..LastClock
    <3>1. k >= 1
      BY <2>3, <2>5, <2>6
    <3>2. 1 * g <= k * g
      BY <2>4, <2>5, <3>1, Products
    <3> QED
      BY <2>3, <2>4, <2>5, <3>2
  <2>8. data' = [data EXCEPT ![g] = k * g]
    BY <1>1, <2>5
  <2>9. data' \in [Horizons -> 0..LastClock] /\ data'[g] = k * g
        /\ \A f \in Horizons : f # g => data'[f] = data[f]
    BY <2>7, <2>8 DEF Panels
  <2>10. \A f \in Horizons : data'[f] # 0 => Loaded(f)'
    <3>1. Loaded(g)'
      BY <2>5, <2>6, <2>7, <2>9 DEF Loaded
    <3>2. \A f \in Horizons : f # g /\ data[f] # 0 => Loaded(f)'
      BY <2>9 DEF Panels, Loaded
    <3> QED
      BY <2>9, <3>1, <3>2
  <2>11. pc' = "split" => \A f \in Horizons : data'[f] # 0
    <3>1. ASSUME NEW f \in Horizons, pc' = "split", f # g
          PROVE  data[f] # 0
      BY <1>1, <3>1
    <3>2. k * g # 0
      BY <2>3, <2>7
    <3> QED
      BY <2>9, <3>1, <3>2
  <2>12. pc' \in {"split", "load"}
    BY <1>1
  <2> QED
    BY <1>1, <2>9, <2>10, <2>11, <2>12 DEF Panels, Trading
<1> QED
  BY <1>2, <1>3

LEMMA PanelsStep == Panels /\ [ResearchNext]_researchVars => Panels'
<1> SUFFICES ASSUME Panels, [ResearchNext]_researchVars
             PROVE  Panels'
  OBVIOUS
<1>1. ASSUME UNCHANGED <<clock, data>>,
             at' \in {0} \cup Horizons,
             \/ pc' \notin {"split", "folds", "claim"} \cup Trading
             \/ pc \in {"split", "folds", "claim"} \cup Trading,
             pc' \in {"folds", "fold"} => at' \in Horizons /\ cursor' \in Nat
      PROVE  Panels'
  BY <1>1 DEF Panels, Loaded
<1>2. ASSUME UNCHANGED clock, GiveUp,
             pc' \notin {"split", "folds", "claim"} \cup Trading
      PROVE  Panels'
  <2>1. LastClock \in Nat
    BY ResearchAssumption
  <2>2. data' \in [Horizons -> 0..LastClock] /\ \A h \in Horizons : data'[h] = 0
    BY <1>2, <2>1 DEF GiveUp
  <2> QED
    BY <1>2, <2>2 DEF Panels, GiveUp, Trading
<1>3. CASE Start
  BY <1>1, <1>3 DEF Start, foldVars, Panels, Trading
<1>4. CASE Load
  BY <1>4, PanelsLoad
<1>5. CASE Split
  <2>1. /\ pc = "split" /\ pc' = "folds" /\ Walk(Min(Horizons)) /\ UNCHANGED <<clock, data>>
    BY <1>5 DEF Split, Goto
  <2>2. Min(Horizons) \in Horizons
    <3>1. Horizons # {}
      BY <2>1 DEF Panels
    <3>2. Horizons \subseteq Nat
      BY HorizonType
    <3> QED
      BY <3>1, <3>2, SmallestOf
  <2>3. Loaded(Min(Horizons))
    BY <2>1, <2>2 DEF Panels
  <2>4. at' \in Horizons /\ cursor' \in Nat
    BY <2>1, <2>2, <2>3, WalkTypes
  <2> QED
    BY <1>1, <2>1, <2>4
<1>6. CASE NextHorizon
  <2> DEFINE rest == {h \in Horizons : h > at}
  <2>1. /\ pc = "folds" /\ UNCHANGED <<clock, data>>
        /\ IF rest = {} THEN pc' = "claim" /\ at' = 0
           ELSE pc' = "folds" /\ Walk(Min(rest))
    BY <1>6 DEF NextHorizon, Goto
  <2>2. CASE rest = {}
    BY <1>1, <2>1, <2>2
  <2>3. CASE rest # {}
    <3>1. rest \subseteq Nat
      BY HorizonType
    <3>2. Min(rest) \in rest
      <4> HIDE DEF rest
      <4> QED
        BY <2>3, <3>1, SmallestOf
    <3>3. Min(rest) \in Horizons /\ Loaded(Min(rest))
      BY <2>1, <3>2 DEF Panels
    <3> HIDE DEF rest
    <3>4. at' \in Horizons /\ cursor' \in Nat
      BY <2>1, <2>3, <3>3, WalkTypes
    <3> QED
      BY <1>1, <2>1, <2>3, <3>4
  <2> QED
    BY <2>2, <2>3
<1>7. CASE Fold
  <2>1. /\ pc = "folds" /\ pc' \in {"fold", "folds"} /\ UNCHANGED <<clock, data, at>>
        /\ cursor' = NextCursor(Development(at))
    BY <1>7 DEF Fold, Goto
  <2>2. at \in Horizons /\ Loaded(at) /\ cursor \in Nat
    BY <2>1 DEF Panels
  <2>3. cursor' \in Nat
    BY <2>1, <2>2, NextCursorType
  <2> QED
    BY <1>1, <2>1, <2>2, <2>3
<1>8. CASE Backtest \/ FoldDone
  BY <1>1, <1>8 DEF Backtest, FoldDone, Goto, foldVars, Panels, Trading
<1>9. CASE Claim \/ LockboxDone
  BY <1>1, <1>9 DEF Claim, LockboxDone, Goto, foldVars, Panels, Trading
<1>10. CASE Archive \/ WriteReport \/ WriteEvidence \/ WriteNoEvidence
  BY <1>1, <1>10 DEF Archive, WriteReport, WriteEvidence, WriteNoEvidence, Goto, foldVars, Panels, Trading
<1>11. CASE AppendTrial
  BY <1>1, <1>2, <1>11 DEF AppendTrial, Goto, foldVars, Panels, Trading
<1>12. CASE RecordFailure \/ Raises \/ Crash
  BY <1>2, <1>12 DEF RecordFailure, Raises, Crash, Goto, Trading
<1>13. CASE Worker \/ CheckOut
  BY <1>1, <1>13 DEF Worker, ReadReport, ReadManifest, KeepManifest, Restart, CheckOut, Others, foldVars,
                     Panels, Trading
<1>14. CASE Candle
  BY <1>14, ResearchAssumption DEF Candle, Others, foldVars, Panels, Loaded
<1>15. CASE UNCHANGED researchVars
  BY <1>1, <1>15 DEF researchVars, foldVars, Panels
<1> QED
  BY <1>3, <1>4, <1>5, <1>6, <1>7, <1>8, <1>9, <1>10, <1>11, <1>12, <1>13, <1>14, <1>15
     DEF ResearchNext, Run

-----------------------------------------------------------------------------
(* Trades.                                                                 *)

\* Decisions have their candles, a symbol has one position, and there are
\* positions while a backtest runs.
Trades ==
    /\ \A s \in signals :
          s.symbol \in Symbols /\ s.horizon \in Horizons /\ Priced(s.horizon, s.at)
    /\ \A trade \in open :
          /\ trade.symbol \in Symbols /\ trade.pnl \in {-1, 1}
          /\ trade.exit \in Nat /\ trade.available \in Nat
          /\ trade.exit <= trade.available /\ trade.available <= LastClock
    /\ open # {} => pc \in Trading
    /\ \A a, b \in open : a.symbol = b.symbol => a = b
    /\ train \subseteq Horizons \X (0..LastClock)

\* The decisions of a fold fall on the closes of its horizon, and a trade ends
\* in the candle whose close prices it.
Aligned ==
    pc = "fold" =>
        /\ ~foreseen
        /\ \A s \in signals : s.horizon = at
        /\ \A trade \in open : OnClose(at, trade.available) /\ trade.exit > trade.available - at

BacktestInv == Trades /\ Aligned /\ TrainedBeforeTested

LEMMA LabelFacts ==
  ASSUME NEW s \in signals, Trades, NEW trade \in Outcomes(s)
  PROVE  /\ trade.symbol = s.symbol /\ trade.pnl \in {-1, 1}
         /\ trade.exit \in Nat /\ trade.available \in Nat
         /\ s.at < trade.exit /\ trade.exit <= trade.available /\ trade.available <= LastClock
         /\ OnClose(s.horizon, trade.available)
         /\ trade.exit > trade.available - s.horizon
<1> DEFINE h == s.horizon
<1>1. PICK path \in Paths : trade = Label(s, path)
  BY DEF Outcomes
<1>2. h \in Horizons /\ Priced(h, s.at) /\ h \in Nat /\ h > 0 /\ LastClock \in Nat
  BY HorizonType, ResearchAssumption DEF Trades
<1>3. s.at \in Nat /\ s.at + 2 * h <= LastClock
  BY <1>2 DEF Priced
<1>4. PICK k \in Nat : s.at = k * h
  BY <1>2 DEF Priced, OnClose
<1>5. PICK bar \in {1, 2} : bar = ExitBar(path)
  BY DEF ExitBar
<1>6. Gain(path) \in {-1, 1}
  BY <1>1 DEF Gain, Paths
<1>7. PICK close \in Nat : close = CloseTime(s, path) /\ close = s.at + bar * h
                           /\ (close = s.at + h \/ close = s.at + 2 * h)
  BY <1>2, <1>3, <1>5 DEF CloseTime
<1>8. trade.available = close /\ trade.exit = EarlierOf(close, s.at + 1 + h)
      /\ trade.symbol = s.symbol /\ trade.pnl = Gain(path)
  BY <1>1, <1>7 DEF Label, Expiry
<1>9. OnClose(h, close)
  <2>1. close = (k + bar) * h /\ k + bar \in Nat
    BY <1>2, <1>4, <1>5, <1>7, Products
  <2> QED
    BY <2>1 DEF OnClose
<1> HIDE DEF h
<1>10. trade.exit \in Nat /\ s.at < trade.exit /\ trade.exit <= close /\ close <= LastClock
      /\ trade.exit > close - h
  BY <1>2, <1>3, <1>7, <1>8 DEF EarlierOf
<1> QED
  BY <1>6, <1>8, <1>9, <1>10 DEF h

\* A trade that is due has ended in a candle that has closed.
LEMMA DueIsObserved ==
  ASSUME Panels, Trades, Aligned, pc = "fold", NEW trade \in Due, NEW s \in Upcoming
  PROVE  trade.available <= s.at
<1>1. trade \in open /\ s \in signals /\ trade.exit <= s.at
  BY DEF Due, Upcoming
<1>2. at \in Nat /\ at > 0
  BY HorizonType DEF Panels
<1>3. PICK k \in Nat : trade.available = k * at
  BY <1>1 DEF Aligned, OnClose
<1>4. PICK j \in Nat : s.at = j * at
  BY <1>1 DEF Trades, Aligned, Priced, OnClose
<1>5. (k - 1) * at < j * at
  <2>1. (k - 1) * at = k * at - at
    BY <1>2
  <2>2. trade.exit \in Nat /\ k * at \in Nat /\ j * at \in Nat /\ trade.exit > k * at - at
    BY <1>1, <1>2, <1>3 DEF Aligned, Trades
  <2> QED
    BY <1>1, <1>2, <1>4, <2>1, <2>2
<1>6. k <= j
  <2>1. k - 1 < j
    BY <1>2, <1>5, Products
  <2> QED
    BY <2>1
<1> QED
  BY <1>2, <1>3, <1>4, <1>6, Products

LEMMA SettleStep ==
  ASSUME Panels, BacktestInv, Settle, UNCHANGED <<pc, at, train>>
  PROVE  BacktestInv'
<1>1. PICK trade \in Foremost :
         /\ open' = open \ {trade} /\ UNCHANGED signals
         /\ foreseen' = (foreseen \/ \E s \in Upcoming : s.at < trade.available)
  BY DEF Settle
<1>2. trade \in Due /\ trade \in open
  BY <1>1 DEF Foremost, Due
<1>3. Trades'
  BY <1>1, <1>2 DEF BacktestInv, Trades, Priced, OnClose
<1>4. Aligned'
  <2>1. ASSUME pc = "fold", NEW s \in Upcoming
        PROVE  ~(s.at < trade.available)
    <3>1. trade.available <= s.at
      BY <1>2, <2>1, DueIsObserved DEF BacktestInv
    <3>2. trade.available \in Nat /\ s.at \in Nat
      BY <1>2 DEF BacktestInv, Trades, Upcoming, Priced
    <3> QED
      BY <3>1, <3>2
  <2> QED
    BY <1>1, <2>1 DEF BacktestInv, Aligned, OnClose
<1> QED
  BY <1>1, <1>3, <1>4 DEF BacktestInv, TrainedBeforeTested

LEMMA DecideStep ==
  ASSUME Panels, BacktestInv, Decide, pc \in Trading, UNCHANGED <<pc, at, train>>
  PROVE  BacktestInv'
<1>1. PICK s \in Upcoming :
         /\ signals' = signals \ {s} /\ UNCHANGED foreseen
         /\ \/ UNCHANGED open
            \/ ~Refused(s) /\ \E trade \in Outcomes(s) : open' = open \cup {trade}
  BY DEF Decide
<1>2. s \in signals
  BY DEF Upcoming
<1>3. CASE UNCHANGED open
  BY <1>1, <1>3 DEF BacktestInv, Trades, Aligned, Priced, OnClose, TrainedBeforeTested
<1>4. CASE ~Refused(s) /\ \E trade \in Outcomes(s) : open' = open \cup {trade}
  <2>1. PICK trade \in Outcomes(s) : open' = open \cup {trade}
    BY <1>4
  <2>2. /\ trade.symbol = s.symbol /\ trade.pnl \in {-1, 1}
        /\ trade.exit \in Nat /\ trade.available \in Nat
        /\ trade.exit <= trade.available /\ trade.available <= LastClock
        /\ OnClose(s.horizon, trade.available)
        /\ trade.exit > trade.available - s.horizon
    BY <1>2, LabelFacts DEF BacktestInv
  <2>3. \A other \in open : other.symbol # trade.symbol
    BY <1>4, <2>2 DEF Refused, Holding
  <2>4. Trades'
    <3>1. s.symbol \in Symbols
      BY <1>2 DEF BacktestInv, Trades
    <3> QED
      BY <1>1, <2>1, <2>2, <2>3, <3>1 DEF BacktestInv, Trades, Priced, OnClose
  <2>5. Aligned'
    <3>1. pc = "fold" => s.horizon = at
      BY <1>2 DEF BacktestInv, Aligned
    <3> QED
      BY <1>1, <2>1, <2>2, <3>1 DEF BacktestInv, Aligned, OnClose
  <2> QED
    BY <1>1, <2>4, <2>5 DEF BacktestInv, TrainedBeforeTested
<1> QED
  BY <1>1, <1>3, <1>4

\* A launch begins with the decisions it is given and nothing else.
LEMMA LaunchStep ==
  ASSUME NEW pending, Launch(pending), pc' \in Trading,
         train' \subseteq Horizons \X (0..LastClock),
         \A s \in pending : s.symbol \in Symbols /\ s.horizon \in Horizons /\ Priced(s.horizon, s.at),
         pc' = "fold" => \A s \in pending : s.horizon = at',
         \A row \in train', s \in pending : row[1] = s.horizon => LabelAt(row[1], row[2]) <= s.at
  PROVE  BacktestInv'
BY DEF Launch, BacktestInv, Trades, Aligned, TrainedBeforeTested, Priced, OnClose, LabelAt

LEMMA FoldStep ==
  ASSUME Panels, Fold, pc' = "fold"
  PROVE  BacktestInv'
<1> DEFINE times == Development(at)
           pending == SignalsOf(at, Test(times))
<1>1. /\ pc = "folds" /\ at' = at
      /\ train' = {at} \X Train(times) /\ Launch(pending)
  BY DEF Fold, Goto
<1>2. at \in Horizons /\ Loaded(at) /\ cursor \in Nat
  BY <1>1 DEF Panels
<1>3. \A s \in pending : s.symbol \in Symbols /\ s.horizon = at /\ s.at \in Test(times)
  BY DEF SignalsOf
<1>4. \A s \in Test(times) : Priced(at, s) /\ \A t \in Train(times) : LabelAt(at, t) <= s
  BY <1>2, TestIsLater, DevelopmentIsPriced
<1>5. Train(times) \subseteq 0..LastClock
  BY <1>2, DevelopmentIsPriced DEF Train, Before
<1> HIDE DEF times, pending
<1>6. train' \subseteq Horizons \X (0..LastClock)
  BY <1>1, <1>2, <1>5
<1>7. \A row \in train', s \in pending : LabelAt(row[1], row[2]) <= s.at
  BY <1>1, <1>3, <1>4
<1> QED
  BY <1>1, <1>2, <1>3, <1>4, <1>6, <1>7, LaunchStep DEF Trading

LEMMA ClaimStep ==
  ASSUME Panels, Claim, pc' = "lockbox"
  PROVE  BacktestInv'
<1> DEFINE pending == UNION {SignalsOf(h, Lockbox(h)) : h \in Horizons}
<1>1. /\ pc = "claim"
      /\ train' = UNION {{h} \X Development(h) : h \in Horizons} /\ Launch(pending)
  BY DEF Claim, Goto
<1>2. \A h \in Horizons : Loaded(h)
  BY <1>1 DEF Panels
<1>3. \A s \in pending : s.symbol \in Symbols /\ s.horizon \in Horizons /\ s.at \in Lockbox(s.horizon)
  BY DEF SignalsOf
<1>4. \A row \in train' : row \in Horizons \X (0..LastClock) /\ row[2] \in Development(row[1])
  BY <1>1, <1>2, DevelopmentIsPriced
<1>5. \A s \in pending : Priced(s.horizon, s.at)
  BY <1>2, <1>3, RowIsPriced DEF Lockbox
<1> HIDE DEF pending
<1>6. \A row \in train', s \in pending : row[1] = s.horizon => LabelAt(row[1], row[2]) <= s.at
  BY <1>2, <1>3, <1>4, LockboxIsLater
<1> QED
  BY <1>1, <1>3, <1>4, <1>5, <1>6, LaunchStep DEF Trading

LEMMA BacktestStep == Panels /\ BacktestInv /\ [ResearchNext]_researchVars => BacktestInv'
<1> SUFFICES ASSUME Panels, BacktestInv, [ResearchNext]_researchVars
             PROVE  BacktestInv'
  OBVIOUS
<1>1. CASE Backtest
  <2>1. pc \in Trading /\ UNCHANGED <<pc, at, train>> /\ (Settle \/ Decide)
    BY <1>1 DEF Backtest, foldVars, Trading
  <2> QED
    BY <2>1, SettleStep, DecideStep
<1>2. CASE Forget /\ pc' \notin Trading
  BY <1>2 DEF Forget, Launch, BacktestInv, Trades, Aligned, TrainedBeforeTested, Trading
<1>3. CASE /\ UNCHANGED <<backtestVars, train>>
           /\ pc' \in Trading \/ pc \in Trading => pc' = pc /\ at' = at
  <2>1. Trades' /\ TrainedBeforeTested'
    BY <1>3 DEF backtestVars, BacktestInv, Trades, TrainedBeforeTested, Priced, OnClose, LabelAt
  <2>2. pc' = "fold" => pc = "fold" /\ at' = at
    BY <1>3 DEF Trading
  <2>3. Aligned'
    BY <1>3, <2>2 DEF backtestVars, BacktestInv, Aligned, OnClose
  <2> QED
    BY <2>1, <2>3 DEF BacktestInv
<1> QED
  BY <1>1, <1>2, <1>3, StepsOfBacktest, FoldStep, ClaimStep

RebuildInv == Panels /\ BacktestInv

LEMMA RebuildInvariant == ResearchSpec => []RebuildInv
<1>1. ResearchInit => RebuildInv
  <2> SUFFICES ASSUME ResearchInit PROVE RebuildInv
    OBVIOUS
  <2>1. Panels
    <3>1. FirstClock \in FirstClock..LastClock /\ LastClock \in Nat
      BY ResearchAssumption
    <3> QED
      BY <3>1 DEF ResearchInit, Panels, Trading
  <2>2. BacktestInv
    BY DEF ResearchInit, Fresh, BacktestInv, Trades, Aligned, TrainedBeforeTested
  <2> QED
    BY <2>1, <2>2 DEF RebuildInv
<1>2. RebuildInv /\ [ResearchNext]_researchVars => RebuildInv'
  BY PanelsStep, BacktestStep DEF RebuildInv
<1> QED
  BY <1>1, <1>2, PTL DEF ResearchSpec

\* Whatever the horizons, the sizes of the panels and the candles that take two
\* to be labelled, no model is tested on a decision that one of its labels knows
\* (_walk_forward_folds, PooledPanelBuilder.build).
THEOREM TrainingIsPast == ResearchSpec => []TrainedBeforeTested
<1>1. RebuildInv => TrainedBeforeTested
  BY DEF RebuildInv, BacktestInv
<1> QED
  BY <1>1, RebuildInvariant, PTL

\* A walk-forward backtest of one horizon looks ahead of no decision
\* (EventDrivenBacktest.run, settle_until).
THEOREM FoldsAreCausal == ResearchSpec => []OneHorizonIsCausal
<1>1. RebuildInv => OneHorizonIsCausal
  BY DEF RebuildInv, BacktestInv, Aligned, OneHorizonIsCausal, SettledAreObserved
<1> QED
  BY <1>1, RebuildInvariant, PTL

\* What is on disk and who reads it.
OnDisk ==
    /\ commit \in Commits /\ runs \in 0..MaxRuns
    /\ DOMAIN records = Commits
    /\ report \in {"none", "older", "failed"} /\ manifest \in {"none", "older"}
    /\ worker \in {"down", "report", "manifest", "shadow", "authorized"}

LEMMA OnDiskStep == OnDisk /\ [ResearchNext]_researchVars => OnDisk'
<1> SUFFICES ASSUME OnDisk, [ResearchNext]_researchVars
             PROVE  OnDisk'
  OBVIOUS
<1>1. CASE Start
  BY <1>1, ResearchAssumption DEF Start, NoBacktest, diskVars, workerVars, OnDisk
<1>2. CASE Silent /\ ~Start
  <2>1. UNCHANGED diskVars /\ UNCHANGED workerVars
    BY <1>2, SilentLeavesDisk
  <2>2. UNCHANGED <<commit, runs>>
    BY <1>2 DEF Silent, Load, Split, NextHorizon, Fold, Backtest, FoldDone, LockboxDone, Raises, Crash, Goto
  <2> QED
    BY <2>1, <2>2 DEF diskVars, workerVars, OnDisk
<1>3. CASE Claim \/ Archive \/ WriteReport
  BY <1>3 DEF Claim, Archive, Archived, WriteReport, Goto, workerVars, OnDisk
<1>4. CASE WriteEvidence \/ WriteNoEvidence
  BY <1>4 DEF WriteEvidence, WriteNoEvidence, Goto, workerVars, OnDisk
<1>5. CASE AppendTrial \/ RecordFailure
  BY <1>5 DEF AppendTrial, RecordFailure, Goto, workerVars, OnDisk
<1>6. CASE Worker
  BY <1>6 DEF Worker, ReadReport, ReadManifest, KeepManifest, Restart, Others, diskVars, OnDisk
<1>7. CASE Candle \/ CheckOut \/ UNCHANGED researchVars
  BY <1>7 DEF Candle, CheckOut, Others, diskVars, workerVars, researchVars, OnDisk
<1> QED
  BY <1>1, <1>2, <1>3, <1>4, <1>5, <1>6, <1>7, StepsOfResearch

\* The variables of a rebuild keep their types; a symbol is in one position at a
\* time, and none is left when its backtest is over.
THEOREM RebuildTypes == ResearchSpec => []ResearchTypeOK
<1>1. ResearchInit => OnDisk
  BY ResearchAssumption DEF ResearchInit, OnDisk
<1>2. RebuildInv /\ OnDisk => ResearchTypeOK
  BY DEF RebuildInv, Panels, BacktestInv, Trades, OnDisk, ResearchTypeOK, Trading
<1> QED
  BY <1>1, <1>2, OnDiskStep, RebuildInvariant, PTL DEF ResearchSpec

-----------------------------------------------------------------------------
(* Losses.                                                                 *)

LEMMA DaysInOrder ==
  ASSUME NEW t \in Nat, t <= LastClock
  PROVE  /\ Day(t) \in Days
         /\ \A u \in Nat : u <= t => Day(u) <= Day(t)
<1>1. DayLength \in Nat \ {0} /\ LastDay \in Nat /\ LastClock \in Nat
      /\ LastClock < DayLength * (LastDay + 1)
  BY BacktestAssumption, ResearchAssumption
<1>2. PICK k \in Nat : k = Day(t) /\ k * DayLength <= t
  BY <1>1, Division DEF Day
<1>3. k < LastDay + 1
  <2>1. k * DayLength < (LastDay + 1) * DayLength
    <3>1. (LastDay + 1) * DayLength = DayLength * (LastDay + 1) /\ k * DayLength \in Int
          /\ (LastDay + 1) * DayLength \in Int
      BY <1>1
    <3> QED
      BY <1>1, <1>2, <3>1
  <2> QED
    BY <1>1, <2>1, Products
<1>4. ASSUME NEW u \in Nat, u <= t
      PROVE  Day(u) <= Day(t)
  <2>1. PICK j \in Nat : j = Day(u) /\ j * DayLength <= u
    BY <1>1, Division DEF Day
  <2>2. t < k * DayLength + DayLength
    BY <1>1, <1>2, Division DEF Day
  <2>3. (k + 1) * DayLength = k * DayLength + DayLength
    BY <1>1
  <2>4. j * DayLength < (k + 1) * DayLength
    <3>1. j * DayLength \in Int /\ k * DayLength \in Int
      BY <1>1
    <3> QED
      BY <1>1, <1>4, <2>1, <2>2, <2>3, <3>1
  <2>5. j < k + 1
    BY <1>1, <2>4, Products
  <2> QED
    BY <1>2, <2>1, <2>5
<1> QED
  BY <1>1, <1>2, <1>3, <1>4 DEF Days

EndingOn(trades, d) == {trade \in trades : Day(trade.exit) = d}

\* No day that a loss has been booked on is ahead of a decision, and what is open
\* cannot take a day below the bound.
Losses ==
    /\ daily \in [Days -> Int]
    /\ \A d \in Days, s \in signals : daily[d] # 0 => d <= Day(s.at)
    /\ \A d \in Days :
          daily[d] - Cardinality(EndingOn(open, d)) > -(DailyLimit + Cardinality(Symbols))

\* A symbol has one position.
LEMMA OnePositionEach ==
  ASSUME NEW trades, \A a, b \in trades : a.symbol = b.symbol => a = b,
         \A trade \in trades : trade.symbol \in Symbols, NEW d
  PROVE  /\ IsFiniteSet(EndingOn(trades, d)) /\ Cardinality(EndingOn(trades, d)) \in Nat
         /\ Cardinality(EndingOn(trades, d)) <= Cardinality(Symbols)
<1> DEFINE some == EndingOn(trades, d)
           symbol == [trade \in some |-> trade.symbol]
<1>1. symbol \in Injection(some, Symbols)
  <2>1. some \subseteq trades
    BY DEF EndingOn
  <2> HIDE DEF some
  <2>2. symbol \in [some -> Symbols]
    BY <2>1
  <2>3. \A a, b \in DOMAIN symbol : symbol[a] = symbol[b] => a = b
    BY <2>1
  <2> QED
    BY <2>2, <2>3 DEF Injection, IsInjective
<1> HIDE DEF symbol, some
<1>2. IsFiniteSet(some) /\ Cardinality(some) <= Cardinality(Symbols)
  BY <1>1, BacktestAssumption, FS_Injection
<1> QED
  BY <1>2, FS_CardinalityType DEF some

LEMMA LossBounds ==
  DailyLimit \in Nat /\ DailyLimit >= 1 /\ Cardinality(Symbols) \in Nat
BY BacktestAssumption, FS_CardinalityType

LEMMA SettleLosses ==
  ASSUME BacktestInv, Losses, Settle
  PROVE  Losses'
<1>1. PICK trade \in Foremost :
         /\ open' = open \ {trade} /\ UNCHANGED signals
         /\ daily' = [daily EXCEPT ![Day(trade.exit)] = @ + trade.pnl]
  BY DEF Settle
<1>2. trade \in Due /\ trade \in open
  BY <1>1 DEF Foremost, Due
<1>3. /\ trade.exit \in Nat /\ trade.exit <= LastClock /\ trade.pnl \in {-1, 1}
      /\ LastClock \in Nat
  BY <1>2, ResearchAssumption DEF BacktestInv, Trades
<1> DEFINE today == Day(trade.exit)
<1>4. today \in Days
  BY <1>3, DaysInOrder
<1> HIDE DEF today
<1>5. /\ daily' \in [Days -> Int] /\ daily'[today] = daily[today] + trade.pnl
      /\ \A d \in Days : d # today => daily'[d] = daily[d]
  <2>1. daily' = [daily EXCEPT ![today] = daily[today] + trade.pnl]
    BY <1>1 DEF today
  <2> QED
    BY <1>3, <1>4, <2>1 DEF Losses
<1>6. ASSUME NEW s \in signals
      PROVE  today <= Day(s.at)
  <2>0. \A other \in signals : other.at \in Nat /\ other.at <= LastClock
    <3> SUFFICES ASSUME NEW other \in signals PROVE other.at \in Nat /\ other.at <= LastClock
      OBVIOUS
    <3>1. other.horizon \in Nat /\ other.at \in Nat /\ other.at + 2 * other.horizon <= LastClock
      BY HorizonType DEF BacktestInv, Trades, Priced
    <3> QED
      BY <1>3, <3>1
  <2> DEFINE moments == {other.at : other \in signals}
  <2>1. moments \subseteq Nat /\ s.at \in moments
    BY <2>0
  <2>2. PICK u \in signals : \A other \in signals : u.at <= other.at
    <3>1. PICK m \in moments : \A n \in moments : m <= n
      <4> HIDE DEF moments
      <4> QED
        BY <2>1, SmallestOf
    <3> QED
      BY <3>1
  <2>3. u \in Upcoming
    BY <2>2 DEF Upcoming
  <2>4. trade.exit <= u.at /\ u.at <= s.at
    BY <1>2, <2>2, <2>3 DEF Due
  <2>5. trade.exit <= s.at
    BY <1>3, <2>0, <2>4
  <2> QED
    BY <1>3, <2>0, <2>5, DaysInOrder DEF today
<1>7. ASSUME NEW d \in Days
      PROVE  daily'[d] - Cardinality(EndingOn(open', d)) > -(DailyLimit + Cardinality(Symbols))
  <2>1. /\ IsFiniteSet(EndingOn(open, d)) /\ Cardinality(EndingOn(open, d)) \in Nat
        /\ daily[d] \in Int
        /\ daily[d] - Cardinality(EndingOn(open, d)) > -(DailyLimit + Cardinality(Symbols))
    BY <1>7, OnePositionEach DEF BacktestInv, Trades, Losses
  <2>2. CASE d # today
    <3>1. EndingOn(open', d) = EndingOn(open, d)
      BY <1>1, <2>2 DEF EndingOn, today
    <3> QED
      BY <1>5, <2>1, <2>2, <3>1
  <2>3. CASE d = today
    <3>1. EndingOn(open', d) = EndingOn(open, d) \ {trade} /\ trade \in EndingOn(open, d)
      BY <1>1, <1>2, <2>3 DEF EndingOn, today
    <3>2. Cardinality(EndingOn(open', d)) = Cardinality(EndingOn(open, d)) - 1
      BY <2>1, <3>1, FS_RemoveElement
    <3> QED
      BY <1>3, <1>5, <2>1, <2>3, <3>2, LossBounds
  <2> QED
    BY <2>2, <2>3
<1> QED
  BY <1>1, <1>5, <1>6, <1>7 DEF Losses

LEMMA DecideLosses ==
  ASSUME BacktestInv, BacktestInv', Losses, Decide
  PROVE  Losses'
<1>1. PICK s \in Upcoming :
         /\ signals' = signals \ {s} /\ UNCHANGED daily
         /\ \/ UNCHANGED open
            \/ ~Refused(s) /\ \E trade \in Outcomes(s) : open' = open \cup {trade}
  BY DEF Decide
<1>2. s \in signals
  BY DEF Upcoming
<1>3. \A d \in Days, other \in signals' : daily'[d] # 0 => d <= Day(other.at)
  BY <1>1 DEF Losses
<1>4. CASE UNCHANGED open
  BY <1>1, <1>3, <1>4 DEF Losses
<1>5. CASE ~Refused(s) /\ \E trade \in Outcomes(s) : open' = open \cup {trade}
  <2>1. PICK trade \in Outcomes(s) : open' = open \cup {trade}
    BY <1>5
  <2>2. trade.exit \in Nat /\ s.at < trade.exit /\ trade.exit <= LastClock /\ s.at \in Nat
        /\ LastClock \in Nat
    <3>1. trade.exit \in Nat /\ trade.available \in Nat /\ s.at < trade.exit
          /\ trade.exit <= trade.available /\ trade.available <= LastClock /\ s.at \in Nat
      BY <1>2, LabelFacts DEF BacktestInv, Trades, Priced
    <3> QED
      BY <3>1, ResearchAssumption
  <2> DEFINE now == Day(s.at)
             then == Day(trade.exit)
  <2>3. now \in Days /\ then \in Days /\ now <= then
    <3>1. s.at <= LastClock /\ s.at <= trade.exit
      BY <2>2
    <3> QED
      BY <2>2, <3>1, DaysInOrder
  <2>4. daily[now] > -DailyLimit
    <3>1. ~(daily[now] <= -DailyLimit)
      BY <1>5 DEF Refused, LimitReached
    <3> QED
      BY <2>3, <3>1, LossBounds DEF Losses
  <2> HIDE DEF now, then
  <2>5. ASSUME NEW d \in Days
        PROVE  daily[d] - Cardinality(EndingOn(open', d)) > -(DailyLimit + Cardinality(Symbols))
    <3>0. /\ Cardinality(EndingOn(open', d)) \in Nat /\ daily[d] \in Int
          /\ Cardinality(EndingOn(open', d)) <= Cardinality(Symbols)
      BY OnePositionEach DEF BacktestInv, Trades, Losses
    <3>1. CASE d # then
      <4>1. EndingOn(open', d) = EndingOn(open, d)
        BY <2>1, <3>1 DEF EndingOn, then
      <4> QED
        BY <4>1 DEF Losses
    <3>2. CASE d = then /\ d = now
      BY <2>4, <3>0, <3>2, LossBounds
    <3>3. CASE d = then /\ d # now
      <4>1. daily[d] = 0
        <5>1. ~(d <= now)
          BY <2>3, <3>3 DEF Days
        <5> QED
          BY <1>2, <5>1 DEF Losses, now
      <4> QED
        BY <3>0, <4>1, LossBounds
    <3> QED
      BY <3>1, <3>2, <3>3
  <2> QED
    BY <1>1, <1>3, <2>5 DEF Losses
<1> QED
  BY <1>1, <1>4, <1>5

LEMMA LaunchLosses ==
  ASSUME NEW pending, Launch(pending)
  PROVE  Losses'
<1>1. daily' = [d \in Days |-> 0] /\ open' = {}
  BY DEF Launch
<1>2. \A d : EndingOn(open', d) = {}
  BY <1>1 DEF EndingOn
<1>3. Cardinality({}) = 0
  BY FS_EmptySet
<1> QED
  BY <1>1, <1>2, <1>3, LossBounds DEF Losses

LEMMA LossesStep ==
  RebuildInv /\ RebuildInv' /\ Losses /\ [ResearchNext]_researchVars => Losses'
<1> SUFFICES ASSUME RebuildInv, RebuildInv', Losses, [ResearchNext]_researchVars
             PROVE  Losses'
  OBVIOUS
<1>1. CASE Backtest
  BY <1>1, SettleLosses, DecideLosses DEF Backtest, RebuildInv
<1>2. CASE Fold /\ pc' = "fold"
  <2>1. Launch(SignalsOf(at, Test(Development(at))))
    BY <1>2 DEF Fold, Goto
  <2> QED
    BY <2>1, LaunchLosses
<1>3. CASE Claim /\ pc' = "lockbox"
  <2>1. Launch(UNION {SignalsOf(h, Lockbox(h)) : h \in Horizons})
    BY <1>3 DEF Claim, Goto
  <2> QED
    BY <2>1, LaunchLosses
<1>4. CASE Forget
  BY <1>4, LaunchLosses DEF Forget
<1>5. CASE UNCHANGED backtestVars
  BY <1>5 DEF backtestVars, Losses, EndingOn
<1> QED
  BY <1>1, <1>2, <1>3, <1>4, <1>5, StepsOfBacktest

\* Whatever paths the candles take, no day of a backtest loses more than its
\* limit and the positions a portfolio can hold (EventDrivenBacktest.run: the
\* capital-preservation limits count what is settled).
THEOREM DaysAreBounded == ResearchSpec => []DayLossBounded
<1>1. ResearchInit => Losses
  <2> SUFFICES ASSUME ResearchInit PROVE Losses
    OBVIOUS
  <2>1. daily = [d \in Days |-> 0] /\ open = {} /\ signals = {}
    BY DEF ResearchInit, Fresh
  <2>2. \A d : EndingOn(open, d) = {}
    BY <2>1 DEF EndingOn
  <2>3. Cardinality({}) = 0
    BY FS_EmptySet
  <2> QED
    BY <2>1, <2>2, <2>3, LossBounds DEF Losses
<1>2. RebuildInv /\ Losses => DayLossBounded
  <2> SUFFICES ASSUME RebuildInv, Losses, NEW d \in Days
               PROVE  daily[d] > -(DailyLimit + Cardinality(Symbols))
    BY DEF DayLossBounded
  <2>1. Cardinality(EndingOn(open, d)) \in Nat /\ daily[d] \in Int
        /\ daily[d] - Cardinality(EndingOn(open, d)) > -(DailyLimit + Cardinality(Symbols))
    BY OnePositionEach DEF RebuildInv, BacktestInv, Trades, Losses
  <2> QED
    BY <2>1, LossBounds
<1> QED
  BY <1>1, <1>2, LossesStep, RebuildInvariant, PTL DEF ResearchSpec

-----------------------------------------------------------------------------
(* Research on events: blackouts keep the evidence they were based on, and  *)
(* revisions are a history, although drafts grow stale.                     *)

\* The jobs keep their types (migrate, and the models that rows are read into).
THEOREM JobsTypes == JobsSpec => []JobsTypeOK
<1>1. JobsInit => JobsTypeOK
  BY JobsAssumption DEF JobsInit, JobsTypeOK, Statuses, Source, NoSource
<1>2. JobsTypeOK /\ [JobsNext]_jobVars => JobsTypeOK'
  <2> SUFFICES ASSUME JobsTypeOK, [JobsNext]_jobVars
               PROVE  JobsTypeOK'
    OBVIOUS
  <2> USE JobsAssumption DEF JobsTypeOK
  <2>1. CASE Hour
    BY <2>1 DEF Hour
  <2>2. ASSUME NEW e \in Events, RecordEvent(e)
        PROVE  JobsTypeOK'
    BY <2>2 DEF RecordEvent
  <2>3. ASSUME NEW s \in Sources, AddEventSource(s)
        PROVE  JobsTypeOK'
    BY <2>3, known \subseteq Events DEF AddEventSource, Recorded, Source
  <2>4. ASSUME NEW j \in Jobs, CreateJob(j)
        PROVE  JobsTypeOK'
    <3>1. "DETECTED" \in Statuses
      <4>1. "DETECTED" = Stages[1] /\ 1 \in DOMAIN Stages
        BY DEF Stages
      <4> QED  BY <4>1 DEF Statuses, Range
    <3> QED  BY <2>4, <3>1 DEF CreateJob
  <2>5. ASSUME NEW j \in Jobs, Transition(j)
        PROVE  JobsTypeOK'
    <3>1. NextStates(state[j]) \subseteq Statuses
      <4>1. \A i \in DOMAIN Stages : i # Len(Stages) => i + 1 \in DOMAIN Stages
        <5>1. DOMAIN Stages = 1..7 /\ Len(Stages) = 7
          BY DEF Stages
        <5> QED  BY <5>1
      <4>2. \A i \in DOMAIN Stages : Stages[i] \in Range(Stages)
        BY DEF Range
      <4> HIDE DEF JobsTypeOK
      <4> QED  BY <4>1, <4>2 DEF NextStates, Statuses, Closed
    <3> QED  BY <2>5, <3>1 DEF Transition
  <2>6. ASSUME NEW old \in Jobs, NEW new \in Jobs, Supersede(old, new)
        PROVE  JobsTypeOK'
    BY <2>6 DEF Supersede, Statuses, Closed
  <2>7. ASSUME NEW w \in Analysts, NEW j \in Jobs, DraftRevision(w, j)
        PROVE  JobsTypeOK'
    <3>1. Len(revisions[j]) \in Nat
      OBVIOUS
    <3> QED  BY <2>7, <3>1 DEF DraftRevision, Draft
  <2>8. ASSUME NEW w \in Analysts, SaveRevision(w)
        PROVE  JobsTypeOK'
    <3>1. draft[w] \in Draft
      BY <2>8 DEF SaveRevision
    <3>2. revisions' \in [Jobs -> Seq(Revision)]
      <4> DEFINE new == [event |-> draft[w].event, number |-> draft[w].number,
                         blackout |-> draft[w].blackout, until |-> draft[w].until]
      <4>1. draft[w].job \in Jobs /\ new \in Revision
        BY <3>1 DEF Draft, Revision
      <4>2. revisions[draft[w].job] \in Seq(Revision)
        BY <4>1
      <4> HIDE DEF new
      <4>3. Append(revisions[draft[w].job], new) \in Seq(Revision)
        BY <4>1, <4>2
      <4>4. revisions' \in {revisions,
              [revisions EXCEPT ![draft[w].job] = Append(revisions[draft[w].job], new)]}
        BY <2>8 DEF SaveRevision, new
      <4> QED  BY <4>1, <4>3, <4>4
    <3> QED  BY <2>8, <3>2 DEF SaveRevision
  <2>9. CASE UNCHANGED jobVars
    BY <2>9 DEF jobVars
  <2> QED
    BY <2>1, <2>2, <2>3, <2>4, <2>5, <2>6, <2>7, <2>8, <2>9 DEF JobsNext
<1> QED  BY <1>1, <1>2, PTL DEF JobsSpec

-----------------------------------------------------------------------------
\* What is vouched for stays so: reports that come again change nothing.
LEMMA PrimaryStays ==
  ASSUME JobsTypeOK, [JobsNext]_jobVars, NEW e, Primary(e)
  PROVE  Primary(e)'
<1>1. PICK s \in Sources : sources[s].event = e /\ sources[s].tier = "A" /\ sources[s].verified
  BY DEF Primary
<1>2. sources[s] # NoSource
  BY <1>1 DEF NoSource
<1>3. sources'[s] = sources[s]
  <2>1. CASE UNCHANGED sources
    BY <2>1
  <2>2. ASSUME NEW t \in Sources, AddEventSource(t)
        PROVE  sources'[s] = sources[s]
    BY <2>2, <1>2 DEF AddEventSource, Recorded, JobsTypeOK
  <2> QED
    BY <2>1, <2>2 DEF JobsNext, jobVars, Hour, RecordEvent, CreateJob, Transition, Supersede,
                      DraftRevision, SaveRevision
<1> QED  BY <1>1, <1>3 DEF Primary

\* A step leaves the revisions alone or is the saving of one that is accepted.
LEMMA RevisionsStep ==
  ASSUME JobsTypeOK, [JobsNext]_jobVars, revisions' # revisions
  PROVE  \E w \in Analysts :
           /\ draft[w] \in Draft /\ Accepts(draft[w])
           /\ UNCHANGED <<state, sources>>
           /\ revisions' = [revisions EXCEPT ![draft[w].job] =
                              Append(@, [event |-> draft[w].event, number |-> draft[w].number,
                                         blackout |-> draft[w].blackout,
                                         until |-> draft[w].until])]
<1>1. PICK w \in Analysts : SaveRevision(w)
  BY DEF JobsNext, jobVars, Hour, RecordEvent, AddEventSource, CreateJob, Transition, Supersede,
         DraftRevision
<1>2. draft[w] \in Draft
  BY <1>1 DEF SaveRevision, JobsTypeOK
<1> QED  BY <1>1, <1>2 DEF SaveRevision

\* Of the revisions that are out of time the evidence stays too, which makes the
\* property inductive.
Based == \A j \in Jobs : \A i \in DOMAIN revisions[j] :
           revisions[j][i].blackout => Primary(revisions[j][i].event)

\* A blackout in force has a verified primary source on record (save_revision,
\* add_event_source).
THEOREM BlackoutsArePrimary == JobsSpec => []BlackoutIsPrimary
<1>1. JobsInit => Based
  BY DEF JobsInit, Based
<1>2. JobsTypeOK /\ Based /\ [JobsNext]_jobVars => Based'
  <2> SUFFICES ASSUME JobsTypeOK, Based, [JobsNext]_jobVars,
                      NEW j \in Jobs, NEW i, NEW new, i \in DOMAIN revisions'[j],
                      new = revisions'[j][i], new.blackout
               PROVE  Primary(new.event)'
    BY DEF Based
  <2>1. CASE i \in DOMAIN revisions[j] /\ revisions[j][i] = new
    <3>1. Primary(new.event)
      BY <2>1 DEF Based
    <3> QED  BY <3>1, PrimaryStays
  <2>2. CASE ~(i \in DOMAIN revisions[j] /\ revisions[j][i] = new)
    <3>1. PICK w \in Analysts :
            /\ draft[w] \in Draft /\ Accepts(draft[w])
            /\ revisions' = [revisions EXCEPT ![draft[w].job] =
                               Append(@, [event |-> draft[w].event, number |-> draft[w].number,
                                          blackout |-> draft[w].blackout,
                                          until |-> draft[w].until])]
      BY <2>2, RevisionsStep
    <3> DEFINE added == [event |-> draft[w].event, number |-> draft[w].number,
                         blackout |-> draft[w].blackout, until |-> draft[w].until]
    <3>2. revisions[j] \in Seq(Revision) /\ added \in Revision
      BY <3>1 DEF JobsTypeOK, Draft, Revision
    <3>3. revisions'[j] # revisions[j]
      BY <2>2
    <3>4. revisions'[j] = Append(revisions[j], added)
      BY <3>1, <3>3 DEF JobsTypeOK, Draft
    <3> HIDE DEF added
    <3>5. new = added
      BY <2>2, <3>2, <3>4
    <3>6. new.event = draft[w].event /\ draft[w].blackout
      BY <3>5 DEF added
    <3>7. Primary(new.event)
      BY <3>1, <3>6 DEF Accepts
    <3> QED  BY <3>7, PrimaryStays
  <2> QED  BY <2>1, <2>2
<1>3. JobsTypeOK /\ Based => BlackoutIsPrimary
  BY DEF Based, BlackoutIsPrimary, Blackouts, Range
<1> QED  BY <1>1, <1>2, <1>3, JobsTypes, PTL DEF JobsSpec

-----------------------------------------------------------------------------
\* No revision is rewritten, none follows the closing of its job, and they are
\* numbered without gap (save_revision, transition).
THEOREM RevisionHistory == JobsSpec => RevisionsAreHistory
<1>1. JobsTypeOK /\ [JobsNext]_jobVars =>
        [\A j \in Jobs :
          /\ IsPrefix(revisions[j], revisions'[j])
          /\ revisions'[j] # revisions[j] =>
               state[j] \notin Closed /\ Last(revisions'[j]).number = Len(revisions'[j])]_jobVars
  <2> SUFFICES ASSUME JobsTypeOK, [JobsNext]_jobVars, NEW j \in Jobs
               PROVE  /\ IsPrefix(revisions[j], revisions'[j])
                      /\ revisions'[j] # revisions[j] =>
                           /\ state[j] \notin Closed
                           /\ Last(revisions'[j]).number = Len(revisions'[j])
    OBVIOUS
  <2>0. revisions[j] \in Seq(Revision)
    BY DEF JobsTypeOK
  <2>1. CASE revisions'[j] = revisions[j]
    BY <2>0, <2>1 DEF IsPrefix
  <2>2. CASE revisions'[j] # revisions[j]
    <3>1. PICK w \in Analysts :
            /\ draft[w] \in Draft /\ Accepts(draft[w])
            /\ revisions' = [revisions EXCEPT ![draft[w].job] =
                               Append(@, [event |-> draft[w].event, number |-> draft[w].number,
                                          blackout |-> draft[w].blackout,
                                          until |-> draft[w].until])]
      BY <2>2, RevisionsStep
    <3> DEFINE new == [event |-> draft[w].event, number |-> draft[w].number,
                       blackout |-> draft[w].blackout, until |-> draft[w].until]
    <3>2. j = draft[w].job /\ revisions'[j] = Append(revisions[j], new)
      BY <3>1, <2>2 DEF JobsTypeOK, Draft
    <3>3. new \in Revision
      BY <3>1 DEF Draft, Revision
    <3>4. IsPrefix(revisions[j], Append(revisions[j], new))
      BY <2>0, <3>3 DEF IsPrefix
    <3>5. state[j] \notin Closed
      BY <3>1, <3>2 DEF Accepts, Closed
    <3>6. Last(Append(revisions[j], new)).number = Len(Append(revisions[j], new))
      BY <2>0, <3>1, <3>2, <3>3 DEF Accepts, Last
    <3> QED  BY <3>2, <3>4, <3>5, <3>6
  <2> QED  BY <2>1, <2>2
<1> QED  BY <1>1, JobsTypes, PTL DEF JobsSpec, RevisionsAreHistory
=============================================================================
