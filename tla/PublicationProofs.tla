------------------------- MODULE PublicationProofs -------------------------
(***************************************************************************)
(* Theorems about the publication of decisions, for every set of modes and *)
(* prices, any number of forecasts, timeouts and restarts: decisions are   *)
(* numbered without gap, differ from their predecessor, never rest on      *)
(* older forecasts, and every ticket is explained by one of them.          *)
(***************************************************************************)
EXTENDS Publication, FiniteSetTheorems, TLAPS

(***************************************************************************)
(* A save that was interrupted may still publish, so the invariant speaks  *)
(* of every decision that is published or still may be: in a thread left   *)
(* behind, in the ticket of the running save, or chosen by it.  Checked   *)
(* are those already compared with the latest decision.                    *)
(***************************************************************************)
Orphaned == { Decision(o.what) : o \in { x \in orphans : x.call = "ticket" } }

Checked ==
  Orphaned \cup (IF stage = "ticket" THEN {Decision(ticket)}
                 ELSE IF stage = "position" THEN {chosen} ELSE {})

Candidates ==
  intents \cup Checked \cup (IF stage = "latest" /\ chosen /= NoDecision THEN {chosen} ELSE {})

\* No forecast of S is newer than one of the same mode in T.
Before(S, T) == \A f \in S, g \in T : f.mode = g.mode => f.at <= g.at

Typed ==
  /\ PublicationTypeOK
  /\ IsFiniteSet(forecasts) /\ IsFiniteSet(intents)
  /\ queue \in Seq(Modes) /\ tickets \in Seq(Drafts)
  /\ stage \in {"idle", "predict", "forecast", "read", "version", "latest", "position", "ticket"}
  /\ active \in Modes \cup {NoMode} /\ made \in 0..MaxForecasts
  /\ \A o \in orphans : o.call \in {"forecast", "ticket"}

\* What is decided on is in the database, and no ticket is there without its decision.
Explained ==
  /\ seen \subseteq forecasts
  /\ \A d \in Candidates : d.sources \subseteq forecasts
  /\ \A d \in Range(tickets) : Decision(d) \in intents

\* A candidate has at most the next version: if others published since, it is too small.
Numbered ==
  /\ DecisionsNumbered
  /\ \A i, j \in intents : i.version = j.version => i = j
  /\ \A d \in Candidates : d.version \in 1..(Cardinality(intents) + 1)

\* A checked decision that still has the next version differs from the latest decision.
Distinct ==
  /\ DecisionsDiffer
  /\ \A d \in Checked : d.version = Cardinality(intents) + 1 => d.sources /= LatestSources

\* What the running save has read is not older than what any candidate rests on.
Ordered ==
  /\ \A a, b \in Candidates : a.version < b.version => Before(a.sources, b.sources)
  /\ stage = "version" => \A a \in Candidates : Before(a.sources, Eligible(seen))

PublicationInv == Typed /\ Explained /\ Numbered /\ Distinct /\ Ordered

-----------------------------------------------------------------------------
(* Sequences.                                                              *)

LEMMA RangeOfAppend ==
  ASSUME NEW S, NEW s \in Seq(S), NEW e \in S
  PROVE  Range(Append(s, e)) = Range(s) \cup {e}
<1>1. /\ DOMAIN s = 1..Len(s) /\ DOMAIN Append(s, e) = 1..(Len(s) + 1)
      /\ Len(s) \in Nat /\ Append(s, e)[Len(s) + 1] = e
  OBVIOUS
<1>2. \A i \in 1..Len(s) : Append(s, e)[i] = s[i]
  OBVIOUS
<1>3. ASSUME NEW x \in Range(Append(s, e))  PROVE x \in Range(s) \cup {e}
  <2>1. PICK i \in 1..(Len(s) + 1) : x = Append(s, e)[i]
    BY <1>1 DEF Range
  <2>2. i \in 1..Len(s) \/ i = Len(s) + 1
    BY <1>1
  <2> QED
    BY <1>1, <1>2, <2>1, <2>2 DEF Range
<1>4. ASSUME NEW x \in Range(s)  PROVE x \in Range(Append(s, e))
  <2>1. PICK i \in 1..Len(s) : x = s[i]
    BY <1>1 DEF Range
  <2>2. i \in 1..(Len(s) + 1)
    BY <1>1
  <2> QED
    BY <1>1, <1>2, <2>1, <2>2 DEF Range
<1>5. e \in Range(Append(s, e))
  <2>1. Len(s) + 1 \in 1..(Len(s) + 1)
    BY <1>1
  <2> QED
    BY <1>1, <2>1 DEF Range
<1> QED
  BY <1>3, <1>4, <1>5

LEMMA InjectiveAppend ==
  ASSUME NEW S, NEW s \in Seq(S), NEW e \in S, IsInjective(s), e \notin Range(s)
  PROVE  IsInjective(Append(s, e))
BY DEF Range, IsInjective

LEMMA RangeOfTail ==
  ASSUME NEW S, NEW s \in Seq(S), s /= <<>>
  PROVE  Tail(s) \in Seq(S) /\ Head(s) \in Range(s) /\ Range(Tail(s)) \subseteq Range(s)
BY DEF Range

LEMMA InjectiveTail ==
  ASSUME NEW S, NEW s \in Seq(S), s /= <<>>, IsInjective(s)
  PROVE  IsInjective(Tail(s)) /\ Head(s) \notin Range(Tail(s))
BY DEF Range, IsInjective

LEMMA EmptyRange == Range(<<>>) = {} /\ IsInjective(<<>>)
BY DEF Range, IsInjective

-----------------------------------------------------------------------------
(* What the reads of a save return.                                        *)

LEMMA MaxOfInterval ==
  ASSUME NEW n \in Nat, n /= 0
  PROVE  Max(1..n) = n
BY DEF Max

\* The version read next is one more than the number of decisions.
LEMMA NextVersion ==
  ASSUME Typed, Numbered
  PROVE  /\ Cardinality(intents) \in Nat
         /\ NextDecisionVersion = Cardinality(intents) + 1
<1>1. Cardinality(intents) \in Nat /\ (Cardinality(intents) = 0 <=> intents = {})
  BY FS_CardinalityType, FS_EmptySet DEF Typed
<1>2. Versions = 1..Cardinality(intents)
  BY DEF Numbered, DecisionsNumbered
<1> QED
  BY <1>1, <1>2, MaxOfInterval DEF NextDecisionVersion

\* The latest decision is the one whose version is the number of decisions.
LEMMA LatestDecision ==
  ASSUME Typed, Numbered, NEW i \in intents, i.version = Cardinality(intents)
  PROVE  LatestSources = i.sources
<1>1. Cardinality(intents) \in Nat /\ Cardinality(intents) /= 0
  BY FS_CardinalityType, FS_EmptySet DEF Typed
<1>2. Max(Versions) = Cardinality(intents)
  BY <1>1, MaxOfInterval DEF Numbered, DecisionsNumbered
<1>3. \A j \in intents : j.version = Cardinality(intents) => j = i
  BY DEF Numbered
<1> QED
  BY <1>2, <1>3 DEF LatestSources

\* A forecast of the book is the newest of its mode, also among those not looked at.
LEMMA BookIsNewest ==
  ASSUME Typed, NEW S, S \subseteq forecasts
  PROVE  Before(S, Eligible(ActiveForecasts))
<1> SUFFICES ASSUME NEW f \in S, NEW g \in Eligible(ActiveForecasts), f.mode = g.mode,
                    ~(f.at <= g.at)
             PROVE  FALSE
  BY DEF Before
<1>1. f \in Forecasts /\ g \in Forecasts /\ f \in forecasts /\ g \in forecasts
      /\ g \in SignalBook(ActiveForecasts)
  BY DEF Eligible, SignalBook, ActiveForecasts, Typed, PublicationTypeOK
<1>2. f.at \in Nat /\ g.at \in Nat /\ g.at < f.at
  BY <1>1, Sizes DEF Forecasts
<1> DEFINE Newer(h) == { x \in forecasts : x.at > h.at }
<1>3. \A x \in forecasts : x.at \in Nat
  BY Sizes DEF Typed, PublicationTypeOK, Forecasts
<1>4. Newer(f) \subseteq Newer(g)
  BY <1>2, <1>3
<1>5. /\ IsFiniteSet(Newer(g)) /\ Cardinality(Newer(f)) <= Cardinality(Newer(g))
      /\ Cardinality(Newer(f)) \in Nat /\ Cardinality(Newer(g)) \in Nat
  <2>1. IsFiniteSet(Newer(g))
    BY FS_Subset DEF Typed
  <2> QED
    BY <2>1, <1>4, FS_Subset, FS_CardinalityType
<1>6. Cardinality(Newer(g)) < RowLimit
  BY <1>1 DEF Eligible, SignalBook, ActiveForecasts
<1>7. f \in ActiveForecasts
  BY <1>1, <1>5, <1>6, Sizes DEF ActiveForecasts
<1> QED
  BY <1>1, <1>2, <1>7 DEF SignalBook
-----------------------------------------------------------------------------
(* Types.                                                                  *)

LEMMA TypedInit == Init => Typed
<1> SUFFICES ASSUME Init PROVE Typed
  OBVIOUS
<1>1. IsFiniteSet({})
  BY FS_EmptySet
<1>2. Range(queue) = {} /\ IsInjective(queue) /\ Range(tickets) = {}
  BY EmptyRange DEF Init
<1> QED
  BY <1>1, <1>2, Sizes DEF Init, Typed, PublicationTypeOK

\* A publication adds a decision and a ticket, or nothing.
LEMMA PublishTyped ==
  ASSUME Typed, NEW d \in Drafts, Publish(d)
  PROVE  /\ forecasts' = forecasts /\ position' = position
         /\ intents' \subseteq Decisions /\ IsFiniteSet(intents')
         /\ tickets' \in Seq(Drafts) /\ Range(tickets') \subseteq Range(tickets) \cup {d}
<1>1. Decision(d) \in Decisions
  BY DEF Drafts, Decisions, Decision
<1>2. IsFiniteSet(intents \cup {Decision(d)})
  BY FS_AddElement DEF Typed
<1>3. Append(tickets, d) \in Seq(Drafts) /\ Range(Append(tickets, d)) = Range(tickets) \cup {d}
  BY RangeOfAppend DEF Typed
<1> QED
  BY <1>1, <1>2, <1>3 DEF Publish, Typed, PublicationTypeOK, dbVars

LEMMA ForecastTyped ==
  ASSUME Typed, NEW f \in Forecasts, PublishForecast(f)
  PROVE  /\ forecasts' \subseteq Forecasts /\ IsFiniteSet(forecasts')
         /\ forecasts \subseteq forecasts'
         /\ UNCHANGED <<intents, tickets, position>>
BY FS_AddElement DEF PublishForecast, Typed, PublicationTypeOK

LEMMA TypedStep ==
  ASSUME Typed, Numbered, [Next]_vars
  PROVE  Typed'
<1> USE Typed, Sizes, NoDecisionIsNone, ModesFinite
<1>0. CASE UNCHANGED vars
  BY <1>0 DEF vars, dbVars, saveVars, countVars, Typed, PublicationTypeOK
<1>1. CASE Enqueue
  <2>1. PICK m \in Modes \ (Range(queue) \cup {active}) : queue' = Append(queue, m)
    BY <1>1 DEF Enqueue
  <2>2. queue' \in Seq(Modes) /\ Range(queue') = Range(queue) \cup {m} /\ IsInjective(queue')
    BY <2>1, RangeOfAppend, InjectiveAppend DEF Typed, PublicationTypeOK
  <2> QED
    BY <1>1, <2>1, <2>2 DEF Enqueue, dbVars, saveVars, countVars, Typed, PublicationTypeOK
<1>2. CASE Take
  <2>1. /\ queue' \in Seq(Modes) /\ IsInjective(queue') /\ active' \in Modes
        /\ Range(queue') \subseteq Modes \ {active'}
    BY <1>2, RangeOfTail, InjectiveTail DEF Take, Typed, PublicationTypeOK
  <2> QED
    BY <1>2, <2>1 DEF Take, dbVars, countVars, Typed, PublicationTypeOK
<1>3. CASE Predict
  <2>1. active \in Modes
    BY <1>3 DEF Predict, Typed, PublicationTypeOK
  <2>2. mine' \in Forecasts /\ mine'.mode = active
    BY <1>3, <2>1 DEF Predict, Typed, Forecasts
  <2> QED
    BY <1>3, <2>1, <2>2 DEF Predict, dbVars, Typed, PublicationTypeOK
<1>4. CASE PredictFails
  BY <1>4 DEF PredictFails, Idle, dbVars, countVars, Typed, PublicationTypeOK
<1>5. CASE SaveForecast
  <2>1. mine \in Forecasts
    BY <1>5 DEF SaveForecast, Typed, PublicationTypeOK
  <2>2. /\ forecasts' \subseteq Forecasts /\ IsFiniteSet(forecasts')
        /\ UNCHANGED <<intents, tickets, position>>
    BY <1>5, <2>1, ForecastTyped DEF SaveForecast
  <2> QED
    BY <1>5, <2>2 DEF SaveForecast, Idle, countVars, Typed, PublicationTypeOK
<1>6. CASE ReadForecasts
  <2>1. seen' \subseteq Forecasts
    BY <1>6 DEF ReadForecasts, ActiveForecasts, Typed, PublicationTypeOK
  <2> QED
    BY <1>6, <2>1 DEF ReadForecasts, dbVars, countVars, Typed, PublicationTypeOK
<1>7. CASE ReadVersion
  <2>1. Eligible(seen) \subseteq Forecasts
    BY DEF Eligible, SignalBook, Typed, PublicationTypeOK
  <2>2. NextDecisionVersion \in Nat
    BY NextVersion
  <2> QED
    BY <1>7, <2>1, <2>2
    DEF ReadVersion, dbVars, countVars, Typed, PublicationTypeOK, Decisions
<1>8. CASE ReadLatest
  BY <1>8 DEF ReadLatest, IsNew, Idle, dbVars, countVars, Typed, PublicationTypeOK
<1>9. CASE ReadPosition
  <2>1. CASE Idle
    BY <1>9, <2>1 DEF ReadPosition, Idle, dbVars, countVars, Typed, PublicationTypeOK
  <2>2. CASE ~Idle
    <3>1. chosen \in Decisions
      BY <1>9 DEF ReadPosition, Typed, PublicationTypeOK
    <3>2. ticket' \in Drafts /\ stage' = "ticket" /\ UNCHANGED <<active, mine, seen, chosen>>
      BY <1>9, <2>2, <3>1 DEF ReadPosition, Typed, PublicationTypeOK, Drafts, Decisions
    <3> QED
      BY <1>9, <3>2 DEF ReadPosition, dbVars, countVars, Typed, PublicationTypeOK
  <2> QED
    BY <2>1, <2>2
<1>10. CASE SaveTicket
  <2>1. ticket \in Drafts
    BY <1>10 DEF SaveTicket, Typed, PublicationTypeOK
  <2>2. /\ forecasts' = forecasts /\ position' = position
        /\ intents' \subseteq Decisions /\ IsFiniteSet(intents')
        /\ tickets' \in Seq(Drafts) /\ Range(tickets') \subseteq Drafts
    BY <1>10, <2>1, PublishTyped DEF SaveTicket, Typed, PublicationTypeOK
  <2> QED
    BY <1>10, <2>2 DEF SaveTicket, Idle, countVars, Typed, PublicationTypeOK
<1>11. CASE SaveFails
  BY <1>11 DEF SaveFails, Idle, dbVars, countVars, Typed, PublicationTypeOK
<1>12. CASE TimeOut
  <2>1. \A o \in orphans' : /\ o.call \in {"forecast", "ticket"}
                            /\ o.what \in (IF o.call = "ticket" THEN Drafts ELSE Forecasts)
    BY <1>12 DEF TimeOut, Typed, PublicationTypeOK
  <2> QED
    BY <1>12, <2>1 DEF TimeOut, Idle, dbVars, Typed, PublicationTypeOK
<1>13. CASE OrphanPublishes
  <2>1. PICK o \in orphans :
          /\ orphans' = orphans \ {o}
          /\ \/ o.call = "forecast" /\ PublishForecast(o.what)
             \/ o.call = "ticket" /\ Publish(o.what)
    BY <1>13 DEF OrphanPublishes
  <2>2. /\ forecasts' \subseteq Forecasts /\ IsFiniteSet(forecasts')
        /\ intents' \subseteq Decisions /\ IsFiniteSet(intents')
        /\ tickets' \in Seq(Drafts) /\ Range(tickets') \subseteq Drafts
        /\ position' = position
    <3>1. CASE o.call = "forecast"
      <4>1. o.what \in Forecasts /\ PublishForecast(o.what)
        BY <2>1, <3>1 DEF Typed, PublicationTypeOK
      <4> QED
        BY <4>1, ForecastTyped DEF Typed, PublicationTypeOK
    <3>2. CASE o.call = "ticket"
      <4>1. o.what \in Drafts /\ Publish(o.what)
        BY <2>1, <3>2 DEF Typed, PublicationTypeOK
      <4> QED
        BY <4>1, PublishTyped DEF Typed, PublicationTypeOK
    <3> QED
      BY <3>1, <3>2, <2>1
  <2> QED
    BY <1>13, <2>1, <2>2 DEF OrphanPublishes, saveVars, countVars, Typed, PublicationTypeOK
<1>14. CASE ProcessRestarts
  <2>1. queue' \in Seq(Modes) /\ Range(queue') = {} /\ IsInjective(queue')
    BY <1>14, EmptyRange DEF ProcessRestarts
  <2> QED
    BY <1>14, <2>1 DEF ProcessRestarts, Idle, dbVars, Typed, PublicationTypeOK
<1>15. CASE ReceiptArrives
  BY <1>15 DEF ReceiptArrives, saveVars, countVars, Typed, PublicationTypeOK
<1> QED
  BY <1>0, <1>1, <1>2, <1>3, <1>4, <1>5, <1>6, <1>7, <1>8, <1>9, <1>10, <1>11, <1>12,
     <1>13, <1>14, <1>15 DEF Next, Consumer
-----------------------------------------------------------------------------
(* The shape of a step.                                                    *)

\* A publication adds one decision that no published one contradicts.
Adds(d) ==
  /\ intents' = intents \cup {d}
  /\ \A i \in intents : i.version = d.version => i.sources = d.sources
  /\ \A t \in Range(tickets') : t \in Range(tickets) \/ Decision(t) = d

Decides(d) == (intents' = intents /\ tickets' = tickets) \/ Adds(d)

LEMMA PublishShape ==
  ASSUME Typed, NEW d \in Drafts, Publish(d)
  PROVE  forecasts' = forecasts /\ Decides(Decision(d))
<1>1. Range(Append(tickets, d)) = Range(tickets) \cup {d}
  BY RangeOfAppend DEF Typed
<1> QED
  BY <1>1 DEF Publish, IntentRefused, Decision, Decides, Adds, dbVars

\* Forecasts are never removed, only a checked decision is published, only ReadLatest
\* checks one and only ReadVersion makes one.
Shape ==
  /\ forecasts \subseteq forecasts'
  /\ (intents' = intents /\ tickets' = tickets) \/ \E d \in Checked : Adds(d)
  /\ \/ Checked' \subseteq Checked
     \/ ReadLatest /\ IsNew(chosen) /\ Checked' \subseteq Checked \cup {chosen}
  /\ \/ Candidates' \subseteq Candidates
     \/ /\ ReadVersion /\ Candidates' \subseteq Candidates \cup {chosen'}
        /\ chosen' = [version |-> NextDecisionVersion, sources |-> Eligible(seen)]

\* Steps that leave database, threads and ticket alone and chosen nothing.
LEMMA QuietShape ==
  ASSUME Typed, forecasts \subseteq forecasts', UNCHANGED <<intents, tickets, orphans>>,
         \/ UNCHANGED <<stage, chosen, ticket>>
         \/ stage' \notin {"latest", "position", "ticket"}
  PROVE  Shape
BY DEF Shape, Candidates, Checked, Orphaned, Decision

LEMMA StepShape ==
  ASSUME Typed, [Next]_vars
  PROVE  Shape
<1> USE Typed
<1>0. CASE UNCHANGED vars
  BY <1>0, QuietShape DEF vars, dbVars, saveVars
<1>1. CASE Enqueue \/ ReceiptArrives
  BY <1>1, QuietShape DEF Enqueue, ReceiptArrives, dbVars, saveVars
<1>2. CASE Take \/ Predict \/ PredictFails
  BY <1>2, QuietShape DEF Take, Predict, PredictFails, Idle, dbVars
<1>3. CASE SaveForecast
  <2>1. mine \in Forecasts /\ PublishForecast(mine)
    BY <1>3 DEF SaveForecast, Typed, PublicationTypeOK
  <2> QED
    BY <1>3, <2>1, ForecastTyped, QuietShape DEF SaveForecast, Idle
<1>4. CASE ReadForecasts \/ SaveFails
  BY <1>4, QuietShape DEF ReadForecasts, SaveFails, Idle, dbVars
<1>5. CASE ReadVersion
  <2>1. UNCHANGED <<forecasts, intents, tickets, orphans>> /\ stage' = "latest" /\ stage = "version"
    BY <1>5 DEF ReadVersion, dbVars
  <2>2. Checked' = Checked
    BY <2>1 DEF Checked, Orphaned, Decision
  <2>3. Candidates' \subseteq Candidates \cup (IF chosen' /= NoDecision THEN {chosen'} ELSE {})
    BY <2>1, <2>2 DEF Candidates
  <2>4. chosen' = NoDecision \/ chosen' = [version |-> NextDecisionVersion, sources |-> Eligible(seen)]
    BY <1>5 DEF ReadVersion
  <2> QED
    BY <1>5, <2>1, <2>2, <2>3, <2>4 DEF Shape
<1>6. CASE ReadLatest
  <2>1. UNCHANGED <<forecasts, intents, tickets, orphans>> /\ stage = "latest"
    BY <1>6 DEF ReadLatest, dbVars
  <2>2. CASE ~IsNew(chosen)
    BY <1>6, <2>1, <2>2, QuietShape DEF ReadLatest, Idle
  <2>3. CASE IsNew(chosen)
    <3>1. chosen /= NoDecision /\ stage' = "position" /\ chosen' = chosen
      BY <1>6, <2>3 DEF ReadLatest, IsNew
    <3> QED
      BY <1>6, <2>1, <2>3, <3>1 DEF Shape, Candidates, Checked, Orphaned, Decision
  <2> QED
    BY <2>2, <2>3
<1>7. CASE ReadPosition
  <2>1. UNCHANGED <<forecasts, intents, tickets, orphans>> /\ stage = "position"
    BY <1>7 DEF ReadPosition, dbVars
  <2>2. CASE Idle
    BY <2>1, <2>2, QuietShape DEF Idle
  <2>3. CASE ~Idle
    <3>1. /\ stage' = "ticket" /\ chosen \in Decisions
          /\ ticket'.version = chosen.version /\ ticket'.sources = chosen.sources
      BY <1>7, <2>3 DEF ReadPosition, Typed, PublicationTypeOK
    <3>2. [version |-> ticket'.version, sources |-> ticket'.sources] = chosen
      BY <3>1 DEF Decisions
    <3> QED
      BY <2>1, <3>1, <3>2 DEF Shape, Candidates, Checked, Orphaned, Decision
  <2> QED
    BY <2>2, <2>3
<1>8. CASE SaveTicket
  <2>1. /\ stage = "ticket" /\ ticket \in Drafts /\ Publish(ticket) /\ stage' = "idle"
        /\ orphans' = orphans
    BY <1>8 DEF SaveTicket, Idle, Typed, PublicationTypeOK
  <2>2. forecasts' = forecasts /\ Decides(Decision(ticket)) /\ Decision(ticket) \in Checked
    BY <2>1, PublishShape DEF Checked
  <2>3. Checked' \subseteq Checked
    BY <2>1 DEF Checked, Orphaned, Decision
  <2> QED
    BY <2>1, <2>2, <2>3 DEF Shape, Decides, Adds, Candidates
<1>9. CASE TimeOut
  <2>1. UNCHANGED <<forecasts, intents, tickets>> /\ stage' = "idle"
    BY <1>9 DEF TimeOut, Idle, dbVars
  <2>2. Orphaned' \subseteq Checked
    BY <1>9 DEF TimeOut, Orphaned, Checked, Decision
  <2> QED
    BY <2>1, <2>2 DEF Shape, Candidates, Checked
<1>10. CASE OrphanPublishes
  <2>1. PICK o \in orphans :
          /\ orphans' = orphans \ {o}
          /\ \/ o.call = "forecast" /\ PublishForecast(o.what)
             \/ o.call = "ticket" /\ Publish(o.what)
    BY <1>10 DEF OrphanPublishes
  <2>2. UNCHANGED <<stage, chosen, ticket>>
    BY <1>10 DEF OrphanPublishes, saveVars
  <2>3. Checked' \subseteq Checked
    BY <2>1, <2>2 DEF Checked, Orphaned, Decision
  <2>4. CASE o.call = "forecast"
    <3>1. o.what \in Forecasts /\ PublishForecast(o.what)
      BY <2>1, <2>4 DEF Typed, PublicationTypeOK
    <3>2. forecasts \subseteq forecasts' /\ UNCHANGED <<intents, tickets>>
      BY <3>1, ForecastTyped
    <3> QED
      BY <2>2, <2>3, <3>2 DEF Shape, Candidates
  <2>5. CASE o.call = "ticket"
    <3>1. o.what \in Drafts /\ Publish(o.what) /\ Decision(o.what) \in Checked
      BY <2>1, <2>5 DEF Typed, PublicationTypeOK, Checked, Orphaned
    <3>2. forecasts' = forecasts /\ Decides(Decision(o.what))
      BY <3>1, PublishShape
    <3> QED
      BY <2>2, <2>3, <3>1, <3>2 DEF Shape, Decides, Adds, Candidates
  <2> QED
    BY <2>1, <2>4, <2>5
<1>11. CASE ProcessRestarts
  <2>1. UNCHANGED <<forecasts, intents, tickets>> /\ stage' = "idle" /\ orphans' = {}
    BY <1>11 DEF ProcessRestarts, Idle, dbVars
  <2> QED
    BY <2>1 DEF Shape, Candidates, Checked, Orphaned
<1> QED
  BY <1>0, <1>1, <1>2, <1>3, <1>4, <1>5, <1>6, <1>7, <1>8, <1>9, <1>10, <1>11
  DEF Next, Consumer
-----------------------------------------------------------------------------
(* Every step keeps the invariant.                                         *)

LEMMA CandidatesAreDecisions ==
  ASSUME Typed
  PROVE  Candidates \subseteq Decisions /\ Checked \subseteq Candidates
<1>1. \A d \in Drafts : Decision(d) \in Decisions
  BY DEF Decision, Drafts, Decisions
<1>2. Orphaned \subseteq Decisions
  BY <1>1 DEF Orphaned, Typed, PublicationTypeOK
<1>3. Checked \subseteq Decisions
  BY <1>1, <1>2 DEF Checked, Typed, PublicationTypeOK
<1>4. Candidates \subseteq Decisions
  BY <1>3 DEF Candidates, Typed, PublicationTypeOK
<1> QED
  BY <1>4 DEF Candidates

\* A publication that adds a decision gives it the next version.
LEMMA AddsNext ==
  ASSUME Typed, Numbered, NEW d \in Checked, Adds(d), intents' /= intents
  PROVE  /\ d.version = Cardinality(intents) + 1 /\ d \notin intents
         /\ Cardinality(intents') = Cardinality(intents) + 1
<1>1. d \in Decisions /\ d \in Candidates /\ intents \subseteq Decisions
  BY CandidatesAreDecisions DEF Typed, PublicationTypeOK
<1>2. Cardinality(intents) \in Nat
  BY NextVersion
<1>3. d.version \notin Versions
  <2>1. ASSUME NEW i \in intents, i.version = d.version PROVE FALSE
    <3>1. i.sources = d.sources /\ i \in Decisions
      BY <2>1, <1>1 DEF Adds
    <3>2. i = d
      BY <3>1, <2>1, <1>1 DEF Decisions
    <3> QED
      BY <3>2 DEF Adds
  <2> QED
    BY <2>1 DEF Versions
<1>4. d.version = Cardinality(intents) + 1
  BY <1>1, <1>2, <1>3 DEF Numbered, DecisionsNumbered
<1>5. d \notin intents
  BY <1>3 DEF Versions
<1> QED
  BY <1>4, <1>5, FS_AddElement DEF Typed, Adds

LEMMA NumberedStep ==
  ASSUME Typed, Numbered, Shape
  PROVE  Numbered'
<1> USE Typed
<1>1. /\ Cardinality(intents) \in Nat /\ NextDecisionVersion = Cardinality(intents) + 1
      /\ Versions = 1..Cardinality(intents)
  BY NextVersion DEF Numbered, DecisionsNumbered
<1>2. CASE intents' = intents
  <2>1. \A d \in Candidates' : d.version \in 1..(Cardinality(intents) + 1)
    BY <1>1 DEF Shape, Numbered
  <2> QED
    BY <1>2, <2>1 DEF Numbered, DecisionsNumbered, Versions
<1>3. CASE intents' /= intents
  <2>1. PICK d \in Checked : Adds(d)
    BY <1>3 DEF Shape
  <2>2. /\ d.version = Cardinality(intents) + 1 /\ intents' = intents \cup {d}
        /\ Cardinality(intents') = Cardinality(intents) + 1
    BY <1>3, <2>1, AddsNext DEF Adds
  <2>3. Versions' = 1..Cardinality(intents')
    <3>1. Versions' = Versions \cup {d.version}
      BY <2>2 DEF Versions
    <3> QED
      BY <3>1, <2>2, <1>1
  <2>4. \A i, j \in intents' : i.version = j.version => i = j
    <3>1. \A i \in intents : i.version \in 1..Cardinality(intents)
      BY <1>1 DEF Versions
    <3>2. \A i \in intents : i.version /= d.version
      BY <1>1, <2>2, <3>1
    <3> QED
      BY <3>2, <2>2 DEF Numbered
  <2>5. ~ReadVersion
    BY <1>3 DEF ReadVersion, dbVars
  <2>6. \A e \in Candidates' : e.version \in 1..(Cardinality(intents') + 1)
    BY <1>1, <2>2, <2>5 DEF Shape, Numbered
  <2> QED
    BY <2>3, <2>4, <2>6 DEF Numbered, DecisionsNumbered
<1> QED
  BY <1>2, <1>3

LEMMA DistinctStep ==
  ASSUME Typed, Numbered, Distinct, Shape
  PROVE  Distinct'
<1> USE Typed
<1>1. /\ Cardinality(intents) \in Nat /\ Versions = 1..Cardinality(intents)
      /\ intents \subseteq Decisions
  BY NextVersion DEF Numbered, DecisionsNumbered, PublicationTypeOK, Typed
<1>2. CASE intents' = intents
  <2>1. LatestSources' = LatestSources
    BY <1>2 DEF LatestSources, Versions
  <2>2. \A d \in Checked' : d.version = Cardinality(intents) + 1 => d.sources /= LatestSources
    BY DEF Shape, Distinct, IsNew
  <2> QED
    BY <1>2, <2>1, <2>2 DEF Distinct, DecisionsDiffer
<1>3. CASE intents' /= intents
  <2>1. PICK d \in Checked : Adds(d)
    BY <1>3 DEF Shape
  <2>2. /\ d.version = Cardinality(intents) + 1 /\ intents' = intents \cup {d}
        /\ Cardinality(intents') = Cardinality(intents) + 1
    BY <1>3, <2>1, AddsNext DEF Adds
  <2>3. \A i \in intents : i.version \in 1..Cardinality(intents)
    BY <1>1 DEF Versions
  <2>4. DecisionsDiffer'
    <3> SUFFICES ASSUME NEW i \in intents', NEW j \in intents', j.version = i.version + 1
                 PROVE  i.sources /= j.sources
      BY DEF DecisionsDiffer
    <3>1. CASE j = d
      <4>1. i \in intents /\ i.version = Cardinality(intents)
        BY <3>1, <1>1, <2>2, <2>3
      <4>2. LatestSources = i.sources
        BY <4>1, LatestDecision
      <4> QED
        BY <3>1, <4>2, <2>2 DEF Distinct
    <3>2. CASE j /= d
      BY <3>2, <1>1, <2>2, <2>3 DEF Distinct, DecisionsDiffer
    <3> QED
      BY <3>1, <3>2
  <2>5. ~ReadLatest
    BY <1>3 DEF ReadLatest, dbVars
  <2>6. \A e \in Checked' : e.version \in 1..(Cardinality(intents) + 1)
    BY <2>5, CandidatesAreDecisions DEF Shape, Numbered
  <2> QED
    BY <1>1, <2>2, <2>4, <2>6 DEF Distinct
<1> QED
  BY <1>2, <1>3

\* Only ReadForecasts changes what has been read, other than to drop it.
LEMMA SeenStep ==
  ASSUME [Next]_vars
  PROVE  /\ seen' = seen \/ seen' = {} \/ ReadForecasts
         /\ stage' = "version" => ReadForecasts \/ (stage = "version" /\ seen' = seen)
BY DEF Next, vars, dbVars, saveVars, countVars, Consumer, Idle, Enqueue, Take, Predict,
       PredictFails, SaveForecast, ReadForecasts, ReadVersion, ReadLatest, ReadPosition,
       SaveTicket, SaveFails, TimeOut, OrphanPublishes, ProcessRestarts, ReceiptArrives

LEMMA ExplainedStep ==
  ASSUME Typed, Explained, Shape, [Next]_vars
  PROVE  Explained'
<1>1. seen' \subseteq forecasts'
  BY SeenStep DEF Explained, Shape, ReadForecasts, ActiveForecasts
<1>2. \A d \in Candidates' : d.sources \subseteq forecasts'
  <2>1. Eligible(seen) \subseteq forecasts
    BY DEF Eligible, SignalBook, Explained
  <2> QED
    BY <2>1 DEF Shape, Explained
<1>3. \A d \in Range(tickets') : Decision(d) \in intents'
  <2>1. CASE intents' = intents /\ tickets' = tickets
    BY <2>1 DEF Explained
  <2>2. ASSUME NEW d \in Checked, Adds(d)
        PROVE  \A t \in Range(tickets') : Decision(t) \in intents'
    BY <2>2 DEF Adds, Explained
  <2> QED
    BY <2>1, <2>2 DEF Shape
<1> QED
  BY <1>1, <1>2, <1>3 DEF Explained, Decision, Range

LEMMA OrderedStep ==
  ASSUME Typed, Explained, Numbered, Ordered, Shape, [Next]_vars
  PROVE  Ordered'
<1>1. Cardinality(intents) \in Nat /\ NextDecisionVersion = Cardinality(intents) + 1
  BY NextVersion
<1>2. CASE Candidates' \subseteq Candidates
  <2>1. \A a, b \in Candidates' : a.version < b.version => Before(a.sources, b.sources)
    BY <1>2 DEF Ordered
  <2>2. ASSUME stage' = "version", NEW a \in Candidates'
        PROVE  Before(a.sources, Eligible(seen'))
    <3>1. CASE stage = "version" /\ seen' = seen
      BY <3>1, <1>2, <2>2 DEF Ordered
    <3>2. CASE ReadForecasts
      <4>1. a.sources \subseteq forecasts
        BY <1>2, <2>2 DEF Explained
      <4> QED
        BY <3>2, <4>1, BookIsNewest DEF ReadForecasts
    <3> QED
      BY <2>2, <3>1, <3>2, SeenStep
  <2> QED
    BY <2>1, <2>2 DEF Ordered, Before, Eligible, SignalBook
<1>3. CASE ~(Candidates' \subseteq Candidates)
  <2>1. /\ ReadVersion /\ Candidates' \subseteq Candidates \cup {chosen'}
        /\ chosen'.version = Cardinality(intents) + 1 /\ chosen'.sources = Eligible(seen)
    BY <1>1, <1>3 DEF Shape
  <2>2. stage = "version" /\ stage' /= "version"
    BY <2>1 DEF ReadVersion
  <2>3. \A a \in Candidates : a.version \in 1..(Cardinality(intents) + 1)
    BY DEF Numbered
  <2>4. ASSUME NEW a \in Candidates', NEW b \in Candidates', a.version < b.version
        PROVE  Before(a.sources, b.sources)
    BY <1>1, <2>1, <2>2, <2>3, <2>4 DEF Ordered
  <2> QED
    BY <2>2, <2>4 DEF Ordered, Before
<1> QED
  BY <1>2, <1>3

-----------------------------------------------------------------------------
(* The theorems.                                                           *)

LEMMA PublicationInvInit == Init => PublicationInv
<1> SUFFICES ASSUME Init PROVE PublicationInv
  OBVIOUS
<1>1. Typed
  BY TypedInit
<1>2. /\ intents = {} /\ Cardinality(intents) = 0 /\ orphans = {} /\ stage = "idle"
      /\ Range(tickets) = {}
  BY EmptyRange, FS_EmptySet DEF Init
<1>3. Candidates = {} /\ Checked = {} /\ Versions = {}
  BY <1>2 DEF Candidates, Checked, Orphaned, Versions
<1> QED
  BY <1>1, <1>2, <1>3
  DEF Init, PublicationInv, Explained, Numbered, DecisionsNumbered, Distinct,
      DecisionsDiffer, Ordered

LEMMA PublicationInvStep == PublicationInv /\ [Next]_vars => PublicationInv'
<1> SUFFICES ASSUME PublicationInv, [Next]_vars PROVE PublicationInv'
  OBVIOUS
<1>1. Typed /\ Explained /\ Numbered /\ Distinct /\ Ordered
  BY DEF PublicationInv
<1>2. Typed' /\ Shape
  BY <1>1, TypedStep, StepShape
<1>3. Explained' /\ Numbered' /\ Distinct' /\ Ordered'
  BY <1>1, <1>2, ExplainedStep, NumberedStep, DistinctStep, OrderedStep
<1> QED
  BY <1>2, <1>3 DEF PublicationInv

\* Whatever is interrupted or published late, decisions, drafts and readings are related
\* as described above.
THEOREM PublicationIsSound == Spec => []PublicationInv
<1> QED
  BY PublicationInvInit, PublicationInvStep, PTL DEF Spec

\* The types hold, and no mode is queued twice.
THEOREM PublicationTypes == Spec => []PublicationTypeOK
<1>1. PublicationInv => PublicationTypeOK
  BY DEF PublicationInv, Typed
<1> QED
  BY <1>1, PublicationIsSound, PTL

\* The decisions of a symbol have the versions 1, 2, 3, ...: no timeout, no publication
\* left in a thread and no restart makes a gap or a repetition.
THEOREM NumberedDecisions == Spec => []DecisionsNumbered
<1>1. PublicationInv => DecisionsNumbered
  BY DEF PublicationInv, Numbered
<1> QED
  BY <1>1, PublicationIsSound, PTL

\* A decision never rests on the same forecasts as the one before it.
THEOREM DifferentDecisions == Spec => []DecisionsDiffer
<1>1. PublicationInv => DecisionsDiffer
  BY DEF PublicationInv, Distinct
<1> QED
  BY <1>1, PublicationIsSound, PTL

\* A later decision never rests on an older forecast of a mode.
THEOREM OrderedDecisions == Spec => []DecisionsMoveOn
<1>1. PublicationInv => DecisionsMoveOn
  BY DEF PublicationInv, Ordered, DecisionsMoveOn, Candidates, Before
<1> QED
  BY <1>1, PublicationIsSound, PTL

\* Every ticket has its decision, and that its forecasts.
THEOREM ExplainedTickets == Spec => []TicketsAreExplained
<1>1. PublicationInv => TicketsAreExplained
  <2> SUFFICES ASSUME PublicationInv, NEW d \in Range(tickets)
               PROVE  Decision(d) \in intents /\ d.sources \subseteq forecasts
    BY DEF TicketsAreExplained
  <2>1. Decision(d) \in intents
    BY DEF PublicationInv, Explained
  <2>2. Decision(d).sources \subseteq forecasts
    BY <2>1 DEF PublicationInv, Explained, Candidates
  <2> QED
    BY <2>1, <2>2 DEF Decision
<1> QED
  BY <1>1, PublicationIsSound, PTL
=============================================================================
