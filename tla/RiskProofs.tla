------------------------------ MODULE RiskProofs ------------------------------
(***************************************************************************)
(* Theorems about what may stop a new order: the interlocks (RiskControl), *)
(* for any number of symbols, midnights, crashes and acts of others in the *)
(* account; and the budget of a ticket (RiskBudget), for any limits, day,  *)
(* cache and number of instruments and of records in the ledger.           *)
(***************************************************************************)
EXTENDS RiskControl, RiskBudget, FiniteSetTheorems, WellFoundedInduction, TLAPS

Fields == {"step", "phase", "known", "unknown", "remote", "page", "cur", "room", "clear"}

\* The counters count, and the loop keeps all that it has read.
Counted ==
    /\ runs \in Nat /\ reports \in Nat /\ crashes \in Nat /\ late \in Nat
    /\ DOMAIN loop = Fields

LEMMA OffFields == DOMAIN Off = Fields /\ Off.step = "off" /\ ~Off.clear /\ Off.cur = {}
BY DEF Off, Fields

LEMMA CountedStep ==
  ASSUME Counted, [Next]_vars, loop.step # "off" => runs > 0
  PROVE  Counted'
<1> USE OffFields DEF Counted
<1>1. CASE Start
  BY <1>1 DEF Start, RunsAfterBegin, account
<1>2. CASE StopService \/ Crash
  BY <1>2 DEF StopService, Crash, Stop, interlock, journal, account
<1>3. CASE ExchangeError
  BY <1>3 DEF ExchangeError, Fails, Stop, journal, account
<1>4. CASE Iteration
  <2>1. CASE RunOnce \/ Complete \/ EndPoll
    BY <2>1 DEF RunOnce, Complete, EndPoll, interlock, service, journal, account
  <2>2. CASE Recover \/ ReadKnown \/ FetchOrders
    BY <2>2 DEF Recover, ReadKnown, FetchOrders, interlock, service, journal, account
  <2>3. CASE FetchPositions \/ Reserve
    <3>1. CASE FetchPositions
      BY <3>1 DEF FetchPositions, service
    <3>2. CASE Reserve
      BY <3>2 DEF Reserve, Goto, interlock, service, account
    <3> QED  BY <2>3, <3>1, <3>2
  <2>4. CASE ReadHealth \/ Veto \/ Approve
    BY <2>4 DEF ReadHealth, Veto, Approve, Goto, NextTicket, interlock, service, journal, account
  <2>5. CASE Create
    BY <2>5 DEF Create, NextTicket, interlock, service, journal
  <2>6. CASE Audit
    <3>1. runs' \in {runs, runs - 1} /\ UNCHANGED <<reports, crashes, late>>
      BY <2>6 DEF Audit, Fails, Stop
    <3>2. DOMAIN loop' = Fields
      BY <2>6 DEF Audit, Fails, Stop
    <3> QED  BY <2>6, <3>1, <3>2 DEF Audit
  <2>7. ASSUME NEW s \in Symbols, Visit(s) \/ ReadPortfolio(s)
        PROVE  Counted'
    BY <2>7 DEF Visit, ReadPortfolio, interlock, service, account
  <2> QED  BY <1>4, <2>1, <2>2, <2>3, <2>4, <2>5, <2>6, <2>7 DEF Iteration
<1>5. CASE Stream
  BY <1>5 DEF Stream, ChildReserve, ChildCreate, StreamFails, StreamDrops, StreamBooks,
              interlock, service, journal, account
<1>6. CASE World \/ Operator
  BY <1>6 DEF World, Trade, OthersTrade, OthersOrder, OthersLeave, Midnight, Operator, interlock,
              service, journal, account
<1>7. CASE UNCHANGED vars
  BY <1>7 DEF vars
<1> QED  BY <1>1, <1>2, <1>3, <1>4, <1>5, <1>6, <1>7 DEF Next

-----------------------------------------------------------------------------
\* Steps that are none of the loop's own leave it alone.
LoopStays == \/ Stream \/ World \/ Operator \/ UNCHANGED vars

LEMMA OthersLeaveLoop ==
  ASSUME LoopStays
  PROVE  UNCHANGED <<loop, approved, runs, reports, crashes>>
<1>1. CASE Stream
  BY <1>1 DEF Stream, ChildReserve, ChildCreate, StreamFails, StreamDrops, StreamBooks,
              service, journal
<1>2. CASE World \/ Operator \/ UNCHANGED vars
  BY <1>2 DEF World, Trade, OthersTrade, OthersOrder, OthersLeave, Midnight, Operator, service,
              journal, vars
<1> QED  BY <1>1, <1>2 DEF LoopStays

\* A service that is on has its own run open, besides those of the crashes that
\* are still to be reported.
Reported == /\ loop.step # "off" => runs > 0
            /\ UnexpectedReportedOnce

LEMMA ReportedStep ==
  ASSUME Counted, Reported, [Next]_vars
  PROVE  Reported'
<1> USE OffFields DEF Counted, Fields, Reported, UnexpectedReportedOnce
<1>1. CASE Start
  BY <1>1 DEF Start, RunsAfterBegin
<1>2. CASE StopService \/ Crash
  BY <1>2 DEF StopService, Crash, Stop
<1>3. CASE ExchangeError
  BY <1>3 DEF ExchangeError, Fails, Stop
<1>4. CASE Iteration
  <2>1. CASE RunOnce \/ Complete \/ EndPoll
    BY <2>1 DEF RunOnce, Complete, EndPoll, service
  <2>2. CASE Recover \/ ReadKnown \/ FetchOrders
    BY <2>2 DEF Recover, ReadKnown, FetchOrders, service
  <2>3. CASE FetchPositions \/ Reserve
    BY <2>3 DEF FetchPositions, Reserve, Goto, service
  <2>4. CASE ReadHealth \/ Veto \/ Approve
    BY <2>4 DEF ReadHealth, Veto, Approve, Goto, NextTicket, service
  <2>5. CASE Create
    BY <2>5 DEF Create, NextTicket, service
  <2>6. CASE Audit
    BY <2>6 DEF Audit, Fails, Stop
  <2>7. ASSUME NEW s \in Symbols, Visit(s) \/ ReadPortfolio(s)
        PROVE  Reported'
    BY <2>7 DEF Visit, ReadPortfolio, service
  <2> QED  BY <1>4, <2>1, <2>2, <2>3, <2>4, <2>5, <2>6, <2>7 DEF Iteration
<1>5. CASE LoopStays
  BY <1>5, OthersLeaveLoop
<1> QED  BY <1>1, <1>2, <1>3, <1>4, <1>5 DEF Next, LoopStays

RInv == Counted /\ Reported

\* A run that did not end cleanly is reported once, by the next one
\* (begin_service_run, end_service_run).
THEOREM CrashesAreReported == Spec => []UnexpectedReportedOnce
<1>1. Init => RInv
  BY OffFields DEF Init, RInv, Counted, Reported, UnexpectedReportedOnce
<1>2. RInv /\ [Next]_vars => RInv'
  BY CountedStep, ReportedStep DEF RInv, Reported
<1>3. RInv => UnexpectedReportedOnce
  BY DEF RInv, Reported
<1> QED  BY <1>1, <1>2, <1>3, PTL DEF Spec

-----------------------------------------------------------------------------
\* Where the audit has found something the incident mode says so; and what the
\* guard is about to decide with clear interlocks it read before any finding:
\* the loop that decides is the one that audits.
Handed == /\ found => incident = "MANUAL_HANDOVER"
          /\ loop.step = "decide" /\ loop.clear => ~found

LEMMA HandedStep ==
  ASSUME Counted, Handed, [Next]_vars
  PROVE  Handed'
<1> USE OffFields DEF Counted, Fields
<1>1. ASSUME UNCHANGED <<incident, found>>, loop'.step # "decide" \/ UNCHANGED loop
      PROVE  Handed'
  BY <1>1 DEF Handed
<1>2. CASE Start
  BY <1>1, <1>2 DEF Start
<1>3. CASE StopService \/ Crash
  BY <1>1, <1>3 DEF StopService, Crash, Stop, interlock
<1>4. CASE ExchangeError
  BY <1>1, <1>4 DEF ExchangeError, Fails, Stop
<1>5. CASE Iteration
  <2>1. CASE RunOnce \/ Complete \/ EndPoll
    BY <1>1, <2>1 DEF RunOnce, Complete, EndPoll, interlock
  <2>2. CASE Recover \/ ReadKnown \/ FetchOrders
    BY <1>1, <2>2 DEF Recover, ReadKnown, FetchOrders, interlock
  <2>3. CASE FetchPositions \/ Reserve
    BY <1>1, <2>3 DEF FetchPositions, Reserve, Goto, interlock
  <2>4. CASE ReadHealth
    BY <2>4 DEF ReadHealth, Clear, interlock, Handed
  <2>5. CASE Veto \/ Approve \/ Create
    BY <1>1, <2>5 DEF Veto, Approve, Create, Goto, NextTicket, interlock
  <2>6. CASE Audit
    BY <2>6 DEF Audit, ModeAfterAudit, Fails, Stop, interlock, Handed
  <2>7. ASSUME NEW s \in Symbols, Visit(s) \/ ReadPortfolio(s)
        PROVE  Handed'
    BY <1>1, <2>7 DEF Visit, ReadPortfolio, interlock
  <2> QED  BY <1>5, <2>1, <2>2, <2>3, <2>4, <2>5, <2>6, <2>7 DEF Iteration
<1>6. CASE LoopStays
  <2>1. UNCHANGED <<incident, found>> \/ Operator
    <3>1. CASE Stream
      BY <3>1 DEF Stream, ChildReserve, ChildCreate, StreamFails, StreamDrops, StreamBooks,
                  interlock
    <3>2. CASE World \/ UNCHANGED vars
      BY <3>2 DEF World, Trade, OthersTrade, OthersOrder, OthersLeave, Midnight, interlock, vars
    <3> QED  BY <1>6, <3>1, <3>2 DEF LoopStays
  <2>2. CASE Operator
    BY <2>2 DEF Operator, Handed
  <2> QED  BY <1>1, <1>6, <2>1, <2>2, OthersLeaveLoop
<1> QED  BY <1>2, <1>3, <1>4, <1>5, <1>6 DEF Next, LoopStays

LEMMA ApprovedOnlyIfClear ==
  ASSUME Handed, [Next]_vars, ~(approved' \subseteq approved)
  PROVE  ~found
<1>1. CASE Start \/ StopService \/ Crash \/ ExchangeError
  BY <1>1 DEF Start, StopService, Crash, ExchangeError, journal
<1>2. CASE Iteration
  <2>1. CASE Approve
    BY <2>1 DEF Approve, Handed
  <2>2. CASE RunOnce \/ Complete \/ EndPoll \/ Recover \/ ReadKnown \/ FetchOrders
    BY <2>2 DEF RunOnce, Complete, EndPoll, Recover, ReadKnown, FetchOrders, journal
  <2>3. CASE FetchPositions \/ Reserve \/ ReadHealth \/ Veto \/ Create \/ Audit
    BY <2>3 DEF FetchPositions, Reserve, ReadHealth, Veto, Create, Audit, journal
  <2>4. ASSUME NEW s \in Symbols, Visit(s) \/ ReadPortfolio(s)
        PROVE  FALSE
    BY <2>4 DEF Visit, ReadPortfolio
  <2> QED  BY <1>2, <2>1, <2>2, <2>3, <2>4 DEF Iteration
<1>3. CASE LoopStays
  BY <1>3, OthersLeaveLoop
<1> QED  BY <1>1, <1>2, <1>3 DEF Next, LoopStays

HInv == RInv /\ Handed

\* From the moment an audit has found what is not the service's own, nothing is
\* approved until an operator comes (_verify_account_ownership, RiskGuard).
THEOREM HandoverIsKept == Spec => HandoverHolds
<1>1. Init => HInv
  BY OffFields DEF Init, HInv, RInv, Counted, Reported, UnexpectedReportedOnce, Handed
<1>2. HInv /\ [Next]_vars => HInv'
  BY CountedStep, ReportedStep, HandedStep DEF HInv, RInv, Reported
<1>3. HInv /\ [Next]_vars => [approved' \subseteq approved \/ ~found]_vars
  BY ApprovedOnlyIfClear DEF HInv
<1> QED  BY <1>1, <1>2, <1>3, PTL DEF Spec, HandoverHolds

-----------------------------------------------------------------------------
\* After an entry has left with the kill switch on no other has passed it:
\* nothing is approved, and the loop, which reads the interlocks of one ticket
\* at a time, has read them again since.
LastEntry ==
    /\ loop.step = "health" => loop.cur # {}
    /\ loop.step = "create" => approved = {}
    /\ late # 0 => /\ late = 1 /\ kill
                    /\ approved = {} /\ loop.step \notin {"size", "create"}
                    /\ ~(loop.step = "decide" /\ loop.clear)

LEMMA LastEntryStep ==
  ASSUME Counted, LastEntry, [Next]_vars
  PROVE  LastEntry'
<1> USE OffFields DEF Counted, Fields, LastEntry
<1>1. CASE Start
  BY <1>1 DEF Start
<1>2. CASE StopService \/ Crash
  BY <1>2 DEF StopService, Crash, Stop, interlock, journal
<1>3. CASE ExchangeError
  BY <1>3 DEF ExchangeError, Fails, Stop, journal
<1>4. CASE Iteration
  <2>1. CASE RunOnce \/ Complete \/ EndPoll
    BY <2>1 DEF RunOnce, Complete, EndPoll, interlock, journal
  <2>2. CASE Recover \/ ReadKnown \/ FetchOrders
    BY <2>2 DEF Recover, ReadKnown, FetchOrders, interlock, journal
  <2>3. CASE FetchPositions \/ Reserve
    BY <2>3 DEF FetchPositions, Reserve, Goto, interlock, journal
  <2>4. CASE ReadHealth
    BY <2>4 DEF ReadHealth, Clear, interlock, journal
  <2>5. CASE Veto \/ Approve
    BY <2>5 DEF Veto, Approve, Goto, NextTicket, interlock, journal
  <2>6. CASE Create
    BY <2>6 DEF Create, NextTicket, interlock, journal
  <2>7. CASE Audit
    BY <2>7 DEF Audit, Fails, Stop, interlock, journal
  <2>8. ASSUME NEW s \in Symbols, Visit(s) \/ ReadPortfolio(s)
        PROVE  LastEntry'
    BY <2>8 DEF Visit, ReadPortfolio, interlock
  <2> QED  BY <1>4, <2>1, <2>2, <2>3, <2>4, <2>5, <2>6, <2>7, <2>8 DEF Iteration
<1>5. CASE LoopStays
  <2>1. CASE Stream
    BY <1>5, <2>1, OthersLeaveLoop DEF Stream, ChildReserve, ChildCreate, StreamFails,
         StreamDrops, StreamBooks, interlock
  <2>2. CASE World \/ Operator \/ UNCHANGED vars
    BY <1>5, <2>2, OthersLeaveLoop DEF World, Trade, OthersTrade, OthersOrder, OthersLeave,
         Midnight, Operator, interlock, vars
  <2> QED  BY <1>5, <2>1, <2>2 DEF LoopStays
<1> QED  BY <1>1, <1>2, <1>3, <1>4, <1>5 DEF Next, LoopStays

EInv == RInv /\ LastEntry

\* At most one entry leaves after the kill switch is set, whoever sets it and
\* whenever (TicketConsumer._process_entry, emergency_stop).
THEOREM OneEntryAfterKill == Spec => []OneOrderAfterKill
<1>1. Init => EInv
  BY OffFields DEF Init, EInv, RInv, Counted, Reported, UnexpectedReportedOnce, LastEntry
<1>2. EInv /\ [Next]_vars => EInv'
  BY CountedStep, ReportedStep, LastEntryStep DEF EInv, RInv, Reported
<1>3. EInv => OneOrderAfterKill
  BY DEF EInv, RInv, Counted, LastEntry, OneOrderAfterKill
<1> QED  BY <1>1, <1>2, <1>3, PTL DEF Spec

-----------------------------------------------------------------------------
(* Sums over finite sets.                                                  *)

\* A set of naturals that is not empty has a smallest member.
LEMMA SmallestMember ==
  ASSUME NEW S \in SUBSET Nat, S # {}
  PROVE  \E m \in S : \A k \in S : m <= k
<1> DEFINE UpTo(m) == { k \in S : k <= m }
           Initial == { UpTo(m) : m \in S }
<1>0. \A k \in S : k \in Nat
  OBVIOUS
<1>1. Initial \subseteq FiniteSubsetsOf(Nat)
  <2> SUFFICES ASSUME NEW m \in S
               PROVE  UpTo(m) \in FiniteSubsetsOf(Nat)
    OBVIOUS
  <2>1. IsFiniteSet(0..m)
    BY FS_Interval
  <2>2. UpTo(m) \in SUBSET (0..m)
    <3>1. \A k \in UpTo(m) : k \in 0..m
      BY <1>0
    <3> QED BY <3>1
  <2>3. IsFiniteSet(UpTo(m))
    BY <2>1, <2>2, FS_Subset
  <2> QED BY <2>3 DEF FiniteSubsetsOf
<1>2. Initial # {}
  OBVIOUS
<1>3. IsWellFoundedOn(StrictSubsetOrdering(Nat), FiniteSubsetsOf(Nat))
  BY FS_StrictSubsetOrderingWellFounded
<1>4. PICK x \in Initial : \A y \in Initial : ~ (<<y, x>> \in StrictSubsetOrdering(Nat))
  <2> HIDE DEF Initial
  <2> QED BY <1>1, <1>2, <1>3, WFMin
<1>5. PICK m \in S : x = UpTo(m)
  OBVIOUS
<1>6. ASSUME NEW k \in S, k < m
      PROVE  FALSE
  <2>1. UpTo(k) \in Initial
    OBVIOUS
  <2>2. UpTo(k) \subseteq x /\ m \in x /\ m \notin UpTo(k)
    <3>1. k \in Nat /\ m \in Nat /\ \A j \in Nat : j <= k => j <= m
      BY <1>0, <1>6
    <3>2. m <= m /\ ~ (m <= k)
      BY <1>6, <3>1
    <3>3. UpTo(k) \subseteq UpTo(m)
      BY <1>0, <3>1
    <3> QED BY <1>5, <3>2, <3>3
  <2>3. <<UpTo(k), x>> \in StrictSubsetOrdering(Nat)
    BY <1>5, <2>2 DEF StrictSubsetOrdering
  <2> QED BY <1>4, <2>1, <2>3
<1> QED BY <1>6

\* A set of naturals that holds 0 and the successor of each member holds all.
LEMMA SetInduction ==
  ASSUME NEW S, 0 \in S, \A n \in Nat : n \in S => n + 1 \in S
  PROVE  Nat \subseteq S
<1> DEFINE Rest == Nat \ S
<1>1. SUFFICES ASSUME Rest # {} PROVE FALSE
  OBVIOUS
<1>2. PICK m \in Rest : \A k \in Rest : m <= k
  <2> Rest \in SUBSET Nat
    OBVIOUS
  <2> HIDE DEF Rest
  <2> QED BY <1>1, SmallestMember
<1>3. m # 0 /\ m - 1 \in Nat /\ m - 1 + 1 = m
  OBVIOUS
<1>4. m - 1 \in S
  BY <1>2, <1>3
<1> QED BY <1>3, <1>4


OneOf(s) == CHOOSE x \in s : TRUE

Term(f, g, s) == IF s = {} THEN 0 ELSE f[OneOf(s)] + g[s \ {OneOf(s)}]

\* The recursion that SumFunctionOnSet solves.
Solves(f, S, g) == g = [s \in SUBSET S |-> Term(f, g, s)]

LEMMA WithoutOne ==
  ASSUME NEW s, IsFiniteSet(s), s # {}
  PROVE  /\ OneOf(s) \in s /\ IsFiniteSet(s \ {OneOf(s)})
         /\ Cardinality(s) \in Nat /\ Cardinality(s \ {OneOf(s)}) = Cardinality(s) - 1
<1>1. OneOf(s) \in s
  BY DEF OneOf
<1> QED
  BY <1>1, FS_RemoveElement, FS_CardinalityType

LEMMA SumExists ==
  ASSUME NEW S, IsFiniteSet(S), NEW f, \A x \in S : f[x] \in Int
  PROVE  \E g \in [SUBSET S -> Int] : Solves(f, S, g)
<1> DEFINE Small(n) == {s \in SUBSET S : Cardinality(s) <= n}
           Good(g, n) == \A s \in Small(n) : g[s] = Term(f, g, s)
           Sizes == {n \in Nat : \E g \in [Small(n) -> Int] : Good(g, n)}
<1>0. \A s \in SUBSET S : IsFiniteSet(s) /\ Cardinality(s) \in Nat
                           /\ Cardinality(s) <= Cardinality(S)
  BY FS_Subset, FS_CardinalityType
<1>1. 0 \in Sizes
  <2> DEFINE none == [s \in Small(0) |-> 0]
  <2>1. \A s \in Small(0) : s = {}
    <3> SUFFICES ASSUME NEW s \in Small(0) PROVE s = {}
      OBVIOUS
    <3>1. Cardinality(s) = 0 /\ IsFiniteSet(s)
      BY <1>0
    <3> QED
      BY <3>1, FS_EmptySet
  <2>2. none \in [Small(0) -> Int]
    OBVIOUS
  <2>3. Good(none, 0)
    BY <2>1 DEF Term
  <2> HIDE DEF none
  <2> QED
    BY <2>2, <2>3
<1>2. ASSUME NEW n \in Nat, n \in Sizes
      PROVE  n + 1 \in Sizes
  <2>1. PICK g \in [Small(n) -> Int] : Good(g, n)
    BY <1>2
  <2> DEFINE more == [s \in Small(n + 1) |-> Term(f, g, s)]
  <2>2. ASSUME NEW s \in Small(n + 1), s # {}
        PROVE  s \ {OneOf(s)} \in Small(n) /\ OneOf(s) \in S
    <3>1. OneOf(s) \in s /\ Cardinality(s) \in Nat
          /\ Cardinality(s \ {OneOf(s)}) = Cardinality(s) - 1
      BY <1>0, <2>2, WithoutOne
    <3>2. Cardinality(s) <= n + 1 /\ s \subseteq S
      OBVIOUS
    <3>3. Cardinality(s \ {OneOf(s)}) <= n
      BY <3>1, <3>2
    <3> QED
      BY <3>1, <3>2, <3>3
  <2>3. more \in [Small(n + 1) -> Int]
    <3> SUFFICES ASSUME NEW s \in Small(n + 1) PROVE Term(f, g, s) \in Int
      OBVIOUS
    <3> HIDE DEF Small
    <3> QED
      BY <2>2 DEF Term
  <2>4. ASSUME NEW s \in Small(n)
        PROVE  more[s] = g[s]
    <3>1. s \in Small(n + 1)
      BY <1>0
    <3> QED
      BY <2>1, <3>1
  <2>5. ASSUME NEW s \in Small(n + 1)
        PROVE  more[s] = Term(f, more, s)
    <3>1. more[s] = Term(f, g, s)
      OBVIOUS
    <3> HIDE DEF more, Small
    <3> QED
      BY <2>2, <2>4, <3>1 DEF Term
  <2>6. Good(more, n + 1) /\ n + 1 \in Nat
    BY <2>5
  <2> HIDE DEF more, Good, Small
  <2> QED
    BY <2>3, <2>6
<1>3. Cardinality(S) \in Sizes
  <2>1. Nat \subseteq Sizes
    <3> HIDE DEF Sizes
    <3> QED
      BY <1>1, <1>2, SetInduction
  <2> QED
    BY <2>1, <1>0
<1>4. PICK g \in [Small(Cardinality(S)) -> Int] : Good(g, Cardinality(S))
  BY <1>3
<1>5. Small(Cardinality(S)) = SUBSET S
  BY <1>0
<1> QED
  BY <1>4, <1>5 DEF Solves

LEMMA SumSolves ==
  ASSUME NEW S, IsFiniteSet(S), NEW f, \A x \in S : f[x] \in Int
  PROVE  \E g \in [SUBSET S -> Int] :
           /\ \A s \in SUBSET S : g[s] = Term(f, g, s)
           /\ SumFunctionOnSet(f, S) = g[S]
<1> DEFINE g == CHOOSE h : Solves(f, S, h)
<1>1. SumFunctionOnSet(f, S) = g[S]
  BY DEF SumFunctionOnSet, FoldFunctionOnSet, MapThenFoldSet, Solves, Term, OneOf
<1>2. Solves(f, S, g)
  BY SumExists
<1>3. \A s \in SUBSET S : g[s] = Term(f, g, s)
  <2> HIDE DEF g
  <2> QED
    BY <1>2 DEF Solves
<1> HIDE DEF g
<1> DEFINE Sizes == {n \in Nat : \A s \in SUBSET S : Cardinality(s) <= n => g[s] \in Int}
<1>4. 0 \in Sizes
  <2> SUFFICES ASSUME NEW s \in SUBSET S, Cardinality(s) <= 0
               PROVE  g[s] \in Int
    OBVIOUS
  <2>1. IsFiniteSet(s) /\ Cardinality(s) \in Nat
    BY FS_Subset, FS_CardinalityType
  <2>2. s = {}
    BY <2>1, FS_EmptySet
  <2>3. g[s] = Term(f, g, s) /\ Term(f, g, s) = 0
    BY <1>3, <2>2, Zenon DEF Term
  <2> QED
    BY <2>3
<1>5. ASSUME NEW n \in Nat, n \in Sizes
      PROVE  n + 1 \in Sizes
  <2> SUFFICES ASSUME NEW s \in SUBSET S, Cardinality(s) <= n + 1
               PROVE  g[s] \in Int
    OBVIOUS
  <2>0. g[s] = Term(f, g, s) /\ (s = {} => Term(f, g, s) = 0)
        /\ (s # {} => Term(f, g, s) = f[OneOf(s)] + g[s \ {OneOf(s)}])
    BY <1>3, Zenon DEF Term
  <2> SUFFICES ASSUME s # {} PROVE g[s] \in Int
    BY <2>0
  <2>1. IsFiniteSet(s)
    BY FS_Subset
  <2>2. OneOf(s) \in s /\ Cardinality(s) \in Nat
        /\ Cardinality(s \ {OneOf(s)}) = Cardinality(s) - 1
    BY <2>1, WithoutOne
  <2>3. s \ {OneOf(s)} \in SUBSET S /\ Cardinality(s \ {OneOf(s)}) <= n /\ OneOf(s) \in S
    BY <2>2
  <2>4. g[s \ {OneOf(s)}] \in Int
    BY <1>5, <2>3
  <2> QED
    BY <2>0, <2>3, <2>4
<1>6. Nat \subseteq Sizes
  <2> HIDE DEF Sizes
  <2> QED
    BY <1>4, <1>5, SetInduction
<1>7. \A s \in SUBSET S : g[s] \in Int
  <2> SUFFICES ASSUME NEW s \in SUBSET S PROVE g[s] \in Int
    OBVIOUS
  <2>1. Cardinality(s) \in Nat
    BY FS_Subset, FS_CardinalityType
  <2> QED
    BY <1>6, <2>1
<1>8. g \in [SUBSET S -> Int]
  BY <1>2, <1>7 DEF Solves
<1> QED
  BY <1>1, <1>3, <1>8

LEMMA SumType ==
  ASSUME NEW S, IsFiniteSet(S), NEW f, \A x \in S : f[x] \in Int
  PROVE  SumFunctionOnSet(f, S) \in Int
<1>1. PICK g \in [SUBSET S -> Int] : SumFunctionOnSet(f, S) = g[S]
  BY SumSolves
<1> QED
  BY <1>1

\* One term changes, and the sum changes by as much.
LEMMA SumChanges ==
  ASSUME NEW S, IsFiniteSet(S), NEW f \in [S -> Int], NEW other \in [S -> Int], NEW x \in S,
         \A y \in S : y # x => other[y] = f[y]
  PROVE  SumFunctionOnSet(other, S) = (SumFunctionOnSet(f, S) - f[x]) + other[x]
<1> DEFINE v == other[x]
<1>1. \A y \in S : f[y] \in Int /\ other[y] \in Int /\ other[y] = IF y = x THEN v ELSE f[y]
  OBVIOUS
<1>v. v \in Int
  OBVIOUS
<1> HIDE DEF v
<1>2. PICK g \in [SUBSET S -> Int] :
         (\A s \in SUBSET S : g[s] = Term(f, g, s)) /\ SumFunctionOnSet(f, S) = g[S]
  BY <1>1, SumSolves
<1>3. PICK h \in [SUBSET S -> Int] :
         (\A s \in SUBSET S : h[s] = Term(other, h, s)) /\ SumFunctionOnSet(other, S) = h[S]
  BY <1>1, SumSolves
<1> DEFINE Shift(s) == IF x \in s THEN v - f[x] ELSE 0
           Sizes == {n \in Nat : \A s \in SUBSET S : Cardinality(s) <= n => h[s] = g[s] + Shift(s)}
<1>4. \A s \in SUBSET S : IsFiniteSet(s) /\ Cardinality(s) \in Nat
  BY FS_Subset, FS_CardinalityType
<1>5. 0 \in Sizes
  <2> SUFFICES ASSUME NEW s \in SUBSET S, Cardinality(s) <= 0
               PROVE  h[s] = g[s] + Shift(s)
    OBVIOUS
  <2>1. s = {}
    BY <1>4, FS_EmptySet
  <2>2. h[s] = Term(other, h, s) /\ g[s] = Term(f, g, s)
    BY <1>2, <1>3
  <2>3. Term(other, h, s) = 0 /\ Term(f, g, s) = 0
    BY <2>1 DEF Term
  <2> QED
    BY <2>1, <2>2, <2>3
<1>6. ASSUME NEW n \in Nat, n \in Sizes
      PROVE  n + 1 \in Sizes
  <2> SUFFICES ASSUME NEW s \in SUBSET S, Cardinality(s) <= n + 1
               PROVE  h[s] = g[s] + Shift(s)
    OBVIOUS
  <2>1. CASE s = {}
    <3>1. h[s] = Term(other, h, s) /\ g[s] = Term(f, g, s)
      BY <1>2, <1>3
    <3>2. Term(other, h, s) = 0 /\ Term(f, g, s) = 0
      BY <2>1 DEF Term
    <3> QED
      BY <2>1, <3>1, <3>2
  <2>2. CASE s # {}
    <3> DEFINE y == OneOf(s)
               rest == s \ {y}
    <3>1. y \in s /\ Cardinality(s) \in Nat /\ Cardinality(rest) = Cardinality(s) - 1
      BY <1>4, <2>2, WithoutOne
    <3>2. rest \in SUBSET S /\ Cardinality(rest) <= n /\ y \in S
      BY <3>1
    <3>3. h[rest] = g[rest] + Shift(rest)
      <4> HIDE DEF rest
      <4> QED
        BY <1>6, <3>2
    <3>4. h[s] = other[y] + h[rest] /\ g[s] = f[y] + g[rest]
      BY <1>2, <1>3, <2>2 DEF Term
    <3>5. Shift(s) = IF y = x THEN v - f[x] ELSE Shift(rest)
      BY <3>1
    <3>6. y = x => Shift(rest) = 0
      OBVIOUS
    <3>7. Shift(rest) \in Int /\ v \in Int /\ h[rest] \in Int /\ g[rest] \in Int /\ f[y] \in Int /\ f[x] \in Int
          /\ other[y] \in Int
      BY <1>1, <1>v, <3>2
    <3> HIDE DEF y, rest, Shift
    <3>8. CASE y = x
      BY <1>1, <1>v, <3>3, <3>4, <3>5, <3>6, <3>7, <3>8
    <3>9. CASE y # x
      <4>1. other[y] = f[y]
        BY <1>1, <3>2, <3>9
      <4> QED
        BY <3>3, <3>4, <3>5, <3>7, <3>9, <4>1
    <3> QED
      BY <3>8, <3>9
  <2> QED
    BY <2>1, <2>2
<1>7. Nat \subseteq Sizes
  <2> HIDE DEF Sizes
  <2> QED
    BY <1>5, <1>6, SetInduction
<1>8. h[S] = g[S] + (v - f[x])
  <2>1. Cardinality(S) \in Sizes /\ S \in SUBSET S /\ Shift(S) = v - f[x]
        /\ Cardinality(S) <= Cardinality(S)
    BY <1>4, <1>7
  <2> QED
    BY <2>1
<1>9. h[S] \in Int /\ g[S] \in Int /\ f[x] \in Int
  OBVIOUS
<1> QED
  BY <1>2, <1>3, <1>8, <1>9, <1>v DEF v

-----------------------------------------------------------------------------
(* The budget of a ticket.                                                 *)

Record == [order : Nat, change : {-1, 1}, at : Nat]

FlowFields == {"step", "cur", "at", "equity", "mark", "margin", "metrics", "readAt", "gross",
               "correlated", "flat"}

\* The variables have their types; money is whole.
Accounts ==
    /\ now \in 0..MaxTime /\ high \in Nat
    /\ position \in [Instruments -> Nat] /\ pending \in [Instruments -> Nat]
    /\ ledger \in Seq(Record) /\ Len(ledger) <= MaxRecords
    /\ DOMAIN flow = FlowFields
    /\ flow.step \in {"idle", "metrics", "portfolio", "decide", "size"}
    /\ granted \subseteq Instruments /\ flow.cur \subseteq Instruments
    /\ flow.equity \in Int /\ flow.margin \in Nat /\ flow.gross \in Int /\ flow.correlated \in Int

\* While a ticket is at hand its margin stays free: what fills had its margin
\* before, and what closes gives it back.
Spare == flow.step # "idle" /\ flow.margin > 0 =>
            flow.margin + (Total(position) + Total(pending)) <= flow.equity * Leverage

LEMMA ChangeType ==
  ASSUME ledger \in Seq(Record)
  PROVE  Change(ledger, DOMAIN ledger) \in Int
<1> DEFINE f == [i \in DOMAIN ledger |-> ledger[i].change]
<1>1. ASSUME NEW i \in DOMAIN ledger
      PROVE  f[i] \in Int
  <2>1. ledger[i] \in Record
    OBVIOUS
  <2> QED
    BY <2>1 DEF Record
<1>2. IsFiniteSet(DOMAIN ledger)
  <2>1. DOMAIN ledger = 1..Len(ledger) /\ Len(ledger) \in Nat
    OBVIOUS
  <2> QED
    BY <2>1, FS_Interval
<1> HIDE DEF f
<1>3. SumFunctionOnSet(f, DOMAIN ledger) \in Int
  BY <1>1, <1>2, SumType
<1> QED
  BY <1>3 DEF Change, f

LEMMA TotalType ==
  ASSUME NEW f \in [Instruments -> Nat]
  PROVE  Total(f) \in Int
<1>1. \A x \in Instruments : f[x] \in Int
  OBVIOUS
<1> QED
  BY <1>1, SumType, BudgetAssumption DEF Total

LEMMA TotalChanges ==
  ASSUME NEW f \in [Instruments -> Nat], NEW s \in Instruments, NEW v \in Int
  PROVE  Total([f EXCEPT ![s] = v]) = (Total(f) - f[s]) + v
<1> DEFINE g == [f EXCEPT ![s] = v]
<1>1. f \in [Instruments -> Int] /\ g \in [Instruments -> Int] /\ IsFiniteSet(Instruments)
  BY BudgetAssumption
<1>2. g[s] = v /\ \A y \in Instruments : y # s => g[y] = f[y]
  OBVIOUS
<1> HIDE DEF g
<1>3. SumFunctionOnSet(g, Instruments) = (SumFunctionOnSet(f, Instruments) - f[s]) + g[s]
  BY <1>1, <1>2, SumChanges
<1> QED
  BY <1>2, <1>3 DEF Total, g

LEMMA CorrelatedType ==
  ASSUME position \in [Instruments -> Nat]
  PROVE  SumFunctionOnSet(position, Correlated) \in Int
<1>1. IsFiniteSet(Correlated) /\ \A c \in Correlated : position[c] \in Int
  BY BudgetAssumption, FS_Subset
<1> QED
  BY <1>1, SumType

LEMMA SizeFits ==
  ASSUME Accounts
  PROVE  Size \in Int /\ Size <= flow.margin
<1> DEFINE gross == Max2(0, flow.equity * Leverage - flow.gross)
           correlated == Max2(0, (flow.equity - flow.correlated * CorrDiv) \div CorrDiv)
           limits == {TicketLots, flow.margin, gross, correlated}
<1>1. TicketLots \in Int /\ flow.margin \in Int /\ gross \in Int /\ correlated \in Int
  <2>1. Leverage \in Nat /\ CorrDiv \in Nat \ {0} /\ TicketLots \in Nat
    BY BudgetAssumption
  <2>2. flow.equity * Leverage - flow.gross \in Int /\ flow.equity - flow.correlated * CorrDiv \in Int
    BY <2>1 DEF Accounts
  <2>3. (flow.equity - flow.correlated * CorrDiv) \div CorrDiv \in Int
    BY <2>1, <2>2
  <2> QED
    BY <2>1, <2>2, <2>3 DEF Accounts, Max2
<1> HIDE DEF gross, correlated
<1>2. \E x \in limits : \A y \in limits : x <= y
  BY <1>1
<1>3. Min(limits) \in limits /\ \A y \in limits : Min(limits) <= y
  BY <1>2 DEF Min
<1>4. Size = Min(limits)
  BY DEF Size, gross, correlated
<1> QED
  BY <1>1, <1>3, <1>4

LEMMA AccountsStep ==
  Accounts /\ Spare /\ [BudgetNext]_budgetVars => Accounts' /\ Spare'
<1> SUFFICES ASSUME Accounts, Spare, [BudgetNext]_budgetVars
             PROVE  Accounts' /\ Spare'
  OBVIOUS
<1>0. /\ {Ttl, Cooldown, MaxTime, MaxRecords} \subseteq Nat /\ Base \in Nat
      /\ Leverage \in Nat /\ Leverage > 0
  BY BudgetAssumption
<1>1. CASE Tick
  BY <1>0, <1>1 DEF Tick, Accounts, Spare
<1>2. ASSUME NEW s \in Instruments, Fill(s)
      PROVE  Accounts' /\ Spare'
  <2>1. /\ position' = [position EXCEPT ![s] = position[s] + pending[s]]
        /\ pending' = [pending EXCEPT ![s] = 0] /\ UNCHANGED <<now, ledger, granted, high, flow>>
        /\ position[s] \in Nat /\ pending[s] \in Nat
    BY <1>2 DEF Fill, Accounts
  <2>2. position' \in [Instruments -> Nat] /\ pending' \in [Instruments -> Nat]
    BY <2>1 DEF Accounts
  <2>3. Total(position') = (Total(position) - position[s]) + (position[s] + pending[s])
        /\ Total(pending') = (Total(pending) - pending[s]) + 0
    <3>1. position[s] + pending[s] \in Int /\ 0 \in Int
      BY <2>1
    <3>2. position \in [Instruments -> Nat] /\ pending \in [Instruments -> Nat]
      BY DEF Accounts
    <3> QED
      BY <2>1, <3>1, <3>2, TotalChanges, Zenon
  <2>4. Total(position) \in Int /\ Total(pending) \in Int
    BY TotalType DEF Accounts
  <2>5. Total(position') + Total(pending') = Total(position) + Total(pending)
    BY <2>1, <2>3, <2>4
  <2> QED
    BY <2>1, <2>2, <2>5 DEF Accounts, Spare
<1>3. ASSUME NEW s \in Instruments, NEW change \in {-1, 1}, NEW next \in BOOLEAN,
             Close(s, change, next)
      PROVE  Accounts' /\ Spare'
  <2> DEFINE order == IF ledger = <<>> THEN 0 ELSE ledger[Len(ledger)].order
             record == [order |-> IF next THEN order + 1 ELSE order, change |-> change, at |-> now]
  <2>1. /\ position' = [position EXCEPT ![s] = position[s] - 1] /\ ledger' = Append(ledger, record)
        /\ UNCHANGED <<now, pending, granted, high, flow>>
        /\ position[s] \in Nat /\ position[s] > 0 /\ Len(ledger) < MaxRecords
    BY <1>3 DEF Close, Accounts
  <2>2. position' \in [Instruments -> Nat]
    BY <2>1 DEF Accounts
  <2>3. order \in Nat
    <3>1. ledger # <<>> => Len(ledger) \in DOMAIN ledger /\ ledger[Len(ledger)] \in Record
      BY DEF Accounts
    <3> QED
      BY <3>1 DEF Record
  <2>4. record \in Record /\ now \in Nat
    BY <1>0, <2>3 DEF Record, Accounts
  <2> HIDE DEF record
  <2>5. ledger' \in Seq(Record) /\ Len(ledger') <= MaxRecords
    BY <1>0, <2>1, <2>4 DEF Accounts
  <2>6. Total(position') = (Total(position) - position[s]) + (position[s] - 1)
    <3>1. position[s] - 1 \in Int /\ position \in [Instruments -> Nat]
      BY <2>1 DEF Accounts
    <3> QED
      BY <2>1, <3>1, TotalChanges, Zenon
  <2>7. Total(position) \in Int /\ Total(pending) \in Int /\ flow.margin \in Nat
        /\ flow.equity * Leverage \in Int
    BY <1>0, TotalType DEF Accounts
  <2>8. Total(position') = Total(position) - 1 /\ Total(pending') = Total(pending)
    BY <2>1, <2>6, <2>7
  <2>9. Spare'
    BY <2>1, <2>7, <2>8 DEF Spare
  <2> QED
    BY <2>1, <2>2, <2>5, <2>9 DEF Accounts
<1>4. ASSUME NEW s \in Instruments, NEW mark \in {-1, 0}, ReadBalance(s, mark)
      PROVE  Accounts' /\ Spare'
  <2>1. /\ flow'.step = "metrics" /\ flow'.cur = {s} /\ flow'.equity = Equity(mark)
        /\ flow'.margin = Margin(mark) /\ flow'.gross = 0 /\ flow'.correlated = 0
        /\ DOMAIN flow' = FlowFields
        /\ UNCHANGED <<now, ledger, position, pending, granted, high>>
    BY <1>4 DEF ReadBalance, Idle, world, FlowFields
  <2>2. Equity(mark) \in Int
    BY <1>0, ChangeType DEF Accounts, Equity
  <2>3. Total(position) \in Int /\ Total(pending) \in Int
    BY TotalType DEF Accounts
  <2>4. Equity(mark) * Leverage \in Int
    BY <1>0, <2>2
  <2>5. /\ Margin(mark) \in Nat
        /\ Margin(mark) > 0 =>
              Margin(mark) + (Total(position) + Total(pending)) <= Equity(mark) * Leverage
    BY <2>3, <2>4 DEF Margin, Max2
  <2>6. Spare'
    BY <2>1, <2>5 DEF Spare
  <2> QED
    BY <2>1, <2>2, <2>5, <2>6 DEF Accounts
<1>5. CASE ReadMetrics
  <2>1. /\ flow' = [flow EXCEPT !.step = "portfolio", !.metrics = cache'.metrics, !.readAt = now]
        /\ high' = Max2(high, flow.equity) /\ UNCHANGED <<now, ledger, position, pending, granted>>
        /\ flow.step = "metrics"
    BY <1>5 DEF ReadMetrics, Observed, world
  <2>2. /\ flow'.step = "portfolio" /\ DOMAIN flow' = FlowFields
        /\ flow'.cur = flow.cur /\ flow'.equity = flow.equity /\ flow'.margin = flow.margin
        /\ flow'.gross = flow.gross /\ flow'.correlated = flow.correlated
    BY <2>1 DEF Accounts, FlowFields
  <2>3. high' \in Nat
    BY <2>1 DEF Accounts, Max2
  <2> QED
    BY <2>1, <2>2, <2>3 DEF Accounts, Spare
<1>6. CASE MetricsFail
  <2>1. high' \in Nat
    BY <1>6 DEF MetricsFail, Observed, Accounts, Max2
  <2>2. UNCHANGED <<now, ledger, position, pending, granted>>
    BY <1>6 DEF MetricsFail, world
  <2>3. CASE flow' = Idle
    BY <2>1, <2>2, <2>3 DEF Idle, FlowFields, Accounts, Spare
  <2>4. CASE flow' = [flow EXCEPT !.step = "portfolio"]
    <3>1. /\ flow'.step = "portfolio" /\ DOMAIN flow' = FlowFields /\ flow.step # "idle"
          /\ flow'.cur = flow.cur /\ flow'.equity = flow.equity /\ flow'.margin = flow.margin
          /\ flow'.gross = flow.gross /\ flow'.correlated = flow.correlated
      BY <1>6, <2>4 DEF MetricsFail, Accounts, FlowFields
    <3> QED
      BY <2>1, <2>2, <3>1 DEF Accounts, Spare
  <2> QED
    BY <1>6, <2>3, <2>4 DEF MetricsFail
<1>7. ASSUME NEW s \in Instruments, ReadExposure(s)
      PROVE  Accounts' /\ Spare'
  <2>1. Total(position) \in Int /\ SumFunctionOnSet(position, Correlated) \in Int
    BY TotalType, CorrelatedType DEF Accounts
  <2>2. /\ flow'.step \in {"decide", "size"} /\ DOMAIN flow' = FlowFields
        /\ flow'.cur = flow.cur /\ flow'.equity = flow.equity /\ flow'.margin = flow.margin
        /\ flow'.gross = Total(position) /\ flow'.correlated = SumFunctionOnSet(position, Correlated)
        /\ UNCHANGED <<now, ledger, position, pending, granted, high>> /\ flow.step = "portfolio"
    BY <1>7 DEF ReadExposure, world, Accounts, FlowFields
  <2> QED
    BY <2>1, <2>2 DEF Accounts, Spare
<1>8. ASSUME NEW s \in Instruments, Enter(s)
      PROVE  Accounts' /\ Spare'
  <2>1. pending' = [pending EXCEPT ![s] = pending[s] + Size] /\ Size > 0 /\ Size \in Int
    BY <1>8, SizeFits DEF Enter
  <2>2. pending' \in [Instruments -> Nat]
    BY <2>1 DEF Accounts
  <2> QED
    BY <1>8, <2>2 DEF Enter, Idle, FlowFields, Accounts, Spare
<1>9. CASE VetoBudget \/ VisitFails \/ Restart
  BY <1>9 DEF VetoBudget, VisitFails, Restart, Idle, world, FlowFields, Accounts, Spare
<1>10. CASE Grant
  <2>1. /\ flow'.step = "size" /\ DOMAIN flow' = FlowFields /\ flow.step = "decide"
        /\ flow'.cur = flow.cur /\ flow'.equity = flow.equity /\ flow'.margin = flow.margin
        /\ flow'.gross = flow.gross /\ flow'.correlated = flow.correlated
        /\ granted' = flow.cur /\ UNCHANGED <<now, ledger, position, pending, high>>
    BY <1>10 DEF Grant, world, Accounts, FlowFields
  <2> QED
    BY <2>1 DEF Accounts, Spare
<1>11. CASE UNCHANGED budgetVars
  BY <1>11 DEF budgetVars, Accounts, Spare
<1> QED
  BY <1>1, <1>2, <1>3, <1>4, <1>5, <1>6, <1>7, <1>8, <1>9, <1>10, <1>11 DEF BudgetNext

LEMMA AccountsInvariant == BudgetSpec => [](Accounts /\ Spare)
<1>1. BudgetInit => Accounts /\ Spare
  <2> SUFFICES ASSUME BudgetInit PROVE Accounts /\ Spare
    OBVIOUS
  <2>1. ledger = <<>> /\ MaxTime \in Nat /\ MaxRecords \in Nat
    BY BudgetAssumption DEF BudgetInit
  <2>2. <<>> \in Seq(Record) /\ Len(<<>>) = 0
    OBVIOUS
  <2> QED
    BY <2>1, <2>2 DEF BudgetInit, Idle, FlowFields, Accounts, Spare
<1> QED
  BY <1>1, AccountsStep, PTL DEF BudgetSpec

\* The account, the journal and the ticket at hand keep their types.
THEOREM BudgetTypes == BudgetSpec => []BudgetTypeOK
<1>1. Accounts => BudgetTypeOK
  BY DEF Accounts, BudgetTypeOK
<1> QED
  BY <1>1, AccountsInvariant, PTL

\* A step that raises what is pending is an entry.
LEMMA OnlyEntriesEnter ==
  ASSUME Accounts, [BudgetNext]_budgetVars, Enters
  PROVE  \E s \in Instruments : Enter(s)
<1>1. PICK c \in Instruments : pending'[c] > pending[c]
  BY DEF Enters
<1>2. pending[c] \in Nat
  BY DEF Accounts
<1>3. CASE UNCHANGED pending
  BY <1>1, <1>2, <1>3
<1>4. CASE Tick \/ ReadMetrics \/ MetricsFail \/ Grant \/ VetoBudget \/ VisitFails \/ Restart
  BY <1>3, <1>4 DEF Tick, ReadMetrics, MetricsFail, Grant, VetoBudget, VisitFails, Restart, world
<1>5. ASSUME NEW s \in Instruments, Fill(s)
      PROVE  FALSE
  <2>1. pending'[c] = IF c = s THEN 0 ELSE pending[c]
    BY <1>5 DEF Fill, Accounts
  <2> QED
    BY <1>1, <1>2, <2>1
<1>6. ASSUME NEW s \in Instruments, ReadExposure(s)
      PROVE  UNCHANGED pending
  BY <1>6 DEF ReadExposure, world
<1>7. ASSUME NEW s \in Instruments, NEW mark \in {-1, 0}, ReadBalance(s, mark)
      PROVE  UNCHANGED pending
  BY <1>7 DEF ReadBalance, world
<1>8. ASSUME NEW s \in Instruments, NEW change \in {-1, 1}, NEW next \in BOOLEAN,
             Close(s, change, next)
      PROVE  UNCHANGED pending
  BY <1>8 DEF Close
<1>9. CASE UNCHANGED budgetVars
  BY <1>3, <1>9 DEF budgetVars
<1> QED
  BY <1>3, <1>4, <1>5, <1>6, <1>7, <1>8, <1>9 DEF BudgetNext

\* Whatever fills, closes and is lost while the portfolio is read, positions and
\* open entries stay within the leverage of the equity (PositionSizer.calculate).
THEOREM GrossIsBounded == BudgetSpec => GrossWithinLeverage
<1>1. Accounts /\ Spare /\ [BudgetNext]_budgetVars =>
        [Enters => Total(position') + Total(pending') <= flow.equity * Leverage]_budgetVars
  <2> SUFFICES ASSUME Accounts, Spare, [BudgetNext]_budgetVars, Enters
               PROVE  Total(position') + Total(pending') <= flow.equity * Leverage
    OBVIOUS
  <2>1. PICK s \in Instruments : Enter(s)
    BY OnlyEntriesEnter
  <2>2. /\ flow.step = "size" /\ Size > 0 /\ UNCHANGED position
        /\ pending' = [pending EXCEPT ![s] = pending[s] + Size]
    BY <2>1 DEF Enter
  <2>3. Size \in Int /\ Size <= flow.margin /\ flow.margin \in Nat
    BY SizeFits DEF Accounts
  <2>4. pending \in [Instruments -> Nat] /\ pending[s] \in Nat /\ pending[s] + Size \in Int
    BY <2>3 DEF Accounts
  <2>5. Total(pending') = (Total(pending) - pending[s]) + (pending[s] + Size)
    BY <2>2, <2>4, TotalChanges, Zenon
  <2>6. Total(position) \in Int /\ Total(pending) \in Int /\ flow.equity * Leverage \in Int
    <3>1. Leverage \in Int
      BY BudgetAssumption
    <3> QED
      BY <3>1, TotalType DEF Accounts
  <2>7. Total(pending') = Total(pending) + Size
    BY <2>3, <2>4, <2>5, <2>6
  <2>8. flow.margin + (Total(position) + Total(pending)) <= flow.equity * Leverage
    BY <2>2, <2>3 DEF Spare
  <2>9. Total(position') = Total(position)
    BY <2>2
  <2> QED
    BY <2>3, <2>6, <2>7, <2>8, <2>9
<1> QED
  BY <1>1, AccountsInvariant, PTL DEF BudgetSpec, GrossWithinLeverage

\* The metrics are those of a day in what the ledger held at its first n records,
\* and no record has come after them before this moment.
Read(metrics, d, moment) ==
    \E n \in 0..Len(ledger) :
        /\ metrics = Metrics(SubSeq(ledger, 1, n), d)
        /\ \A i \in (n + 1)..Len(ledger) : ledger[i].at >= moment

\* The guard is asked, or will be, about the ticket at hand.
Asked == flow.step = "decide" \/ (flow.step = "portfolio" /\ ~Kept)

\* Whatever is cached was read, and what the guard is asked with was read or cached.
Known ==
    /\ cache.day # -1 => cache.at \in 0..now /\ Read(cache.metrics, cache.day, cache.at)
    /\ Asked =>
          flow.readAt \in 0..now /\ Read(flow.metrics, Day(flow.readAt), flow.readAt - Ttl)

LEMMA SameLedger ==
  ASSUME UNCHANGED ledger, NEW metrics, NEW d, NEW moment, Read(metrics, d, moment)
  PROVE  Read(metrics, d, moment)'
BY DEF Read

LEMMA LongerLedger ==
  ASSUME ledger \in Seq(Record), NEW record, ledger' = Append(ledger, record),
         NEW metrics, NEW d, NEW moment, record.at >= moment, Read(metrics, d, moment)
  PROVE  \E n \in 0..Len(ledger') :
           /\ metrics = Metrics(SubSeq(ledger', 1, n), d)
           /\ \A i \in (n + 1)..Len(ledger') : ledger'[i].at >= moment
<1>1. PICK n \in 0..Len(ledger) :
        /\ metrics = Metrics(SubSeq(ledger, 1, n), d)
        /\ \A i \in (n + 1)..Len(ledger) : ledger[i].at >= moment
  BY DEF Read
<1>2. Len(ledger) \in Nat /\ Len(ledger') = Len(ledger) + 1
  OBVIOUS
<1>3. /\ \A i \in 1..Len(ledger) : ledger'[i] = ledger[i]
      /\ ledger'[Len(ledger) + 1] = record
  OBVIOUS
<1>4. SubSeq(ledger', 1, n) = SubSeq(ledger, 1, n)
  BY <1>2, <1>3
<1>5. \A i \in (n + 1)..Len(ledger') : ledger'[i].at >= moment
  <2> SUFFICES ASSUME NEW i \in (n + 1)..Len(ledger') PROVE ledger'[i].at >= moment
    OBVIOUS
  <2>1. CASE i = Len(ledger) + 1
    BY <1>3, <2>1
  <2>2. CASE i # Len(ledger) + 1
    <3>1. i \in (n + 1)..Len(ledger) /\ i \in 1..Len(ledger)
      BY <1>2, <2>2
    <3> QED
      BY <1>1, <1>3, <3>1
  <2> QED
    BY <2>1, <2>2
<1>6. n \in 0..Len(ledger')
  BY <1>2
<1> QED
  BY <1>1, <1>4, <1>5, <1>6

LEMMA KnownStep ==
  Accounts /\ Known /\ [BudgetNext]_budgetVars => Known'
<1> SUFFICES ASSUME Accounts, Known, [BudgetNext]_budgetVars
             PROVE  Known'
  OBVIOUS
<1>0. Ttl \in Nat /\ now \in Nat /\ MaxTime \in Nat
  BY BudgetAssumption DEF Accounts
<1>1. CASE UNCHANGED <<ledger, cache>> /\ (~Asked' \/ UNCHANGED <<flow, granted>>)
           /\ now' \in {now, now + 1}
  <2>1. 0..now \subseteq 0..now'
    BY <1>0, <1>1
  <2>2. Asked' => Asked /\ UNCHANGED flow
    BY <1>1 DEF Asked, Kept
  <2> QED
    BY <1>1, <2>1, <2>2, SameLedger DEF Known
<1>2. CASE Tick \/ VetoBudget \/ VisitFails
  BY <1>1, <1>2 DEF Tick, VetoBudget, VisitFails, world, Asked, Idle
<1>3. ASSUME NEW s \in Instruments, Fill(s) \/ Enter(s)
      PROVE  Known'
  BY <1>1, <1>3 DEF Fill, Enter, Asked, Idle
<1>4. ASSUME NEW s \in Instruments, NEW change \in {-1, 1}, NEW next \in BOOLEAN,
             Close(s, change, next)
      PROVE  Known'
  <2>1. PICK record : ledger' = Append(ledger, record) /\ record.at = now
    BY <1>4 DEF Close
  <2>2. UNCHANGED <<cache, flow, now, granted>>
    BY <1>4 DEF Close
  <2>3. ledger \in Seq(Record)
    BY DEF Accounts
  <2>4. ASSUME cache.day # -1
        PROVE  cache'.at \in 0..now' /\ Read(cache.metrics, cache.day, cache.at)'
    <3>1. Read(cache.metrics, cache.day, cache.at) /\ record.at >= cache.at
      BY <1>0, <2>1, <2>4 DEF Known
    <3>2. \E n \in 0..Len(ledger') :
            /\ cache.metrics = Metrics(SubSeq(ledger', 1, n), cache.day)
            /\ \A i \in (n + 1)..Len(ledger') : ledger'[i].at >= cache.at
      BY <2>1, <2>3, <3>1, LongerLedger
    <3> QED
      BY <2>2, <2>4, <3>2 DEF Read, Known
  <2>5. ASSUME Asked
        PROVE  flow'.readAt \in 0..now'
               /\ Read(flow.metrics, Day(flow.readAt), flow.readAt - Ttl)'
    <3> DEFINE moment == flow.readAt - Ttl
               d == Day(flow.readAt)
    <3>1. Read(flow.metrics, d, moment) /\ record.at >= moment
      BY <1>0, <2>1, <2>5 DEF Known
    <3>2. \E n \in 0..Len(ledger') :
            /\ flow.metrics = Metrics(SubSeq(ledger', 1, n), d)
            /\ \A i \in (n + 1)..Len(ledger') : ledger'[i].at >= moment
      <4> HIDE DEF moment, d
      <4> QED
        BY <2>1, <2>3, <3>1, LongerLedger
    <3>3. d' = d /\ moment' = moment
      BY <2>2
    <3> QED
      BY <2>2, <2>5, <3>2, <3>3 DEF Read, Known
  <2>6. Asked' = Asked
    BY <2>2 DEF Asked, Kept
  <2> QED
    BY <2>2, <2>4, <2>5, <2>6 DEF Known
<1>5. ASSUME NEW s \in Instruments, NEW mark \in {-1, 0}, ReadBalance(s, mark)
      PROVE  Known'
  <2>1. flow'.step = "metrics" /\ UNCHANGED <<now, ledger, cache>>
    BY <1>5 DEF ReadBalance, Idle, world
  <2> QED
    BY <1>1, <2>1 DEF Asked
<1>6. CASE ReadMetrics
  <2>1. /\ cache' = IF Fresh THEN cache
                    ELSE [day |-> Day(now), at |-> now, metrics |-> Metrics(ledger, Day(now))]
        /\ flow' = [flow EXCEPT !.step = "portfolio", !.metrics = cache'.metrics, !.readAt = now]
        /\ UNCHANGED <<ledger, now>>
    BY <1>6 DEF ReadMetrics, world
  <2>2. flow'.metrics = cache'.metrics /\ flow'.readAt = now
    BY <2>1 DEF Accounts, FlowFields
  <2>3. CASE Fresh
    <3>1. cache' = cache /\ cache.day = Day(now) /\ now - cache.at <= Ttl
      BY <2>1, <2>3 DEF Fresh
    <3>2. cache.day # -1
      <4>1. DayLength \in Nat \ {0}
        BY BudgetAssumption
      <4>2. Day(now) \in Nat
        BY <1>0, <4>1 DEF Day
      <4> QED
        BY <3>1, <4>2
    <3>3. cache.at \in 0..now /\ Read(cache.metrics, cache.day, cache.at)
      BY <3>2 DEF Known
    <3>4. Read(cache.metrics, Day(now), now - Ttl)
      <4>1. PICK n \in 0..Len(ledger) :
              /\ cache.metrics = Metrics(SubSeq(ledger, 1, n), Day(now))
              /\ \A i \in (n + 1)..Len(ledger) : ledger[i].at >= cache.at
        BY <3>1, <3>3 DEF Read
      <4>2. ASSUME NEW i \in (n + 1)..Len(ledger)
            PROVE  ledger[i].at >= now - Ttl
        <5>1. i \in 1..Len(ledger) /\ ledger \in Seq(Record)
          BY DEF Accounts
        <5>2. ledger[i].at \in Nat
          <6>1. ledger[i] \in Record
            BY <5>1
          <6> QED
            BY <6>1 DEF Record
        <5> QED
          BY <1>0, <3>1, <3>3, <4>1, <5>2
      <4> QED
        BY <4>1, <4>2 DEF Read
    <3> QED
      BY <1>0, <2>1, <2>2, <3>1, <3>3, <3>4, SameLedger DEF Known
  <2>4. CASE ~Fresh
    <3>1. cache'.day = Day(now) /\ cache'.at = now /\ cache'.metrics = Metrics(ledger, Day(now))
      BY <2>1, <2>4
    <3>2. \A moment : Read(Metrics(ledger, Day(now)), Day(now), moment)
      <4>1. ledger \in Seq(Record) /\ Len(ledger) \in Nat
        BY DEF Accounts
      <4>2. SubSeq(ledger, 1, Len(ledger)) = ledger /\ Len(ledger) \in 0..Len(ledger)
            /\ (Len(ledger) + 1)..Len(ledger) = {}
        BY <4>1
      <4> QED
        BY <4>2 DEF Read
    <3> QED
      BY <1>0, <2>1, <2>2, <3>1, <3>2, SameLedger DEF Known
  <2> QED
    BY <2>3, <2>4
<1>7. ASSUME NEW s \in Instruments, ReadExposure(s)
      PROVE  Known'
  <2>1. /\ UNCHANGED <<now, ledger, cache>> /\ flow.step = "portfolio"
        /\ flow'.metrics = flow.metrics /\ flow'.readAt = flow.readAt
        /\ flow'.step = IF Kept THEN "size" ELSE "decide"
    BY <1>7 DEF ReadExposure, world, Accounts, FlowFields
  <2>2. Asked' => Asked
    BY <2>1 DEF Asked
  <2> QED
    BY <2>1, <2>2, SameLedger DEF Known
<1>8. CASE Restart
  BY <1>8 DEF Restart, NoCache, Idle, Known, Asked
<1>9. CASE MetricsFail
  <2>1. UNCHANGED <<now, ledger, cache, granted>>
    BY <1>9 DEF MetricsFail, world
  <2>2. ~Asked'
    <3>1. CASE Kept
      <4>1. flow'.step = "portfolio" /\ flow'.cur = flow.cur
        BY <1>9, <3>1 DEF MetricsFail, Accounts, FlowFields
      <4> QED
        BY <2>1, <3>1, <4>1 DEF Asked, Kept
    <3>2. CASE ~Kept
      BY <1>9, <3>2 DEF MetricsFail, Idle, Asked
    <3> QED
      BY <3>1, <3>2
  <2> QED
    BY <1>1, <2>1, <2>2
<1>10. CASE Grant
  <2>1. flow'.step = "size" /\ UNCHANGED <<now, ledger, cache>>
    BY <1>10 DEF Grant, world, Accounts, FlowFields
  <2> QED
    BY <1>1, <2>1 DEF Asked
<1>11. CASE UNCHANGED budgetVars
  BY <1>1, <1>11 DEF budgetVars
<1> QED
  BY <1>2, <1>3, <1>4, <1>5, <1>6, <1>7, <1>8, <1>9, <1>10, <1>11 DEF BudgetNext

\* A step that approves a ticket is the guard's.
LEMMA OnlyGuardGrants ==
  ASSUME [BudgetNext]_budgetVars, ~(granted' \subseteq granted)
  PROVE  Grant
<1>1. CASE Tick \/ ReadMetrics \/ MetricsFail \/ VetoBudget \/ VisitFails \/ Restart
  BY <1>1 DEF Tick, ReadMetrics, MetricsFail, VetoBudget, VisitFails, Restart
<1>2. ASSUME NEW s \in Instruments, Fill(s) \/ ReadExposure(s) \/ Enter(s)
      PROVE  FALSE
  BY <1>2 DEF Fill, ReadExposure, Enter
<1>3. ASSUME NEW s \in Instruments, NEW mark \in {-1, 0}, ReadBalance(s, mark)
      PROVE  FALSE
  BY <1>3 DEF ReadBalance
<1>4. ASSUME NEW s \in Instruments, NEW change \in {-1, 1}, NEW next \in BOOLEAN,
             Close(s, change, next)
      PROVE  FALSE
  BY <1>4 DEF Close
<1>5. CASE UNCHANGED budgetVars
  BY <1>5 DEF budgetVars
<1> QED
  BY <1>1, <1>2, <1>3, <1>4, <1>5 DEF BudgetNext

\* A ticket is approved only if the losses that its day had shown within the age
\* of the cache allowed it (RiskGuard.evaluate, get_daily_risk_metrics).
THEOREM LossesAreSeen == BudgetSpec => LossesStopApprovals
<1> DEFINE Allowed ==
      \E n \in 0..Len(ledger) :
         /\ Recent(SubSeq(ledger, 1, n))
         /\ ~Halts(Metrics(SubSeq(ledger, 1, n), Day(flow.readAt)), flow.equity, flow.mark, flow.at)
<1>1. Accounts /\ Known /\ [BudgetNext]_budgetVars =>
        [~(granted' \subseteq granted) => Allowed]_budgetVars
  <2> SUFFICES ASSUME Accounts, Known, [BudgetNext]_budgetVars, ~(granted' \subseteq granted)
               PROVE  Allowed
    OBVIOUS
  <2>1. Grant
    BY OnlyGuardGrants
  <2>2. flow.step = "decide" /\ ~Halts(flow.metrics, flow.equity, flow.mark, flow.at) /\ Asked
    BY <2>1 DEF Grant, Approved, Asked
  <2>3. PICK n \in 0..Len(ledger) :
          /\ flow.metrics = Metrics(SubSeq(ledger, 1, n), Day(flow.readAt))
          /\ \A i \in (n + 1)..Len(ledger) : ledger[i].at >= flow.readAt - Ttl
    BY <2>2 DEF Known, Read
  <2> DEFINE old == {i \in DOMAIN ledger : ledger[i].at < flow.readAt - Ttl}
  <2>4. old \subseteq 1..n
    <3> SUFFICES ASSUME NEW i \in DOMAIN ledger, ~(i \in 1..n)
                 PROVE  ~(ledger[i].at < flow.readAt - Ttl)
      OBVIOUS
    <3>1. i \in (n + 1)..Len(ledger)
      BY DEF Accounts
    <3>2. ledger[i].at \in Nat
      <4>1. ledger[i] \in Record
        BY DEF Accounts
      <4> QED
        BY <4>1 DEF Record
    <3>3. flow.readAt - Ttl \in Int
      <4>1. flow.readAt \in 0..now /\ now \in 0..MaxTime
        BY <2>2 DEF Known, Accounts
      <4>2. Ttl \in Nat
        BY BudgetAssumption
      <4> QED
        BY <4>1, <4>2
    <3> QED
      BY <2>3, <3>1, <3>2, <3>3
  <2>5. Cardinality(old) \in Nat /\ Cardinality(old) <= n
    <3>1. n \in Nat /\ IsFiniteSet(1..n) /\ Cardinality(1..n) = n
      BY FS_Interval
    <3> HIDE DEF old
    <3>2. IsFiniteSet(old) /\ Cardinality(old) <= Cardinality(1..n)
      BY <2>4, <3>1, FS_Subset
    <3> QED
      BY <3>1, <3>2, FS_CardinalityType
  <2>6. n \in Cardinality(old)..Len(ledger)
    BY <2>5 DEF Accounts
  <2>7. Recent(SubSeq(ledger, 1, n))
    BY <2>6 DEF Recent
  <2> QED
    BY <2>2, <2>3, <2>7
<1>2. BudgetInit => Known
  BY DEF BudgetInit, NoCache, Idle, Known, Asked
<1> QED
  BY <1>1, <1>2, KnownStep, AccountsInvariant, PTL DEF BudgetSpec, LossesStopApprovals
===============================================================================
