---------------------------- MODULE RestartProofs ----------------------------
(***************************************************************************)
(* Theorems about what crashes, lost answers and two threads do to the      *)
(* exits of a position and to a CANCEL ticket, for every set of tickets,    *)
(* sessions and exit levels.                                                *)
(***************************************************************************)
EXTENDS ProtectionExits, CancelExecution, ExecutionStoreProofs, SequenceTheorems,
        WellFoundedInduction

-----------------------------------------------------------------------------
(***************************************************************************)
(* Induction over the naturals, with a set in the place of a predicate, and *)
(* what it says of the sums that are defined by recursion.                  *)
(***************************************************************************)

\* A set of naturals that is not empty has a smallest member.
LEMMA SmallestMember ==
  ASSUME NEW S \in SUBSET Nat, S # {}
  PROVE  \E m \in S : \A k \in S : m <= k
<1> DEFINE UpTo(m) == { k \in S : k <= m }
           Initial == { UpTo(m) : m \in S }
<1>0. \A k \in S : k \in Nat
  OBVIOUS
<1>1. Initial \subseteq FiniteSubsetsOf(Nat)
  <2> SUFFICES ASSUME NEW m \in S
               PROVE  UpTo(m) \in FiniteSubsetsOf(Nat)
    OBVIOUS
  <2>1. IsFiniteSet(0..m)
    BY FS_Interval
  <2>2. UpTo(m) \in SUBSET (0..m)
    <3>1. \A k \in UpTo(m) : k \in 0..m
      BY <1>0
    <3> QED BY <3>1
  <2>3. IsFiniteSet(UpTo(m))
    BY <2>1, <2>2, FS_Subset
  <2> QED BY <2>3 DEF FiniteSubsetsOf
<1>2. Initial # {}
  OBVIOUS
<1>3. IsWellFoundedOn(StrictSubsetOrdering(Nat), FiniteSubsetsOf(Nat))
  BY FS_StrictSubsetOrderingWellFounded
<1>4. PICK x \in Initial : \A y \in Initial : ~ (<<y, x>> \in StrictSubsetOrdering(Nat))
  <2> HIDE DEF Initial
  <2> QED BY <1>1, <1>2, <1>3, WFMin
<1>5. PICK m \in S : x = UpTo(m)
  OBVIOUS
<1>6. ASSUME NEW k \in S, k < m
      PROVE  FALSE
  <2>1. UpTo(k) \in Initial
    OBVIOUS
  <2>2. UpTo(k) \subseteq x /\ m \in x /\ m \notin UpTo(k)
    <3>1. k \in Nat /\ m \in Nat /\ \A j \in Nat : j <= k => j <= m
      BY <1>0, <1>6
    <3>2. m <= m /\ ~ (m <= k)
      BY <1>6, <3>1
    <3>3. UpTo(k) \subseteq UpTo(m)
      BY <1>0, <3>1
    <3> QED BY <1>5, <3>2, <3>3
  <2>3. <<UpTo(k), x>> \in StrictSubsetOrdering(Nat)
    BY <1>5, <2>2 DEF StrictSubsetOrdering
  <2> QED BY <1>4, <2>1, <2>3
<1> QED BY <1>6

\* A set of naturals that holds 0 and the successor of each member holds all.
LEMMA SetInduction ==
  ASSUME NEW S, 0 \in S, \A n \in Nat : n \in S => n + 1 \in S
  PROVE  Nat \subseteq S
<1> DEFINE Rest == Nat \ S
<1>1. SUFFICES ASSUME Rest # {} PROVE FALSE
  OBVIOUS
<1>2. PICK m \in Rest : \A k \in Rest : m <= k
  <2> Rest \in SUBSET Nat
    OBVIOUS
  <2> HIDE DEF Rest
  <2> QED BY <1>1, SmallestMember
<1>3. m # 0 /\ m - 1 \in Nat /\ m - 1 + 1 = m
  OBVIOUS
<1>4. m - 1 \in S
  BY <1>2, <1>3
<1> QED BY <1>3, <1>4

\* Running sums of naturals exist: the recursion that defines them has a solution.
LEMMA RunningSums ==
  ASSUME NEW n \in Nat, NEW h, \A i \in 1..n : h[i] \in Nat
  PROVE  \E g \in [0..n -> Nat] :
           g = [i \in 0..n |-> IF i = 0 THEN 0 ELSE g[i - 1] + h[i]]
<1> DEFINE Sums(k, g) == g[0] = 0 /\ \A i \in 1..k : g[i] = g[i - 1] + h[i]
           Lengths == { k \in Nat : k <= n => \E g \in [0..k -> Nat] : Sums(k, g) }
<1>1. 0 \in Lengths
  <2>1. [i \in 0..0 |-> 0] \in [0..0 -> Nat] /\ Sums(0, [i \in 0..0 |-> 0])
    OBVIOUS
  <2> QED BY <2>1
<1>2. ASSUME NEW k \in Nat, k \in Lengths
      PROVE  k + 1 \in Lengths
  <2> SUFFICES ASSUME k + 1 <= n
               PROVE  \E g \in [0..(k + 1) -> Nat] : Sums(k + 1, g)
    OBVIOUS
  <2>1. PICK g \in [0..k -> Nat] : Sums(k, g)
    BY <1>2
  <2> DEFINE more == [i \in 0..(k + 1) |-> IF i = k + 1 THEN g[k] + h[k + 1] ELSE g[i]]
  <2>2. h[k + 1] \in Nat /\ g[k] \in Nat
    OBVIOUS
  <2>3. more \in [0..(k + 1) -> Nat]
    BY <2>2
  <2>4. Sums(k + 1, more)
    <3>1. more[0] = 0
      BY <2>1
    <3>2. ASSUME NEW i \in 1..(k + 1)
          PROVE  more[i] = more[i - 1] + h[i]
      <4>1. CASE i = k + 1
        BY <4>1
      <4>2. CASE i # k + 1
        <5>1. i \in 1..k /\ i - 1 \in 0..k
          BY <4>2
        <5> QED BY <2>1, <5>1
      <4> QED BY <4>1, <4>2
    <3> QED BY <3>1, <3>2
  <2> QED BY <2>3, <2>4
<1>3. n \in Lengths
  <2> HIDE DEF Lengths
  <2> QED BY <1>1, <1>2, SetInduction
<1>4. PICK g \in [0..n -> Nat] : Sums(n, g)
  <2>1. n <= n
    OBVIOUS
  <2>2. n <= n => \E g \in [0..n -> Nat] : Sums(n, g)
    <3> HIDE DEF Sums
    <3> QED BY <1>3, Zenon
  <2> QED BY <2>1, <2>2
<1>5. ASSUME NEW i \in 0..n
      PROVE  g[i] = IF i = 0 THEN 0 ELSE g[i - 1] + h[i]
  BY <1>4
<1>6. g = [i \in 0..n |-> g[i]]
  OBVIOUS
<1>7. g = [i \in 0..n |-> IF i = 0 THEN 0 ELSE g[i - 1] + h[i]]
  BY <1>5, <1>6
<1> QED BY <1>7

-----------------------------------------------------------------------------
(* The exits of a position: types, and where the threads stand *)

\* The types of all but the journal.
LocalsTyped ==
  /\ sess \in Sessions /\ spent \in SUBSET Sessions
  /\ pc \in { "start", "idle", "visit", "adopt", "ack", "fetch", "book", "audit", "holding",
              "stoprisk", "closing", "protect", "installing" }
  /\ todo \in SUBSET AllRoles /\ unnamed \in SUBSET AllRoles
  /\ cur \in AllRoles \cup {"none"}
  /\ answer \in ExchangeStatuses
  /\ batch \in SUBSET Execs
  /\ at \in [Threads ->
       { "off", "roles", "size", "fence", "level", "send", "sent", "record" }]
  /\ kill \in BOOLEAN /\ overdue \in BOOLEAN

\* The exchange as the service may know it.
ExchangeTyped ==
  /\ qty \in [AllRoles -> 0..Lots]
  /\ order \in [AllRoles -> ExchangeStatuses]
  /\ traded \in [AllRoles -> 0..Lots]
  /\ inflight \in SUBSET AllRoles
  /\ sent \in [AllRoles -> Nat]
  /\ position \in 0..Lots /\ snapshot \in 0..Lots

\* The thread th is at the close of the position.
Closing(th) == th = "loop" /\ pc \in { "stoprisk", "closing" }

(***************************************************************************)
(* Where the threads stand in a visit and in a submission; only the close   *)
(* submits the time exit.                                                   *)
(***************************************************************************)
ThreadsInv ==
  /\ unnamed \subseteq ExitRoles
  /\ pc \in { "adopt", "ack", "fetch", "book" } => cur \in AllRoles
  /\ pc = "adopt" => cur \in ExitRoles
  /\ pc \in { "adopt", "ack" } => answer # "NONE"
  /\ pc \notin { "closing", "installing" } => at["loop"] = "off"
  /\ pc = "closing" => at["loop"] \notin { "roles", "size" }
  /\ roles \in [Threads -> Seq(ExitRoles)] /\ total \in [Threads -> Nat]
  /\ \A th \in Threads :
       /\ at[th] \in { "send", "sent", "record" } => roles[th] # <<>>
       /\ at[th] = "off" => roles[th] = <<>> \/ (pc = "stoprisk" /\ th = "loop")
       /\ Closing(th) \/ roles[th] \in Seq(ExitRoles \ {TimeExit})

\* Links, entries and roles of the ticket belong together.
LEMMA ExitLinks ==
  /\ Ticket \in Tickets \ Cancels /\ TimeExit \in ExitRoles /\ "entry" \notin ExitRoles
  /\ \A r \in AllRoles : Link(r) \in Links /\ TicketOf(Link(r)) = Ticket
  /\ \A r \in ExitRoles : Link(r) # Entry /\ ~IsEntry(Link(r))
  /\ \A r, q \in AllRoles : Link(r) = Link(q) => r = q
  /\ IsEntry(Entry) /\ Entry = Link("entry") /\ "entry" \in AllRoles
  /\ ExitRoles \subseteq AllRoles
BY ExitsAssumption, RolesAssumption
   DEF Links, EntryOf, TicketOf, IsEntry, Link, AllRoles, Entry

-----------------------------------------------------------------------------
(* The locals of the threads *)

\* The locals of a submission that begins, or goes on, at `where'.
Begun(th, where, rs, q) ==
  /\ at' \in [Threads ->
       { "off", "roles", "size", "fence", "level", "send", "sent", "record" }]
  /\ roles' \in [Threads -> Seq(ExitRoles)] /\ total' \in [Threads -> Nat]
  /\ at'[th] = where /\ roles'[th] = rs /\ total'[th] = q
  /\ \A u \in Threads \ {th} : at'[u] = at[u] /\ roles'[u] = roles[u] /\ total'[u] = total[u]

LEMMA Begins ==
  ASSUME LocalsTyped, ThreadsInv, NEW th \in Threads,
         NEW where \in { "off", "roles", "size", "fence", "level", "send", "sent", "record" },
         NEW rs \in Seq(ExitRoles), NEW q \in Nat, Begin(th, where, rs, q)
  PROVE  Begun(th, where, rs, q)
BY DEF LocalsTyped, ThreadsInv, Begin, Begun

\* What a thread that submits exits makes of its locals.
Submits(th) ==
  \/ Off(th)
  \/ \E q \in { 0, total[th], SizeOf(th) }, where \in { "size", "fence", "level", "send", "sent", "record" } :
       /\ where = "size" => at[th] = "roles"
       /\ where \in { "send", "sent", "record" } => roles[th] # <<>>
       /\ Begin(th, where, roles[th], q)
  \/ roles[th] # <<>> /\ NextRole(th)

\* Each of its steps is one of these, and leaves the visit of the loop alone.
LEMMA SubmitMoves ==
  ASSUME TypeOK, LocalsTyped, ExchangeTyped, ThreadsInv, NEW th \in Threads, Submit(th)
  PROVE  /\ at[th] # "off" /\ Submits(th)
         /\ ~(th = "loop" /\ pc = "stoprisk")
         /\ UNCHANGED <<visitVars, procVars, overdue, exchVars>> \/ Send(th)
         /\ UNCHANGED <<visitVars, procVars, overdue>>
         /\ kill' \in { kill, TRUE } /\ SizeOf(th) \in Nat
<1>1. total[th] \in Nat /\ SizeOf(th) \in Nat /\ 0 \in Nat
  <2>1. cum_exec_qty(Entry) \in Nat
    BY CountFacts, ExitLinks
  <2> QED BY <2>1 DEF ThreadsInv, SizeOf, ExchangeTyped
<1>2. CASE \/ CheckRoles(th) \/ Size(th) \/ TakeFence(th) \/ Reserve(th) \/ Done(th)
  BY <1>1, <1>2 DEF CheckRoles, Size, TakeFence, Reserve, Done, Submits, Calls, Journal,
       riskVars, ReadPortfolio, ThreadsInv, Threads
<1>3. CASE Send(th) \/ Answered(th) \/ RecordSubmission(th) \/ InstallationRaises(th)
  BY <1>1, <1>3 DEF Send, Answered, RecordSubmission, InstallationRaises, SubmissionRaises, TooSmall,
       SubmissionFails, Submits, Calls, Journal, riskVars, ThreadsInv, Threads
<1> QED BY <1>2, <1>3 DEF Submit

\* The first role of a sequence and the others.
LEMMA RolesLeft ==
  ASSUME NEW S, NEW rs \in Seq(S), rs # <<>>
  PROVE  Head(rs) \in S /\ Tail(rs) \in Seq(S)
BY HeadTailProperties

\* A submission keeps the locals as ThreadsInv has them.
LEMMA SubmitThreads ==
  ASSUME LocalsTyped, ThreadsInv, NEW th \in Threads, at[th] # "off", Submits(th),
         UNCHANGED visitVars, SizeOf(th) \in Nat
  PROVE  /\ ThreadsInv'
         /\ at' \in [Threads ->
              { "off", "roles", "size", "fence", "level", "send", "sent", "record" }]
<1>1. /\ roles[th] \in Seq(ExitRoles) /\ <<>> \in Seq(ExitRoles)
      /\ <<>> \in Seq(ExitRoles \ {TimeExit}) /\ total[th] \in Nat /\ 0 \in Nat
  BY DEF ThreadsInv
<1>2. roles[th] # <<>> =>
        /\ Tail(roles[th]) \in Seq(ExitRoles)
        /\ roles[th] \in Seq(ExitRoles \ {TimeExit}) =>
             Tail(roles[th]) \in Seq(ExitRoles \ {TimeExit})
  BY <1>1, RolesLeft
<1>3. CASE Off(th)
  <2>1. /\ at' = [at EXCEPT ![th] = "off"]
        /\ roles' = [roles EXCEPT ![th] = <<>>]
        /\ total' = [total EXCEPT ![th] = 0]
    BY <1>3 DEF Off, Begin
  <2>2. roles' \in [Threads -> Seq(ExitRoles)] /\ total' \in [Threads -> Nat]
    BY <1>1, <2>1 DEF ThreadsInv
  <2>3. /\ at' \in [Threads ->
             { "off", "roles", "size", "fence", "level", "send", "sent", "record" }]
        /\ at'[th] = "off" /\ roles'[th] = <<>>
        /\ \A u \in Threads \ {th} : at'[u] = at[u] /\ roles'[u] = roles[u]
    BY <2>1 DEF ThreadsInv, LocalsTyped
  <2>4. UNCHANGED <<pc, unnamed, cur, answer>> /\ "loop" \in Threads
    BY DEF visitVars, Threads
  <2>5. ASSUME NEW u \in Threads
        PROVE  /\ at'[u] \in { "send", "sent", "record" } => roles'[u] # <<>>
               /\ at'[u] = "off" => roles'[u] = <<>> \/ (pc' = "stoprisk" /\ u = "loop")
               /\ Closing(u)' \/ roles'[u] \in Seq(ExitRoles \ {TimeExit})
    <3>1. CASE u = th
      BY <1>1, <2>3, <3>1
    <3>2. CASE u # th
      BY <2>3, <2>4, <3>2 DEF ThreadsInv, Closing
    <3> QED BY <3>1, <3>2
  <2>6. at'["loop"] \in { at["loop"], "off" }
    BY <2>3, <2>4
  <2> QED BY <2>2, <2>3, <2>4, <2>5, <2>6 DEF ThreadsInv
<1>4. CASE roles[th] # <<>> /\ NextRole(th)
  BY <1>1, <1>2, <1>4 DEF NextRole, Begin, ThreadsInv, LocalsTyped, visitVars, Closing
<1>5. ASSUME NEW q \in Nat,
             NEW where \in { "size", "fence", "level", "send", "sent", "record" },
             where = "size" => at[th] = "roles",
             where \in { "send", "sent", "record" } => roles[th] # <<>>,
             Begin(th, where, roles[th], q)
      PROVE  /\ ThreadsInv'
             /\ at' \in [Threads ->
                  { "off", "roles", "size", "fence", "level", "send", "sent", "record" }]
  BY <1>1, <1>5 DEF Begin, ThreadsInv, LocalsTyped, visitVars, Closing
<1>6. { 0, total[th], SizeOf(th) } \subseteq Nat
  BY <1>1
<1> QED BY <1>3, <1>4, <1>5, <1>6 DEF Submits

\* Dropping the locals keeps them.
LEMMA AbortThreads ==
  ASSUME LocalsTyped, ThreadsInv, Abort
  PROVE  LocalsTyped' /\ ThreadsInv'
<1>1. <<>> \in Seq(ExitRoles) /\ <<>> \in Seq(ExitRoles \ {TimeExit}) /\ 0 \in Nat
      /\ "loop" \in Threads
  BY DEF Threads
<1> QED BY <1>1 DEF Abort, Drop, Off, Begin, Calls, procVars, riskVars, ThreadsInv, LocalsTyped,
             Closing, ExchangeStatuses

\* The visits of the loop leave the submissions alone.
LEMMA ReconcileThreads ==
  ASSUME TypeOK, LocalsTyped, ExchangeTyped, ThreadsInv, Reconcile
  PROVE  LocalsTyped' /\ ThreadsInv'
<1>1. CASE Wake \/ Visited \/ Reconciled \/ Audited \/ NotOwned
  BY <1>1, ExitLinks DEF Wake, Visited, Reconciled, Audited, NotOwned, Calls, Goto, Drop, exitVars,
       procVars, riskVars, LocalsTyped, ThreadsInv, Closing, ExchangeStatuses, Active, AllRoles
<1>2. CASE AdoptFound \/ AckFound \/ \E e \in batch : BookFetched(e)
  BY <1>2 DEF AdoptFound, AckFound, BookFetched, Journal, Goto, exitVars,
       procVars, riskVars, LocalsTyped, ThreadsInv, Closing
<1>3. CASE \E r \in AllRoles : FindOrder(r) \/ FetchExecutions(r)
  <2>1. PICK r \in AllRoles : FindOrder(r) \/ FetchExecutions(r)
    BY <1>3
  <2>2. Executed(r) \subseteq Execs
    BY ExitLinks, ExitsAssumption, NumbersAssumption DEF Executed, ExchangeTyped
  <2> QED BY <2>1, <2>2 DEF FindOrder, FetchExecutions, Calls, exitVars, ExchangeTyped,
       procVars, riskVars, LocalsTyped, ThreadsInv, Closing, ExchangeStatuses
<1> QED BY <1>1, <1>2, <1>3 DEF Reconcile

\* The sequences that a submission starts with.
LEMMA RoleSequences ==
  /\ Targets \in Seq(ExitRoles \ {TimeExit}) /\ Targets \in Seq(ExitRoles)
  /\ <<>> \in Seq(ExitRoles \ {TimeExit}) /\ <<>> \in Seq(ExitRoles)
  /\ <<TimeExit>> \in Seq(ExitRoles) /\ <<TimeExit>> # <<>>
  /\ "loop" \in Threads /\ "stream" \in Threads /\ 0 \in Nat
BY ExitsAssumption DEF Threads

\* The loop moves on with its own locals; the stream's are left alone.
LEMMA ProtectThreads ==
  ASSUME TypeOK, LocalsTyped, ExchangeTyped, ThreadsInv, Protect
  PROVE  LocalsTyped' /\ ThreadsInv'
<1>1. CASE NotOverdue \/ ExitSubmitted \/ Recovered
  BY <1>1, RoleSequences DEF NotOverdue, ExitSubmitted, Recovered, Calls, Goto, Drop, exitVars,
       procVars, riskVars, LocalsTyped, ThreadsInv, Closing, ExchangeStatuses
<1>2. CASE ReadHolding
  <2>1. position \in Nat
    BY DEF ExchangeTyped
  <2>2. CASE position = 0
    BY <1>2, <2>2, RoleSequences DEF ReadHolding, ReadPortfolio, Goto, exitVars,
         procVars, LocalsTyped, ThreadsInv, Closing
  <2>3. CASE position # 0
    <3>1. /\ Goto("stoprisk") /\ Begin("loop", "off", <<TimeExit>>, position)
          /\ UNCHANGED <<procVars, kill, overdue>>
      BY <1>2, <2>3 DEF ReadHolding, ReadPortfolio
    <3>2. Begun("loop", "off", <<TimeExit>>, position)
      BY <2>1, <3>1, RoleSequences, Begins
    <3> QED BY <1>2, <3>1, <3>2, RoleSequences
            DEF ReadHolding, Begun, Goto, procVars, LocalsTyped, ThreadsInv, Closing
  <2> QED BY <2>2, <2>3
<1>3. CASE StopRisk
  BY <1>3, RoleSequences DEF StopRisk, Goto, Begin, procVars, LocalsTyped, ThreadsInv, Closing
<1>4. CASE Recover
  <2>1. CASE HasTraded
    <3>1. Goto("installing") /\ Begin("loop", "roles", Targets, 0) /\ Calls
      BY <1>4, <2>1 DEF Recover
    <3>2. Begun("loop", "roles", Targets, 0)
      BY <3>1, RoleSequences, Begins
    <3> QED BY <1>4, <3>1, <3>2, RoleSequences
            DEF Recover, Begun, Goto, Calls, procVars, riskVars, LocalsTyped, ThreadsInv, Closing
  <2>2. CASE ~HasTraded
    BY <1>4, <2>2, RoleSequences DEF Recover, Drop, exitVars, Calls, procVars, riskVars,
         LocalsTyped, ThreadsInv, Closing, ExchangeStatuses
  <2> QED BY <2>1, <2>2
<1> QED BY <1>1, <1>2, <1>3, <1>4 DEF Protect

\* A message starts at most a submission of the targets, by the stream.
LEMMA StreamThreads ==
  ASSUME TypeOK, LocalsTyped, ExchangeTyped, ThreadsInv, Stream
  PROVE  LocalsTyped' /\ ThreadsInv'
<1>1. /\ UNCHANGED <<procVars, visitVars, overdue, kill>>
      /\ UNCHANGED exitVars \/ Begin("stream", "roles", Targets, 0)
  BY DEF Stream, StreamOrder, StreamExecution, Streams
<1>2. CASE UNCHANGED exitVars
  BY <1>1, <1>2 DEF exitVars, visitVars, procVars, LocalsTyped, ThreadsInv, Closing
<1>3. CASE Begin("stream", "roles", Targets, 0)
  BY <1>1, <1>3, RoleSequences DEF Begin, visitVars, procVars, LocalsTyped, ThreadsInv, Closing
<1> QED BY <1>1, <1>2, <1>3

\* The exchange and the clock leave the threads alone; a crash stops them.
LEMMA OutsideThreads ==
  ASSUME LocalsTyped, ThreadsInv, Outside
  PROVE  LocalsTyped' /\ ThreadsInv'
<1>1. CASE \E s \in Sessions : Crash(s)
  BY <1>1, RoleSequences DEF Crash, Drop, riskVars, LocalsTyped, ThreadsInv, Closing,
       ExchangeStatuses
<1>2. CASE \/ \E r \in AllRoles : ExchangeReceives(r) \/ ExchangeTrades(r) \/ ExchangeCancels(r)
           \/ StopLoss \/ HoldsTooLong \/ LocalLeaseExpires
  <2>1. UNCHANGED <<procVars, visitVars, exitVars, kill>> /\ overdue' \in BOOLEAN
    BY <1>2 DEF ExchangeReceives, ExchangeTrades, ExchangeCancels, StopLoss, HoldsTooLong,
         LocalLeaseExpires, outsideVars, riskVars, LocalsTyped
  <2> QED BY <2>1 DEF visitVars, exitVars, procVars, LocalsTyped, ThreadsInv, Closing
<1> QED BY <1>1, <1>2 DEF Outside

\* Every step leaves the threads where ThreadsInv has them.
LEMMA ThreadsStep ==
  ASSUME TypeOK, LocalsTyped, ExchangeTyped, ThreadsInv, [Next]_vars
  PROVE  LocalsTyped' /\ ThreadsInv'
<1>1. ASSUME NEW th \in Threads, Submit(th)
      PROVE  LocalsTyped' /\ ThreadsInv'
  <2>1. /\ at[th] # "off" /\ Submits(th) /\ SizeOf(th) \in Nat
        /\ UNCHANGED <<visitVars, procVars, overdue>> /\ kill' \in { kill, TRUE }
    BY <1>1, SubmitMoves
  <2>2. /\ ThreadsInv'
        /\ at' \in [Threads ->
             { "off", "roles", "size", "fence", "level", "send", "sent", "record" }]
    BY <2>1, SubmitThreads
  <2> QED BY <2>1, <2>2 DEF LocalsTyped, visitVars, procVars
<1>2. CASE RaiseJournal \/ RaiseCall \/ TimesOut
  BY <1>2, AbortThreads DEF RaiseJournal, RaiseCall, TimesOut
<1>3. CASE UNCHANGED vars
  BY <1>3 DEF vars, visitVars, exitVars, procVars, riskVars, LocalsTyped, ThreadsInv, Closing
<1> QED BY <1>1, <1>2, <1>3, RoleSequences, ReconcileThreads, ProtectThreads, StreamThreads,
           OutsideThreads DEF Next, Loop

-----------------------------------------------------------------------------
(* Every step is a step of the journal, or leaves it alone *)

(***************************************************************************)
(* Each session that takes the ticket over raises its epoch by one, so the  *)
(* sessions that have run bound it.                                         *)
(***************************************************************************)
EpochInv ==
  /\ sess \in spent /\ owner[Ticket] \in spent
  /\ epoch[Ticket] <= Cardinality(spent)
  /\ owner[Ticket] # sess => epoch[Ticket] < Cardinality(spent)

\* The entry keeps its quantity.
EntryQty == qty["entry"] = Lots

\* The sessions that have run are finitely many, fewer than the bound on the epochs.
LEMMA SpentFacts ==
  ASSUME LocalsTyped
  PROVE  /\ IsFiniteSet(spent) /\ Cardinality(spent) \in Nat /\ Cardinality(spent) < MaxEpoch
<1>1. IsFiniteSet(spent) /\ Cardinality(spent) <= Cardinality(Sessions)
  BY EpochsAssumption, FS_Subset DEF LocalsTyped
<1>2. Cardinality(spent) \in Nat /\ Cardinality(Sessions) \in Nat /\ MaxEpoch \in Nat
  BY <1>1, EpochsAssumption, NumbersAssumption, FS_CardinalityType
<1> QED BY <1>1, <1>2, EpochsAssumption

\* What the exchange has reported may be reported to the journal.
LEMMA PastFacts ==
  ASSUME ExchangeTyped, NEW r \in AllRoles
  PROVE  /\ Past(r) \subseteq RemoteStatuses /\ Past(r) \subseteq ExchangeStatuses
         /\ "NONE" \notin Past(r)
         /\ order[r] # "NONE" => order[r] \in Past(r)
         /\ "FILLED" \in Past(r) => order[r] = "FILLED"
         /\ "CANCELED" \in Past(r) => order[r] = "CANCELED"
         /\ "REJECTED" \in Past(r) => order[r] = "REJECTED"
<1>1. order[r] \in ExchangeStatuses
  BY DEF ExchangeTyped
<1> QED BY <1>1 DEF Past, ExchangeStatuses, RemoteStatuses, FinalOrderStatuses

\* The executions of an order are executions.
LEMMA ExecutedFacts ==
  ASSUME ExchangeTyped, NEW r \in AllRoles
  PROVE  Executed(r) \subseteq Execs
BY ExitLinks, ExitsAssumption, NumbersAssumption DEF Executed, ExchangeTyped

\* The row's quantity of the entry is the one that decides its state.
LEMMA BookIsRecordFill ==
  ASSUME EntryQty, NEW r \in AllRoles, NEW e, Book(r, e)
  PROVE  RecordFill(e, Link(r))
<1> DEFINE target == IF Completes(r, e) THEN "FILLED" ELSE "PARTIALLY_FILLED"
<1>1. CASE r = "entry"
  <2>1. Link(r) = Entry /\ IsEntry(Link(r))
    BY <1>1, ExitLinks
  <2>2. target = FillTarget(fills[Link(r)] \cup {e})
    BY <1>1 DEF Completes, FillTarget, EntryQty
  <2>3. target \in FillTargets(Link(r), fills[Link(r)] \cup {e})
    BY <2>1, <2>2 DEF FillTargets
  <2> QED BY <2>3 DEF Book, RecordFill
<1>2. CASE r # "entry"
  <2>1. ~IsEntry(Link(r))
    BY <1>2, ExitLinks DEF AllRoles
  <2>2. target \in FillTargets(Link(r), fills[Link(r)] \cup {e})
    BY <2>1 DEF FillTargets
  <2> QED BY <2>2 DEF Book, RecordFill
<1> QED BY <1>1, <1>2

\* A submission of a child is one of the journal's.
LEMMA RecordIsStoreStep ==
  ASSUME NEW r \in ExitRoles, RecordExitSubmission(Link(r), {Link(r)})
  PROVE  StoreNext
<1>1. Link(r) \in Links /\ Link(r) = <<TicketOf(Link(r)), r>>
  BY ExitLinks DEF Link
<1> QED BY <1>1 DEF StoreNext, OrderStep

\* A visit.
LEMMA ReconcileIsStoreStep ==
  ASSUME TypeOK, LocalsTyped, ExchangeTyped, ThreadsInv, EntryQty, Reconcile
  PROVE  [StoreNext]_storeVars
<1>1. CASE \/ Wake \/ Visited \/ Reconciled \/ Audited \/ NotOwned
           \/ \E r \in AllRoles : FindOrder(r) \/ FetchExecutions(r)
  <2>1. UNCHANGED storeVars
    BY <1>1 DEF Wake, Visited, Reconciled, Audited, NotOwned, FindOrder, FetchExecutions, Calls
  <2> QED BY <2>1
<1>2. CASE AdoptFound
  BY <1>2, RecordIsStoreStep DEF AdoptFound, ThreadsInv
<1>3. CASE AckFound
  <2>1. cur \in AllRoles /\ answer # "NONE" /\ answer \in ExchangeStatuses
    BY <1>3 DEF AckFound, ThreadsInv, LocalsTyped
  <2>2. Link(cur) \in Links /\ answer \in RemoteStatuses
    BY <2>1, ExitLinks DEF ExchangeStatuses, RemoteStatuses, FinalOrderStatuses
  <2>3. PICK ids \in SUBSET ({Link(cur)} \ oid) : AcknowledgeOrder(Link(cur), answer, ids)
    BY <1>3 DEF AckFound
  <2>4. ids \in SUBSET Links
    BY <2>2
  <2> QED BY <2>2, <2>3, <2>4 DEF StoreNext, OrderStep
<1>4. CASE \E e \in batch : BookFetched(e)
  <2>1. PICK e \in batch : BookFetched(e)
    BY <1>4
  <2>2. cur \in AllRoles /\ e \in Execs
    BY <2>1 DEF BookFetched, ThreadsInv, LocalsTyped
  <2>3. UNCHANGED storeVars \/ RecordFill(e, Link(cur))
    BY <2>1, <2>2, BookIsRecordFill DEF BookFetched
  <2> QED BY <2>2, <2>3, ExitLinks DEF StoreNext, ReportStep
<1> QED BY <1>1, <1>2, <1>3, <1>4 DEF Reconcile

\* The close and the recovery write no more than a position.
LEMMA ProtectIsStoreStep ==
  ASSUME Protect
  PROVE  [StoreNext]_storeVars
<1>1. CASE ReadHolding
  BY <1>1 DEF ReadHolding, ReadPortfolio, StoreNext, ReportStep
<1>2. CASE NotOverdue \/ StopRisk \/ ExitSubmitted \/ Recover \/ Recovered
  <2>1. UNCHANGED storeVars
    BY <1>2 DEF NotOverdue, StopRisk, ExitSubmitted, Recover, Recovered, Calls
  <2> QED BY <2>1
<1> QED BY <1>1, <1>2 DEF Protect

\* A submission of exits takes the lease, reserves an order or records it.
LEMMA SubmitIsStoreStep ==
  ASSUME TypeOK, LocalsTyped, ThreadsInv, EpochInv, NEW th \in Threads, Submit(th)
  PROVE  [StoreNext]_storeVars
<1>0. /\ Ticket \in Tickets /\ sess \in Sessions
      /\ roles[th] # <<>> => Role(th) \in ExitRoles
  BY ExitLinks, RolesLeft DEF LocalsTyped, ThreadsInv, Role
<1>1. CASE CheckRoles(th) \/ Done(th) \/ Send(th) \/ Answered(th) \/ InstallationRaises(th)
  <2>1. UNCHANGED storeVars
    BY <1>1 DEF CheckRoles, Done, Send, Answered, InstallationRaises, Calls
  <2> QED BY <2>1
<1>2. CASE Size(th)
  BY <1>2 DEF Size, ReadPortfolio, StoreNext, ReportStep
<1>3. CASE TakeFence(th)
  <2>1. ClaimOperation(sess, Ticket)
    BY <1>3 DEF TakeFence
  <2>2. epoch[Ticket] < MaxEpoch
    BY <1>0, SpentFacts, NumbersAssumption DEF EpochInv, TypeOK
  <2> QED BY <1>0, <2>1, <2>2 DEF StoreNext, SessionStep
<1>4. CASE Reserve(th)
  <2>1. UNCHANGED storeVars \/ ReserveExitOrder(sess, Link(Role(th)))
    BY <1>4 DEF Reserve
  <2>2. Role(th) \in ExitRoles
    BY <1>0, <1>4 DEF Reserve
  <2> QED BY <1>0, <2>1, <2>2 DEF Link, StoreNext, SessionStep
<1>5. CASE RecordSubmission(th)
  <2>1. RecordExitSubmission(Link(Role(th)), {Link(Role(th))}) /\ Role(th) \in ExitRoles
    BY <1>0, <1>5 DEF RecordSubmission, ThreadsInv
  <2> QED BY <2>1, RecordIsStoreStep
<1> QED BY <1>1, <1>2, <1>3, <1>4, <1>5 DEF Submit

\* A message of the stream, or an event outside.
LEMMA OutsideIsStoreStep ==
  ASSUME ExchangeTyped, EntryQty, Stream \/ Outside
  PROVE  [StoreNext]_storeVars
<1>1. CASE Stream
  <2>1. PICK r \in AllRoles : \/ \E status \in ExchangeStatuses : StreamOrder(r, status)
                            \/ \E e \in Executed(r) : StreamExecution(r, e)
    BY <1>1 DEF Stream
  <2>2. Link(r) \in Links
    BY ExitLinks
  <2>3. CASE \E status \in ExchangeStatuses : StreamOrder(r, status)
    <3>1. PICK status \in Past(r), ids \in SUBSET ({Link(r)} \ oid) :
                 AcknowledgeOrder(Link(r), status, ids)
      BY <2>3 DEF StreamOrder
    <3>2. status \in RemoteStatuses /\ ids \in SUBSET Links
      BY <2>2, PastFacts
    <3> QED BY <2>2, <3>1, <3>2 DEF StoreNext, OrderStep
  <2>4. CASE \E e \in Executed(r) : StreamExecution(r, e)
    <3>1. PICK e \in Executed(r) : StreamExecution(r, e)
      BY <2>4
    <3>2. e \in Execs /\ RecordFill(e, Link(r))
      BY <3>1, ExecutedFacts, BookIsRecordFill DEF StreamExecution
    <3> QED BY <2>2, <3>2 DEF StoreNext, ReportStep
  <2> QED BY <2>1, <2>3, <2>4
<1>2. CASE LocalLeaseExpires
  BY <1>2, ExitLinks DEF LocalLeaseExpires, StoreNext, TicketStep
<1>3. CASE \/ \E r \in AllRoles : ExchangeReceives(r) \/ ExchangeTrades(r) \/ ExchangeCancels(r)
           \/ StopLoss \/ HoldsTooLong \/ \E s \in Sessions : Crash(s)
  <2>1. UNCHANGED storeVars
    BY <1>3 DEF ExchangeReceives, ExchangeTrades, ExchangeCancels, StopLoss, HoldsTooLong,
         Crash, outsideVars
  <2> QED BY <2>1
<1> QED BY <1>1, <1>2, <1>3 DEF Outside

\* Each step of the service is a step of its journal, or none.
LEMMA ExitsAreStoreSteps ==
  ASSUME TypeOK, LocalsTyped, ExchangeTyped, ThreadsInv, EpochInv, EntryQty, [Next]_vars
  PROVE  [StoreNext]_storeVars
<1>1. CASE RaiseJournal \/ RaiseCall \/ TimesOut \/ UNCHANGED vars
  <2>1. UNCHANGED storeVars
    BY <1>1 DEF RaiseJournal, RaiseCall, TimesOut, Abort, Calls, vars
  <2> QED BY <2>1
<1> QED BY <1>1, RoleSequences, ReconcileIsStoreStep, ProtectIsStoreStep, SubmitIsStoreStep,
           OutsideIsStoreStep DEF Next, Loop

\* Only a submission of exits and a crash touch the epochs and the sessions.
LEMMA EpochStep ==
  ASSUME TypeOK, LocalsTyped, EpochInv, [Next]_vars
  PROVE  EpochInv'
<1>0. /\ Ticket \in Tickets /\ epoch[Ticket] \in Nat
      /\ IsFiniteSet(spent) /\ Cardinality(spent) \in Nat
  BY ExitLinks, SpentFacts DEF TypeOK
<1>1. CASE UNCHANGED <<owner, epoch, sess, spent>>
  BY <1>1 DEF EpochInv
<1>2. ASSUME NEW th \in Threads, TakeFence(th)
      PROVE  EpochInv'
  <2>1. /\ UNCHANGED <<sess, spent>>
        /\ owner'[Ticket] = sess /\ epoch'[Ticket] = NextEpoch(sess, Ticket)
    BY <1>0, <1>2 DEF TakeFence, ClaimOperation, TakeLease, Journal, procVars, TypeOK
  <2> QED BY <1>0, <2>1 DEF EpochInv, NextEpoch, same_lease
<1>3. ASSUME NEW s \in Sessions, Crash(s)
      PROVE  EpochInv'
  <2>1. /\ sess' = s /\ spent' = spent \cup {s} /\ s \notin spent
        /\ UNCHANGED <<owner, epoch>>
    BY <1>3 DEF Crash, storeVars
  <2>2. Cardinality(spent') = Cardinality(spent) + 1
    BY <1>0, <2>1, FS_AddElement
  <2> QED BY <1>0, <2>1, <2>2 DEF EpochInv
<1>4. CASE Reconcile \/ Protect \/ RaiseJournal \/ RaiseCall \/ TimesOut \/ UNCHANGED vars
  <2>1. UNCHANGED <<owner, epoch, sess, spent>>
    BY <1>4 DEF Reconcile, Wake, AdoptFound, AckFound, Visited, Reconciled, Audited, NotOwned,
         FindOrder, FetchExecutions, BookFetched, Book, Protect, NotOverdue, ReadHolding,
         ReadPortfolio, StopRisk, ExitSubmitted, Recover, Recovered, RaiseJournal, RaiseCall,
         TimesOut, Abort, Calls, Journal, RecordExitSubmission, AcknowledgeOrder, BookFill,
         SavePosition, leaseVars, storeVars, procVars, vars
  <2> QED BY <1>1, <2>1
<1>5. ASSUME NEW th \in Threads, Submit(th), ~TakeFence(th)
      PROVE  EpochInv'
  <2>1. UNCHANGED <<owner, epoch, sess, spent>>
    BY <1>5 DEF Submit, CheckRoles, Size, ReadPortfolio, Reserve, Done, Send, Answered,
         RecordSubmission, InstallationRaises, Calls, Journal, RecordExitSubmission,
         ReserveExitOrder, SavePosition, leaseVars, storeVars, procVars
  <2> QED BY <1>1, <2>1
<1>6. CASE Stream \/ (Outside /\ ~ \E s \in Sessions : Crash(s))
  <2>1. UNCHANGED <<owner, epoch, sess, spent>>
    BY <1>6 DEF Stream, StreamOrder, StreamExecution, Streams, Book, Outside, ExchangeReceives,
         ExchangeTrades, ExchangeCancels, StopLoss, HoldsTooLong, LocalLeaseExpires, LeaseExpires,
         AcknowledgeOrder, BookFill, outsideVars, leaseVars, storeVars, procVars
  <2> QED BY <1>1, <2>1
<1> QED BY <1>2, <1>3, <1>4, <1>5, <1>6, RoleSequences DEF Next, Loop

-----------------------------------------------------------------------------
(* The close of the position *)

(***************************************************************************)
(* RiskStoppedBeforeExit is not inductive: what it says of a request must   *)
(* hold already where the loop stands before it sends one.                  *)
(***************************************************************************)
CloseInv ==
  /\ pc \in { "stoprisk", "closing" } => overdue
  /\ pc = "closing" => kill
  /\ RiskStoppedBeforeExit

\* Only a submission sends requests.
LEMMA SentMoves ==
  ASSUME [Next]_vars, ~ \E th \in Threads : Send(th)
  PROVE  UNCHANGED sent
<1>1. CASE Reconcile \/ Protect \/ RaiseJournal \/ RaiseCall \/ TimesOut \/ UNCHANGED vars
  BY <1>1 DEF Reconcile, Wake, AdoptFound, AckFound, Visited, Reconciled, Audited, NotOwned,
       FindOrder, FetchExecutions, BookFetched, Protect, NotOverdue, ReadHolding,
       ReadPortfolio, StopRisk, ExitSubmitted, Recover, Recovered, RaiseJournal, RaiseCall,
       TimesOut, Abort, Journal, exchVars, vars
<1>2. ASSUME NEW th \in Threads, Submit(th)
      PROVE  UNCHANGED sent
  BY <1>2 DEF Submit, CheckRoles, Size, ReadPortfolio, TakeFence, Reserve, Done, Answered,
       RecordSubmission, InstallationRaises, Journal, exchVars
<1>3. CASE Stream \/ Outside
  BY <1>3 DEF Stream, StreamOrder, StreamExecution, Streams, Outside, ExchangeReceives,
       ExchangeTrades, ExchangeCancels, StopLoss, HoldsTooLong, LocalLeaseExpires, Crash, exchVars
<1> QED BY <1>1, <1>2, <1>3, RoleSequences DEF Next, Loop

\* The kill switch of the day and the passing of time are not taken back.
LEMMA Lasting ==
  ASSUME [Next]_vars
  PROVE  (kill => kill') /\ (overdue => overdue')
<1>1. CASE Reconcile \/ Protect \/ RaiseJournal \/ RaiseCall \/ TimesOut \/ UNCHANGED vars
  BY <1>1 DEF Reconcile, Wake, AdoptFound, AckFound, Visited, Reconciled, Audited, NotOwned,
       FindOrder, FetchExecutions, BookFetched, Protect, NotOverdue, ReadHolding,
       ReadPortfolio, StopRisk, ExitSubmitted, Recover, Recovered, RaiseJournal, RaiseCall,
       TimesOut, Abort, Journal, Calls, riskVars, vars
<1>2. ASSUME NEW th \in Threads, Submit(th)
      PROVE  (kill => kill') /\ (overdue => overdue')
  BY <1>2 DEF Submit, CheckRoles, Size, ReadPortfolio, TakeFence, Reserve, Done, Send, Answered,
       RecordSubmission, InstallationRaises, Journal, Calls, riskVars
<1>3. CASE Stream \/ Outside
  BY <1>3 DEF Stream, StreamOrder, StreamExecution, Streams, Outside, ExchangeReceives,
       ExchangeTrades, ExchangeCancels, StopLoss, HoldsTooLong, LocalLeaseExpires, Crash,
       outsideVars, riskVars
<1> QED BY <1>1, <1>2, <1>3, RoleSequences DEF Next, Loop

\* The loop closes a position only where it has stopped new risk.
LEMMA CloseStep ==
  ASSUME TypeOK, LocalsTyped, ExchangeTyped, ThreadsInv, CloseInv, [Next]_vars
  PROVE  CloseInv'
<1>1. (kill => kill') /\ (overdue => overdue')
  BY Lasting
<1>2. /\ pc' \in { "stoprisk", "closing" } => pc \in { "stoprisk", "closing" } \/ overdue
      /\ pc' = "closing" => pc = "closing" \/ kill'
  <2>1. CASE Reconcile \/ Protect \/ RaiseJournal \/ RaiseCall \/ TimesOut \/ UNCHANGED vars
    BY <2>1 DEF Reconcile, Wake, AdoptFound, AckFound, Visited, Reconciled, Audited, NotOwned,
         FindOrder, FetchExecutions, BookFetched, Protect, NotOverdue, ReadHolding,
         StopRisk, ExitSubmitted, Recover, Recovered, RaiseJournal, RaiseCall,
         TimesOut, Abort, Goto, vars, visitVars
  <2>2. ASSUME NEW th \in Threads, Submit(th)
        PROVE  UNCHANGED pc
    BY <2>2, SubmitMoves DEF visitVars
  <2>3. CASE Stream \/ Outside
    BY <2>3 DEF Stream, StreamOrder, StreamExecution, Streams, Outside, ExchangeReceives,
         ExchangeTrades, ExchangeCancels, StopLoss, HoldsTooLong, LocalLeaseExpires, Crash,
         outsideVars, visitVars
  <2> QED BY <2>1, <2>2, <2>3, RoleSequences DEF Next, Loop
<1>3. CASE UNCHANGED sent
  BY <1>1, <1>2, <1>3 DEF CloseInv, RiskStoppedBeforeExit
<1>4. ASSUME NEW th \in Threads, Send(th)
      PROVE  CloseInv'
  <2>1. CASE Role(th) = TimeExit
    <3>1. roles[th] \notin Seq(ExitRoles \ {TimeExit})
      BY <1>4, <2>1, RolesLeft DEF Send, ThreadsInv, Role
    <3>2. pc = "closing"
      BY <1>4, <3>1 DEF Send, ThreadsInv, Closing
    <3> QED BY <1>1, <1>2, <3>2 DEF CloseInv, RiskStoppedBeforeExit
  <2>2. CASE Role(th) # TimeExit
    <3>1. sent'[TimeExit] = sent[TimeExit]
      BY <1>4, <2>2, ExitLinks DEF Send, ExchangeTyped
    <3> QED BY <1>1, <1>2, <3>1 DEF CloseInv, RiskStoppedBeforeExit
  <2> QED BY <2>1, <2>2
<1> QED BY <1>3, <1>4, SentMoves

-----------------------------------------------------------------------------
(* The requests *)

(***************************************************************************)
(* ChildCreatedOnce is not inductive: the request of a child leaves only    *)
(* where its thread has just reserved it, and two threads never have        *)
(* reserved the same child.                                                 *)
(***************************************************************************)
RequestInv ==
  /\ ChildCreatedOnce
  /\ \A th \in Threads : at[th] = "send" => Reserved(Link(Role(th))) /\ sent[Role(th)] = 0
  /\ \A th, u \in Threads :
       th # u /\ at[th] = "send" /\ at[u] = "send" => Role(th) # Role(u)

\* Reserving a child of its own brings a thread to "send", nothing else does.
LEMMA SendBegins ==
  ASSUME [Next]_vars, LocalsTyped, ThreadsInv, NEW th \in Threads, at'[th] = "send"
  PROVE  \/ at[th] = "send" /\ roles'[th] = roles[th]
         \/ Reserve(th) /\ ~Reserved(Link(Role(th)))
<1>0. at \in [Threads -> { "off", "roles", "size", "fence", "level", "send", "sent", "record" }]
      /\ roles \in [Threads -> Seq(ExitRoles)]
  BY DEF LocalsTyped, ThreadsInv
<1>1. CASE Reconcile \/ Protect \/ RaiseJournal \/ RaiseCall \/ TimesOut \/ UNCHANGED vars
  BY <1>0, <1>1, RoleSequences DEF Reconcile, Wake, AdoptFound, AckFound, Visited, Reconciled, Audited,
       NotOwned, FindOrder, FetchExecutions, BookFetched, Protect, NotOverdue, ReadHolding,
       StopRisk, ExitSubmitted, Recover, Recovered, RaiseJournal, RaiseCall,
       TimesOut, Abort, Off, Begin, vars, exitVars
<1>2. ASSUME NEW u \in Threads, Submit(u)
      PROVE  \/ at[th] = "send" /\ roles'[th] = roles[th]
             \/ Reserve(th) /\ ~Reserved(Link(Role(th)))
  <2>1. CASE u = th
    BY <1>0, <1>2, <2>1 DEF Submit, CheckRoles, Size, TakeFence, Reserve, Done, Send, Answered,
         RecordSubmission, InstallationRaises, NextRole, Off, Begin
  <2>2. CASE u # th
    BY <1>0, <1>2, <2>2 DEF Submit, CheckRoles, Size, TakeFence, Reserve, Done, Send, Answered,
         RecordSubmission, InstallationRaises, NextRole, Off, Begin
  <2> QED BY <2>1, <2>2
<1>3. CASE Stream \/ Outside
  BY <1>0, <1>3, RoleSequences DEF Stream, StreamOrder, StreamExecution, Outside, ExchangeReceives,
       ExchangeTrades, ExchangeCancels, StopLoss, HoldsTooLong, LocalLeaseExpires, Crash,
       Begin, outsideVars, exitVars
<1> QED BY <1>1, <1>2, <1>3, RoleSequences DEF Next, Loop

\* A request leaves at most once for each child, after it has been journaled.
LEMMA RequestStep ==
  ASSUME TypeOK, LocalsTyped, ExchangeTyped, ThreadsInv, RequestInv,
         [StoreNext]_storeVars, [Next]_vars
  PROVE  RequestInv'
<1>0. /\ \A l \in Links : Reserved(l) => Reserved(l)'
      /\ \A r \in ExitRoles : Link(r) \in Links /\ sent[r] \in Nat
      /\ \A th \in Threads : at[th] = "send" => Role(th) \in ExitRoles
  <2>1. \A th \in Threads : at[th] = "send" => Role(th) \in ExitRoles
    BY RolesLeft DEF ThreadsInv, Role
  <2> QED BY <2>1, ReservedStays, ExitLinks DEF ExchangeTyped
<1>1. ASSUME NEW th \in Threads, Send(th)
      PROVE  RequestInv'
  <2>1. /\ at[th] = "send" /\ Role(th) \in ExitRoles
        /\ sent' = [sent EXCEPT ![Role(th)] = @ + 1]
        /\ UNCHANGED <<roles, ostatus>>
        /\ at'[th] = "sent" /\ \A u \in Threads \ {th} : at'[u] = at[u]
    BY <1>0, <1>1 DEF Send, Begin, Calls, storeVars, LocalsTyped, ThreadsInv
  <2>2. ChildCreatedOnce'
    BY <1>0, <2>1 DEF RequestInv, ChildCreatedOnce, Reserved, ExchangeTyped, Link
  <2>3. \A u \in Threads : at'[u] = "send" => at[u] = "send" /\ Role(u) # Role(th) /\ Role(u)' = Role(u)
    BY <2>1 DEF RequestInv, Role
  <2>4. \A u \in Threads :
           at'[u] = "send" => Reserved(Link(Role(u)))' /\ sent'[Role(u)'] = 0
    BY <1>0, <2>1, <2>3 DEF RequestInv, ExchangeTyped, Reserved, Link
  <2> QED BY <2>1, <2>2, <2>3, <2>4 DEF RequestInv
<1>2. CASE ~ \E th \in Threads : Send(th)
  <2>1. UNCHANGED sent
    BY <1>2, SentMoves
  <2>2. ChildCreatedOnce'
    BY <1>0, <2>1 DEF RequestInv, ChildCreatedOnce, Link
  <2>3. ASSUME NEW th \in Threads, at'[th] = "send"
        PROVE  /\ Reserved(Link(Role(th)))' /\ sent'[Role(th)'] = 0
               /\ Role(th)' = Role(th)
    <3>1. CASE at[th] = "send" /\ roles'[th] = roles[th]
      BY <1>0, <2>1, <3>1 DEF RequestInv, Role, Link
    <3>2. CASE Reserve(th) /\ ~Reserved(Link(Role(th)))
      <4>1. Role(th) \in ExitRoles
        BY <3>2, RolesLeft DEF Reserve, ThreadsInv, Role
      <4>2. roles'[th] = roles[th] /\ ostatus' = [ostatus EXCEPT ![Link(Role(th))] = "CREATED"]
        BY <3>2 DEF Reserve, ReserveExitOrder, Begin, ThreadsInv
      <4>3. sent[Role(th)] = 0
        BY <1>0, <3>2, <4>1 DEF RequestInv, ChildCreatedOnce
      <4> QED BY <1>0, <2>1, <4>1, <4>2, <4>3 DEF Role, Reserved, Link, TypeOK
    <3> QED BY <2>3, <3>1, <3>2, SendBegins
  <2>4. ASSUME NEW th \in Threads, NEW u \in Threads, th # u, at'[th] = "send", at'[u] = "send"
        PROVE  Role(th)' # Role(u)'
    <3>1. CASE Reserve(th) /\ ~Reserved(Link(Role(th)))
      <4>1. at[u] = "send"
        BY <2>4, <3>1 DEF Reserve, ReserveExitOrder, Begin, LocalsTyped
      <4> QED BY <2>3, <2>4, <3>1, <4>1 DEF RequestInv
    <3>2. CASE Reserve(u) /\ ~Reserved(Link(Role(u)))
      <4>1. at[th] = "send"
        BY <2>4, <3>2 DEF Reserve, ReserveExitOrder, Begin, LocalsTyped
      <4> QED BY <2>3, <2>4, <3>2, <4>1 DEF RequestInv
    <3>3. CASE at[th] = "send" /\ at[u] = "send"
      BY <2>3, <2>4, <3>3 DEF RequestInv
    <3> QED BY <2>4, <3>1, <3>2, <3>3, SendBegins
  <2> QED BY <2>2, <2>3, <2>4 DEF RequestInv
<1> QED BY <1>1, <1>2

-----------------------------------------------------------------------------
(* What a step tells the journal, and what the exchange does *)

(***************************************************************************)
(* What the loop carries from a call into a later transaction: it was true  *)
(* of the exchange when it was read, and stays true.                        *)
(***************************************************************************)
CarriedInv ==
  /\ pc \in { "adopt", "ack" } => answer \in Past(cur)
  /\ pc = "book" => batch \subseteq Executed(cur)

\* A thread reserves a child.
Reserves(th) == Reserve(th) /\ ~Reserved(Link(Role(th)))

\* What else may become of the rows of orders: only what the exchange has reported.
Tells ==
  \/ UNCHANGED <<ostatus, fills>>
  \/ \E r \in ExitRoles : RecordExitSubmission(Link(r), {Link(r)})
  \/ \E r \in AllRoles, ids \in SUBSET Links :
       \E raw \in Past(r) : AcknowledgeOrder(Link(r), raw, ids)
  \/ \E r \in AllRoles : \E e \in Executed(r) : Book(r, e)

LEMMA ExitsTell ==
  ASSUME TypeOK, LocalsTyped, ExchangeTyped, ThreadsInv, CarriedInv, [Next]_vars
  PROVE  (\E th \in Threads : Reserves(th)) \/ (UNCHANGED qty /\ Tells)
<1>0. \A r \in AllRoles : Link(r) \in Links
  BY ExitLinks
<1>1. CASE \/ Wake \/ Visited \/ Reconciled \/ Audited \/ NotOwned \/ Protect
           \/ \E r \in AllRoles : FindOrder(r) \/ FetchExecutions(r)
           \/ RaiseJournal \/ RaiseCall \/ TimesOut \/ UNCHANGED vars
  <2>1. UNCHANGED <<ostatus, fills, qty>>
    BY <1>1 DEF Wake, Visited, Reconciled, Audited, NotOwned, FindOrder, FetchExecutions, Protect,
         NotOverdue, ReadHolding, ReadPortfolio, StopRisk, ExitSubmitted, Recover, Recovered,
         RaiseJournal, RaiseCall, TimesOut, Abort, Calls, SavePosition, storeVars, orderVars, vars
  <2> QED BY <2>1 DEF Tells
<1>2. CASE AdoptFound
  BY <1>2 DEF AdoptFound, ThreadsInv, Tells
<1>3. CASE AckFound
  <2>1. cur \in AllRoles /\ answer \in Past(cur) /\ UNCHANGED qty
    BY <1>3 DEF AckFound, ThreadsInv, CarriedInv
  <2>2. PICK ids \in SUBSET ({Link(cur)} \ oid) : AcknowledgeOrder(Link(cur), answer, ids)
    BY <1>3 DEF AckFound
  <2>3. ids \in SUBSET Links
    BY <1>0, <2>1
  <2> QED BY <2>1, <2>2, <2>3 DEF Tells
<1>4. CASE \E e \in batch : BookFetched(e)
  <2>1. PICK e \in batch : BookFetched(e)
    BY <1>4
  <2>2. cur \in AllRoles /\ e \in Executed(cur) /\ UNCHANGED qty
    BY <2>1 DEF BookFetched, ThreadsInv, CarriedInv
  <2>3. UNCHANGED storeVars \/ Book(cur, e)
    BY <2>1 DEF BookFetched
  <2> QED BY <2>2, <2>3 DEF Tells, storeVars
<1>5. ASSUME NEW th \in Threads, Submit(th)
      PROVE  Reserves(th) \/ (UNCHANGED qty /\ Tells)
  <2>1. CASE RecordSubmission(th)
    <3>1. Role(th) \in ExitRoles
      BY <2>1, RolesLeft DEF RecordSubmission, ThreadsInv, Role
    <3> QED BY <2>1, <3>1 DEF RecordSubmission, Tells
  <2>2. CASE Reserve(th)
    BY <2>2 DEF Reserve, Reserves, Tells, storeVars
  <2>3. CASE CheckRoles(th) \/ Size(th) \/ TakeFence(th) \/ Done(th) \/ Send(th) \/ Answered(th)
             \/ InstallationRaises(th)
    <3>1. UNCHANGED <<ostatus, fills, qty>>
      BY <2>3 DEF CheckRoles, Size, ReadPortfolio, TakeFence, Done, Send, Answered,
           InstallationRaises, ClaimOperation, Calls, SavePosition, storeVars, orderVars
    <3> QED BY <3>1 DEF Tells
  <2> QED BY <1>5, <2>1, <2>2, <2>3 DEF Submit
<1>6. CASE Stream
  <2>1. PICK r \in AllRoles : \/ \E status \in ExchangeStatuses : StreamOrder(r, status)
                            \/ \E e \in Executed(r) : StreamExecution(r, e)
    BY <1>6 DEF Stream
  <2>2. CASE \E status \in ExchangeStatuses : StreamOrder(r, status)
    <3>1. PICK status \in Past(r), ids \in SUBSET ({Link(r)} \ oid) :
                 AcknowledgeOrder(Link(r), status, ids)
      BY <2>2 DEF StreamOrder
    <3>2. ids \in SUBSET Links /\ UNCHANGED qty
      BY <1>0, <2>2 DEF StreamOrder, Streams
    <3> QED BY <3>1, <3>2 DEF Tells
  <2>3. CASE \E e \in Executed(r) : StreamExecution(r, e)
    BY <2>3 DEF StreamExecution, Streams, Tells
  <2> QED BY <2>1, <2>2, <2>3
<1>7. CASE Outside
  <2>1. UNCHANGED <<ostatus, fills, qty>>
    BY <1>7 DEF Outside, ExchangeReceives, ExchangeTrades, ExchangeCancels, StopLoss, HoldsTooLong,
         LocalLeaseExpires, LeaseExpires, Crash, outsideVars, storeVars, orderVars
  <2> QED BY <2>1 DEF Tells
<1> QED BY <1>1, <1>2, <1>3, <1>4, <1>5, <1>6, <1>7, RoleSequences DEF Next, Loop, Reconcile

ExchangeStep ==
  \/ \E r \in AllRoles : ExchangeReceives(r) \/ ExchangeTrades(r) \/ ExchangeCancels(r)
  \/ StopLoss

\* Only the exchange moves the exchange, and a request that is sent to it.
LEMMA ExchangeMoves ==
  ASSUME [Next]_vars
  PROVE  \/ ExchangeStep /\ UNCHANGED <<storeVars, visitVars, exitVars, snapshot, qty, sent>>
         \/ UNCHANGED exchVars
         \/ \E th \in Threads : Send(th)
<1>1. CASE Reconcile \/ Protect \/ RaiseJournal \/ RaiseCall \/ TimesOut \/ UNCHANGED vars
  BY <1>1 DEF Reconcile, Wake, AdoptFound, AckFound, Visited, Reconciled, Audited, NotOwned,
       FindOrder, FetchExecutions, BookFetched, Protect, NotOverdue, ReadHolding,
       ReadPortfolio, StopRisk, ExitSubmitted, Recover, Recovered, RaiseJournal, RaiseCall,
       TimesOut, Abort, Journal, exchVars, vars
<1>2. ASSUME NEW th \in Threads, Submit(th)
      PROVE  UNCHANGED exchVars \/ Send(th)
  BY <1>2 DEF Submit, CheckRoles, Size, ReadPortfolio, TakeFence, Reserve, Done, Answered,
       RecordSubmission, InstallationRaises, Journal, exchVars
<1>3. CASE Stream
  BY <1>3 DEF Stream, StreamOrder, StreamExecution, Streams, exchVars
<1>4. CASE ExchangeStep
  BY <1>4 DEF ExchangeStep, ExchangeReceives, ExchangeTrades, ExchangeCancels, StopLoss,
       outsideVars, visitVars, exitVars
<1>5. CASE HoldsTooLong \/ LocalLeaseExpires \/ \E s \in Sessions : Crash(s)
  BY <1>5 DEF HoldsTooLong, LocalLeaseExpires, Crash, exchVars
<1> QED BY <1>1, <1>2, <1>3, <1>4, <1>5, RoleSequences DEF Next, Loop, Outside, ExchangeStep

-----------------------------------------------------------------------------
(* Quantities *)

(***************************************************************************)
(* The exchange fills an order with its last lot and trades only live       *)
(* orders; a child that was never requested is not there, and one that is   *)
(* journaled has a quantity.                                                *)
(***************************************************************************)
OrderInv ==
  /\ EntryQty
  /\ \A r \in ExitRoles : sent[r] = 0 => r \notin inflight /\ order[r] = "NONE"
  /\ \A r \in AllRoles :
       /\ Reserved(Link(r)) => qty[r] > 0
       /\ traded[r] <= qty[r]
       /\ order[r] \in { "NEW", "CANCELED" } => traded[r] < qty[r]
       /\ order[r] \in { "NONE", "REJECTED" } => traded[r] = 0

(***************************************************************************)
(* Whatever a thread has read, it divides no more than the entry has traded *)
(* by now, and each level of it had its share.                              *)
(***************************************************************************)
SizeInv ==
  /\ position <= traded["entry"]
  /\ \A th \in Threads : total[th] <= traded["entry"]
  /\ \A r \in ExitRoles \ {TimeExit} : qty[r] * Whole <= traded["entry"] * Fraction[r]

\* Products grow with their factors.
LEMMA Products ==
  ASSUME NEW a \in Nat, NEW b \in Nat, NEW c \in Nat
  PROVE  /\ a <= b => a * c <= b * c
         /\ a * c \in Nat
         /\ c > 0 /\ a * c <= b * c => a <= b
<1>1. a <= b => a * c <= b * c
  OBVIOUS
<1>2. ASSUME c > 0, a > b
      PROVE  ~ (a * c <= b * c)
  <2>1. a >= b + 1 /\ b + 1 \in Nat
    BY <1>2
  <2>2. (b + 1) * c <= a * c
    BY <2>1
  <2>3. (b + 1) * c = b * c + c
    OBVIOUS
  <2> QED BY <1>2, <2>2, <2>3
<1> QED BY <1>1, <1>2

\* A share is a part of what is divided, rounded down.
LEMMA Shares ==
  ASSUME NEW q \in Nat, NEW r \in ExitRoles
  PROVE  /\ ShareOf(r, q) \in Nat /\ ShareOf(r, q) <= q
         /\ r # TimeExit => ShareOf(r, q) * Whole <= q * Fraction[r]
<1>1. Whole \in Nat \ {0} /\ Fraction[r] \in Nat /\ Fraction[r] <= Whole
  BY ExitsAssumption
<1>2. CASE r = TimeExit
  BY <1>2 DEF ShareOf
<1>3. CASE r # TimeExit
  <2> DEFINE x == q * Fraction[r]
             d == x \div Whole
  <2>1. x \in Nat /\ x <= q * Whole
    BY <1>1, Products
  <2>2. d \in Nat /\ d * Whole <= x
    <3> HIDE DEF x
    <3> QED BY <1>1, <2>1
  <2>3. d * Whole <= q * Whole
    <3>1. d * Whole \in Nat /\ q * Whole \in Nat
      BY <1>1, <2>2, Products
    <3> HIDE DEF x, d
    <3> QED BY <2>1, <2>2, <3>1
  <2>4. d <= q
    <3> HIDE DEF d
    <3> QED BY <1>1, <2>2, <2>3, Products
  <2>5. ShareOf(r, q) = d
    BY <1>3 DEF ShareOf
  <2> QED BY <2>2, <2>4, <2>5
<1> QED BY <1>2, <1>3

\* An order has as many executions as lots were traded.
LEMMA ExecutedCount ==
  ASSUME ExchangeTyped, NEW r \in AllRoles
  PROVE  /\ IsFiniteSet(Executed(r)) /\ Cardinality(Executed(r)) \in Nat
         /\ Cardinality(Executed(r)) <= traded[r]
<1> DEFINE f == [i \in 1..traded[r] |-> <<Link(r), i>>]
<1>0. traded[r] \in Nat
  BY NumbersAssumption DEF ExchangeTyped
<1>1. f \in Surjection(1..traded[r], Executed(r))
  BY DEF Surjection, Executed
<1>2. IsFiniteSet(1..traded[r]) /\ Cardinality(1..traded[r]) = traded[r]
  BY <1>0, FS_Interval
<1> HIDE DEF f
<1>3. IsFiniteSet(Executed(r)) /\ Cardinality(Executed(r)) <= traded[r]
  BY <1>1, <1>2, FS_Surjection
<1> QED BY <1>3, FS_CardinalityType

\* Booked executions that took place are no more than the lots traded.
LEMMA BookedCount ==
  ASSUME ExchangeTyped, NEW r \in AllRoles, NEW booked \in SUBSET Executed(r)
  PROVE  Cardinality(booked) \in Nat /\ Cardinality(booked) <= traded[r]
<1>1. /\ Cardinality(booked) \in Nat /\ Cardinality(booked) <= Cardinality(Executed(r))
      /\ traded[r] \in Nat
  BY ExecutedCount, FS_Subset, FS_CardinalityType, NumbersAssumption DEF ExchangeTyped
<1> QED BY <1>1, ExecutedCount

\* What a step may make of the total a thread divides.
LEMMA TotalMoves ==
  ASSUME [Next]_vars, LocalsTyped, ThreadsInv, NEW th \in Threads
  PROVE  total'[th] \in { 0, total[th], SizeOf(th), position }
<1>0. total \in [Threads -> Nat]
  BY DEF ThreadsInv
<1>1. CASE Reconcile \/ Protect \/ RaiseJournal \/ RaiseCall \/ TimesOut \/ UNCHANGED vars
  BY <1>0, <1>1, RoleSequences DEF Reconcile, Wake, AdoptFound, AckFound, Visited, Reconciled, Audited,
       NotOwned, FindOrder, FetchExecutions, BookFetched, Protect, NotOverdue, ReadHolding,
       StopRisk, ExitSubmitted, Recover, Recovered, RaiseJournal, RaiseCall,
       TimesOut, Abort, Off, Begin, vars, exitVars
<1>2. ASSUME NEW u \in Threads, Submit(u)
      PROVE  total'[th] \in { 0, total[th], SizeOf(th), position }
  <2>1. CASE u = th
    BY <1>0, <1>2, <2>1 DEF Submit, CheckRoles, Size, TakeFence, Reserve, Done, Send, Answered,
         RecordSubmission, InstallationRaises, NextRole, Off, Begin
  <2>2. CASE u # th
    BY <1>0, <1>2, <2>2 DEF Submit, CheckRoles, Size, TakeFence, Reserve, Done, Send, Answered,
         RecordSubmission, InstallationRaises, NextRole, Off, Begin
  <2> QED BY <2>1, <2>2
<1>3. CASE Stream \/ Outside
  BY <1>0, <1>3, RoleSequences DEF Stream, StreamOrder, StreamExecution, Outside, ExchangeReceives,
       ExchangeTrades, ExchangeCancels, StopLoss, HoldsTooLong, LocalLeaseExpires, Crash,
       Begin, outsideVars, exitVars
<1> QED BY <1>1, <1>2, <1>3, RoleSequences DEF Next, Loop

\* The exchange only moves forward.
Forward ==
  \A r \in AllRoles :
    /\ traded[r] <= traded'[r]
    /\ order[r] # "NONE" => order'[r] # "NONE"
    /\ order[r] \in { "FILLED", "CANCELED", "REJECTED" } => order'[r] = order[r]
    /\ order[r] = "NEW" => order'[r] # "REJECTED"

\* What the exchange does, to the orders and to the position.
LEMMA ExchangeKeeps ==
  ASSUME ExchangeTyped, RequestInv, OrderInv, position <= traded["entry"],
         ExchangeStep, UNCHANGED <<storeVars, snapshot, qty, sent>>
  PROVE  ExchangeTyped' /\ OrderInv' /\ position' <= traded'["entry"] /\ Forward
<1>0. /\ \A r \in AllRoles : /\ qty[r] \in Nat /\ qty[r] <= Lots /\ traded[r] \in Nat
                             /\ order[r] \in ExchangeStatuses
      /\ position \in Nat /\ position <= Lots /\ "entry" \in AllRoles /\ Lots \in Nat \ {0}
      /\ \A r \in ExitRoles : r \in AllRoles /\ r # "entry"
  BY ExitLinks, NumbersAssumption DEF ExchangeTyped
<1>1. ASSUME NEW r \in AllRoles, ExchangeReceives(r)
      PROVE  ExchangeTyped' /\ OrderInv' /\ position' <= traded'["entry"] /\ Forward
  <2>1. /\ r \in inflight /\ inflight' = inflight \ {r}
        /\ UNCHANGED <<traded, position>>
        /\ \/ order[r] = "NONE" /\ order' = [order EXCEPT ![r] = "NEW"]
           \/ order[r] = "NONE" /\ order' = [order EXCEPT ![r] = "REJECTED"]
           \/ order' = order
    BY <1>1 DEF ExchangeReceives, ExchangeTyped
  <2>2. qty[r] > 0
    <3>1. CASE r = "entry"
      BY <1>0, <3>1 DEF OrderInv, EntryQty
    <3>2. CASE r # "entry"
      <4>1. r \in ExitRoles /\ sent[r] # 0 /\ sent[r] \in Nat
        BY <2>1, <3>2 DEF AllRoles, OrderInv, ExchangeTyped
      <4> QED BY <4>1 DEF RequestInv, ChildCreatedOnce, OrderInv
    <3> QED BY <3>1, <3>2
  <2>3. ExchangeTyped' /\ Forward
    BY <1>0, <2>1 DEF ExchangeTyped, ExchangeStatuses, Forward
  <2>4. OrderInv'
    BY <1>0, <2>1, <2>2 DEF OrderInv, EntryQty, ExchangeTyped, Reserved, Link, storeVars
  <2> QED BY <2>1, <2>3, <2>4
<1>2. ASSUME NEW r \in AllRoles, ExchangeTrades(r)
      PROVE  ExchangeTyped' /\ OrderInv' /\ position' <= traded'["entry"] /\ Forward
  <2>1. /\ order[r] = "NEW" /\ (r # "entry" => position > 0)
        /\ traded' = [traded EXCEPT ![r] = @ + 1]
        /\ position' = IF r = "entry" THEN position + 1 ELSE position - 1
        /\ order' = [order EXCEPT ![r] = IF traded[r] + 1 = qty[r] THEN "FILLED" ELSE @]
        /\ UNCHANGED inflight
    BY <1>2 DEF ExchangeTrades
  <2>2. traded[r] < qty[r]
    BY <2>1 DEF OrderInv
  <2>3. traded' \in [AllRoles -> 0..Lots] /\ order' \in [AllRoles -> ExchangeStatuses]
    BY <1>0, <2>1, <2>2 DEF ExchangeTyped, ExchangeStatuses
  <2>4. position' <= traded'["entry"] /\ position' \in 0..Lots
    <3>1. traded'["entry"] = IF r = "entry" THEN traded["entry"] + 1 ELSE traded["entry"]
      BY <1>0, <2>1 DEF ExchangeTyped
    <3>2. traded'["entry"] \in 0..Lots
      BY <1>0, <2>3
    <3> QED BY <1>0, <2>1, <3>1, <3>2
  <2>5. Forward
    BY <1>0, <2>1 DEF Forward, ExchangeTyped
  <2>6. OrderInv'
    <3>1. ASSUME NEW q \in AllRoles
          PROVE  /\ Reserved(Link(q))' => qty'[q] > 0
                 /\ traded'[q] <= qty'[q]
                 /\ order'[q] \in { "NEW", "CANCELED" } => traded'[q] < qty'[q]
                 /\ order'[q] \in { "NONE", "REJECTED" } => traded'[q] = 0
      <4>1. CASE q = r
        BY <1>0, <2>1, <2>2, <4>1 DEF OrderInv, ExchangeTyped, Reserved, Link, storeVars
      <4>2. CASE q # r
        BY <1>0, <2>1, <4>2 DEF OrderInv, ExchangeTyped, Reserved, Link, storeVars
      <4> QED BY <4>1, <4>2
    <3>2. \A q \in ExitRoles : sent'[q] = 0 => q \notin inflight' /\ order'[q] = "NONE"
      BY <1>0, <2>1 DEF OrderInv, ExchangeTyped
    <3> QED BY <3>1, <3>2 DEF OrderInv, EntryQty
  <2> QED BY <2>1, <2>3, <2>4, <2>5, <2>6 DEF ExchangeTyped
<1>3. ASSUME NEW r \in AllRoles, ExchangeCancels(r)
      PROVE  ExchangeTyped' /\ OrderInv' /\ position' <= traded'["entry"] /\ Forward
  <2>1. /\ order[r] = "NEW" /\ order' = [order EXCEPT ![r] = "CANCELED"]
        /\ UNCHANGED <<traded, inflight, position>>
    BY <1>3 DEF ExchangeCancels
  <2>2. ExchangeTyped' /\ Forward
    BY <1>0, <2>1 DEF ExchangeTyped, ExchangeStatuses, Forward
  <2>3. OrderInv'
    BY <1>0, <2>1 DEF OrderInv, EntryQty, ExchangeTyped, Reserved, Link, storeVars
  <2> QED BY <2>1, <2>2, <2>3
<1>4. CASE StopLoss
  <2>1. position' = 0 /\ UNCHANGED <<order, traded, inflight>>
    BY <1>4 DEF StopLoss
  <2> QED BY <1>0, <2>1 DEF ExchangeTyped, OrderInv, EntryQty, Forward, Reserved, Link, storeVars
<1> QED BY <1>1, <1>2, <1>3, <1>4 DEF ExchangeStep

\* What a report makes of the rows: no child is reserved by it.
LEMMA TellsReserve ==
  ASSUME TypeOK, Tells
  PROVE  \A l \in Links : Reserved(l)' => Reserved(l)
<1>0. \A r \in AllRoles : Link(r) \in Links
  BY ExitLinks
<1>1. CASE UNCHANGED <<ostatus, fills>>
  BY <1>1 DEF Reserved
<1>2. CASE \E r \in ExitRoles : RecordExitSubmission(Link(r), {Link(r)})
  BY <1>2 DEF RecordExitSubmission, Reserved, TypeOK
<1>3. CASE \E r \in AllRoles, ids \in SUBSET Links :
             \E raw \in Past(r) : AcknowledgeOrder(Link(r), raw, ids)
  BY <1>3 DEF AcknowledgeOrder, Reserved, TypeOK
<1>4. CASE \E r \in AllRoles : \E e \in Executed(r) : Book(r, e)
  BY <1>4 DEF Book, BookFill, Reserved, TypeOK
<1> QED BY <1>1, <1>2, <1>3, <1>4 DEF Tells

\* The position last read is the old one or the present one.
LEMMA SnapshotMoves ==
  ASSUME [Next]_vars
  PROVE  snapshot' \in { snapshot, position }
<1>1. CASE Reconcile \/ Protect \/ RaiseJournal \/ RaiseCall \/ TimesOut \/ UNCHANGED vars
  BY <1>1 DEF Reconcile, Wake, AdoptFound, AckFound, Visited, Reconciled, Audited, NotOwned,
       FindOrder, FetchExecutions, BookFetched, Protect, NotOverdue, ReadHolding,
       ReadPortfolio, StopRisk, ExitSubmitted, Recover, Recovered, RaiseJournal, RaiseCall,
       TimesOut, Abort, Journal, Calls, riskVars, vars
<1>2. ASSUME NEW th \in Threads, Submit(th)
      PROVE  snapshot' \in { snapshot, position }
  BY <1>2 DEF Submit, CheckRoles, Size, ReadPortfolio, TakeFence, Reserve, Done, Send, Answered,
       RecordSubmission, InstallationRaises, Journal, Calls, riskVars
<1>3. CASE Stream \/ Outside
  BY <1>3 DEF Stream, StreamOrder, StreamExecution, Streams, Outside, ExchangeReceives,
       ExchangeTrades, ExchangeCancels, StopLoss, HoldsTooLong, LocalLeaseExpires, Crash,
       outsideVars, riskVars
<1> QED BY <1>1, <1>2, <1>3, RoleSequences DEF Next, Loop

\* No step loses track of the quantities.
LEMMA QuantitiesStep ==
  ASSUME TypeOK, LocalsTyped, ExchangeTyped, ThreadsInv, ThreadsInv', CarriedInv,
         fills[Entry] \subseteq Executed("entry"), RequestInv, OrderInv, SizeInv, [Next]_vars
  PROVE  ExchangeTyped' /\ OrderInv' /\ SizeInv' /\ Forward
<1>0. /\ traded["entry"] \in Nat /\ traded["entry"] <= Lots /\ position \in Nat
      /\ snapshot' \in 0..Lots /\ Lots \in Nat
      /\ Whole \in Nat \ {0} /\ \A r \in ExitRoles : Fraction[r] \in Nat
      /\ \A r \in AllRoles : qty[r] \in 0..Lots
      /\ "entry" \in AllRoles /\ ExitRoles \subseteq AllRoles
      /\ \A r \in ExitRoles : Link(r) \in Links /\ r # "entry"
  BY ExitLinks, NumbersAssumption, ExitsAssumption, SnapshotMoves DEF ExchangeTyped
<1>1. /\ \A th \in Threads : total[th] \in Nat /\ total'[th] \in Nat
      /\ \A th \in Threads : total'[th] <= traded["entry"]
  <2>1. \A th \in Threads : total[th] \in Nat /\ total'[th] \in Nat
    BY DEF ThreadsInv
  <2>2. cum_exec_qty(Entry) <= traded["entry"]
    BY <1>0, BookedCount DEF cum_exec_qty
  <2>3. \A th \in Threads : SizeOf(th) <= traded["entry"] /\ total[th] <= traded["entry"]
    BY <2>2 DEF SizeOf, SizeInv
  <2> QED BY <1>0, <2>1, <2>3, TotalMoves DEF SizeInv
<1>2. CASE ExchangeStep /\ UNCHANGED <<storeVars, visitVars, exitVars, snapshot, qty, sent>>
  <2>1. ExchangeTyped' /\ OrderInv' /\ position' <= traded'["entry"] /\ Forward
    BY <1>2, ExchangeKeeps DEF SizeInv
  <2>2. traded["entry"] <= traded'["entry"] /\ traded'["entry"] \in Nat
    BY <1>0, <2>1 DEF Forward, ExchangeTyped
  <2>3. \A th \in Threads : total'[th] <= traded'["entry"]
    BY <1>0, <1>1, <2>2
  <2>4. ASSUME NEW r \in ExitRoles \ {TimeExit}
        PROVE  qty'[r] * Whole <= traded'["entry"] * Fraction[r]
    <3>1. qty[r] * Whole <= traded["entry"] * Fraction[r] /\ qty[r] \in Nat
      BY <1>0 DEF SizeInv
    <3>2. traded["entry"] * Fraction[r] <= traded'["entry"] * Fraction[r]
      BY <1>0, <2>2, Products
    <3>3. /\ qty[r] * Whole \in Nat /\ traded["entry"] * Fraction[r] \in Nat
          /\ traded'["entry"] * Fraction[r] \in Nat
      BY <1>0, <2>2, <3>1, Products
    <3> QED BY <1>2, <3>1, <3>2, <3>3
  <2> QED BY <2>1, <2>3, <2>4 DEF SizeInv
<1>3. CASE UNCHANGED <<order, traded, position>>
  <2>1. Forward
    BY <1>3 DEF Forward, ExchangeTyped
  <2>2. /\ inflight' \in SUBSET AllRoles /\ sent' \in [AllRoles -> Nat]
        /\ \A r \in ExitRoles : sent'[r] = 0 => sent[r] = 0 /\ (r \in inflight' => r \in inflight)
    <3>1. CASE UNCHANGED <<inflight, sent>>
      BY <3>1 DEF ExchangeTyped
    <3>2. ASSUME NEW th \in Threads, Send(th)
          PROVE  /\ inflight' \in SUBSET AllRoles /\ sent' \in [AllRoles -> Nat]
                 /\ \A r \in ExitRoles :
                      sent'[r] = 0 => sent[r] = 0 /\ (r \in inflight' => r \in inflight)
      <4>1. Role(th) \in ExitRoles
        BY <3>2, RolesLeft DEF Send, ThreadsInv, Role
      <4> QED BY <1>0, <3>2, <4>1 DEF Send, ExchangeTyped
    <3>3. UNCHANGED <<inflight, sent>> \/ (\E th \in Threads : Send(th)) \/ ExchangeStep
      BY ExchangeMoves DEF exchVars
    <3>4. CASE ExchangeStep /\ UNCHANGED sent
      <4>1. inflight' \subseteq inflight
        BY <3>4 DEF ExchangeStep, ExchangeReceives, ExchangeTrades, ExchangeCancels, StopLoss
      <4> QED BY <3>4, <4>1 DEF ExchangeTyped
    <3> QED BY <3>1, <3>2, <3>4, ExchangeMoves DEF exchVars
  <2>3. CASE UNCHANGED qty /\ Tells
    <3>1. \A r \in AllRoles : Reserved(Link(r))' => Reserved(Link(r))
      BY <2>3, TellsReserve, ExitLinks DEF Link
    <3>2. OrderInv'
      BY <1>0, <1>3, <2>2, <2>3, <3>1 DEF OrderInv, EntryQty, Link
    <3> QED BY <1>0, <1>1, <1>3, <2>1, <2>2, <2>3, <3>2 DEF ExchangeTyped, SizeInv
  <2>4. ASSUME NEW th \in Threads, Reserves(th)
        PROVE  ExchangeTyped' /\ OrderInv' /\ SizeInv'
    <3> DEFINE r == Role(th)
               q == ShareOf(r, total[th])
    <3>1. /\ r \in ExitRoles /\ ~Reserved(Link(r)) /\ q # 0
          /\ ostatus' = [ostatus EXCEPT ![Link(r)] = "CREATED"]
          /\ qty' = [qty EXCEPT ![r] = q]
      BY <2>4, RolesLeft DEF Reserves, Reserve, ReserveExitOrder, TooSmall, ThreadsInv, Role
    <3>2. /\ q \in Nat /\ q <= total[th] /\ total[th] <= traded["entry"]
          /\ r # TimeExit => q * Whole <= total[th] * Fraction[r]
      BY <1>1, <3>1, Shares DEF SizeInv
    <3>3. q \in 0..Lots /\ q > 0
      BY <1>0, <1>1, <3>1, <3>2
    <3>4. sent[r] = 0 /\ order[r] = "NONE" /\ traded[r] = 0
      BY <1>0, <3>1 DEF RequestInv, ChildCreatedOnce, OrderInv, ExchangeTyped
    <3>5. r # TimeExit => q * Whole <= traded["entry"] * Fraction[r]
      <4>1. SUFFICES ASSUME r # TimeExit
                     PROVE  q * Whole <= traded["entry"] * Fraction[r]
        OBVIOUS
      <4>2. total[th] * Fraction[r] <= traded["entry"] * Fraction[r]
        BY <1>0, <1>1, <3>1, <3>2, Products
      <4>3. /\ q * Whole \in Nat /\ traded["entry"] * Fraction[r] \in Nat
            /\ total[th] * Fraction[r] \in Nat
        BY <1>0, <1>1, <3>1, <3>2, Products
      <4> HIDE DEF q, r
      <4> QED BY <3>2, <4>1, <4>2, <4>3
    <3> HIDE DEF q, r
    <3>6. ASSUME NEW k \in AllRoles
          PROVE  /\ Reserved(Link(k))' => qty'[k] > 0
                 /\ traded[k] <= qty'[k]
                 /\ order[k] \in { "NEW", "CANCELED" } => traded[k] < qty'[k]
                 /\ order[k] \in { "NONE", "REJECTED" } => traded[k] = 0
      <4>1. CASE k = r
        BY <1>0, <3>1, <3>3, <3>4, <4>1 DEF ExchangeTyped
      <4>2. CASE k # r
        <5>1. qty'[k] = qty[k] /\ Link(k) # Link(r) /\ Link(k) \in Links
          BY <1>0, <3>1, <4>2, ExitLinks DEF ExchangeTyped
        <5>2. ostatus'[Link(k)] = ostatus[Link(k)]
          BY <3>1, <5>1 DEF TypeOK
        <5> QED BY <5>1, <5>2 DEF OrderInv, Reserved, Link
      <4> QED BY <4>1, <4>2
    <3>7. OrderInv'
      BY <1>0, <1>3, <2>2, <3>1, <3>6 DEF OrderInv, EntryQty, ExchangeTyped
    <3>8. SizeInv'
      <4>1. \A k \in ExitRoles \ {TimeExit} : qty'[k] * Whole <= traded["entry"] * Fraction[k]
        BY <1>0, <3>1, <3>5 DEF SizeInv, ExchangeTyped
      <4> QED BY <1>1, <1>3, <4>1 DEF SizeInv
    <3> QED BY <1>0, <1>3, <2>2, <3>1, <3>3, <3>7, <3>8 DEF ExchangeTyped
  <2> QED BY <2>1, <2>3, <2>4, ExitsTell
<1> QED BY <1>2, <1>3, ExchangeMoves DEF Send, exchVars

-----------------------------------------------------------------------------
(* The journal of the exits never runs ahead of the exchange *)

(***************************************************************************)
(* ExitsFollowExchange is not inductive: what the loop carries from a call  *)
(* into a later transaction must still be true of the exchange, also of the *)
(* entry, whose executions the stream and the loop book too.                *)
(***************************************************************************)
FollowInv ==
  /\ CarriedInv
  /\ \A r \in AllRoles : fills[Link(r)] \subseteq Executed(r)
  /\ ExitsFollowExchange

\* What was true of the exchange stays true.
LEMMA PastGrows ==
  ASSUME ExchangeTyped, ExchangeTyped', Forward, NEW r \in AllRoles
  PROVE  Past(r) \subseteq Past(r)' /\ Executed(r) \subseteq Executed(r)'
<1>0. /\ order[r] \in ExchangeStatuses /\ order'[r] \in ExchangeStatuses
      /\ traded[r] \in Nat /\ traded'[r] \in Nat
  BY NumbersAssumption DEF ExchangeTyped
<1>1. Executed(r) \subseteq Executed(r)'
  BY <1>0 DEF Forward, Executed, Link
<1>2. CASE order[r] = "NONE"
  BY <1>1, <1>2 DEF Past
<1>3. CASE order[r] = "NEW"
  <2>1. "NEW" \in Past(r)'
    BY <1>0, <1>3 DEF Forward, Past, ExchangeStatuses
  <2>2. Past(r) = { "NEW" }
    BY <1>3 DEF Past
  <2> QED BY <1>1, <2>1, <2>2
<1>4. CASE order[r] \in { "FILLED", "CANCELED", "REJECTED" }
  BY <1>1, <1>4 DEF Forward, Past
<1> QED BY <1>0, <1>2, <1>3, <1>4 DEF ExchangeStatuses

\* What the loop carries was true when it was read, and stays true.
LEMMA CarriedStep ==
  ASSUME TypeOK, LocalsTyped, ExchangeTyped, ExchangeTyped', ThreadsInv, CarriedInv, Forward,
         [Next]_vars
  PROVE  CarriedInv'
<1>1. CASE UNCHANGED visitVars
  <2>1. CASE pc \in { "adopt", "ack", "book" }
    <3>1. cur \in AllRoles
      BY <2>1 DEF ThreadsInv
    <3>2. /\ Past(cur) \subseteq Past(cur)' /\ Executed(cur) \subseteq Executed(cur)'
          /\ cur' = cur /\ pc' = pc /\ answer' = answer /\ batch' = batch
      BY <1>1, <3>1, PastGrows DEF visitVars, Past, Executed, Link
    <3> QED BY <3>2 DEF CarriedInv
  <2>2. CASE pc \notin { "adopt", "ack", "book" }
    BY <1>1, <2>2 DEF CarriedInv, visitVars
  <2> QED BY <2>1, <2>2
<1>2. CASE \E r \in AllRoles : FindOrder(r)
  <2>1. PICK r \in AllRoles : FindOrder(r)
    BY <1>2
  <2>2. /\ cur' = r /\ answer' = order[r] /\ order' = order
        /\ pc' \in { "adopt", "ack" } => order[r] # "NONE"
        /\ pc' # "book"
    BY <2>1 DEF FindOrder, exchVars
  <2>3. order[r] # "NONE" => order[r] \in Past(r)
    BY PastFacts
  <2> QED BY <2>2, <2>3 DEF CarriedInv, Past
<1>3. CASE \E r \in AllRoles : FetchExecutions(r)
  BY <1>3 DEF FetchExecutions, CarriedInv, exchVars, Executed, Link
<1>4. CASE AdoptFound \/ AckFound
  BY <1>4 DEF AdoptFound, AckFound, Goto, Journal, exchVars, CarriedInv, Past
<1>5. CASE \E e \in batch : BookFetched(e)
  BY <1>5 DEF BookFetched, Journal, exchVars, CarriedInv, Executed, Link
<1>6. ASSUME ~ \E r \in AllRoles : FindOrder(r) \/ FetchExecutions(r),
             ~AdoptFound, ~AckFound, ~ \E e \in batch : BookFetched(e)
      PROVE  UNCHANGED visitVars \/ pc' \notin { "adopt", "ack", "book" }
  <2>1. CASE Reconcile \/ Protect \/ RaiseJournal \/ RaiseCall \/ TimesOut \/ UNCHANGED vars
    BY <1>6, <2>1 DEF Reconcile, Wake, Visited, Reconciled, Audited, NotOwned, Protect,
         NotOverdue, ReadHolding, StopRisk, ExitSubmitted, Recover, Recovered, RaiseJournal,
         RaiseCall, TimesOut, Abort, Goto, vars
  <2>2. ASSUME NEW th \in Threads, Submit(th)
        PROVE  UNCHANGED visitVars
    BY <2>2, SubmitMoves
  <2>3. CASE Stream \/ Outside
    BY <2>3 DEF Stream, StreamOrder, StreamExecution, Streams, Outside, ExchangeReceives,
         ExchangeTrades, ExchangeCancels, StopLoss, HoldsTooLong, LocalLeaseExpires, Crash,
         outsideVars
  <2> QED BY <2>1, <2>2, <2>3, RoleSequences DEF Next, Loop
<1>7. CASE pc' \notin { "adopt", "ack", "book" }
  BY <1>7 DEF CarriedInv
<1> QED BY <1>1, <1>2, <1>3, <1>4, <1>5, <1>6, <1>7

\* A row that says FILLED has all its lots, and these the exchange has traded.
LEMMA CompletesFills ==
  ASSUME ExchangeTyped, OrderInv, NEW r \in AllRoles, NEW e \in Executed(r),
         fills[Link(r)] \subseteq Executed(r), Reserved(Link(r)), Completes(r, e)
  PROVE  order[r] = "FILLED"
<1>1. /\ Cardinality(fills[Link(r)] \cup {e}) \in Nat
      /\ Cardinality(fills[Link(r)] \cup {e}) <= traded[r]
  BY BookedCount
<1>2. /\ qty[r] \in Nat /\ traded[r] \in Nat /\ order[r] \in ExchangeStatuses /\ qty[r] > 0
  BY NumbersAssumption DEF ExchangeTyped, OrderInv
<1>3. traded[r] >= qty[r]
  BY <1>1, <1>2 DEF Completes
<1> QED BY <1>2, <1>3 DEF OrderInv, ExchangeStatuses

\* A report the exchange has made keeps the journal behind it.
LEMMA TellsFollow ==
  ASSUME TypeOK, ExchangeTyped, OrderInv, FollowInv, Tells, UNCHANGED <<order, traded>>
  PROVE  /\ \A r \in AllRoles : fills'[Link(r)] \subseteq Executed(r)'
         /\ ExitsFollowExchange'
<1>0. /\ \A r \in AllRoles : Link(r) \in Links /\ Executed(r)' = Executed(r)
      /\ \A r, k \in AllRoles : Link(r) = Link(k) => r = k
      /\ ExitRoles \subseteq AllRoles
      /\ \A r \in AllRoles : fills[Link(r)] \subseteq Executed(r)
  BY ExitLinks DEF Executed, Link, FollowInv
<1>1. CASE UNCHANGED <<ostatus, fills>>
  BY <1>0, <1>1 DEF FollowInv, ExitsFollowExchange, Link
<1>2. CASE \E r \in ExitRoles : RecordExitSubmission(Link(r), {Link(r)})
  <2>1. PICK r \in ExitRoles : /\ fills' = fills
                             /\ ostatus' = [ostatus EXCEPT ![Link(r)] = "REST_ACCEPTED"]
    BY <1>2 DEF RecordExitSubmission
  <2> QED BY <1>0, <2>1 DEF FollowInv, ExitsFollowExchange, Link, TypeOK, FinalOrderStatuses
<1>3. ASSUME NEW r \in AllRoles, NEW ids, NEW raw \in Past(r), AcknowledgeOrder(Link(r), raw, ids)
      PROVE  /\ \A k \in AllRoles : fills'[Link(k)] \subseteq Executed(k)'
             /\ ExitsFollowExchange'
  <2>1. /\ fills' = fills
        /\ ostatus' \in { ostatus, [ostatus EXCEPT ![Link(r)] = Normalized(raw)] }
    BY <1>3 DEF AcknowledgeOrder
  <2>2. /\ Normalized(raw) = "FILLED" => order[r] = "FILLED"
        /\ Normalized(raw) \in FinalOrderStatuses => order[r] \in { "FILLED", "CANCELED", "REJECTED" }
    BY PastFacts DEF Normalized, FinalOrderStatuses, ExchangeStatuses
  <2>3. ASSUME NEW k \in ExitRoles
        PROVE  /\ ostatus'[Link(k)] = "FILLED" => order[k] = "FILLED"
               /\ ostatus'[Link(k)] \in FinalOrderStatuses =>
                    order[k] \in { "FILLED", "CANCELED", "REJECTED" }
    <3>1. CASE k = r
      BY <1>0, <2>1, <2>2, <3>1 DEF FollowInv, ExitsFollowExchange, TypeOK
    <3>2. CASE k # r
      <4>1. Link(k) # Link(r) /\ Link(k) \in Links
        BY <1>0, <3>2
      <4>2. ostatus'[Link(k)] = ostatus[Link(k)]
        BY <2>1, <4>1 DEF TypeOK
      <4> QED BY <4>2 DEF FollowInv, ExitsFollowExchange
    <3> QED BY <3>1, <3>2
  <2> QED BY <1>0, <2>1, <2>3 DEF ExitsFollowExchange, Link
<1>4. ASSUME NEW r \in AllRoles, NEW e \in Executed(r), Book(r, e)
      PROVE  /\ \A k \in AllRoles : fills'[Link(k)] \subseteq Executed(k)'
             /\ ExitsFollowExchange'
  <2> DEFINE target == IF Completes(r, e) THEN "FILLED" ELSE "PARTIALLY_FILLED"
  <2>1. /\ fills' = [fills EXCEPT ![Link(r)] = @ \cup {e}]
        /\ ostatus' = [ostatus EXCEPT ![Link(r)] = target]
        /\ Reserved(Link(r))
    BY <1>4 DEF Book, BookFill
  <2>2. target \in FinalOrderStatuses => target = "FILLED" /\ order[r] = "FILLED"
    BY <1>0, <2>1, CompletesFills DEF FinalOrderStatuses
  <2> HIDE DEF target
  <2>3. ASSUME NEW k \in AllRoles
        PROVE  /\ fills'[Link(k)] \subseteq Executed(k)
               /\ k \in ExitRoles =>
                    /\ ostatus'[Link(k)] = "FILLED" => order[k] = "FILLED"
                    /\ ostatus'[Link(k)] \in FinalOrderStatuses =>
                         order[k] \in { "FILLED", "CANCELED", "REJECTED" }
    <3>1. CASE k = r
      <4>1. fills'[Link(k)] = fills[Link(k)] \cup {e} /\ ostatus'[Link(k)] = target
        BY <1>0, <2>1, <3>1 DEF TypeOK
      <4> QED BY <1>0, <2>2, <3>1, <4>1 DEF FinalOrderStatuses
    <3>2. CASE k # r
      <4>1. Link(k) # Link(r) /\ Link(k) \in Links
        BY <1>0, <3>2
      <4>2. ostatus'[Link(k)] = ostatus[Link(k)] /\ fills'[Link(k)] = fills[Link(k)]
        BY <2>1, <4>1 DEF TypeOK
      <4> QED BY <1>0, <4>2 DEF FollowInv, ExitsFollowExchange
    <3> QED BY <3>1, <3>2
  <2> QED BY <1>0, <2>3 DEF ExitsFollowExchange, Link
<1> QED BY <1>1, <1>2, <1>3, <1>4 DEF Tells

\* Each step keeps the journal behind the exchange.
LEMMA FollowStep ==
  ASSUME TypeOK, LocalsTyped, ExchangeTyped, ExchangeTyped', ThreadsInv, OrderInv, FollowInv,
         Forward, [Next]_vars
  PROVE  FollowInv'
<1>0. /\ \A r \in AllRoles : /\ Executed(r) \subseteq Executed(r)' /\ Link(r) \in Links
                             /\ fills[Link(r)] \subseteq Executed(r)
      /\ \A r, k \in AllRoles : Link(r) = Link(k) => r = k
      /\ ExitRoles \subseteq AllRoles /\ CarriedInv
  BY ExitLinks, PastGrows DEF FollowInv
<1>1. CarriedInv'
  BY <1>0, CarriedStep
<1>2. CASE ExchangeStep /\ UNCHANGED storeVars
  <2>1. \A r \in AllRoles : fills'[Link(r)] = fills[Link(r)] /\ ostatus'[Link(r)] = ostatus[Link(r)]
    BY <1>2 DEF storeVars
  <2>2. ExitsFollowExchange'
    BY <1>0, <2>1 DEF FollowInv, ExitsFollowExchange, Forward, Link
  <2> QED BY <1>0, <1>1, <2>1, <2>2 DEF FollowInv, Link
<1>3. CASE UNCHANGED <<order, traded>>
  <2>1. CASE Tells
    BY <1>1, <1>3, <2>1, TellsFollow DEF FollowInv
  <2>2. ASSUME NEW th \in Threads, Reserves(th)
        PROVE  FollowInv'
    <3>1. /\ Role(th) \in ExitRoles /\ fills' = fills
          /\ ostatus' = [ostatus EXCEPT ![Link(Role(th))] = "CREATED"]
      BY <2>2, RolesLeft DEF Reserves, Reserve, ReserveExitOrder, ThreadsInv, Role
    <3>2. ExitsFollowExchange'
      BY <1>0, <1>3, <3>1 DEF FollowInv, ExitsFollowExchange, FinalOrderStatuses, Link, TypeOK
    <3> QED BY <1>0, <1>1, <3>1, <3>2 DEF FollowInv, Link
  <2> QED BY <1>0, <2>1, <2>2, ExitsTell
<1> QED BY <1>2, <1>3, ExchangeMoves DEF Send, exchVars

-----------------------------------------------------------------------------
(* Sums over the levels *)

\* The recursion of SumOver has a solution, and SumOver is one.
LEMMA SumsExist ==
  ASSUME NEW f, \A r \in ExitRoles : f[r] \in Nat
  PROVE  /\ Len(Targets) \in Nat
         /\ \A i \in 1..Len(Targets) : Targets[i] \in ExitRoles \ {TimeExit}
         /\ SumOver(f) =
              [i \in 0..Len(Targets) |-> IF i = 0 THEN 0 ELSE SumOver(f)[i - 1] + f[Targets[i]]]
<1> DEFINE n == Len(Targets)
           h == [i \in 1..n |-> f[Targets[i]]]
<1>1. n \in Nat /\ \A i \in 1..n : Targets[i] \in ExitRoles \ {TimeExit}
  BY ExitsAssumption
<1>2. \A i \in 1..n : h[i] \in Nat
  BY <1>1
<1>3. PICK g \in [0..n -> Nat] : g = [i \in 0..n |-> IF i = 0 THEN 0 ELSE g[i - 1] + h[i]]
  <2> HIDE DEF n, h
  <2> QED BY <1>1, <1>2, RunningSums
<1>4. g = [i \in 0..n |-> IF i = 0 THEN 0 ELSE g[i - 1] + f[Targets[i]]]
  <2>1. \A i \in 0..n : i # 0 => h[i] = f[Targets[i]]
    BY <1>1
  <2> HIDE DEF h
  <2> QED BY <1>3, <2>1
<1> QED BY <1>1, <1>4 DEF SumOver

\* So the sums start with 0 and grow level by level.
LEMMA SumsGrow ==
  ASSUME NEW f, \A r \in ExitRoles : f[r] \in Nat
  PROVE  /\ SumOver(f)[0] = 0
         /\ \A i \in 1..Len(Targets) : SumOver(f)[i] = SumOver(f)[i - 1] + f[Targets[i]]
<1>1. Len(Targets) \in Nat
  BY SumsExist
<1> DEFINE g == SumOver(f)
<1>2. g = [i \in 0..Len(Targets) |-> IF i = 0 THEN 0 ELSE g[i - 1] + f[Targets[i]]]
  BY SumsExist
<1> HIDE DEF g
<1>3. \A i \in 0..Len(Targets) : g[i] = IF i = 0 THEN 0 ELSE g[i - 1] + f[Targets[i]]
  BY <1>2
<1>4. g[0] = 0 /\ \A i \in 1..Len(Targets) : g[i] = g[i - 1] + f[Targets[i]]
  BY <1>1, <1>3
<1> QED BY <1>4 DEF g

\* Levels that have their share of t each have it together.
LEMMA SharesAddUp ==
  ASSUME NEW t \in Nat, NEW q, \A r \in ExitRoles : q[r] \in Nat,
         \A r \in ExitRoles \ {TimeExit} : q[r] * Whole <= t * Fraction[r]
  PROVE  SumOver(q)[Len(Targets)] <= t
<1> DEFINE n == Len(Targets)
           Q == SumOver(q)
           F == SumOver(Fraction)
           S == { i \in Nat : i <= n => /\ Q[i] \in Nat /\ F[i] \in Nat
                                        /\ Q[i] * Whole <= t * F[i] }
<1>0. /\ n \in Nat /\ Whole \in Nat \ {0}
      /\ \A r \in ExitRoles : Fraction[r] \in Nat
      /\ \A i \in 1..n : Targets[i] \in ExitRoles \ {TimeExit}
  BY SumsExist, ExitsAssumption
<1>1. /\ Q[0] = 0 /\ \A i \in 1..n : Q[i] = Q[i - 1] + q[Targets[i]]
      /\ F[0] = 0 /\ \A i \in 1..n : F[i] = F[i - 1] + Fraction[Targets[i]]
  BY <1>0, SumsGrow
<1> HIDE DEF n, Q, F
<1>2. 0 \in S
  BY <1>0, <1>1
<1>3. ASSUME NEW i \in Nat, i \in S
      PROVE  i + 1 \in S
  <2> SUFFICES ASSUME i + 1 <= n
               PROVE  /\ Q[i + 1] \in Nat /\ F[i + 1] \in Nat
                      /\ Q[i + 1] * Whole <= t * F[i + 1]
    OBVIOUS
  <2> DEFINE r == Targets[i + 1]
  <2>1. /\ i + 1 \in 1..n /\ (i + 1) - 1 = i /\ i <= n
    BY <1>0
  <2>2. r \in ExitRoles \ {TimeExit} /\ q[r] \in Nat /\ Fraction[r] \in Nat
    BY <1>0, <2>1
  <2>3. Q[i + 1] = Q[i] + q[r] /\ F[i + 1] = F[i] + Fraction[r]
    BY <1>1, <2>1
  <2>4. Q[i] \in Nat /\ F[i] \in Nat /\ Q[i] * Whole <= t * F[i]
    BY <1>3, <2>1
  <2>5. q[r] * Whole <= t * Fraction[r]
    BY <2>2
  <2> HIDE DEF r, S
  <2>6. /\ (Q[i] + q[r]) * Whole = Q[i] * Whole + q[r] * Whole
        /\ t * (F[i] + Fraction[r]) = t * F[i] + t * Fraction[r]
    BY <1>0, <2>2, <2>4
  <2>7. /\ Q[i] * Whole \in Nat /\ q[r] * Whole \in Nat
        /\ t * F[i] \in Nat /\ t * Fraction[r] \in Nat
    BY <1>0, <2>2, <2>4, Products
  <2>8. Q[i] * Whole + q[r] * Whole <= t * F[i] + t * Fraction[r]
    BY <2>4, <2>5, <2>7
  <2> QED BY <2>2, <2>3, <2>4, <2>6, <2>8
<1>4. n \in S
  <2> HIDE DEF S
  <2> QED BY <1>0, <1>2, <1>3, SetInduction
<1>5. /\ Q[n] \in Nat /\ F[n] \in Nat /\ Q[n] * Whole <= t * F[n]
  BY <1>0, <1>4
<1>6. F[n] <= Whole
  BY FractionsAssumption DEF F, n
<1>7. F[n] * t <= Whole * t /\ F[n] * t \in Nat /\ Whole * t \in Nat /\ Q[n] * Whole \in Nat
  BY <1>0, <1>5, <1>6, Products
<1>8. Q[n] * Whole <= t * Whole
  <2>1. t * F[n] = F[n] * t /\ t * Whole = Whole * t
    BY <1>0, <1>5
  <2> QED BY <1>5, <1>7, <2>1
<1>9. Q[n] <= t
  BY <1>0, <1>5, <1>8, Products
<1> QED BY <1>9 DEF Q, n

-----------------------------------------------------------------------------
(* The invariant of the exits *)

ExitsInv ==
  /\ TypeOK /\ LocalsTyped /\ ExchangeTyped
  /\ ThreadsInv /\ EpochInv /\ CloseInv /\ RequestInv
  /\ OrderInv /\ SizeInv /\ FollowInv

\* The acknowledged entry and the idle threads.
LEMMA ExitsInit == Init => ExitsInv
<1> SUFFICES ASSUME Init PROVE ExitsInv
  OBVIOUS
<1>0. /\ Ticket \in Tickets /\ Entry \in Links /\ Lots \in Nat \ {0}
      /\ ExitRoles \subseteq AllRoles /\ "entry" \in AllRoles /\ "entry" \notin ExitRoles
      /\ TimeExit \in ExitRoles
      /\ \A r \in AllRoles : Link(r) \in Links
      /\ \A r \in ExitRoles : Link(r) # Entry
      /\ NoSession \notin Sessions
  BY ExitLinks, NumbersAssumption, SessionsAssumption
<1>1. TypeOK
  <2>1. \A e \in {0, 1} : e \in Nat
    OBVIOUS
  <2>2. state \in [Tickets -> ExecutionStates \cup {"ABSENT"}]
    BY DEF Init, EntryPlaced, ExecutionStates
  <2>3. ostatus \in [Links -> OrderStatuses]
    BY DEF Init, EntryPlaced, OrderStatuses
  <2>4. owner \in [Tickets -> Sessions \cup {NoSession}] /\ epoch \in [Tickets -> Nat]
    BY DEF Init, EntryPlaced, ThreadsStart
  <2>5. held \in [Sessions -> [Tickets -> Nat]]
    BY <2>4 DEF Init, EntryPlaced
  <2> QED BY <1>0, <2>2, <2>3, <2>4, <2>5
          DEF Init, EntryPlaced, TypeOK, CommandStatuses, ReceiptStatuses
<1>2. LocalsTyped
  BY DEF Init, ThreadsStart, LocalsTyped, ExchangeStatuses
<1>3. ExchangeTyped
  BY <1>0 DEF Init, ThreadsStart, ExchangeTyped, ExchangeStatuses
<1>4. ThreadsInv
  BY RoleSequences DEF Init, ThreadsStart, ThreadsInv
<1>5. EpochInv
  <2>1. Cardinality({sess}) = 1
    BY FS_Singleton
  <2> QED BY <1>0, <2>1 DEF Init, ThreadsStart, EntryPlaced, EpochInv
<1>6. CloseInv
  BY <1>0 DEF Init, ThreadsStart, CloseInv, RiskStoppedBeforeExit
<1>7. RequestInv
  BY <1>0 DEF Init, ThreadsStart, RequestInv, ChildCreatedOnce
<1>8. OrderInv
  BY <1>0 DEF Init, ThreadsStart, EntryPlaced, OrderInv, EntryQty, Reserved, Entry, EntryOf, Link
<1>9. SizeInv
  <2>1. \A r \in ExitRoles : Fraction[r] \in Nat /\ Whole \in Nat
    BY ExitsAssumption
  <2>2. \A r \in ExitRoles \ {TimeExit} : qty[r] = 0 /\ traded["entry"] = 0
    BY <1>0 DEF Init, ThreadsStart
  <2>3. position = 0 /\ traded["entry"] = 0 /\ \A th \in Threads : total[th] = 0
    BY <1>0 DEF Init, ThreadsStart
  <2>4. \A r \in ExitRoles : 0 * Whole <= 0 * Fraction[r]
    BY <2>1
  <2> QED BY <2>2, <2>3, <2>4 DEF SizeInv
<1>10. FollowInv
  BY <1>0 DEF Init, ThreadsStart, EntryPlaced, FollowInv, CarriedInv, ExitsFollowExchange,
       FinalOrderStatuses
<1> QED BY <1>1, <1>2, <1>3, <1>4, <1>5, <1>6, <1>7, <1>8, <1>9, <1>10 DEF ExitsInv

\* Each step of the service keeps to the journal and keeps the invariant.
LEMMA ExitsStep == ExitsInv /\ [Next]_vars => ExitsInv' /\ [StoreNext]_storeVars
<1> SUFFICES ASSUME ExitsInv, [Next]_vars PROVE ExitsInv' /\ [StoreNext]_storeVars
  OBVIOUS
<1>1. [StoreNext]_storeVars
  BY ExitsAreStoreSteps DEF ExitsInv, OrderInv
<1>2. TypeOK'
  BY <1>1, TypeStep DEF ExitsInv
<1>3. LocalsTyped' /\ ThreadsInv'
  BY ThreadsStep DEF ExitsInv
<1>4. fills[Entry] \subseteq Executed("entry") /\ CarriedInv
  BY ExitLinks DEF ExitsInv, FollowInv
<1>5. ExchangeTyped' /\ OrderInv' /\ SizeInv' /\ Forward
  BY <1>3, <1>4, QuantitiesStep DEF ExitsInv
<1>6. EpochInv' /\ CloseInv'
  BY EpochStep, CloseStep DEF ExitsInv
<1>7. RequestInv'
  BY <1>1, RequestStep DEF ExitsInv
<1>8. FollowInv'
  BY <1>5, FollowStep DEF ExitsInv
<1> QED BY <1>1, <1>2, <1>3, <1>5, <1>6, <1>7, <1>8 DEF ExitsInv

LEMMA ExitsInvariant == Spec => []ExitsInv
<1>1. Init => ExitsInv
  BY ExitsInit
<1>2. ExitsInv /\ [Next]_vars => ExitsInv'
  BY ExitsStep
<1> QED BY <1>1, <1>2, PTL DEF Spec

(***************************************************************************)
(* The locals of both threads, the journal and the exchange keep to what    *)
(* the program can be in; no thread ever divides more than an entry's lots. *)
(***************************************************************************)
THEOREM ExitsTyped == Spec => []ExitsTypeOK
<1>1. ExitsInv => ExitsTypeOK
  <2> SUFFICES ASSUME ExitsInv PROVE ExitsTypeOK
    OBVIOUS
  <2>1. total \in [Threads -> 0..Lots]
    <3>1. /\ total \in [Threads -> Nat] /\ \A th \in Threads : total[th] <= traded["entry"]
          /\ traded["entry"] \in 0..Lots /\ Lots \in Nat
      BY ExitLinks, NumbersAssumption DEF ExitsInv, ThreadsInv, SizeInv, ExchangeTyped
    <3>2. \A th \in Threads : total[th] \in 0..Lots
      BY <3>1
    <3> QED BY <3>1, <3>2
  <2>2. \A th \in Threads : roles[th] \in Seq(ExitRoles)
    BY DEF ExitsInv, ThreadsInv
  <2> QED BY <2>1, <2>2 DEF ExitsInv, LocalsTyped, ExchangeTyped, ExitsTypeOK
<1> QED BY <1>1, ExitsInvariant, PTL

(***************************************************************************)
(* Two threads and a reconciliation write the journal only as its methods   *)
(* let them, so what is proved of ExecutionStore's steps holds here.        *)
(***************************************************************************)
THEOREM ExitsKeepStore == Spec => ExitsKeepToStore
<1>1. ExitsInv /\ [Next]_vars => [StoreNext]_storeVars
  BY ExitsStep
<1> QED BY <1>1, ExitsInvariant, PTL DEF Spec, ExitsKeepToStore

(***************************************************************************)
(* However the stream, the loop and restarts interleave, one request at     *)
(* most leaves for each child, and only after the child is journaled.       *)
(***************************************************************************)
THEOREM ChildrenOnce == Spec => []ChildCreatedOnce
<1>1. ExitsInv => ChildCreatedOnce
  BY DEF ExitsInv, RequestInv
<1> QED BY <1>1, ExitsInvariant, PTL

(***************************************************************************)
(* The request of a time exit leaves only with the kill switch set, for a   *)
(* position that was held too long.                                         *)
(***************************************************************************)
THEOREM RiskStopsFirst == Spec => []RiskStoppedBeforeExit
<1>1. ExitsInv => RiskStoppedBeforeExit
  BY DEF ExitsInv, CloseInv
<1> QED BY <1>1, ExitsInvariant, PTL

(***************************************************************************)
(* For every list of levels whose fractions make at most the whole, what    *)
(* the two threads have reserved for them never exceeds what the entry has  *)
(* traded, though each divides a quantity read before the other moved on.   *)
(***************************************************************************)
THEOREM TargetsFit == Spec => []TargetsWithinEntry
<1>1. ExitsInv => TargetsWithinEntry
  <2> SUFFICES ASSUME ExitsInv PROVE TargetsWithinEntry
    OBVIOUS
  <2>1. /\ traded["entry"] \in Nat /\ \A r \in ExitRoles : qty[r] \in Nat
    BY ExitLinks, NumbersAssumption DEF ExitsInv, ExchangeTyped
  <2>2. \A r \in ExitRoles \ {TimeExit} : qty[r] * Whole <= traded["entry"] * Fraction[r]
    BY DEF ExitsInv, SizeInv
  <2> QED BY <2>1, <2>2, SharesAddUp DEF TargetsWithinEntry
<1> QED BY <1>1, ExitsInvariant, PTL

(***************************************************************************)
(* The journal never books on a child, or closes one, ahead of the exchange. *)
(***************************************************************************)
THEOREM ExitsFollow == Spec => []ExitsFollowExchange
<1>1. ExitsInv => ExitsFollowExchange
  BY DEF ExitsInv, FollowInv
<1> QED BY <1>1, ExitsInvariant, PTL

-----------------------------------------------------------------------------
(* CANCEL tickets *)

cancelAllVars == <<storeVars, cancelVars>>

\* What settles a cancellation: the accepted request, or the cancelled order.
Settled == request = "accepted" \/ remote = "CANCELED"

\* The exchange fills the target order with its last lot.
RemoteInv ==
  /\ remote = "NONE" => lots = 0
  /\ remote = "NEW" => lots < Lots

(***************************************************************************)
(* The first half of CancelledOnce is not inductive: a request leaves only  *)
(* of a loop that has journaled the command itself, and then only once,     *)
(* because no later visit finds the command without a row.                  *)
(***************************************************************************)
CommandInv ==
  /\ asked <= 1
  /\ asked = 0 => request = "none"
  /\ command[Command] = "NONE" => asked = 0
  /\ step = "submitting" /\ fresh => asked = 0 /\ command[Command] # "NONE"
  /\ step = "cancel" => /\ asked = 0 /\ command[Command] # "NONE"
                        /\ state[canceller] = "SUBMITTING"
  /\ asked = 1 => state[canceller] \in { "SUBMITTING", "CANCELLED", "FAILED" }

\* Nor is the second: what the loop has read of the target must be settled too.
AnswerInv ==
  /\ step = "found" => remote = "CANCELED"
  /\ step = "accepted" => request = "accepted"
  /\ step \in { "replaycommand", "replay" } => row.cancelled
  /\ row.cancelled \/ ostatus[Order] = "CANCELLED" \/ state[canceller] = "CANCELLED" => Settled

CancelInv == CancelTypeOK /\ RemoteInv /\ CommandInv /\ AnswerInv

\* The canceller and its target are two tickets.
LEMMA CancelFacts ==
  ASSUME CancelTypeOK
  PROVE  /\ canceller \in Tickets /\ canceller \in Cancels /\ canceller # Target
         /\ Target \in Tickets \ Cancels
         /\ Order \in Links /\ TicketOf(Order) = Target /\ IsEntry(Order) /\ Order \in Entries
         /\ Command \in Commands /\ Command[1] = canceller /\ Command = <<canceller, "cancel_1">>
         /\ \A i \in 1..Lots : <<Order, i>> \in Execs
BY CancelAssumption, TicketsAssumption
   DEF CancelTypeOK, Order, EntryOf, Links, TicketOf, IsEntry, Entries, Command, Commands

CancelSteps ==
  { "idle", "find", "found", "foundcommand", "giveup", "poll", "receive", "validate",
    "claim", "risk", "read", "reject", "reserve", "submitting", "unnamed", "cancel",
    "sent", "accepted", "replaycommand", "replay", "confirm", "unknown", "done" }

\* The parts of the type invariant.
LEMMA CancelTypes ==
  ASSUME CancelTypeOK
  PROVE  /\ fresh \in BOOLEAN /\ late \in BOOLEAN /\ aged \in BOOLEAN /\ passed \in BOOLEAN
         /\ row \in [cancelled : BOOLEAN, named : BOOLEAN] /\ step \in CancelSteps
         /\ canceller \in Cancels /\ session \in Sessions /\ sessions \subseteq Sessions
         /\ remote \in { "NONE", "NEW", "FILLED", "CANCELED" } /\ lots \in 0..Lots
         /\ request \in { "none", "sent", "accepted" } /\ asked \in Nat
BY DEF CancelTypeOK, CancelSteps

LEMMA CancelTyped ==
  ASSUME TypeOK',
         fresh' \in BOOLEAN, late' \in BOOLEAN, aged' \in BOOLEAN, passed' \in BOOLEAN,
         row' \in [cancelled : BOOLEAN, named : BOOLEAN], step' \in CancelSteps,
         canceller' \in Cancels, session' \in Sessions, sessions' \subseteq Sessions,
         remote' \in { "NONE", "NEW", "FILLED", "CANCELED" }, lots' \in 0..Lots,
         request' \in { "none", "sent", "accepted" }, asked' \in Nat
  PROVE  CancelTypeOK'
BY DEF CancelTypeOK, CancelSteps

\* A report of the target order.
LEMMA ReportsAreStoreSteps ==
  ASSUME CancelTypeOK, Reports
  PROVE  StoreNext
<1>0. /\ Order \in Links /\ TicketOf(Order) = Target /\ IsEntry(Order) /\ Target \in Tickets
      /\ lots \in 0..Lots /\ remote \in { "NONE", "NEW", "FILLED", "CANCELED" } /\ Lots \in Nat
      /\ \A i \in 1..Lots : <<Order, i>> \in Execs
  BY CancelFacts, NumbersAssumption DEF CancelTypeOK
<1>1. CASE RecordRestSubmission(Order, {Order})
  BY <1>0, <1>1 DEF StoreNext, OrderStep
<1>2. CASE \E status \in Reportable, ids \in SUBSET {Order} : AcknowledgeOrder(Order, status, ids)
  <2>1. PICK status \in Reportable, ids \in SUBSET {Order} : AcknowledgeOrder(Order, status, ids)
    BY <1>2
  <2>2. status \in RemoteStatuses /\ ids \in SUBSET Links
    BY <1>0, <2>1 DEF Reportable, RemoteStatuses, FinalOrderStatuses
  <2> QED BY <1>0, <2>1, <2>2 DEF StoreNext, OrderStep
<1>3. CASE \E i \in 1..lots : RecordFill(<<Order, i>>, Order)
  <2>1. PICK i \in 1..lots : RecordFill(<<Order, i>>, Order)
    BY <1>3
  <2>2. i \in 1..Lots
    BY <1>0
  <2> QED BY <1>0, <2>1, <2>2 DEF StoreNext, ReportStep
<1>4. CASE Transition(Target, "FAILED")
  BY <1>0, <1>4 DEF StoreNext, TicketStep, UnfencedTargets
<1> QED BY <1>1, <1>2, <1>3, <1>4 DEF Reports

\* Each write of the loop is one of the journal's.
LEMMA CancelIsStoreStep ==
  ASSUME CancelTypeOK, [CancelNext]_cancelAllVars
  PROVE  [StoreNext]_storeVars
<1>0. /\ canceller \in Tickets /\ canceller \in Cancels /\ session \in Sessions
      /\ Order \in Entries /\ Command \in Commands /\ Command = <<canceller, "cancel_1">>
      /\ "cancel_1" \in CommandRoles
  BY CancelFacts, CancelAssumption DEF CancelTypeOK
<1>1. CASE ConfirmFound \/ ConfirmTarget
  BY <1>0, <1>1 DEF ConfirmFound, ConfirmTarget, StoreNext, ReportStep
<1>2. CASE GiveCancelUp
  BY <1>0, <1>2 DEF GiveCancelUp, StoreNext, TicketStep, UnfencedTargets
<1>3. CASE ReceiveCancel
  <2>1. UNCHANGED storeVars \/ Receive(canceller)
    BY <1>3 DEF ReceiveCancel
  <2> QED BY <1>0, <2>1 DEF StoreNext, TicketStep
<1>4. CASE ValidateCancel
  BY <1>0, <1>4 DEF ValidateCancel, StoreNext, TicketStep, UnfencedTargets
<1>5. CASE ClaimCancel
  <2>1. UNCHANGED storeVars \/ \E e \in 1..MaxEpoch : Claim(session, canceller, e)
    BY <1>5 DEF ClaimCancel
  <2> QED BY <1>0, <2>1 DEF StoreNext, SessionStep
<1>6. CASE DecideCancel \/ RejectCancel \/ SubmitCancel
  <2>1. \E target \in FencedTargets(canceller) : FencedTransition(session, canceller, target)
    BY <1>0, <1>6 DEF DecideCancel, RejectCancel, SubmitCancel, FencedTargets
  <2> QED BY <1>0, <2>1 DEF StoreNext, SessionStep
<1>7. CASE ReserveCancel
  <2>1. UNCHANGED storeVars \/ ReserveCommand(session, <<canceller, "cancel_1">>)
    BY <1>0, <1>7 DEF ReserveCancel
  <2> QED BY <1>0, <2>1 DEF StoreNext, SessionStep
<1>8. CASE RecordCommand
  <2>1. \E status \in CommandStatuses : ConfirmCommand(Command, status)
    BY <1>8 DEF RecordCommand, CommandStatuses
  <2> QED BY <1>0, <2>1 DEF StoreNext, ReportStep
<1>9. CASE TargetReported
  BY <1>9, ReportsAreStoreSteps DEF TargetReported
<1>10. CASE CancelLeaseExpires
  BY <1>0, <1>10 DEF CancelLeaseExpires, StoreNext, TicketStep
<1>11. CASE \/ Visit \/ FindTarget \/ PollTicket \/ RefusedByPlane \/ ReadTarget \/ CancelOrder
            \/ CancelAnswered \/ CancelFails \/ PassTicket \/ WriteFails \/ RequestFails
            \/ OrderArrives \/ OrderTrades \/ RequestAccepted \/ OrderEnds \/ TicketAges
            \/ (\E s \in Sessions : Restart(s)) \/ UNCHANGED cancelAllVars
  <2>1. UNCHANGED storeVars
    BY <1>11 DEF Visit, FindTarget, PollTicket, RefusedByPlane, ReadTarget, CancelOrder,
         CancelAnswered, CancelFails, PassTicket, WriteFails, RequestFails, EndIteration, NoWrite,
         OrderArrives, OrderTrades, RequestAccepted, OrderEnds, TicketAges, Restart, cancelAllVars
  <2> QED BY <2>1
<1> QED BY <1>1, <1>2, <1>3, <1>4, <1>5, <1>6, <1>7, <1>8, <1>9, <1>10, <1>11
        DEF CancelNext, CancelLoop, CancelOutside

\* The steps that the loop takes, the exchange, the clock and a restart.
LEMMA CancelTypesStep ==
  ASSUME CancelTypeOK, RemoteInv, TypeOK', [CancelNext]_cancelAllVars
  PROVE  CancelTypeOK'
<1>0. /\ fresh \in BOOLEAN /\ late \in BOOLEAN /\ aged \in BOOLEAN /\ passed \in BOOLEAN
      /\ row \in [cancelled : BOOLEAN, named : BOOLEAN] /\ step \in CancelSteps
      /\ canceller \in Cancels /\ session \in Sessions /\ sessions \subseteq Sessions
      /\ remote \in { "NONE", "NEW", "FILLED", "CANCELED" } /\ lots \in 0..Lots
      /\ request \in { "none", "sent", "accepted" } /\ asked \in Nat
  BY CancelTypes
<1>r. /\ NoRow \in [cancelled : BOOLEAN, named : BOOLEAN]
      /\ [cancelled |-> ostatus[Order] = "CANCELLED", named |-> Order \in oid]
           \in [cancelled : BOOLEAN, named : BOOLEAN]
  BY DEF NoRow
<1>1. CASE CancelLoop \/ RequestFails
  <2>1. /\ UNCHANGED <<canceller, session, sessions, remote, lots>>
        /\ asked' \in Nat /\ request' \in { "none", "sent", "accepted" }
        /\ passed' \in { passed, TRUE }
    <3>1. CASE CancelOrder
      BY <1>0, <3>1 DEF CancelOrder, NoWrite, sessionVars
    <3>2. CASE ~CancelOrder
      <4>1. UNCHANGED <<sessionVars, remoteVars>> /\ passed' \in { passed, TRUE }
        BY <1>1, <3>2 DEF CancelLoop, Visit, FindTarget, ConfirmFound, GiveCancelUp, PollTicket,
           RefusedByPlane, ReceiveCancel, ValidateCancel, ClaimCancel, DecideCancel, ReadTarget,
           RejectCancel, ReserveCancel, SubmitCancel, CancelAnswered, CancelFails,
           ConfirmTarget, RecordCommand, PassTicket, WriteFails, RequestFails, EndIteration,
           Writes, NoWrite
      <4> QED BY <1>0, <4>1 DEF sessionVars, remoteVars
    <3> QED BY <3>1, <3>2
  <2>2. step' \in CancelSteps
    <3>1. CASE \/ Visit \/ FindTarget \/ ConfirmFound \/ GiveCancelUp \/ PollTicket
               \/ RefusedByPlane \/ WriteFails \/ RequestFails
      BY <3>1 DEF Visit, FindTarget, ConfirmFound, GiveCancelUp, PollTicket, RefusedByPlane,
         WriteFails, RequestFails, EndIteration, Then, CancelSteps
    <3>2. CASE ReceiveCancel \/ ValidateCancel \/ ClaimCancel \/ DecideCancel
      BY <3>2 DEF ReceiveCancel, ValidateCancel, ClaimCancel, DecideCancel, Then, StepAfter,
         CancelSteps
    <3>3. CASE ReadTarget \/ RejectCancel \/ ReserveCancel \/ SubmitCancel
      BY <3>3 DEF ReadTarget, RejectCancel, ReserveCancel, SubmitCancel, Then, CancelSteps
    <3>4. CASE \/ CancelOrder \/ CancelAnswered \/ CancelFails \/ ConfirmTarget
               \/ RecordCommand \/ PassTicket
      BY <3>4 DEF CancelOrder, CancelAnswered, CancelFails, ConfirmTarget, RecordCommand,
         PassTicket, Then, CancelSteps
    <3> QED BY <1>1, <3>1, <3>2, <3>3, <3>4 DEF CancelLoop
  <2>3. /\ row' \in { row, NoRow, [cancelled |-> ostatus[Order] = "CANCELLED", named |-> Order \in oid] }
        /\ late' \in { late, aged, FALSE }
    BY <1>1 DEF CancelLoop, Visit, FindTarget, ConfirmFound, GiveCancelUp, PollTicket,
       RefusedByPlane, ReceiveCancel, ValidateCancel, ClaimCancel, DecideCancel, ReadTarget,
       RejectCancel, ReserveCancel, SubmitCancel, CancelOrder, CancelAnswered, CancelFails,
       ConfirmTarget, RecordCommand, PassTicket, WriteFails, RequestFails, EndIteration,
       Then, Forget, NoRow
  <2>4. fresh' \in BOOLEAN
    <3>1. CASE ReserveCancel
      BY <3>1 DEF ReserveCancel
    <3>2. CASE ~ReserveCancel
      <4>1. fresh' \in { fresh, FALSE }
        BY <1>1, <3>2 DEF CancelLoop, Visit, FindTarget, ConfirmFound, GiveCancelUp, PollTicket,
           RefusedByPlane, ReceiveCancel, ValidateCancel, ClaimCancel, DecideCancel, ReadTarget,
           RejectCancel, SubmitCancel, CancelOrder, CancelAnswered, CancelFails,
           ConfirmTarget, RecordCommand, PassTicket, WriteFails, RequestFails, EndIteration,
           Then, Forget
      <4> QED BY <1>0, <4>1
    <3> QED BY <3>1, <3>2
  <2>5. late' \in BOOLEAN /\ aged' \in BOOLEAN /\ passed' \in BOOLEAN
    <3>1. Writes \/ UNCHANGED aged
      BY <1>1 DEF CancelLoop, Visit, FindTarget, ConfirmFound, GiveCancelUp, PollTicket,
         RefusedByPlane, ReceiveCancel, ValidateCancel, ClaimCancel, DecideCancel, ReadTarget,
         RejectCancel, ReserveCancel, SubmitCancel, CancelOrder, CancelAnswered, CancelFails,
         ConfirmTarget, RecordCommand, PassTicket, WriteFails, RequestFails, EndIteration,
         NoWrite
    <3>2. aged' \in BOOLEAN
      BY <1>0, <3>1 DEF Writes
    <3> QED BY <1>0, <2>1, <2>3, <3>2
  <2>6. row' \in [cancelled : BOOLEAN, named : BOOLEAN]
    BY <1>0, <1>r, <2>3
  <2> QED BY <1>0, <2>1, <2>2, <2>4, <2>5, <2>6, CancelTyped
<1>2. CASE CancelOutside \/ UNCHANGED cancelAllVars
  <2>1. /\ step' \in { step, "idle" } /\ row' \in { row, NoRow } /\ fresh' \in { fresh, FALSE }
        /\ late' \in { late, FALSE } /\ aged' \in { aged, TRUE } /\ passed' = passed
        /\ canceller' = canceller /\ session' \in Sessions /\ sessions' \subseteq Sessions
        /\ request' \in { request, "accepted" } /\ asked' = asked
    BY <1>0, <1>2 DEF CancelOutside, TargetReported, OrderArrives, OrderTrades, RequestAccepted,
       OrderEnds, TicketAges, CancelLeaseExpires, Restart, Forget, cancelAllVars, cancelVars,
       localVars, remoteVars, sessionVars
  <2>2. remote' \in { "NONE", "NEW", "FILLED", "CANCELED" } /\ lots' \in 0..Lots
    BY <1>0, <1>2, NumbersAssumption
       DEF CancelOutside, TargetReported, OrderArrives, OrderTrades, RequestAccepted,
       OrderEnds, TicketAges, CancelLeaseExpires, Restart, cancelAllVars, cancelVars,
       remoteVars, RemoteInv
  <2>3. fresh' \in BOOLEAN /\ late' \in BOOLEAN /\ aged' \in BOOLEAN /\ passed' \in BOOLEAN
    BY <1>0, <2>1
  <2>4. row' \in [cancelled : BOOLEAN, named : BOOLEAN] /\ step' \in CancelSteps
    BY <1>0, <1>r, <2>1 DEF CancelSteps
  <2>5. request' \in { "none", "sent", "accepted" } /\ asked' \in Nat /\ canceller' \in Cancels
    BY <1>0, <2>1
  <2> QED BY <2>1, <2>2, <2>3, <2>4, <2>5, CancelTyped
<1> QED BY <1>1, <1>2 DEF CancelNext

\* The loop reads, calls or goes back to the start: no row is written.
LEMMA CancelReads ==
  ASSUME CancelInv, CancelTypeOK',
         \/ Visit \/ FindTarget \/ PollTicket \/ RefusedByPlane \/ ReadTarget \/ CancelOrder
         \/ CancelAnswered \/ CancelFails \/ PassTicket \/ WriteFails \/ RequestFails
         \/ UNCHANGED cancelAllVars
  PROVE  CancelInv'
<1>0. /\ UNCHANGED <<storeVars, canceller, session, sessions, remote, lots, aged>> /\ passed' \in { TRUE, passed }
      /\ asked \in Nat
  BY DEF Visit, FindTarget, PollTicket, RefusedByPlane, ReadTarget, CancelOrder,
     CancelAnswered, CancelFails, PassTicket, WriteFails, RequestFails, EndIteration, NoWrite,
     cancelAllVars, cancelVars, remoteVars, sessionVars, CancelInv, CancelTypeOK
<1>1. /\ UNCHANGED <<state, command, ostatus, Order, Command, canceller>>
      /\ Reserved(Order)' = Reserved(Order)
  BY <1>0 DEF storeVars, Order, Command, Reserved, EntryOf
<1>2. CASE \/ Visit \/ FindTarget \/ PollTicket \/ RefusedByPlane \/ CancelAnswered \/ CancelFails
           \/ PassTicket \/ WriteFails \/ RequestFails \/ UNCHANGED cancelAllVars
  <2>1. /\ UNCHANGED <<request, asked>> /\ row' \in { row, NoRow }
        /\ step' \notin { "submitting", "cancel", "replaycommand", "replay" } \/ UNCHANGED localVars
        /\ step' = "found" => remote = "CANCELED" \/ step = "found"
        /\ step' = "accepted" => request = "accepted"
    BY <1>0, <1>1, <1>2 DEF Visit, FindTarget, PollTicket, RefusedByPlane, CancelAnswered,
       CancelFails, PassTicket, WriteFails, RequestFails, EndIteration, NoWrite, Then, Forget,
       NoRow, cancelAllVars, cancelVars, localVars, remoteVars,
       CancelInv, CancelTypeOK, AnswerInv
  <2> QED BY <1>0, <1>1, <2>1 DEF CancelInv, RemoteInv, CommandInv, AnswerInv, Settled, NoRow,
             localVars
<1>3. CASE ReadTarget
  <2>1. /\ UNCHANGED <<request, asked, fresh, late>> /\ step' \in { "reserve", "reject" }
        /\ row' = [cancelled |-> ostatus[Order] = "CANCELLED", named |-> Order \in oid]
    BY <1>3 DEF ReadTarget, remoteVars
  <2> QED BY <1>0, <1>1, <2>1 DEF CancelInv, RemoteInv, CommandInv, AnswerInv, Settled
<1>4. CASE CancelOrder
  <2>1. /\ step = "cancel" /\ step' = "sent" /\ request' = "sent" /\ asked' = asked + 1
        /\ UNCHANGED <<row, fresh, late>>
    BY <1>4 DEF CancelOrder, Then
  <2>2. asked = 0 /\ request = "none" /\ command[Command] # "NONE" /\ state[canceller] = "SUBMITTING"
    BY <2>1 DEF CancelInv, CommandInv
  <2> QED BY <1>0, <1>1, <2>1, <2>2 DEF CancelInv, RemoteInv, CommandInv, AnswerInv, Settled
<1> QED BY <1>2, <1>3, <1>4

\* What a report of the target leaves alone, and what it may settle.
LEMMA CancelReported ==
  ASSUME CancelInv, CancelTypeOK', TargetReported
  PROVE  CancelInv'
<1>0. /\ Order \in Links /\ TicketOf(Order) = Target /\ canceller # Target /\ canceller \in Tickets
      /\ TypeOK /\ remote \in { "NONE", "NEW", "FILLED", "CANCELED" }
  BY CancelFacts DEF CancelInv, CancelTypeOK
<1>1. UNCHANGED <<step, row, fresh, remote, lots, request, asked, canceller, Order, Command>>
  BY DEF TargetReported, cancelVars, localVars, remoteVars, sessionVars, Order, Command, EntryOf
<1>2. UNCHANGED command /\ state'[canceller] = state[canceller]
  BY <1>0 DEF TargetReported, Reports, RecordRestSubmission, AcknowledgeOrder, RecordFill, BookFill,
     Transition, SetState, TypeOK
<1>3. ostatus'[Order] = "CANCELLED" => ostatus[Order] = "CANCELLED" \/ remote = "CANCELED"
  <2>1. CASE RecordRestSubmission(Order, {Order})
    BY <1>0, <2>1 DEF RecordRestSubmission, TypeOK
  <2>2. CASE \E status \in Reportable, ids \in SUBSET {Order} : AcknowledgeOrder(Order, status, ids)
    <3>1. PICK status \in Reportable, ids \in SUBSET {Order} : AcknowledgeOrder(Order, status, ids)
      BY <2>2
    <3>2. ostatus' \in { ostatus, [ostatus EXCEPT ![Order] = Normalized(status)] }
      BY <3>1 DEF AcknowledgeOrder
    <3>3. Normalized(status) = "CANCELLED" => remote = "CANCELED"
      BY <1>0, <3>1 DEF Reportable, Normalized
    <3> QED BY <1>0, <3>2, <3>3 DEF TypeOK
  <2>3. CASE \E i \in 1..lots : RecordFill(<<Order, i>>, Order)
    <3>1. PICK i \in 1..lots : RecordFill(<<Order, i>>, Order)
      BY <2>3
    <3>2. PICK target \in { "FILLED", "PARTIALLY_FILLED" } :
                 ostatus' = [ostatus EXCEPT ![Order] = target]
      BY <3>1 DEF RecordFill, BookFill, FillTargets, FillTarget
    <3> QED BY <1>0, <3>2 DEF TypeOK
  <2>4. CASE Transition(Target, "FAILED")
    BY <2>4 DEF Transition, orderVars
  <2> QED BY <2>1, <2>2, <2>3, <2>4 DEF TargetReported, Reports
<1> QED BY <1>1, <1>2, <1>3 DEF CancelInv, RemoteInv, CommandInv, AnswerInv, Settled

\* The exchange, the clock and a restart.
LEMMA CancelOutsideKeeps ==
  ASSUME CancelInv, CancelTypeOK', CancelOutside
  PROVE  CancelInv'
<1>1. CASE \/ OrderArrives \/ OrderTrades \/ RequestAccepted \/ OrderEnds \/ TicketAges
           \/ CancelLeaseExpires \/ \E s \in Sessions : Restart(s)
  <2>1. /\ UNCHANGED <<state, command, ostatus, canceller, Order, Command, asked>>
        /\ UNCHANGED row \/ row' = NoRow
        /\ UNCHANGED <<step, fresh>> \/ (step' = "idle" /\ fresh' = FALSE)
        /\ request' = request \/ (request = "sent" /\ request' = "accepted")
        /\ remote = "CANCELED" => remote' = "CANCELED"
    BY <1>1 DEF OrderArrives, OrderTrades, RequestAccepted, OrderEnds, TicketAges,
       CancelLeaseExpires, LeaseExpires, Restart, Forget, cancelVars, localVars, remoteVars,
       sessionVars, storeVars, orderVars, Order, Command, EntryOf
  <2>2. RemoteInv'
    BY <1>1, NumbersAssumption
       DEF OrderArrives, OrderTrades, RequestAccepted, OrderEnds, TicketAges,
       CancelLeaseExpires, Restart, cancelVars, remoteVars, CancelInv, CancelTypeOK, RemoteInv
  <2>3. CommandInv'
    BY <2>1 DEF CancelInv, CommandInv
  <2>4. Settled => Settled'
    BY <2>1 DEF Settled
  <2>5. row'.cancelled => row.cancelled
    BY <2>1 DEF NoRow
  <2>6. step = "accepted" => request' = "accepted"
    BY <2>1 DEF CancelInv, AnswerInv
  <2>7. step' \in { "replaycommand", "replay" } => row' = row
    BY <1>1 DEF OrderArrives, OrderTrades, RequestAccepted, OrderEnds, TicketAges,
       CancelLeaseExpires, Restart, cancelVars, localVars
  <2>8. AnswerInv'
    BY <2>1, <2>4, <2>5, <2>6, <2>7 DEF CancelInv, AnswerInv
  <2> QED BY <2>2, <2>3, <2>8 DEF CancelInv
<1>2. CASE TargetReported
  BY <1>2, CancelReported
<1> QED BY <1>1, <1>2 DEF CancelOutside

\* What the loop writes of its own ticket and of the command.
LEMMA CancelWrites ==
  ASSUME CancelInv, CancelTypeOK',
         \/ ConfirmFound \/ GiveCancelUp \/ ReceiveCancel \/ ValidateCancel \/ ClaimCancel
         \/ DecideCancel \/ RejectCancel \/ ReserveCancel \/ SubmitCancel
         \/ ConfirmTarget \/ RecordCommand
  PROVE  CancelInv'
<1>0. /\ Order \in Links /\ TicketOf(Order) = Target /\ canceller # Target /\ canceller \in Tickets
      /\ Target \in Tickets /\ Command \in Commands /\ TypeOK /\ asked \in Nat
  BY CancelFacts DEF CancelInv, CancelTypeOK
<1>1. UNCHANGED <<remote, lots, request, asked, canceller, Order, Command>>
  BY DEF ConfirmFound, GiveCancelUp, ReceiveCancel, ValidateCancel, ClaimCancel, DecideCancel,
     RejectCancel, ReserveCancel, SubmitCancel, ConfirmTarget, RecordCommand, Writes,
     remoteVars, sessionVars, Order, Command, EntryOf
<1>2. CASE ConfirmFound \/ ConfirmTarget
  <2>1. /\ step' \in { "foundcommand", "confirm", "done" } /\ UNCHANGED <<row, command>>
        /\ state'[canceller] = "CANCELLED" /\ Settled
    BY <1>0, <1>2 DEF ConfirmFound, ConfirmTarget, ConfirmCancellation, Then, TypeOK, CancelInv,
       AnswerInv, Settled
  <2> QED BY <1>0, <1>1, <2>1 DEF CancelInv, RemoteInv, CommandInv, AnswerInv, Settled
<1>3. CASE RecordCommand
  <2>1. /\ UNCHANGED <<state, ostatus, row>> /\ command'[Command] # "NONE"
        /\ step' \in { "poll", "replay", "done" }
        /\ step' = "replay" => step = "replaycommand"
    BY <1>0, <1>3 DEF RecordCommand, ConfirmCommand, Then, TypeOK, orderVars, CommandStatuses
  <2> QED BY <1>0, <1>1, <2>1 DEF CancelInv, RemoteInv, CommandInv, AnswerInv, Settled
<1>4. CASE ReserveCancel
  <2>1. /\ UNCHANGED <<state, ostatus, row>> /\ step' = "submitting"
        /\ command'[Command] # "NONE"
        /\ fresh' => command[Command] = "NONE"
    BY <1>0, <1>4 DEF ReserveCancel, ReserveCommand, TypeOK, orderVars, storeVars, CommandStatuses
  <2> QED BY <1>0, <1>1, <2>1 DEF CancelInv, RemoteInv, CommandInv, AnswerInv, Settled
<1>5. CASE SubmitCancel
  <2>1. /\ UNCHANGED <<row, fresh, command, ostatus>> /\ step = "submitting"
        /\ state'[canceller] = "SUBMITTING"
        /\ step' \in { "replaycommand", "done", "unnamed", "cancel" }
        /\ step' = "replaycommand" => row.cancelled
        /\ step' = "cancel" => fresh
    BY <1>0, <1>5 DEF SubmitCancel, FencedTransition, Transition, SetState, Then, TypeOK, orderVars
  <2> QED BY <1>0, <1>1, <2>1 DEF CancelInv, RemoteInv, CommandInv, AnswerInv, Settled
<1>6. CASE \/ GiveCancelUp \/ ReceiveCancel \/ ValidateCancel \/ ClaimCancel
           \/ DecideCancel \/ RejectCancel
  <2>1. /\ UNCHANGED <<row, command, ostatus>>
        /\ step' \in { "poll", "done", "validate", "claim", "risk", "read" }
    BY <1>6 DEF GiveCancelUp, ReceiveCancel, ValidateCancel, ClaimCancel, DecideCancel, RejectCancel,
       Receive, Transition, FencedTransition, Claim, SetState, Then, StepAfter, orderVars, storeVars
  <2>2. \/ UNCHANGED state
        \/ /\ state[canceller] \notin { "CANCELLED", "FAILED" }
           /\ state'[canceller] \notin { "CANCELLED" }
           /\ state[canceller] = "SUBMITTING" => state'[canceller] = "FAILED"
    <3>1. CASE ReceiveCancel
      BY <1>0, <3>1 DEF ReceiveCancel, Receive, Exists, storeVars
    <3>2. CASE ClaimCancel
      <4>1. UNCHANGED state \/ (state[canceller] = "VALIDATED" /\ state' = [state EXCEPT ![canceller] = "CLAIMED"])
        BY <3>2 DEF ClaimCancel, Claim, SetState, storeVars
      <4> QED BY <1>0, <4>1 DEF TypeOK
    <3>3. CASE GiveCancelUp \/ ValidateCancel \/ DecideCancel \/ RejectCancel
      <4>1. PICK target \in { "FAILED", "VALIDATED", "EXPIRED", "REJECTED", "RISK_APPROVED",
                              "RISK_BLOCKED" } : Transition(canceller, target)
        BY <3>3 DEF GiveCancelUp, ValidateCancel, DecideCancel, RejectCancel, FencedTransition
      <4>2. /\ can_transition(state[canceller], target) /\ state[canceller] # target
            /\ state'[canceller] = target
        BY <1>0, <4>1 DEF Transition, SetState, TypeOK
      <4> QED BY <4>2 DEF can_transition, ALLOWED_TRANSITIONS
    <3> QED BY <1>6, <3>1, <3>2, <3>3
  <2> QED BY <1>0, <1>1, <2>1, <2>2 DEF CancelInv, RemoteInv, CommandInv, AnswerInv, Settled
<1> QED BY <1>2, <1>3, <1>4, <1>5, <1>6

\* Before the CANCEL ticket is there, nothing was asked.
LEMMA CancelInits == CancelInit => CancelInv
<1> SUFFICES ASSUME CancelInit PROVE CancelInv
  OBVIOUS
<1>0. Lots \in Nat \ {0} /\ Order \in Links /\ Target \in Tickets \ Cancels
      /\ NoSession \notin Sessions /\ canceller \in Tickets /\ canceller # Target
  BY NumbersAssumption, CancelAssumption, TicketsAssumption, SessionsAssumption
     DEF Order, EntryOf, Links, CancelInit, ServiceInit
<1>1. TypeOK
  <2>1. state \in [Tickets -> ExecutionStates \cup {"ABSENT"}]
    BY DEF CancelInit, TargetPlaced, ExecutionStates
  <2>2. ostatus \in [Links -> OrderStatuses]
    BY DEF CancelInit, TargetPlaced, OrderStatuses
  <2>3. owner \in [Tickets -> Sessions \cup {NoSession}] /\ epoch \in [Tickets -> Nat]
    BY DEF CancelInit, TargetPlaced, ServiceInit
  <2>4. held \in [Sessions -> [Tickets -> Nat]]
    BY <2>3 DEF CancelInit, TargetPlaced
  <2> QED BY <2>1, <2>2, <2>3, <2>4
          DEF CancelInit, TargetPlaced, TypeOK, CommandStatuses, ReceiptStatuses
<1>2. CancelTypeOK
  <2>1. row \in [cancelled : BOOLEAN, named : BOOLEAN]
    BY DEF CancelInit, ServiceInit, NoRow
  <2>2. { fresh, late, aged, passed } \subseteq BOOLEAN
    BY DEF CancelInit, ServiceInit
  <2>3. /\ canceller \in Cancels /\ session \in Sessions /\ sessions \subseteq Sessions
        /\ step = "idle" /\ remote = "NONE" /\ lots \in 0..Lots /\ request = "none" /\ asked \in Nat
    BY <1>0 DEF CancelInit, ServiceInit
  <2> QED BY <1>1, <2>1, <2>2, <2>3 DEF CancelTypeOK
<1>3. state[canceller] = "ABSENT" /\ ostatus[Order] # "CANCELLED"
  BY <1>0 DEF CancelInit, TargetPlaced
<1> QED BY <1>0, <1>2, <1>3 DEF CancelInit, ServiceInit, CancelInv, RemoteInv, CommandInv, AnswerInv,
           NoRow

\* Every step keeps the invariant.
LEMMA CancelStep == CancelInv /\ [CancelNext]_cancelAllVars => CancelInv'
<1> SUFFICES ASSUME CancelInv, [CancelNext]_cancelAllVars PROVE CancelInv'
  OBVIOUS
<1>1. [StoreNext]_storeVars
  BY CancelIsStoreStep DEF CancelInv
<1>2. TypeOK'
  BY <1>1, TypeStep DEF CancelInv, CancelTypeOK
<1>3. CancelTypeOK'
  BY <1>2, CancelTypesStep DEF CancelInv
<1> QED BY <1>3, CancelReads, CancelWrites, CancelOutsideKeeps DEF CancelNext, CancelLoop

(***************************************************************************)
(* One cancel request at most leaves across any number of crashes, lost     *)
(* answers and lost leases, and a CANCEL ticket is CANCELLED only when the  *)
(* exchange has accepted it or has the order cancelled.                     *)
(***************************************************************************)
THEOREM CancelsOnce == CancelSpec => []CancelledOnce
<1>1. CancelInit => CancelInv
  BY CancelInits
<1>2. CancelInv /\ [CancelNext]_cancelAllVars => CancelInv'
  BY CancelStep
<1>3. CancelInv => CancelledOnce
  BY DEF CancelInv, CommandInv, AnswerInv, CancelledOnce, Settled
<1> QED BY <1>1, <1>2, <1>3, PTL DEF CancelSpec, cancelAllVars

(***************************************************************************)
(* The service, the target order and the request keep to what they can be.  *)
(***************************************************************************)
THEOREM CancelTypesHold == CancelSpec => []CancelTypeOK
<1>1. CancelInit => CancelInv
  BY CancelInits
<1>2. CancelInv /\ [CancelNext]_cancelAllVars => CancelInv'
  BY CancelStep
<1>3. CancelInv => CancelTypeOK
  BY DEF CancelInv
<1> QED BY <1>1, <1>2, <1>3, PTL DEF CancelSpec, cancelAllVars
=============================================================================
