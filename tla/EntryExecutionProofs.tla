------------------------ MODULE EntryExecutionProofs ------------------------
(***************************************************************************)
(* Theorems about the execution of entry orders, for every set of tickets,  *)
(* sessions and executions: the threads use the journal only as             *)
(* ExecutionStore allows, so that its theorems hold of the service; at most *)
(* one create request leaves for an order; the journal and the commands of  *)
(* an order follow the exchange; and the service implements OrderPromise.   *)
(***************************************************************************)
EXTENDS EntryExecution, ExecutionStoreProofs

VisitLocations ==
  { "orders", "cancel", "cancelled", "cancelack", "find", "rest", "ack",
    "confirmfound", "fetch", "book", "refresh", "giveup", "confirmlost" }

ProcessLocations ==
  { "receive", "validate", "claim", "context", "risk", "reserve", "command",
    "create", "sent", "unknown", "accepted", "confirm", "receipt", "advance" }

(***************************************************************************)
(* What the loop relies on where it stands: which ticket it works on, which *)
(* epoch it was granted, that the answer it records is a status.            *)
(***************************************************************************)
LocalsInv ==
  /\ pc \in VisitLocations => cur \in Tickets
  /\ pc \in ProcessLocations => cur \in Tickets \ Cancels /\ cursor < Len(Outbox)
  /\ pc \in { "receive", "validate", "claim" } => grant \in 1..MaxEpoch
  /\ pc \in { "rest", "ack", "cancelack" } => answer \in RemoteStatuses

(***************************************************************************)
(* CreatedOnce is not inductive: a request leaves only where the loop has   *)
(* just reserved the order, and an order not yet reserved has had none.     *)
(***************************************************************************)
RequestInv ==
  /\ CreatedOnce
  /\ pc \in { "command", "create" } =>
       Reserved(EntryOf(cur)) /\ sent[EntryOf(cur)] = 0

\* The types of all but the journal.
RestTyped ==
  /\ sess \in Sessions /\ spent \in SUBSET Sessions
  /\ pc \in LoopLocations
  /\ cur \in Tickets \cup {NoTicket}
  /\ todo \in SUBSET Tickets
  /\ snap \in [submitting : BOOLEAN, aged : BOOLEAN, overdue : BOOLEAN]
  /\ answer \in ExchangeStatuses \cup { "SKIPPED", "UNKNOWN" }
  /\ batch \in SUBSET Execs
  /\ grant \in 0..MaxEpoch
  /\ cursor \in 0..Len(Outbox)
  /\ aged \in SUBSET Tickets /\ overdue \in SUBSET Tickets
  /\ order \in [Orders -> ExchangeStatuses]
  /\ trades \in [Orders -> SUBSET Execs]
  /\ inflight \in SUBSET Orders
  /\ sent \in [Orders -> Nat]
  /\ cpowner \in [Tickets -> Sessions \cup {NoSession}]
  /\ cpepoch \in [Tickets -> Nat]
  /\ cplive \in SUBSET Tickets

EntryInv == TypeOK /\ RestTyped /\ LocalsInv /\ RequestInv

\* The entry orders are links, each of its own ticket.
LEMMA OrderFacts ==
  /\ \A t \in Tickets : EntryOf(t) \in Orders
  /\ Orders \subseteq Links
  /\ \A l \in Orders : IsEntry(l) /\ TicketOf(l) \in Tickets
BY LinkFacts DEF Orders

\* The table hands out tickets of the outbox.
LEMMA NextFacts ==
  ASSUME cursor \in 0..Len(Outbox), cursor < Len(Outbox)
  PROVE  Next_(cursor) \in Tickets \ Cancels
<1>1. Outbox \in Seq(Tickets \ Cancels)
  BY OutboxAssumption
<1>2. cursor + 1 \in 1..Len(Outbox) /\ cursor + 1 \in Nat
  BY <1>1
<1> QED BY <1>1, <1>2 DEF Next_

-----------------------------------------------------------------------------
(* Every step of a thread is a step of the journal or leaves it alone *)

\* The journal as the service writes it for entry orders: nothing is cancelled
\* for a CANCEL ticket.
EntryReports ==
  \/ \E l \in Links : IsEntry(l) /\ RecordCancelRequested(l)
  \/ \E l \in Links, e \in Execs : RecordFill(e, l)
  \/ \E c \in Commands, status \in CommandStatuses : ConfirmCommand(c, status)
  \/ SavePosition

ServiceStep == TicketStep \/ SessionStep \/ OrderStep \/ EntryReports

\* A step of a visit is one transaction of the journal or none.
LEMMA RecoverIsStoreStep ==
  ASSUME TypeOK, RestTyped, LocalsInv, Recover
  PROVE  [ServiceStep]_storeVars
<1>1. CASE \/ Wake \/ ReadOrders \/ CancelOverdue \/ FindOrder \/ FetchExecutions
           \/ Refresh \/ VisitDone \/ Audited \/ \E t \in Tickets : ReadRecord(t)
  <2>1. UNCHANGED storeVars
    BY <1>1 DEF Wake, ReadOrders, CancelOverdue, FindOrder, FetchExecutions, Refresh,
                VisitDone, Audited, ReadRecord, Calls
  <2> QED BY <2>1
<1>2. CASE CancelRequested
  <2>1. RecordCancelRequested(EntryOf(cur)) /\ cur \in Tickets
    BY <1>2 DEF CancelRequested, LocalsInv, VisitLocations
  <2> QED BY <2>1, LinkFacts DEF ServiceStep, EntryReports
<1>3. CASE RestFound
  <2>1. RecordRestSubmission(EntryOf(cur), {EntryOf(cur)}) /\ cur \in Tickets
    BY <1>3 DEF RestFound, LocalsInv, VisitLocations
  <2> QED BY <2>1, LinkFacts DEF ServiceStep, OrderStep
<1>4. CASE AckFound
  <2>1. PICK ids \in SUBSET Links : AcknowledgeOrder(EntryOf(cur), answer, ids)
    BY <1>4 DEF AckFound
  <2>2. cur \in Tickets /\ answer \in RemoteStatuses
    BY <1>4 DEF AckFound, LocalsInv, VisitLocations
  <2> QED BY <2>1, <2>2, LinkFacts DEF ServiceStep, OrderStep
<1>5. CASE GiveUp
  <2>1. (UNCHANGED storeVars \/ Transition(cur, "FAILED")) /\ cur \in Tickets
    BY <1>5 DEF GiveUp, LocalsInv, VisitLocations
  <2> QED BY <2>1 DEF ServiceStep, TicketStep, UnfencedTargets
<1>6. CASE \E e \in Execs : BookFetched(e)
  <2>1. PICK e \in Execs : BookFetched(e)
    BY <1>6
  <2>2. UNCHANGED storeVars \/ RecordFill(e, EntryOf(cur))
    BY <2>1 DEF BookFetched
  <2>3. cur \in Tickets
    BY <2>1 DEF BookFetched, LocalsInv, VisitLocations
  <2> QED BY <2>2, <2>3, LinkFacts DEF ServiceStep, EntryReports
<1> QED BY <1>1, <1>2, <1>3, <1>4, <1>5, <1>6 DEF Recover

\* A step of polling is the queueing of a receipt or none.
LEMMA PollIsStoreStep ==
  ASSUME TypeOK, RestTyped, LocalsInv, Poll
  PROVE  [ServiceStep]_storeVars
<1>1. CASE \E t \in Tickets : FlushReceipt(t)
  BY <1>1 DEF FlushReceipt, ServiceStep, TicketStep
<1>2. CASE \/ Fetch \/ ClaimRefusedByPlane \/ PollDone
           \/ \E e \in 1..MaxEpoch : ClaimGrantedByPlane(e)
  <2>1. UNCHANGED storeVars
    BY <1>2 DEF Fetch, ClaimRefusedByPlane, PollDone, ClaimGrantedByPlane, Calls
  <2> QED BY <2>1
<1> QED BY <1>1, <1>2 DEF Poll

\* A step of processing a ticket is one transaction of the journal or none.
LEMMA ProcessIsStoreStep ==
  ASSUME TypeOK, RestTyped, LocalsInv, Process
  PROVE  [ServiceStep]_storeVars
<1>0. /\ sess \in Sessions
      /\ pc \in ProcessLocations => cur \in Tickets \ Cancels
  BY DEF RestTyped, LocalsInv
<1>1. CASE \/ CommandsReserved \/ CreateOrder \/ CreateAnswered \/ CreateFails
           \/ Confirmed \/ Advance
  <2>1. UNCHANGED storeVars
    BY <1>1 DEF CommandsReserved, CreateOrder, CreateAnswered, CreateFails, Confirmed,
                Advance, Calls
  <2> QED BY <2>1
<1>2. CASE ReceiveTicket
  BY <1>0, <1>2 DEF ReceiveTicket, ProcessLocations, ServiceStep, TicketStep
<1>3. CASE Validate
  BY <1>0, <1>3 DEF Validate, ProcessLocations, ServiceStep, TicketStep, UnfencedTargets
<1>4. CASE ClaimLocally
  <2>1. UNCHANGED storeVars \/ Claim(sess, cur, grant)
    BY <1>4 DEF ClaimLocally
  <2>2. cur \in Tickets /\ grant \in 1..MaxEpoch
    BY <1>0, <1>4 DEF ClaimLocally, ProcessLocations, LocalsInv
  <2> QED BY <1>0, <2>1, <2>2 DEF ServiceStep, SessionStep
<1>5. CASE ReadContext
  BY <1>5 DEF ReadContext, ServiceStep, EntryReports
<1>6. CASE RiskDecision \/ SizingRejects
  <2>1. PICK target \in { "RISK_APPROVED", "RISK_BLOCKED", "EXPIRED" } :
               FencedTransition(sess, cur, target)
    BY <1>6 DEF RiskDecision, SizingRejects
  <2>2. cur \in Tickets /\ target \in FencedTargets(cur)
    BY <1>0, <1>6 DEF RiskDecision, SizingRejects, ProcessLocations, FencedTargets
  <2> QED BY <1>0, <2>1, <2>2 DEF ServiceStep, SessionStep
<1>7. CASE ReserveEntry
  <2>1. UNCHANGED storeVars \/ ReserveOrder(sess, cur)
    BY <1>7 DEF ReserveEntry
  <2>2. cur \in Tickets \ Cancels
    BY <1>0, <1>7 DEF ReserveEntry, ProcessLocations
  <2> QED BY <1>0, <2>1, <2>2 DEF ServiceStep, SessionStep
<1>8. CASE RecordSubmission
  <2>1. RecordRestSubmission(EntryOf(cur), {EntryOf(cur)}) /\ cur \in Tickets
    BY <1>0, <1>8 DEF RecordSubmission, ProcessLocations
  <2> QED BY <2>1, LinkFacts DEF ServiceStep, OrderStep
<1>9. CASE BuildReceipt
  BY <1>0, <1>9 DEF BuildReceipt, ProcessLocations, ServiceStep, TicketStep
<1>10. CASE \E r \in CommandRoles : ReserveRole(r)
  <2>1. PICK r \in CommandRoles : ReserveCommand(sess, <<cur, r>>)
    BY <1>10 DEF ReserveRole
  <2>2. cur \in Tickets
    BY <1>0, <1>10 DEF ReserveRole, ProcessLocations
  <2> QED BY <1>0, <2>1, <2>2 DEF ServiceStep, SessionStep
<1>11. CASE \E r \in CommandRoles : ConfirmRole(r)
  <2>1. PICK r \in CommandRoles : ConfirmRole(r)
    BY <1>11
  <2>2. ConfirmCommand(<<cur, r>>, Outcome)
    BY <2>1 DEF ConfirmRole
  <2>3. <<cur, r>> \in Commands /\ Outcome \in CommandStatuses
    BY <1>0, <2>1 DEF ConfirmRole, LocalsInv, ProcessLocations, VisitLocations, Commands,
                      Outcome, CommandStatuses
  <2> QED BY <2>2, <2>3 DEF ServiceStep, EntryReports
<1> QED BY <1>1, <1>2, <1>3, <1>4, <1>5, <1>6, <1>7, <1>8, <1>9, <1>10, <1>11
        DEF Process

\* A message of the stream is one transaction of the journal.
LEMMA StreamIsStoreStep ==
  ASSUME TypeOK, RestTyped, Stream
  PROVE  [ServiceStep]_storeVars
<1>1. PICK l \in Orders : \/ \E status \in ExchangeStatuses : StreamOrder(l, status)
                          \/ \E e \in Execs : StreamExecution(l, e)
  BY DEF Stream
<1>2. l \in Links
  BY OrderFacts
<1>3. CASE \E status \in ExchangeStatuses : StreamOrder(l, status)
  <2>1. PICK status \in ExchangeStatuses, ids \in SUBSET Links :
               status \in Past(l) /\ AcknowledgeOrder(l, status, ids)
    BY <1>3 DEF StreamOrder
  <2>2. status \in RemoteStatuses
    BY <2>1 DEF Past, RestTyped, ExchangeStatuses, RemoteStatuses, FinalOrderStatuses
  <2> QED BY <1>2, <2>1, <2>2 DEF ServiceStep, OrderStep
<1>4. CASE \E e \in Execs : StreamExecution(l, e)
  BY <1>2, <1>4 DEF StreamExecution, ServiceStep, EntryReports
<1> QED BY <1>1, <1>3, <1>4

\* Outside the service, only time touches the journal: a lease expires.
LEMMA OutsideIsStoreStep ==
  ASSUME Outside
  PROVE  [ServiceStep]_storeVars
<1>1. CASE \E t \in Tickets : LocalLeaseExpires(t)
  BY <1>1 DEF LocalLeaseExpires, ServiceStep, TicketStep
<1>2. CASE \/ \E l \in Orders : \/ ExchangeReceives(l) \/ ExchangeCancels(l)
                               \/ \E e \in Execs : ExchangeTrades(l, e)
           \/ \E t \in Tickets : Age(t) \/ WaitsTooLong(t) \/ PlaneLeaseExpires(t)
           \/ \E s \in Sessions : Crash(s)
  <2>1. UNCHANGED storeVars
    BY <1>2 DEF ExchangeReceives, ExchangeCancels, ExchangeTrades, Age, WaitsTooLong,
                PlaneLeaseExpires, Crash, outsideOthers
  <2> QED BY <2>1
<1> QED BY <1>1, <1>2 DEF Outside

\* Each step of the service is one of these transactions, or none.
LEMMA IsServiceStep ==
  ASSUME TypeOK, RestTyped, LocalsInv, [Next]_vars
  PROVE  [ServiceStep]_storeVars
<1>1. CASE RaiseJournal \/ RaiseCall \/ UNCHANGED vars
  <2>1. UNCHANGED storeVars
    BY <1>1 DEF RaiseJournal, RaiseCall, Abort, vars
  <2> QED BY <2>1
<1> QED BY <1>1, RecoverIsStoreStep, PollIsStoreStep, ProcessIsStoreStep,
           StreamIsStoreStep, OutsideIsStoreStep DEF Next, Loop

\* Each step of the service is a step of its journal, or none.
LEMMA IsStoreStep ==
  ASSUME TypeOK, RestTyped, LocalsInv, [Next]_vars
  PROVE  [StoreNext]_storeVars
BY IsServiceStep DEF ServiceStep, EntryReports, StoreNext, ReportStep

-----------------------------------------------------------------------------
(* The invariant *)

\* The service starts in the invariant.
LEMMA EntryInit == Init => EntryInv
<1> SUFFICES ASSUME Init PROVE EntryInv
  OBVIOUS
<1>1. TypeOK
  BY TypeInit DEF Init
<1>2. Len(Outbox) \in Nat /\ MaxEpoch \in Nat
  BY OutboxAssumption, NumbersAssumption
<1>3. RestTyped
  BY <1>2 DEF Init, RestTyped, NoSnap, LoopLocations, ExchangeStatuses
<1>4. LocalsInv
  BY DEF Init, LocalsInv, VisitLocations, ProcessLocations
<1>5. RequestInv
  BY DEF Init, RequestInv, CreatedOnce
<1> QED BY <1>1, <1>3, <1>4, <1>5 DEF EntryInv

RestInv == RestTyped /\ LocalsInv /\ RequestInv

\* The locals of the loop have their types.
LoopTyped ==
  /\ pc \in LoopLocations
  /\ cur \in Tickets \cup {NoTicket}
  /\ todo \in SUBSET Tickets
  /\ snap \in [submitting : BOOLEAN, aged : BOOLEAN, overdue : BOOLEAN]
  /\ answer \in ExchangeStatuses \cup { "SKIPPED", "UNKNOWN" }
  /\ batch \in SUBSET Execs
  /\ grant \in 0..MaxEpoch

\* A loop that drops its locals has nothing to rely on.
LEMMA DropTyped ==
  ASSUME Drop, todo' \in SUBSET Tickets, pc' \in { "idle", "recover", "flush", "poll" }
  PROVE  LoopTyped' /\ LocalsInv'
<1>1. /\ cur' = NoTicket /\ answer' = "SKIPPED" /\ batch' = {} /\ grant' = 0
      /\ snap' = [submitting |-> FALSE, aged |-> FALSE, overdue |-> FALSE]
  BY DEF Drop, NoSnap
<1>2. pc' \in LoopLocations
  BY DEF LoopLocations
<1>3. snap' \in [submitting : BOOLEAN, aged : BOOLEAN, overdue : BOOLEAN]
  BY <1>1
<1>4. grant' \in 0..MaxEpoch
  BY <1>1, NumbersAssumption
<1>5. LoopTyped'
  BY <1>1, <1>2, <1>3, <1>4 DEF LoopTyped
<1>6. LocalsInv'
  BY DEF LocalsInv, VisitLocations, ProcessLocations
<1> QED BY <1>5, <1>6

\* Visits keep the locals typed and fit for where the loop stands.
LEMMA RecoverTyped ==
  ASSUME RestTyped, LocalsInv, Recover
  PROVE  LoopTyped' /\ LocalsInv'
<1>0. /\ LoopTyped /\ 0 \in 0..MaxEpoch
      /\ pc \in VisitLocations => cur \in Tickets
      /\ pc \in { "rest", "ack", "cancelack" } => answer \in RemoteStatuses
      /\ \A l \in Orders : order[l] \in ExchangeStatuses /\ trades[l] \in SUBSET Execs
      /\ \A t \in Tickets : EntryOf(t) \in Orders
  BY OrderFacts, NumbersAssumption DEF LocalsInv, RestTyped, LoopTyped
<1>1. CASE Wake \/ Audited
  <2>1. Drop /\ pc' \in { "recover", "flush" } /\ todo' \in SUBSET Tickets
    BY <1>1 DEF Wake, Audited
  <2> QED BY <2>1, DropTyped
<1>2. CASE \E t \in Tickets : ReadRecord(t)
  BY <1>0, <1>2 DEF ReadRecord, LoopTyped, LoopLocations, LocalsInv, VisitLocations,
                    ProcessLocations
<1>3. CASE ReadOrders \/ CancelRequested \/ RestFound \/ AckFound \/ GiveUp
  BY <1>0, <1>3 DEF ReadOrders, CancelRequested, RestFound, AckFound, GiveUp, Goto,
                    LoopTyped, LoopLocations, LocalsInv, VisitLocations, ProcessLocations,
                    RemoteStatuses
<1>4. CASE CancelOverdue
  BY <1>0, <1>4 DEF CancelOverdue, LoopTyped, LoopLocations, LocalsInv, VisitLocations,
                    ProcessLocations, ExchangeStatuses
<1>5. CASE FindOrder
  BY <1>0, <1>5 DEF FindOrder, LoopTyped, LoopLocations, LocalsInv, VisitLocations,
                    ProcessLocations, ExchangeStatuses, RemoteStatuses, FinalOrderStatuses
<1>6. CASE FetchExecutions \/ \E e \in Execs : BookFetched(e)
  BY <1>0, <1>6 DEF FetchExecutions, BookFetched, LoopTyped, LoopLocations, LocalsInv,
                    VisitLocations, ProcessLocations
<1>7. CASE Refresh \/ VisitDone
  <2>1. CASE Refresh /\ GivesUp(cur)
    <3>1. Goto("giveup") /\ pc \in VisitLocations
      BY <2>1 DEF Refresh, VisitLocations
    <3> QED BY <1>0, <3>1 DEF Goto, LoopTyped, LoopLocations, LocalsInv, ProcessLocations
  <2>2. CASE VisitDone \/ (Refresh /\ ~GivesUp(cur))
    <3>1. Drop /\ pc' = "recover" /\ todo' = todo \ {cur}
      BY <2>2 DEF Refresh, VisitDone
    <3>2. todo' \in SUBSET Tickets
      BY <1>0, <3>1 DEF LoopTyped
    <3> QED BY <3>1, <3>2, DropTyped
  <2> QED BY <1>7, <2>1, <2>2
<1> QED BY <1>1, <1>2, <1>3, <1>4, <1>5, <1>6, <1>7 DEF Recover

\* Polling keeps the locals and the cursor.
LEMMA PollTyped ==
  ASSUME RestTyped, LocalsInv, Poll
  PROVE  LoopTyped' /\ LocalsInv' /\ cursor' \in 0..Len(Outbox)
<1>0. /\ LoopTyped
      /\ cursor \in 0..Len(Outbox) /\ Len(Outbox) \in Nat /\ MaxEpoch \in Nat
  BY OutboxAssumption, NumbersAssumption DEF RestTyped, LoopTyped
<1>1. CASE Fetch \/ PollDone \/ ClaimRefusedByPlane \/ \E t \in Tickets : FlushReceipt(t)
  BY <1>0, <1>1 DEF Fetch, PollDone, ClaimRefusedByPlane, FlushReceipt, Goto, Calls, loopVars,
                    LoopTyped, LoopLocations, LocalsInv, VisitLocations, ProcessLocations
<1>2. CASE \E e \in 1..MaxEpoch : ClaimGrantedByPlane(e)
  <2>1. PICK e \in 1..MaxEpoch : ClaimGrantedByPlane(e)
    BY <1>2
  <2>2. cur' \in Tickets \ Cancels /\ cursor < Len(Outbox)
    BY <1>0, <2>1, NextFacts DEF ClaimGrantedByPlane
  <2> QED BY <1>0, <2>1, <2>2 DEF ClaimGrantedByPlane, LoopTyped, LoopLocations,
                                  LocalsInv, VisitLocations, ProcessLocations
<1> QED BY <1>1, <1>2 DEF Poll

\* Processing a ticket keeps the locals and the cursor.
LEMMA ProcessTyped ==
  ASSUME RestTyped, LocalsInv, Process
  PROVE  LoopTyped' /\ LocalsInv' /\ cursor' \in 0..Len(Outbox)
<1>0. /\ LoopTyped /\ 0 \in 0..MaxEpoch
      /\ cursor \in 0..Len(Outbox) /\ Len(Outbox) \in Nat
      /\ LocalsInv
  BY OutboxAssumption, NumbersAssumption DEF RestTyped, LoopTyped
<1>1. CASE ReceiveTicket \/ Validate \/ ClaimLocally \/ ReadContext
  BY <1>0, <1>1 DEF ReceiveTicket, Validate, ClaimLocally, ReadContext, AfterReceive, Goto,
                    LoopTyped, LoopLocations, LocalsInv, VisitLocations, ProcessLocations
<1>2. CASE RiskDecision \/ SizingRejects \/ ReserveEntry \/ CommandsReserved \/ CreateOrder
  BY <1>0, <1>2 DEF RiskDecision, SizingRejects, ReserveEntry, CommandsReserved, CreateOrder,
                    Goto, Calls, LoopTyped, LoopLocations, LocalsInv, VisitLocations,
                    ProcessLocations
<1>3. CASE \/ CreateAnswered \/ CreateFails \/ RecordSubmission \/ Confirmed \/ BuildReceipt
           \/ \E r \in CommandRoles : ReserveRole(r) \/ ConfirmRole(r)
  BY <1>0, <1>3 DEF CreateAnswered, CreateFails, RecordSubmission, Confirmed, BuildReceipt,
                    ReserveRole, ConfirmRole, Goto, Calls, loopVars, LoopTyped,
                    LoopLocations, LocalsInv, VisitLocations, ProcessLocations
<1>4. CASE Advance
  <2>1. Drop /\ pc' \in { "poll", "idle" } /\ todo' = {} /\ cursor' = cursor + 1
    BY <1>4 DEF Advance
  <2>2. cursor < Len(Outbox)
    BY <1>0, <1>4 DEF Advance, LocalsInv, ProcessLocations
  <2>3. cursor' \in 0..Len(Outbox)
    BY <1>0, <2>1, <2>2
  <2>4. LoopTyped' /\ LocalsInv'
    BY <2>1, DropTyped
  <2> QED BY <2>3, <2>4
<1> QED BY <1>1, <1>2, <1>3, <1>4 DEF Process

\* The threads beside the loop leave its locals alone, a crash drops them.
LEMMA OthersTyped ==
  ASSUME RestTyped, LocalsInv, RaiseJournal \/ RaiseCall \/ Stream \/ Outside \/ UNCHANGED vars
  PROVE  /\ LoopTyped' /\ LocalsInv' /\ cursor' = cursor
         /\ pc' \in { "command", "create" } => pc' = pc /\ cur' = cur
         /\ sent' = sent
<1>0. LoopTyped /\ 0 \in 0..MaxEpoch
  BY NumbersAssumption DEF RestTyped, LoopTyped
<1>1. CASE RaiseJournal \/ RaiseCall \/ \E s \in Sessions : Crash(s)
  <2>1. /\ Drop /\ pc' = "idle" /\ todo' = {}
        /\ cursor' = cursor /\ sent' = sent
    BY <1>1 DEF RaiseJournal, RaiseCall, Crash, Abort, exchVars
  <2>2. LoopTyped' /\ LocalsInv'
    BY <2>1, DropTyped
  <2> QED BY <2>1, <2>2
<1>2. CASE ~\E s \in Sessions : Crash(s)
  <2>1. CASE Stream \/ Outside \/ UNCHANGED vars
    <3>1. UNCHANGED <<loopVars, cursor, sent>>
      <4>1. CASE Stream
        BY <4>1 DEF Stream, StreamOrder, StreamExecution, streamOthers, exchVars
      <4>2. CASE Outside
        BY <1>2, <4>2 DEF Outside, ExchangeReceives, ExchangeCancels, ExchangeTrades, Age,
               WaitsTooLong, LocalLeaseExpires, PlaneLeaseExpires, outsideOthers, exchVars
      <4>3. CASE UNCHANGED vars
        BY <4>3 DEF vars, exchVars
      <4> QED BY <2>1, <4>1, <4>2, <4>3
    <3> QED BY <1>0, <3>1 DEF loopVars, LoopTyped, LocalsInv
  <2> QED BY <1>1, <2>1
<1> QED BY <1>1, <1>2

\* Where the loop gets to the place a request leaves from, and what leaves.
LEMMA RequestSteps ==
  ASSUME TypeOK, RestTyped, LocalsInv, RequestInv, Loop,
         \A l \in Links : Reserved(l) => Reserved(l)'
  PROVE  RequestInv'
<1>0. /\ \A l \in Orders : sent[l] \in Nat
      /\ \A t \in Tickets : EntryOf(t) \in Orders
      /\ Orders \subseteq Links
      /\ CreatedOnce
  BY OrderFacts DEF RestTyped, RequestInv
<1>1. CASE CreateOrder
  <2>1. cur \in Tickets /\ Reserved(EntryOf(cur)) /\ sent[EntryOf(cur)] = 0
    BY <1>1 DEF CreateOrder, LocalsInv, ProcessLocations, RequestInv
  <2>2. sent' = [sent EXCEPT ![EntryOf(cur)] = 1] /\ pc' = "sent"
    BY <1>1, <2>1 DEF CreateOrder, Goto
  <2> QED BY <1>0, <2>1, <2>2 DEF RequestInv, CreatedOnce, RestTyped
<1>2. CASE ~CreateOrder
  <2>1. sent' = sent
    BY <1>2 DEF Loop, Recover, Poll, Process, RaiseJournal, Abort, exchVars, Commits,
           Wake, ReadOrders, CancelOverdue, CancelRequested, FindOrder, RestFound, AckFound,
           FetchExecutions, Refresh, GiveUp, VisitDone, Audited, ReadRecord, BookFetched,
           FlushReceipt, ClaimGrantedByPlane, Fetch, ClaimRefusedByPlane, PollDone,
           ReceiveTicket, Validate, ClaimLocally, ReadContext, RiskDecision, SizingRejects,
           ReserveEntry, CommandsReserved, CreateAnswered, CreateFails, RecordSubmission,
           Confirmed, BuildReceipt, Advance, ReserveRole, ConfirmRole
  <2>2. CreatedOnce'
    BY <1>0, <2>1 DEF CreatedOnce
  <2>3. ASSUME pc' \in { "command", "create" }
        PROVE  (Reserved(EntryOf(cur)) /\ sent[EntryOf(cur)] = 0)'
    <3>1. \/ ReserveEntry /\ ~Reserved(EntryOf(cur)) /\ ReserveOrder(sess, cur)
          \/ pc \in { "command", "create" } /\ Goto(pc')
          \/ pc \in { "command", "create" } /\ UNCHANGED loopVars
      BY <1>2, <2>3 DEF Loop, Recover, Poll, Process, RaiseJournal, Abort, Goto, AfterReceive,
           Wake, ReadOrders, CancelOverdue, CancelRequested, FindOrder, RestFound, AckFound,
           FetchExecutions, Refresh, GiveUp, VisitDone, Audited, ReadRecord, BookFetched,
           FlushReceipt, ClaimGrantedByPlane, Fetch, ClaimRefusedByPlane, PollDone,
           ReceiveTicket, Validate, ClaimLocally, ReadContext, RiskDecision, SizingRejects,
           ReserveEntry, CommandsReserved, CreateAnswered, CreateFails, RecordSubmission,
           Confirmed, BuildReceipt, Advance, ReserveRole, ConfirmRole, loopVars
    <3>2. CASE ReserveEntry /\ ~Reserved(EntryOf(cur)) /\ ReserveOrder(sess, cur)
      <4>1. cur \in Tickets /\ cur' = cur
        BY <3>2, <2>3 DEF ReserveEntry, LocalsInv, ProcessLocations, Goto
      <4>2. sent[EntryOf(cur)] = 0
        BY <1>0, <3>2, <4>1 DEF CreatedOnce
      <4>3. Reserved(EntryOf(cur))'
        BY <1>0, <3>2, <4>1, LinkFacts DEF ReserveOrder, Reserved, TypeOK
      <4> QED BY <2>1, <4>1, <4>2, <4>3
    <3>3. CASE pc \in { "command", "create" } /\ cur' = cur
      <4>1. Reserved(EntryOf(cur)) /\ sent[EntryOf(cur)] = 0 /\ EntryOf(cur) \in Links
        BY <1>0, <3>3 DEF RequestInv, LocalsInv, ProcessLocations
      <4>2. Reserved(EntryOf(cur))'
        BY <3>3, <4>1
      <4> QED BY <2>1, <3>3, <4>1, <4>2
    <3> QED BY <3>1, <3>2, <3>3 DEF Goto, loopVars
  <2> QED BY <2>1, <2>2, <2>3 DEF RequestInv
<1> QED BY <1>1, <1>2

\* The other threads leave the loop and what it sent alone.
LEMMA RequestKept ==
  ASSUME TypeOK, RestTyped, LocalsInv, RequestInv,
         RaiseJournal \/ RaiseCall \/ Stream \/ Outside \/ UNCHANGED vars,
         \A l \in Links : Reserved(l) => Reserved(l)'
  PROVE  RequestInv'
<1>1. /\ pc' \in { "command", "create" } => pc' = pc /\ cur' = cur
      /\ sent' = sent
  BY OthersTyped
<1>2. CreatedOnce'
  BY <1>1, OrderFacts DEF RequestInv, CreatedOnce
<1>3. ASSUME pc' \in { "command", "create" }
      PROVE  (Reserved(EntryOf(cur)) /\ sent[EntryOf(cur)] = 0)'
  <2>1. Reserved(EntryOf(cur)) /\ sent[EntryOf(cur)] = 0 /\ EntryOf(cur) \in Links
    BY <1>1, <1>3, OrderFacts DEF RequestInv, LocalsInv, ProcessLocations
  <2>2. Reserved(EntryOf(cur))'
    BY <1>1, <1>3, <2>1
  <2> QED BY <1>1, <1>3, <2>1, <2>2
<1> QED BY <1>2, <1>3 DEF RequestInv

\* What the loop shares with the exchange, the control plane and the clock.
SharedTyped ==
  /\ sess \in Sessions /\ spent \in SUBSET Sessions
  /\ aged \in SUBSET Tickets /\ overdue \in SUBSET Tickets
  /\ order \in [Orders -> ExchangeStatuses]
  /\ trades \in [Orders -> SUBSET Execs]
  /\ inflight \in SUBSET Orders
  /\ sent \in [Orders -> Nat]
  /\ cpowner \in [Tickets -> Sessions \cup {NoSession}]
  /\ cpepoch \in [Tickets -> Nat]
  /\ cplive \in SUBSET Tickets

\* Each step keeps what is shared typed.
LEMMA SharedKept ==
  ASSUME RestTyped, LocalsInv, Next \/ UNCHANGED vars
  PROVE  SharedTyped'
<1>0. SharedTyped
  BY DEF RestTyped, SharedTyped
<1>1. ASSUME UNCHANGED <<order, trades, inflight, sent, cpowner, cpepoch, cplive, sess, spent>>,
             Refreshed \/ UNCHANGED clockVars
      PROVE  SharedTyped'
  BY <1>0, <1>1 DEF SharedTyped, Refreshed, clockVars
<1>2. CASE Recover
  BY <1>1, <1>2 DEF Recover, Commits, Calls, exchVars, cpVars, procVars,
       Wake, ReadOrders, CancelOverdue, CancelRequested, FindOrder, RestFound, AckFound,
       FetchExecutions, Refresh, GiveUp, VisitDone, Audited, ReadRecord, BookFetched
<1>3. CASE Poll
  <2>1. CASE \E e \in 1..MaxEpoch : ClaimGrantedByPlane(e)
    <3>1. PICK e \in 1..MaxEpoch : ClaimGrantedByPlane(e)
      BY <2>1
    <3>2. Next_(cursor) \in Tickets /\ e \in Nat
      BY <3>1, NextFacts, NumbersAssumption DEF ClaimGrantedByPlane, RestTyped
    <3>3. /\ UNCHANGED <<order, trades, inflight, sent, sess, spent, aged, overdue>>
          /\ cpowner' = [cpowner EXCEPT ![Next_(cursor)] = sess]
          /\ cpepoch' = [cpepoch EXCEPT ![Next_(cursor)] = e]
          /\ cplive' = cplive \cup {Next_(cursor)}
      BY <3>1 DEF ClaimGrantedByPlane, exchVars, procVars, clockVars
    <3> QED BY <1>0, <3>2, <3>3 DEF SharedTyped
  <2>2. CASE \/ Fetch \/ ClaimRefusedByPlane \/ PollDone
             \/ \E t \in Tickets : FlushReceipt(t)
    BY <1>1, <2>2 DEF Fetch, ClaimRefusedByPlane, PollDone, FlushReceipt, Commits, Calls,
         exchVars, cpVars, procVars, clockVars
  <2> QED BY <1>3, <2>1, <2>2 DEF Poll
<1>4. CASE Process
  <2>1. CASE CreateOrder
    <3>1. EntryOf(cur) \in Orders
      BY <2>1, OrderFacts DEF CreateOrder, LocalsInv, ProcessLocations
    <3>2. sent[EntryOf(cur)] + 1 \in Nat
      BY <1>0, <3>1 DEF SharedTyped
    <3> QED BY <1>0, <2>1, <3>1, <3>2 DEF CreateOrder, SharedTyped, Calls, clockVars, cpVars,
              procVars
  <2>2. CASE Process /\ ~CreateOrder
    BY <1>1, <2>2 DEF Process, Commits, Calls, exchVars, cpVars, procVars, ReceiveTicket,
         Validate, ClaimLocally, ReadContext, RiskDecision, SizingRejects,
         ReserveEntry, CommandsReserved, CreateAnswered, CreateFails, RecordSubmission,
         Confirmed, BuildReceipt, Advance, ReserveRole, ConfirmRole
  <2> QED BY <1>4, <2>1, <2>2
<1>5. CASE RaiseJournal \/ RaiseCall \/ Stream \/ UNCHANGED vars
  BY <1>1, <1>5 DEF RaiseJournal, RaiseCall, Abort, Stream, StreamOrder, StreamExecution,
       streamOthers, vars, exchVars, cpVars, procVars
<1>6. CASE Outside
  <2>1. CASE \E l \in Orders : ExchangeReceives(l)
    BY <1>0, <2>1 DEF ExchangeReceives, SharedTyped, ExchangeStatuses, outsideOthers,
                      procVars, clockVars, cpVars
  <2>2. CASE \E l \in Orders : ExchangeCancels(l) \/ \E e \in Execs : ExchangeTrades(l, e)
    BY <1>0, <2>2 DEF ExchangeCancels, ExchangeTrades, SharedTyped, ExchangeStatuses,
                      outsideOthers, procVars, clockVars, cpVars
  <2>3. CASE \E t \in Tickets : \/ Age(t) \/ WaitsTooLong(t)
                                \/ LocalLeaseExpires(t) \/ PlaneLeaseExpires(t)
    BY <1>0, <2>3 DEF Age, WaitsTooLong, LocalLeaseExpires, PlaneLeaseExpires, SharedTyped,
                      outsideOthers, procVars, clockVars, cpVars, exchVars
  <2>4. CASE \E s \in Sessions : Crash(s)
    BY <1>0, <2>4 DEF Crash, SharedTyped, clockVars, cpVars, exchVars
  <2> QED BY <1>6, <2>1, <2>2, <2>3, <2>4 DEF Outside
<1> QED BY <1>2, <1>3, <1>4, <1>5, <1>6 DEF Next, Loop

\* Each step of the service preserves the invariant.
LEMMA EntryStep == EntryInv /\ [Next]_vars => EntryInv'
<1> SUFFICES ASSUME EntryInv, [Next]_vars PROVE EntryInv'
  OBVIOUS
<1>0. TypeOK /\ RestTyped /\ LocalsInv /\ RequestInv
  BY DEF EntryInv
<1>1. [StoreNext]_storeVars
  BY <1>0, IsStoreStep
<1>2. TypeOK'
  BY <1>0, <1>1, TypeStep
<1>3. \A l \in Links : Reserved(l) => Reserved(l)'
  BY <1>0, <1>1, ReservedStays
<1>4. LoopTyped' /\ LocalsInv' /\ cursor' \in 0..Len(Outbox)
  <2>1. CASE Recover
    <3>1. cursor' = cursor
      BY <2>1 DEF Recover, Calls,
         Wake, ReadOrders, CancelOverdue, CancelRequested, FindOrder, RestFound, AckFound,
         FetchExecutions, Refresh, GiveUp, VisitDone, Audited, ReadRecord, BookFetched
    <3> QED BY <1>0, <2>1, <3>1, RecoverTyped DEF RestTyped
  <2>2. CASE ~Recover /\ ~Poll /\ ~Process
    BY <1>0, <2>2, OthersTyped DEF RestTyped, Next, Loop
  <2> QED BY <1>0, <2>1, <2>2, PollTyped, ProcessTyped
<1>5. SharedTyped'
  BY <1>0, SharedKept
<1>6. RestTyped'
  BY <1>4, <1>5 DEF RestTyped, LoopTyped, SharedTyped
<1>7. RequestInv'
  BY <1>0, <1>3, RequestSteps, RequestKept DEF Next
<1> QED BY <1>2, <1>4, <1>6, <1>7 DEF EntryInv

-----------------------------------------------------------------------------
(* The theorems *)

\* The invariant of the service holds in every reachable state.
THEOREM EntryInvariant == Spec => []EntryInv
<1>1. Init => EntryInv
  BY EntryInit
<1>2. EntryInv /\ [Next]_vars => EntryInv'
  BY EntryStep
<1> QED BY <1>1, <1>2, PTL DEF Spec

(***************************************************************************)
(* The state of the service has its types: among others, the loop works on  *)
(* a ticket wherever its code uses one, and the cursor stays in the outbox. *)
(***************************************************************************)
THEOREM EntryTypeCorrect == Spec => []EntryTypeOK
<1>1. EntryInv => EntryTypeOK
  BY DEF EntryInv, EntryTypeOK, RestTyped
<1> QED BY <1>1, EntryInvariant, PTL

(***************************************************************************)
(* At most one create request ever leaves for an entry order, and only for  *)
(* one that is journaled (submit_entry), across any number of crashes.      *)
(***************************************************************************)
THEOREM CreatedAtMostOnce == Spec => []CreatedOnce
<1>1. EntryInv => CreatedOnce
  BY DEF EntryInv, RequestInv
<1> QED BY <1>1, EntryInvariant, PTL

(***************************************************************************)
(* The service, its threads and its crashes implement ExecutionStore: each  *)
(* step is one transaction of the journal or leaves the journal alone.      *)
(***************************************************************************)
THEOREM ServiceImplementsStore == Spec => ImplementsStore
<1>1. Init => StoreInit
  BY DEF Init
<1>2. EntryInv /\ [Next]_vars => [StoreNext]_storeVars
  BY IsStoreStep DEF EntryInv
<1> QED BY <1>1, <1>2, EntryInvariant, PTL DEF Spec, ImplementsStore, StoreSpec

-----------------------------------------------------------------------------
(* The journal never runs ahead of the exchange *)

(***************************************************************************)
(* JournalFollowsExchange is not inductive: what the loop carries from a    *)
(* call into a later transaction must still be true of the exchange.  It    *)
(* is, because what the exchange has once reported stays in its past.       *)
(***************************************************************************)
CarriedInv ==
  /\ pc = "book" => batch \subseteq trades[EntryOf(cur)]
  /\ pc \in { "rest", "ack", "cancelack" } => answer \in Past(EntryOf(cur))
  /\ pc = "cancelled" /\ answer = "CANCELED" => answer \in Past(EntryOf(cur))
  /\ pc = "accepted" => order[EntryOf(cur)] # "NONE"

\* The exchange fills an order with its last lot, and trades only live orders.
ExchangeInv ==
  \A l \in Orders :
    /\ order[l] # "FILLED" => Cardinality(trades[l]) < Lots
    /\ order[l] = "NONE" => trades[l] = {}

FollowInv == CarriedInv /\ ExchangeInv /\ JournalFollowsExchange

-----------------------------------------------------------------------------
(* The exchange only moves forward *)

Forward ==
  \A l \in Orders :
    /\ trades[l] \subseteq trades'[l]
    /\ order[l] # "NONE" => order'[l] # "NONE"
    /\ order[l] \in { "FILLED", "CANCELED", "REJECTED" } => order'[l] = order[l]
    /\ order[l] = "NEW" => order'[l] # "REJECTED"
    /\ order'[l] \in ExchangeStatuses

\* What was in the past of an order stays there.
LEMMA PastGrows ==
  ASSUME Forward, NEW l \in Orders, order[l] \in ExchangeStatuses
  PROVE  Past(l) \subseteq Past(l)'
<1>1. order'[l] \in ExchangeStatuses
  BY DEF Forward
<1>2. CASE order[l] = "NONE"
  BY <1>2 DEF Past
<1>3. CASE order[l] = "NEW"
  <2>1. "NEW" \in Past(l)'
    BY <1>1, <1>3 DEF Forward, Past, ExchangeStatuses
  <2>2. Past(l) = { "NEW" }
    BY <1>3 DEF Past
  <2> QED BY <2>1, <2>2
<1>4. CASE order[l] \in { "FILLED", "CANCELED", "REJECTED" }
  BY <1>4 DEF Forward, Past
<1> QED BY <1>2, <1>3, <1>4 DEF ExchangeStatuses

\* What the exchange does, with its own invariant.
LEMMA ExchangeStep ==
  ASSUME RestTyped, ExchangeInv,
         \E l \in Orders : \/ ExchangeReceives(l) \/ ExchangeCancels(l)
                           \/ \E e \in Execs : ExchangeTrades(l, e)
  PROVE  Forward /\ ExchangeInv'
<1>0. /\ order \in [Orders -> ExchangeStatuses]
      /\ trades \in [Orders -> SUBSET Execs]
      /\ Lots \in Nat \ {0}
  BY NumbersAssumption DEF RestTyped
<1>1. CASE \E l \in Orders : ExchangeReceives(l) \/ ExchangeCancels(l)
  <2>1. trades' = trades
    BY <1>1 DEF ExchangeReceives, ExchangeCancels
  <2>2. PICK l \in Orders :
          \/ order[l] = "NONE" /\ order' = [order EXCEPT ![l] = "NEW"]
          \/ order[l] = "NONE" /\ order' = [order EXCEPT ![l] = "REJECTED"]
          \/ order[l] = "NEW" /\ order' = [order EXCEPT ![l] = "CANCELED"]
          \/ order' = order
    BY <1>0, <1>1 DEF ExchangeReceives, ExchangeCancels
  <2>3. Forward
    BY <1>0, <2>1, <2>2 DEF Forward, ExchangeStatuses
  <2>4. ExchangeInv'
    BY <1>0, <2>1, <2>2 DEF ExchangeInv
  <2> QED BY <2>3, <2>4
<1>2. CASE \E l \in Orders, e \in Execs : ExchangeTrades(l, e)
  <2>1. PICK l \in Orders, e \in Execs : ExchangeTrades(l, e)
    BY <1>2
  <2>2. /\ order[l] = "NEW" /\ e \notin trades[l]
        /\ trades' = [trades EXCEPT ![l] = @ \cup {e}]
        /\ order' = [order EXCEPT ![l] =
             IF Cardinality(trades[l]) + 1 = Lots THEN "FILLED" ELSE @]
    BY <2>1 DEF ExchangeTrades
  <2>3. Forward
    BY <1>0, <2>2 DEF Forward, ExchangeStatuses
  <2>4. Cardinality(trades[l] \cup {e}) = Cardinality(trades[l]) + 1
        /\ Cardinality(trades[l]) \in Nat
    <3>1. IsFiniteSet(trades[l])
      BY <1>0, FS_Subset, NumbersAssumption
    <3> QED BY <2>2, <3>1, FS_AddElement, FS_CardinalityType
  <2>5. Cardinality(trades[l]) < Lots
    BY <2>2 DEF ExchangeInv
  <2>6. order'[l] # "FILLED" => Cardinality(trades'[l]) < Lots
    BY <1>0, <2>2, <2>4, <2>5
  <2>7. ExchangeInv'
    BY <1>0, <2>2, <2>6 DEF ExchangeInv
  <2> QED BY <2>3, <2>7
<1> QED BY <1>1, <1>2

\* Only the exchange moves the exchange.
LEMMA ExchangeMoves ==
  ASSUME RestTyped, ExchangeInv, [Next]_vars
  PROVE  /\ Forward /\ ExchangeInv'
         /\ \/ UNCHANGED <<order, trades>>
            \/ UNCHANGED <<storeVars, loopVars>>
<1>1. CASE \E l \in Orders : \/ ExchangeReceives(l) \/ ExchangeCancels(l)
                             \/ \E e \in Execs : ExchangeTrades(l, e)
  <2>1. UNCHANGED <<storeVars, loopVars>>
    BY <1>1 DEF ExchangeReceives, ExchangeCancels, ExchangeTrades, outsideOthers
  <2> QED BY <1>1, <2>1, ExchangeStep
<1>2. CASE UNCHANGED <<order, trades>>
  BY <1>2 DEF Forward, ExchangeInv, RestTyped
<1>3. ASSUME Loop \/ RaiseCall \/ Stream \/ UNCHANGED vars
      PROVE  UNCHANGED <<order, trades>>
  BY <1>3 DEF Loop, Recover, Poll, Process, RaiseJournal, RaiseCall, Abort, Stream, StreamOrder,
       StreamExecution, streamOthers, vars, exchVars, Commits,
       Wake, ReadOrders, CancelOverdue, CancelRequested, FindOrder, RestFound, AckFound,
       FetchExecutions, Refresh, GiveUp, VisitDone, Audited, ReadRecord, BookFetched,
       FlushReceipt, ClaimGrantedByPlane, Fetch, ClaimRefusedByPlane, PollDone,
       ReceiveTicket, Validate, ClaimLocally, ReadContext, RiskDecision, SizingRejects,
       ReserveEntry, CommandsReserved, CreateOrder, CreateAnswered, CreateFails,
       RecordSubmission, Confirmed, BuildReceipt, Advance, ReserveRole, ConfirmRole
<1>4. ASSUME \/ \E t \in Tickets : \/ Age(t) \/ WaitsTooLong(t)
                                   \/ LocalLeaseExpires(t) \/ PlaneLeaseExpires(t)
             \/ \E s \in Sessions : Crash(s)
      PROVE  UNCHANGED <<order, trades>>
  BY <1>4 DEF Age, WaitsTooLong, LocalLeaseExpires, PlaneLeaseExpires, Crash, exchVars
<1> QED BY <1>1, <1>2, <1>3, <1>4 DEF Next, Outside

-----------------------------------------------------------------------------
(* What a step tells the journal about the exchange *)

Books == \E l \in Orders, e \in Execs : e \in trades[l] /\ RecordFill(e, l)

Acknowledges ==
  \E l \in Orders, ids \in SUBSET Links :
    \E status \in Past(l) : AcknowledgeOrder(l, status, ids)

Submits ==
  \E l \in Orders : order[l] # "NONE" /\ RecordRestSubmission(l, {l})

\* Nothing about executions, order ids, FILLED or CANCELLED.
Silent ==
  /\ UNCHANGED <<fills, oid>>
  /\ \A t \in Tickets :
       state'[t] = state[t] \/ state'[t] \notin { "FILLED", "CANCELLED" }

\* A transition to another state says nothing of the exchange.
LEMMA TransitionSilent ==
  ASSUME TypeOK, NEW t \in Tickets, NEW target,
         Transition(t, target), target \notin { "FILLED", "CANCELLED" }
  PROVE  Silent
BY DEF TypeOK, Transition, SetState, Silent, orderVars

\* What a visit writes, the exchange has told.
LEMMA RecoverTells ==
  ASSUME TypeOK, RestTyped, LocalsInv, CarriedInv, Recover
  PROVE  Books \/ Acknowledges \/ Submits \/ Silent
<1>0. \A t \in Tickets : EntryOf(t) \in Orders
  BY OrderFacts
<1>1. CASE \/ Wake \/ ReadOrders \/ CancelOverdue \/ FindOrder \/ FetchExecutions
           \/ Refresh \/ VisitDone \/ Audited \/ \E t \in Tickets : ReadRecord(t)
  <2>1. UNCHANGED storeVars
    BY <1>1 DEF Wake, ReadOrders, CancelOverdue, FindOrder, FetchExecutions, Refresh,
                VisitDone, Audited, ReadRecord, Calls
  <2> QED BY <2>1 DEF Silent, storeVars
<1>2. CASE CancelRequested
  BY <1>2 DEF CancelRequested, RecordCancelRequested, Silent
<1>3. CASE RestFound
  <2>1. cur \in Tickets /\ answer \in Past(EntryOf(cur))
    BY <1>3 DEF RestFound, LocalsInv, VisitLocations, CarriedInv
  <2>2. order[EntryOf(cur)] # "NONE"
    BY <2>1 DEF Past
  <2> QED BY <1>0, <1>3, <2>1, <2>2 DEF RestFound, Submits
<1>4. CASE AckFound
  <2>1. cur \in Tickets /\ answer \in Past(EntryOf(cur))
    BY <1>4 DEF AckFound, LocalsInv, VisitLocations, CarriedInv
  <2> QED BY <1>0, <1>4, <2>1 DEF AckFound, Acknowledges
<1>5. CASE GiveUp
  <2>1. (UNCHANGED storeVars \/ Transition(cur, "FAILED")) /\ cur \in Tickets
    BY <1>5 DEF GiveUp, LocalsInv, VisitLocations
  <2>2. UNCHANGED storeVars => Silent
    BY DEF Silent, storeVars
  <2> QED BY <2>1, <2>2, TransitionSilent
<1>6. CASE \E e \in Execs : BookFetched(e)
  <2>1. PICK e \in Execs : BookFetched(e)
    BY <1>6
  <2>2. cur \in Tickets /\ e \in trades[EntryOf(cur)]
    BY <2>1 DEF BookFetched, LocalsInv, VisitLocations, CarriedInv
  <2>3. UNCHANGED storeVars \/ RecordFill(e, EntryOf(cur))
    BY <2>1 DEF BookFetched
  <2> QED BY <1>0, <2>2, <2>3 DEF Books, Silent, storeVars
<1> QED BY <1>1, <1>2, <1>3, <1>4, <1>5, <1>6 DEF Recover

\* Of the processing of a ticket only a submission speaks of the exchange.
LEMMA ProcessTells ==
  ASSUME TypeOK, RestTyped, LocalsInv, CarriedInv, Process
  PROVE  Submits \/ Silent
<1>0. \/ cur \in Tickets /\ EntryOf(cur) \in Orders
      \/ pc \in { "unknown", "confirm", "confirmfound", "confirmlost" }
  BY OrderFacts DEF LocalsInv, ProcessLocations, Process, ReceiveTicket, Validate,
     ClaimLocally, ReadContext, RiskDecision, SizingRejects, ReserveEntry, CommandsReserved,
     CreateOrder, CreateAnswered, CreateFails, RecordSubmission, Confirmed, BuildReceipt,
     Advance, ReserveRole, ConfirmRole
<1>1. CASE \/ CommandsReserved \/ CreateOrder
           \/ CreateAnswered \/ CreateFails
           \/ Confirmed \/ Advance
           \/ BuildReceipt \/ ReadContext
           \/ \E r \in CommandRoles : ReserveRole(r) \/ ConfirmRole(r)
  <2>1. UNCHANGED <<state, fills, oid>>
    BY <1>1 DEF CommandsReserved, CreateOrder, CreateAnswered, CreateFails, Confirmed,
         Advance, Calls, BuildReceipt, EnqueueReceipt, ReadContext, SavePosition,
         ReserveRole, ReserveCommand, ConfirmRole, ConfirmCommand, orderVars, storeVars
  <2> QED BY <2>1 DEF Silent
<1>2. CASE ReceiveTicket
  <2>1. UNCHANGED storeVars \/ Receive(cur)
    BY <1>2 DEF ReceiveTicket
  <2> QED BY <2>1 DEF Receive, Silent, orderVars, storeVars
<1>3. CASE Validate \/ RiskDecision \/ SizingRejects
  <2>1. PICK target \in { "VALIDATED", "EXPIRED", "REJECTED", "RISK_APPROVED", "RISK_BLOCKED" } :
               Transition(cur, target)
    BY <1>3 DEF Validate, RiskDecision, SizingRejects, FencedTransition
  <2>2. cur \in Tickets
    BY <1>0, <1>3 DEF Validate, RiskDecision, SizingRejects
  <2> QED BY <2>1, <2>2, TransitionSilent
<1>4. CASE ClaimLocally
  <2>1. UNCHANGED storeVars \/ Claim(sess, cur, grant)
    BY <1>4 DEF ClaimLocally
  <2> QED BY <1>0, <1>4, <2>1 DEF Claim, SetState, Silent, orderVars, storeVars, TypeOK
<1>5. CASE ReserveEntry
  <2>1. UNCHANGED storeVars \/ ReserveOrder(sess, cur)
    BY <1>5 DEF ReserveEntry
  <2> QED BY <2>1 DEF ReserveOrder, SetState, Silent, storeVars, TypeOK
<1>6. CASE RecordSubmission
  <2>1. order[EntryOf(cur)] # "NONE" /\ EntryOf(cur) \in Orders
    BY <1>0, <1>6 DEF RecordSubmission, CarriedInv
  <2> QED BY <1>6, <2>1 DEF RecordSubmission, Submits
<1> QED BY <1>1, <1>2, <1>3, <1>4, <1>5, <1>6 DEF Process

\* What the stream writes, the exchange has told; the others say nothing.
LEMMA OthersTell ==
  ASSUME TypeOK, Poll \/ RaiseJournal \/ RaiseCall \/ Stream \/ Outside \/ UNCHANGED vars
  PROVE  Books \/ Acknowledges \/ Silent
<1>1. CASE Stream
  BY <1>1 DEF Stream, StreamOrder, StreamExecution, Books, Acknowledges
<1>2. CASE Poll \/ RaiseJournal \/ RaiseCall \/ UNCHANGED vars
  <2>1. UNCHANGED <<state, fills, oid>>
    BY <1>2 DEF Poll, FlushReceipt, EnqueueReceipt, Fetch, ClaimGrantedByPlane, PollDone,
         ClaimRefusedByPlane, RaiseJournal, RaiseCall, Abort, Calls, vars, orderVars, storeVars
  <2> QED BY <2>1 DEF Silent
<1>3. CASE Outside
  <2>1. UNCHANGED <<state, fills, oid>>
    BY <1>3 DEF Outside, ExchangeReceives, ExchangeCancels, ExchangeTrades, Age, WaitsTooLong,
         LocalLeaseExpires, LeaseExpires, PlaneLeaseExpires, Crash, outsideOthers, storeVars,
         orderVars
  <2> QED BY <2>1 DEF Silent
<1> QED BY <1>1, <1>2, <1>3

-----------------------------------------------------------------------------
(* The journal follows *)

\* Booking an execution that took place: the last lot fills the order too.
LEMMA BooksFollow ==
  ASSUME TypeOK, RestTyped, ExchangeInv, JournalFollowsExchange, Books,
         UNCHANGED <<order, trades>>
  PROVE  JournalFollowsExchange'
<1>1. PICK l \in Orders, e \in Execs : e \in trades[l] /\ RecordFill(e, l)
  BY DEF Books
<1> DEFINE booked == fills[l] \cup {e}
           t == TicketOf(l)
<1>2. t \in Tickets /\ l = EntryOf(t) /\ IsEntry(l) /\ l \in Links
  BY OrderFacts, LinkFacts
<1>3. booked \subseteq trades[l]
  BY <1>1, <1>2 DEF JournalFollowsExchange
<1>4. Cardinality(booked) >= Lots => order[l] = "FILLED"
  <2>1. IsFiniteSet(trades[l])
    BY FS_Subset, NumbersAssumption DEF RestTyped
  <2>2. Cardinality(booked) <= Cardinality(trades[l])
        /\ Cardinality(booked) \in Nat /\ Cardinality(trades[l]) \in Nat
    BY <1>3, <2>1, FS_Subset, FS_CardinalityType
  <2> QED BY <2>2, NumbersAssumption DEF ExchangeInv
<1>5. /\ fills' = [fills EXCEPT ![l] = booked]
      /\ state' = [state EXCEPT ![t] = FillTarget(booked)]
      /\ oid' \subseteq oid \cup {l}
  BY <1>1, <1>2, FillFacts DEF BookFill, Learn
<1>6. FillTarget(booked) = "FILLED" => order[l] = "FILLED"
  BY <1>4 DEF FillTarget
<1>7. FillTarget(booked) # "CANCELLED"
  BY DEF FillTarget
<1>8. order[l] # "NONE"
  BY <1>1 DEF ExchangeInv
<1> HIDE DEF booked, t
<1> QED BY <1>2, <1>3, <1>5, <1>6, <1>7, <1>8, OrderFacts, LinkFacts
        DEF JournalFollowsExchange, TypeOK

\* Taking over a status the exchange has reported.
LEMMA AcknowledgesFollow ==
  ASSUME TypeOK, RestTyped, JournalFollowsExchange, Acknowledges, UNCHANGED <<order, trades>>
  PROVE  JournalFollowsExchange'
<1>0. PICK l \in Orders, ids \in SUBSET Links :
        \E raw \in Past(l) : AcknowledgeOrder(l, raw, ids)
  BY DEF Acknowledges
<1>1. PICK raw \in Past(l) : AcknowledgeOrder(l, raw, ids)
  BY <1>0
<1> DEFINE t == TicketOf(l)
           target == AckTarget(l, Normalized(raw))
<1>2. t \in Tickets /\ l = EntryOf(t) /\ IsEntry(l)
  BY OrderFacts, LinkFacts
<1>3. order[l] # "NONE"
  BY <1>1 DEF Past
<1>4. raw \in { "NEW", "FILLED", "CANCELED", "REJECTED" } /\ (raw = "CANCELED" => order[l] = raw)
  BY <1>1 DEF Past, RestTyped, ExchangeStatuses
<1>5. target \in { "FILLED", "CANCELLED" } => target = state[t] \/ order[l] = "CANCELED"
  BY <1>4 DEF AckTarget, Normalized
<1>6. target = "FILLED" => state[t] = "FILLED"
  BY DEF AckTarget
<1>7. /\ fills' = fills
      /\ state' = [state EXCEPT ![t] = target]
      /\ oid' \subseteq oid \cup {l}
  BY <1>1 DEF AcknowledgeOrder, Learn
<1> HIDE DEF t, target
<1> QED BY <1>2, <1>3, <1>5, <1>6, <1>7, OrderFacts, LinkFacts
        DEF JournalFollowsExchange, TypeOK

\* An order that was answered is at the exchange.
LEMMA SubmitsFollow ==
  ASSUME TypeOK, JournalFollowsExchange, Submits, UNCHANGED <<order, trades>>
  PROVE  JournalFollowsExchange'
<1>1. PICK l \in Orders : order[l] # "NONE" /\ RecordRestSubmission(l, {l})
  BY DEF Submits
<1>2. /\ fills' = fills
      /\ state' = state \/ state' = [state EXCEPT ![TicketOf(l)] = "SUBMITTED"]
      /\ oid' \subseteq oid \cup {l}
  BY <1>1 DEF RecordRestSubmission, SetState, Learn
<1> QED BY <1>1, <1>2 DEF JournalFollowsExchange, TypeOK

\* The exchange moves forward, away from nothing the journal has recorded.
LEMMA SilentFollows ==
  ASSUME JournalFollowsExchange, Silent, Forward
  PROVE  JournalFollowsExchange'
<1> SUFFICES ASSUME NEW t \in Tickets
             PROVE  LET l == EntryOf(t) IN
                    /\ fills'[l] \subseteq trades'[l]
                    /\ state'[t] = "FILLED" => order'[l] = "FILLED"
                    /\ state'[t] = "CANCELLED" => order'[l] = "CANCELED"
                    /\ l \in oid' => order'[l] # "NONE"
  BY DEF JournalFollowsExchange, EntryOf
<1>1. EntryOf(t) \in Orders
  BY OrderFacts
<1> QED BY <1>1 DEF JournalFollowsExchange, Silent, Forward

-----------------------------------------------------------------------------
(* What the loop carries stays true *)

\* What the loop carries was true when it was read, and stays true.
LEMMA CarriedStep ==
  ASSUME RestTyped, LocalsInv, CarriedInv, Forward, [Next]_vars,
         UNCHANGED <<order, trades>> \/ UNCHANGED <<storeVars, loopVars>>
  PROVE  CarriedInv'
<1>0. /\ \A t \in Tickets : EntryOf(t) \in Orders
      /\ \A l \in Orders : order[l] \in ExchangeStatuses
  BY OrderFacts DEF RestTyped
<1>1. CASE UNCHANGED loopVars
  <2>1. CASE pc \in { "book", "rest", "ack", "cancelack", "cancelled", "accepted" }
    <3>1. cur \in Tickets /\ EntryOf(cur) \in Orders
      BY <1>0, <2>1 DEF LocalsInv, VisitLocations, ProcessLocations
    <3>2. Past(EntryOf(cur)) \subseteq Past(EntryOf(cur))'
      BY <1>0, <1>1, <3>1, PastGrows DEF loopVars, Past, EntryOf
    <3> QED BY <1>1, <3>1, <3>2 DEF CarriedInv, Forward, loopVars
  <2>2. CASE pc \notin { "book", "rest", "ack", "cancelack", "cancelled", "accepted" }
    BY <1>1, <2>2 DEF CarriedInv, loopVars
  <2> QED BY <2>1, <2>2
<1>2. CASE UNCHANGED <<order, trades>>
  <2>1. CASE CancelOverdue
    BY <1>2, <2>1 DEF CancelOverdue, CarriedInv, Past
  <2>2. CASE FindOrder
    BY <1>2, <2>2 DEF FindOrder, CarriedInv, Past
  <2>3. CASE \E e \in Execs : BookFetched(e)
    BY <1>2, <2>3 DEF BookFetched, CarriedInv
  <2>4. CASE FetchExecutions
    BY <1>2, <2>4 DEF FetchExecutions, CarriedInv
  <2>5. CASE CancelRequested \/ RestFound \/ AckFound
    BY <1>2, <2>5 DEF CancelRequested, RestFound, AckFound, Goto, CarriedInv, Past
  <2>6. CASE CreateAnswered
    BY <1>2, <2>6 DEF CreateAnswered, Goto, CarriedInv
  <2>7. CASE UNCHANGED loopVars \/ pc' \notin
               { "book", "rest", "ack", "cancelack", "cancelled", "accepted" }
    BY <1>1, <2>7 DEF CarriedInv
  <2>8. ASSUME ~CancelOverdue, ~FindOrder, ~\E e \in Execs : BookFetched(e), ~FetchExecutions,
               ~CancelRequested, ~RestFound, ~AckFound, ~CreateAnswered
        PROVE  UNCHANGED loopVars \/ pc' \notin
                 { "book", "rest", "ack", "cancelack", "cancelled", "accepted" }
    <3>1. CASE Loop \/ RaiseCall
      BY <2>8, <3>1 DEF Loop, Recover, Poll, Process, RaiseJournal, RaiseCall, Abort, Goto,
         AfterReceive, Wake, ReadOrders, Refresh, GiveUp, VisitDone, Audited, ReadRecord,
         FlushReceipt, ClaimGrantedByPlane, Fetch, ClaimRefusedByPlane, PollDone,
         ReceiveTicket, Validate, ClaimLocally, ReadContext, RiskDecision, SizingRejects,
         ReserveEntry, CommandsReserved, CreateOrder, CreateFails,
         RecordSubmission, Confirmed, BuildReceipt, Advance, ReserveRole, ConfirmRole
    <3>2. CASE Stream \/ UNCHANGED vars
      BY <3>2 DEF Stream, StreamOrder, StreamExecution, streamOthers, vars
    <3>3. CASE Outside
      BY <3>3 DEF Outside, ExchangeReceives, ExchangeCancels, ExchangeTrades, Age,
         WaitsTooLong, LocalLeaseExpires, PlaneLeaseExpires, Crash, outsideOthers
    <3> QED BY <3>1, <3>2, <3>3 DEF Next
  <2> QED BY <2>1, <2>2, <2>3, <2>4, <2>5, <2>6, <2>7, <2>8
<1> QED BY <1>1, <1>2

-----------------------------------------------------------------------------
\* Nothing is recorded at the start.
LEMMA FollowInit == Init => FollowInv
<1> SUFFICES ASSUME Init PROVE FollowInv
  OBVIOUS
<1>1. \A t \in Tickets : fills[EntryOf(t)] = {} /\ state[t] = "ABSENT" /\ oid = {}
  BY LinkFacts DEF Init, StoreInit
<1>2. JournalFollowsExchange
  BY <1>1, OrderFacts DEF Init, JournalFollowsExchange
<1>3. ExchangeInv
  BY FS_EmptySet, NumbersAssumption DEF Init, ExchangeInv
<1>4. CarriedInv
  BY DEF Init, CarriedInv
<1> QED BY <1>2, <1>3, <1>4 DEF FollowInv

\* Each step keeps the journal behind the exchange.
LEMMA FollowStep == EntryInv /\ FollowInv /\ [Next]_vars => FollowInv'
<1> SUFFICES ASSUME EntryInv, FollowInv, [Next]_vars PROVE FollowInv'
  OBVIOUS
<1>0. /\ TypeOK /\ RestTyped /\ LocalsInv
      /\ CarriedInv /\ ExchangeInv /\ JournalFollowsExchange
  BY DEF EntryInv, FollowInv
<1>1. /\ Forward /\ ExchangeInv'
      /\ UNCHANGED <<order, trades>> \/ UNCHANGED <<storeVars, loopVars>>
  BY <1>0, ExchangeMoves
<1>2. CarriedInv'
  BY <1>0, <1>1, CarriedStep
<1>3. Books \/ Acknowledges \/ Submits \/ Silent
  BY <1>0, RecoverTells, ProcessTells, OthersTell DEF Next, Loop
<1>4. UNCHANGED storeVars => Silent
  BY DEF Silent, storeVars
<1>5. JournalFollowsExchange'
  BY <1>0, <1>1, <1>3, <1>4, BooksFollow, AcknowledgesFollow, SubmitsFollow, SilentFollows
<1> QED BY <1>1, <1>2, <1>5 DEF FollowInv

(***************************************************************************)
(* Whatever is stale among the snapshots, answers and messages the journal  *)
(* is fed, it is never ahead of the exchange, across any number of crashes. *)
(***************************************************************************)
THEOREM JournalFollows == Spec => []JournalFollowsExchange
<1>1. Init => FollowInv
  BY FollowInit
<1>2. EntryInv /\ FollowInv /\ [Next]_vars => FollowInv'
  BY FollowStep
<1>3. FollowInv => JournalFollowsExchange
  BY DEF FollowInv
<1> QED BY <1>1, <1>2, <1>3, EntryInvariant, PTL DEF Spec

-----------------------------------------------------------------------------
(* The commands of an order *)

(***************************************************************************)
(* CommandsFollowOrder is not inductive: what makes it so is known where    *)
(* the loop stands.  The request leaves where the loop has seen every       *)
(* command reserved; commands are accepted where the exchange has answered  *)
(* about the order, and given up where their ticket was.                    *)
(***************************************************************************)
CommandInv ==
  /\ CommandsFollowOrder
  /\ pc = "create" => \A r \in CommandRoles : command[<<cur, r>>] # "NONE"
  /\ pc \in { "confirm", "confirmfound" } => order[EntryOf(cur)] # "NONE"
  /\ pc = "confirmlost" => state[cur] = "FAILED"

\* A failed ticket stays failed.
LEMMA FailedStays ==
  ASSUME TypeOK, [StoreNext]_storeVars
  PROVE  \A t \in Tickets : state[t] = "FAILED" => state'[t] = "FAILED"
<1> SUFFICES ASSUME NEW t \in Tickets, state[t] = "FAILED"
             PROVE  state'[t] = "FAILED"
  OBVIOUS
<1>1. CASE Quiet
  BY <1>1, TableClosed DEF Quiet, QuietTicket, QuietState, TERMINAL_STATES
<1>2. CASE \E l \in Links, e \in Execs : RecordFill(e, l)
  <2>1. PICK l \in Links, e \in Execs : RecordFill(e, l)
    BY <1>2
  <2>2. PICK target \in { "FILLED", "PARTIALLY_FILLED" } : BookFill(e, l, target)
    BY <2>1, FillFacts
  <2>3. ~can_transition("FAILED", target)
    BY <2>2, TableClosed DEF TERMINAL_STATES
  <2> QED BY <2>2, <2>3 DEF BookFill, TypeOK
<1> QED BY <1>1, <1>2, StepCases

\* The loop alone writes commands: it reserves them or confirms them.
LEMMA CommandSteps ==
  ASSUME [Next]_vars
  PROVE  \/ command' = command
         \/ \E r \in CommandRoles : ReserveRole(r) \/ ConfirmRole(r)
<1>1. CASE Recover \/ Poll
  BY <1>1 DEF Recover, Poll, Calls, storeVars, orderVars, Wake, ReadOrders, CancelOverdue,
       CancelRequested, RecordCancelRequested, FindOrder, RestFound, RecordRestSubmission,
       AckFound, AcknowledgeOrder, FetchExecutions, Refresh, GiveUp, Transition, VisitDone,
       Audited, ReadRecord, BookFetched, RecordFill, BookFill, FlushReceipt, EnqueueReceipt,
       Fetch, ClaimGrantedByPlane, ClaimRefusedByPlane, PollDone
<1>2. CASE Process
  BY <1>2 DEF Process, Calls, storeVars, orderVars, ReceiveTicket, Receive, Validate,
       Transition, ClaimLocally, Claim, ReadContext, SavePosition, RiskDecision,
       FencedTransition, SizingRejects, ReserveEntry, ReserveOrder, CommandsReserved,
       CreateOrder, CreateAnswered, CreateFails, RecordSubmission, RecordRestSubmission,
       Confirmed, BuildReceipt, EnqueueReceipt, Advance
<1>3. CASE RaiseJournal \/ RaiseCall \/ Stream \/ UNCHANGED vars
  BY <1>3 DEF RaiseJournal, RaiseCall, Abort, Stream, StreamOrder, AcknowledgeOrder,
       StreamExecution, RecordFill, BookFill, vars, storeVars
<1>4. CASE Outside
  BY <1>4 DEF Outside, ExchangeReceives, ExchangeCancels, ExchangeTrades, Age, WaitsTooLong,
       LocalLeaseExpires, LeaseExpires, PlaneLeaseExpires, Crash, outsideOthers, storeVars
<1> QED BY <1>1, <1>2, <1>3, <1>4 DEF Next, Loop

\* A request leaves from one place.
LEMMA SentSteps ==
  ASSUME [Next]_vars
  PROVE  sent' = sent \/ CreateOrder
BY DEF Next, Loop, Recover, Poll, Process, RaiseJournal, RaiseCall, Abort, exchVars, Commits,
       Wake, ReadOrders, CancelOverdue, CancelRequested, FindOrder, RestFound, AckFound,
       FetchExecutions, Refresh, GiveUp, VisitDone, Audited, ReadRecord, BookFetched,
       FlushReceipt, ClaimGrantedByPlane, Fetch, ClaimRefusedByPlane, PollDone,
       ReceiveTicket, Validate, ClaimLocally, ReadContext, RiskDecision, SizingRejects,
       ReserveEntry, CommandsReserved, CreateAnswered, CreateFails, RecordSubmission,
       Confirmed, BuildReceipt, Advance, ReserveRole, ConfirmRole,
       Stream, StreamOrder, StreamExecution, streamOthers, vars,
       Outside, ExchangeReceives, ExchangeCancels, ExchangeTrades, Age, WaitsTooLong,
       LocalLeaseExpires, PlaneLeaseExpires, Crash

\* How the loop gets to where commands are relied on.
LEMMA CommandPlaces ==
  ASSUME [Next]_vars, pc' \in { "create", "confirm", "confirmfound", "confirmlost" }
  PROVE  /\ cur' = cur
         /\ \/ pc' = pc
            \/ pc' = "create" /\ CommandsReserved
            \/ pc' = "confirm" /\ RecordSubmission
            \/ pc' = "confirmfound" /\ AckFound
            \/ pc' = "confirmlost" /\ GiveUp
<1>1. CASE Loop \/ RaiseCall
  BY <1>1 DEF Loop, Recover, Poll, Process, RaiseJournal, RaiseCall, Abort, Goto,
       AfterReceive, loopVars, Wake, ReadOrders, CancelOverdue, CancelRequested, FindOrder,
       RestFound, AckFound, FetchExecutions, Refresh, GiveUp, VisitDone, Audited, ReadRecord,
       BookFetched, FlushReceipt, ClaimGrantedByPlane, Fetch, ClaimRefusedByPlane, PollDone,
       ReceiveTicket, Validate, ClaimLocally, ReadContext, RiskDecision, SizingRejects,
       ReserveEntry, CommandsReserved, CreateOrder, CreateAnswered, CreateFails,
       RecordSubmission, Confirmed, BuildReceipt, Advance, ReserveRole, ConfirmRole
<1>2. CASE Stream \/ UNCHANGED vars
  BY <1>2 DEF Stream, StreamOrder, StreamExecution, streamOthers, vars, loopVars
<1>3. CASE Outside
  BY <1>3 DEF Outside, ExchangeReceives, ExchangeCancels, ExchangeTrades, Age, WaitsTooLong,
       LocalLeaseExpires, PlaneLeaseExpires, Crash, outsideOthers, loopVars
<1> QED BY <1>1, <1>2, <1>3 DEF Next

\* There are no commands and no requests at the start.
LEMMA CommandInit == Init => CommandInv
<1> SUFFICES ASSUME Init PROVE CommandInv
  OBVIOUS
<1>1. \A t \in Tickets, r \in CommandRoles : command[<<t, r>>] = "NONE"
  BY DEF Init, StoreInit, Commands
<1>2. \A t \in Tickets : sent[EntryOf(t)] = 0
  BY OrderFacts DEF Init
<1> QED BY <1>1, <1>2 DEF Init, CommandInv, CommandsFollowOrder

\* Each step keeps the commands behind their order.
LEMMA CommandStep == EntryInv /\ FollowInv /\ CommandInv /\ [Next]_vars => CommandInv'
<1> SUFFICES ASSUME EntryInv, FollowInv, CommandInv, [Next]_vars PROVE CommandInv'
  OBVIOUS
<1>0. /\ TypeOK /\ RestTyped /\ LocalsInv /\ RequestInv
      /\ CarriedInv /\ ExchangeInv
      /\ \A t \in Tickets : EntryOf(t) \in Orders
  BY OrderFacts DEF EntryInv, FollowInv
<1>1. [StoreNext]_storeVars /\ Forward
  BY <1>0, IsStoreStep, ExchangeMoves
<1>2. \A t \in Tickets : state[t] = "FAILED" => state'[t] = "FAILED"
  BY <1>0, <1>1, FailedStays
<1>3. pc \in { "unknown", "create", "command", "confirm", "confirmfound", "confirmlost" } =>
        cur \in Tickets
  BY <1>0 DEF LocalsInv, VisitLocations, ProcessLocations
<1>4. \A t \in Tickets, r \in CommandRoles :
        \/ command'[<<t, r>>] = command[<<t, r>>]
        \/ t = cur /\ pc = "command" /\ command'[<<t, r>>] = "RESERVED"
        \/ /\ t = cur /\ pc \in { "unknown", "confirm", "confirmfound", "confirmlost" }
           /\ command'[<<t, r>>] = Outcome
  <2> SUFFICES ASSUME NEW q \in CommandRoles, ReserveRole(q) \/ ConfirmRole(q),
                      NEW t \in Tickets, NEW r \in CommandRoles
               PROVE  \/ command'[<<t, r>>] = command[<<t, r>>]
                      \/ t = cur /\ pc = "command" /\ command'[<<t, r>>] = "RESERVED"
                      \/ /\ t = cur /\ pc \in { "unknown", "confirm", "confirmfound", "confirmlost" }
                         /\ command'[<<t, r>>] = Outcome
    BY CommandSteps
  <2>1. <<t, r>> \in Commands /\ (<<t, r>> = <<cur, q>> => t = cur)
    BY DEF Commands
  <2> QED BY <1>0, <2>1 DEF ReserveRole, ReserveCommand, ConfirmRole, ConfirmCommand, TypeOK
<1>5. Outcome \in { "UNKNOWN", "FAILED", "REST_ACCEPTED" }
      /\ (Outcome = "FAILED" => pc = "confirmlost")
      /\ (Outcome = "REST_ACCEPTED" => pc \notin { "unknown", "confirmlost" })
  BY DEF Outcome
<1>6. \A t \in Tickets, r \in CommandRoles :
        command[<<t, r>>] # "NONE" => command'[<<t, r>>] # "NONE"
  BY <1>4, <1>5
<1>7. CommandsFollowOrder'
  <2> SUFFICES ASSUME NEW t \in Tickets, NEW r \in CommandRoles
               PROVE  /\ sent'[EntryOf(t)] > 0 => command'[<<t, r>>] # "NONE"
                      /\ command'[<<t, r>>] = "REST_ACCEPTED" => order'[EntryOf(t)] # "NONE"
                      /\ command'[<<t, r>>] = "FAILED" => state'[t] = "FAILED"
    BY DEF CommandsFollowOrder, EntryOf
  <2>0. /\ sent[EntryOf(t)] > 0 => command[<<t, r>>] # "NONE"
        /\ command[<<t, r>>] = "REST_ACCEPTED" => order[EntryOf(t)] # "NONE"
        /\ command[<<t, r>>] = "FAILED" => state[t] = "FAILED"
    BY DEF CommandInv, CommandsFollowOrder
  <2>1. sent'[EntryOf(t)] > 0 => command'[<<t, r>>] # "NONE"
    <3>1. CASE sent' = sent
      BY <1>6, <2>0, <3>1
    <3>2. CASE CreateOrder /\ EntryOf(t) = EntryOf(cur)
      BY <1>6, <3>2 DEF CreateOrder, CommandInv, EntryOf
    <3>3. CASE CreateOrder /\ EntryOf(t) # EntryOf(cur)
      BY <1>0, <1>6, <2>0, <3>3 DEF CreateOrder, RestTyped
    <3> QED BY <3>1, <3>2, <3>3, SentSteps
  <2>2. command'[<<t, r>>] = "REST_ACCEPTED" => order'[EntryOf(t)] # "NONE"
    BY <1>0, <1>1, <1>4, <1>5, <2>0 DEF Forward, CommandInv
  <2>3. command'[<<t, r>>] = "FAILED" => state'[t] = "FAILED"
    BY <1>2, <1>4, <1>5, <2>0 DEF CommandInv
  <2> QED BY <2>1, <2>2, <2>3
<1>8. ASSUME pc' = "create"
      PROVE  \A r \in CommandRoles : command'[<<cur', r>>] # "NONE"
  <2>1. cur' = cur /\ (pc = "create" \/ CommandsReserved)
    BY <1>8, CommandPlaces
  <2>2. \A r \in CommandRoles : command[<<cur, r>>] # "NONE"
    BY <2>1 DEF CommandInv, CommandsReserved
  <2>3. cur \in Tickets
    BY <1>3, <2>1 DEF CommandsReserved
  <2> QED BY <1>6, <2>1, <2>2, <2>3
<1>9. ASSUME pc' \in { "confirm", "confirmfound" }
      PROVE  order'[EntryOf(cur')] # "NONE"
  <2>1. cur' = cur /\ (pc' = pc \/ RecordSubmission \/ AckFound)
    BY <1>9, CommandPlaces
  <2>2. cur \in Tickets
    BY <1>0, <1>9, <2>1 DEF RecordSubmission, AckFound, LocalsInv, VisitLocations,
                            ProcessLocations
  <2>3. order[EntryOf(cur)] # "NONE"
    BY <1>0, <1>9, <2>1 DEF CommandInv, RecordSubmission, AckFound, CarriedInv, Past
  <2> QED BY <1>0, <1>1, <2>1, <2>2, <2>3 DEF Forward
<1>10. ASSUME pc' = "confirmlost"
       PROVE  state'[cur'] = "FAILED"
  <2>1. cur' = cur /\ (pc = "confirmlost" \/ GiveUp)
    BY <1>10, CommandPlaces
  <2>2. cur \in Tickets
    BY <1>0, <2>1 DEF GiveUp, LocalsInv, VisitLocations
  <2>3. CASE GiveUp
    BY <1>0, <2>1, <2>2, <2>3 DEF GiveUp, Transition, SetState, TypeOK, storeVars
  <2>4. CASE pc = "confirmlost"
    BY <1>2, <2>1, <2>2, <2>4 DEF CommandInv
  <2> QED BY <2>1, <2>3, <2>4
<1> QED BY <1>7, <1>8, <1>9, <1>10 DEF CommandInv, EntryOf

(***************************************************************************)
(* The commands of an order are reserved when its request leaves, accepted  *)
(* only if the exchange has the order, and fail only with their ticket, for *)
(* any commands, tickets and crashes.                                       *)
(***************************************************************************)
THEOREM CommandsFollow == Spec => []CommandsFollowOrder
<1>1. Init => FollowInv /\ CommandInv
  BY FollowInit, CommandInit
<1>2. EntryInv /\ FollowInv /\ CommandInv /\ [Next]_vars => FollowInv' /\ CommandInv'
  BY FollowStep, CommandStep
<1>3. CommandInv => CommandsFollowOrder
  BY DEF CommandInv
<1> QED BY <1>1, <1>2, <1>3, EntryInvariant, PTL DEF Spec

-----------------------------------------------------------------------------
(* The service keeps its promise *)

(***************************************************************************)
(* The refinement relies on what the other invariants say of the journal,   *)
(* and on two facts of its own: the exchange has nothing that was not sent, *)
(* and the ticket whose request is about to leave is being submitted, since *)
(* nothing reported of an order that was not sent can move it.              *)
(***************************************************************************)
PromiseInv ==
  /\ \A l \in Orders : l \in inflight \/ order[l] # "NONE" => sent[l] > 0
  /\ pc \in { "command", "create" } => state[cur] = "SUBMITTING"

\* Nothing was sent at the start.
LEMMA PromiseInit == Init => PromiseInv
BY DEF Init, PromiseInv

\* How the loop gets to the request.
LEMMA RequestPlaces ==
  ASSUME [Next]_vars, pc' \in { "command", "create" }
  PROVE  /\ cur' = cur
         /\ \/ pc \in { "command", "create" }
            \/ pc = "reserve" /\ ReserveOrder(sess, cur)
<1>1. CASE Loop \/ RaiseCall
  BY <1>1 DEF Loop, Recover, Poll, Process, RaiseJournal, RaiseCall, Abort, Goto,
       AfterReceive, loopVars, Wake, ReadOrders, CancelOverdue, CancelRequested, FindOrder,
       RestFound, AckFound, FetchExecutions, Refresh, GiveUp, VisitDone, Audited, ReadRecord,
       BookFetched, FlushReceipt, ClaimGrantedByPlane, Fetch, ClaimRefusedByPlane, PollDone,
       ReceiveTicket, Validate, ClaimLocally, ReadContext, RiskDecision, SizingRejects,
       ReserveEntry, CommandsReserved, CreateOrder, CreateAnswered, CreateFails,
       RecordSubmission, Confirmed, BuildReceipt, Advance, ReserveRole, ConfirmRole
<1>2. CASE Stream \/ UNCHANGED vars
  BY <1>2 DEF Stream, StreamOrder, StreamExecution, streamOthers, vars, loopVars
<1>3. CASE Outside
  BY <1>3 DEF Outside, ExchangeReceives, ExchangeCancels, ExchangeTrades, Age, WaitsTooLong,
       LocalLeaseExpires, PlaneLeaseExpires, Crash, outsideOthers, loopVars
<1> QED BY <1>1, <1>2, <1>3 DEF Next

\* While the loop is at the request, the stream alone moves a ticket.
LEMMA RequestQuiet ==
  ASSUME [Next]_vars, pc \in { "command", "create" }
  PROVE  state' = state \/ Stream
<1>1. CASE Loop \/ RaiseCall
  BY <1>1 DEF Loop, Recover, Poll, Process, RaiseJournal, RaiseCall, Abort, Calls, storeVars,
       Wake, ReadOrders, CancelOverdue, CancelRequested, FindOrder,
       RestFound, AckFound, FetchExecutions, Refresh, GiveUp, VisitDone, Audited, ReadRecord,
       BookFetched, FlushReceipt, ClaimGrantedByPlane, Fetch, ClaimRefusedByPlane, PollDone,
       ReceiveTicket, Validate, ClaimLocally, ReadContext, RiskDecision, SizingRejects,
       ReserveEntry, CommandsReserved, CreateOrder, CreateAnswered, CreateFails,
       RecordSubmission, Confirmed, BuildReceipt, Advance, ReserveRole, ReserveCommand,
       ConfirmRole, ConfirmCommand
<1>2. CASE UNCHANGED vars
  BY <1>2 DEF vars, storeVars
<1>3. CASE Outside
  BY <1>3 DEF Outside, ExchangeReceives, ExchangeCancels, ExchangeTrades, Age, WaitsTooLong,
       LocalLeaseExpires, LeaseExpires, PlaneLeaseExpires, Crash, outsideOthers, storeVars
<1> QED BY <1>1, <1>2, <1>3 DEF Next

\* What the exchange gets, from what was sent.
LEMMA ReceivedSteps ==
  ASSUME RestTyped, [Next]_vars
  PROVE  \A l \in Orders :
           l \in inflight' \/ order'[l] # "NONE" =>
             l \in inflight \/ order[l] # "NONE" \/ (CreateOrder /\ l = EntryOf(cur))
<1>1. CASE \E l \in Orders : \/ ExchangeReceives(l) \/ ExchangeCancels(l)
                             \/ \E e \in Execs : ExchangeTrades(l, e)
  BY <1>1 DEF ExchangeReceives, ExchangeCancels, ExchangeTrades, RestTyped
<1>2. CASE CreateOrder
  BY <1>2 DEF CreateOrder
<1>3. CASE UNCHANGED <<order, inflight>>
  BY <1>3
<1>4. ASSUME Loop \/ RaiseCall \/ Stream \/ UNCHANGED vars, ~CreateOrder
      PROVE  UNCHANGED <<order, inflight>>
  BY <1>4 DEF Loop, Recover, Poll, Process, RaiseJournal, RaiseCall, Abort, Stream, StreamOrder,
       StreamExecution, streamOthers, vars, exchVars, Commits,
       Wake, ReadOrders, CancelOverdue, CancelRequested, FindOrder, RestFound, AckFound,
       FetchExecutions, Refresh, GiveUp, VisitDone, Audited, ReadRecord, BookFetched,
       FlushReceipt, ClaimGrantedByPlane, Fetch, ClaimRefusedByPlane, PollDone,
       ReceiveTicket, Validate, ClaimLocally, ReadContext, RiskDecision, SizingRejects,
       ReserveEntry, CommandsReserved, CreateAnswered, CreateFails,
       RecordSubmission, Confirmed, BuildReceipt, Advance, ReserveRole, ConfirmRole
<1>5. ASSUME \/ \E t \in Tickets : \/ Age(t) \/ WaitsTooLong(t)
                                   \/ LocalLeaseExpires(t) \/ PlaneLeaseExpires(t)
             \/ \E s \in Sessions : Crash(s)
      PROVE  UNCHANGED <<order, inflight>>
  BY <1>5 DEF Age, WaitsTooLong, LocalLeaseExpires, PlaneLeaseExpires, Crash, exchVars
<1> QED BY <1>1, <1>2, <1>3, <1>4, <1>5 DEF Next, Outside

\* A message about other orders leaves a ticket alone.
LEMMA StreamElsewhere ==
  ASSUME TypeOK, ExchangeInv, Stream, NEW t \in Tickets, order[EntryOf(t)] = "NONE"
  PROVE  state'[t] = state[t]
<1>1. PICK l \in Orders : \/ \E status \in ExchangeStatuses : StreamOrder(l, status)
                          \/ \E e \in Execs : StreamExecution(l, e)
  BY DEF Stream
<1>2. l = EntryOf(TicketOf(l)) /\ TicketOf(l) \in Tickets /\ l \in Links
  BY OrderFacts, LinkFacts
<1>3. l # EntryOf(t)
  BY <1>1, OrderFacts DEF StreamOrder, StreamExecution, Past, ExchangeInv
<1>4. TicketOf(l) # t
  BY <1>2, <1>3
<1>5. CASE \E status \in ExchangeStatuses : StreamOrder(l, status)
  BY <1>4, <1>5 DEF StreamOrder, AcknowledgeOrder, TypeOK
<1>6. CASE \E e \in Execs : StreamExecution(l, e)
  <2>1. PICK e \in Execs : RecordFill(e, l)
    BY <1>6 DEF StreamExecution
  <2>2. PICK target : BookFill(e, l, target)
    BY <1>2, <2>1, FillFacts
  <2> QED BY <1>4, <2>2 DEF BookFill, TypeOK
<1> QED BY <1>1, <1>5, <1>6

\* Each step keeps the invariant.
LEMMA PromiseStep == EntryInv /\ FollowInv /\ PromiseInv /\ [Next]_vars => PromiseInv'
<1> SUFFICES ASSUME EntryInv, FollowInv, PromiseInv, [Next]_vars PROVE PromiseInv'
  OBVIOUS
<1>0. /\ TypeOK /\ RestTyped /\ LocalsInv /\ RequestInv /\ ExchangeInv
      /\ \A t \in Tickets : EntryOf(t) \in Orders
      /\ \A l \in Orders : sent[l] \in Nat
  BY OrderFacts DEF EntryInv, FollowInv, RestTyped
<1>1. ASSUME NEW l \in Orders, l \in inflight' \/ order'[l] # "NONE"
      PROVE  sent'[l] > 0
  <2>1. CASE sent' = sent
    <3>1. l \in inflight \/ order[l] # "NONE" \/ (CreateOrder /\ l = EntryOf(cur))
      BY <1>0, <1>1, ReceivedSteps
    <3>2. CASE CreateOrder /\ l = EntryOf(cur)
      BY <1>0, <2>1, <3>2 DEF CreateOrder, RestTyped
    <3> QED BY <2>1, <3>1, <3>2 DEF PromiseInv
  <2>2. CASE CreateOrder
    <3>1. sent'[l] = IF l = EntryOf(cur) THEN sent[l] + 1 ELSE sent[l]
      BY <1>0, <2>2 DEF CreateOrder, RestTyped
    <3>2. l # EntryOf(cur) => l \in inflight \/ order[l] # "NONE"
      BY <1>0, <1>1, ReceivedSteps
    <3> QED BY <1>0, <3>1, <3>2 DEF PromiseInv
  <2> QED BY <2>1, <2>2, SentSteps
<1>2. ASSUME pc' \in { "command", "create" }
      PROVE  state'[cur'] = "SUBMITTING"
  <2>1. /\ cur' = cur
        /\ \/ pc \in { "command", "create" }
           \/ pc = "reserve" /\ ReserveOrder(sess, cur)
    BY <1>2, RequestPlaces
  <2>2. cur \in Tickets
    BY <1>0, <2>1 DEF LocalsInv, ProcessLocations
  <2>3. CASE ReserveOrder(sess, cur)
    BY <1>0, <2>1, <2>2, <2>3 DEF ReserveOrder, SetState, TypeOK
  <2>4. CASE pc \in { "command", "create" }
    <3>1. state[cur] = "SUBMITTING" /\ sent[EntryOf(cur)] = 0
      BY <1>0, <2>4 DEF PromiseInv, RequestInv
    <3>2. order[EntryOf(cur)] = "NONE"
      BY <1>0, <2>2, <3>1 DEF PromiseInv
    <3>3. state'[cur] = state[cur]
      BY <1>0, <2>2, <2>4, <3>2, RequestQuiet, StreamElsewhere
    <3> QED BY <2>1, <3>1, <3>3
  <2> QED BY <2>1, <2>3, <2>4
<1> QED BY <1>1, <1>2 DEF PromiseInv
-----------------------------------------------------------------------------
(* Phases *)

\* What a phase may become when nothing is booked.
Advances(t) ==
  \/ Phase(t)' = Phase(t)
  \/ Phase(t) = "PENDING" /\ Phase(t)' \in { "REFUSED", "WORKING" }
  \/ Phase(t) = "WORKING" /\ Phase(t)' = "CLOSED"

\* The state of a ticket and the journal row of its entry order.
Kept(t) ==
  /\ \/ state'[t] = state[t]
     \/ state[t] = "ABSENT" /\ state'[t] = "RECEIVED"
  /\ Reserved(EntryOf(t))' <=> Reserved(EntryOf(t))

\* Without a fill a ticket is refused, taken or closed, and only once.
LEMMA QuietAdvances ==
  ASSUME TypeOK, JournalInv, Quiet, NEW t \in Tickets
  PROVE  Advances(t)
<1>0. /\ QuietTicket(t) /\ QuietOrder(EntryOf(t))
      /\ IsEntry(EntryOf(t)) /\ TicketOf(EntryOf(t)) = t
      /\ Reserved(EntryOf(t)) => state[t] \in EntryStates
      /\ EntryOf(t)' = EntryOf(t)
  BY LinkFacts DEF Quiet, JournalInv, JournaledBeforeWorking, EntryStates, EntryOf
<1>1. CASE Reserved(EntryOf(t))
  <2>1. Reserved(EntryOf(t))'
    BY <1>0, <1>1 DEF QuietOrder, Reserved
  <2>2. state[t] \notin WorkingStates => state'[t] = state[t]
    BY <1>0, <1>1, TableClosed DEF QuietTicket, QuietState, EntryStates, TERMINAL_STATES
  <2> QED BY <1>1, <2>1, <2>2 DEF Advances, Phase
<1>2. CASE ~Reserved(EntryOf(t)) /\ ~Reserved(EntryOf(t))'
  <2>1. state[t] \in TERMINAL_STATES => state'[t] \in TERMINAL_STATES
    BY <1>0, TableClosed DEF QuietTicket, QuietState, TERMINAL_STATES
  <2> QED BY <1>2, <2>1 DEF Advances, Phase
<1>3. CASE ~Reserved(EntryOf(t)) /\ Reserved(EntryOf(t))'
  <2>1. state'[t] = "SUBMITTING"
    BY <1>0, <1>3 DEF QuietOrder, Reserved
  <2>2. state[t] \notin TERMINAL_STATES
    BY <1>0, <2>1, TableClosed DEF QuietTicket, QuietState, TERMINAL_STATES
  <2> QED BY <1>3, <2>1, <2>2 DEF Advances, Phase, WorkingStates
<1> QED BY <1>1, <1>2, <1>3

\* A kept ticket stays in its phase.
LEMMA KeptPhase ==
  ASSUME TypeOK, JournalInv, NEW t \in Tickets, Kept(t)
  PROVE  Phase(t)' = Phase(t)
<1>1. Reserved(EntryOf(t)) => state[t] # "ABSENT"
  BY DEF JournalInv, JournaledBeforeWorking, WorkingStates
<1> QED BY <1>1 DEF Kept, Phase, TERMINAL_STATES

\* A transaction of the service is about one ticket, but that a new ticket
\* supersedes another.
LEMMA OneTicket ==
  ASSUME TypeOK, ServiceStep
  PROVE  \/ \A u \in Tickets : Kept(u)
         \/ \E t \in Tickets : \A u \in Tickets : u = t \/ Kept(u)
<1>0. \A u \in Tickets : EntryOf(u)' = EntryOf(u) /\ EntryOf(u) \in Links
  BY LinkFacts DEF EntryOf
<1>1. ASSUME NEW t \in Tickets,
             \A u \in Tickets : u = t \/ state'[u] = state[u],
             \A u \in Tickets : u = t \/ (Reserved(EntryOf(u))' <=> Reserved(EntryOf(u)))
      PROVE  \E v \in Tickets : \A u \in Tickets : u = v \/ Kept(u)
  BY <1>1 DEF Kept
<1>2. CASE TicketStep
  <2>1. PICK t \in Tickets : \/ Receive(t)
                             \/ \E target \in UnfencedTargets : Transition(t, target)
                             \/ LeaseExpires(t) \/ EnqueueReceipt(t)
    BY <1>2 DEF TicketStep
  <2>2. ostatus' = ostatus
    BY <2>1 DEF Receive, Transition, LeaseExpires, EnqueueReceipt, orderVars
  <2>3. \A u \in Tickets : Reserved(EntryOf(u))' <=> Reserved(EntryOf(u))
    BY <1>0, <2>2 DEF Reserved
  <2>4. CASE Receive(t)
    <3>1. \A u \in Tickets : u = t \/ u = Supersedes[t] \/ Kept(u)
      BY <2>3, <2>4 DEF Receive, Superseded, Kept
    <3>2. Kept(t)
      BY <2>3, <2>4 DEF Receive, Exists, Kept
    <3>3. CASE Supersedes[t] \in Tickets
      BY <3>1, <3>2, <3>3
    <3>4. CASE Supersedes[t] \notin Tickets
      BY <3>1, <3>2, <3>4
    <3> QED BY <3>3, <3>4
  <2>5. CASE ~Receive(t)
    <3>1. \A u \in Tickets : u = t \/ state'[u] = state[u]
      BY <2>1, <2>5 DEF Transition, SetState, LeaseExpires, EnqueueReceipt, TypeOK
    <3> QED BY <1>1, <2>3, <3>1
  <2> QED BY <2>4, <2>5
<1>3. CASE SessionStep
  <2>1. PICK s \in Sessions, t \in Tickets :
          \/ \E target \in FencedTargets(t) : FencedTransition(s, t, target)
          \/ \E e \in 1..MaxEpoch : Claim(s, t, e)
          \/ ClaimOperation(s, t)
          \/ \E r \in CommandRoles : ReserveCommand(s, <<t, r>>)
          \/ ReserveOrder(s, t)
          \/ \E r \in ExitRoles : ReserveExitOrder(s, <<t, r>>)
    BY <1>3 DEF SessionStep
  <2>2. \A u \in Tickets : u = t \/ state'[u] = state[u]
    BY <2>1 DEF FencedTransition, Transition, SetState, Claim, ClaimOperation, ReserveCommand,
         ReserveOrder, ReserveExitOrder, TypeOK
  <2>3. \A u \in Tickets : u = t \/ ostatus'[EntryOf(u)] = ostatus[EntryOf(u)]
    <3>1. CASE ReserveOrder(s, t)
      BY <1>0, <3>1, LinkFacts DEF ReserveOrder, TypeOK
    <3>2. CASE \E r \in ExitRoles : ReserveExitOrder(s, <<t, r>>)
      BY <1>0, <3>2, LinkFacts DEF ReserveExitOrder, TypeOK
    <3> QED BY <2>1, <3>1, <3>2 DEF FencedTransition, Transition, Claim, ClaimOperation,
              ReserveCommand, orderVars
  <2> QED BY <1>0, <1>1, <2>2, <2>3 DEF Reserved
<1>4. CASE OrderStep
  <2>1. PICK l \in Links, ids \in SUBSET Links :
          \/ RecordRestSubmission(l, ids) \/ RecordExitSubmission(l, ids)
          \/ \E status \in RemoteStatuses : AcknowledgeOrder(l, status, ids)
    BY <1>4 DEF OrderStep
  <2>2. TicketOf(l) \in Tickets
    BY LinkFacts
  <2>3. \A u \in Tickets : u = TicketOf(l) \/ state'[u] = state[u]
    BY <2>1, <2>2 DEF RecordRestSubmission, RecordExitSubmission, AcknowledgeOrder, SetState,
         TypeOK
  <2>4. \A k \in Links : k = l \/ ostatus'[k] = ostatus[k]
    BY <2>1 DEF RecordRestSubmission, RecordExitSubmission, AcknowledgeOrder, TypeOK
  <2>5. \A u \in Tickets : u = TicketOf(l) \/ EntryOf(u) # l
    BY LinkFacts
  <2> QED BY <1>0, <1>1, <2>2, <2>3, <2>4, <2>5 DEF Reserved
<1>5. CASE EntryReports
  <2>1. CASE \E l \in Links : RecordCancelRequested(l) \/ \E e \in Execs : RecordFill(e, l)
    <3>1. PICK l \in Links : RecordCancelRequested(l) \/ \E e \in Execs : RecordFill(e, l)
      BY <2>1
    <3>2. TicketOf(l) \in Tickets
      BY LinkFacts
    <3>3. /\ \A u \in Tickets : u = TicketOf(l) \/ state'[u] = state[u]
          /\ \A k \in Links : k = l \/ ostatus'[k] = ostatus[k]
      <4>1. CASE RecordCancelRequested(l)
        BY <4>1 DEF RecordCancelRequested, TypeOK
      <4>2. CASE \E e \in Execs : RecordFill(e, l)
        <5>1. PICK e \in Execs : RecordFill(e, l)
          BY <4>2
        <5>2. PICK target : BookFill(e, l, target)
          BY <5>1, FillFacts
        <5> QED BY <3>2, <5>2 DEF BookFill, TypeOK
      <4> QED BY <3>1, <4>1, <4>2
    <3>4. \A u \in Tickets : u = TicketOf(l) \/ EntryOf(u) # l
      BY LinkFacts
    <3> QED BY <1>0, <1>1, <3>2, <3>3, <3>4 DEF Reserved
  <2>2. CASE (\E c \in Commands, status \in CommandStatuses : ConfirmCommand(c, status))
             \/ SavePosition
    <3>1. state' = state /\ ostatus' = ostatus
      BY <2>2 DEF ConfirmCommand, SavePosition, orderVars
    <3>2. \A u \in Tickets : Kept(u)
      BY <1>0, <3>1 DEF Kept, Reserved
    <3> QED BY <3>2
  <2> QED BY <1>5, <2>1, <2>2 DEF EntryReports
<1> QED BY <1>2, <1>3, <1>4, <1>5 DEF ServiceStep

-----------------------------------------------------------------------------
\* Without a fill or a request the service advances one ticket or none.
LEMMA QuietPromise ==
  ASSUME TypeOK, JournalInv, [ServiceStep]_storeVars, Quiet, sent' = sent
  PROVE  [Promise!Next]_(Promise!vars)
<1> DEFINE phase == [t \in Tickets |-> Phase(t)]
<1>0. /\ \A t \in Tickets : Advances(t)
      /\ UNCHANGED <<[t \in Tickets |-> sent[EntryOf(t)]], [t \in Tickets |-> fills[EntryOf(t)]]>>
  BY QuietAdvances DEF Quiet, EntryOf
<1>1. CASE \A u \in Tickets : Kept(u)
  <2>1. phase' = phase
    BY <1>1, KeptPhase
  <2> QED BY <1>0, <2>1 DEF Promise!vars
<1>2. CASE \E t \in Tickets : \A u \in Tickets : u = t \/ Kept(u)
  <2>1. PICK t \in Tickets : \A u \in Tickets : u = t \/ Kept(u)
    BY <1>2
  <2>2. \A u \in Tickets : u = t \/ Phase(u)' = Phase(u)
    BY <2>1, KeptPhase
  <2>3. phase' = [phase EXCEPT ![t] = Phase(t)']
    BY <2>2
  <2>4. Advances(t)
    BY <1>0
  <2>5. CASE Phase(t)' = Phase(t)
    <3>1. phase' = phase
      BY <2>2, <2>5
    <3> QED BY <1>0, <3>1 DEF Promise!vars
  <2>6. CASE Phase(t) = "PENDING" /\ Phase(t)' = "REFUSED"
    <3>1. Promise!Refuse(t)
      BY <1>0, <2>3, <2>6 DEF Promise!Refuse
    <3> QED BY <3>1 DEF Promise!Next
  <2>7. CASE Phase(t) = "PENDING" /\ Phase(t)' = "WORKING"
    <3>1. Promise!Take(t)
      BY <1>0, <2>3, <2>7 DEF Promise!Take
    <3> QED BY <3>1 DEF Promise!Next
  <2>8. CASE Phase(t) = "WORKING" /\ Phase(t)' = "CLOSED"
    <3>1. Promise!Close(t)
      BY <1>0, <2>3, <2>8 DEF Promise!Close
    <3> QED BY <3>1 DEF Promise!Next
  <2> QED BY <2>4, <2>5, <2>6, <2>7, <2>8 DEF Advances
<1>3. CASE UNCHANGED storeVars
  <2>1. \A u \in Tickets : Kept(u)
    BY <1>3 DEF storeVars, Kept, Reserved, EntryOf
  <2> QED BY <1>1, <2>1
<1> QED BY <1>1, <1>2, <1>3, OneTicket

\* A request leaves for a ticket that is worked and has had none.
LEMMA AskPromise ==
  ASSUME RestTyped, LocalsInv, RequestInv, PromiseInv, CreateOrder
  PROVE  Promise!Next
<1>1. /\ cur \in Tickets /\ EntryOf(cur) \in Orders
      /\ Reserved(EntryOf(cur)) /\ sent[EntryOf(cur)] = 0 /\ state[cur] = "SUBMITTING"
  BY OrderFacts DEF CreateOrder, LocalsInv, ProcessLocations, RequestInv, PromiseInv
<1>2. Phase(cur) = "WORKING"
  BY <1>1 DEF Phase, WorkingStates
<1>3. UNCHANGED storeVars
  BY DEF CreateOrder, Calls
<1>4. UNCHANGED <<[t \in Tickets |-> Phase(t)], [t \in Tickets |-> fills[EntryOf(t)]]>>
  BY <1>3 DEF storeVars, Phase, Reserved, EntryOf
<1>5. \A t \in Tickets : sent'[EntryOf(t)] = IF t = cur THEN 1 ELSE sent[EntryOf(t)]
  BY <1>1, OrderFacts, LinkFacts DEF CreateOrder, RestTyped
<1>6. Promise!Ask(cur)
  BY <1>1, <1>2, <1>4, <1>5 DEF Promise!Ask, EntryOf
<1> QED BY <1>1, <1>6 DEF Promise!Next

\* An execution is booked once, and on an order that was requested.
LEMMA BookPromise ==
  ASSUME TypeOK, JournalInv, RestTyped, RequestInv, ExchangeInv, PromiseInv, Books,
         sent' = sent
  PROVE  Promise!Next
<1>1. PICK l \in Orders, e \in Execs : e \in trades[l] /\ RecordFill(e, l)
  BY DEF Books
<1>2. l \in Links /\ IsEntry(l) /\ TicketOf(l) \in Tickets /\ l = EntryOf(TicketOf(l))
  BY OrderFacts, LinkFacts
<1>3. PICK target \in { "FILLED", "PARTIALLY_FILLED" } : BookFill(e, l, target)
  BY <1>1, <1>2, FillFacts
<1> DEFINE t == TicketOf(l)
           phase == [u \in Tickets |-> Phase(u)]
<1>4. sent[l] = 1
  BY <1>1 DEF ExchangeInv, PromiseInv, RequestInv, CreatedOnce, RestTyped
<1>5. /\ Reserved(l)
      /\ ostatus' = [ostatus EXCEPT ![l] = target]
      /\ state' = [state EXCEPT ![t] = target]
      /\ fills' = [fills EXCEPT ![l] = @ \cup {e}]
      /\ \A k \in Links : e \notin fills[k]
  BY <1>2, <1>3 DEF BookFill, KnownExec
<1>6. \A u \in Tickets : EntryOf(u) \in Links /\ EntryOf(u)' = EntryOf(u) /\ (EntryOf(u) = l => u = t)
  BY LinkFacts DEF EntryOf
<1>7. Reserved(l)'
  BY <1>2, <1>5 DEF Reserved, TypeOK
<1>8. Phase(t) \in { "WORKING", "CLOSED" } /\ Phase(t)' \in { "WORKING", "CLOSED" }
  BY <1>2, <1>5, <1>6, <1>7 DEF Phase
<1>9. \A u \in Tickets : u = t \/ Phase(u)' = Phase(u)
  <2> SUFFICES ASSUME NEW u \in Tickets, u # t
               PROVE  Phase(u)' = Phase(u)
    OBVIOUS
  <2>1. state'[u] = state[u] /\ ostatus'[EntryOf(u)] = ostatus[EntryOf(u)]
    BY <1>2, <1>5, <1>6 DEF TypeOK
  <2> QED BY <1>6, <2>1 DEF Phase, Reserved
<1>10. phase' = [phase EXCEPT ![t] = Phase(t)']
  BY <1>9
<1>11. \A u \in Tickets :
         fills'[EntryOf(u)] = IF u = t THEN fills[EntryOf(u)] \cup {e} ELSE fills[EntryOf(u)]
  BY <1>2, <1>5, <1>6 DEF TypeOK
<1> HIDE DEF t
<1>12. t \in Tickets /\ l = EntryOf(t)
  BY <1>2 DEF t
<1>13. Promise!Book(t, e)
  <2>1. [u \in Tickets |-> fills'[EntryOf(u)]] =
          [[u \in Tickets |-> fills[EntryOf(u)]] EXCEPT ![t] = @ \cup {e}]
    BY <1>11, <1>12
  <2>2. \E p \in { "WORKING", "CLOSED" } : phase' = [phase EXCEPT ![t] = p]
    BY <1>8, <1>10
  <2>3. [u \in Tickets |-> Phase(u)][t] \in { "WORKING", "CLOSED" }
        /\ [u \in Tickets |-> sent[EntryOf(u)]][t] = 1
    BY <1>4, <1>8, <1>12
  <2>4. \A u \in Tickets : e \notin [v \in Tickets |-> fills[EntryOf(v)]][u]
    BY <1>5, <1>6
  <2>5. UNCHANGED [u \in Tickets |-> sent[EntryOf(u)]]
    BY DEF EntryOf
  <2> QED BY <2>1, <2>2, <2>3, <2>4, <2>5 DEF Promise!Book, EntryOf
<1> QED BY <1>1, <1>12, <1>13 DEF Promise!Next

\* Each step of the service is one of the promise or none.
LEMMA IsPromiseStep ==
  ASSUME EntryInv, JournalInv, FollowInv, PromiseInv, [Next]_vars
  PROVE  [Promise!Next]_(Promise!vars)
<1>0. /\ TypeOK /\ RestTyped /\ LocalsInv /\ RequestInv
      /\ CarriedInv /\ ExchangeInv
  BY DEF EntryInv, FollowInv
<1>1. [ServiceStep]_storeVars
  BY <1>0, IsServiceStep
<1>2. CASE CreateOrder
  BY <1>0, <1>2, AskPromise
<1>3. CASE sent' = sent
  <2>1. Books \/ fills' = fills
    <3>1. Books \/ Acknowledges \/ Submits \/ Silent
      BY <1>0, RecoverTells, ProcessTells, OthersTell DEF Next, Loop
    <3>2. Acknowledges \/ Submits \/ Silent => fills' = fills
      BY DEF Acknowledges, Submits, Silent, AcknowledgeOrder, RecordRestSubmission
    <3> QED BY <3>1, <3>2
  <2>2. CASE Books
    BY <1>0, <1>3, <2>2, BookPromise
  <2>3. CASE fills' = fills
    <3>1. ASSUME NEW l \in Links, NEW e \in Execs, RecordFill(e, l)
          PROVE  FALSE
      <4>1. PICK target \in { "FILLED", "PARTIALLY_FILLED" } : BookFill(e, l, target)
        BY <3>1, FillFacts
      <4>2. e \notin fills[l] /\ e \in fills'[l]
        BY <1>0, <4>1 DEF BookFill, KnownExec, TypeOK
      <4> QED BY <2>3, <4>2
    <3>2. Quiet
      BY <1>0, <3>1, IsStoreStep, StepCases
    <3> QED BY <1>0, <1>1, <1>3, <3>2, QuietPromise
  <2> QED BY <2>1, <2>2, <2>3
<1> QED BY <1>2, <1>3, SentSteps

(***************************************************************************)
(* The service implements OrderPromise: over every interleaving, loss and   *)
(* crash, a ticket is refused or taken once, asked for once at most while   *)
(* it is worked, and booked only after that.                                *)
(***************************************************************************)
THEOREM PromiseKept == Spec => KeepsPromise
<1>1. Init => Promise!Init
  <2> SUFFICES ASSUME Init PROVE Promise!Init
    OBVIOUS
  <2>1. \A t \in Tickets : /\ state[t] = "ABSENT" /\ ostatus[EntryOf(t)] = "NONE"
                           /\ fills[EntryOf(t)] = {} /\ sent[EntryOf(t)] = 0
    BY LinkFacts, OrderFacts DEF Init, StoreInit
  <2>2. \A t \in Tickets : Phase(t) = "PENDING"
    BY <2>1 DEF Phase, Reserved, TERMINAL_STATES
  <2> QED BY <2>1, <2>2 DEF Promise!Init
<1>2. Init => FollowInv /\ PromiseInv /\ JournalInv
  BY FollowInit, PromiseInit, JournalInit DEF Init
<1>3. EntryInv /\ FollowInv /\ PromiseInv /\ JournalInv /\ [Next]_vars =>
        FollowInv' /\ PromiseInv' /\ JournalInv'
  <2>1. EntryInv /\ JournalInv /\ [Next]_vars => JournalInv'
    BY IsStoreStep, TypeStep, JournalStep DEF EntryInv
  <2> QED BY <2>1, FollowStep, PromiseStep
<1>4. EntryInv /\ FollowInv /\ PromiseInv /\ JournalInv /\ [Next]_vars =>
        [Promise!Next]_(Promise!vars)
  BY IsPromiseStep
<1> QED BY <1>1, <1>2, <1>3, <1>4, EntryInvariant, PTL DEF Spec, KeepsPromise, Promise!Spec
=============================================================================
