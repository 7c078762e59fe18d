--------------------------- MODULE EntryExecution ---------------------------
(***************************************************************************)
(* The execution of entry orders: the service loop (service_main.py), which *)
(* reconciles (execution_reconciler.py) and then polls and processes        *)
(* tickets (execution_service.py, ticket_consumer.py, bybit_executor.py),   *)
(* beside the private-stream thread (private_stream.py), over the journal   *)
(* of ExecutionStore, against the exchange and the control plane.           *)
(*                                                                         *)
(* One step is one journal transaction or one call over the network, so     *)
(* everything may happen between a read and the write that relies on it:    *)
(* stream messages, expiring leases, passing deadlines, a crash.            *)
(*                                                                         *)
(* Abstractions.  Time passes as events: a deadline is behind us or not.    *)
(* Validation, risk and sizing decide freely.  A stream message is any      *)
(* status the order has had or any execution it got, delivered late, twice  *)
(* or never.  CANCEL tickets and child orders are left to other modules.    *)
(* A definition named Mutant... is a plausible bug, used by no behaviour.   *)
(***************************************************************************)
EXTENDS ExecutionStore, Sequences

CONSTANT Outbox  \* the control plane's outbox: tickets in order of publication

ASSUME OutboxAssumption == Outbox \in Seq(Tickets \ Cancels)

VARIABLES
  sess, spent,  \* the running session, and those that have run
  pc,           \* the loop thread: what it does next
  cur,          \* its locals: the ticket it works on,
  todo,         \*   the tickets still to visit,
  snap,         \*   the ticket row and the clock read at the start of a visit,
  answer,       \*   the exchange's last answer about the order,
  batch,        \*   the executions fetched and not yet booked,
  grant,        \*   the epoch granted by the control plane
  cursor,       \* consumer_cursors: how much of Outbox is dealt with
  aged,         \* tickets whose updated_at is more than grace_seconds ago
  overdue,      \* tickets whose entry order has waited too long
  order,        \* the exchange: the status of each order,
  trades,       \*   its executions,
  inflight,     \*   create requests on their way,
  sent,         \*   how many create requests were sent for each order
  cpowner, cpepoch, cplive  \* the control plane's ticket_claims

loopVars == <<pc, cur, todo, snap, answer, batch, grant>>
clockVars == <<aged, overdue>>
exchVars == <<order, trades, inflight, sent>>
cpVars == <<cpowner, cpepoch, cplive>>
procVars == <<sess, spent>>

vars == <<storeVars, loopVars, clockVars, exchVars, cpVars, procVars, cursor>>

Orders == { EntryOf(t) : t \in Tickets }
NoSnap == [submitting |-> FALSE, aged |-> FALSE, overdue |-> FALSE]

\* What the exchange holds of an order, and what it has reported of it so far.
ExchangeStatuses == { "NONE", "NEW", "FILLED", "CANCELED", "REJECTED" }

Past(l) ==
  IF order[l] \in { "NONE", "REJECTED" } THEN { order[l] } \ { "NONE" }
  ELSE { "NEW", order[l] }

\* updated_at moves with every change of the ticket's state.
Refreshed == aged' = { t \in aged : state'[t] = state[t] } /\ UNCHANGED overdue

\* The loop goes to `to', with its locals unchanged or dropped.
Goto(to) == pc' = to /\ UNCHANGED <<cur, todo, snap, answer, batch, grant>>

Drop == cur' = NoTicket /\ snap' = NoSnap /\ answer' = "SKIPPED" /\ batch' = {} /\ grant' = 0

\* A journal transaction of the loop; a call of the loop that is none.
Commits == Refreshed /\ UNCHANGED <<exchVars, cpVars, procVars>>
Calls == UNCHANGED <<storeVars, clockVars, cpVars, procVars, cursor>>

\* An exception leaves the iteration; the service logs it and starts another.
Abort ==
  /\ pc' = "idle" /\ todo' = {} /\ Drop
  /\ UNCHANGED <<storeVars, clockVars, exchVars, cpVars, procVars, cursor>>

-----------------------------------------------------------------------------
(* Reconciliation: recover_all, one visit for each ticket not terminal *)

Wake ==
  /\ pc = "idle"
  /\ pc' = "recover"
  /\ todo' = { t \in Tickets : Exists(t) /\ state[t] \notin TERMINAL_STATES }
  /\ Drop
  /\ Calls /\ UNCHANGED exchVars

ReadRecord(t) ==
  /\ pc = "recover"
  /\ t \in todo
  /\ pc' = "orders"
  /\ cur' = t
  /\ snap' = [submitting |-> state[t] = "SUBMITTING",
              aged |-> t \in aged, overdue |-> t \in overdue]
  /\ UNCHANGED <<todo, answer, batch, grant>>
  /\ Calls /\ UNCHANGED exchVars

\* Mutant: a requested cancellation is taken for done.
MutantSkipsRequested(l) ==
  ~Reserved(l) \/ ostatus[l] \in FinalOrderStatuses \cup { "CANCEL_REQUESTED" }

\* An order whose local status is final is not looked up again.
Skips(l) == ~Reserved(l) \/ ostatus[l] \in FinalOrderStatuses

ReadOrders ==
  LET l == EntryOf(cur) IN
  /\ pc = "orders"
  /\ Goto(IF Skips(l) THEN "refresh"
          ELSE IF snap.overdue /\ l \in oid THEN "cancel" ELSE "find")
  /\ Calls /\ UNCHANGED exchVars

\* Mutant: an accepted cancel request is taken for a cancellation.
MutantCancelAccepted ==
  /\ pc = "cancel"
  /\ pc' = "cancelled"
  /\ answer' = "CANCELED"
  /\ UNCHANGED <<cur, todo, snap, batch, grant>>
  /\ Calls /\ UNCHANGED exchVars

\* The overdue entry is cancelled; an error of the call is an answer too.
CancelOverdue ==
  /\ pc = "cancel"
  /\ pc' = "cancelled"
  /\ answer' \in { "UNKNOWN" } \cup (Past(EntryOf(cur)) \cap { "CANCELED" })
  /\ UNCHANGED <<cur, todo, snap, batch, grant>>
  /\ Calls /\ UNCHANGED exchVars

CancelRequested ==
  /\ pc = "cancelled"
  /\ RecordCancelRequested(EntryOf(cur))
  /\ Goto(IF answer = "CANCELED" THEN "cancelack" ELSE "find")
  /\ Commits /\ UNCHANGED cursor

FindOrder ==
  /\ pc = "find"
  /\ answer' = order[EntryOf(cur)]
  /\ pc' = IF answer' = "NONE" THEN "fetch"
           ELSE IF snap.submitting THEN "rest" ELSE "ack"
  /\ UNCHANGED <<cur, todo, snap, batch, grant>>
  /\ Calls /\ UNCHANGED exchVars

\* The order was found: its submission is recorded and its status taken over.
RestFound ==
  /\ pc = "rest"
  /\ RecordRestSubmission(EntryOf(cur), {EntryOf(cur)})
  /\ Goto("ack")
  /\ Commits /\ UNCHANGED cursor

AckFound ==
  /\ pc \in { "ack", "cancelack" }
  /\ \E ids \in SUBSET Links : AcknowledgeOrder(EntryOf(cur), answer, ids)
  /\ Goto(IF pc = "cancelack" THEN "refresh"
          ELSE IF CommandRoles = {} THEN "fetch" ELSE "confirmfound")
  /\ Commits /\ UNCHANGED cursor

FetchExecutions ==
  /\ pc = "fetch"
  /\ pc' = "book"
  /\ batch' = trades[EntryOf(cur)]
  /\ UNCHANGED <<cur, todo, snap, answer, grant>>
  /\ Calls /\ UNCHANGED exchVars

BookFetched(e) ==
  LET l == EntryOf(cur) IN
  /\ pc = "book"
  /\ e \in batch
  /\ IF KnownExec(e, l) THEN UNCHANGED storeVars ELSE RecordFill(e, l)
  /\ batch' = batch \ {e}
  /\ UNCHANGED <<pc, cur, todo, snap, answer, grant>>
  /\ Commits /\ UNCHANGED cursor

MutantNeverGivesUp(t) == FALSE

\* `refreshed' is read, and only then the ticket failed.
GivesUp(t) == state[t] = "SUBMITTING" /\ snap.aged

Refresh ==
  /\ \/ pc = "book" /\ batch = {}
     \/ pc = "refresh"
  /\ IF GivesUp(cur)
     THEN Goto("giveup")
     ELSE pc' = "recover" /\ todo' = todo \ {cur} /\ Drop
  /\ Calls /\ UNCHANGED exchVars

\* The stream may have recorded a rejection since: FAILED stays FAILED.
GiveUp ==
  /\ pc = "giveup"
  /\ IF state[cur] = "FAILED" THEN UNCHANGED storeVars ELSE Transition(cur, "FAILED")
  /\ Goto("confirmlost")
  /\ Commits /\ UNCHANGED cursor

VisitDone ==
  /\ pc = "confirmlost"
  /\ \A r \in CommandRoles : command[<<cur, r>>] \in { "NONE", "FAILED" }
  /\ pc' = "recover" /\ todo' = todo \ {cur} /\ Drop
  /\ Calls /\ UNCHANGED exchVars

\* After recovery the ownership and protection audits, which only may raise.
Audited ==
  /\ pc = "recover" /\ todo = {}
  /\ pc' = "flush"
  /\ todo' = { t \in Tickets : Exists(t) }
  /\ Drop
  /\ Calls /\ UNCHANGED exchVars

-----------------------------------------------------------------------------
(* Polling: receipts first, then the tickets after the cursor *)

FlushReceipt(t) ==
  /\ pc = "flush"
  /\ t \in todo
  /\ EnqueueReceipt(t)
  /\ todo' = todo \ {t}
  /\ UNCHANGED <<pc, cur, snap, answer, batch, grant>>
  /\ Commits /\ UNCHANGED cursor

Fetch ==
  /\ pc = "flush" /\ todo = {}
  /\ Goto("poll")
  /\ Calls /\ UNCHANGED exchVars

Next_(c) == Outbox[c + 1]

\* control_plane.py claim: one lease for each ticket, an epoch for each owner.
CpGrants(t, e) ==
  /\ cpowner[t] \in { NoSession, sess } \/ t \notin cplive
  /\ e = IF cpowner[t] = sess THEN cpepoch[t] ELSE cpepoch[t] + 1
  /\ e <= MaxEpoch

ClaimGrantedByPlane(e) ==
  LET t == Next_(cursor) IN
  /\ pc = "poll" /\ cursor < Len(Outbox)
  /\ CpGrants(t, e)
  /\ cpowner' = [cpowner EXCEPT ![t] = sess]
  /\ cpepoch' = [cpepoch EXCEPT ![t] = e]
  /\ cplive' = cplive \cup {t}
  /\ pc' = "receive" /\ cur' = t /\ grant' = e
  /\ UNCHANGED <<todo, snap, answer, batch>>
  /\ UNCHANGED <<storeVars, clockVars, exchVars, procVars, cursor>>

\* A refused claim counts as dealt with.
ClaimRefusedByPlane ==
  LET t == Next_(cursor) IN
  /\ pc = "poll" /\ cursor < Len(Outbox)
  /\ cpowner[t] \notin { NoSession, sess } /\ t \in cplive
  /\ cursor' = cursor + 1
  /\ UNCHANGED <<storeVars, loopVars, clockVars, exchVars, cpVars, procVars>>

PollDone ==
  /\ pc = "poll" /\ cursor = Len(Outbox)
  /\ Goto("idle")
  /\ Calls /\ UNCHANGED exchVars

-----------------------------------------------------------------------------
(* process: from the receipt of a ticket to its submission *)

AfterReceive(s) ==
  IF s \in TERMINAL_STATES \cup WorkingStates THEN "receipt"
  ELSE IF s = "RECEIVED" THEN "validate" ELSE "claim"

ReceiveTicket ==
  /\ pc = "receive"
  /\ IF Exists(cur) THEN UNCHANGED storeVars ELSE Receive(cur)
  /\ Goto(AfterReceive(state'[cur]))
  /\ Commits /\ UNCHANGED cursor

Validate ==
  /\ pc = "validate"
  /\ \E target \in { "VALIDATED", "EXPIRED", "REJECTED" } :
       /\ Transition(cur, target)
       /\ Goto(IF target = "VALIDATED" THEN "claim" ELSE "receipt")
  /\ Commits /\ UNCHANGED cursor

ClaimLocally ==
  /\ pc = "claim"
  /\ IF ClaimGranted(sess, cur, grant)
     THEN Claim(sess, cur, grant) /\ Goto("context")
     ELSE UNCHANGED storeVars /\ Goto("receipt")
  /\ Commits /\ UNCHANGED cursor

\* Reading the portfolio journals a changed position.
ReadContext ==
  /\ pc = "context"
  /\ SavePosition \/ UNCHANGED storeVars
  /\ Goto(IF state[cur] = "CLAIMED" THEN "risk" ELSE "reserve")
  /\ Commits /\ UNCHANGED cursor

RiskDecision ==
  /\ pc = "risk"
  /\ \E target \in { "RISK_APPROVED", "RISK_BLOCKED", "EXPIRED" } :
       /\ FencedTransition(sess, cur, target)
       /\ Goto(IF target = "RISK_APPROVED" THEN "reserve" ELSE "receipt")
  /\ Commits /\ UNCHANGED cursor

SizingRejects ==
  /\ pc = "reserve"
  /\ FencedTransition(sess, cur, "RISK_BLOCKED")
  /\ Goto("receipt")
  /\ Commits /\ UNCHANGED cursor

\* Mutant: a stale fence is logged, and the order created all the same.
MutantFenceIgnored ==
  /\ pc = "reserve"
  /\ IF Reserved(EntryOf(cur))
     THEN UNCHANGED storeVars /\ Goto("receipt")
     ELSE \/ ReserveOrder(sess, cur) /\ Goto("command")
          \/ ~Fenced(sess, cur) /\ UNCHANGED storeVars /\ Goto("create")
  /\ Commits /\ UNCHANGED cursor

ReserveEntry ==
  /\ pc = "reserve"
  /\ IF Reserved(EntryOf(cur))
     THEN UNCHANGED storeVars /\ Goto("receipt")
     ELSE ReserveOrder(sess, cur) /\ Goto("command")
  /\ Commits /\ UNCHANGED cursor

ReserveRole(r) ==
  /\ pc = "command"
  /\ ReserveCommand(sess, <<cur, r>>)
  /\ UNCHANGED loopVars
  /\ Commits /\ UNCHANGED cursor

CommandsReserved ==
  /\ pc = "command"
  /\ \A r \in CommandRoles : command[<<cur, r>>] # "NONE"
  /\ Goto("create")
  /\ Calls /\ UNCHANGED exchVars

CreateOrder ==
  LET l == EntryOf(cur) IN
  /\ pc = "create"
  /\ inflight' = inflight \cup {l}
  /\ sent' = [sent EXCEPT ![l] = @ + 1]
  /\ Goto("sent")
  /\ Calls /\ UNCHANGED <<order, trades>>

CreateAnswered ==
  /\ pc = "sent"
  /\ order[EntryOf(cur)] # "NONE"
  /\ Goto("accepted")
  /\ Calls /\ UNCHANGED exchVars

\* Mutant: the request is sent again after an error.
MutantRetriesCreate ==
  /\ pc \in { "create", "sent" }
  /\ Goto(IF pc = "sent" THEN "create" ELSE "unknown")
  /\ Calls /\ UNCHANGED exchVars

\* An error, before or after the request left: AmbiguousSubmission.
CreateFails ==
  /\ pc \in { "create", "sent" }
  /\ Goto("unknown")
  /\ Calls /\ UNCHANGED exchVars

RecordSubmission ==
  /\ pc = "accepted"
  /\ RecordRestSubmission(EntryOf(cur), {EntryOf(cur)})
  /\ Goto("confirm")
  /\ Commits /\ UNCHANGED cursor

\* What the commands of the order become, by the way its submission ended.
MutantOutcome == IF pc = "confirmlost" THEN "FAILED" ELSE "REST_ACCEPTED"

Outcome ==
  IF pc = "unknown" THEN "UNKNOWN"
  ELSE IF pc = "confirmlost" THEN "FAILED" ELSE "REST_ACCEPTED"

ConfirmRole(r) ==
  /\ pc \in { "unknown", "confirm", "confirmfound", "confirmlost" }
  /\ command[<<cur, r>>] # Outcome
  /\ ConfirmCommand(<<cur, r>>, Outcome)
  /\ UNCHANGED loopVars
  /\ Commits /\ UNCHANGED cursor

Confirmed ==
  /\ pc \in { "unknown", "confirm", "confirmfound" }
  /\ \A r \in CommandRoles : command[<<cur, r>>] \in { "NONE", Outcome }
  /\ Goto(IF pc = "confirmfound" THEN "fetch" ELSE "receipt")
  /\ Calls /\ UNCHANGED exchVars

BuildReceipt ==
  /\ pc = "receipt"
  /\ EnqueueReceipt(cur)
  /\ Goto("advance")
  /\ Commits /\ UNCHANGED cursor

\* The cursor moves on even when posting the receipt raises.
Advance ==
  /\ pc = "advance"
  /\ cursor' = cursor + 1
  /\ pc' \in { "poll", "idle" } /\ todo' = {} /\ Drop
  /\ UNCHANGED <<storeVars, clockVars, exchVars, cpVars, procVars>>

-----------------------------------------------------------------------------
(* Exceptions *)

\* What the journal refuses: a transition, a stale fence, another receipt.
JournalRaises ==
  \/ /\ pc \in { "rest", "accepted" }
     /\ ~can_transition(state[cur], "SUBMITTED")
  \/ /\ pc \in { "ack", "cancelack" }
     /\ ~can_transition(state[cur], AckTarget(EntryOf(cur), Normalized(answer)))
  \/ /\ pc = "book"
     /\ \E e \in batch :
          /\ ~KnownExec(e, EntryOf(cur))
          /\ ~can_transition(state[cur], FillTarget(fills[EntryOf(cur)] \cup {e}))
  \/ pc = "giveup" /\ ~can_transition(state[cur], "FAILED")
  \/ pc \in { "risk", "reserve", "command" } /\ ~Fenced(sess, cur)
  \/ pc = "flush" /\ \E t \in todo : EnqueueConflict(t)
  \/ pc = "receipt" /\ EnqueueConflict(cur)

\* Network errors, audits, and the rate limiter before a create request.
CallRaises ==
  \/ pc \in { "find", "fetch", "poll", "context", "create" }
  \/ pc \in { "recover", "flush" } /\ todo = {}

RaiseJournal == JournalRaises /\ Abort
RaiseCall == CallRaises /\ Abort

-----------------------------------------------------------------------------
(* The stream thread, the exchange, the clock, crashes *)

streamOthers == <<loopVars, exchVars, cpVars, procVars, cursor>>

StreamOrder(l, status) ==
  /\ status \in Past(l)
  /\ \E ids \in SUBSET Links : AcknowledgeOrder(l, status, ids)
  /\ Refreshed /\ UNCHANGED streamOthers

StreamExecution(l, e) ==
  /\ e \in trades[l]
  /\ RecordFill(e, l)
  /\ Refreshed /\ UNCHANGED streamOthers

outsideOthers == <<storeVars, loopVars, procVars, cursor>>

ExchangeReceives(l) ==
  /\ l \in inflight
  /\ inflight' = inflight \ {l}
  /\ order' = [order EXCEPT ![l] = IF @ = "NONE" THEN "NEW" ELSE @]
       \/ order' = [order EXCEPT ![l] = IF @ = "NONE" THEN "REJECTED" ELSE @]
       \/ UNCHANGED order
  /\ UNCHANGED <<outsideOthers, clockVars, cpVars, trades, sent>>

ExchangeTrades(l, e) ==
  /\ order[l] = "NEW"
  /\ \A k \in Orders : e \notin trades[k]
  /\ trades' = [trades EXCEPT ![l] = @ \cup {e}]
  /\ order' = [order EXCEPT ![l] =
       IF Cardinality(trades[l]) + 1 = Lots THEN "FILLED" ELSE @]
  /\ UNCHANGED <<outsideOthers, clockVars, cpVars, inflight, sent>>

ExchangeCancels(l) ==
  /\ order[l] = "NEW"
  /\ order' = [order EXCEPT ![l] = "CANCELED"]
  /\ UNCHANGED <<outsideOthers, clockVars, cpVars, trades, inflight, sent>>

\* The age of a ticket is looked at only while it is SUBMITTING.
Age(t) ==
  /\ state[t] = "SUBMITTING" /\ t \notin aged
  /\ aged' = aged \cup {t}
  /\ UNCHANGED <<outsideOthers, exchVars, cpVars, overdue>>

WaitsTooLong(t) ==
  /\ Reserved(EntryOf(t)) /\ t \notin overdue
  /\ overdue' = overdue \cup {t}
  /\ UNCHANGED <<outsideOthers, exchVars, cpVars, aged>>

LocalLeaseExpires(t) ==
  /\ LeaseExpires(t)
  /\ UNCHANGED <<loopVars, clockVars, exchVars, cpVars, procVars, cursor>>

PlaneLeaseExpires(t) ==
  /\ t \in cplive
  /\ cplive' = cplive \ {t}
  /\ UNCHANGED <<outsideOthers, clockVars, exchVars, cpowner, cpepoch>>

\* The process dies and is started again, as a new session.
Crash(s) ==
  /\ s \notin spent
  /\ sess' = s /\ spent' = spent \cup {s}
  /\ pc' = "idle" /\ todo' = {} /\ Drop
  /\ UNCHANGED <<storeVars, clockVars, exchVars, cpVars, cursor>>

-----------------------------------------------------------------------------
Init ==
  /\ StoreInit
  /\ sess \in Sessions /\ spent = {sess}
  /\ pc = "idle" /\ cur = NoTicket /\ todo = {} /\ snap = NoSnap
  /\ answer = "SKIPPED" /\ batch = {} /\ grant = 0
  /\ cursor = 0
  /\ aged = {} /\ overdue = {}
  /\ order = [l \in Orders |-> "NONE"]
  /\ trades = [l \in Orders |-> {}]
  /\ inflight = {}
  /\ sent = [l \in Orders |-> 0]
  /\ cpowner = [t \in Tickets |-> NoSession]
  /\ cpepoch = [t \in Tickets |-> 0]
  /\ cplive = {}

Recover ==
  \/ Wake \/ ReadOrders \/ CancelOverdue \/ CancelRequested
  \/ FindOrder \/ RestFound \/ AckFound \/ FetchExecutions
  \/ Refresh \/ GiveUp \/ VisitDone \/ Audited
  \/ \E t \in Tickets : ReadRecord(t)
  \/ \E e \in Execs : BookFetched(e)

Poll ==
  \/ \E t \in Tickets : FlushReceipt(t)
  \/ \E e \in 1..MaxEpoch : ClaimGrantedByPlane(e)
  \/ Fetch \/ ClaimRefusedByPlane \/ PollDone

Process ==
  \/ ReceiveTicket \/ Validate \/ ClaimLocally \/ ReadContext
  \/ RiskDecision \/ SizingRejects \/ ReserveEntry \/ CommandsReserved
  \/ CreateOrder \/ CreateAnswered \/ CreateFails \/ RecordSubmission
  \/ Confirmed \/ BuildReceipt \/ Advance
  \/ \E r \in CommandRoles : ReserveRole(r) \/ ConfirmRole(r)

Loop == Recover \/ Poll \/ Process \/ RaiseJournal

Stream ==
  \E l \in Orders :
    \/ \E status \in ExchangeStatuses : StreamOrder(l, status)
    \/ \E e \in Execs : StreamExecution(l, e)

Outside ==
  \/ \E l \in Orders :
       \/ ExchangeReceives(l)
       \/ \E e \in Execs : ExchangeTrades(l, e)
       \/ ExchangeCancels(l)
  \/ \E t \in Tickets :
       Age(t) \/ WaitsTooLong(t) \/ LocalLeaseExpires(t) \/ PlaneLeaseExpires(t)
  \/ \E s \in Sessions : Crash(s)

Next == Loop \/ RaiseCall \/ Stream \/ Outside

Spec == Init /\ [][Next]_vars

(***************************************************************************)
(* The loop thread keeps running and time passes.  A lookup that is tried   *)
(* again and again is answered some day; nothing is promised of the stream, *)
(* of the exchange or of any other call.                                    *)
(***************************************************************************)
Fairness ==
  /\ WF_vars(Loop)
  /\ SF_vars(FindOrder) /\ SF_vars(FetchExecutions)
  /\ \A t \in Tickets : WF_vars(Age(t))

FairSpec == Spec /\ Fairness

-----------------------------------------------------------------------------
(* Properties *)

LoopLocations ==
  { "idle", "recover", "orders", "cancel", "cancelled", "cancelack", "find", "rest",
    "ack", "confirmfound", "fetch", "book", "refresh", "giveup", "confirmlost",
    "flush", "poll", "receive", "validate", "claim", "context", "risk", "reserve",
    "command", "create", "sent", "unknown", "accepted", "confirm", "receipt", "advance" }

EntryTypeOK ==
  /\ TypeOK
  /\ sess \in Sessions /\ spent \in SUBSET Sessions
  /\ pc \in LoopLocations
  /\ cur \in Tickets \cup {NoTicket}
  /\ todo \in SUBSET Tickets
  /\ snap \in [submitting : BOOLEAN, aged : BOOLEAN, overdue : BOOLEAN]
  /\ answer \in ExchangeStatuses \cup { "SKIPPED", "UNKNOWN" }
  /\ batch \in SUBSET Execs
  /\ grant \in 0..MaxEpoch
  /\ cursor \in 0..Len(Outbox)
  /\ aged \in SUBSET Tickets /\ overdue \in SUBSET Tickets
  /\ order \in [Orders -> ExchangeStatuses]
  /\ trades \in [Orders -> SUBSET Execs]
  /\ inflight \in SUBSET Orders
  /\ sent \in [Orders -> Nat]
  /\ cpowner \in [Tickets -> Sessions \cup {NoSession}]
  /\ cpepoch \in [Tickets -> Nat]
  /\ cplive \in SUBSET Tickets

(***************************************************************************)
(* Whatever is lost, times out or crashes, at most one create request ever  *)
(* leaves for an entry order, and not before the order is journaled: an     *)
(* unknown outcome is never answered by sending again (submit_entry,        *)
(* docs/architecture_v1.md:60).                                             *)
(***************************************************************************)
CreatedOnce ==
  \A l \in Orders : sent[l] <= 1 /\ (sent[l] = 1 => Reserved(l))

(***************************************************************************)
(* The journal is never ahead of the exchange: it books only executions     *)
(* that took place, calls a ticket FILLED only when its order is filled and *)
(* CANCELLED only when its order can trade no more, whatever is stale among *)
(* the snapshots, answers and messages it is fed.                           *)
(***************************************************************************)
JournalFollowsExchange ==
  \A t \in Tickets :
    LET l == EntryOf(t) IN
    /\ fills[l] \subseteq trades[l]
    /\ state[t] = "FILLED" => order[l] = "FILLED"
    /\ state[t] = "CANCELLED" => order[l] = "CANCELED"
    /\ l \in oid => order[l] # "NONE"

(***************************************************************************)
(* The journal is written before the exchange hears of it: the commands of  *)
(* an order are reserved when its request leaves, are accepted only if the  *)
(* exchange has the order, and fail only with their ticket (submit_entry,   *)
(* reconcile_ticket).                                                       *)
(***************************************************************************)
CommandsFollowOrder ==
  \A t \in Tickets, r \in CommandRoles :
    LET l == EntryOf(t) IN
    /\ sent[l] > 0 => command[<<t, r>>] # "NONE"
    /\ command[<<t, r>>] = "REST_ACCEPTED" => order[l] # "NONE"
    /\ command[<<t, r>>] = "FAILED" => state[t] = "FAILED"

(***************************************************************************)
(* The threads write the journal only as ExecutionStore lets them: what is  *)
(* proved of the journal holds of the service, also across crashes.         *)
(***************************************************************************)
ImplementsStore == StoreSpec

(***************************************************************************)
(* The service keeps the promise of OrderPromise.                           *)
(***************************************************************************)
Phase(t) ==
  IF Reserved(EntryOf(t))
  THEN IF state[t] \in WorkingStates THEN "WORKING" ELSE "CLOSED"
  ELSE IF state[t] \in TERMINAL_STATES THEN "REFUSED" ELSE "PENDING"

Promise == INSTANCE OrderPromise WITH
  phase <- [t \in Tickets |-> Phase(t)],
  asked <- [t \in Tickets |-> sent[EntryOf(t)]],
  booked <- [t \in Tickets |-> fills[EntryOf(t)]]

KeepsPromise == Promise!Spec

(***************************************************************************)
(* A receipt can always be rebuilt: "Rebuilding is safe because receipt ids *)
(* include the immutable state/event sequence and the outbox deduplicates   *)
(* them" (execution_service.py:42).                                         *)
(***************************************************************************)
RebuildingIsSafe == \A t \in Tickets : ~EnqueueConflict(t)

(***************************************************************************)
(* An unknown submission does not stay unknown: by a lookup, by the stream  *)
(* or by giving up, every ticket leaves SUBMITTING, also when the process   *)
(* crashed at the create request (reconcile_ticket).                        *)
(***************************************************************************)
SubmissionResolved ==
  \A t \in Tickets : state[t] = "SUBMITTING" ~> state[t] # "SUBMITTING"

(***************************************************************************)
(* A cancellation at the exchange reaches the journal even if the stream    *)
(* loses it and late executions reopen the ticket; a ticket given up before *)
(* stays FAILED (reconcile_ticket, acknowledge_order).                      *)
(***************************************************************************)
CancellationReachesJournal ==
  \A t \in Tickets :
    order[EntryOf(t)] = "CANCELED" ~> state[t] \in { "CANCELLED", "FAILED" }
=============================================================================
