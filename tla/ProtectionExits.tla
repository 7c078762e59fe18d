-------------------------- MODULE ProtectionExits --------------------------
(***************************************************************************)
(* The exits of a position: take-profit children and the time exit, from    *)
(* the acknowledgement of the entry order on (service_main.py,              *)
(* bybit_executor.py), with the reconciliation of their orders.             *)
(*                                                                         *)
(* Two threads install take profits: the private stream when an execution   *)
(* completes the entry, the main loop in every iteration for any position   *)
(* that has traded.  The loop alone closes a position that was held too     *)
(* long.  Both write through the journal of ExecutionStore; one step is one *)
(* transaction or one call over the network.                                *)
(*                                                                         *)
(* Abstractions.  One ticket, whose entry has already been submitted: its   *)
(* submission and the cancellation of an overdue entry are EntryExecution's *)
(* concern.  Nobody else trades the symbol, so the position never changes   *)
(* sides.  An execution trades one lot, the quantity step of an order, and  *)
(* kill is the kill switch of the day.  The children of a ticket are        *)
(* visited in any order.  A definition named Mutant... is a plausible bug,  *)
(* used by no behaviour.                                                    *)
(***************************************************************************)
EXTENDS ExecutionStore, Sequences

CONSTANTS
  Ticket,    \* the ticket
  Targets,   \* the roles of its take-profit levels, in order
  TimeExit,  \* the role of the time exit
  Fraction,  \* close_fraction of each level,
  Whole,     \*   in units of 1 / Whole
  Expires,   \* whether max_holding_sec may pass,
  Lapses     \*   and the lease of the ticket

ASSUME ExitsAssumption ==
  /\ Ticket \in Tickets /\ Ticket \notin Cancels
  /\ TimeExit \in ExitRoles
  /\ Targets \in Seq(ExitRoles \ {TimeExit})
  /\ Whole \in Nat \ {0} /\ Fraction \in [ExitRoles -> 0..Whole]
  /\ Expires \in BOOLEAN /\ Lapses \in BOOLEAN
  /\ (Links \X (1..Lots)) \subseteq Execs

\* The bound on the epochs leaves one to every session.
ASSUME EpochsAssumption == IsFiniteSet(Sessions) /\ MaxEpoch > Cardinality(Sessions)

\* The sum of f over the first i levels, as a function of i.
SumOver(f) ==
  LET sum[i \in 0..Len(Targets)] == IF i = 0 THEN 0 ELSE sum[i - 1] + f[Targets[i]]
  IN  sum

\* The contract lets the levels close no more than the position.
ASSUME FractionsAssumption == SumOver(Fraction)[Len(Targets)] <= Whole

VARIABLES
  sess, spent,  \* the running session, and those that have run
  pc,           \* the loop thread: what it does next
  todo,         \* its locals: the orders still to visit,
  unnamed,      \*   those whose row had no bybit_order_id,
  cur,          \*   the role of the order it visits, or "none",
  answer,       \*   the exchange's last answer about the order,
  batch,        \*   the executions fetched and not yet booked
  at,           \* where each thread is in a submission of exits, "off" if nowhere
  roles,        \* the exits it still has to submit,
  total,        \* the quantity it divides among them
  kill,         \* risk_runtime.kill_switch
  snapshot,     \* position_snapshots: the position last read
  overdue,      \* max_holding_sec have passed since the first fill
  qty,          \* execution_orders.quantity of each order
  order,        \* the exchange: the status of each order,
  traded,       \*   how many lots of it have traded,
  inflight,     \*   create requests on their way,
  sent,         \*   how many were sent for each order,
  position      \*   the live position, long or short as the entry makes it

procVars == <<sess, spent>>
visitVars == <<pc, todo, unnamed, cur, answer, batch>>
exitVars == <<at, roles, total>>
riskVars == <<kill, snapshot, overdue>>
exchVars == <<order, traded, inflight, sent, position>>

vars == <<storeVars, procVars, visitVars, exitVars, riskVars, qty, exchVars>>

Threads == { "loop", "stream" }
AllRoles == { "entry" } \cup ExitRoles
TargetRoles == { Targets[i] : i \in 1..Len(Targets) }
Link(r) == <<Ticket, r>>
Entry == EntryOf(Ticket)

\* The executions of an order so far.
Executed(r) == { <<Link(r), i>> : i \in 1..traded[r] }

ExchangeStatuses == { "NONE", "NEW", "FILLED", "CANCELED", "REJECTED" }

\* What the exchange has reported of an order so far.
Past(r) ==
  IF order[r] \in { "NONE", "REJECTED" } THEN { order[r] } \ { "NONE" }
  ELSE { "NEW", order[r] }

Journal == UNCHANGED <<procVars, riskVars, exchVars>>
Calls == UNCHANGED <<storeVars, procVars, riskVars, qty>>

\* cum_exec_qty of the entry, which the position's clock and its exits start from.
HasTraded == fills[Entry] # {}

\* The loop goes to `to', its locals unchanged.
Goto(to) == pc' = to /\ UNCHANGED <<todo, unnamed, cur, answer, batch>>
Drop == todo' = {} /\ unnamed' = {} /\ cur' = "none" /\ answer' = "NONE" /\ batch' = {}

-----------------------------------------------------------------------------
(* The audit of the account, and the reconciliation of the ticket's orders *)

\* local_position_quantity: what the journal has booked of the symbol.
Exited == UNION { fills[Link(r)] : r \in ExitRoles }
local_position == cum_exec_qty(Entry) - Cardinality(Exited)

\* _verify_account_ownership: the live position is the journal's or the one last read.
Owned == position \in { 0, local_position, snapshot }

\* An audit precedes the reconciliation of a service that starts, and follows each.
Audited ==
  /\ pc \in { "start", "audit" }
  /\ Owned
  /\ Goto(IF pc = "start" THEN "idle" ELSE "holding")
  /\ Calls /\ UNCHANGED <<exitVars, exchVars>>

\* The kill switch is set and the iteration ends; a start is tried again.
NotOwned ==
  /\ pc \in { "start", "audit" }
  /\ ~Owned
  /\ kill' = TRUE
  /\ pc' = (IF pc = "start" THEN "start" ELSE "idle") /\ Drop
  /\ UNCHANGED <<storeVars, procVars, exitVars, snapshot, overdue, qty, exchVars>>

Active == { r \in AllRoles : /\ Reserved(Link(r))
                             /\ ostatus[Link(r)] \notin FinalOrderStatuses }

\* Mutant: a terminal ticket is not looked at again.
MutantOnlyOpenTickets == state[Ticket] \notin TERMINAL_STATES

\* reconciliation_ticket_ids
ToReconcile == state[Ticket] \notin TERMINAL_STATES \/ Active \ {"entry"} # {}

\* The rows are read once, at the start of the visit.
Wake ==
  /\ pc = "idle"
  /\ pc' = "visit"
  /\ todo' = IF ToReconcile THEN Active ELSE {}
  /\ unnamed' = { r \in todo' \ {"entry"} : Link(r) \notin oid }
  /\ cur' = "none" /\ answer' = "NONE" /\ batch' = {}
  /\ Calls /\ UNCHANGED <<exitVars, exchVars>>

FindOrder(r) ==
  /\ pc = "visit"
  /\ r \in todo /\ (r = "entry" \/ "entry" \notin todo)
  /\ cur' = r
  /\ answer' = order[r]
  /\ pc' = IF answer' = "NONE" THEN "fetch"
           ELSE IF r \in unnamed THEN "adopt" ELSE "ack"
  /\ UNCHANGED <<todo, unnamed, batch>>
  /\ Calls /\ UNCHANGED <<exitVars, exchVars>>

\* A child found at the exchange whose submission was never recorded.
AdoptFound ==
  /\ pc = "adopt"
  /\ RecordExitSubmission(Link(cur), {Link(cur)})
  /\ Goto("ack")
  /\ Journal /\ UNCHANGED <<exitVars, qty>>

AckFound ==
  /\ pc = "ack"
  /\ \E ids \in SUBSET ({Link(cur)} \ oid) : AcknowledgeOrder(Link(cur), answer, ids)
  /\ Goto("fetch")
  /\ Journal /\ UNCHANGED <<exitVars, qty>>

FetchExecutions(r) ==
  /\ pc = "fetch" /\ cur = r
  /\ pc' = "book"
  /\ batch' = Executed(r) /\ answer' = "NONE"
  /\ UNCHANGED <<todo, unnamed, cur>>
  /\ Calls /\ UNCHANGED <<exitVars, exchVars>>

\* record_fill compares the booked lots with the quantity of the row.
Completes(r, e) == Cardinality(fills[Link(r)] \cup {e}) >= qty[r]
Book(r, e) == BookFill(e, Link(r), IF Completes(r, e) THEN "FILLED" ELSE "PARTIALLY_FILLED")

BookFetched(e) ==
  /\ pc = "book"
  /\ e \in batch
  /\ IF KnownExec(e, Link(cur)) THEN UNCHANGED storeVars ELSE Book(cur, e)
  /\ batch' = batch \ {e}
  /\ UNCHANGED <<pc, todo, unnamed, cur, answer>>
  /\ Journal /\ UNCHANGED <<exitVars, qty>>

Visited ==
  /\ pc = "book" /\ batch = {}
  /\ pc' = "visit"
  /\ todo' = todo \ {cur} /\ unnamed' = unnamed \ {cur} /\ cur' = "none"
  /\ UNCHANGED <<answer, batch>>
  /\ Calls /\ UNCHANGED <<exitVars, exchVars>>

Reconciled ==
  /\ pc = "visit" /\ todo = {}
  /\ pc' = "audit" /\ Drop
  /\ Calls /\ UNCHANGED <<exitVars, exchVars>>

-----------------------------------------------------------------------------
(* The time exit: _enforce_max_holding *)

\* The loop begins to submit the exits rs for the quantity q.
Begin(th, where, rs, q) ==
  /\ at' = [at EXCEPT ![th] = where]
  /\ roles' = [roles EXCEPT ![th] = rs]
  /\ total' = [total EXCEPT ![th] = q]

Off(th) == Begin(th, "off", <<>>, 0)

NotOverdue ==
  /\ pc = "holding"
  /\ ~(HasTraded /\ overdue)
  /\ Goto("protect")
  /\ Calls /\ UNCHANGED <<exitVars, exchVars>>

\* Reading the portfolio journals a changed position.
ReadPortfolio ==
  /\ IF snapshot = position THEN UNCHANGED storeVars ELSE SavePosition
  /\ snapshot' = position
  /\ UNCHANGED <<procVars, kill, overdue, exchVars>>

ReadHolding ==
  /\ pc = "holding"
  /\ HasTraded /\ overdue
  /\ ReadPortfolio
  /\ IF position = 0
     THEN Goto("protect") /\ UNCHANGED exitVars
     ELSE Goto("stoprisk") /\ Begin("loop", "off", <<TimeExit>>, position)
  /\ UNCHANGED qty

\* Mutant: the position is closed while new risk is still taken.
MutantRiskGoesOn ==
  /\ pc = "stoprisk"
  /\ Goto("closing")
  /\ Begin("loop", "fence", roles["loop"], total["loop"])
  /\ Calls /\ UNCHANGED exchVars

StopRisk ==
  /\ pc = "stoprisk"
  /\ kill' = TRUE
  /\ Goto("closing")
  /\ Begin("loop", "fence", roles["loop"], total["loop"])
  /\ UNCHANGED <<storeVars, procVars, snapshot, overdue, qty, exchVars>>

ExitSubmitted ==
  /\ pc = "closing" /\ at["loop"] = "off"
  /\ Goto("protect")
  /\ Calls /\ UNCHANGED <<exitVars, exchVars>>

-----------------------------------------------------------------------------
(* Take profits: _install_take_profits, by the loop and by the stream *)

Recover ==
  /\ pc = "protect"
  /\ IF HasTraded
     THEN Goto("installing") /\ Begin("loop", "roles", Targets, 0)
     ELSE pc' = "idle" /\ Drop /\ UNCHANGED exitVars
  /\ Calls /\ UNCHANGED exchVars

Recovered ==
  /\ pc = "installing" /\ at["loop"] = "off"
  /\ pc' = "idle" /\ Drop
  /\ Calls /\ UNCHANGED <<exitVars, exchVars>>

\* Once the time exit is journaled, no targets are added.
CheckRoles(th) ==
  /\ at[th] = "roles"
  /\ IF Reserved(Link(TimeExit)) THEN Off(th) ELSE Begin(th, "size", roles[th], 0)
  /\ Calls /\ UNCHANGED <<visitVars, exchVars>>

\* Mutant: the quantity of the order is divided, not what is left of it.
MutantSizesOrder(th) == qty["entry"]

\* The loop divides the live position, the stream what the entry has filled.
SizeOf(th) == IF th = "loop" THEN position ELSE cum_exec_qty(Entry)

Size(th) ==
  /\ at[th] = "size"
  /\ IF th = "loop" THEN ReadPortfolio ELSE UNCHANGED storeVars /\ Journal
  /\ IF SizeOf(th) = 0
     THEN Off(th)
     ELSE Begin(th, "fence", roles[th], SizeOf(th))
  /\ UNCHANGED <<visitVars, qty>>

-----------------------------------------------------------------------------
(* Submission of the exits: submit_take_profits and submit_time_exit *)

TakeFence(th) ==
  /\ at[th] = "fence"
  /\ ClaimOperation(sess, Ticket)
  /\ Begin(th, "level", roles[th], total[th])
  /\ UNCHANGED visitVars
  /\ Journal /\ UNCHANGED qty

Role(th) == Head(roles[th])
NextRole(th) == Begin(th, "level", Tail(roles[th]), total[th])

\* floor_to_step of the share of a level; the time exit closes everything.
ShareOf(r, q) == IF r = TimeExit THEN q ELSE (q * Fraction[r]) \div Whole

Done(th) ==
  /\ at[th] = "level" /\ roles[th] = <<>>
  /\ Off(th)
  /\ Calls /\ UNCHANGED <<visitVars, exchVars>>

TooSmall(th) == at[th] = "level" /\ roles[th] # <<>> /\ ShareOf(Role(th), total[th]) = 0

\* Mutant: an order that is already journaled is sent again.
MutantResends(th) ==
  LET r == Role(th) IN
  /\ at[th] = "level" /\ roles[th] # <<>> /\ ~TooSmall(th)
  /\ \/ Reserved(Link(r)) /\ UNCHANGED <<storeVars, qty>>
     \/ ReserveExitOrder(sess, Link(r)) /\ qty' = [qty EXCEPT ![r] = ShareOf(r, total[th])]
  /\ Begin(th, "send", roles[th], total[th])
  /\ UNCHANGED visitVars
  /\ Journal

Reserve(th) ==
  LET r == Role(th) IN
  /\ at[th] = "level" /\ roles[th] # <<>> /\ ~TooSmall(th)
  /\ IF Reserved(Link(r))
     THEN UNCHANGED <<storeVars, qty>> /\ NextRole(th)
     ELSE /\ ReserveExitOrder(sess, Link(r))
          /\ qty' = [qty EXCEPT ![r] = ShareOf(r, total[th])]
          /\ Begin(th, "send", roles[th], total[th])
  /\ UNCHANGED visitVars
  /\ Journal

Send(th) ==
  /\ at[th] = "send"
  /\ inflight' = inflight \cup {Role(th)}
  /\ sent' = [sent EXCEPT ![Role(th)] = @ + 1]
  /\ Begin(th, "sent", roles[th], total[th])
  /\ Calls /\ UNCHANGED <<visitVars, order, traded, position>>

Answered(th) ==
  /\ at[th] = "sent"
  /\ order[Role(th)] # "NONE"
  /\ Begin(th, "record", roles[th], total[th])
  /\ Calls /\ UNCHANGED <<visitVars, exchVars>>

RecordSubmission(th) ==
  /\ at[th] = "record"
  /\ RecordExitSubmission(Link(Role(th)), {Link(Role(th))})
  /\ NextRole(th)
  /\ UNCHANGED visitVars
  /\ Journal /\ UNCHANGED qty

-----------------------------------------------------------------------------
(* Exceptions *)

\* A submission fails: another session's lease, a quantity below the minimum,
\* the journal's refusal, or a call (rules, portfolio, rate limiter, create).
SubmissionRaises(th) ==
  \/ at[th] = "fence" /\ OwnedByAnother(sess, Ticket)
  \/ TooSmall(th)
  \/ /\ at[th] = "level" /\ roles[th] # <<>> /\ ~Reserved(Link(Role(th)))
     /\ ~Fenced(sess, Ticket) \/ state[Ticket] \notin ExitStates

SubmissionFails(th) == at[th] \in { "size", "send", "sent" }

\* Mutant: an installation that fails is logged only.
MutantLogsOnly(th) ==
  /\ SubmissionRaises(th) \/ SubmissionFails(th)
  /\ ~(th = "loop" /\ pc = "closing")
  /\ Off(th)
  /\ Calls /\ UNCHANGED <<visitVars, exchVars>>

\* Mutant: an order whose submission fails is taken for rejected.
MutantTakenForRejected(th) ==
  /\ at[th] = "sent" /\ ~(th = "loop" /\ pc = "closing")
  /\ kill' = TRUE
  /\ Off(th)
  /\ ostatus' = [ostatus EXCEPT ![Link(Role(th))] = "REJECTED"]
  /\ UNCHANGED <<state, leaseVars, oid, fills, command, receipt>>
  /\ UNCHANGED <<procVars, visitVars, snapshot, overdue, qty, exchVars>>

\* An installation that fails sets the kill switch; the thread goes on.
InstallationRaises(th) ==
  /\ SubmissionRaises(th) \/ SubmissionFails(th)
  /\ ~(th = "loop" /\ pc = "closing")
  /\ kill' = TRUE
  /\ Off(th)
  /\ UNCHANGED <<storeVars, procVars, visitVars, snapshot, overdue, qty, exchVars>>

\* Any other exception of the loop ends its iteration.
Abort ==
  /\ pc' = "idle" /\ Drop
  /\ Off("loop")
  /\ Calls /\ UNCHANGED exchVars

CallRaises ==
  \/ pc = "visit" /\ todo # {}
  \/ pc \in { "fetch", "audit" }
  \/ pc = "holding" /\ HasTraded /\ overdue
  \/ pc = "closing" /\ at["loop"] = "send"

\* The journal takes every report of an acknowledged entry, and of its exits;
\* it refuses to reserve a time exit.
RaiseJournal == pc = "closing" /\ SubmissionRaises("loop") /\ Abort
RaiseCall == CallRaises /\ Abort

\* The create call of a time exit fails; the call has a timeout.
TimesOut == pc = "closing" /\ at["loop"] = "sent" /\ Abort

-----------------------------------------------------------------------------
(* The stream thread, the exchange, the clock, crashes *)

\* One thread delivers the messages, and it may be busy installing targets.
Streams == /\ at["stream"] = "off"
           /\ UNCHANGED <<procVars, visitVars, snapshot, overdue, qty, exchVars>>

StreamOrder(r, status) ==
  /\ Streams
  /\ status \in Past(r)
  /\ \E ids \in SUBSET ({Link(r)} \ oid) : AcknowledgeOrder(Link(r), status, ids)
  /\ UNCHANGED <<exitVars, kill>>

\* The execution that completes the entry makes this thread install the targets.
StreamExecution(r, e) ==
  /\ Streams
  /\ e \in Executed(r)
  /\ Book(r, e)
  /\ IF r = "entry" /\ ostatus'[Entry] = "FILLED"
     THEN Begin("stream", "roles", Targets, 0) ELSE UNCHANGED exitVars
  /\ UNCHANGED kill

outsideVars == <<storeVars, procVars, visitVars, exitVars, kill, snapshot, qty>>

ExchangeReceives(r) ==
  /\ r \in inflight
  /\ inflight' = inflight \ {r}
  /\ order' = [order EXCEPT ![r] = IF @ = "NONE" THEN "NEW" ELSE @]
       \/ order' = [order EXCEPT ![r] = IF @ = "NONE" THEN "REJECTED" ELSE @]
       \/ UNCHANGED order
  /\ UNCHANGED <<outsideVars, overdue, traded, sent, position>>

\* The entry opens the position; exits are reduce-only.
ExchangeTrades(r) ==
  /\ order[r] = "NEW"
  /\ r # "entry" => position > 0
  /\ traded' = [traded EXCEPT ![r] = @ + 1]
  /\ position' = IF r = "entry" THEN position + 1 ELSE position - 1
  /\ order' = [order EXCEPT ![r] = IF traded[r] + 1 = qty[r] THEN "FILLED" ELSE @]
  /\ UNCHANGED <<outsideVars, overdue, inflight, sent>>

ExchangeCancels(r) ==
  /\ order[r] = "NEW"
  /\ order' = [order EXCEPT ![r] = "CANCELED"]
  /\ UNCHANGED <<outsideVars, overdue, traded, inflight, sent, position>>

\* The stop attached to the entry closes the whole position.
StopLoss ==
  /\ position > 0
  /\ position' = 0
  /\ UNCHANGED <<outsideVars, overdue, order, traded, inflight, sent>>

HoldsTooLong ==
  /\ Expires /\ HasTraded /\ ~overdue
  /\ overdue' = TRUE
  /\ UNCHANGED <<outsideVars, exchVars>>

LocalLeaseExpires ==
  /\ Lapses /\ LeaseExpires(Ticket)
  /\ UNCHANGED <<procVars, visitVars, exitVars, riskVars, qty, exchVars>>

\* The process dies and is started again, as a new session.
Crash(s) ==
  /\ s \notin spent
  /\ sess' = s /\ spent' = spent \cup {s}
  /\ pc' = "start" /\ Drop
  /\ at' = [th \in Threads |-> "off"]
  /\ roles' = [th \in Threads |-> <<>>]
  /\ total' = [th \in Threads |-> 0]
  /\ UNCHANGED <<storeVars, riskVars, qty, exchVars>>

-----------------------------------------------------------------------------
\* The entry order is at the exchange and acknowledged.
EntryPlaced ==
  /\ state = [t \in Tickets |-> IF t = Ticket THEN "ACKNOWLEDGED" ELSE "ABSENT"]
  /\ owner = [t \in Tickets |-> IF t = Ticket THEN sess ELSE NoSession]
  /\ epoch = [t \in Tickets |-> IF t = Ticket THEN 1 ELSE 0]
  /\ live = {Ticket}
  /\ held = [s \in Sessions |-> [t \in Tickets |-> IF s = sess THEN epoch[t] ELSE 0]]
  /\ ostatus = [l \in Links |-> IF l = Entry THEN "NEW" ELSE "NONE"]
  /\ oid = {Entry}
  /\ fills = [l \in Links |-> {}]
  /\ command = [c \in Commands |-> "NONE"]
  /\ receipt = [t \in Tickets |-> "UNBUILT"]

ThreadsStart ==
  /\ sess \in Sessions /\ spent = {sess}
  /\ pc = "idle" /\ todo = {} /\ unnamed = {} /\ cur = "none" /\ answer = "NONE" /\ batch = {}
  /\ at = [th \in Threads |-> "off"]
  /\ roles = [th \in Threads |-> <<>>]
  /\ total = [th \in Threads |-> 0]
  /\ kill = FALSE /\ snapshot = 0 /\ overdue = FALSE
  /\ qty = [r \in AllRoles |-> IF r = "entry" THEN Lots ELSE 0]
  /\ order = [r \in AllRoles |-> IF r = "entry" THEN "NEW" ELSE "NONE"]
  /\ traded = [r \in AllRoles |-> 0]
  /\ inflight = {}
  /\ sent = [r \in AllRoles |-> IF r = "entry" THEN 1 ELSE 0]
  /\ position = 0

Init == ThreadsStart /\ EntryPlaced

Reconcile ==
  \/ Wake \/ AdoptFound \/ AckFound \/ Visited \/ Reconciled \/ Audited \/ NotOwned
  \/ \E r \in AllRoles : FindOrder(r) \/ FetchExecutions(r)
  \/ \E e \in batch : BookFetched(e)

Protect ==
  \/ NotOverdue \/ ReadHolding \/ StopRisk \/ ExitSubmitted \/ Recover \/ Recovered

Submit(th) ==
  \/ CheckRoles(th) \/ Size(th) \/ TakeFence(th) \/ Reserve(th) \/ Done(th)
  \/ Send(th) \/ Answered(th) \/ RecordSubmission(th) \/ InstallationRaises(th)

Loop == Reconcile \/ Protect \/ Submit("loop") \/ RaiseJournal \/ TimesOut

Stream ==
  \E r \in AllRoles :
    \/ \E status \in ExchangeStatuses : StreamOrder(r, status)
    \/ \E e \in Executed(r) : StreamExecution(r, e)

Outside ==
  \/ \E r \in AllRoles : ExchangeReceives(r) \/ ExchangeTrades(r) \/ ExchangeCancels(r)
  \/ StopLoss \/ HoldsTooLong \/ LocalLeaseExpires
  \/ \E s \in Sessions : Crash(s)

Next == Loop \/ RaiseCall \/ Submit("stream") \/ Stream \/ Outside

Spec == Init /\ [][Next]_vars

(***************************************************************************)
(* The loop thread keeps running, and a call that is tried again and again  *)
(* succeeds some day; nothing is promised of the stream or the exchange.    *)
(***************************************************************************)
Fairness ==
  /\ WF_vars(Loop)
  /\ \A r \in AllRoles : SF_vars(FindOrder(r)) /\ SF_vars(FetchExecutions(r))
  /\ SF_vars(Audited) /\ SF_vars(ReadHolding)

FairSpec == Spec /\ Fairness

-----------------------------------------------------------------------------
(* Properties *)

(***************************************************************************)
(* The locals of both threads, the journal and the exchange keep to what    *)
(* the program can be in.                                                   *)
(***************************************************************************)
ExitsTypeOK ==
  /\ TypeOK
  /\ sess \in Sessions /\ spent \in SUBSET Sessions
  /\ pc \in { "start", "idle", "visit", "adopt", "ack", "fetch", "book", "audit", "holding",
              "stoprisk", "closing", "protect", "installing" }
  /\ todo \in SUBSET AllRoles /\ unnamed \in SUBSET AllRoles
  /\ cur \in AllRoles \cup {"none"}
  /\ answer \in ExchangeStatuses
  /\ batch \in SUBSET Execs
  /\ at \in [Threads ->
       { "off", "roles", "size", "fence", "level", "send", "sent", "record" }]
  /\ \A th \in Threads : roles[th] \in Seq(ExitRoles)
  /\ total \in [Threads -> 0..Lots]
  /\ kill \in BOOLEAN /\ overdue \in BOOLEAN
  /\ snapshot \in 0..Lots /\ position \in 0..Lots
  /\ qty \in [AllRoles -> 0..Lots]
  /\ order \in [AllRoles -> ExchangeStatuses]
  /\ traded \in [AllRoles -> 0..Lots]
  /\ inflight \in SUBSET AllRoles
  /\ sent \in [AllRoles -> Nat]

(***************************************************************************)
(* Repeated callbacks, recoveries in every iteration, restarts and unknown  *)
(* outcomes never create a child order twice, nor one that is not journaled *)
(* ("duplicate callbacks do not create duplicates",                         *)
(* docs/architecture_v1.md:68).                                             *)
(***************************************************************************)
ChildCreatedOnce ==
  \A r \in ExitRoles : sent[r] <= 1 /\ (sent[r] = 1 => Reserved(Link(r)))

(***************************************************************************)
(* However often the take profits are installed, from whatever position     *)
(* was read before the other thread or the exchange moved on, together they *)
(* never close more than the entry has traded (submit_take_profits).        *)
(***************************************************************************)
TargetsWithinEntry == SumOver(qty)[Len(Targets)] <= traded["entry"]

(***************************************************************************)
(* The journal books on a child only executions that took place, and calls  *)
(* it filled or cancelled only when the exchange has closed it              *)
(* (record_fill, acknowledge_order, record_exit_submission).                *)
(***************************************************************************)
ExitsFollowExchange ==
  \A r \in ExitRoles :
    /\ fills[Link(r)] \subseteq Executed(r)
    /\ ostatus[Link(r)] = "FILLED" => order[r] = "FILLED"
    /\ ostatus[Link(r)] \in FinalOrderStatuses => order[r] \in { "FILLED", "CANCELED", "REJECTED" }

(***************************************************************************)
(* New risk is stopped before the position is closed: the request of a time *)
(* exit leaves only with the kill switch set, and only for a position that  *)
(* was held too long (_enforce_max_holding).                                *)
(***************************************************************************)
RiskStoppedBeforeExit ==
  sent[TimeExit] > 0 => kill /\ overdue

(***************************************************************************)
(* Two threads submitting exits and a reconciliation write the journal only *)
(* as ExecutionStore lets them: what is proved of its steps holds here.     *)
(***************************************************************************)
ExitsKeepToStore == [][StoreNext]_storeVars

(***************************************************************************)
(* A filled entry does not stay without its targets unnoticed: they are     *)
(* journaled, or the kill switch calls the operator, or the position is     *)
(* closed or being closed, also when the stream loses the execution that    *)
(* completes the entry (_recover_take_profits).                             *)
(***************************************************************************)
ProtectedOrStopped ==
  state[Ticket] = "FILLED" ~>
    \/ \A r \in TargetRoles : Reserved(Link(r))
    \/ kill \/ position = 0 \/ Reserved(Link(TimeExit))

(***************************************************************************)
(* What becomes of a child order reaches the journal, even if the stream    *)
(* loses it, the answer to its creation comes late and the ticket is        *)
(* already terminal (reconciliation_ticket_ids).                            *)
(***************************************************************************)
ChildOutcomeReachesJournal ==
  \A r \in ExitRoles :
    order[r] \in { "FILLED", "CANCELED", "REJECTED" } ~>
      ostatus[Link(r)] \in FinalOrderStatuses

(***************************************************************************)
(* "Reduce-only exit submitted" (service_main.py:279) is logged when the    *)
(* request of the time exit has left, in this iteration or an earlier one.  *)
(***************************************************************************)
SubmittedWasSent == [][ExitSubmitted => sent[TimeExit] > 0]_vars

(***************************************************************************)
(* "Submit one auditable reduce-only close when a ticket's hold clock       *)
(* expires" (service_main.py:251): the journal refuses to reserve the close *)
(* only to a service that has lost the lease of the ticket.                 *)
(***************************************************************************)
OverdueIsClosed == [][RaiseJournal => ~Fenced(sess, Ticket)]_vars
=============================================================================
