--------------------------- MODULE ExecutionStore ---------------------------
(***************************************************************************)
(* The durable journal of the execution service: ticket_store.py.           *)
(*                                                                         *)
(* Every write of the store is one BEGIN IMMEDIATE transaction, so every    *)
(* method is one action; a method that raises rolls its transaction back    *)
(* and is no step at all, so what it would raise on is the negation of the  *)
(* action's guard.  The callers appear only through the arguments they can  *)
(* pass: this module is the journal under every interleaving of service     *)
(* instances, of the loop thread and of the private-stream thread.          *)
(*                                                                         *)
(* Abstractions.  An order's quantity and an execution's are counted in     *)
(* lots and an execution fills one lot.  A lease is live until it expires,  *)
(* at any moment.  order_link_id(ticket, role) is a hash: it is modelled by *)
(* the pair <<ticket, role>>.  Prices, fees and raw payloads are left out.  *)
(* A definition named Mutant... is a plausible bug, used by no behaviour.   *)
(***************************************************************************)
EXTENDS ExecutionState, Naturals, FiniteSets

CONSTANTS
  Tickets,      \* the operation tickets
  Cancels,      \* those among them whose intent is CANCEL
  Supersedes,   \* supersedes_ticket_id, a ticket or NoTicket
  Sessions,     \* service instances, each with a lease token of its own
  Execs,        \* exchange execution ids
  ExitRoles,    \* roles of the reduce-only child orders
  CommandRoles, \* roles of the journaled non-order operations
  Lots,         \* the quantity of an order
  MaxEpoch,     \* bound on the fencing epochs
  NoTicket, NoSession

ASSUME TicketsAssumption ==
  /\ NoTicket \notin Tickets
  /\ Cancels \subseteq Tickets
  /\ Supersedes \in [Tickets -> Tickets \cup {NoTicket}]
  /\ \A t \in Tickets : Supersedes[t] # t

ASSUME SessionsAssumption == NoSession \notin Sessions

ASSUME RolesAssumption == "entry" \notin ExitRoles

ASSUME NumbersAssumption ==
  Lots \in Nat \ {0} /\ MaxEpoch \in Nat \ {0} /\ IsFiniteSet(Execs)

VARIABLES
  state,    \* tickets.state, "ABSENT" when there is no row
  owner,    \* tickets.consumer_id with lease_token: the session of the lease
  epoch,    \* tickets.claim_epoch
  live,     \* the tickets whose lease_expires_at is in the future
  held,     \* held[s][t]: the epoch session s got from its last claim of t
  ostatus,  \* execution_orders.order_status, "NONE" when there is no row
  oid,      \* the orders whose bybit_order_id is known
  fills,    \* execution_fills: the executions booked on each order
  command,  \* execution_commands.status, "NONE" when there is no row
  receipt   \* the outbox row of the current receipt id, see Reported

leaseVars == <<owner, epoch, live, held>>
orderVars == <<ostatus, oid, fills>>
storeVars == <<state, owner, epoch, live, held, ostatus, oid, fills, command, receipt>>

Links == Tickets \X ({"entry"} \cup ExitRoles)
EntryOf(t) == <<t, "entry">>
TicketOf(l) == l[1]
IsEntry(l) == l[2] = "entry"
Commands == Tickets \X CommandRoles

FinalOrderStatuses == { "FILLED", "CANCELLED", "REJECTED", "DEACTIVATED" }

\* What the exchange may report, CANCELED in CCXT's spelling and CANCELLED in
\* Bybit's; NEW stands for every status that is not final.
RemoteStatuses == FinalOrderStatuses \cup { "NEW", "CANCELED" }

\* acknowledge_order upper-cases a status and unifies the two spellings.
Normalized(status) == IF status = "CANCELED" THEN "CANCELLED" ELSE status

OrderStatuses ==
  FinalOrderStatuses \cup
    { "NEW", "NONE", "CREATED", "REST_ACCEPTED", "CANCEL_REQUESTED", "PARTIALLY_FILLED" }

CommandStatuses ==
  { "NONE", "RESERVED", "REST_ACCEPTED", "CONFIRMED", "FAILED", "UNKNOWN" }

ReceiptStatuses == { "UNBUILT", "MATCHES", "DIFFERS" }

TypeOK ==
  /\ state \in [Tickets -> ExecutionStates \cup {"ABSENT"}]
  /\ owner \in [Tickets -> Sessions \cup {NoSession}]
  /\ epoch \in [Tickets -> Nat]
  /\ live \in SUBSET Tickets
  /\ held \in [Sessions -> [Tickets -> Nat]]
  /\ ostatus \in [Links -> OrderStatuses]
  /\ oid \in SUBSET Links
  /\ fills \in [Links -> SUBSET Execs]
  /\ command \in [Commands -> CommandStatuses]
  /\ receipt \in [Tickets -> ReceiptStatuses]

Exists(t) == state[t] # "ABSENT"
Reserved(l) == ostatus[l] # "NONE"
cum_exec_qty(l) == Cardinality(fills[l])

-----------------------------------------------------------------------------
(***************************************************************************)
(* Receipts.  A receipt id hashes the ticket, its state and the sequence of *)
(* its last event (execution_reporter.py), while the payload also carries   *)
(* updated_at, the rows of its orders and the position version.  receipt[t] *)
(* says of the outbox row under the id a rebuild would use now: there is    *)
(* none (UNBUILT), it holds what a rebuild would produce (MATCHES), or      *)
(* something in the payload has changed since (DIFFERS).  A step that       *)
(* appends an event to the tickets of `logged' gives them a new id; a step  *)
(* that only rewrites rows of the tickets of `rewritten' changes payloads.  *)
(***************************************************************************)
Reported(logged, rewritten) ==
  receipt' = [t \in Tickets |->
    IF t \in logged THEN "UNBUILT"
    ELSE IF t \in rewritten /\ receipt[t] = "MATCHES" THEN "DIFFERS"
    ELSE receipt[t]]

\* enqueue_receipt: a row under the same id with another payload is a conflict.
EnqueueConflict(t) == Exists(t) /\ receipt[t] = "DIFFERS"

EnqueueReceipt(t) ==
  /\ Exists(t)
  /\ ~EnqueueConflict(t)
  /\ receipt' = [receipt EXCEPT ![t] = "MATCHES"]
  /\ UNCHANGED <<state, leaseVars, orderVars, command>>

\* sync_position and save_position: a new position version of the symbol.
SavePosition ==
  /\ Reported({}, Tickets)
  /\ UNCHANGED <<state, leaseVars, orderVars, command>>

-----------------------------------------------------------------------------
Superseded(t) ==
  { old \in Tickets : /\ old = Supersedes[t]
                      /\ state[old] \notin TERMINAL_STATES \cup {"ABSENT"} }

\* A replay of a known ticket returns False and is no step.
Receive(t) ==
  /\ ~Exists(t)
  /\ \A old \in Superseded(t) : can_transition(state[old], "SUPERSEDED")
  /\ state' = [u \in Tickets |-> IF u = t THEN "RECEIVED"
                                 ELSE IF u \in Superseded(t) THEN "SUPERSEDED"
                                 ELSE state[u]]
  /\ Reported({t} \cup Superseded(t), {})
  /\ UNCHANGED <<leaseVars, orderVars, command>>

\* An update of the state column, with the event it appends.
SetState(t, target) ==
  /\ state' = [state EXCEPT ![t] = target]
  /\ Reported({t}, {})

Fenced(s, t) == /\ owner[t] # NoSession
                /\ t \in live
                /\ held[s][t] = epoch[t]

\* transition without a fence: validation, and reconciliation giving up.
UnfencedTargets == { "VALIDATED", "REJECTED", "EXPIRED", "FAILED" }

Transition(t, target) ==
  /\ Exists(t)
  /\ state[t] # target
  /\ can_transition(state[t], target)
  /\ SetState(t, target)
  /\ UNCHANGED <<leaseVars, orderVars, command>>

\* transition with a fence: risk decisions, and a CANCEL ticket's submission.
FencedTargets(t) ==
  { "RISK_APPROVED", "RISK_BLOCKED", "EXPIRED" }
    \cup (IF t \in Cancels THEN { "SUBMITTING" } ELSE {})

FencedTransition(s, t, target) ==
  /\ Fenced(s, t)
  /\ Transition(t, target)

-----------------------------------------------------------------------------
(* Leases and fencing epochs *)

same_lease(s, t) == owner[t] = s
OwnedByAnother(s, t) == t \in live /\ owner[t] # NoSession /\ ~same_lease(s, t)

MutantKeepsEpoch(s, t) == epoch[t]
NextEpoch(s, t) == IF same_lease(s, t) THEN epoch[t] ELSE epoch[t] + 1

TakeLease(s, t, e) ==
  /\ owner' = [owner EXCEPT ![t] = s]
  /\ epoch' = [epoch EXCEPT ![t] = e]
  /\ live' = live \cup {t}
  /\ held' = [held EXCEPT ![s][t] = e]

\* claim with the epoch e the control plane granted; None is no step.
ClaimableState(s, t) ==
  \/ state[t] = "VALIDATED"
  \/ state[t] \in { "CLAIMED", "RISK_APPROVED" } /\ (same_lease(s, t) \/ t \notin live)

ClaimGranted(s, t, e) ==
  /\ ~OwnedByAnother(s, t)
  /\ IF same_lease(s, t) THEN e = epoch[t] ELSE e > epoch[t]
  /\ ClaimableState(s, t)

Claim(s, t, e) ==
  /\ ClaimGranted(s, t, e)
  /\ TakeLease(s, t, e)
  /\ IF state[t] = "VALIDATED"
     THEN SetState(t, "CLAIMED")
     ELSE UNCHANGED state /\ Reported({}, {t})
  /\ UNCHANGED <<orderVars, command>>

\* claim_operation, for child orders, in any state of the ticket.
ClaimOperation(s, t) ==
  /\ Exists(t)
  /\ ~OwnedByAnother(s, t)
  /\ TakeLease(s, t, NextEpoch(s, t))
  /\ Reported({}, {t})
  /\ UNCHANGED <<state, orderVars, command>>

LeaseExpires(t) ==
  /\ t \in live
  /\ live' = live \ {t}
  /\ UNCHANGED <<state, owner, epoch, held, orderVars, command, receipt>>

-----------------------------------------------------------------------------
(* Journaled commands and orders: reserved before the network call *)

ReserveCommand(s, c) ==
  /\ command[c] = "NONE"
  /\ Exists(c[1])
  /\ Fenced(s, c[1])
  /\ command' = [command EXCEPT ![c] = "RESERVED"]
  /\ UNCHANGED <<state, leaseVars, orderVars, receipt>>

ConfirmCommand(c, status) ==
  /\ command[c] # "NONE"
  /\ status \in CommandStatuses \ { "NONE", "RESERVED" }
  /\ command' = [command EXCEPT ![c] = status]
  /\ UNCHANGED <<state, leaseVars, orderVars, receipt>>

\* A replay of a reserved order_link_id returns False and is no step.
ReserveOrder(s, t) ==
  /\ ~Reserved(EntryOf(t))
  /\ Fenced(s, t)
  /\ Exists(t)
  /\ can_transition(state[t], "SUBMITTING")
  /\ ostatus' = [ostatus EXCEPT ![EntryOf(t)] = "CREATED"]
  /\ SetState(t, "SUBMITTING")
  /\ UNCHANGED <<leaseVars, oid, fills, command>>

\* Exit protection can be reserved only after an entry fill.
ExitStates == { "PARTIALLY_FILLED", "FILLED" }

ReserveExitOrder(s, l) ==
  /\ ~IsEntry(l)
  /\ ~Reserved(l)
  /\ Fenced(s, TicketOf(l))
  /\ state[TicketOf(l)] \in ExitStates
  /\ ostatus' = [ostatus EXCEPT ![l] = "CREATED"]
  /\ Reported({TicketOf(l)}, {})
  /\ UNCHANGED <<state, leaseVars, oid, fills, command>>

-----------------------------------------------------------------------------
(* What the exchange answered or reported; `ids' is the order alone or {}  *)

Learn(l, ids) == ids \in { {}, {l} } /\ oid' = oid \cup ids

\* The ticket of l, if the step changes the row of l.
Rewritten(l) == IF ostatus'[l] # ostatus[l] \/ oid' # oid THEN {TicketOf(l)} ELSE {}

RecordRestSubmission(l, ids) ==
  /\ Reserved(l)
  /\ can_transition(state[TicketOf(l)], "SUBMITTED")
  /\ ostatus' = [ostatus EXCEPT ![l] = "REST_ACCEPTED"]
  /\ Learn(l, ids)
  /\ IF state[TicketOf(l)] = "SUBMITTED"
     THEN UNCHANGED state /\ Reported({}, Rewritten(l))
     ELSE SetState(TicketOf(l), "SUBMITTED")
  /\ UNCHANGED <<leaseVars, fills, command>>

RecordExitSubmission(l, ids) ==
  /\ Reserved(l)
  /\ ~IsEntry(l)
  /\ ostatus' = [ostatus EXCEPT ![l] = "REST_ACCEPTED"]
  /\ Learn(l, ids)
  /\ Reported({TicketOf(l)}, {})
  /\ UNCHANGED <<state, leaseVars, fills, command>>

\* The ticket state an order report asks for: its present one when none.
AckTarget(l, status) ==
  LET s == state[TicketOf(l)] IN
  IF ~IsEntry(l) THEN s
  ELSE IF status \in { "CANCELLED", "DEACTIVATED" } /\ s \notin { "FILLED", "CANCELLED" }
    THEN "CANCELLED"
  ELSE IF status = "REJECTED" /\ s \notin TERMINAL_STATES THEN "FAILED"
  ELSE IF status \notin FinalOrderStatuses /\ s \in { "SUBMITTING", "SUBMITTED" }
    THEN "ACKNOWLEDGED"
  ELSE s

\* A late report does not overwrite a final status, except that FILLED wins.
should_update(l, status) == ostatus[l] \notin FinalOrderStatuses \/ status = "FILLED"

AcknowledgeOrder(l, raw, ids) ==
  LET t == TicketOf(l)
      status == Normalized(raw)
      target == AckTarget(l, status)
  IN
  /\ Reserved(l)
  /\ can_transition(state[t], target)
  /\ IF should_update(l, status)
     THEN ostatus' = [ostatus EXCEPT ![l] = status] /\ Learn(l, ids)
     ELSE ids = {} /\ UNCHANGED <<ostatus, oid>>
  /\ state' = [state EXCEPT ![t] = target]
  /\ Reported(IF target # state[t] \/ ~IsEntry(l) THEN {t} ELSE {},
              Rewritten(l))
  /\ UNCHANGED <<leaseVars, fills, command>>

RecordCancelRequested(l) ==
  /\ Reserved(l)
  /\ ostatus' = [ostatus EXCEPT ![l] =
       IF @ \in { "FILLED", "CANCELLED" } THEN @ ELSE "CANCEL_REQUESTED"]
  /\ Reported({TicketOf(l)}, {})
  /\ UNCHANGED <<state, leaseVars, oid, fills, command>>

\* The state a fill asks of the ticket, once the lots in `booked' are filled.
MutantNeverExact(booked) ==
  IF Cardinality(booked) > Lots THEN "FILLED" ELSE "PARTIALLY_FILLED"

FillTarget(booked) ==
  IF Cardinality(booked) >= Lots THEN "FILLED" ELSE "PARTIALLY_FILLED"

KnownExec(e, l) == \E k \in Links : e \in fills[k]

\* An exit is reserved for a quantity of its own: any execution may complete it.
FillTargets(l, booked) ==
  IF IsEntry(l) THEN { FillTarget(booked) } ELSE { "PARTIALLY_FILLED", "FILLED" }

\* A known exec_id returns False and is no step.
BookFill(e, l, target) ==
  LET t == TicketOf(l) IN
  /\ ~KnownExec(e, l)
  /\ Reserved(l)
  /\ IsEntry(l) => can_transition(state[t], target)
  /\ fills' = [fills EXCEPT ![l] = @ \cup {e}]
  /\ ostatus' = [ostatus EXCEPT ![l] = target]
  /\ \E ids \in { {}, {l} } : Learn(l, ids)
  /\ IF IsEntry(l) THEN state' = [state EXCEPT ![t] = target] ELSE UNCHANGED state
  /\ Reported(IF IsEntry(l) /\ state[t] = target THEN {} ELSE {t}, {t})
  /\ UNCHANGED <<leaseVars, command>>

RecordFill(e, l) ==
  \E target \in FillTargets(l, fills[l] \cup {e}) : BookFill(e, l, target)

\* confirm_cancellation: the CANCEL ticket c and the ticket of its target l.
ConfirmCancellation(c, l) ==
  LET t == TicketOf(l) IN
  /\ Reserved(l)
  /\ Exists(c)
  /\ can_transition(state[c], "CANCELLED")
  /\ can_transition(state[t], "CANCELLED")
  /\ ostatus' = [ostatus EXCEPT ![l] = "CANCELLED"]
  /\ state' = [state EXCEPT ![c] = "CANCELLED", ![t] = "CANCELLED"]
  /\ Reported(IF state[t] = "CANCELLED" THEN {c} ELSE {c, t}, {t})
  /\ UNCHANGED <<leaseVars, oid, fills, command>>

-----------------------------------------------------------------------------
StoreInit ==
  /\ state = [t \in Tickets |-> "ABSENT"]
  /\ owner = [t \in Tickets |-> NoSession]
  /\ epoch = [t \in Tickets |-> 0]
  /\ live = {}
  /\ held = [s \in Sessions |-> [t \in Tickets |-> 0]]
  /\ ostatus = [l \in Links |-> "NONE"]
  /\ oid = {}
  /\ fills = [l \in Links |-> {}]
  /\ command = [c \in Commands |-> "NONE"]
  /\ receipt = [t \in Tickets |-> "UNBUILT"]

Entries == { EntryOf(t) : t \in Tickets \ Cancels }

TicketStep ==
  \E t \in Tickets :
    \/ Receive(t)
    \/ \E target \in UnfencedTargets : Transition(t, target)
    \/ LeaseExpires(t)
    \/ EnqueueReceipt(t)

SessionStep ==
  \E s \in Sessions, t \in Tickets :
    \/ \E target \in FencedTargets(t) : FencedTransition(s, t, target)
    \/ \E e \in 1..MaxEpoch : Claim(s, t, e)
    \/ epoch[t] < MaxEpoch /\ ClaimOperation(s, t)
    \/ \E r \in CommandRoles : ReserveCommand(s, <<t, r>>)
    \/ t \notin Cancels /\ ReserveOrder(s, t)
    \/ \E r \in ExitRoles : ReserveExitOrder(s, <<t, r>>)

OrderStep ==
  \E l \in Links, ids \in SUBSET Links :
    \/ IsEntry(l) /\ RecordRestSubmission(l, ids)
    \/ \E r \in ExitRoles : l = <<TicketOf(l), r>> /\ RecordExitSubmission(l, ids)
    \/ \E status \in RemoteStatuses : AcknowledgeOrder(l, status, ids)

ReportStep ==
  \/ \E l \in Links : IsEntry(l) /\ RecordCancelRequested(l)
  \/ \E l \in Links, e \in Execs : RecordFill(e, l)
  \/ \E c \in Cancels, l \in Entries : ConfirmCancellation(c, l)
  \/ \E c \in Commands, status \in CommandStatuses : ConfirmCommand(c, status)
  \/ SavePosition

StoreNext == TicketStep \/ SessionStep \/ OrderStep \/ ReportStep

StoreSpec == StoreInit /\ [][StoreNext]_storeVars

-----------------------------------------------------------------------------
(* Properties *)

(***************************************************************************)
(* The ticket's state and the executions booked on its entry order agree,   *)
(* whatever order cancellations, order reports and fills arrive in: FILLED  *)
(* exactly when every lot is booked, PARTIALLY_FILLED only when some lot    *)
(* is, and a booked lot is never hidden by a state that claims that nothing *)
(* was traded (record_fill, acknowledge_order, confirm_cancellation).       *)
(***************************************************************************)
FillsDecideTheState ==
  \A t \in Tickets :
    LET n == cum_exec_qty(EntryOf(t)) IN
    /\ state[t] = "FILLED" <=> n >= Lots
    /\ state[t] = "PARTIALLY_FILLED" => n > 0
    /\ n > 0 => state[t] \in
         { "PARTIALLY_FILLED", "FILLED", "CANCELLED", "SUPERSEDED", "FAILED" }

(***************************************************************************)
(* A ticket that claims that its order may be at the exchange has journaled *)
(* it, and a ticket refused before submission (REJECTED, EXPIRED,           *)
(* RISK_BLOCKED) has not: no order can hide behind a state that             *)
(* reconciliation takes for never submitted (reserve_order).                *)
(***************************************************************************)
JournaledBeforeWorking ==
  \A t \in Tickets :
    /\ state[t] \in WorkingStates /\ t \notin Cancels => Reserved(EntryOf(t))
    /\ Reserved(EntryOf(t)) =>
         state[t] \in WorkingStates \cup { "FILLED", "CANCELLED", "FAILED", "SUPERSEDED" }

(***************************************************************************)
(* A reduce-only child order exists only on a ticket whose entry has traded *)
(* (reserve_exit_order), also after later cancellations and failures.       *)
(***************************************************************************)
ExitOnlyAfterEntryFill ==
  \A l \in Links : ~IsEntry(l) /\ Reserved(l) => fills[EntryOf(TicketOf(l))] # {}

(***************************************************************************)
(* exec_id deduplicates executions over the whole journal, so that replays  *)
(* by the stream and by reconciliation book a trade once and on a journaled *)
(* order (record_fill).                                                     *)
(***************************************************************************)
ExecutionBookedOnce ==
  /\ \A k, l \in Links : k # l => fills[k] \cap fills[l] = {}
  /\ \A l \in Links : fills[l] # {} => Reserved(l)

(***************************************************************************)
(* Once every lot of an entry order is booked its row says FILLED and no    *)
(* late report, REST answer or cancellation takes that back ("a late New    *)
(* does not turn FILLED back", docs/architecture_v1.md:58).                 *)
(***************************************************************************)
FilledEntrySticks ==
  \A t \in Tickets :
    cum_exec_qty(EntryOf(t)) >= Lots => ostatus[EntryOf(t)] = "FILLED"

(***************************************************************************)
(* Two service instances never hold a valid fence on the same ticket, so an *)
(* expired worker cannot reserve an order or a command beside its successor *)
(* (claim, claim_operation; docs/architecture_v3_release_candidate.md:116). *)
(***************************************************************************)
FenceExclusive ==
  \A r, s \in Sessions, t \in Tickets : Fenced(r, t) /\ Fenced(s, t) => r = s

(***************************************************************************)
(* A terminal ticket is final: only the booking of a fill on its own entry  *)
(* order moves it, and only out of CANCELLED or SUPERSEDED ("the only       *)
(* terminal upgrade", execution_state.py:68).                               *)
(***************************************************************************)
TerminalUpgradedOnlyByFill ==
  [][\A t \in Tickets :
       state[t] \in TERMINAL_STATES /\ state'[t] # state[t] =>
         /\ state[t] \in { "CANCELLED", "SUPERSEDED" }
         /\ fills'[EntryOf(t)] # fills[EntryOf(t)]]_storeVars

(***************************************************************************)
(* The epoch of a ticket never goes back, and moves forward whenever the    *)
(* lease changes hands: what makes an old worker's epoch permanently stale  *)
(* (claim_operation's comment, ticket_store.py:552).                        *)
(***************************************************************************)
EpochFencesOut ==
  [][\A t \in Tickets :
       /\ epoch'[t] >= epoch[t]
       /\ owner'[t] # owner[t] => epoch'[t] > epoch[t]]_storeVars
=============================================================================
