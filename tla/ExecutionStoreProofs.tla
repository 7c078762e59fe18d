------------------------ MODULE ExecutionStoreProofs ------------------------
(***************************************************************************)
(* Theorems about the execution journal, for every set of tickets, service  *)
(* instances, executions and roles.                                         *)
(***************************************************************************)
EXTENDS ExecutionStore, FiniteSetTheorems, TLAPS

(***************************************************************************)
(* The inductive invariant.  FenceExclusive is not inductive: what keeps    *)
(* two instances apart is that an epoch is remembered by others only as a   *)
(* smaller one.  The remaining parts support each other: an execution is    *)
(* booked only on a reserved order, a reserved entry order keeps its ticket *)
(* among the states that may have traded, and there the fills decide.       *)
(***************************************************************************)
LeaseInv ==
  \A s \in Sessions, t \in Tickets :
    /\ held[s][t] <= epoch[t]
    /\ held[s][t] = epoch[t] /\ epoch[t] > 0 => owner[t] = s
    /\ owner[t] # NoSession => epoch[t] > 0

JournalInv ==
  /\ JournaledBeforeWorking
  /\ ExecutionBookedOnce
  /\ FillsDecideTheState
  /\ FilledEntrySticks
  /\ ExitOnlyAfterEntryFill

IInv == TypeOK /\ LeaseInv /\ JournalInv

TradedStates == { "PARTIALLY_FILLED", "FILLED", "CANCELLED", "SUPERSEDED", "FAILED" }
EntryStates == WorkingStates \cup { "FILLED", "CANCELLED", "FAILED", "SUPERSEDED" }

-----------------------------------------------------------------------------
(* The transition table *)

\* What the table allows out of a state in which the entry may have traded.
LEMMA TableClosed ==
  ASSUME NEW a, NEW b, can_transition(a, b)
  PROVE  /\ a \in TradedStates => b \in TradedStates
         /\ a \in EntryStates => b \in EntryStates
         /\ a = "FILLED" => b = "FILLED"
         /\ b = "SUBMITTING" => a \in { "RISK_APPROVED", "SUBMITTING" }
         /\ a \in TERMINAL_STATES /\ a # b =>
              /\ a \in { "CANCELLED", "SUPERSEDED" }
              /\ b \in { "PARTIALLY_FILLED", "FILLED" }
BY DEF can_transition, ALLOWED_TRANSITIONS, TradedStates, EntryStates,
       WorkingStates, TERMINAL_STATES

\* The table leads only to states.
LEMMA TableTyped ==
  ASSUME NEW a \in ExecutionStates \cup {"ABSENT"}, NEW b, can_transition(a, b)
  PROVE  b \in ExecutionStates \cup {"ABSENT"}
BY DEF can_transition, ALLOWED_TRANSITIONS, ExecutionStates
-----------------------------------------------------------------------------
(* Types *)

\* Links, entries and tickets belong together.
LEMMA LinkFacts ==
  /\ \A t \in Tickets : EntryOf(t) \in Links /\ TicketOf(EntryOf(t)) = t
                        /\ IsEntry(EntryOf(t))
  /\ \A l \in Links : TicketOf(l) \in Tickets
                      /\ (IsEntry(l) => l = EntryOf(TicketOf(l)))
BY RolesAssumption DEF Links, EntryOf, TicketOf, IsEntry

\* An order report asks for a state.
LEMMA AckTargetTyped ==
  ASSUME TypeOK, NEW l \in Links, NEW status
  PROVE  AckTarget(l, status) \in ExecutionStates \cup {"ABSENT"}
BY LinkFacts DEF TypeOK, AckTarget, ExecutionStates

\* An order report asks for the present state or for one that claims no fill.
LEMMA AckTargetQuiet ==
  ASSUME NEW l, NEW status
  PROVE  \/ AckTarget(l, status) = state[TicketOf(l)]
         \/ AckTarget(l, status) \in { "CANCELLED", "FAILED" }
         \/ /\ AckTarget(l, status) = "ACKNOWLEDGED"
            /\ state[TicketOf(l)] \in { "SUBMITTING", "SUBMITTED" }
            /\ IsEntry(l)
BY DEF AckTarget

\* A step leaves each receipt in one of its three conditions.
LEMMA ReportedTyped ==
  ASSUME TypeOK, NEW A, NEW B, Reported(A, B)
  PROVE  receipt' \in [Tickets -> ReceiptStatuses]
BY DEF TypeOK, Reported, ReceiptStatuses

\* The empty journal has its types.
LEMMA TypeInit == StoreInit => TypeOK
BY DEF StoreInit, TypeOK, Links, Commands, OrderStatuses, CommandStatuses,
       ReceiptStatuses, ExecutionStates

\* Steps of tickets alone keep the types.
LEMMA TypeTicketStep == TypeOK /\ TicketStep => TypeOK'
<1> SUFFICES ASSUME TypeOK, NEW t \in Tickets,
                    \/ Receive(t)
                    \/ \E target \in UnfencedTargets : Transition(t, target)
                    \/ LeaseExpires(t)
                    \/ EnqueueReceipt(t)
             PROVE  TypeOK'
  BY DEF TicketStep
<1>1. CASE Receive(t)
  <2>1. receipt' \in [Tickets -> ReceiptStatuses]
    BY <1>1, ReportedTyped DEF Receive
  <2>2. state' \in [Tickets -> ExecutionStates \cup {"ABSENT"}]
    BY <1>1 DEF Receive, TypeOK, ExecutionStates
  <2> QED BY <1>1, <2>1, <2>2 DEF Receive, TypeOK, leaseVars, orderVars
<1>2. CASE \E target \in UnfencedTargets : Transition(t, target)
  <2>1. PICK target \in UnfencedTargets : Transition(t, target)
    BY <1>2
  <2>2. receipt' \in [Tickets -> ReceiptStatuses]
    BY <2>1, ReportedTyped DEF Transition, SetState
  <2> QED BY <2>1, <2>2 DEF Transition, SetState, UnfencedTargets, ExecutionStates,
                            TypeOK, leaseVars, orderVars
<1>3. CASE LeaseExpires(t)
  BY <1>3 DEF LeaseExpires, TypeOK, orderVars
<1>4. CASE EnqueueReceipt(t)
  BY <1>4 DEF EnqueueReceipt, TypeOK, ReceiptStatuses, leaseVars, orderVars
<1> QED BY <1>1, <1>2, <1>3, <1>4

\* Taking a lease keeps its columns typed.
LEMMA TakeLeaseTyped ==
  ASSUME TypeOK, NEW s \in Sessions, NEW t \in Tickets, NEW e \in Nat, TakeLease(s, t, e)
  PROVE  /\ owner' \in [Tickets -> Sessions \cup {NoSession}]
         /\ epoch' \in [Tickets -> Nat]
         /\ live' \in SUBSET Tickets
         /\ held' \in [Sessions -> [Tickets -> Nat]]
BY DEF TypeOK, TakeLease

\* Steps of a service instance keep the types.
LEMMA TypeSessionStep == TypeOK /\ SessionStep => TypeOK'
<1> SUFFICES ASSUME TypeOK, NEW s \in Sessions, NEW t \in Tickets,
                    \/ \E target \in FencedTargets(t) : FencedTransition(s, t, target)
                    \/ \E e \in 1..MaxEpoch : Claim(s, t, e)
                    \/ ClaimOperation(s, t)
                    \/ \E r \in CommandRoles : ReserveCommand(s, <<t, r>>)
                    \/ ReserveOrder(s, t)
                    \/ \E r \in ExitRoles : ReserveExitOrder(s, <<t, r>>)
             PROVE  TypeOK'
  BY DEF SessionStep
<1>1. CASE \E target \in FencedTargets(t) : FencedTransition(s, t, target)
  <2>1. PICK target \in FencedTargets(t) : Transition(t, target)
    BY <1>1 DEF FencedTransition
  <2>2. receipt' \in [Tickets -> ReceiptStatuses]
    BY <2>1, ReportedTyped DEF Transition, SetState
  <2>3. target \in ExecutionStates
    BY DEF FencedTargets, ExecutionStates
  <2> QED BY <2>1, <2>2, <2>3 DEF Transition, SetState, TypeOK, leaseVars, orderVars
<1>2. CASE \E e \in 1..MaxEpoch : Claim(s, t, e)
  <2>1. PICK e \in Nat : Claim(s, t, e)
    BY <1>2, NumbersAssumption
  <2>2. receipt' \in [Tickets -> ReceiptStatuses]
    BY <2>1, ReportedTyped DEF Claim, SetState
  <2>3. state' \in [Tickets -> ExecutionStates \cup {"ABSENT"}]
    BY <2>1 DEF Claim, SetState, TypeOK, ExecutionStates
  <2> QED BY <2>1, <2>2, <2>3, TakeLeaseTyped DEF Claim, TypeOK, orderVars
<1>3. CASE ClaimOperation(s, t)
  <2>1. receipt' \in [Tickets -> ReceiptStatuses]
    BY <1>3, ReportedTyped DEF ClaimOperation
  <2>2. NextEpoch(s, t) \in Nat
    BY DEF NextEpoch, TypeOK
  <2> QED BY <1>3, <2>1, <2>2, TakeLeaseTyped DEF ClaimOperation, TypeOK, orderVars
<1>4. CASE \E r \in CommandRoles : ReserveCommand(s, <<t, r>>)
  BY <1>4 DEF ReserveCommand, TypeOK, CommandStatuses, Commands, leaseVars, orderVars
<1>5. CASE ReserveOrder(s, t)
  <2>1. receipt' \in [Tickets -> ReceiptStatuses]
    BY <1>5, ReportedTyped DEF ReserveOrder, SetState
  <2> QED BY <1>5, <2>1 DEF ReserveOrder, SetState, TypeOK, ExecutionStates,
                            OrderStatuses, leaseVars
<1>6. CASE \E r \in ExitRoles : ReserveExitOrder(s, <<t, r>>)
  <2>1. PICK l : ReserveExitOrder(s, l)
    BY <1>6
  <2>2. receipt' \in [Tickets -> ReceiptStatuses]
    BY <2>1, ReportedTyped DEF ReserveExitOrder
  <2> QED BY <2>1, <2>2 DEF ReserveExitOrder, TypeOK, OrderStatuses, leaseVars
<1> QED BY <1>1, <1>2, <1>3, <1>4, <1>5, <1>6

\* What the exchange answered keeps the types.
LEMMA TypeOrderStep == TypeOK /\ OrderStep => TypeOK'
<1> SUFFICES ASSUME TypeOK, NEW l \in Links, NEW ids \in SUBSET Links,
                    \/ RecordRestSubmission(l, ids)
                    \/ RecordExitSubmission(l, ids)
                    \/ \E status \in RemoteStatuses : AcknowledgeOrder(l, status, ids)
             PROVE  TypeOK'
  BY DEF OrderStep
<1>1. CASE RecordRestSubmission(l, ids)
  <2>1. receipt' \in [Tickets -> ReceiptStatuses]
    BY <1>1, ReportedTyped DEF RecordRestSubmission, SetState
  <2>2. state' \in [Tickets -> ExecutionStates \cup {"ABSENT"}]
    BY <1>1 DEF RecordRestSubmission, SetState, TypeOK, ExecutionStates
  <2> QED BY <1>1, <2>1, <2>2 DEF RecordRestSubmission, Learn, TypeOK, OrderStatuses,
                                  leaseVars
<1>2. CASE RecordExitSubmission(l, ids)
  <2>1. receipt' \in [Tickets -> ReceiptStatuses]
    BY <1>2, ReportedTyped DEF RecordExitSubmission
  <2> QED BY <1>2, <2>1 DEF RecordExitSubmission, Learn, TypeOK, OrderStatuses, leaseVars
<1>3. CASE \E status \in RemoteStatuses : AcknowledgeOrder(l, status, ids)
  <2>1. PICK raw \in RemoteStatuses : AcknowledgeOrder(l, raw, ids)
    BY <1>3
  <2>2. Normalized(raw) \in OrderStatuses
    BY DEF Normalized, RemoteStatuses, OrderStatuses, FinalOrderStatuses
  <2>3. receipt' \in [Tickets -> ReceiptStatuses]
    BY <2>1, ReportedTyped DEF AcknowledgeOrder
  <2>4. state' \in [Tickets -> ExecutionStates \cup {"ABSENT"}]
    BY <2>1, AckTargetTyped DEF AcknowledgeOrder, TypeOK
  <2> QED BY <2>1, <2>2, <2>3, <2>4 DEF AcknowledgeOrder, Learn, TypeOK, leaseVars
<1> QED BY <1>1, <1>2, <1>3

\* Booking an execution fills its order in part or in full; the lots decide an entry's.
LEMMA FillFacts ==
  ASSUME NEW l \in Links, NEW e \in Execs, RecordFill(e, l)
  PROVE  \E target \in { "FILLED", "PARTIALLY_FILLED" } :
           /\ BookFill(e, l, target)
           /\ IsEntry(l) => target = FillTarget(fills[l] \cup {e})
BY DEF RecordFill, FillTargets, FillTarget

\* What the exchange reported keeps the types.
LEMMA TypeReportStep == TypeOK /\ ReportStep => TypeOK'
<1> SUFFICES ASSUME TypeOK, ReportStep PROVE TypeOK'
  OBVIOUS
<1>1. CASE \E l \in Links : IsEntry(l) /\ RecordCancelRequested(l)
  <2>1. PICK l \in Links : RecordCancelRequested(l)
    BY <1>1
  <2>2. receipt' \in [Tickets -> ReceiptStatuses]
    BY <2>1, ReportedTyped DEF RecordCancelRequested
  <2> QED BY <2>1, <2>2 DEF RecordCancelRequested, TypeOK, OrderStatuses,
                            FinalOrderStatuses, leaseVars
<1>2. CASE \E l \in Links, e \in Execs : RecordFill(e, l)
  <2>0. PICK l \in Links, e \in Execs : RecordFill(e, l)
    BY <1>2
  <2>1. PICK target \in { "FILLED", "PARTIALLY_FILLED" } : BookFill(e, l, target)
    BY <2>0, FillFacts
  <2>2. receipt' \in [Tickets -> ReceiptStatuses]
    BY <2>1, ReportedTyped DEF BookFill
  <2>3. target \in ExecutionStates \cap OrderStatuses
    BY DEF ExecutionStates, OrderStatuses, FinalOrderStatuses
  <2>4. state' \in [Tickets -> ExecutionStates \cup {"ABSENT"}]
    BY <2>1, <2>3 DEF BookFill, TypeOK
  <2>5. ostatus' \in [Links -> OrderStatuses] /\ fills' \in [Links -> SUBSET Execs]
    BY <2>1, <2>3 DEF BookFill, TypeOK
  <2>6. oid' \in SUBSET Links
    BY <2>1 DEF BookFill, Learn, TypeOK
  <2> QED BY <2>1, <2>2, <2>4, <2>5, <2>6 DEF BookFill, TypeOK, leaseVars
<1>3. CASE \E c \in Cancels, l \in Entries : ConfirmCancellation(c, l)
  <2>1. PICK c \in Cancels, l \in Entries : ConfirmCancellation(c, l)
    BY <1>3
  <2>2. receipt' \in [Tickets -> ReceiptStatuses]
    BY <2>1, ReportedTyped DEF ConfirmCancellation
  <2>3. state' \in [Tickets -> ExecutionStates \cup {"ABSENT"}]
    BY <2>1 DEF ConfirmCancellation, TypeOK, ExecutionStates
  <2>4. ostatus' \in [Links -> OrderStatuses]
    BY <2>1 DEF ConfirmCancellation, TypeOK, OrderStatuses, FinalOrderStatuses
  <2> QED BY <2>1, <2>2, <2>3, <2>4 DEF ConfirmCancellation, TypeOK, leaseVars
<1>4. CASE \E c \in Commands, status \in CommandStatuses : ConfirmCommand(c, status)
  BY <1>4 DEF ConfirmCommand, TypeOK, leaseVars, orderVars
<1>5. CASE SavePosition
  <2>1. receipt' \in [Tickets -> ReceiptStatuses]
    BY <1>5, ReportedTyped DEF SavePosition
  <2> QED BY <1>5, <2>1 DEF SavePosition, TypeOK, leaseVars, orderVars
<1> QED BY <1>1, <1>2, <1>3, <1>4, <1>5 DEF ReportStep

\* Each step of the journal keeps the types.
LEMMA TypeStep == TypeOK /\ [StoreNext]_storeVars => TypeOK'
<1>1. TypeOK /\ UNCHANGED storeVars => TypeOK'
  BY DEF TypeOK, storeVars
<1> QED BY <1>1, TypeTicketStep, TypeSessionStep, TypeOrderStep, TypeReportStep
        DEF StoreNext

\* The journal only ever holds values of their types: of the states, a state
\* of the table; of the order statuses, one spelling of CANCELLED.
THEOREM StoreTypes == StoreSpec => []TypeOK
<1> QED BY TypeInit, TypeStep, PTL DEF StoreSpec
-----------------------------------------------------------------------------
(* Leases *)

\* No epoch has been granted in the empty journal.
LEMMA LeaseInit == StoreInit => LeaseInv
BY DEF StoreInit, LeaseInv

\* A lease taken with the present epoch by its holder, or with a later one.
LEMMA TakeLeaseKeeps ==
  ASSUME TypeOK, LeaseInv,
         NEW s \in Sessions, NEW t \in Tickets, NEW e \in Nat, TakeLease(s, t, e),
         IF same_lease(s, t) THEN e = epoch[t] ELSE e > epoch[t]
  PROVE  LeaseInv'
<1> SUFFICES ASSUME NEW r \in Sessions, NEW u \in Tickets
             PROVE  /\ held'[r][u] <= epoch'[u]
                    /\ held'[r][u] = epoch'[u] /\ epoch'[u] > 0 => owner'[u] = r
                    /\ owner'[u] # NoSession => epoch'[u] > 0
  BY DEF LeaseInv
<1>1. CASE u # t
  BY <1>1 DEF LeaseInv, TypeOK, TakeLease
<1>2. CASE u = t
  <2>1. /\ epoch'[t] = e
        /\ owner'[t] = s
        /\ held'[r][t] = IF r = s THEN e ELSE held[r][t]
    BY DEF TypeOK, TakeLease
  <2>2. /\ held[r][t] \in Nat /\ epoch[t] \in Nat
        /\ held[r][t] <= epoch[t]
        /\ held[r][t] = epoch[t] /\ epoch[t] > 0 => owner[t] = r
        /\ owner[t] # NoSession => epoch[t] > 0
    BY DEF LeaseInv, TypeOK
  <2>3. CASE same_lease(s, t)
    BY <1>2, <2>1, <2>2, <2>3, SessionsAssumption DEF same_lease
  <2>4. CASE ~same_lease(s, t)
    BY <1>2, <2>1, <2>2, <2>4
  <2> QED BY <2>3, <2>4
<1> QED BY <1>1, <1>2

\* What a step may do to the leases: nothing, let one expire, or take one.
LEMMA LeaseCases ==
  ASSUME TypeOK, StoreNext
  PROVE  \/ UNCHANGED <<owner, epoch, held>>
         \/ \E s \in Sessions, t \in Tickets, e \in Nat :
              /\ TakeLease(s, t, e)
              /\ IF same_lease(s, t) THEN e = epoch[t] ELSE e > epoch[t]
<1>1. CASE TicketStep
  BY <1>1 DEF TicketStep, Receive, Transition, LeaseExpires, EnqueueReceipt, leaseVars
<1>2. CASE SessionStep
  <2>1. PICK s \in Sessions, t \in Tickets :
          \/ \E target \in FencedTargets(t) : FencedTransition(s, t, target)
          \/ \E e \in 1..MaxEpoch : Claim(s, t, e)
          \/ ClaimOperation(s, t)
          \/ \E r \in CommandRoles : ReserveCommand(s, <<t, r>>)
          \/ ReserveOrder(s, t)
          \/ \E r \in ExitRoles : ReserveExitOrder(s, <<t, r>>)
    BY <1>2 DEF SessionStep
  <2>2. CASE \E e \in 1..MaxEpoch : Claim(s, t, e)
    <3>1. PICK e \in Nat : Claim(s, t, e)
      BY <2>2, NumbersAssumption
    <3> QED BY <3>1 DEF Claim, ClaimGranted
  <2>3. CASE ClaimOperation(s, t)
    <3>1. NextEpoch(s, t) \in Nat
      BY DEF NextEpoch, TypeOK
    <3>2. IF same_lease(s, t) THEN NextEpoch(s, t) = epoch[t] ELSE NextEpoch(s, t) > epoch[t]
      BY DEF NextEpoch, TypeOK
    <3> QED BY <2>3, <3>1, <3>2 DEF ClaimOperation
  <2> QED BY <2>1, <2>2, <2>3 DEF FencedTransition, Transition, ReserveCommand,
                                  ReserveOrder, ReserveExitOrder, leaseVars
<1>3. CASE OrderStep
  BY <1>3 DEF OrderStep, RecordRestSubmission, RecordExitSubmission, AcknowledgeOrder,
              leaseVars
<1>4. CASE ReportStep
  BY <1>4 DEF ReportStep, RecordCancelRequested, RecordFill, BookFill,
              ConfirmCancellation, ConfirmCommand, SavePosition, leaseVars
<1> QED BY <1>1, <1>2, <1>3, <1>4 DEF StoreNext

\* Each step keeps what the epochs say of the owners.
LEMMA LeaseStep == TypeOK /\ LeaseInv /\ [StoreNext]_storeVars => LeaseInv'
<1>1. TypeOK /\ LeaseInv /\ UNCHANGED <<owner, epoch, held>> => LeaseInv'
  BY DEF LeaseInv
<1>2. TypeOK /\ LeaseInv /\ StoreNext => LeaseInv'
  BY <1>1, LeaseCases, TakeLeaseKeeps
<1> QED BY <1>1, <1>2 DEF storeVars

\* Of two service instances at most one holds a valid fence on a ticket.
THEOREM FencesExclude == StoreSpec => []FenceExclusive
<1>1. TypeOK /\ LeaseInv => FenceExclusive
  BY DEF TypeOK, LeaseInv, FenceExclusive, Fenced
<1> QED BY <1>1, TypeInit, TypeStep, LeaseInit, LeaseStep, PTL DEF StoreSpec

\* Whenever a lease changes hands its epoch grows, and it never shrinks.
THEOREM EpochsFenceOut == StoreSpec => EpochFencesOut
<1> DEFINE Forward == \A t \in Tickets :
             /\ epoch'[t] >= epoch[t]
             /\ owner'[t] # owner[t] => epoch'[t] > epoch[t]
<1>1. TypeOK /\ UNCHANGED <<owner, epoch, held>> => Forward
  BY DEF TypeOK
<1>2. ASSUME TypeOK, NEW s \in Sessions, NEW t \in Tickets, NEW e \in Nat,
             TakeLease(s, t, e),
             IF same_lease(s, t) THEN e = epoch[t] ELSE e > epoch[t]
      PROVE  Forward
  BY <1>2 DEF TypeOK, TakeLease, same_lease
<1>3. TypeOK /\ [StoreNext]_storeVars => [Forward]_storeVars
  BY <1>1, <1>2, LeaseCases DEF storeVars
<1> QED BY <1>3, StoreTypes, PTL DEF StoreSpec, EpochFencesOut
-----------------------------------------------------------------------------
(***************************************************************************)
(* The journal.  Every step but the booking of a fill is quiet: it leaves   *)
(* the executions alone, no ticket enters PARTIALLY_FILLED or FILLED, and   *)
(* an order is reserved only as the guards of reserve_order and             *)
(* reserve_exit_order allow.                                                *)
(***************************************************************************)
QuietState(t) ==
  \/ state'[t] = state[t]
  \/ state[t] = "ABSENT" /\ state'[t] = "RECEIVED"
  \/ /\ can_transition(state[t], state'[t])
     /\ state'[t] \notin { "PARTIALLY_FILLED", "FILLED" }

QuietTicket(t) ==
  /\ QuietState(t)
  /\ state'[t] \in WorkingStates /\ t \notin Cancels =>
       state[t] \in WorkingStates \/ ostatus'[EntryOf(t)] # "NONE"

QuietOrder(l) ==
  /\ Reserved(l) => ostatus'[l] # "NONE"
  /\ ~Reserved(l) /\ ostatus'[l] # "NONE" =>
       IF IsEntry(l) THEN state'[TicketOf(l)] = "SUBMITTING"
                     ELSE state[TicketOf(l)] \in ExitStates
  /\ IsEntry(l) /\ state[TicketOf(l)] = "FILLED" /\ ostatus[l] = "FILLED" =>
       ostatus'[l] = "FILLED"

Quiet ==
  /\ fills' = fills
  /\ \A t \in Tickets : QuietTicket(t)
  /\ \A l \in Links : QuietOrder(l)

\* Steps of tickets alone are quiet.
LEMMA QuietTicketStep == TypeOK /\ TicketStep => Quiet
<1> SUFFICES ASSUME TypeOK, NEW t \in Tickets,
                    \/ Receive(t)
                    \/ \E target \in UnfencedTargets : Transition(t, target)
                    \/ LeaseExpires(t)
                    \/ EnqueueReceipt(t)
             PROVE  Quiet
  BY DEF TicketStep
<1>0. /\ fills' = fills
      /\ ostatus' = ostatus
  BY DEF Receive, Transition, LeaseExpires, EnqueueReceipt, orderVars
<1>1. \A l \in Links : QuietOrder(l)
  BY <1>0 DEF QuietOrder, Reserved
<1>2. CASE Receive(t)
  <2>1. \A u \in Tickets : QuietTicket(u)
    BY <1>2 DEF Receive, Exists, Superseded, QuietTicket, QuietState, WorkingStates, TypeOK
  <2> QED BY <1>0, <1>1, <2>1 DEF Quiet
<1>3. CASE \E target \in UnfencedTargets : Transition(t, target)
  <2>1. \A u \in Tickets : QuietTicket(u)
    BY <1>3 DEF Transition, SetState, UnfencedTargets, QuietTicket, QuietState,
                WorkingStates, TypeOK
  <2> QED BY <1>0, <1>1, <2>1 DEF Quiet
<1>4. CASE LeaseExpires(t) \/ EnqueueReceipt(t)
  <2>1. \A u \in Tickets : QuietTicket(u)
    BY <1>4 DEF LeaseExpires, EnqueueReceipt, QuietTicket, QuietState
  <2> QED BY <1>0, <1>1, <2>1 DEF Quiet
<1> QED BY <1>2, <1>3, <1>4

\* Steps of a service instance are quiet.
LEMMA QuietSessionStep == TypeOK /\ SessionStep => Quiet
<1> SUFFICES ASSUME TypeOK, NEW s \in Sessions, NEW t \in Tickets,
                    \/ \E target \in FencedTargets(t) : FencedTransition(s, t, target)
                    \/ \E e \in 1..MaxEpoch : Claim(s, t, e)
                    \/ ClaimOperation(s, t)
                    \/ \E r \in CommandRoles : ReserveCommand(s, <<t, r>>)
                    \/ t \notin Cancels /\ ReserveOrder(s, t)
                    \/ \E r \in ExitRoles : ReserveExitOrder(s, <<t, r>>)
             PROVE  Quiet
  BY DEF SessionStep
<1>0. fills' = fills
  BY DEF FencedTransition, Transition, Claim, ClaimOperation, ReserveCommand,
         ReserveOrder, ReserveExitOrder, orderVars
<1>1. ASSUME ostatus' = ostatus PROVE \A l \in Links : QuietOrder(l)
  BY <1>1 DEF QuietOrder, Reserved
<1>2. ASSUME state' = state PROVE \A u \in Tickets : QuietTicket(u)
  BY <1>2 DEF QuietTicket, QuietState
<1>3. CASE \E target \in FencedTargets(t) : FencedTransition(s, t, target)
  <2>1. PICK target \in FencedTargets(t) : Transition(t, target)
    BY <1>3 DEF FencedTransition
  <2>2. /\ target \notin { "PARTIALLY_FILLED", "FILLED" }
        /\ target \in WorkingStates => t \in Cancels
    BY DEF FencedTargets, WorkingStates
  <2>3. \A u \in Tickets : QuietTicket(u)
    BY <2>1, <2>2 DEF Transition, SetState, QuietTicket, QuietState, TypeOK
  <2> QED BY <1>0, <1>1, <2>1, <2>3 DEF Quiet, Transition, orderVars
<1>4. CASE \E e \in 1..MaxEpoch : Claim(s, t, e)
  <2>1. \/ state' = state
        \/ state[t] = "VALIDATED" /\ state' = [state EXCEPT ![t] = "CLAIMED"]
    BY <1>4 DEF Claim, SetState
  <2>2. can_transition("VALIDATED", "CLAIMED")
    BY DEF can_transition, ALLOWED_TRANSITIONS
  <2>3. \A u \in Tickets : QuietTicket(u)
    BY <1>2, <2>1, <2>2 DEF QuietTicket, QuietState, WorkingStates, TypeOK
  <2> QED BY <1>0, <1>1, <1>4, <2>3 DEF Quiet, Claim, orderVars
<1>5. CASE ClaimOperation(s, t)
  BY <1>0, <1>1, <1>2, <1>5 DEF Quiet, ClaimOperation, orderVars
<1>6. CASE \E r \in CommandRoles : ReserveCommand(s, <<t, r>>)
  BY <1>0, <1>1, <1>2, <1>6 DEF Quiet, ReserveCommand, orderVars
<1>7. CASE t \notin Cancels /\ ReserveOrder(s, t)
  <2>1. \A u \in Tickets : QuietTicket(u)
    BY <1>7, LinkFacts DEF ReserveOrder, SetState, QuietTicket, QuietState, TypeOK
  <2>2. \A l \in Links : QuietOrder(l)
    BY <1>7, LinkFacts DEF ReserveOrder, SetState, QuietOrder, Reserved, TypeOK
  <2> QED BY <1>0, <2>1, <2>2 DEF Quiet
<1>8. CASE \E r \in ExitRoles : ReserveExitOrder(s, <<t, r>>)
  <2>1. PICK l \in Links : ReserveExitOrder(s, l)
    BY <1>8 DEF Links
  <2>2. \A k \in Links : QuietOrder(k)
    BY <2>1 DEF ReserveExitOrder, QuietOrder, Reserved, TypeOK
  <2> QED BY <1>0, <1>2, <2>1, <2>2 DEF Quiet, ReserveExitOrder
<1> QED BY <1>3, <1>4, <1>5, <1>6, <1>7, <1>8

\* What the exchange answered of an order is quiet.
LEMMA QuietOrderStep == TypeOK /\ OrderStep => Quiet
<1> SUFFICES ASSUME TypeOK, NEW l \in Links, NEW ids \in SUBSET Links,
                    \/ IsEntry(l) /\ RecordRestSubmission(l, ids)
                    \/ RecordExitSubmission(l, ids)
                    \/ \E status \in RemoteStatuses : AcknowledgeOrder(l, status, ids)
             PROVE  Quiet
  BY DEF OrderStep
<1>0. fills' = fills
  BY DEF RecordRestSubmission, RecordExitSubmission, AcknowledgeOrder
<1>1. CASE IsEntry(l) /\ RecordRestSubmission(l, ids)
  <2>1. /\ can_transition(state[TicketOf(l)], "SUBMITTED")
        /\ state' = [state EXCEPT ![TicketOf(l)] = "SUBMITTED"]
    BY <1>1, LinkFacts DEF RecordRestSubmission, SetState, TypeOK
  <2>2. state[TicketOf(l)] # "FILLED"
    BY <2>1, TableClosed
  <2>3. \A u \in Tickets : QuietTicket(u)
    BY <1>1, <2>1, LinkFacts DEF RecordRestSubmission, QuietTicket, QuietState, TypeOK,
                                 Reserved
  <2>4. \A k \in Links : QuietOrder(k)
    BY <1>1, <2>2 DEF RecordRestSubmission, QuietOrder, Reserved, TypeOK
  <2> QED BY <1>0, <2>3, <2>4 DEF Quiet
<1>2. CASE RecordExitSubmission(l, ids)
  <2>1. \A u \in Tickets : QuietTicket(u)
    BY <1>2 DEF RecordExitSubmission, QuietTicket, QuietState
  <2>2. \A k \in Links : QuietOrder(k)
    BY <1>2 DEF RecordExitSubmission, QuietOrder, Reserved, TypeOK
  <2> QED BY <1>0, <2>1, <2>2 DEF Quiet
<1>3. CASE \E status \in RemoteStatuses : AcknowledgeOrder(l, status, ids)
  <2>1. PICK raw \in RemoteStatuses : AcknowledgeOrder(l, raw, ids)
    BY <1>3
  <2> DEFINE status == Normalized(raw)
             target == AckTarget(l, status)
  <2>2. status # "NONE"
    BY DEF Normalized, RemoteStatuses, FinalOrderStatuses
  <2>3. /\ Reserved(l)
        /\ can_transition(state[TicketOf(l)], target)
        /\ state' = [state EXCEPT ![TicketOf(l)] = target]
        /\ \/ should_update(l, status) /\ ostatus' = [ostatus EXCEPT ![l] = status]
           \/ ~should_update(l, status) /\ ostatus' = ostatus
    BY <2>1 DEF AcknowledgeOrder
  <2>4. \A u \in Tickets : u # TicketOf(l) => QuietTicket(u)
    BY <2>3 DEF QuietTicket, QuietState, TypeOK
  <2>5. ostatus'[l] # "NONE"
    BY <2>2, <2>3 DEF Reserved, TypeOK
  <2>6. QuietTicket(TicketOf(l))
    <3>1. state'[TicketOf(l)] = target
      BY <2>3, LinkFacts DEF TypeOK
    <3>2. target = state[TicketOf(l)] \/ target \notin { "PARTIALLY_FILLED", "FILLED" }
      BY AckTargetQuiet
    <3>3. target = state[TicketOf(l)] \/ target \notin WorkingStates \/ IsEntry(l)
      BY AckTargetQuiet DEF WorkingStates
    <3>4. IsEntry(l) => l = EntryOf(TicketOf(l))
      BY LinkFacts
    <3> HIDE DEF target
    <3> QED BY <2>3, <2>5, <3>1, <3>2, <3>3, <3>4 DEF QuietTicket, QuietState
  <2>7. \A k \in Links : QuietOrder(k)
    BY <2>2, <2>3 DEF QuietOrder, Reserved, TypeOK, should_update, FinalOrderStatuses
  <2> QED BY <1>0, <2>4, <2>6, <2>7 DEF Quiet
<1> QED BY <1>1, <1>2, <1>3

\* Of the reports only fills are not quiet.
LEMMA QuietReportStep ==
  TypeOK /\ ReportStep => Quiet \/ \E l \in Links, e \in Execs : RecordFill(e, l)
<1> SUFFICES ASSUME TypeOK, ReportStep,
                    ~ \E l \in Links, e \in Execs : RecordFill(e, l)
             PROVE  Quiet
  OBVIOUS
<1>1. CASE \E l \in Links : IsEntry(l) /\ RecordCancelRequested(l)
  <2>1. PICK l \in Links : RecordCancelRequested(l)
    BY <1>1
  <2>2. \A u \in Tickets : QuietTicket(u)
    BY <2>1 DEF RecordCancelRequested, QuietTicket, QuietState
  <2>3. \A k \in Links : QuietOrder(k)
    BY <2>1 DEF RecordCancelRequested, QuietOrder, Reserved, TypeOK
  <2> QED BY <2>1, <2>2, <2>3 DEF Quiet, RecordCancelRequested
<1>2. CASE \E c \in Cancels, l \in Entries : ConfirmCancellation(c, l)
  <2>1. PICK c \in Cancels, l \in Entries : ConfirmCancellation(c, l)
    BY <1>2
  <2>2. c \in Tickets /\ TicketOf(l) \in Tickets /\ l \in Links
    BY TicketsAssumption, LinkFacts DEF Entries
  <2>3. \A u \in Tickets : QuietTicket(u)
    BY <2>1, <2>2 DEF ConfirmCancellation, QuietTicket, QuietState, WorkingStates, TypeOK
  <2>4. state[TicketOf(l)] # "FILLED"
    BY <2>1, TableClosed DEF ConfirmCancellation
  <2>5. \A k \in Links : QuietOrder(k)
    BY <2>1, <2>2, <2>4 DEF ConfirmCancellation, QuietOrder, Reserved, TypeOK
  <2> QED BY <2>1, <2>3, <2>5 DEF Quiet, ConfirmCancellation
<1>3. CASE (\E c \in Commands, status \in CommandStatuses : ConfirmCommand(c, status))
           \/ SavePosition
  BY <1>3 DEF ConfirmCommand, SavePosition, Quiet, QuietTicket, QuietState, QuietOrder,
              Reserved, orderVars
<1> QED BY <1>1, <1>2, <1>3 DEF ReportStep

\* No step at all is quiet.
LEMMA QuietUnchanged == TypeOK /\ UNCHANGED storeVars => Quiet
BY DEF storeVars, Quiet, QuietTicket, QuietState, QuietOrder, Reserved

\* Every step is quiet or the booking of an execution.
LEMMA StepCases ==
  ASSUME TypeOK, [StoreNext]_storeVars
  PROVE  Quiet \/ \E l \in Links, e \in Execs : RecordFill(e, l)
BY QuietTicketStep, QuietSessionStep, QuietOrderStep, QuietReportStep, QuietUnchanged
   DEF StoreNext

\* A reserved order stays reserved.
LEMMA ReservedStays ==
  ASSUME TypeOK, [StoreNext]_storeVars
  PROVE  \A l \in Links : Reserved(l) => Reserved(l)'
<1>1. CASE Quiet
  BY <1>1 DEF Quiet, QuietOrder, Reserved
<1>2. CASE \E l \in Links, e \in Execs : RecordFill(e, l)
  BY <1>2, FillFacts DEF BookFill, Reserved, TypeOK
<1> QED BY <1>1, <1>2, StepCases

-----------------------------------------------------------------------------
(* The journal invariants *)

\* The booked lots of an order are finitely many.
LEMMA CountFacts ==
  ASSUME TypeOK
  PROVE  \A l \in Links :
           /\ IsFiniteSet(fills[l])
           /\ cum_exec_qty(l) \in Nat
           /\ cum_exec_qty(l) > 0 <=> fills[l] # {}
<1> TAKE l \in Links
<1>1. IsFiniteSet(fills[l])
  BY FS_Subset, NumbersAssumption DEF TypeOK
<1> QED BY <1>1, FS_CardinalityType, FS_EmptySet DEF cum_exec_qty

\* Nothing is reserved or booked in the empty journal.
LEMMA JournalInit == StoreInit => JournalInv
<1> SUFFICES ASSUME StoreInit PROVE JournalInv
  OBVIOUS
<1>1. \A l \in Links : /\ ostatus[l] = "NONE"
                       /\ fills[l] = {}
                       /\ cum_exec_qty(l) = 0
  BY FS_EmptySet DEF StoreInit, cum_exec_qty
<1>2. \A t \in Tickets : state[t] = "ABSENT"
  BY DEF StoreInit
<1> QED BY <1>1, <1>2, LinkFacts, NumbersAssumption
        DEF JournalInv, JournaledBeforeWorking, ExecutionBookedOnce, FillsDecideTheState,
            FilledEntrySticks, ExitOnlyAfterEntryFill, Reserved, WorkingStates

\* A quiet step keeps the invariant.
LEMMA QuietKeeps == TypeOK /\ TypeOK' /\ JournalInv /\ Quiet => JournalInv'
<1> SUFFICES ASSUME TypeOK, JournalInv, Quiet PROVE JournalInv'
  OBVIOUS
<1>1. \A l \in Links : cum_exec_qty(l)' = cum_exec_qty(l)
  BY DEF Quiet, cum_exec_qty
<1>2. \A t \in Tickets :
        /\ state[t] \in TradedStates => state'[t] \in TradedStates
        /\ state'[t] \in { "PARTIALLY_FILLED", "FILLED" } => state'[t] = state[t]
        /\ state[t] = "FILLED" => state'[t] = "FILLED"
        /\ state[t] \in EntryStates => state'[t] \in EntryStates
  BY TableClosed DEF Quiet, QuietTicket, QuietState, TradedStates, EntryStates, WorkingStates
<1>3. \A l \in Links : Reserved(l) => Reserved(l)'
  BY DEF Quiet, QuietOrder, Reserved
<1>4. FillsDecideTheState'
  BY <1>1, <1>2, LinkFacts DEF JournalInv, FillsDecideTheState, TradedStates
<1>5. JournaledBeforeWorking'
  <2> SUFFICES ASSUME NEW t \in Tickets
               PROVE  /\ state'[t] \in WorkingStates /\ t \notin Cancels =>
                           Reserved(EntryOf(t))'
                      /\ Reserved(EntryOf(t))' => state'[t] \in EntryStates
    BY DEF JournaledBeforeWorking, EntryStates
  <2>1. /\ state[t] \in WorkingStates /\ t \notin Cancels => Reserved(EntryOf(t))
        /\ Reserved(EntryOf(t)) => state[t] \in EntryStates
    BY DEF JournalInv, JournaledBeforeWorking, EntryStates
  <2>2. /\ QuietTicket(t) /\ QuietOrder(EntryOf(t))
        /\ EntryOf(t) \in Links /\ IsEntry(EntryOf(t)) /\ TicketOf(EntryOf(t)) = t
    BY LinkFacts DEF Quiet
  <2>3. "SUBMITTING" \in EntryStates
    BY DEF EntryStates, WorkingStates
  <2> QED BY <1>2, <1>3, <2>1, <2>2, <2>3 DEF QuietTicket, QuietOrder, Reserved
<1>6. ExecutionBookedOnce'
  BY <1>3 DEF JournalInv, ExecutionBookedOnce, Quiet
<1>7. FilledEntrySticks'
  BY <1>1, LinkFacts DEF JournalInv, FilledEntrySticks, FillsDecideTheState,
                         Quiet, QuietOrder
<1>8. ExitOnlyAfterEntryFill'
  <2> SUFFICES ASSUME NEW l \in Links, ~IsEntry(l), Reserved(l)'
               PROVE  fills'[EntryOf(TicketOf(l))] # {}
    BY DEF ExitOnlyAfterEntryFill, IsEntry
  <2>1. CASE Reserved(l)
    BY <2>1 DEF JournalInv, ExitOnlyAfterEntryFill, Quiet
  <2>2. CASE ~Reserved(l)
    <3>1. state[TicketOf(l)] \in ExitStates
      BY <2>2 DEF Quiet, QuietOrder, Reserved
    <3>2. cum_exec_qty(EntryOf(TicketOf(l))) > 0
      BY <3>1, LinkFacts, CountFacts, NumbersAssumption
         DEF JournalInv, FillsDecideTheState, ExitStates
    <3> QED BY <3>2, LinkFacts, CountFacts DEF Quiet
  <2> QED BY <2>1, <2>2
<1> QED BY <1>4, <1>5, <1>6, <1>7, <1>8 DEF JournalInv

\* Booking an execution keeps the invariant.
LEMMA RecordFillKeeps ==
  ASSUME TypeOK, TypeOK', JournalInv, NEW l \in Links, NEW e \in Execs, RecordFill(e, l)
  PROVE  JournalInv'
<1>0. PICK target \in { "FILLED", "PARTIALLY_FILLED" } :
        BookFill(e, l, target) /\ (IsEntry(l) => target = FillTarget(fills[l] \cup {e}))
  BY FillFacts
<1> DEFINE booked == fills[l] \cup {e}
           t == TicketOf(l)
<1>1. /\ e \notin fills[l]
      /\ \A k \in Links : e \notin fills[k]
      /\ Reserved(l)
      /\ fills' = [fills EXCEPT ![l] = booked]
      /\ ostatus' = [ostatus EXCEPT ![l] = target]
      /\ target \in { "FILLED", "PARTIALLY_FILLED" }
  BY <1>0 DEF BookFill, KnownExec
<1>2. t \in Tickets
  BY LinkFacts
<1>3. Cardinality(booked) = cum_exec_qty(l) + 1
  BY <1>1, CountFacts, FS_AddElement DEF cum_exec_qty
<1>4. cum_exec_qty(l) \in Nat /\ Lots \in Nat /\ Lots > 0
  BY CountFacts, NumbersAssumption
<1>5. IsEntry(l) => (target = "FILLED" <=> Cardinality(booked) >= Lots)
  BY <1>0 DEF FillTarget
<1>6. \A k \in Links : cum_exec_qty(k)' = IF k = l THEN Cardinality(booked) ELSE cum_exec_qty(k)
  BY <1>1 DEF cum_exec_qty, TypeOK
<1>7. \A k \in Links : Reserved(k)' <=> Reserved(k)
  BY <1>1 DEF Reserved, TypeOK
<1>8. ASSUME IsEntry(l)
      PROVE  /\ can_transition(state[t], target)
             /\ state' = [state EXCEPT ![t] = target]
             /\ l = EntryOf(t)
  BY <1>0, <1>8, LinkFacts DEF BookFill
<1>9. ASSUME ~IsEntry(l)
      PROVE  /\ state' = state
             /\ \A u \in Tickets : l # EntryOf(u)
  BY <1>0, <1>9, LinkFacts DEF BookFill
<1> HIDE DEF booked, t
<1>10. FillsDecideTheState'
  <2> SUFFICES ASSUME NEW u \in Tickets
               PROVE  /\ state'[u] = "FILLED" <=> cum_exec_qty(EntryOf(u))' >= Lots
                      /\ state'[u] = "PARTIALLY_FILLED" => cum_exec_qty(EntryOf(u))' > 0
                      /\ cum_exec_qty(EntryOf(u))' > 0 => state'[u] \in TradedStates
    BY DEF FillsDecideTheState, TradedStates
  <2>0. /\ state[u] = "FILLED" <=> cum_exec_qty(EntryOf(u)) >= Lots
        /\ state[u] = "PARTIALLY_FILLED" => cum_exec_qty(EntryOf(u)) > 0
        /\ cum_exec_qty(EntryOf(u)) > 0 => state[u] \in TradedStates
        /\ EntryOf(u) \in Links
    BY LinkFacts DEF JournalInv, FillsDecideTheState, TradedStates
  <2>1. CASE l = EntryOf(u)
    <3>1. IsEntry(l) /\ u = t
      BY <2>1, LinkFacts DEF t
    <3>2. state'[u] = target
      BY <1>8, <3>1 DEF TypeOK
    <3> QED BY <1>1, <1>3, <1>4, <1>5, <1>6, <2>1, <3>1, <3>2 DEF TradedStates
  <2>2. CASE l # EntryOf(u)
    <3>1. state'[u] = state[u]
      BY <1>8, <1>9, <2>2 DEF TypeOK
    <3> QED BY <1>6, <2>0, <2>2, <3>1
  <2> QED BY <2>1, <2>2
<1>11. JournaledBeforeWorking'
  <2> SUFFICES ASSUME NEW u \in Tickets
               PROVE  /\ state'[u] \in WorkingStates /\ u \notin Cancels =>
                           Reserved(EntryOf(u))'
                      /\ Reserved(EntryOf(u))' => state'[u] \in EntryStates
    BY DEF JournaledBeforeWorking, EntryStates
  <2>0. /\ state[u] \in WorkingStates /\ u \notin Cancels => Reserved(EntryOf(u))
        /\ Reserved(EntryOf(u)) => state[u] \in EntryStates
        /\ EntryOf(u) \in Links
    BY LinkFacts DEF JournalInv, JournaledBeforeWorking, EntryStates
  <2>1. CASE l = EntryOf(u)
    <3>1. IsEntry(l) /\ u = t
      BY <2>1, LinkFacts DEF t
    <3>2. state'[u] = target
      BY <1>8, <3>1 DEF TypeOK
    <3> QED BY <1>1, <1>7, <2>0, <2>1, <3>2 DEF EntryStates, WorkingStates
  <2>2. CASE l # EntryOf(u)
    <3>1. state'[u] = state[u]
      BY <1>8, <1>9, <2>2 DEF TypeOK
    <3> QED BY <1>7, <2>0, <3>1
  <2> QED BY <2>1, <2>2
<1>12. ExecutionBookedOnce'
  <2>1. \A k \in Links : fills'[k] = IF k = l THEN booked ELSE fills[k]
    BY <1>1 DEF TypeOK
  <2>2. ASSUME NEW j \in Links, NEW k \in Links, j # k
        PROVE  fills'[j] \cap fills'[k] = {}
    BY <1>1, <2>1, <2>2 DEF JournalInv, ExecutionBookedOnce, booked
  <2>3. \A k \in Links : fills'[k] # {} => Reserved(k)'
    BY <1>1, <1>7, <2>1 DEF JournalInv, ExecutionBookedOnce
  <2> QED BY <2>2, <2>3 DEF ExecutionBookedOnce
<1>13. FilledEntrySticks'
  <2> SUFFICES ASSUME NEW u \in Tickets, cum_exec_qty(EntryOf(u))' >= Lots
               PROVE  ostatus'[EntryOf(u)] = "FILLED"
    BY DEF FilledEntrySticks
  <2>1. CASE l = EntryOf(u)
    BY <1>1, <1>5, <1>6, <2>1, LinkFacts DEF TypeOK
  <2>2. CASE l # EntryOf(u)
    BY <1>1, <1>6, <2>2, LinkFacts DEF JournalInv, FilledEntrySticks, TypeOK
  <2> QED BY <2>1, <2>2
<1>14. ExitOnlyAfterEntryFill'
  <2>1. \A k \in Links : fills[k] # {} => fills'[k] # {}
    BY <1>1 DEF TypeOK, booked
  <2> QED BY <1>7, <2>1, LinkFacts DEF JournalInv, ExitOnlyAfterEntryFill, IsEntry
<1> QED BY <1>10, <1>11, <1>12, <1>13, <1>14 DEF JournalInv

\* Each step keeps the invariant of tickets, orders and fills.
LEMMA JournalStep ==
  TypeOK /\ TypeOK' /\ JournalInv /\ [StoreNext]_storeVars => JournalInv'
BY StepCases, QuietKeeps, RecordFillKeeps

\* The inductive invariant holds in every reachable journal.
LEMMA IInvariant == StoreSpec => []IInv
BY TypeInit, TypeStep, LeaseInit, LeaseStep, JournalInit, JournalStep, PTL
   DEF StoreSpec, IInv

\* The state of a ticket and the executions booked on its entry order agree.
THEOREM FillsDecide == StoreSpec => []FillsDecideTheState
<1>1. IInv => FillsDecideTheState
  BY DEF IInv, JournalInv
<1> QED BY <1>1, IInvariant, PTL

\* No ticket works an order that is not journaled, or hides one that is.
THEOREM JournaledFirst == StoreSpec => []JournaledBeforeWorking
<1>1. IInv => JournaledBeforeWorking
  BY DEF IInv, JournalInv
<1> QED BY <1>1, IInvariant, PTL

\* An execution is booked at most once, on a reserved order.
THEOREM BookedOnce == StoreSpec => []ExecutionBookedOnce
<1>1. IInv => ExecutionBookedOnce
  BY DEF IInv, JournalInv
<1> QED BY <1>1, IInvariant, PTL

\* The row of a completely booked entry order says FILLED for ever.
THEOREM FilledSticks == StoreSpec => []FilledEntrySticks
<1>1. IInv => FilledEntrySticks
  BY DEF IInv, JournalInv
<1> QED BY <1>1, IInvariant, PTL

\* A child order exists only on a ticket whose entry has traded.
THEOREM ExitsAfterFills == StoreSpec => []ExitOnlyAfterEntryFill
<1>1. IInv => ExitOnlyAfterEntryFill
  BY DEF IInv, JournalInv
<1> QED BY <1>1, IInvariant, PTL

\* Only a fill moves a terminal ticket, and only out of CANCELLED or SUPERSEDED.
THEOREM TerminalUpgrades == StoreSpec => TerminalUpgradedOnlyByFill
<1> DEFINE Final(t) ==
             state[t] \in TERMINAL_STATES /\ state'[t] # state[t] =>
               /\ state[t] \in { "CANCELLED", "SUPERSEDED" }
               /\ fills'[EntryOf(t)] # fills[EntryOf(t)]
<1>1. TypeOK /\ Quiet => \A t \in Tickets : Final(t)
  BY TableClosed DEF Quiet, QuietTicket, QuietState, TERMINAL_STATES
<1>2. ASSUME TypeOK, NEW l \in Links, NEW e \in Execs, RecordFill(e, l)
      PROVE  \A t \in Tickets : Final(t)
  <2> TAKE t \in Tickets
  <2>1. SUFFICES ASSUME state[t] \in TERMINAL_STATES, state'[t] # state[t]
                 PROVE  /\ state[t] \in { "CANCELLED", "SUPERSEDED" }
                        /\ fills'[EntryOf(t)] # fills[EntryOf(t)]
    OBVIOUS
  <2>0. PICK target \in { "FILLED", "PARTIALLY_FILLED" } : BookFill(e, l, target)
    BY <1>2, FillFacts
  <2>2. IsEntry(l) /\ t = TicketOf(l) /\ l = EntryOf(t)
    BY <1>2, <2>0, <2>1, LinkFacts DEF BookFill, TypeOK
  <2>3. can_transition(state[t], state'[t])
    BY <1>2, <2>0, <2>2 DEF BookFill, TypeOK
  <2>4. e \notin fills[l] /\ e \in fills'[l]
    BY <1>2, <2>0 DEF BookFill, KnownExec, TypeOK
  <2> QED BY <2>1, <2>2, <2>3, <2>4, TableClosed
<1>3. TypeOK /\ [StoreNext]_storeVars => [\A t \in Tickets : Final(t)]_storeVars
  BY <1>1, <1>2, StepCases
<1> QED BY <1>3, StoreTypes, PTL DEF StoreSpec, TerminalUpgradedOnlyByFill
=============================================================================
