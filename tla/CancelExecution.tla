--------------------------- MODULE CancelExecution ---------------------------
(***************************************************************************)
(* A CANCEL ticket from the poll that fetches it to the end of its entry   *)
(* in the journal: ticket_consumer.py, cancel_target of bybit_executor.py, *)
(* and the visits of execution_reconciler.py that resolve what             *)
(* cancel_target has left open, over the journal of ExecutionStore.        *)
(*                                                                         *)
(* Abstractions.  What the stream and the visits of its own ticket make of *)
(* the target order is the business of EntryExecution: here any true       *)
(* report of it may be journaled at any time, or none.  Receipts are left  *)
(* to TicketDelivery; validation and risk decide freely.                   *)
(***************************************************************************)
EXTENDS ExecutionStore

CONSTANT Target \* the ticket whose entry order is to be cancelled

ASSUME CancelAssumption ==
  /\ Target \in Tickets \ Cancels /\ "cancel_1" \in CommandRoles
  /\ \A i \in 1..Lots : <<EntryOf(Target), i>> \in Execs

VARIABLES
  canceller,    \* the CANCEL ticket, one throughout a behaviour
  session, sessions, \* the running session, and those that have run
  step,         \* the loop thread: what it does next
  row,          \* its locals: the row of the target that cancel_target has read,
  fresh,        \*   newly_reserved,
  late,         \*   whether the ticket was aged at the start of the visit
  aged,         \* the CANCEL ticket has been SUBMITTING for longer than the grace period
  passed,       \* the cursor is past the CANCEL ticket
  remote, lots, \* the exchange: status and traded lots of the target order,
  request,      \*   and what has become of the last cancel request
  asked         \* how many cancel requests were sent

localVars == <<step, row, fresh, late>>
remoteVars == <<remote, lots, request, asked>>
sessionVars == <<canceller, session, sessions>>

cancelVars == <<localVars, remoteVars, sessionVars, aged, passed>>

Order == EntryOf(Target)
Command == <<canceller, "cancel_1">>
NoRow == [cancelled |-> FALSE, named |-> FALSE]

Then(to) == step' = to /\ UNCHANGED <<row, fresh, late>>
Forget == row' = NoRow /\ fresh' = FALSE /\ late' = FALSE

\* A journal transaction of the loop; a call, or a choice, that is none.
Writes ==
  /\ aged' = (aged /\ state'[canceller] = state[canceller])
  /\ UNCHANGED <<remoteVars, sessionVars, passed>>
NoWrite == UNCHANGED <<storeVars, sessionVars, aged, passed>>

-----------------------------------------------------------------------------
(* reconcile_ticket of the CANCEL ticket *)

Visit ==
  /\ step = "idle"
  /\ step' = IF state[canceller] = "SUBMITTING" THEN "find" ELSE "poll"
  /\ row' = NoRow /\ fresh' = FALSE /\ late' = aged
  /\ NoWrite /\ UNCHANGED remoteVars

FindTarget ==
  /\ step = "find"
  /\ Then(IF remote = "CANCELED" THEN "found" ELSE IF late THEN "giveup" ELSE "poll")
  /\ NoWrite /\ UNCHANGED remoteVars

ConfirmFound ==
  /\ step = "found"
  /\ ConfirmCancellation(canceller, Order)
  /\ Then("foundcommand")
  /\ Writes

GiveCancelUp ==
  /\ step = "giveup"
  /\ Transition(canceller, "FAILED")
  /\ Then("poll")
  /\ Writes

-----------------------------------------------------------------------------
(* run_once and process *)

PollTicket ==
  /\ step = "poll"
  /\ Then(IF passed THEN "idle" ELSE "receive")
  /\ NoWrite /\ UNCHANGED remoteVars

\* The control plane refuses the claim while the lease of another session runs.
RefusedByPlane ==
  /\ step = "poll" /\ ~passed /\ Cardinality(sessions) > 1
  /\ passed' = TRUE
  /\ Then("idle")
  /\ UNCHANGED <<storeVars, remoteVars, sessionVars, aged>>

StepAfter(s) ==
  IF s \in TERMINAL_STATES \cup WorkingStates THEN "done"
  ELSE IF s = "RECEIVED" THEN "validate" ELSE "claim"

ReceiveCancel ==
  /\ step = "receive"
  /\ IF Exists(canceller) THEN UNCHANGED storeVars ELSE Receive(canceller)
  /\ Then(StepAfter(state'[canceller]))
  /\ Writes

ValidateCancel ==
  /\ step = "validate"
  /\ \E target \in { "VALIDATED", "EXPIRED", "REJECTED" } :
       /\ Transition(canceller, target)
       /\ Then(IF target = "VALIDATED" THEN "claim" ELSE "done")
  /\ Writes

\* The journal takes the epoch the control plane has granted, or refuses it.
ClaimCancel ==
  /\ step = "claim"
  /\ \E e \in 1..MaxEpoch :
       \/ /\ Claim(session, canceller, e)
          /\ Then(IF state'[canceller] = "CLAIMED" THEN "risk" ELSE "read")
       \/ /\ ~ClaimGranted(session, canceller, e)
          /\ UNCHANGED storeVars /\ Then("done")
  /\ Writes

DecideCancel ==
  /\ step = "risk"
  /\ \E target \in { "RISK_APPROVED", "RISK_BLOCKED", "EXPIRED" } :
       /\ FencedTransition(session, canceller, target)
       /\ Then(IF target = "RISK_APPROVED" THEN "read" ELSE "done")
  /\ Writes

-----------------------------------------------------------------------------
(* cancel_target *)

ReadTarget ==
  /\ step = "read"
  /\ step' = IF Reserved(Order) THEN "reserve" ELSE "reject"
  /\ row' = [cancelled |-> ostatus[Order] = "CANCELLED", named |-> Order \in oid]
  /\ UNCHANGED <<fresh, late>>
  /\ NoWrite /\ UNCHANGED remoteVars

\* An unknown target is a ValueError, which blocks the ticket.
RejectCancel ==
  /\ step = "reject"
  /\ FencedTransition(session, canceller, "RISK_BLOCKED")
  /\ Then("done")
  /\ Writes

ReserveCancel ==
  /\ step = "reserve"
  /\ fresh' = (command[Command] = "NONE")
  /\ IF fresh' THEN ReserveCommand(session, Command) ELSE UNCHANGED storeVars
  /\ step' = "submitting" /\ UNCHANGED <<row, late>>
  /\ Writes

\* What follows depends on the row as it was read, not as it is by now.
SubmitCancel ==
  /\ step = "submitting"
  /\ FencedTransition(session, canceller, "SUBMITTING")
  /\ Then(IF row.cancelled THEN "replaycommand"
          ELSE IF ~fresh THEN "done"
          ELSE IF ~row.named THEN "unnamed" ELSE "cancel")
  /\ Writes

CancelOrder ==
  /\ step = "cancel"
  /\ request' = "sent" /\ asked' = asked + 1
  /\ Then("sent")
  /\ NoWrite /\ UNCHANGED <<remote, lots>>

CancelAnswered ==
  /\ step = "sent" /\ request = "accepted"
  /\ Then("accepted")
  /\ NoWrite /\ UNCHANGED remoteVars

\* Mutant: the request is sent again after an error.
MutantRetriesCancel ==
  /\ step \in { "cancel", "sent" }
  /\ Then(IF step = "sent" THEN "cancel" ELSE "unknown")
  /\ NoWrite /\ UNCHANGED remoteVars

\* An error, before or after the request left.
CancelFails ==
  /\ step \in { "cancel", "sent" }
  /\ Then("unknown")
  /\ NoWrite /\ UNCHANGED remoteVars

\* The answer to the request, or the row that was CANCELLED already.
ConfirmTarget ==
  /\ step \in { "accepted", "replay" }
  /\ ConfirmCancellation(canceller, Order)
  /\ Then(IF step = "accepted" THEN "confirm" ELSE "done")
  /\ Writes

RecordCommand ==
  /\ step \in { "foundcommand", "replaycommand", "confirm", "unknown" }
  /\ ConfirmCommand(Command, IF step = "unknown" THEN "UNKNOWN" ELSE "CONFIRMED")
  /\ Then(IF step = "foundcommand" THEN "poll"
          ELSE IF step = "replaycommand" THEN "replay" ELSE "done")
  /\ Writes

\* The receipt is built and the cursor moves on.
PassTicket ==
  /\ step = "done"
  /\ passed' = TRUE
  /\ Then("idle")
  /\ UNCHANGED <<storeVars, remoteVars, sessionVars, aged>>

-----------------------------------------------------------------------------
(* Exceptions end the iteration *)

EndIteration ==
  /\ step' = "idle" /\ Forget
  /\ NoWrite /\ UNCHANGED remoteVars

Confirmable ==
  can_transition(state[canceller], "CANCELLED") /\ can_transition(state[Target], "CANCELLED")

\* A refused cancellation, a stale fence, and the ticket that cannot be blocked
\* any more because it is SUBMITTING.
WriteRaises ==
  \/ step \in { "found", "accepted", "replay" } /\ ~Confirmable
  \/ /\ step \in { "risk", "reject", "reserve", "submitting" } /\ ~Fenced(session, canceller)
     /\ step = "reserve" => command[Command] = "NONE"
  \/ step = "unnamed"

\* Network errors, the visit of another ticket, the rate limiter.
RequestRaises == step \in { "find", "poll", "risk", "cancel" }

WriteFails == WriteRaises /\ EndIteration
RequestFails == RequestRaises /\ EndIteration

-----------------------------------------------------------------------------
(* Reports of the target order, the exchange, the clock, crashes *)

Reportable == IF remote = "NONE" THEN {} ELSE { "NEW", remote }

Reports ==
  \/ remote # "NONE" /\ state[Target] = "SUBMITTING" /\ RecordRestSubmission(Order, {Order})
  \/ \E status \in Reportable, ids \in SUBSET {Order} : AcknowledgeOrder(Order, status, ids)
  \/ \E i \in 1..lots : RecordFill(<<Order, i>>, Order)
  \/ state[Target] = "SUBMITTING" /\ Transition(Target, "FAILED")

TargetReported == Reports /\ UNCHANGED cancelVars

OrderArrives ==
  /\ remote = "NONE" /\ Reserved(Order)
  /\ remote' = "NEW"
  /\ UNCHANGED <<storeVars, localVars, sessionVars, aged, passed, lots, request, asked>>

OrderTrades ==
  /\ remote = "NEW"
  /\ lots' = lots + 1
  /\ remote' = IF lots' = Lots THEN "FILLED" ELSE remote
  /\ UNCHANGED <<storeVars, localVars, sessionVars, aged, passed, request, asked>>

\* A request that is accepted is not yet carried out.
RequestAccepted ==
  /\ request = "sent" /\ remote = "NEW"
  /\ request' = "accepted"
  /\ UNCHANGED <<storeVars, localVars, sessionVars, aged, passed, remote, lots, asked>>

OrderEnds ==
  /\ remote = "NEW"
  /\ remote' = "CANCELED"
  /\ UNCHANGED <<storeVars, localVars, sessionVars, aged, passed, lots, request, asked>>

TicketAges ==
  /\ state[canceller] = "SUBMITTING" /\ ~aged
  /\ aged' = TRUE
  /\ UNCHANGED <<storeVars, localVars, remoteVars, sessionVars, passed>>

CancelLeaseExpires == LeaseExpires(canceller) /\ UNCHANGED cancelVars

Restart(s) ==
  /\ s \notin sessions
  /\ session' = s /\ sessions' = sessions \cup {s}
  /\ step' = "idle" /\ Forget
  /\ UNCHANGED <<storeVars, remoteVars, canceller, aged, passed>>

-----------------------------------------------------------------------------
ServiceInit ==
  /\ canceller \in Cancels
  /\ session \in Sessions /\ sessions = {session}
  /\ step = "idle" /\ row = NoRow /\ fresh = FALSE /\ late = FALSE
  /\ aged = FALSE /\ passed = FALSE
  /\ remote = "NONE" /\ lots = 0 /\ request = "none" /\ asked = 0

\* The create request of the target has left and its outcome is unknown; or the
\* target never came to that.
TargetPlaced ==
  /\ \E placed \in BOOLEAN :
       /\ state = [t \in Tickets |->
            IF t # Target THEN "ABSENT" ELSE IF placed THEN "SUBMITTING" ELSE "REJECTED"]
       /\ owner = [t \in Tickets |-> IF t = Target /\ placed THEN session ELSE NoSession]
       /\ epoch = [t \in Tickets |-> IF t = Target /\ placed THEN 1 ELSE 0]
       /\ ostatus = [l \in Links |-> IF l = Order /\ placed THEN "CREATED" ELSE "NONE"]
  /\ live = {}
  /\ held = [s \in Sessions |-> [t \in Tickets |-> IF s = session THEN epoch[t] ELSE 0]]
  /\ oid = {}
  /\ fills = [l \in Links |-> {}]
  /\ command = [c \in Commands |-> "NONE"]
  /\ receipt = [t \in Tickets |-> "UNBUILT"]

CancelInit == ServiceInit /\ TargetPlaced

CancelLoop ==
  \/ Visit \/ FindTarget \/ ConfirmFound \/ GiveCancelUp
  \/ PollTicket \/ RefusedByPlane \/ ReceiveCancel \/ ValidateCancel \/ ClaimCancel \/ DecideCancel
  \/ ReadTarget \/ RejectCancel \/ ReserveCancel \/ SubmitCancel
  \/ CancelOrder \/ CancelAnswered \/ CancelFails \/ ConfirmTarget \/ RecordCommand
  \/ PassTicket \/ WriteFails

CancelOutside ==
  \/ TargetReported \/ OrderArrives \/ OrderTrades \/ RequestAccepted \/ OrderEnds
  \/ TicketAges \/ CancelLeaseExpires
  \/ \E s \in Sessions : Restart(s)

CancelNext == CancelLoop \/ RequestFails \/ CancelOutside

(***************************************************************************)
(* The loop thread keeps running and time passes; a lookup that is tried    *)
(* again and again is answered some day.                                    *)
(***************************************************************************)
CancelFairness ==
  /\ WF_<<storeVars, cancelVars>>(CancelLoop)
  /\ SF_<<storeVars, cancelVars>>(FindTarget)
  /\ WF_<<storeVars, cancelVars>>(TicketAges)

CancelSpec ==
  CancelInit /\ [][CancelNext]_<<storeVars, cancelVars>> /\ CancelFairness

-----------------------------------------------------------------------------
(* Properties *)

CancelTypeOK ==
  /\ TypeOK
  /\ canceller \in Cancels /\ session \in Sessions /\ sessions \subseteq Sessions
  /\ step \in { "idle", "find", "found", "foundcommand", "giveup", "poll", "receive", "validate",
              "claim", "risk", "read", "reject", "reserve", "submitting", "unnamed", "cancel",
              "sent", "accepted", "replaycommand", "replay", "confirm", "unknown", "done" }
  /\ row \in [cancelled : BOOLEAN, named : BOOLEAN]
  /\ {fresh, late, aged, passed} \subseteq BOOLEAN
  /\ remote \in { "NONE", "NEW", "FILLED", "CANCELED" }
  /\ lots \in 0..Lots
  /\ request \in { "none", "sent", "accepted" }
  /\ asked \in Nat

(***************************************************************************)
(* "Cancel once; an unknown outcome is left for reconciliation, never       *)
(* retried blindly" (bybit_executor.py:171): across crashes, lost answers   *)
(* and lost leases one request at most leaves, its command is journaled     *)
(* before, and its ticket is CANCELLED only when the exchange has accepted  *)
(* it or has the order cancelled (cancel_target, reconcile_ticket).         *)
(***************************************************************************)
CancelledOnce ==
  /\ asked <= 1
  /\ asked = 1 => /\ command[Command] # "NONE"
                  /\ state[canceller] \in { "SUBMITTING", "CANCELLED", "FAILED" }
  /\ state[canceller] = "CANCELLED" => request = "accepted" \/ remote = "CANCELED"

(***************************************************************************)
(* A CANCEL ticket is decided in the end, whatever becomes of its request   *)
(* and of the process, unless the exchange cancels an order whose ticket    *)
(* the journal has closed in another way (reconcile_ticket).                *)
(***************************************************************************)
ClosedOtherwise == remote = "CANCELED" /\ state[Target] \in { "FAILED", "SUPERSEDED" }

CancelDecided ==
  state[canceller] = "SUBMITTING" ~>
    state[canceller] \in { "CANCELLED", "FAILED" } \/ ClosedOtherwise

(***************************************************************************)
(* Every CANCEL ticket is decided.                                          *)
(***************************************************************************)
EveryCancelDecided ==
  state[canceller] = "SUBMITTING" ~> state[canceller] \in { "CANCELLED", "FAILED" }

(***************************************************************************)
(* What the journal calls CANCELLED can trade no more.                      *)
(***************************************************************************)
CancelledAtExchange == state[Target] = "CANCELLED" => remote = "CANCELED"
=============================================================================
