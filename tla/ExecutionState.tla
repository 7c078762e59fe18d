--------------------------- MODULE ExecutionState ---------------------------
(***************************************************************************)
(* The execution state machine of a ticket: execution_state.py.  A constant *)
(* module: the states, the terminal ones and the transition table that      *)
(* every write of the execution journal consults.                           *)
(***************************************************************************)

ExecutionStates ==
  { "RECEIVED", "VALIDATED", "CLAIMED", "RISK_APPROVED", "SUBMITTING",
    "SUBMITTED", "ACKNOWLEDGED", "PARTIALLY_FILLED", "FILLED", "REJECTED",
    "EXPIRED", "CANCELLED", "FAILED", "SUPERSEDED", "RISK_BLOCKED" }

TERMINAL_STATES ==
  { "FILLED", "REJECTED", "EXPIRED", "CANCELLED", "FAILED", "SUPERSEDED",
    "RISK_BLOCKED" }

\* The states in which the ticket's entry order may be at the exchange.
WorkingStates ==
  { "SUBMITTING", "SUBMITTED", "ACKNOWLEDGED", "PARTIALLY_FILLED" }

\* The Python dict as a set of pairs; a state that is no key allows nothing.
ALLOWED_TRANSITIONS ==
  {"RECEIVED"} \X
      { "VALIDATED", "REJECTED", "EXPIRED", "SUPERSEDED", "FAILED" }
  \cup {"VALIDATED"} \X
      { "CLAIMED", "REJECTED", "EXPIRED", "SUPERSEDED", "FAILED" }
  \cup {"CLAIMED"} \X
      { "RISK_APPROVED", "RISK_BLOCKED", "EXPIRED", "SUPERSEDED", "FAILED" }
  \cup {"RISK_APPROVED"} \X
      { "SUBMITTING", "RISK_BLOCKED", "EXPIRED", "SUPERSEDED", "FAILED" }
  \cup {"SUBMITTING"} \X
      { "SUBMITTED", "ACKNOWLEDGED", "PARTIALLY_FILLED", "FILLED",
        "CANCELLED", "SUPERSEDED", "FAILED" }
  \cup {"SUBMITTED"} \X
      { "ACKNOWLEDGED", "PARTIALLY_FILLED", "FILLED", "CANCELLED",
        "SUPERSEDED", "FAILED" }
  \cup {"ACKNOWLEDGED"} \X
      { "PARTIALLY_FILLED", "FILLED", "CANCELLED", "SUPERSEDED", "FAILED" }
  \cup {"PARTIALLY_FILLED"} \X
      { "FILLED", "CANCELLED", "SUPERSEDED", "FAILED" }
  \cup { "CANCELLED", "SUPERSEDED" } \X { "PARTIALLY_FILLED", "FILLED" }

\* Mutant: a late REST answer revives a cancelled ticket.
MutantRevivesCancelled(current, target) ==
  \/ current = target \/ <<current, target>> \in ALLOWED_TRANSITIONS
  \/ current = "CANCELLED" /\ target = "SUBMITTED"

can_transition(current, target) ==
  current = target \/ <<current, target>> \in ALLOWED_TRANSITIONS
=============================================================================
