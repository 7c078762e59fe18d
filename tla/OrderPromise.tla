---------------------------- MODULE OrderPromise ----------------------------
(***************************************************************************)
(* What the execution service promises about the entry order of a ticket,   *)
(* told without its journal, leases, threads and restarts: a ticket is      *)
(* refused or taken to work once and for all; one request to create its     *)
(* order leaves at most, while it is being worked; an execution is booked   *)
(* once, never on an order that was not requested, and may reopen a ticket  *)
(* that was closed too early.                                               *)
(***************************************************************************)
EXTENDS Naturals

CONSTANTS Tickets, Execs

VARIABLES
  phase,   \* of each ticket
  asked,   \* the create requests that left for it
  booked   \* the executions booked for it

vars == <<phase, asked, booked>>

Refuse(t) ==
  /\ phase[t] = "PENDING"
  /\ phase' = [phase EXCEPT ![t] = "REFUSED"]
  /\ UNCHANGED <<asked, booked>>

Take(t) ==
  /\ phase[t] = "PENDING"
  /\ phase' = [phase EXCEPT ![t] = "WORKING"]
  /\ UNCHANGED <<asked, booked>>

Ask(t) ==
  /\ phase[t] = "WORKING"
  /\ asked[t] = 0
  /\ asked' = [asked EXCEPT ![t] = 1]
  /\ UNCHANGED <<phase, booked>>

Close(t) ==
  /\ phase[t] = "WORKING"
  /\ phase' = [phase EXCEPT ![t] = "CLOSED"]
  /\ UNCHANGED <<asked, booked>>

Book(t, e) ==
  /\ phase[t] \in { "WORKING", "CLOSED" }
  /\ asked[t] = 1
  /\ \A u \in Tickets : e \notin booked[u]
  /\ booked' = [booked EXCEPT ![t] = @ \cup {e}]
  /\ \E p \in { "WORKING", "CLOSED" } : phase' = [phase EXCEPT ![t] = p]
  /\ UNCHANGED asked

Init ==
  /\ phase = [t \in Tickets |-> "PENDING"]
  /\ asked = [t \in Tickets |-> 0]
  /\ booked = [t \in Tickets |-> {}]

Next ==
  \E t \in Tickets :
    \/ Refuse(t) \/ Take(t) \/ Ask(t) \/ Close(t)
    \/ \E e \in Execs : Book(t, e)

Spec == Init /\ [][Next]_vars
=============================================================================
