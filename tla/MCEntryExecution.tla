-------------------------- MODULE MCEntryExecution --------------------------
(* Small instances of the execution of entry orders for TLC. *)
EXTENDS EntryExecution

CONSTANTS t1, s1, s2, e1, e2

NoSupersession == [t \in Tickets |-> NoTicket]
OneTicket == <<t1>>

\* Sessions are interchangeable, and so are executions: the first are s1 and e1.
FirstInit == sess = s1 /\ Init
e1First   == \A l \in Orders : e2 \in trades[l] => e1 \in trades[l]
FromFirst == FirstInit /\ [][Next /\ e1First']_vars /\ Fairness
=============================================================================
