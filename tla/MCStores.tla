------------------------------- MODULE MCStores -------------------------------
(***************************************************************************)
(* The two databases, on small instances for TLC: the execution journal    *)
(* and the decisions of the control plane.  Several actors commit to each, *)
(* and each must hold whatever order their transactions commit in.  They   *)
(* share nothing: `part` says which of them moves in a behaviour.          *)
(***************************************************************************)
EXTENDS ExecutionStore, Publication

CONSTANTS t1, c1, s1, s2

\* c1 cancels an order, and takes the place of t1 when that is received first.
Replacement == [t \in Tickets |-> IF t = c1 THEN t1 ELSE NoTicket]

Symmetry == Permutations(Execs) \cup Permutations(Sessions)

VARIABLE part \* the one that moves: "journal" or "decisions"

StoresInit == part \in {"journal", "decisions"} /\ StoreInit /\ Init

StoresNext ==
    \/ part = "journal" /\ StoreNext /\ UNCHANGED <<vars, part>>
    \/ part = "decisions" /\ Next /\ UNCHANGED <<storeVars, part>>

StoresSpec == StoresInit /\ [][StoresNext]_<<storeVars, vars, part>>
=============================================================================
