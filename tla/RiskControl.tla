----------------------------- MODULE RiskControl -----------------------------
(***************************************************************************)
(* What may stop a new order, and who may start trading again: the loop of *)
(* the service with its startup, the reconciliation and the audit of a     *)
(* dedicated account (BybitContractBotV4/service_main.py), the interlocks  *)
(* it keeps in its database (ticket_store.py, incident_modes.py), the       *)
(* inputs and the decision of the risk guard (runtime_context.py,           *)
(* risk_guard.py, sizing.py), the private stream and the records of service *)
(* runs (soak_monitor.py).                                                  *)
(*                                                                         *)
(* A symbol has tickets until one of them becomes an order; its entry and  *)
(* its target trade one lot each.  What the guard checks of one ticket     *)
(* alone, prices, regimes, quality, losses, is a free veto.                 *)
(***************************************************************************)
EXTENDS Integers, FiniteSets, FiniteSetsExt

CONSTANTS Symbols,
          MaxGross,   \* max_gross_leverage, in lots of the equity
          MaxDay,     \* bound: midnights
          MaxCrashes, \* bound: crashes
          MaxForeign  \* bound: what others do in the account

ASSUME RiskAssumption ==
    /\ IsFiniteSet(Symbols)
    /\ {MaxGross, MaxDay, MaxCrashes, MaxForeign} \subseteq Nat

Links   == Symbols \X {"entry", "target"}
Foreign == {<<"foreign", "order">>}

VARIABLES day,       \* the UTC day
          kill,      \* risk_runtime: the kill switch in the row of the day
          incident,  \* system_runtime
          complete,  \* system_runtime: reconciliation_complete
          runs,      \* service_runs without an end
          reports,   \* runtime_metrics: unexpected_restart
          links,     \* execution_orders
          booked,    \* orders whose execution is journaled
          snapshot,  \* position_snapshots of this owner
          open,      \* orders open at the exchange
          traded,    \* own orders that have traded
          foreign,   \* lots that somebody else has traded
          others,    \* history: what others have done
          stream,    \* the private stream is connected
          child,     \* the target the stream's thread is installing
          approved,  \* tickets in RISK_APPROVED, by symbol
          loop,      \* where the loop is, and what it has read
          found,     \* history: an audit found unknown state, no operator came
          late,      \* history: entries sent with the kill switch on
          crashes    \* history

account   == <<open, traded, foreign, others>>
journal   == <<links, booked, snapshot, approved>>
interlock == <<kill, incident, complete>>
service   == <<runs, reports, crashes>>
vars == <<day, kill, incident, complete, runs, reports, links, booked, snapshot, open,
          traded, foreign, others, stream, child, approved, loop, found, late, crashes>>

NoChild == [step |-> "off", link |-> <<>>]

\* The phases of an iteration: a startup audits before and after its recovery.
Phases == {"starting", "recovered", "running"}

\* What the loop has read, with values that nothing has been read for; `page`
\* holds the symbols it has still to visit, `cur` the one of the ticket at hand.
Off == [step |-> "off", phase |-> "running", known |-> {}, unknown |-> FALSE,
        remote |-> [s \in Symbols |-> 0], page |-> {}, cur |-> {},
        room |-> FALSE, clear |-> FALSE]

Steps == {"off", "recover", "known", "orders", "positions", "ledger", "sync",
          "idle", "poll", "health", "decide", "size", "create"}

-----------------------------------------------------------------------------
(* Positions: at the exchange, in the journal, in the snapshots.           *)

Lots(done, s) == (IF <<s, "entry">> \in done THEN 1 ELSE 0)
                 - (IF <<s, "target">> \in done THEN 1 ELSE 0)

Position(s) == Lots(traded, s) + foreign[s]

TypeOK ==
    /\ day \in 0..MaxDay /\ kill \in BOOLEAN
    /\ incident \in {"NORMAL", "MANUAL_HANDOVER"}
    /\ complete \in BOOLEAN
    /\ {runs, reports, crashes, others, late} \subseteq Nat
    /\ links \subseteq Links /\ booked \subseteq traded /\ traded \subseteq links
    /\ open \subseteq links \cup Foreign
    /\ snapshot \in [Symbols -> 0..(1 + MaxForeign)]
    /\ foreign \in [Symbols -> 0..MaxForeign]
    /\ stream \in BOOLEAN /\ found \in BOOLEAN
    /\ child.step \in {"off", "reserve", "create"}
    /\ approved \subseteq Symbols /\ Cardinality(approved) <= 1
    /\ loop.step \in Steps /\ loop.phase \in Phases
    /\ loop.page \subseteq Symbols /\ loop.cur \subseteq loop.page

Init ==
    /\ day = 0 /\ kill = FALSE /\ incident = "NORMAL" /\ complete = FALSE
    /\ runs = 0 /\ reports = 0 /\ crashes = 0
    /\ links = {} /\ booked = {} /\ snapshot = [s \in Symbols |-> 0]
    /\ open = {} /\ traded = {} /\ foreign = [s \in Symbols |-> 0] /\ others = 0
    /\ stream = FALSE /\ child = NoChild
    /\ approved = {} /\ loop = Off /\ found = FALSE /\ late = 0

Goto(step) == loop' = [loop EXCEPT !.step = step]

-----------------------------------------------------------------------------
(* Runs of the service: SoakMonitor.start and stop.                        *)

\* A mutant: the run that has crashed is reported, and left open.
MutantLeavesOpen == runs + 1

\* begin_service_run closes one open run, and opens its own.
RunsAfterBegin == (IF runs > 0 THEN runs - 1 ELSE 0) + 1

\* The lease of the last session may still be held at the control plane: the
\* ticket it had at hand is then passed over.
Start ==
    /\ loop.step = "off"
    /\ approved' \in {approved, {}}
    /\ reports' = reports + (IF runs > 0 THEN 1 ELSE 0)
    /\ runs' = RunsAfterBegin
    /\ complete' = FALSE /\ stream' = TRUE
    /\ loop' = [Off EXCEPT !.step = "known", !.phase = "starting"]
    /\ UNCHANGED <<day, kill, incident, links, booked, snapshot, account, child, found, late,
                   crashes>>

\* The loop ends, in an exception of the startup or when it is asked to.
Stop ==
    /\ runs' = runs - 1
    /\ loop' = Off /\ stream' = FALSE

StopService ==
    /\ loop.step = "idle"
    /\ Stop
    /\ UNCHANGED <<day, interlock, reports, crashes, journal, account, child, found, late>>

Crash ==
    /\ loop.step # "off" /\ crashes < MaxCrashes
    /\ crashes' = crashes + 1
    /\ loop' = Off /\ stream' = FALSE /\ child' = NoChild
    /\ UNCHANGED <<day, interlock, runs, reports, journal, account, found, late>>

-----------------------------------------------------------------------------
(* start and run_once, up to the poll.                                     *)

\* _open_private_websocket connects a stream that has dropped.
RunOnce ==
    /\ loop.step = "idle"
    /\ complete' = FALSE /\ stream' = TRUE
    /\ loop' = [Off EXCEPT !.step = "recover"]
    /\ UNCHANGED <<day, kill, incident, service, journal, account, child, found, late>>

\* An exception (of the exchange, of the journal, a lease that ran out): it ends the startup and the service, or the iteration.
Fails ==
    /\ complete' = FALSE
    /\ IF loop.phase # "running" THEN Stop
       ELSE loop' = [Off EXCEPT !.step = "idle"] /\ UNCHANGED <<runs, stream>>

ExchangeError ==
    /\ loop.step \in {"known", "orders", "positions", "recover", "sync", "poll", "health", "size"}
    /\ Fails
    /\ UNCHANGED <<day, kill, incident, reports, crashes, journal, account, child, found, late>>

\* recover_all, in one step (ExecutionStore and EntryExecution have its own),
\* and the first query of the audit that follows.
Recover ==
    /\ loop.step = "recover"
    /\ booked' = traded
    /\ loop' = [loop EXCEPT !.step = "orders", !.known = links,
                           !.phase = IF @ = "starting" THEN "recovered" ELSE @]
    /\ UNCHANGED <<day, interlock, service, links, snapshot, approved, account, stream, child,
                   found, late>>

-----------------------------------------------------------------------------
(* _verify_account_ownership: journaled links, open orders, positions, and *)
(* then the journaled quantities, read one after the other.                *)

ReadKnown ==
    /\ loop.step = "known"
    /\ loop' = [loop EXCEPT !.step = "orders", !.known = links]
    /\ UNCHANGED <<day, interlock, service, journal, account, stream, child, found, late>>

FetchOrders ==
    /\ loop.step = "orders"
    /\ loop' = [loop EXCEPT !.step = "positions", !.known = {},
                           !.unknown = ~(open \subseteq loop.known)]
    /\ UNCHANGED <<day, interlock, service, journal, account, stream, child, found, late>>

FetchPositions ==
    /\ loop.step = "positions"
    /\ loop' = [loop EXCEPT !.step = "ledger", !.remote = [s \in Symbols |-> Position(s)]]
    /\ UNCHANGED <<day, interlock, service, journal, account, stream, child, found, late>>

Owned(s) == loop.remote[s] \in {0, snapshot[s], Lots(booked, s)}

\* A mutant: unknown state only sets the kill switch.
MutantKillsOnly == incident

ModeAfterAudit == "MANUAL_HANDOVER"

\* Startup audits before and after the recovery.
Audit ==
    /\ loop.step = "ledger"
    /\ IF loop.unknown \/ \E s \in Symbols : ~Owned(s)
       THEN /\ incident' = ModeAfterAudit
            /\ kill' = TRUE
            /\ found' = TRUE
            /\ Fails
       ELSE /\ loop' = [Off EXCEPT !.step = IF loop.phase = "starting" THEN "recover" ELSE "sync",
                                  !.phase = loop.phase, !.page = Symbols]
            /\ UNCHANGED <<interlock, found, runs, stream>>
    /\ UNCHANGED <<day, reports, crashes, journal, account, child, late>>

-----------------------------------------------------------------------------
(* Positions that entries have opened: those held too long are closed with *)
(* the kill switch set, and a missing target is sent (ProtectionExits).     *)

NeedsTarget(s) == <<s, "target">> \notin links /\ Position(s) > 0

\* BybitRuntimeContext.portfolio records as owned what is there.
SyncPosition(s) == snapshot' = [snapshot EXCEPT ![s] = Position(s)]

Visit(s) ==
    /\ loop.step = "sync" /\ s \in loop.page
    /\ loop' = [loop EXCEPT !.page = @ \ {s}]
    /\ IF <<s, "entry">> \in booked
       THEN /\ SyncPosition(s)
            /\ kill' \in {kill, TRUE}
            /\ LET target == IF NeedsTarget(s) THEN {<<s, "target">>} ELSE {}
               IN  links' = links \cup target /\ open' = open \cup target
       ELSE UNCHANGED <<snapshot, kill, links, open>>
    /\ UNCHANGED <<day, incident, complete, service, booked, approved, traded, foreign, others,
                   stream, child, found, late>>

Complete ==
    /\ loop.step = "sync" /\ loop.page = {}
    /\ complete' = TRUE
    /\ loop' = IF loop.phase = "recovered" THEN [Off EXCEPT !.step = "idle"]
               ELSE [loop EXCEPT !.step = "poll", !.page = Symbols]
    /\ UNCHANGED <<day, kill, incident, service, journal, account, stream, child, found, late>>

-----------------------------------------------------------------------------
(* The poll: TicketConsumer.process reads market, account, portfolio and   *)
(* health of each ticket, decides and submits.                             *)

EndPoll ==
    /\ loop.step = "poll"
    /\ loop' = [Off EXCEPT !.step = "idle"]
    /\ UNCHANGED <<day, interlock, service, journal, account, stream, child, found, late>>

\* A flat position, and leverage left; open orders do not count.
Room(s) == Position(s) = 0 /\ MapThenSumSet(Position, Symbols) < MaxGross

\* The ticket of an iteration that has failed comes first: the cursor waits.
ReadPortfolio(s) ==
    /\ loop.step = "poll" /\ s \in loop.page /\ approved \subseteq {s}
    /\ <<s, "entry">> \notin links
    /\ SyncPosition(s)
    /\ loop' = [loop EXCEPT !.step = "health", !.cur = {s}, !.room = Room(s)]
    /\ UNCHANGED <<day, interlock, service, links, booked, approved, account, stream, child,
                   found, late>>

\* A mutant: the health of a ticket does not include the kill switch.
MutantForgetsKill == incident = "NORMAL" /\ complete /\ stream

\* action_allowed, the kill switch, the reconciliation and the private stream.
Clear == ~kill /\ incident = "NORMAL" /\ complete /\ stream

\* What has been approved before is not evaluated again.
ReadHealth ==
    /\ loop.step = "health"
    /\ loop' = [loop EXCEPT !.step = IF loop.cur \subseteq approved THEN "size" ELSE "decide",
                           !.clear = Clear, !.room = @ /\ ~(loop.cur \subseteq approved)]
    /\ UNCHANGED <<day, interlock, service, journal, account, stream, child, found, late>>

NextTicket == [Off EXCEPT !.step = "poll", !.page = loop.page \ loop.cur]

\* RiskGuard.evaluate approves, or PositionSizer.calculate finds a quantity.
Approve ==
    /\ loop.step = "decide" /\ loop.clear /\ loop.room
    /\ approved' = loop.cur
    /\ Goto("size")
    /\ UNCHANGED <<day, interlock, service, links, booked, snapshot, account, stream, child,
                   found, late>>

Veto ==
    /\ loop.step \in {"decide", "size"}
    /\ approved' = {}
    /\ loop' = NextTicket
    /\ UNCHANGED <<day, interlock, service, links, booked, snapshot, account, stream, child,
                   found, late>>

Reserve ==
    /\ loop.step = "size"
    /\ links' = links \cup (loop.cur \X {"entry"}) /\ approved' = {}
    /\ Goto("create")
    /\ UNCHANGED <<day, interlock, service, booked, snapshot, account, stream, child, found, late>>

Create ==
    /\ loop.step = "create"
    /\ open' = open \cup (loop.cur \X {"entry"})
    /\ late' = late + (IF kill THEN 1 ELSE 0)
    /\ loop' = NextTicket
    /\ UNCHANGED <<day, interlock, service, journal, traded, foreign, others, stream, child, found>>

-----------------------------------------------------------------------------
(* The private stream: its thread books executions, and installs the target*)
(* of an entry that is filled.                                             *)

StreamBooks(l) ==
    /\ stream /\ child.step = "off"
    /\ l \in traded \ booked
    /\ booked' = booked \cup {l}
    /\ child' = IF l[2] = "entry" THEN [step |-> "reserve", link |-> <<l[1], "target">>] ELSE child
    /\ UNCHANGED <<day, interlock, service, links, snapshot, approved, account, stream, loop,
                   found, late>>

ChildReserve ==
    /\ child.step = "reserve"
    /\ IF child.link \in links THEN child' = NoChild /\ UNCHANGED links
       ELSE child' = [child EXCEPT !.step = "create"] /\ links' = links \cup {child.link}
    /\ UNCHANGED <<day, interlock, service, booked, snapshot, approved, account, stream, loop,
                   found, late>>

ChildCreate ==
    /\ child.step = "create"
    /\ open' = open \cup {child.link}
    /\ child' = NoChild
    /\ UNCHANGED <<day, interlock, service, journal, traded, foreign, others, stream, loop, found, late>>

\* A message cannot be journaled, or the target cannot be installed.
StreamFails ==
    /\ stream \/ child.step # "off"
    /\ kill' = TRUE /\ child' = NoChild
    /\ UNCHANGED <<day, incident, complete, service, journal, account, stream, loop, found, late>>

StreamDrops ==
    /\ stream /\ stream' = FALSE
    /\ UNCHANGED <<day, interlock, service, journal, account, child, loop, found, late>>

-----------------------------------------------------------------------------
(* The exchange, other users of the account, midnight, the operator.       *)

Trade(l) ==
    /\ l \in open \cap Links
    /\ open' = open \ {l} /\ traded' = traded \cup {l}
    /\ UNCHANGED <<day, interlock, service, journal, foreign, others, stream, child, loop, found, late>>

OthersTrade(s) ==
    /\ others < MaxForeign /\ others' = others + 1
    /\ foreign' = [foreign EXCEPT ![s] = @ + 1]
    /\ UNCHANGED <<day, interlock, service, journal, open, traded, stream, child, loop, found, late>>

OthersOrder ==
    /\ others < MaxForeign /\ others' = others + 1
    /\ open' = open \cup Foreign
    /\ UNCHANGED <<day, interlock, service, journal, traded, foreign, stream, child, loop, found, late>>

OthersLeave ==
    /\ others > 0
    /\ foreign' = [s \in Symbols |-> 0] /\ open' = open \ Foreign
    /\ UNCHANGED <<day, interlock, service, journal, traded, others, stream, child, loop, found, late>>

Midnight ==
    /\ day < MaxDay /\ day' = day + 1
    /\ kill' = FALSE /\ late' = 0
    /\ UNCHANGED <<incident, complete, service, journal, account, stream, child, loop, found>>

\* Cleans up or adopts, then releases the interlocks.
Operator ==
    /\ found \/ kill
    /\ snapshot' \in {snapshot, [s \in Symbols |-> Position(s)]}
    /\ incident' = "NORMAL" /\ kill' = FALSE
    /\ found' = FALSE /\ late' = 0
    /\ UNCHANGED <<day, complete, service, links, booked, approved, account, stream, child, loop>>

Iteration == \/ RunOnce \/ Recover \/ ReadKnown \/ FetchOrders \/ FetchPositions
             \/ Audit \/ Complete \/ EndPoll \/ ReadHealth \/ Veto \/ Approve \/ Reserve
             \/ Create
             \/ \E s \in Symbols : Visit(s) \/ ReadPortfolio(s)

Stream == \/ ChildReserve \/ ChildCreate \/ StreamFails \/ StreamDrops
          \/ \E l \in Links : StreamBooks(l)

World == \/ \E l \in Links : Trade(l)
         \/ \E s \in Symbols : OthersTrade(s)
         \/ OthersOrder \/ OthersLeave \/ Midnight

Next == Start \/ StopService \/ Crash \/ ExchangeError \/ Iteration \/ Stream \/ World
        \/ Operator

Spec == Init /\ [][Next]_vars

-----------------------------------------------------------------------------
(* Properties.                                                             *)

\* "Unknown orders or positions ... prevent increasing risk"
\* (docs/architecture_v3_release_candidate.md:114): after an audit has found an
\* order or a position that is not the service's own, nothing is approved, over
\* midnights, crashes and restarts, until an operator has released the account.
HandoverHolds == [][approved' \subseteq approved \/ ~found]_vars

EntryLeaves == \E s \in Symbols : <<s, "entry">> \in open' \ open

\* Ticket validity, the kill switch and the other conditions "are all checked
\* before an order is placed" (docs/architecture_v1.md:64): every entry leaves
\* under interlocks that were clear when they were last read for its ticket.
CheckedBeforeOrder == [][EntryLeaves => loop.clear]_vars

\* The kill switch may be set by the thread of the stream at any moment: on its
\* day at most one entry leaves after it, the one that had passed it before.
OneOrderAfterKill == late <= 1

\* A run that did not end cleanly is reported by the next one, and only once
\* (docs/soak_slo.md:31), whatever other runs ended cleanly in between.
UnexpectedReportedOnce ==
    crashes = reports + (IF loop.step = "off" THEN runs ELSE runs - 1)

\* "The system never adopts unknown positions by itself"
\* (docs/architecture_v3_release_candidate.md:114).
NeverAdopts ==
    [][\A s \in Symbols :
         foreign[s] > 0 /\ snapshot'[s] # snapshot[s] /\ snapshot'[s] = Position(s)
         => Operator]_vars
=============================================================================
