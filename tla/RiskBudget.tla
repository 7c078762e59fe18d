----------------------------- MODULE RiskBudget -----------------------------
(***************************************************************************)
(* What one ticket may still risk: the account and the portfolio that the  *)
(* execution service reads for it (runtime_context.py), the losses of the  *)
(* day that the gateway replays from the official ledger and caches        *)
(* (exchange_gateway.py), the mark that the journal keeps of the highest   *)
(* equity (ticket_store.py), the decision of the risk guard and the size   *)
(* of the order (risk_guard.py, sizing.py).  A ticket that was approved    *)
(* before its visit failed is sized and sent by a later visit, which does  *)
(* not ask the guard again (ticket_consumer.py).                           *)
(*                                                                         *)
(* Money is counted in lots at the price of the ticket.  Time is counted   *)
(* in ticks; the ledger grows, and positions fill and close, between any   *)
(* two reads.  RiskControl has the interlocks; what else the guard checks  *)
(* of a ticket (prices, regimes, quality, versions) is a free veto.        *)
(***************************************************************************)
EXTENDS Integers, Sequences, FiniteSets, FiniteSetsExt, Functions

CONSTANTS Instruments, Correlated,
          Base,        \* the equity at the start
          Ttl,         \* _risk_metrics_cache_seconds
          Cooldown,    \* cooldown_minutes
          LossDiv,     \* one over max_daily_loss_pct
          DrawdownDiv, \* one over max_equity_drawdown_pct
          MaxStreak,   \* max_consecutive_losses
          Leverage,    \* leverage_cap, at most max_gross_leverage
          CorrDiv,     \* one over max_correlated_exposure_pct
          TicketLots,  \* what budget, notional and exposure leave to a ticket
          DayLength,   \* ticks of a UTC day
          MaxTime,     \* bound: ticks
          MaxRecords   \* bound: records of the ledger

ASSUME BudgetAssumption ==
    /\ IsFiniteSet(Instruments) /\ Correlated \subseteq Instruments
    /\ {Ttl, Cooldown, MaxTime, MaxRecords} \subseteq Nat
    /\ {Base, LossDiv, DrawdownDiv, MaxStreak, Leverage, CorrDiv, TicketLots, DayLength}
         \subseteq Nat \ {0}

VARIABLES now,
          ledger,   \* transaction log: changes of closing orders
          position, \* lots held
          pending,  \* lots of entries that are not filled
          granted,  \* tickets in RISK_APPROVED, by instrument
          high,     \* equity_runtime: equity_high_water_usdt
          cache,    \* _daily_risk_cache
          flow      \* the ticket that process has at hand, and what it has read

world      == <<now, ledger, position, pending>>
budgetVars == <<now, ledger, position, pending, granted, high, cache, flow>>

Day(t) == t \div DayLength

Total(f) == SumFunctionOnSet(f, Instruments)

-----------------------------------------------------------------------------
(* get_daily_risk_metrics: the records of a day, by the order that closed. *)

OfDay(log, d) == {i \in DOMAIN log : Day(log[i].at) = d}

Change(log, records) == SumFunctionOnSet([i \in records |-> log[i].change], records)

\* The records of an order are one loss or one win, at the time of the last.
Last(log, i, records) == \A j \in records : log[j].order = log[i].order => j <= i

Closes(log, records) == {i \in records : Last(log, i, records)}

Lost(log, i, records) ==
    Change(log, {j \in records : log[j].order = log[i].order}) < 0

\* The losses that no win has followed.
Streak(log, records) ==
    {i \in Closes(log, records) :
       \A j \in Closes(log, records) : j >= i => Lost(log, j, records)}

\* `last` is the time of the last close if it was a loss.
Metrics(log, d) ==
    LET records == OfDay(log, d)
        losses  == Streak(log, records)
    IN  [realised |-> Change(log, records),
         streak   |-> Cardinality(losses),
         last     |-> {log[i].at : i \in {j \in losses : \A k \in losses : k <= j}}]

NoMetrics == [realised |-> 0, streak |-> 0, last |-> {}]

NoCache == [day |-> -1, at |-> 0, metrics |-> NoMetrics]

\* A mutant: what is cached stays.
MutantKeepsCache == cache.day = Day(now)

\* The cache is of this day, and of the last moments.
Fresh == cache.day = Day(now) /\ now - cache.at <= Ttl

-----------------------------------------------------------------------------
(* The account at the exchange.                                            *)

\* `mark` is totalPerpUPL: what the open positions gain or lose at the moment.
Equity(mark) == Base + Change(ledger, DOMAIN ledger) + mark

Min2(a, b) == IF a < b THEN a ELSE b
Max2(a, b) == IF a > b THEN a ELSE b

\* totalAvailableBalance, in lots at the leverage of the ticket: positions and
\* open orders have their margin.
Margin(mark) == Max2(0, Equity(mark) * Leverage - Total(position) - Total(pending))

Idle == [step |-> "idle", cur |-> {}, at |-> 0, equity |-> 0, mark |-> 0, margin |-> 0,
         metrics |-> NoMetrics, readAt |-> 0, gross |-> 0, correlated |-> 0, flat |-> FALSE]

BudgetInit ==
    /\ now = 0 /\ ledger = <<>>
    /\ position = [s \in Instruments |-> 0] /\ pending = [s \in Instruments |-> 0]
    /\ granted = {} /\ high = 0 /\ cache = NoCache /\ flow = Idle

Tick ==
    /\ now < MaxTime /\ now' = now + 1
    /\ UNCHANGED <<ledger, position, pending, granted, high, cache, flow>>

Fill(s) ==
    /\ pending[s] > 0
    /\ position' = [position EXCEPT ![s] = @ + pending[s]]
    /\ pending' = [pending EXCEPT ![s] = 0]
    /\ UNCHANGED <<now, ledger, granted, high, cache, flow>>

\* A lot is closed, by a new order or by the one that closed the last lot.
Close(s, change, next) ==
    /\ position[s] > 0 /\ Len(ledger) < MaxRecords
    /\ ledger = <<>> => next
    /\ position' = [position EXCEPT ![s] = @ - 1]
    /\ LET order == IF ledger = <<>> THEN 0 ELSE ledger[Len(ledger)].order
       IN  ledger' = Append(ledger, [order |-> IF next THEN order + 1 ELSE order,
                                     change |-> change, at |-> now])
    /\ UNCHANGED <<now, pending, granted, high, cache, flow>>

-----------------------------------------------------------------------------
(* TicketConsumer.process: account, portfolio, decision.                   *)

\* The ticket of an iteration that has failed comes first: the cursor waits.
ReadBalance(s, mark) ==
    /\ flow.step = "idle" /\ granted \subseteq {s}
    /\ Total(position) = 0 => mark = 0
    /\ flow' = [Idle EXCEPT !.step = "metrics", !.cur = {s}, !.at = now, !.mark = mark,
                           !.equity = Equity(mark), !.margin = Margin(mark)]
    /\ UNCHANGED <<world, granted, high, cache>>

\* observe_equity; an equity of zero or less is not observed.
Observed(equity) == Max2(high, equity)

ReadMetrics ==
    /\ flow.step = "metrics"
    /\ cache' = IF Fresh THEN cache
                ELSE [day |-> Day(now), at |-> now, metrics |-> Metrics(ledger, Day(now))]
    /\ flow' = [flow EXCEPT !.step = "portfolio", !.metrics = cache'.metrics, !.readAt = now]
    /\ high' = Observed(flow.equity)
    /\ UNCHANGED <<world, granted>>

\* The ticket at hand was approved by an earlier visit.
Kept == flow.cur \subseteq granted

\* No endpoint, an exception, too many pages: the guard vetoes, if it is asked.
MetricsFail ==
    /\ flow.step = "metrics" /\ ~Fresh
    /\ flow' = IF Kept THEN [flow EXCEPT !.step = "portfolio"] ELSE Idle
    /\ high' = Observed(flow.equity)
    /\ UNCHANGED <<world, granted, cache>>

ReadExposure(s) ==
    /\ flow.step = "portfolio" /\ flow.cur = {s}
    /\ flow' = [flow EXCEPT !.step = IF Kept THEN "size" ELSE "decide", !.flat = position[s] = 0,
                           !.gross = Total(position),
                           !.correlated = SumFunctionOnSet(position, Correlated)]
    /\ UNCHANGED <<world, granted, high, cache>>

\* The losses of a day that stop new risk, at time t.
Halts(metrics, equity, mark, t) ==
    \/ (metrics.realised + mark) * LossDiv <= -equity
    \/ metrics.streak >= MaxStreak
    \/ \E last \in metrics.last : t < last + Cooldown

\* RiskGuard.evaluate, as far as it is about the account and the portfolio.
Approved ==
    /\ flow.equity > 0
    /\ ~Halts(flow.metrics, flow.equity, flow.mark, flow.at)
    /\ (high - flow.equity) * DrawdownDiv < high
    /\ flow.margin > 0 /\ flow.flat
    /\ flow.gross < flow.equity * Leverage
    /\ flow.correlated * CorrDiv < flow.equity

Grant ==
    /\ flow.step = "decide" /\ Approved
    /\ granted' = flow.cur
    /\ flow' = [flow EXCEPT !.step = "size"]
    /\ UNCHANGED <<world, high, cache>>

\* A mutant: the margin that is left is not looked at.
MutantSize ==
    Min({TicketLots,
         Max2(0, flow.equity * Leverage - flow.gross),
         Max2(0, (flow.equity - flow.correlated * CorrDiv) \div CorrDiv)})

\* PositionSizer.calculate: the least of what the limits leave, in whole lots.
Size ==
    Min({TicketLots,
         flow.margin,
         Max2(0, flow.equity * Leverage - flow.gross),
         Max2(0, (flow.equity - flow.correlated * CorrDiv) \div CorrDiv)})

Enter(s) ==
    /\ flow.step = "size" /\ flow.cur = {s} /\ Size > 0
    /\ pending' = [pending EXCEPT ![s] = @ + Size]
    /\ granted' = {} /\ flow' = Idle
    /\ UNCHANGED <<now, ledger, position, high, cache>>

\* The guard rejects, or the sizer finds no quantity.
VetoBudget ==
    /\ flow.step \in {"decide", "size"}
    /\ granted' = {} /\ flow' = Idle
    /\ UNCHANGED <<world, high, cache>>

\* An exception of the exchange or of the journal ends the visit, not what it
\* has approved.
VisitFails ==
    /\ flow.step # "idle"
    /\ flow' = Idle
    /\ UNCHANGED <<world, granted, high, cache>>

\* The service starts anew; the cache was in its memory.  A ticket that the last
\* session holds at the control plane is passed over.
Restart ==
    /\ granted' \in {granted, {}}
    /\ cache' = NoCache /\ flow' = Idle
    /\ UNCHANGED <<world, high>>

BudgetNext ==
    \/ Tick \/ ReadMetrics \/ MetricsFail \/ Grant \/ VetoBudget \/ VisitFails \/ Restart
    \/ \E s \in Instruments : Fill(s) \/ ReadExposure(s) \/ Enter(s)
    \/ \E s \in Instruments, mark \in {-1, 0} : ReadBalance(s, mark)
    \/ \E s \in Instruments, change \in {-1, 1}, next \in BOOLEAN : Close(s, change, next)

BudgetSpec == BudgetInit /\ [][BudgetNext]_budgetVars

-----------------------------------------------------------------------------
(* Properties.                                                             *)

BudgetTypeOK ==
    /\ now \in 0..MaxTime /\ high \in Nat
    /\ position \in [Instruments -> Nat] /\ pending \in [Instruments -> Nat]
    /\ Len(ledger) <= MaxRecords
    /\ flow.step \in {"idle", "metrics", "portfolio", "decide", "size"}
    /\ granted \subseteq Instruments /\ flow.cur \subseteq Instruments /\ flow.margin \in Nat

Enters == \E s \in Instruments : pending'[s] > pending[s]

\* What the ledger has held at some time of the day, no longer before the
\* metrics were read than the cache may be old.
Recent(log) ==
    LET old == {i \in DOMAIN ledger : ledger[i].at < flow.readAt - Ttl}
    IN  \E n \in Cardinality(old)..Len(ledger) : log = SubSeq(ledger, 1, n)

\* Losses stop new risk: a ticket is approved only if the ledger of its day
\* allowed it within the age of the cache, whatever was cached, partly closed or
\* lost over midnight and restarts (exchange_gateway.py, risk_guard.py).  The
\* entry may leave later, in a visit that does not look at the losses.
LossesStopApprovals ==
    [][~(granted' \subseteq granted) => \E n \in 0..Len(ledger) :
         /\ Recent(SubSeq(ledger, 1, n))
         /\ ~Halts(Metrics(SubSeq(ledger, 1, n), Day(flow.readAt)), flow.equity, flow.mark,
                   flow.at)]_budgetVars

\* Positions and open entries together stay within the leverage of the equity
\* an entry was sized with, though the portfolio that is read counts no open
\* orders: the margin they hold makes up for it (sizing.py, runtime_context.py).
GrossWithinLeverage ==
    [][Enters => Total(position') + Total(pending') <= flow.equity * Leverage]_budgetVars

\* "Correlated exposure" is a final veto (docs/architecture_v1.md:64): the
\* entries and positions of correlated symbols stay within their limit.
CorrelatedWithinLimit ==
    [][Enters => SumFunctionOnSet([c \in Correlated |-> position'[c] + pending'[c]], Correlated)
                   * CorrDiv <= flow.equity]_budgetVars
=============================================================================
