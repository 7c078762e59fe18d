--------------------------- MODULE EventBacktest ---------------------------
(***************************************************************************)
(* EventDrivenBacktest.run (core/backtest/event_driven.py): a portfolio is  *)
(* simulated over trading signals in the order of their decisions, each     *)
(* trade priced by the triple-barrier label of its path                     *)
(* (core/labels/triple_barrier.py).                                        *)
(*                                                                         *)
(* Time is counted in instants: candles of a horizon h close at its         *)
(* multiples, every horizon is even, and the latency between a decision and *)
(* its fill is one instant.  What the two candles after a decision do is    *)
(* unknown to the model, so it is anything.  Money is counted in the risk   *)
(* of one trade: a stop costs 1, a target gains 1, and costs are left out.  *)
(***************************************************************************)
EXTENDS Integers, FiniteSets, FiniteSetsExt

CONSTANTS
    Symbols,
    Horizons,        \* candles, in instants
    InitialEquity,
    DailyLimit,      \* loss of a day that ends its trading
    WeeklyLimit,     \* loss of a week that ends its trading
    DrawdownPercent, \* drawdown that ends all trading
    Gross,           \* positions the equity allows at a time
    DayLength, DaysPerWeek,
    LastDay

ASSUME BacktestAssumption ==
    /\ IsFiniteSet(Symbols)
    /\ Horizons \subseteq {h \in Nat \ {0} : h % 2 = 0}
    /\ {InitialEquity, DailyLimit, WeeklyLimit, DrawdownPercent, Gross, DayLength, DaysPerWeek,
        LastDay} \subseteq Nat \ {0}

VARIABLES
    signals,       \* the decisions the loop has not reached, as [symbol, horizon, at]
    open,          \* pending: the trades that are not settled
    equity, peak,
    daily, weekly, \* daily_pnl, weekly_pnl
    foreseen       \* history: a decision came after the settlement of a trade whose
                   \* outcome was not known yet

backtestVars == <<signals, open, equity, peak, daily, weekly, foreseen>>

Days == 0..LastDay
Weeks == 0..(LastDay \div DaysPerWeek)

\* The locals of a call over these signals, before its loop.
Fresh(pending) ==
    /\ signals = pending /\ open = {}
    /\ equity = InitialEquity /\ peak = InitialEquity
    /\ daily = [d \in Days |-> 0] /\ weekly = [w \in Weeks |-> 0]
    /\ foreseen = FALSE

Launch(pending) ==
    /\ signals' = pending /\ open' = {}
    /\ equity' = InitialEquity /\ peak' = InitialEquity
    /\ daily' = [d \in Days |-> 0] /\ weekly' = [w \in Weeks |-> 0]
    /\ foreseen' = FALSE

-----------------------------------------------------------------------------
(* build_triple_barrier_label                                              *)

Bars == {"none", "stop", "target", "both"}

\* What the candles after a decision do: hits of the barriers, and the sign of
\* the last close.
Paths == [hits : {<<b>> : b \in Bars} \cup {<<"none", b>> : b \in Bars}, gain : {-1, 1}]

ExitBar(path) == IF path.hits[1] = "none" /\ DOMAIN path.hits = {1, 2} THEN 2 ELSE 1
ExitHit(path) == path.hits[ExitBar(path)]

\* A stop comes before a target of the same candle; a close is kept otherwise.
Gain(path) ==
    CASE ExitHit(path) \in {"stop", "both"} -> -1
      [] ExitHit(path) = "target" -> 1
      [] OTHER -> path.gain

CloseTime(signal, path) == signal.at + ExitBar(path) * signal.horizon
Expiry(signal) == signal.at + 1 + signal.horizon
EarlierOf(a, b) == IF a < b THEN a ELSE b

\* A mutant: a position ends when its last candle opens.
MutantEndsAtOpen(signal, path) ==
    [symbol |-> signal.symbol, exit |-> CloseTime(signal, path) - signal.horizon,
     available |-> CloseTime(signal, path), pnl |-> Gain(path)]

\* The expiry is one latency into the second candle, whose close prices it.
Label(signal, path) ==
    [symbol |-> signal.symbol, exit |-> EarlierOf(CloseTime(signal, path), Expiry(signal)),
     available |-> CloseTime(signal, path), pnl |-> Gain(path)]

Outcomes(signal) == {Label(signal, path) : path \in Paths}

-----------------------------------------------------------------------------
(* The portfolio                                                           *)

Day(t) == t \div DayLength
Week(t) == Day(t) \div DaysPerWeek

\* The decisions of the next moment, in any order: their names are random.
Upcoming == {s \in signals : \A other \in signals : s.at <= other.at}

\* settle_until: what has ended by then, and at last everything.
Due == {trade \in open : \A s \in Upcoming : trade.exit <= s.at}
Foremost == {a \in Due : \A b \in Due : a.exit <= b.exit}

\* active_until: the symbol is in a position.
Holding(s) == \E trade \in open : trade.symbol = s

\* The capital-preservation limits, of the settled trades.
LimitReached(t) ==
    \/ daily[Day(t)] <= -DailyLimit
    \/ weekly[Week(t)] <= -WeeklyLimit
    \/ (peak - equity) * 100 >= DrawdownPercent * peak

Refused(signal) ==
    Holding(signal.symbol) \/ LimitReached(signal.at) \/ Cardinality(open) >= Gross

\* One trade after the other, in the order they ended.
Settle ==
    \E trade \in Foremost :
        /\ open' = open \ {trade}
        /\ equity' = equity + trade.pnl
        /\ peak' = Max({peak, equity'})
        /\ daily' = [daily EXCEPT ![Day(trade.exit)] = @ + trade.pnl]
        /\ weekly' = [weekly EXCEPT ![Week(trade.exit)] = @ + trade.pnl]
        /\ foreseen' = (foreseen \/ \E s \in Upcoming : s.at < trade.available)
        /\ UNCHANGED signals

\* The signal is refused, finds no candles to be filled in, or is a trade.
Decide ==
    /\ Due = {}
    /\ \E signal \in Upcoming :
           /\ signals' = signals \ {signal}
           /\ \/ UNCHANGED open
              \/ ~Refused(signal) /\ \E trade \in Outcomes(signal) : open' = open \cup {trade}
    /\ UNCHANGED <<equity, peak, daily, weekly, foreseen>>

Finished == signals = {} /\ open = {}

-----------------------------------------------------------------------------
\* "High/low/close are not considered observed until ``available_at``"
\* (triple_barrier.py, MarketBar): no decision follows the settlement of a trade
\* whose outcome it cannot know.
SettledAreObserved == ~foreseen

\* Losses are counted when they are settled, positions of other symbols are
\* still open then, and positions of yesterday end today: still no day loses
\* more than its limit and the positions that were open when it was reached.
DayLossBounded == \A d \in Days : daily[d] > -(DailyLimit + Cardinality(Symbols))
=============================================================================
