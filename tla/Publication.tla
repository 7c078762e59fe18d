---------------------------- MODULE Publication ----------------------------
(***************************************************************************)
(* How tickets of one symbol come into being.  A worker takes the modes    *)
(* from its queue one after the other, predicts, stores the forecast and,  *)
(* step by step, reads what a portfolio decision needs: the forecasts, the *)
(* next decision version, the latest decision, the position version.  The  *)
(* decision and its ticket are then published in one transaction.  Every   *)
(* step is awaited in a thread: a timeout ends the waiting coroutine, not  *)
(* the call in the thread, which may still commit while the next mode is   *)
(* being worked on.                                                        *)
(***************************************************************************)
EXTENDS Naturals, FiniteSets, SequencesExt

CONSTANTS
  Modes,         \* the forecast modes, each with a horizon of its own
  Prices,        \* reference prices
  NoMode, NoDecision,
  MinHorizons,   \* forecasts a decision needs at least
  RowLimit,      \* rows active_forecasts looks at
  QueueSize,
  MaxForecasts, MaxInterruptions, MaxPosition   \* bounds of the model

ASSUME ModesFinite == IsFiniteSet(Modes) /\ NoMode \notin Modes
ASSUME Sizes ==
  {MinHorizons, RowLimit, QueueSize, MaxForecasts, MaxInterruptions, MaxPosition}
    \subseteq Nat

\* What the decision can tell of a forecast: it is not eligible, it counts as context
\* for the others, or the ticket policy would trade on it.
Forecasts == [mode : Modes, at : 1..MaxForecasts,
              quality : {"ineligible", "context", "strong"}]
Decisions == [version : Nat, sources : SUBSET Forecasts]
Drafts == [version : Nat, sources : SUBSET Forecasts, price : Prices, position : 0..MaxPosition]

ASSUME NoDecisionIsNone == NoDecision \notin Decisions

VARIABLES
  forecasts, intents, tickets, position,    \* the control plane
  queue, active,                            \* the worker
  stage, mine, seen, chosen, ticket,            \* save_result
  orphans,                                  \* publications left in their threads
  made, interruptions                       \* counters

dbVars == <<forecasts, intents, tickets, position>>
saveVars == <<stage, mine, seen, chosen, ticket>>
countVars == <<made, interruptions>>
vars == <<dbVars, queue, active, saveVars, orphans, countVars>>

NoForecast == [mode |-> NoMode, at |-> 0, quality |-> "ineligible"]

Idle ==
  /\ active' = NoMode /\ stage' = "idle" /\ mine' = NoForecast
  /\ seen' = {} /\ chosen' = NoDecision /\ ticket' = NoDecision

Init ==
  /\ forecasts = {} /\ intents = {} /\ tickets = <<>> /\ position = 0
  /\ queue = <<>> /\ active = NoMode
  /\ stage = "idle" /\ mine = NoForecast /\ seen = {} /\ chosen = NoDecision /\ ticket = NoDecision
  /\ orphans = {} /\ made = 0 /\ interruptions = 0

-----------------------------------------------------------------------------
(* The control plane's transactions.                                       *)

\* active_forecasts: the newest rows of the symbol.
ActiveForecasts ==
  { f \in forecasts : Cardinality({ g \in forecasts : g.at > f.at }) < RowLimit }

Versions == { i.version : i \in intents }

NextDecisionVersion == IF intents = {} THEN 1 ELSE Max(Versions) + 1

LatestSources ==
  IF intents = {} THEN {}
  ELSE (CHOOSE i \in intents : i.version = Max(Versions)).sources

\* The id of a decision hashes its version and sources; a version is unique.
IntentRefused(d) == \E i \in intents : i.version = d.version /\ i.sources /= d.sources

Decision(d) == [version |-> d.version, sources |-> d.sources]

PublishForecast(f) ==
  /\ forecasts' = forecasts \cup {f}
  /\ UNCHANGED <<intents, tickets, position>>

\* MUTANT: the version is assigned when the decision is published.
MutantAssignsVersion(d) ==
  LET e == [d EXCEPT !.version = NextDecisionVersion]
  IN  /\ intents' = intents \cup {Decision(e)}
      /\ tickets' = Append(tickets, e)
      /\ UNCHANGED <<forecasts, position>>

\* Forecast, decision, ticket and outbox in one transaction; a refusal rolls back.
Publish(d) ==
  IF IntentRefused(d) THEN UNCHANGED dbVars
  ELSE /\ intents' = intents \cup {Decision(d)}
       /\ tickets' = IF d \in Range(tickets) THEN tickets ELSE Append(tickets, d)
       /\ UNCHANGED <<forecasts, position>>

\* A receipt of the service with a newer position version.
ReceiptArrives ==
  /\ position < MaxPosition /\ position' = position + 1
  /\ UNCHANGED <<forecasts, intents, tickets, queue, active, saveVars, orphans, countVars>>

-----------------------------------------------------------------------------
(* The decision.                                                           *)

\* SignalBook: the newest forecast of each horizon.
SignalBook(fs) == { f \in fs : \A g \in fs : g.mode = f.mode => g.at <= f.at }

Eligible(fs) == { f \in SignalBook(fs) : f.quality /= "ineligible" }

\* The ticket policy would trade on the forecast.
Strong(f) == f.quality = "strong"

Tradable(sources) == \E f \in sources : Strong(f)

-----------------------------------------------------------------------------
(* The worker.  A mode that waits or is being worked on is not queued      *)
(* again: _pending_keys holds exactly what is in the queue.                *)

Enqueue ==
  /\ \E m \in Modes \ (Range(queue) \cup {active}) :
       Len(queue) < QueueSize /\ queue' = Append(queue, m)
  /\ UNCHANGED <<dbVars, active, saveVars, orphans, countVars>>

Take ==
  /\ stage = "idle" /\ queue /= <<>>
  /\ active' = Head(queue) /\ queue' = Tail(queue) /\ stage' = "predict"
  /\ UNCHANGED <<dbVars, mine, seen, chosen, ticket, orphans, countVars>>

Predict ==
  /\ stage = "predict" /\ made < MaxForecasts
  /\ \E q \in {"ineligible", "context", "strong"} :
       mine' = [mode |-> active, at |-> made + 1, quality |-> q]
  /\ made' = made + 1 /\ stage' = "forecast"
  /\ UNCHANGED <<dbVars, queue, active, seen, chosen, ticket, orphans, interruptions>>

\* No data, no model, no result, or an exception that its retries do not cure.
PredictFails ==
  /\ stage = "predict" /\ Idle
  /\ UNCHANGED <<dbVars, queue, orphans, countVars>>

-----------------------------------------------------------------------------
(* save_result.                                                            *)

\* Only an authorised prediction with a price goes on to a decision.
SaveForecast ==
  /\ stage = "forecast"
  /\ PublishForecast(mine)
  /\ \/ Idle
     \/ stage' = "read" /\ UNCHANGED <<active, mine, seen, chosen, ticket>>
  /\ UNCHANGED <<queue, orphans, countVars>>

ReadForecasts ==
  /\ stage = "read"
  /\ seen' = ActiveForecasts /\ stage' = "version"
  /\ UNCHANGED <<dbVars, queue, active, mine, chosen, ticket, orphans, countVars>>

ReadVersion ==
  /\ stage = "version"
  /\ chosen' = IF Cardinality(Eligible(seen)) < MinHorizons THEN NoDecision
              ELSE [version |-> NextDecisionVersion, sources |-> Eligible(seen)]
  /\ stage' = "latest"
  /\ UNCHANGED <<dbVars, queue, active, mine, seen, ticket, orphans, countVars>>

\* MUTANT: the latest decision is not looked at.
MutantDecidesAgain(d) == d /= NoDecision

\* Nothing is decided twice from the same forecasts.
IsNew(d) == d /= NoDecision /\ d.sources /= LatestSources

ReadLatest ==
  /\ stage = "latest"
  /\ \/ ~IsNew(chosen) /\ Idle
     \/ IsNew(chosen) /\ stage' = "position"
        /\ UNCHANGED <<active, mine, seen, chosen, ticket>>
  /\ UNCHANGED <<dbVars, queue, orphans, countVars>>

ReadPosition ==
  /\ stage = "position"
  /\ \/ ~Tradable(chosen.sources) /\ Idle
     \/ /\ Tradable(chosen.sources)
        /\ \E p \in Prices :
             ticket' = [version |-> chosen.version, sources |-> chosen.sources,
                        price |-> p, position |-> position]
        /\ stage' = "ticket" /\ UNCHANGED <<active, mine, seen, chosen>>
  /\ UNCHANGED <<dbVars, queue, orphans, countVars>>

SaveTicket ==
  /\ stage = "ticket"
  /\ Publish(ticket) /\ Idle
  /\ UNCHANGED <<queue, orphans, countVars>>

\* save_result catches what a call raises: no ticket.
SaveFails ==
  /\ stage \in {"forecast", "read", "version", "latest", "position", "ticket"}
  /\ Idle
  /\ UNCHANGED <<dbVars, queue, orphans, countVars>>

Interrupt ==
  /\ interruptions < MaxInterruptions /\ interruptions' = interruptions + 1

\* The coroutine is cancelled, the thread that publishes is not.
TimeOut ==
  /\ stage /= "idle" /\ Interrupt
  /\ orphans' = IF stage = "forecast" THEN orphans \cup {[call |-> "forecast", what |-> mine]}
                ELSE IF stage = "ticket" THEN orphans \cup {[call |-> "ticket", what |-> ticket]}
                ELSE orphans
  /\ Idle
  /\ UNCHANGED <<dbVars, queue, made>>

OrphanPublishes ==
  /\ \E o \in orphans :
       /\ orphans' = orphans \ {o}
       /\ \/ o.call = "forecast" /\ PublishForecast(o.what)
          \/ o.call = "ticket" /\ Publish(o.what)
  /\ UNCHANGED <<queue, active, saveVars, countVars>>

\* The process ends, with it the queue and the threads.
ProcessRestarts ==
  /\ Interrupt
  /\ Idle /\ queue' = <<>> /\ orphans' = {}
  /\ UNCHANGED <<dbVars, made>>

Consumer ==
  \/ Take \/ Predict \/ PredictFails \/ SaveForecast \/ ReadForecasts \/ ReadVersion
  \/ ReadLatest \/ ReadPosition \/ SaveTicket \/ SaveFails

Next ==
  \/ Enqueue \/ Consumer \/ TimeOut \/ OrphanPublishes \/ ProcessRestarts \/ ReceiptArrives

Spec == Init /\ [][Next]_vars

-----------------------------------------------------------------------------
(* Properties.                                                             *)

\* The types; a save has a forecast, a decision or a ticket where the code uses one;
\* no mode is queued twice.
PublicationTypeOK ==
  /\ forecasts \subseteq Forecasts /\ intents \subseteq Decisions
  /\ Range(tickets) \subseteq Drafts /\ position \in 0..MaxPosition
  /\ Range(queue) \subseteq Modes \ {active} /\ IsInjective(queue)
  /\ stage /= "idle" => active \in Modes
  /\ stage \in {"forecast", "read", "version", "latest", "position", "ticket"}
       => mine \in Forecasts /\ mine.mode = active
  /\ seen \subseteq Forecasts
  /\ chosen \in Decisions \cup {NoDecision} /\ (stage \in {"position", "ticket"} => chosen /= NoDecision)
  /\ stage = "ticket" => ticket \in Drafts
  /\ \A o \in orphans : o.what \in (IF o.call = "ticket" THEN Drafts ELSE Forecasts)

\* The decisions of a symbol are numbered without gap or repetition, although the next
\* version is read in one transaction and used in another.
DecisionsNumbered == Versions = 1..Cardinality(intents)

\* Two decisions in succession rest on different forecasts: an unchanged signal is not
\* traded twice, whatever publishes between the reads of a save.
DecisionsDiffer ==
  \A i, j \in intents : j.version = i.version + 1 => i.sources /= j.sources

\* A later decision never rests on an older forecast of a mode than an earlier one,
\* although a save reads the forecasts before it reads the version.
DecisionsMoveOn ==
  \A i, j \in intents : i.version < j.version =>
    \A f \in i.sources, g \in j.sources : f.mode = g.mode => f.at <= g.at

\* A ticket in the outbox has its decision, and its forecasts can be looked up.
TicketsAreExplained ==
  \A d \in Range(tickets) : Decision(d) \in intents /\ d.sources \subseteq forecasts
=============================================================================
