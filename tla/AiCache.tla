------------------------------- MODULE AiCache -------------------------------
(***************************************************************************)
(* The AI summaries the API server keeps for one symbol                    *)
(* (api/api_server.py, core/market_context.py): one file per trading mode  *)
(* and one overview.  They are rewritten by a background loop, by threads  *)
(* that requests start, and, for the modes, by the forecast process, which *)
(* has the same client but not the lock.                                   *)
(*                                                                         *)
(* A file and a temporary file are records [content, writers]: `writers`   *)
(* are the processes that hold it open and have not flushed their text.    *)
(* A file that does not parse is "torn"; the code reads it as a missing    *)
(* one.  Symbols have files and locks of their own: one symbol is modelled.*)
(***************************************************************************)
EXTENDS Naturals, Sequences, FiniteSets

CONSTANTS Modes,          \* FILE_MODES
          Overview,       \* the overview file
          Requests,       \* slots for the threads that requests start
          Loop,           \* the background thread
          Forecaster,     \* the forecast process
          NoThread,
          ForecastWrites, \* whether the forecast process runs
          RetryAttempts,  \* retry_attempts of the scheduled refresh
          ModeOrder       \* the order in which a refresh visits the modes

ASSUME AiCacheAssumption ==
    /\ Overview \notin Modes
    /\ Loop \notin Requests /\ Forecaster \notin Requests \cup {Loop}
    /\ NoThread \notin Requests \cup {Loop, Forecaster}
    /\ ForecastWrites \in BOOLEAN
    /\ RetryAttempts \in Nat \ {0}
    /\ ModeOrder \in Seq(Modes)

Files   == Modes \cup {Overview}
Threads == Requests \cup {Loop}
Writers == Threads \cup {Forecaster}

\* A failed answer, an answer without a summary among them, is never fresh:
\* nothing asks its age.
Payload == [status : {"ok", "error", "disabled"},
            exhausted : BOOLEAN, fresh : BOOLEAN]
NoText  == [status : {"missing", "torn"}, exhausted : {FALSE}, fresh : {FALSE}]
Unread(s) == [status |-> s, exhausted |-> FALSE, fresh |-> FALSE]
Answer(s) == [status |-> s, exhausted |-> FALSE, fresh |-> s # "error"]

FileState == [content : Payload \cup NoText, writers : SUBSET Writers]
Absent    == [content |-> Unread("missing"), writers |-> {}]

\* The client persists through X.tmp, the refresh through X.json.tmp.
TmpNames  == ({"client"} \X Modes) \cup ({"refresh"} \X Files)

VARIABLES gateway,     \* the language model gateway answers with a summary
          configured,  \* llm_aux is enabled in config.yml
          disk,        \* the files
          tmp,         \* the temporary files beside them
          lock,        \* _AI_REFRESH_LOCKS of the symbol
          doing,       \* what each thread is at
          forecast     \* what the forecast process is writing

cacheVars == <<gateway, configured, disk, tmp, lock, doing, forecast>>

Steps == {"idle", "acquire", "look", "call", "persist", "rename",
          "write", "replace"}

NoJob == [step |-> "idle", failedOnly |-> FALSE, at |-> 1, left |-> 0,
          answer |-> Unread("missing")]

NoForecast == [step |-> "idle", mode |-> Overview, answer |-> Unread("missing")]

CacheTypeOK ==
    /\ gateway \in BOOLEAN
    /\ configured \in BOOLEAN
    /\ disk \in [Files -> FileState]
    /\ tmp \in [TmpNames -> FileState]
    /\ lock \in Threads \cup {NoThread}
    /\ doing \in [Threads -> [step : Steps, failedOnly : BOOLEAN,
                            at : 1..(Len(ModeOrder) + 1),
                            left : 0..RetryAttempts,
                            answer : Payload \cup NoText]]
    /\ forecast \in [step : {"idle", "persist", "rename"}, mode : Files,
                     answer : Payload \cup NoText]

CacheInit ==
    /\ gateway \in BOOLEAN
    /\ configured \in BOOLEAN
    /\ disk = [f \in Files |-> Absent]
    /\ tmp = [n \in TmpNames |-> Absent]
    /\ lock = NoThread
    /\ doing = [t \in Threads |-> NoJob]
    /\ forecast = NoForecast

-----------------------------------------------------------------------------
(* Reading a file: usable, failed, stale.                                  *)

Usable(p) == p.status = "ok"

Failed(p) == p.status \in {"missing", "torn", "error"}

StaleSummary(p)  == ~Usable(p) \/ ~p.fresh
StaleOverview(p) == p.status \in {"missing", "torn", "error"} \/ ~p.fresh

\* A mutant: what the docstring says of the scheduled refresh, "never re-run
\* items that have already been marked retry_exhausted".
MutantSkipsExhausted(file, failedOnly) ==
    LET p == disk[file].content
    IN  IF p.exhausted \/ (failedOnly /\ ~Failed(p)) THEN 0
        ELSE IF file = Overview
        THEN IF StaleOverview(p) THEN RetryAttempts ELSE 0
        ELSE IF configured /\ StaleSummary(p) THEN RetryAttempts ELSE 0

\* A mutant: a retry asks for everything, not only for what failed.
MutantRetriesAll(file, failedOnly) == IF failedOnly THEN 1 ELSE RetryAttempts

\* What a thread decides about a file it has read: the number of attempts,
\* 0 to leave the file alone.  An exhausted file gets one more attempt, except
\* that the scheduled refresh gives the overview all of them.
Attempts(file, failedOnly) ==
    LET p == disk[file].content
        all == IF failedOnly THEN 1 ELSE RetryAttempts
    IN  IF file = Overview
        THEN IF \/ failedOnly /\ Failed(p)
                \/ ~failedOnly /\ (p.exhausted \/ StaleOverview(p))
             THEN all ELSE 0
        ELSE CASE ~configured                -> 0
               [] configured /\ p.exhausted  -> 1
               [] OTHER -> IF IF failedOnly THEN Failed(p) ELSE StaleSummary(p)
                           THEN all ELSE 0

FileOf(t) == IF doing[t].at > Len(ModeOrder) THEN Overview
             ELSE ModeOrder[doing[t].at]

-----------------------------------------------------------------------------
(* Writing a file: open(tmp, "w") truncates the file of that name, which   *)
(* another writer may have open; rename carries its writers along.         *)

OpenedBy(w, file) == [content |-> Unread("torn"), writers |-> file.writers \cup {w}]

\* A flush over a file nobody else has open leaves the writer's text; over a
\* shared one, the text or a mixture of texts.
Flushed(text, file, w) ==
    IF file.writers \subseteq {w} THEN {text} ELSE {text, Unread("torn")}

\* Writer w flushes its text and renames the temporary file over the target.
\* If another writer renamed it in the meantime, w's text goes into the target
\* itself, and its own rename fails.
FlushAndRename(w, name, target, text) ==
    IF w \in tmp[name].writers
    THEN \E c \in Flushed(text, tmp[name], w) :
            /\ disk' = [disk EXCEPT ![target] =
                          [content |-> c, writers |-> tmp[name].writers \ {w}]]
            /\ tmp' = [tmp EXCEPT ![name] = Absent]
    ELSE IF w \in disk[target].writers
    THEN \E c \in Flushed(text, disk[target], w) \cup {Unread("torn")} :
            /\ disk' = [disk EXCEPT ![target] =
                          [content |-> c, writers |-> @.writers \ {w}]]
            /\ UNCHANGED tmp
    ELSE UNCHANGED <<disk, tmp>>     \* the file it had open has been replaced

-----------------------------------------------------------------------------
(* _refresh_ai_for_symbol, one step per access to a file or the gateway.   *)

Proceed(t, step) == doing' = [doing EXCEPT ![t].step = step]

\* The background loop starts its next cycle.
NextCycle ==
    /\ doing[Loop].step = "idle"
    /\ Proceed(Loop, "acquire")
    /\ UNCHANGED <<gateway, configured, disk, tmp, lock, forecast>>

\* A reader finds no overview and starts a refresh (get_ai_analysis), or the
\* user asks for another try of what failed (retry_failed_ai_analysis).  Both
\* look at the lock first, and only the thread they start takes it.
StartRequest(t, failedOnly) ==
    /\ doing[t].step = "idle"
    /\ lock = NoThread
    /\ failedOnly \/ disk[Overview].content.status \in {"missing", "torn"}
    /\ doing' = [doing EXCEPT ![t] = [NoJob EXCEPT !.step = "acquire",
                                              !.failedOnly = failedOnly]]
    /\ UNCHANGED <<gateway, configured, disk, tmp, lock, forecast>>

Acquire(t) ==
    /\ doing[t].step = "acquire"
    /\ IF lock = NoThread
       THEN lock' = t /\ Proceed(t, "look")
       ELSE UNCHANGED lock /\ doing' = [doing EXCEPT ![t] = NoJob]
    /\ UNCHANGED <<gateway, configured, disk, tmp, forecast>>

\* Go on with the next file, or release the lock after the overview.
NextFile(t) ==
    IF FileOf(t) = Overview
    THEN lock' = NoThread /\ doing' = [doing EXCEPT ![t] = NoJob]
    ELSE /\ doing' = [doing EXCEPT ![t].step = "look", ![t].at = @ + 1]
         /\ UNCHANGED lock

Look(t) ==
    /\ doing[t].step = "look"
    /\ LET n == Attempts(FileOf(t), doing[t].failedOnly)
       IN  IF n = 0 THEN NextFile(t)
           ELSE /\ doing' = [doing EXCEPT ![t].step = "call", ![t].left = n]
                /\ UNCHANGED lock
    /\ UNCHANGED <<gateway, configured, disk, tmp, forecast>>

\* What a question is answered, after the fallback models have been tried.
GatewayAnswer ==
    Answer(IF ~configured THEN "disabled" ELSE IF gateway THEN "ok" ELSE "error")

\* After an answer: the next attempt, or the answer is written, marked
\* retry_exhausted when it is a failure (_retry_call).
Judged(j) ==
    IF Failed(j.answer) /\ j.left > 1
    THEN [j EXCEPT !.step = "call", !.left = @ - 1]
    ELSE [j EXCEPT !.step = "write",
                   !.answer.exhausted = Failed(j.answer)]

\* The gateway is asked; the client then persists the answer of a mode.
Call(t) ==
    /\ doing[t].step = "call"
    /\ LET asked == [doing[t] EXCEPT !.answer = GatewayAnswer]
       IN  doing' = [doing EXCEPT ![t] =
              IF FileOf(t) = Overview \/ asked.answer.status = "disabled"
              THEN Judged(asked) ELSE [asked EXCEPT !.step = "persist"]]
    /\ UNCHANGED <<gateway, configured, disk, tmp, lock, forecast>>

Persist(t) ==
    /\ doing[t].step = "persist"
    /\ tmp' = [tmp EXCEPT ![<<"client", FileOf(t)>>] = OpenedBy(t, @)]
    /\ Proceed(t, "rename")
    /\ UNCHANGED <<gateway, configured, disk, lock, forecast>>

Rename(t) ==
    /\ doing[t].step = "rename"
    /\ FlushAndRename(t, <<"client", FileOf(t)>>, FileOf(t), doing[t].answer)
    /\ doing' = [doing EXCEPT ![t] = Judged(@)]
    /\ UNCHANGED <<gateway, configured, lock, forecast>>

Write(t) ==
    /\ doing[t].step = "write"
    /\ tmp' = [tmp EXCEPT ![<<"refresh", FileOf(t)>>] = OpenedBy(t, @)]
    /\ Proceed(t, "replace")
    /\ UNCHANGED <<gateway, configured, disk, lock, forecast>>

Replace(t) ==
    /\ doing[t].step = "replace"
    /\ FlushAndRename(t, <<"refresh", FileOf(t)>>, FileOf(t), doing[t].answer)
    /\ NextFile(t)
    /\ UNCHANGED <<gateway, configured, forecast>>

-----------------------------------------------------------------------------
(* The forecast process asks the same question after each forecast.        *)

ForecastCall(m) ==
    /\ ForecastWrites /\ configured
    /\ forecast.step = "idle"
    /\ forecast' = [step |-> "persist", mode |-> m, answer |-> GatewayAnswer]
    /\ UNCHANGED <<gateway, configured, disk, tmp, lock, doing>>

ForecastPersist ==
    /\ forecast.step = "persist"
    /\ tmp' = [tmp EXCEPT ![<<"client", forecast.mode>>] = OpenedBy(Forecaster, @)]
    /\ forecast' = [forecast EXCEPT !.step = "rename"]
    /\ UNCHANGED <<gateway, configured, disk, lock, doing>>

ForecastRename ==
    /\ forecast.step = "rename"
    /\ FlushAndRename(Forecaster, <<"client", forecast.mode>>, forecast.mode,
                      forecast.answer)
    /\ forecast' = NoForecast
    /\ UNCHANGED <<gateway, configured, lock, doing>>

-----------------------------------------------------------------------------
(* The environment.                                                        *)

Age(f) ==
    /\ disk[f].content.fresh
    /\ disk' = [disk EXCEPT ![f].content.fresh = FALSE]
    /\ UNCHANGED <<gateway, configured, tmp, lock, doing, forecast>>

GatewayChanges ==
    /\ gateway' = ~gateway
    /\ UNCHANGED <<configured, disk, tmp, lock, doing, forecast>>

EditConfig ==
    /\ configured' = ~configured
    /\ UNCHANGED <<gateway, disk, tmp, lock, doing, forecast>>

Work(t) == Acquire(t) \/ Look(t) \/ Call(t) \/ Persist(t) \/ Rename(t)
           \/ Write(t) \/ Replace(t)

CacheNext ==
    \/ NextCycle
    \/ \E t \in Requests, failedOnly \in BOOLEAN : StartRequest(t, failedOnly)
    \/ \E t \in Threads : Work(t)
    \/ \E m \in Modes : ForecastCall(m)
    \/ ForecastPersist \/ ForecastRename
    \/ \E f \in Files : Age(f)
    \/ GatewayChanges \/ EditConfig

Fairness ==
    /\ WF_cacheVars(NextCycle)
    /\ \A t \in Threads : WF_cacheVars(Work(t))
    /\ WF_cacheVars(ForecastPersist) /\ WF_cacheVars(ForecastRename)
    /\ \A f \in Files : WF_cacheVars(Age(f))

CacheSpec == CacheInit /\ [][CacheNext]_cacheVars
FairCacheSpec == CacheSpec /\ Fairness

-----------------------------------------------------------------------------
(* Properties.                                                             *)

\* The overview a reader finds is whole: _safe_write_json writes beside it and
\* renames, and the lock keeps a second writer away from the temporary file.
OverviewWhole == disk[Overview].content.status # "torn"

Good(p)    == Usable(p) /\ p.fresh
Spoilt(f)  == Good(disk[f].content) /\ ~Usable(disk[f].content)'

\* A usable overview that is still fresh is not replaced by a failure: what
\* decided the rewrite was read under the lock that the write still holds.
FreshOverviewSurvives == [][~Spoilt(Overview)]_cacheVars

\* "Scheduled callers never re-run items that have already been marked
\* retry_exhausted=True" (_refresh_ai_for_symbol).  The code does, in every
\* cycle, and gives the overview all its attempts.
ExhaustedIsSkipped ==
    [][\A t \in Threads :
         /\ doing[t].step = "look" /\ doing'[t].step = "call"
         /\ ~doing[t].failedOnly
         => ~disk[FileOf(t)].content.exhausted]_cacheVars

\* Once the gateway answers and stays configured, every file is usable again
\* and again, whatever failure was marked in it before.  The loop skips a
\* cycle when a request holds the lock, so requests must come to an end.
RecoversWithGateway ==
    <>[](configured /\ gateway /\ \A t \in Requests : doing[t].step = "idle")
        => \A f \in Files : []<>Usable(disk[f].content)
=============================================================================
