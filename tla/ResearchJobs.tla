---------------------------- MODULE ResearchJobs ----------------------------
(***************************************************************************)
(* The slow research on events (core/jobs/job_store.py, research_job.py):  *)
(* workers move jobs through their states and save revisions of the impact *)
(* of an event on an asset, and the blackouts that follow from them.       *)
(*                                                                         *)
(* Every method of the store is one transaction; between the reading of a  *)
(* job and the saving of a revision a worker has nothing but its draft     *)
(* (core/events/impact_model.py).  The checkpoints are a trail that nothing*)
(* reads, and are left out, as are all assets but one.                     *)
(***************************************************************************)
EXTENDS Integers, Sequences, SequencesExt

CONSTANTS Jobs, Events, Sources, Analysts,
          MaxRevisions, \* bound: revisions of a job
          MaxHour       \* bound: the clock

ASSUME JobsAssumption == MaxRevisions \in Nat \ {0} /\ MaxHour \in Nat \ {0}

NoJob == "none"

VARIABLES state,     \* research_jobs: the status of each job, "none": no such job
          replaced,  \* ... superseded_by_job_id
          revisions, \* research_job_revisions and event_asset_links
          known,     \* source_events
          sources,   \* event_sources: what each source says of which event
          draft,     \* what each worker is about to save
          hour

jobVars == <<state, replaced, revisions, known, sources, draft, hour>>

Stages == <<"DETECTED", "DEDUPLICATED", "TRIAGED", "PRIMARY_SOURCE_VERIFYING",
            "ENTITY_RESOLVED", "SCENARIOS_BUILDING", "IMPACT_QUANTIFYING">>

Closed == {"COMPLETED", "SUPERSEDED", "FAILED"}

NoSource == [event |-> "none", tier |-> "C", verified |-> FALSE]
NoDraft  == [job |-> NoJob, event |-> "none", number |-> 0, blackout |-> FALSE, until |-> 0]

Statuses == {"none"} \cup Range(Stages) \cup Closed

Source   == [event : Events \cup {"none"}, tier : {"A", "C"}, verified : BOOLEAN]
Revision == [event : Events, number : 1..MaxRevisions, blackout : BOOLEAN,
             until : 0..(MaxHour + 1)]
Draft    == [job : Jobs, event : Events, number : 1..MaxRevisions, blackout : BOOLEAN,
             until : 0..(MaxHour + 1)]

JobsTypeOK ==
    /\ state \in [Jobs -> Statuses]
    /\ replaced \in [Jobs -> Jobs \cup {NoJob}]
    /\ revisions \in [Jobs -> Seq(Revision)]
    /\ known \subseteq Events
    /\ sources \in [Sources -> Source]
    /\ draft \in [Analysts -> Draft \cup {NoDraft}]
    /\ hour \in 0..MaxHour

JobsInit ==
    /\ state = [j \in Jobs |-> "none"]
    /\ replaced = [j \in Jobs |-> NoJob]
    /\ revisions = [j \in Jobs |-> <<>>]
    /\ known = {}
    /\ sources = [s \in Sources |-> NoSource]
    /\ draft = [w \in Analysts |-> NoDraft]
    /\ hour = 0

Hour ==
    /\ hour < MaxHour
    /\ hour' = hour + 1
    /\ UNCHANGED <<state, replaced, revisions, known, sources, draft>>

-----------------------------------------------------------------------------
(* Events and what vouches for them.                                       *)

\* record_event: the same event again is no news.
RecordEvent(e) ==
    /\ e \notin known
    /\ known' = known \cup {e}
    /\ UNCHANGED <<state, replaced, revisions, sources, draft, hour>>

\* A mutant: a source that comes again replaces what is known of it.
MutantReplaces(s, source) == [sources EXCEPT ![s] = source]

\* INSERT OR IGNORE: the id is made from event, address and content, not from
\* the tier nor from whether it was verified.
Recorded(s, source) == IF sources[s] = NoSource THEN [sources EXCEPT ![s] = source] ELSE sources

\* add_event_source; a source belongs to an event that is known.
AddEventSource(s) ==
    \E e \in known, tier \in {"A", "C"}, verified \in BOOLEAN :
        /\ sources[s].event \in {e, "none"}
        /\ sources' = Recorded(s, [event |-> e, tier |-> tier, verified |-> verified])
        /\ UNCHANGED <<state, replaced, revisions, known, draft, hour>>

\* verified_primary of save_revision.
Primary(e) == \E s \in Sources : /\ sources[s].event = e
                                 /\ sources[s].tier = "A" /\ sources[s].verified

-----------------------------------------------------------------------------
(* Jobs.                                                                   *)

CreateJob(j) ==
    /\ state[j] = "none"
    /\ state' = [state EXCEPT ![j] = "DETECTED"]
    /\ UNCHANGED <<replaced, revisions, known, sources, draft, hour>>

\* NEXT_STATES.
NextStates(s) ==
    IF s \in Closed THEN {}
    ELSE {"SUPERSEDED", "FAILED"} \cup
         {IF i = Len(Stages) THEN "COMPLETED" ELSE Stages[i + 1] :
             i \in {k \in DOMAIN Stages : Stages[k] = s}}

\* transition, complete: a job may be moved to the state it is in.
Transition(j) ==
    /\ state[j] # "none"
    /\ \E target \in NextStates(state[j]) \cup {state[j]} : state' = [state EXCEPT ![j] = target]
    /\ UNCHANGED <<replaced, revisions, known, sources, draft, hour>>

\* supersede: of a superseded job the successor is written again.
Supersede(old, new) ==
    /\ state[old] # "none"
    /\ "SUPERSEDED" \in NextStates(state[old]) \cup {state[old]}
    /\ state' = [state EXCEPT ![old] = "SUPERSEDED"]
    /\ replaced' = [replaced EXCEPT ![old] = new]
    /\ UNCHANGED <<revisions, known, sources, draft, hour>>

-----------------------------------------------------------------------------
(* Revisions.                                                              *)

\* build_impact_vector: a worker reads the revisions of a job and draws its
\* conclusion from the evidence it was handed, which need not be on record.
DraftRevision(w, j) ==
    /\ draft[w] = NoDraft
    /\ state[j] # "none" /\ Len(revisions[j]) < MaxRevisions
    /\ \E e \in Events, blackout \in BOOLEAN :
          draft' = [draft EXCEPT ![w] =
             [job |-> j, event |-> e, number |-> Len(revisions[j]) + 1,
              blackout |-> blackout, until |-> IF blackout THEN hour + 1 ELSE 0]]
    /\ UNCHANGED <<state, replaced, revisions, known, sources, hour>>

\* A mutant: the state of the job is taken to be as it was when the worker read it.
MutantAccepts(d) == /\ d.event \in known
                    /\ d.blackout => Primary(d.event)
                    /\ d.number = Len(revisions[d.job]) + 1

\* save_revision checks all of it in its transaction; whether the event is one
\* of the job's it does not ask.
Accepts(d) == /\ state[d.job] = "IMPACT_QUANTIFYING"
              /\ d.event \in known
              /\ d.blackout => Primary(d.event)
              /\ d.number = Len(revisions[d.job]) + 1

\* A draft that is refused is given up.
SaveRevision(w) ==
    /\ draft[w] # NoDraft
    /\ LET d == draft[w]
       IN  revisions' = IF Accepts(d)
                        THEN [revisions EXCEPT ![d.job] = Append(@,
                                [event |-> d.event, number |-> d.number,
                                 blackout |-> d.blackout, until |-> d.until])]
                        ELSE revisions
    /\ draft' = [draft EXCEPT ![w] = NoDraft]
    /\ UNCHANGED <<state, replaced, known, sources, hour>>

JobsNext ==
    \/ Hour
    \/ \E e \in Events : RecordEvent(e)
    \/ \E s \in Sources : AddEventSource(s)
    \/ \E j \in Jobs : CreateJob(j) \/ Transition(j)
    \/ \E old, new \in Jobs : Supersede(old, new)
    \/ \E w \in Analysts, j \in Jobs : DraftRevision(w, j)
    \/ \E w \in Analysts : SaveRevision(w)

JobsSpec == JobsInit /\ [][JobsNext]_jobVars

\* event_blackout: the revisions of any job that call for one and are in time.
Blackouts(j) == {r \in Range(revisions[j]) : r.blackout /\ r.until > hour}

-----------------------------------------------------------------------------
(* Properties.                                                             *)

\* "event blackout requires a verified Tier A source" (save_revision): as long
\* as a blackout is in force such a source is on record, however often the
\* sources of the event are reported again.
BlackoutIsPrimary == \A j \in Jobs : \A r \in Blackouts(j) : Primary(r.event)

\* What workers with stale drafts race for: the revisions of a job are numbered
\* without gap, none is rewritten, and a closed job gets no more of them
\* ("superseded without mutating history", test_research_jobs.py).
RevisionsAreHistory ==
    [][\A j \in Jobs :
          /\ IsPrefix(revisions[j], revisions'[j])
          /\ revisions'[j] # revisions[j] =>
                state[j] \notin Closed /\ Last(revisions'[j]).number = Len(revisions'[j])]_jobVars

\* A blackout that the newest revision of its job withdraws, or whose job has
\* failed or was superseded, is over.
BlackoutFollowsNewest ==
    \A j \in Jobs : Blackouts(j) # {} =>
        state[j] \notin {"SUPERSEDED", "FAILED"} /\ Last(revisions[j]).blackout
=============================================================================
