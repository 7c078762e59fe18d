---------------------------- MODULE ModelArtifacts ----------------------------
(***************************************************************************)
(* Training and the artifacts of one symbol and timeframe: the decision to *)
(* train (core/kline_feature_store.py, should_train), the training child   *)
(* and its timeouts (core/portfolio3_3_fixed.py, execute_with_memory_limit;*)
(* core/trainer3.py), the promotion of model and scaler from write/ to     *)
(* read/ and backup/, and the repair by the forecast process.              *)
(*                                                                         *)
(* A dataset is named by the newest candle in it, an artifact by the       *)
(* dataset it was trained on.  A shutdown of the process pool terminates   *)
(* the children, unless children were cleaned up within the last five      *)
(* seconds; a process that is killed leaves its child running.  A child    *)
(* that is left behind goes on beside the children of the next pool.       *)
(***************************************************************************)
EXTENDS Integers

CONSTANTS MaxData,  \* bound: datasets
          MinNew,   \* min_new_rows_for_retrain
          MaxLeft   \* bound: children left behind at a time

ASSUME ArtifactsAssumption == MaxData \in Nat \ {0} /\ {MinNew, MaxLeft} \subseteq Nat

Missing   == 0
Torn      == -1
Artifacts == {Torn, Missing} \cup 1..MaxData
Pair      == [model : Artifacts, scaler : Artifacts]
Kinds     == {"model", "scaler"}
NoPair    == [model |-> Missing, scaler |-> Missing]

VARIABLES data,     \* the dataset the feature store would build now
          seen,     \* the newest candle that was there at the last update
          registry, \* model_registry: the status of each dataset
          write, read, backup,  \* the three directories
          child,    \* the child of the process pool, and those left behind
          parent,   \* the training process
          alone,    \* history: no child left behind has written since the child of
                    \* the pool began to save
          whole     \* history: the last promotion copied everything that its child
                    \* alone had saved, nothing was repaired while it went on, nor
                    \* from write/ since

promotion    == <<alone, whole>>
artifactVars == <<data, seen, registry, write, read, backup, child, parent, alone, whole>>

Pool     == 0
Left     == 1..MaxLeft
Children == {Pool} \cup Left

NoChild  == [step |-> "none", data |-> 0]
Resting  == [step |-> "idle", data |-> 0, attempt |-> 1]

ArtifactsTypeOK ==
    /\ data \in 1..MaxData /\ seen \in 0..data
    /\ registry \in [1..MaxData -> {"none", "trained", "skipped"}]
    /\ {write, read, backup} \subseteq Pair
    /\ child \in [Children -> [step : {"none", "fit", "model", "scaler", "dump", "return"},
                                data : 0..MaxData]]
    /\ parent \in [step : {"idle", "queued", "running", "read_model", "backup_model",
                           "read_scaler", "backup_scaler", "record"},
                   data : 0..MaxData, attempt : 1..2]
    /\ {alone, whole} \subseteq BOOLEAN

\* A new installation.
ArtifactsInit ==
    /\ data = 1 /\ seen = 0
    /\ registry = [d \in 1..MaxData |-> "none"]
    /\ write = NoPair /\ read = NoPair /\ backup = NoPair
    /\ child = [c \in Children |-> NoChild]
    /\ parent = Resting
    /\ alone = FALSE /\ whole = FALSE

NewCandle ==
    /\ data < MaxData
    /\ data' = data + 1
    /\ UNCHANGED <<seen, registry, write, read, backup, child, parent, promotion>>

-----------------------------------------------------------------------------
(* _train_single_symbol: update the store, decide, submit.                 *)

\* should_train: new_rows counts the rows of this update only.
ShouldTrain(newRows) ==
    /\ ~(read.model # Missing /\ registry[data] = "trained")
    /\ ~(0 < newRows /\ newRows < MinNew)

\* A mutant: a dataset that was trained stays recorded as trained.
MutantKeepsTrained(status) ==
    registry' = [registry EXCEPT ![data] = IF @ = "trained" THEN @ ELSE status]

\* record_model replaces the row of the dataset, whatever it said.
Record(status) == registry' = [registry EXCEPT ![data] = status]

Skip ==
    /\ parent.step = "idle"
    /\ ~ShouldTrain(data - seen)
    /\ seen' = data
    /\ Record("skipped")
    /\ UNCHANGED <<data, write, read, backup, child, parent, promotion>>

-----------------------------------------------------------------------------
(* shutdown_process_pool with force, _request_process_restart.             *)

\* kill_zombie_processes ends the children of this process; one that a killed
\* process has left behind is not among them.
Terminated ==
    \E kept \in SUBSET Left :
        child' = [c \in Children |-> IF c \in kept THEN child[c] ELSE NoChild]

\* It was called within the last five seconds and returns at once, or the
\* process dies: the child goes on in a pool that nobody uses.
LeftBehind ==
    \E c \in Left :
        /\ child[c] = NoChild
        /\ child' = [child EXCEPT ![c] = child[Pool], ![Pool] = NoChild]

Shutdown == Terminated \/ LeftBehind

\* A pool older than an hour, or too many open files, get a new pool; otherwise
\* the task queues behind a child whose task gave up.
Submit ==
    /\ parent.step = "idle"
    /\ ShouldTrain(data - seen)
    /\ seen' = data
    /\ parent' = [step |-> "queued", data |-> data, attempt |-> 1]
    /\ UNCHANGED child \/ Shutdown
    /\ UNCHANGED <<data, registry, write, read, backup, promotion>>

-----------------------------------------------------------------------------
(* run_training_in_process: a pool has one worker.                         *)

Take ==
    /\ parent.step = "queued" /\ child[Pool] = NoChild
    /\ child' = [child EXCEPT ![Pool] = [step |-> "fit", data |-> parent.data]]
    /\ parent' = [parent EXCEPT !.step = "running"]
    /\ UNCHANGED <<data, seen, registry, write, read, backup, promotion>>

Moves(c, from, to) ==
    child[c].step = from /\ child' = [child EXCEPT ![c].step = to]

Copying == parent.step \in {"read_model", "backup_model", "read_scaler", "backup_scaler"}

\* The histories: what a child left behind writes may mix with what is promoted.
LeftWrites == alone' = FALSE /\ whole' = (whole /\ ~Copying)

Writes(c) ==
    IF c \in Left THEN LeftWrites
    ELSE alone' = (alone \/ child[c].step = "fit") /\ UNCHANGED whole

\* Fitted and evaluated on the holdout.  atomic_save_model holds the lock of the
\* model from here until it is saved, and moves the previous model away before
\* the new one is renamed into its place.
RotateModel(c) ==
    /\ \A other \in Children : child[other].step # "model"
    /\ Moves(c, "fit", "model")
    /\ write' = [write EXCEPT !.model = Missing]
    /\ Writes(c)
    /\ UNCHANGED <<data, seen, registry, read, backup, parent>>

SaveModel(c) ==
    /\ Moves(c, "model", "scaler")
    /\ write' = [write EXCEPT !.model = child[c].data]
    /\ Writes(c)
    /\ UNCHANGED <<data, seen, registry, read, backup, parent>>

\* The scaler is written in place, without a lock.
OpenScaler(c) ==
    /\ Moves(c, "scaler", "dump")
    /\ write' = [write EXCEPT !.scaler = Torn]
    /\ Writes(c)
    /\ UNCHANGED <<data, seen, registry, read, backup, parent>>

\* Another child has the file open, or has written it since it was opened.
Mixed(c) ==
    write.scaler # Torn \/ \E other \in Children \ {c} : child[other].step = "dump"

DumpScaler(c) ==
    /\ Moves(c, "dump", "return")
    /\ \/ write' = [write EXCEPT !.scaler = child[c].data] /\ Writes(c)
       \/ Mixed(c) /\ write' = [write EXCEPT !.scaler = Torn] /\ LeftWrites
    /\ UNCHANGED <<data, seen, registry, read, backup, parent>>

Ends(c) == child' = [child EXCEPT ![c] = NoChild]

\* The result reaches the task that waits for it; a child whose task gave up, or
\* that was left behind, returns to nobody.
Return(c) ==
    /\ child[c].step = "return"
    /\ Ends(c)
    /\ IF c = Pool /\ parent.step = "running"
       THEN parent' = [parent EXCEPT !.step = "read_model", !.attempt = 1] /\ whole' = alone
       ELSE UNCHANGED <<parent, whole>>
    /\ UNCHANGED <<data, seen, registry, write, read, backup, alone>>

\* A mutant: whatever the child has left in write/ is promoted.
MutantPromotesFailed == [parent EXCEPT !.step = "read_model"]

AfterFailure == Resting

\* The child raises, in the fit or while it saves.
WorkerRaises ==
    /\ child[Pool] # NoChild /\ parent.step = "running"
    /\ Ends(Pool)
    /\ parent' = AfterFailure
    /\ whole' = IF AfterFailure.step = "read_model" THEN alone ELSE whole
    /\ UNCHANGED <<data, seen, registry, write, read, backup, alone>>

\* So does one left behind, or the system ends it.
LeftRaises(c) ==
    /\ child[c] # NoChild
    /\ Ends(c)
    /\ UNCHANGED <<data, seen, registry, write, read, backup, parent, promotion>>

\* The first timeout shuts the pool down and tries again on the same data, as
\* does a pool that breaks.
TimesOut ==
    /\ parent.step \in {"queued", "running"} /\ parent.attempt = 1
    /\ Shutdown
    /\ parent' = [parent EXCEPT !.step = "queued", !.attempt = 2]
    /\ UNCHANGED <<data, seen, registry, write, read, backup, promotion>>

\* The second gives up, as does the timeout of the whole mode in either
\* attempt: a running child goes on.
GivesUp ==
    /\ parent.step \in {"queued", "running"}
    /\ parent' = Resting
    /\ UNCHANGED <<data, seen, registry, write, read, backup, child, promotion>>

-----------------------------------------------------------------------------
(* _promote_with_backup for the model, then for the scaler.                *)

Valid(a) == a # Missing

PromoteModel ==
    /\ parent.step = "read_model" /\ Valid(write.model)
    /\ read' = [read EXCEPT !.model = write.model]
    /\ parent' = [parent EXCEPT !.step = "backup_model"]
    /\ UNCHANGED <<data, seen, registry, write, backup, child, promotion>>

BackupModel ==
    /\ parent.step = "backup_model" /\ Valid(read.model)
    /\ backup' = [backup EXCEPT !.model = read.model]
    /\ parent' = [parent EXCEPT !.step = "read_scaler"]
    /\ UNCHANGED <<data, seen, registry, write, read, child, promotion>>

PromoteScaler ==
    /\ parent.step = "read_scaler" /\ Valid(write.scaler)
    /\ read' = [read EXCEPT !.scaler = write.scaler]
    /\ parent' = [parent EXCEPT !.step = "backup_scaler"]
    /\ UNCHANGED <<data, seen, registry, write, backup, child, promotion>>

BackupScaler ==
    /\ parent.step = "backup_scaler" /\ Valid(read.scaler)
    /\ backup' = [backup EXCEPT !.scaler = read.scaler]
    /\ parent' = [parent EXCEPT !.step = "record"]
    /\ UNCHANGED <<data, seen, registry, write, read, child, promotion>>

\* The artifact to copy is not there: in write/ for read/, in read/ for backup/.
SourceMissing ==
    \/ parent.step = "read_model"  /\ ~Valid(write.model)
    \/ parent.step = "read_scaler" /\ ~Valid(write.scaler)
    \/ parent.step = "backup_model"  /\ ~Valid(read.model)
    \/ parent.step = "backup_scaler" /\ ~Valid(read.scaler)

\* An artifact is missing, or a copy fails: its promotion ends, with a warning.
CopyFails ==
    /\ Copying
    /\ parent' = [parent EXCEPT !.step =
                    IF @ \in {"read_model", "backup_model"} THEN "read_scaler" ELSE "record"]
    /\ whole' = FALSE
    /\ UNCHANGED <<data, seen, registry, write, read, backup, child, alone>>

\* The dataset counts as trained even when a promotion failed.
RecordTrained ==
    /\ parent.step = "record"
    /\ registry' = [registry EXCEPT ![parent.data] = "trained"]
    /\ parent' = Resting
    /\ UNCHANGED <<data, seen, write, read, backup, child, promotion>>

-----------------------------------------------------------------------------
(* The process ends; files disappear; the forecast process repairs read/   *)
(* from backup/, or from write/.                                           *)

\* A signal that it handles shuts the pool down; SIGKILL, and os._exit after a
\* cleanup that did nothing, leave the child behind.
Killed ==
    /\ parent # Resting \/ child[Pool] # NoChild
    /\ Shutdown
    /\ parent' = Resting
    /\ whole' = (whole /\ ~Copying)
    /\ UNCHANGED <<data, seen, registry, write, read, backup, alone>>

Damage(kind) ==
    /\ Valid(read[kind])
    /\ read' = [read EXCEPT ![kind] = Missing]
    /\ UNCHANGED <<data, seen, registry, write, backup, child, parent, promotion>>

Repair(kind) ==
    /\ ~Valid(read[kind])
    /\ LET source == IF Valid(backup[kind]) THEN backup[kind] ELSE write[kind]
       IN  Valid(source) /\ read' = [read EXCEPT ![kind] = source]
    /\ whole' = (whole /\ Valid(backup[kind]) /\ ~Copying)
    /\ UNCHANGED <<data, seen, registry, write, backup, child, parent, alone>>

Train ==
    \/ Take
    \/ \E c \in Children : \/ RotateModel(c) \/ SaveModel(c) \/ OpenScaler(c)
                           \/ DumpScaler(c) \/ Return(c)
    \/ PromoteModel \/ BackupModel \/ PromoteScaler \/ BackupScaler \/ RecordTrained
    \/ SourceMissing /\ CopyFails

Schedule == Skip \/ Submit

Fault == \/ WorkerRaises \/ TimesOut \/ GivesUp \/ CopyFails \/ Killed
         \/ \E kind \in Kinds : Damage(kind)
         \/ \E c \in Left : LeftRaises(c)

ArtifactsNext == NewCandle \/ Schedule \/ Train \/ Fault \/ \E kind \in Kinds : Repair(kind)

-----------------------------------------------------------------------------
(* Properties.                                                             *)

\* Outside a promotion, unless the last one failed or was interrupted, a file
\* had to be repaired during it or from write/, or a child left behind wrote
\* between the first save of its child and its end, the model and the scaler that
\* forecasts load were trained together: what children that failed, were
\* terminated or left behind have put into write/ before does not get out.
PairedAfterPromotion ==
    parent.step \in {"idle", "queued", "running"} /\ whole
    /\ Valid(read.model) /\ Valid(read.scaler)
        => read.model = read.scaler

\* Unless faults go on for ever, the newest dataset is trained and its model
\* reaches read/, even when an earlier promotion of it failed.
NewestIsServed == []<><<Fault>>_artifactVars \/ <>[](read = [model |-> data, scaler |-> data])
=============================================================================
