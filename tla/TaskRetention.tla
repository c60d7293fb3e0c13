---------------------------- MODULE TaskRetention ----------------------------
(***************************************************************************)
(* The end and the beginning of a row of `tasks`: the daily soft deletion  *)
(* of rows whose retention is over (TaskRetentionService), and the keys    *)
(* that createTask deduplicates by, which a deleted row keeps.             *)
(*                                                                         *)
(* Between them the row lives as in TaskEngine, with what its finders do   *)
(* to a deleted row: find, findOneBy and a query builder's SELECT do not   *)
(* see it; an UPDATE that is not of an entity does; save() writes the      *)
(* deleted_at of the entity, as it was read.                               *)
(***************************************************************************)
EXTENDS TaskEngine

CONSTANTS
    Creators,       \* calls of createTask
    Keys,           \* dedupKeys
    NoKey, NoTask,
    Limit,          \* how many rows one cleanup takes
    MaxAllClaims    \* bound of the model: claims of all tasks together

ASSUME RetentionAssumption ==
    /\ ~SplitSave
    /\ NoKey \notin Keys
    /\ NoTask \notin Tasks
    /\ Limit \in Nat \ {0}
    /\ MaxAllClaims \in Nat

VARIABLES
    deleted,     \* the rows with a deleted_at
    finishedAt,  \* [Tasks -> ...]: NULL, within the retention of its status, or older
    key,         \* [Tasks -> Keys \cup {NoKey}]: the column dedup_key
    creator,     \* [Creators -> Creator]
    cleanup,     \* cleanupTerminalTasks: where it is, and the rows it has selected
    retried      \* history: the rows retried since a cleanup could select them

retention == <<deleted, finishedAt, key, creator, cleanup, retried>>
allVars == <<vars, retention>>
-------------------------------------------------------------------------------
Creator == [step : {"new", "insert", "conflict", "done"}, key : Keys \cup {NoKey},
            task : Tasks \cup {NoTask}]

Cleanup == [step : {"idle", "others", "delete"}, rows : SUBSET Tasks]

Idle == [step |-> "idle", rows |-> {}]

RetentionTypeOK ==
    /\ TypeOK
    /\ deleted \subseteq Tasks
    /\ finishedAt \in [Tasks -> {"null", "recent", "old"}]
    /\ key \in [Tasks -> Keys \cup {NoKey}]
    /\ creator \in [Creators -> Creator]
    /\ cleanup \in Cleanup
    /\ retried \subseteq Tasks
    /\ \A t \in deleted : Exists(t)

RetentionInit ==
    /\ Init
    /\ deleted = {}
    /\ finishedAt = [t \in Tasks |-> "null"]
    /\ key = [t \in Tasks |-> NoKey]
    /\ creator = [c \in Creators |-> [step |-> "new", key |-> NoKey, task |-> NoTask]]
    /\ cleanup = Idle
    /\ retried = {}

\* The rows a SELECT finds.
Visible(t) == Exists(t) /\ t \notin deleted

Dated(t) == [finishedAt EXCEPT ![t] = "recent"]
-------------------------------------------------------------------------------
(***************************************************************************)
(* createTask with its dedupKey.                                           *)
(***************************************************************************)
Holder(k) == {t \in Tasks : Exists(t) /\ key[t] = k}

CreatorGoes(c, step, k, t) ==
    creator' = [creator EXCEPT ![c] = [step |-> step, key |-> k, task |-> t]]

\* The key is looked up; without one there is nothing to look up.
CreateLooks(c, k) ==
    /\ creator[c].step = "new"
    /\ \/ \E t \in Holder(k) : k # NoKey /\ Visible(t) /\ CreatorGoes(c, "done", k, t)
       \/ /\ \A t \in Holder(k) : k = NoKey \/ ~Visible(t)
          /\ CreatorGoes(c, "insert", k, NoTask)
    /\ UNCHANGED <<vars, deleted, finishedAt, key, cleanup, retried>>

\* Mutant: uq_tasks_dedup_key is not unique.
CreateInsertsAnyway(c, t) ==
    /\ creator[c].step = "insert"
    /\ CreateTask(t)
    /\ key' = [key EXCEPT ![t] = creator[c].key]
    /\ CreatorGoes(c, "done", creator[c].key, t)
    /\ UNCHANGED <<deleted, finishedAt, cleanup, retried>>

\* The INSERT; the unique index has the keys of deleted rows too.
CreateInserts(c, t) ==
    /\ creator[c].step = "insert"
    /\ creator[c].key = NoKey \/ Holder(creator[c].key) = {}
    /\ CreateTask(t)
    /\ key' = [key EXCEPT ![t] = creator[c].key]
    /\ CreatorGoes(c, "done", creator[c].key, t)
    /\ UNCHANGED <<deleted, finishedAt, cleanup, retried>>

CreateConflicts(c) ==
    /\ creator[c].step = "insert"
    /\ creator[c].key # NoKey /\ Holder(creator[c].key) # {}
    /\ CreatorGoes(c, "conflict", creator[c].key, NoTask)
    /\ UNCHANGED <<vars, deleted, finishedAt, key, cleanup, retried>>

\* The key is looked up again; the holder may be hidden, and then the error is thrown.
CreateResolves(c) ==
    /\ creator[c].step = "conflict"
    /\ \E t \in Holder(creator[c].key) :
           CreatorGoes(c, "done", creator[c].key, IF Visible(t) THEN t ELSE NoTask)
    /\ UNCHANGED <<vars, deleted, finishedAt, key, cleanup, retried>>
-------------------------------------------------------------------------------
(***************************************************************************)
(* The engine on rows that may be deleted.                                 *)
(***************************************************************************)
Claims(w, t) ==
    /\ TryClaimTask(w, t)
    /\ Visible(t)
    /\ Cardinality({c \in Tasks \X (1..MaxClaims) : c[2] <= claims[c[1]]}) < MaxAllClaims
    /\ UNCHANGED retention

Completes(w) ==
    /\ CompleteTaskRead(w)
    /\ Visible(work[w].task)
    /\ UNCHANGED retention

\* completeTask: TASK_NOT_FOUND, which execute() catches.
CompletesNothing(w) ==
    /\ pc[w] = "running" /\ saves[w] = NoSave
    /\ ~Visible(work[w].task)
    /\ ExecutionFails(w)
    /\ UNCHANGED retention

Fails(w, nonRetryable) ==
    /\ FailTaskRead(w, nonRetryable)
    /\ Visible(work[w].task)
    /\ UNCHANGED retention

\* failTask: TASK_NOT_FOUND, which execute() does not catch.
FailsNothing(w) ==
    /\ pc[w] = "failing" /\ saves[w] = NoSave
    /\ ~Visible(work[w].task)
    /\ WorkerStops(w)
    /\ UNCHANGED retention

Breaks(w) == (ExecutionFails(w) \/ WorkerStops(w)) /\ UNCHANGED retention

Cancels(a, t) == CancelTaskRead(a, t) /\ Visible(t) /\ UNCHANGED retention

Skips(a, t) == SkipTaskRead(a, t) /\ Visible(t) /\ UNCHANGED retention

\* Each of the four that save sets finishedAt, also failTask when it leaves RETRYING, and
\* brings back a row that was deleted after it had been read.
Saves(c) ==
    /\ SaveUpdates(c)
    /\ finishedAt' = Dated(saves[c].task)
    /\ deleted' = deleted \ {saves[c].task}
    /\ UNCHANGED <<key, creator, cleanup, retried>>

Retries(t) ==
    /\ RetryTask(t)
    /\ Visible(t)
    /\ finishedAt' = [finishedAt EXCEPT ![t] = "null"]
    /\ retried' = retried \cup {t}
    /\ UNCHANGED <<deleted, key, creator, cleanup>>

Expires(t) == LeaseExpires(t) /\ UNCHANGED retention

RecoveryFinds ==
    /\ \E found \in SUBSET {t \in Tasks : IsStale(t) /\ Visible(t)} : Scans(found)
    /\ UNCHANGED retention

\* The UPDATE of the sweep; only a row that has failed is dated.
Recovers(s) ==
    /\ RecoverStaleTask(s)
    /\ finishedAt' = IF SameClaim(s) /\ row'[s.task].status = "failed"
                     THEN Dated(s.task) ELSE finishedAt
    /\ UNCHANGED <<deleted, key, creator, cleanup, retried>>

RecoveryStops == RecoveryAborts /\ UNCHANGED retention
-------------------------------------------------------------------------------
(***************************************************************************)
(* cleanupTerminalTasks.                                                   *)
(***************************************************************************)

\* The retention of t ends.  It is of weeks: no request, sweep or cleanup that has read the row,
\* and no handler of it, is under way for as long, but a row may wait in RETRYING, or be left in
\* PROCESSING, for longer.
Ages(t) ==
    /\ finishedAt[t] = "recent"
    /\ \A c \in Callers : saves[c] # NoSave => saves[c].task # t
    /\ \A w \in Workers : ~Executing(w, t)
    /\ \A s \in scan : s.task # t
    /\ t \notin cleanup.rows
    /\ finishedAt' = [finishedAt EXCEPT ![t] = "old"]
    /\ retried' = retried \ {t}
    /\ UNCHANGED <<vars, deleted, key, creator, cleanup>>

\* `take(n)` of the rows.
Taken(rows, n) ==
    {s \in SUBSET rows : Cardinality(s) = IF Cardinality(rows) < n THEN Cardinality(rows) ELSE n}

\* Mutant: the second query relies on finished_at alone.
UndatedOther(t) == Visible(t) /\ finishedAt[t] = "old" /\ row[t].status # "success"

Other(t) ==
    /\ Visible(t)
    /\ finishedAt[t] = "old"
    /\ row[t].status \in Terminal \ {"success"}

SelectsSuccessful ==
    /\ cleanup = Idle
    /\ \E s \in Taken({t \in Tasks : /\ Visible(t)
                                     /\ finishedAt[t] = "old"
                                     /\ row[t].status = "success"}, Limit) :
           cleanup' = [step |-> "others", rows |-> s]
    /\ UNCHANGED <<vars, deleted, finishedAt, key, creator, retried>>

\* The others get what the successful ones leave of the limit.
SelectsOthers ==
    /\ cleanup.step = "others"
    /\ \E s \in Taken({t \in Tasks : Other(t)}, Limit - Cardinality(cleanup.rows)) :
           cleanup' = [step |-> "delete", rows |-> cleanup.rows \cup s]
    /\ UNCHANGED <<vars, deleted, finishedAt, key, creator, retried>>

\* softDelete by uid: it sees neither the status nor finished_at.
SoftDeletes ==
    /\ cleanup.step = "delete"
    /\ deleted' = deleted \cup cleanup.rows
    /\ cleanup' = Idle
    /\ UNCHANGED <<vars, finishedAt, key, creator, retried>>

\* The job fails or its process dies.
CleanupStops ==
    /\ cleanup # Idle
    /\ cleanup' = Idle
    /\ UNCHANGED <<vars, deleted, finishedAt, key, creator, retried>>
-------------------------------------------------------------------------------
CreatorStep(c) ==
    \/ \E k \in Keys \cup {NoKey} : CreateLooks(c, k)
    \/ \E t \in Tasks : CreateInserts(c, t)
    \/ CreateConflicts(c) \/ CreateResolves(c)

HandlerStep(w) ==
    \/ \E t \in Tasks : Claims(w, t)
    \/ Completes(w) \/ CompletesNothing(w)
    \/ \E nonRetryable \in BOOLEAN : Fails(w, nonRetryable)
    \/ FailsNothing(w) \/ Breaks(w)

OperatorStep ==
    \/ \E a \in Admins, t \in Tasks : Cancels(a, t) \/ Skips(a, t)
    \/ \E t \in Tasks : Retries(t)

SweepStep == RecoveryFinds \/ (\E s \in scan : Recovers(s)) \/ RecoveryStops

CleanupStep == SelectsSuccessful \/ SelectsOthers \/ SoftDeletes \/ CleanupStops

RetentionNext ==
    \/ \E c \in Creators : CreatorStep(c)
    \/ \E w \in Workers : HandlerStep(w)
    \/ OperatorStep
    \/ \E c \in Callers : Saves(c)
    \/ SweepStep
    \/ CleanupStep
    \/ \E t \in Tasks : Expires(t) \/ Ages(t)

RetentionSpec == RetentionInit /\ [][RetentionNext]_allVars
-------------------------------------------------------------------------------
(***************************************************************************)
(* Properties.                                                             *)
(***************************************************************************)

\* Whoever asks for a task with a dedupKey gets the same one, if any: of concurrent calls, and
\* also after the task has been cleaned up (createTask: the lookup, the unique index and the
\* second lookup; a deleted holder gives an error, never a second task).
SameKeySameTask ==
    \A c, d \in Creators :
        /\ creator[c].key # NoKey /\ creator[c].key = creator[d].key
        /\ creator[c].task # NoTask /\ creator[d].task # NoTask
        => creator[c].task = creator[d].task

\* The cleanup removes no row that is waiting or being worked on, but one that an administrator
\* retried after its retention had ended (softDelete does not check the status it selected by,
\* and finished_at stays set while a row waits for its next attempt).
CleanupTakesOnlyFinished ==
    [][\A t \in deleted' \ deleted : row[t].status \in Terminal \/ t \in retried]_allVars
===============================================================================
