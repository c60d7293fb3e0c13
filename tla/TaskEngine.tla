------------------------------ MODULE TaskEngine ------------------------------
(***************************************************************************)
(* The life of a row of the table `tasks`: TaskService of                  *)
(* libs/platform/task, called by the worker's task processor, by the       *)
(* stale-recovery schedule and by the admin API.                           *)
(*                                                                         *)
(* The service mixes three kinds of writes, and the model keeps them apart *)
(* because every race of the engine comes from mixing them:                *)
(*   - transactions with a pessimistic row lock (tryClaimTask, retryTask): *)
(*     one atomic step;                                                    *)
(*   - compare-and-set UPDATEs (the loop of recoverStaleTasks): one atomic *)
(*     step that tests the columns of an earlier scan;                     *)
(*   - findOneBy, a status check in memory, then repo.save(entity) without *)
(*     lock or version column (completeTask, failTask, cancelTask,         *)
(*     skipTask): the read, the row TypeORM loads again inside save(), and *)
(*     the UPDATE are separate steps.                                      *)
(*                                                                         *)
(* Delivery is abstracted: any idle worker may try to claim any row at any *)
(* time, which covers every duplicated, delayed or reordered job.          *)
(***************************************************************************)
EXTENDS Naturals, FiniteSets

CONSTANTS
    Tasks,            \* uids
    Workers,          \* worker slots: each runs one job at a time
    Admins,           \* concurrent cancel / skip requests
    MaxAttempt,       \* the column maxAttempt (the DTO's @Min(1), default 3)
    MaxClaims,        \* bound of the model: claims per task
    SplitSave,        \* TRUE: save() reads the row again and updates later;
                      \* FALSE: that read and the UPDATE are one step
    LiveLeaseExpiry,  \* TRUE: a claim may grow stale while its worker is still
                      \* at work; FALSE: only the claim of a worker that has died
    NoWork, NoSave    \* "no job in hand", "no save in flight"

VARIABLES
    row,        \* [Tasks -> Row]: the columns the properties tell apart
    claims,     \* [Tasks -> Nat]: claims so far; the n-th claim stamps lockedAt = n
    staleUpTo,  \* [Tasks -> Nat]: stamps up to this one are older than staleMinutes
    pc,         \* [Workers -> {"idle", "running", "failing"}]
    work,       \* [Workers -> Work \cup {NoWork}]: the claimed row in hand
    saves,      \* [Callers -> Save \cup {NoSave}]: the entity between its read and its UPDATE
    scan,       \* the rows recoverStaleTasks has read and not yet tried to update
    succeeded   \* history: the tasks whose SUCCESS has been committed once

vars == <<row, claims, staleUpTo, pc, work, saves, scan, succeeded>>
-------------------------------------------------------------------------------
Callers == Workers \cup Admins

Claimable == {"pending", "retrying"}    \* CLAIMABLE_ = CANCELLABLE_ = DISPATCHABLE_STATUSES
Terminal  == {"success", "failed", "cancelled", "skipped"}
Statuses  == Claimable \cup Terminal \cup {"processing"}

Unlocked == 0                           \* lockedAt IS NULL

Row  == [status : Statuses \cup {"absent"}, attempt : Nat, lockedAt : Nat]
Work == [task : Tasks, claim : Nat]
Save == [task : Tasks, target : Row, loaded : BOOLEAN, base : Row]
Scan == [task : Tasks, attempt : Nat, lockedAt : Nat]

ASSUME ConstantsAssumption ==
    /\ Workers \cap Admins = {}
    /\ MaxAttempt \in Nat \ {0}
    /\ MaxClaims \in Nat
    /\ SplitSave \in BOOLEAN
    /\ LiveLeaseExpiry \in BOOLEAN
    /\ NoWork \notin Work
    /\ NoSave \notin Save

Absent    == [status |-> "absent", attempt |-> 0, lockedAt |-> Unlocked]
Exists(t) == row[t].status # "absent"

\* Worker w has claimed t and has not yet left execute().
Executing(w, t) == work[w] # NoWork /\ work[w].task = t

\* The entity read from t with its outcome set and its lock columns cleared.
Released(t, outcome) ==
    [status |-> outcome, attempt |-> row[t].attempt, lockedAt |-> Unlocked]

\* The entity as it will be saved, before save() has loaded the row again.
Pending(t, target) ==
    [task |-> t, target |-> target, loaded |-> FALSE, base |-> target]

\* TypeORM updates the columns in which the entity differs from the row it loaded.
Column(target, base, current) == IF target # base THEN target ELSE current

Merged(target, base, current) ==
    [status   |-> Column(target.status, base.status, current.status),
     attempt  |-> Column(target.attempt, base.attempt, current.attempt),
     lockedAt |-> Column(target.lockedAt, base.lockedAt, current.lockedAt)]

\* Mutant: the sweep reads only the tasks that have attempts left.
IsStaleAndRetryable(t) ==
    /\ row[t].status = "processing"
    /\ row[t].lockedAt \in 1..staleUpTo[t]
    /\ row[t].attempt < MaxAttempt

\* The WHERE clause of recoverStaleTasks: locked_at < now - staleMinutes.
IsStale(t) == /\ row[t].status = "processing"
              /\ row[t].lockedAt # Unlocked
              /\ row[t].lockedAt <= staleUpTo[t]
-------------------------------------------------------------------------------
Init ==
    /\ row = [t \in Tasks |-> Absent]
    /\ claims = [t \in Tasks |-> 0]
    /\ staleUpTo = [t \in Tasks |-> 0]
    /\ pc = [w \in Workers |-> "idle"]
    /\ work = [w \in Workers |-> NoWork]
    /\ saves = [c \in Callers |-> NoSave]
    /\ scan = {}
    /\ succeeded = {}

\* createTask: a new PENDING row.
CreateTask(t) ==
    /\ ~Exists(t)
    /\ row' = [row EXCEPT ![t].status = "pending"]
    /\ UNCHANGED <<claims, staleUpTo, pc, work, saves, scan, succeeded>>

(***************************************************************************)
(* The worker: execute() = tryClaimTask, then completeTask, and failTask   *)
(* when anything in between rejects.                                       *)
(***************************************************************************)

\* tryClaimTask, the winning case (claimTask differs only in throwing when it
\* loses). It tests the status alone: not the attempts, not scheduledAt.
TryClaimTask(w, t) ==
    /\ pc[w] = "idle"
    /\ row[t].status \in Claimable
    /\ claims[t] < MaxClaims
    /\ row' = [row EXCEPT ![t] = [status   |-> "processing",
                                  attempt  |-> row[t].attempt + 1,
                                  lockedAt |-> claims[t] + 1]]
    /\ claims' = [claims EXCEPT ![t] = @ + 1]
    /\ pc' = [pc EXCEPT ![w] = "running"]
    /\ work' = [work EXCEPT ![w] = [task |-> t, claim |-> claims[t] + 1]]
    /\ UNCHANGED <<staleUpTo, saves, scan, succeeded>>

\* The worker leaves execute() and forgets the row.
Leave(w) ==
    /\ pc' = [pc EXCEPT ![w] = "idle"]
    /\ work' = [work EXCEPT ![w] = NoWork]

\* completeTask up to its save: a SUCCESS row is an idempotent hit, any other
\* status but PROCESSING throws TASK_INVALID_STATE, which execute() catches.
CompleteTaskRead(w) ==
    /\ pc[w] = "running"
    /\ saves[w] = NoSave
    /\ LET t == work[w].task IN
       \/ /\ row[t].status = "success"
          /\ Leave(w)
          /\ UNCHANGED saves
       \/ /\ row[t].status \notin {"success", "processing"}
          /\ pc' = [pc EXCEPT ![w] = "failing"]
          /\ UNCHANGED <<work, saves>>
       \/ /\ row[t].status = "processing"
          /\ saves' = [saves EXCEPT ![w] =
                 Pending(t, Released(t, "success"))]
          /\ UNCHANGED <<pc, work>>
    /\ UNCHANGED <<row, claims, staleUpTo, scan, succeeded>>

\* The executor or completeTask rejects (the database does not answer): catch block.
ExecutionFails(w) ==
    /\ pc[w] = "running"
    /\ pc' = [pc EXCEPT ![w] = "failing"]
    /\ saves' = [saves EXCEPT ![w] = NoSave]
    /\ UNCHANGED <<row, claims, staleUpTo, work, scan, succeeded>>

\* failTask up to its save.
FailTaskRead(w, nonRetryable) ==
    /\ pc[w] = "failing"
    /\ saves[w] = NoSave
    /\ LET t == work[w].task
           canRetry == ~nonRetryable /\ row[t].attempt < MaxAttempt
       IN \/ /\ row[t].status # "processing"   \* idempotent hit, or it throws
             /\ Leave(w)
             /\ UNCHANGED saves
          \/ /\ row[t].status = "processing"
             /\ saves' = [saves EXCEPT ![w] =
                    Pending(t, Released(t, IF canRetry THEN "retrying" ELSE "failed"))]
             /\ UNCHANGED <<pc, work>>
    /\ UNCHANGED <<row, claims, staleUpTo, scan, succeeded>>

\* The process dies, or addLog / failTask rejects outside execute()'s try block:
\* the row stays as it is and nobody works on it any more.
WorkerStops(w) ==
    /\ pc[w] # "idle"
    /\ Leave(w)
    /\ saves' = [saves EXCEPT ![w] = NoSave]
    /\ UNCHANGED <<row, claims, staleUpTo, scan, succeeded>>

(***************************************************************************)
(* The administrator.                                                      *)
(***************************************************************************)

\* cancelTask up to its save.
CancelTaskRead(a, t) ==
    /\ saves[a] = NoSave
    /\ row[t].status \in Claimable
    /\ saves' = [saves EXCEPT ![a] = Pending(t, [row[t] EXCEPT !.status = "cancelled"])]
    /\ UNCHANGED <<row, claims, staleUpTo, pc, work, scan, succeeded>>

\* skipTask up to its save: it checks that the row exists, not its status.
SkipTaskRead(a, t) ==
    /\ saves[a] = NoSave
    /\ Exists(t)
    /\ saves' = [saves EXCEPT ![a] = Pending(t, [row[t] EXCEPT !.status = "skipped"])]
    /\ UNCHANGED <<row, claims, staleUpTo, pc, work, scan, succeeded>>

\* Mutant: retryTask accepts every finished task.
RetryFinishedTask(t) ==
    /\ row[t].status \in Terminal
    /\ row' = [row EXCEPT ![t] = [status |-> "pending", attempt |-> 0, lockedAt |-> Unlocked]]
    /\ UNCHANGED <<claims, staleUpTo, pc, work, saves, scan, succeeded>>

\* retryTask: under the row lock, a FAILED task starts again from attempt 0.
RetryTask(t) ==
    /\ row[t].status = "failed"
    /\ row' = [row EXCEPT ![t] = [status |-> "pending", attempt |-> 0, lockedAt |-> Unlocked]]
    /\ UNCHANGED <<claims, staleUpTo, pc, work, saves, scan, succeeded>>

(***************************************************************************)
(* repo.save(entity)                                                       *)
(***************************************************************************)

\* save() selects the row by primary key to find the columns that changed.
SaveLoads(c) ==
    /\ SplitSave
    /\ saves[c] # NoSave
    /\ ~saves[c].loaded
    /\ saves' = [saves EXCEPT ![c].loaded = TRUE, ![c].base = row[saves[c].task]]
    /\ UNCHANGED <<row, claims, staleUpTo, pc, work, scan, succeeded>>

\* The UPDATE; it has no predicate but the primary key. A worker is then done,
\* unless the answer is lost: completeTask rejects although it has committed.
SaveUpdates(c) ==
    /\ saves[c] # NoSave
    /\ SplitSave => saves[c].loaded
    /\ LET s    == saves[c]
           base == IF SplitSave THEN s.base ELSE row[s.task]
       IN /\ row' = [row EXCEPT ![s.task] = Merged(s.target, base, @)]
          /\ succeeded' = IF s.target.status = "success"
                          THEN succeeded \cup {s.task} ELSE succeeded
    /\ saves' = [saves EXCEPT ![c] = NoSave]
    /\ \/ c \notin Workers /\ UNCHANGED <<pc, work>>
       \/ c \in Workers /\ Leave(c)
       \/ /\ c \in Workers /\ pc[c] = "running"
          /\ pc' = [pc EXCEPT ![c] = "failing"]
          /\ UNCHANGED work
    /\ UNCHANGED <<claims, staleUpTo, scan>>

(***************************************************************************)
(* The stale-recovery schedule.                                            *)
(***************************************************************************)

\* staleMinutes pass over the claim that holds t, and over every earlier one.
LeaseExpires(t) ==
    /\ row[t].status = "processing"
    /\ row[t].lockedAt > staleUpTo[t]
    /\ \/ LiveLeaseExpiry
       \/ \A w \in Workers : Executing(w, t) => work[w].claim > row[t].lockedAt
    /\ staleUpTo' = [staleUpTo EXCEPT ![t] = row[t].lockedAt]
    /\ UNCHANGED <<row, claims, pc, work, saves, scan, succeeded>>

\* The rows that a SELECT of recoverStaleTasks has returned.
Scans(found) ==
    /\ found # {}
    /\ scan' = scan \cup {[task |-> t, attempt |-> row[t].attempt,
                           lockedAt |-> row[t].lockedAt] : t \in found}
    /\ UNCHANGED <<row, claims, staleUpTo, pc, work, saves, succeeded>>

\* recoverStaleTasks, the SELECT, which takes a limited number of the stale rows. A sweep may
\* start before the last one is over.
RecoveryScan == \E found \in SUBSET {t \in Tasks : IsStale(t)} : Scans(found)

\* Mutant: the UPDATE tests the status and not the claim.
SameStatus(s) == row[s.task].status = "processing"

\* The predicate of the UPDATE: still PROCESSING, under the claim that was scanned.
SameClaim(s) ==
    /\ row[s.task].status = "processing"
    /\ row[s.task].lockedAt = s.lockedAt

\* Mutant: the last attempt is given another one.
RecoverOnceTooOften(s) ==
    /\ s \in scan
    /\ row' = IF SameClaim(s)
              THEN [row EXCEPT
                      ![s.task].status = IF s.attempt <= MaxAttempt THEN "retrying" ELSE "failed",
                      ![s.task].lockedAt = Unlocked]
              ELSE row
    /\ scan' = scan \ {s}
    /\ UNCHANGED <<claims, staleUpTo, pc, work, saves, succeeded>>

\* recoverStaleTasks, one round of its loop: the new status comes from the
\* scanned attempt, the write happens only if the claim is still the scanned one.
RecoverStaleTask(s) ==
    /\ s \in scan
    /\ row' = IF SameClaim(s)
              THEN [row EXCEPT
                      ![s.task].status = IF s.attempt < MaxAttempt THEN "retrying" ELSE "failed",
                      ![s.task].lockedAt = Unlocked]
              ELSE row
    /\ scan' = scan \ {s}
    /\ UNCHANGED <<claims, staleUpTo, pc, work, saves, succeeded>>

\* The sweep ends early: a query rejects, or the process restarts.
RecoveryAborts ==
    /\ scan # {}
    /\ scan' = {}
    /\ UNCHANGED <<row, claims, staleUpTo, pc, work, saves, succeeded>>
-------------------------------------------------------------------------------
WorkerStep(w) ==
    \/ \E t \in Tasks : TryClaimTask(w, t)
    \/ CompleteTaskRead(w)
    \/ ExecutionFails(w)
    \/ \E nonRetryable \in BOOLEAN : FailTaskRead(w, nonRetryable)
    \/ WorkerStops(w)

AdminStep(a) == \E t \in Tasks : CancelTaskRead(a, t) \/ SkipTaskRead(a, t)

TaskStep(t) == CreateTask(t) \/ RetryTask(t) \/ LeaseExpires(t)

RecoveryStep ==
    \/ RecoveryScan
    \/ \E s \in scan : RecoverStaleTask(s)
    \/ RecoveryAborts

Next ==
    \/ \E w \in Workers : WorkerStep(w)
    \/ \E a \in Admins : AdminStep(a)
    \/ \E c \in Callers : SaveLoads(c) \/ SaveUpdates(c)
    \/ \E t \in Tasks : TaskStep(t)
    \/ RecoveryStep

Spec == Init /\ [][Next]_vars
-------------------------------------------------------------------------------
(***************************************************************************)
(* Properties.                                                             *)
(***************************************************************************)

\* Every variable has its type; a lock stamp, stored or about to be, and the stale
\* threshold are never ahead of the claims made, and a worker's save is of the row
\* it has in hand.
TypeOK ==
    /\ row \in [Tasks -> Row]
    /\ claims \in [Tasks -> 0..MaxClaims]
    /\ staleUpTo \in [Tasks -> Nat]
    /\ pc \in [Workers -> {"idle", "running", "failing"}]
    /\ work \in [Workers -> Work \cup {NoWork}]
    /\ saves \in [Callers -> Save \cup {NoSave}]
    /\ scan \subseteq Scan
    /\ succeeded \subseteq Tasks
    /\ \A t \in Tasks : row[t].lockedAt <= claims[t] /\ staleUpTo[t] <= claims[t]
    /\ \A w \in Workers : /\ pc[w] = "idle" <=> work[w] = NoWork
                          /\ saves[w] # NoSave => Executing(w, saves[w].task)
    /\ \A c \in Callers :
          saves[c] # NoSave => saves[c].target.lockedAt <= claims[saves[c].task]

\* No task is tried more often than its maxAttempt allows: as long as cancellations do
\* not overlap, no interleaving of claims, stale saves, recovery sweeps and retries brings
\* a row back to a claimable status with its attempts used up (tryClaimTask does not look
\* at them). Two cancelTask calls in two steps each can (see the README).
AttemptWithinMax == \A t \in Tasks : row[t].attempt <= MaxAttempt

\* A task is never in the hands of two workers.
ExclusiveExecution ==
    \A t \in Tasks : \A v, w \in Workers : Executing(v, t) /\ Executing(w, t) => v = w

\* Once completeTask has stored SUCCESS the task is never queued, claimed or
\* failed again: at most an administrator still relabels it.
SuccessIsNotRerun ==
    \A t \in succeeded : row[t].status \in {"success", "cancelled", "skipped"}

\* The sweep takes a row from PROCESSING only if the claim that holds it now is
\* stale: a row completed, failed and claimed again since the scan is left alone.
RecoveryTakesOnlyStaleClaims ==
    [][ \A t \in Tasks :
          /\ row[t].status = "processing"
          /\ row'[t].status # "processing"
          /\ saves' = saves
          => row[t].lockedAt <= staleUpTo[t] ]_vars
===============================================================================
