----------------------------- MODULE TaskDelivery -----------------------------
(***************************************************************************)
(* How a row of `tasks` reaches a worker: the rows of TaskEngine together  *)
(* with the BullMQ queue `task`, whose jobs bear the uid of their task as  *)
(* jobId, with createAndEnqueue, with the dispatcher (TaskDispatchSchedule *)
(* and findPendingForDispatch / markDispatched) and with the worker's      *)
(* processor (TaskRetryProcessor).                                         *)
(*                                                                         *)
(* BullMQ is external.  What src/ relies on, and what is modelled, is:     *)
(* add() does nothing while a job with that jobId exists, in whatever      *)
(* state; a job that rejects is tried again until opts.attempts are used;  *)
(* a job whose worker died is put back once (maxStalledCount) and then     *)
(* failed; completed and failed jobs are kept (removeOnComplete,           *)
(* removeOnFail) until enough later jobs have finished.  A live worker     *)
(* renews the lock of its job, so only dead workers' jobs stall.           *)
(*                                                                         *)
(* Every step is a step of TaskEngine or leaves its variables alone.       *)
(***************************************************************************)
EXTENDS TaskEngine

CONSTANT MaxStalledCount    \* BullMQ's default is 1

ASSUME DeliveryConstants == MaxStalledCount \in Nat

VARIABLES
    job,         \* [Tasks -> Job]: the job whose jobId is the task's uid
    dispatched,  \* [Tasks -> {"never", "recent", "old"}]: dispatchedAt is NULL,
                 \* within DISPATCH_LEASE_GRACE_MS, or older
    batch,       \* tasks read by the dispatcher, or just created, and not yet added
    added        \* tasks added to the queue and not yet marked as dispatched

queueVars    == <<job, dispatched, batch, added>>
deliveryVars == <<vars, queueVars>>
-------------------------------------------------------------------------------
\* The jobs of the queue `task` have attempts = maxAttempt.
INSTANCE BullJobs WITH Attempts <- MaxAttempt

\* The job in w's hands after a step of execute(): it goes on with w, or it
\* resolves at the end of the try block, or the catch block rethrows.
JobFollows(w) ==
    LET t == work[w].task IN
    job' = IF pc'[w] # "idle" THEN job
           ELSE IF pc[w] = "running" THEN [job EXCEPT ![t].state = "completed"]
           ELSE [job EXCEPT ![t] = Rejected(@)]

DeliveryInit ==
    /\ Init
    /\ job = [t \in Tasks |-> NoJob]
    /\ dispatched = [t \in Tasks |-> "never"]
    /\ batch = {}
    /\ added = {}

(***************************************************************************)
(* Producers: createAndEnqueue, and the dispatcher.                        *)
(***************************************************************************)

\* createAndEnqueue up to its add(): the row is committed first.
CreateAndEnqueue(t) ==
    /\ CreateTask(t)
    /\ batch' = batch \cup {t}
    /\ UNCHANGED <<job, dispatched, added>>

\* Mutant: only what was never dispatched is due.
FindNeverDispatched ==
    LET due == {t \in Tasks : row[t].status \in Claimable /\ dispatched[t] = "never"} IN
    /\ due # {}
    /\ batch' = batch \cup due
    /\ UNCHANGED <<vars, job, dispatched, added>>

\* dispatchPending: findPendingForDispatch.
FindPendingForDispatch ==
    LET due == {t \in Tasks : row[t].status \in Claimable /\ dispatched[t] # "recent"} IN
    /\ due # {}
    /\ batch' = batch \cup due
    /\ UNCHANGED <<vars, job, dispatched, added>>

\* Mutant: jobs without a jobId, so that each add() brings a job to run.
EnqueueWithoutJobId(t) ==
    /\ t \in batch
    /\ job' = [job EXCEPT ![t] = FreshJob]
    /\ batch' = batch \ {t}
    /\ added' = added \cup {t}
    /\ UNCHANGED <<vars, dispatched>>

\* queue.add with jobId = task.uid.
Enqueue(t) ==
    /\ t \in batch
    /\ job' = IF job[t].state = "none" THEN [job EXCEPT ![t] = FreshJob] ELSE job
    /\ batch' = batch \ {t}
    /\ added' = added \cup {t}
    /\ UNCHANGED <<vars, dispatched>>

\* Redis does not answer, or the producer's process restarts before the add().
EnqueueFails(t) ==
    /\ t \in batch
    /\ batch' = batch \ {t}
    /\ UNCHANGED <<vars, job, dispatched, added>>

\* markDispatched: an UPDATE guarded by the status.
MarkDispatched(t) ==
    /\ t \in added
    /\ dispatched' = IF row[t].status \in Claimable
                     THEN [dispatched EXCEPT ![t] = "recent"] ELSE dispatched
    /\ added' = added \ {t}
    /\ UNCHANGED <<vars, job, batch>>

\* The mark is lost; both callers swallow the error.
MarkFails(t) ==
    /\ t \in added
    /\ added' = added \ {t}
    /\ UNCHANGED <<vars, job, dispatched, batch>>

\* DISPATCH_LEASE_GRACE_MS pass.
GraceEnds(t) ==
    /\ dispatched[t] = "recent"
    /\ dispatched' = [dispatched EXCEPT ![t] = "old"]
    /\ UNCHANGED <<vars, job, batch, added>>

(***************************************************************************)
(* The worker.                                                             *)
(***************************************************************************)

\* A waiting job reaches an idle slot, and execute() wins the claim.
DeliverClaims(w, t) ==
    /\ job[t].state = "waiting"
    /\ TryClaimTask(w, t)
    /\ job' = [job EXCEPT ![t].state = "active"]
    /\ UNCHANGED <<dispatched, batch, added>>

\* tryClaimTask returns null: the handler resolves and the job is completed.
DeliverSkips(t) ==
    /\ job[t].state = "waiting"
    /\ row[t].status \notin Claimable
    /\ job' = [job EXCEPT ![t].state = "completed"]
    /\ UNCHANGED <<vars, dispatched, batch, added>>

\* tryClaimTask rejects: the transaction is rolled back, the handler rejects.
DeliverRejects(t) ==
    /\ job[t].state = "waiting"
    /\ job' = [job EXCEPT ![t] = Rejected(@)]
    /\ UNCHANGED <<vars, dispatched, batch, added>>

\* The process dies between taking the job and claiming the row.
DeliverCrashes(t) ==
    /\ job[t].state = "waiting"
    /\ job' = [job EXCEPT ![t].state = "active"]
    /\ UNCHANGED <<vars, dispatched, batch, added>>

\* A step of execute() that does not write the row; it fails tasks as retryable.
Execute(w) ==
    /\ CompleteTaskRead(w) \/ ExecutionFails(w) \/ FailTaskRead(w, FALSE)
    /\ JobFollows(w)
    /\ UNCHANGED <<dispatched, batch, added>>

\* The UPDATE of completeTask or failTask. The entity carries the dispatchedAt it
\* was read with, so a dispatch or a reset in between may be undone.
ExecuteSaves(w) ==
    /\ SaveUpdates(w)
    /\ JobFollows(w)
    /\ \E old \in {dispatched[saves[w].task], "never", "old"} :
          dispatched' = [dispatched EXCEPT ![saves[w].task] = old]
    /\ UNCHANGED <<batch, added>>

\* The process dies: row and job stay as they are.
WorkerCrashes(w) == WorkerStops(w) /\ UNCHANGED queueVars

\* addLog, or failTask in the catch block, rejects: so does the handler.
ExecuteRejects(w) ==
    /\ WorkerStops(w)
    /\ job' = [job EXCEPT ![work[w].task] = Rejected(@)]
    /\ UNCHANGED <<dispatched, batch, added>>

(***************************************************************************)
(* BullMQ.                                                                 *)
(***************************************************************************)

\* The stalled check finds an active job whose lock nobody renews.
JobStalls(t) ==
    /\ job[t].state = "active"
    /\ \A w \in Workers : ~Executing(w, t)
    /\ job' = [job EXCEPT ![t] = Stalled(@)]
    /\ UNCHANGED <<vars, dispatched, batch, added>>

\* removeOnComplete / removeOnFail: enough later jobs have finished.
EvictJob(t) ==
    /\ job[t].state \in Finished
    /\ job' = [job EXCEPT ![t] = NoJob]
    /\ UNCHANGED <<vars, dispatched, batch, added>>

(***************************************************************************)
(* The administrator and the stale-recovery schedule.                      *)
(***************************************************************************)

\* retryTask also clears dispatchedAt. The first conjunct bounds the model.
AdminRetries(t) ==
    /\ claims[t] + MaxAttempt <= MaxClaims
    /\ RetryTask(t)
    /\ dispatched' = [dispatched EXCEPT ![t] = "never"]
    /\ UNCHANGED <<job, batch, added>>

\* cancelTask: the only other operation the admin API exposes.
AdminCancels(a) ==
    /\ (\E t \in Tasks : CancelTaskRead(a, t)) \/ SaveUpdates(a)
    /\ UNCHANGED queueVars

\* recoverStaleTasks also clears dispatchedAt when it makes the task RETRYING.
Recovers(s) ==
    /\ RecoverStaleTask(s)
    /\ dispatched' = IF SameClaim(s) /\ s.attempt < MaxAttempt
                     THEN [dispatched EXCEPT ![s.task] = "never"] ELSE dispatched
    /\ UNCHANGED <<job, batch, added>>

RecoverySchedule ==
    /\ RecoveryScan \/ RecoveryAborts \/ \E t \in Tasks : LeaseExpires(t)
    /\ UNCHANGED queueVars
-------------------------------------------------------------------------------
ProducerStep(t) ==
    \/ CreateAndEnqueue(t)
    \/ Enqueue(t) \/ EnqueueFails(t)
    \/ MarkDispatched(t) \/ MarkFails(t)
    \/ GraceEnds(t)

DeliverStep(t) ==
    \/ \E w \in Workers : DeliverClaims(w, t)
    \/ DeliverSkips(t) \/ DeliverRejects(t) \/ DeliverCrashes(t)

SlotStep(w) == Execute(w) \/ ExecuteSaves(w) \/ WorkerCrashes(w) \/ ExecuteRejects(w)

DeliveryNext ==
    \/ FindPendingForDispatch
    \/ \E t \in Tasks : \/ ProducerStep(t)
                        \/ DeliverStep(t)
                        \/ JobStalls(t)
                        \/ EvictJob(t)
                        \/ AdminRetries(t)
    \/ \E w \in Workers : SlotStep(w)
    \/ \E a \in Admins : AdminCancels(a)
    \/ \E c \in Callers : SaveLoads(c) /\ UNCHANGED queueVars
    \/ \E s \in scan : Recovers(s)
    \/ RecoverySchedule

DeliverySpec == DeliveryInit /\ [][DeliveryNext]_deliveryVars

(***************************************************************************)
(* Fairness: the schedules, the stalled check and the clock go on (weak);  *)
(* what may fail now and then does not fail for ever (strong: Redis, the   *)
(* claim and the sweep's UPDATE get through in the end). A handler in hand *)
(* ends or dies. Nothing makes an administrator, a crash or the arrival of *)
(* other tasks happen.                                                     *)
(***************************************************************************)
Fairness ==
    /\ WF_deliveryVars(FindPendingForDispatch)
    /\ WF_deliveryVars(RecoveryScan /\ UNCHANGED queueVars)
    /\ \A w \in Workers : WF_deliveryVars(SlotStep(w))
    /\ \A a \in Admins : WF_deliveryVars(SaveUpdates(a) /\ UNCHANGED queueVars)
    /\ \A t \in Tasks :
        /\ WF_deliveryVars(GraceEnds(t))
        /\ WF_deliveryVars(JobStalls(t))
        /\ WF_deliveryVars(LeaseExpires(t) /\ UNCHANGED queueVars)
        /\ SF_deliveryVars(Enqueue(t))
        /\ WF_deliveryVars(DeliverSkips(t))
        /\ SF_deliveryVars(\E w \in Workers : DeliverClaims(w, t))
        /\ SF_deliveryVars(\E s \in scan : s.task = t /\ Recovers(s))

FairSpec == DeliverySpec /\ Fairness

\* A busy queue: enough other jobs finish to push out each retained one.
BusySpec == FairSpec /\ \A t \in Tasks : WF_deliveryVars(EvictJob(t))
-------------------------------------------------------------------------------
(***************************************************************************)
(* Properties; TaskEngine's invariants hold here too.                      *)
(***************************************************************************)

\* Types; a job is put back at most MaxStalledCount times, and where saves are atomic
\* (as in the runs of liveness) the bound MaxClaims never keeps a task from a claim.
DeliveryTypeOK ==
    /\ job \in [Tasks -> Job]
    /\ dispatched \in [Tasks -> {"never", "recent", "old"}]
    /\ batch \subseteq Tasks /\ added \subseteq Tasks
    /\ \A t \in Tasks :
        /\ job[t].stalls <= MaxStalledCount
        /\ SplitSave \/ (row[t].status \in Claimable => claims[t] < MaxClaims)

\* No task stays PROCESSING for ever, whatever dies or answers late: the comment
\* of recoverStaleTasks.
ProcessingEnds ==
    \A t \in Tasks : row[t].status = "processing" ~> row[t].status # "processing"

\* A task that waits for a worker is consumed in the end, whichever enqueue, mark
\* or worker is lost: the comment of TaskDispatchSchedule.
PendingIsConsumed ==
    \A t \in Tasks : row[t].status \in Claimable ~> row[t].status \notin Claimable
===============================================================================
