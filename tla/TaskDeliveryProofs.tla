-------------------------- MODULE TaskDeliveryProofs --------------------------
(***************************************************************************)
(* Theorems about TaskDelivery, for every set of tasks, workers and admins *)
(* and every maxAttempt.  The delivery refines the engine, so the engine's *)
(* theorems hold for it; and the jobId makes a task's execution exclusive  *)
(* even when claims expire under live workers, which the engine alone does *)
(* not guarantee. From that follow the finality of a stored success and,   *)
(* where cancellations do not overlap, the bound on attempts.              *)
(***************************************************************************)
EXTENDS TaskDelivery, TaskEngineProofs

-------------------------------------------------------------------------------
(***************************************************************************)
(* Every step of the delivery is a step of the engine or a stutter.        *)
(***************************************************************************)

LEMMA DeliveryStepImplements == [DeliveryNext]_deliveryVars => [Next]_vars
<1> SUFFICES ASSUME [DeliveryNext]_deliveryVars PROVE [Next]_vars
  OBVIOUS
<1>1. ASSUME FindPendingForDispatch PROVE UNCHANGED vars
  BY <1>1 DEF FindPendingForDispatch
<1>2. ASSUME NEW t \in Tasks, ProducerStep(t) PROVE Next \/ UNCHANGED vars
  <2>1. CASE CreateAndEnqueue(t)
    BY <2>1 DEF CreateAndEnqueue, Next, TaskStep
  <2>2. CASE ~CreateAndEnqueue(t)
    BY <1>2, <2>2 DEF ProducerStep, Enqueue, EnqueueFails, MarkDispatched, MarkFails, GraceEnds
  <2>. QED
    BY <2>1, <2>2
<1>3. ASSUME NEW t \in Tasks, DeliverStep(t) PROVE Next \/ UNCHANGED vars
  <2>1. ASSUME NEW w \in Workers, DeliverClaims(w, t) PROVE Next
    BY <2>1 DEF DeliverClaims, Next, WorkerStep
  <2>2. CASE DeliverSkips(t) \/ DeliverRejects(t) \/ DeliverCrashes(t)
    BY <2>2 DEF DeliverSkips, DeliverRejects, DeliverCrashes
  <2>. QED
    BY <1>3, <2>1, <2>2 DEF DeliverStep
<1>4. ASSUME NEW t \in Tasks, JobStalls(t) \/ EvictJob(t) PROVE UNCHANGED vars
  BY <1>4 DEF JobStalls, EvictJob
<1>5. ASSUME NEW t \in Tasks, AdminRetries(t) PROVE Next
  BY <1>5 DEF AdminRetries, Next, TaskStep
<1>6. ASSUME NEW w \in Workers, SlotStep(w) PROVE Next
  <2>1. CASE Execute(w)
    BY <2>1 DEF Execute, Next, WorkerStep
  <2>2. CASE ExecuteSaves(w)
    BY <2>2 DEF ExecuteSaves, Next, Callers
  <2>3. CASE WorkerCrashes(w) \/ ExecuteRejects(w)
    BY <2>3 DEF WorkerCrashes, ExecuteRejects, Next, WorkerStep
  <2>. QED
    BY <1>6, <2>1, <2>2, <2>3 DEF SlotStep
<1>7. ASSUME NEW a \in Admins, AdminCancels(a) PROVE Next
  BY <1>7 DEF AdminCancels, Next, AdminStep, Callers
<1>8. ASSUME NEW s \in scan, Recovers(s) PROVE Next
  BY <1>8 DEF Recovers, Next, RecoveryStep
<1>9. ASSUME RecoverySchedule PROVE Next
  BY <1>9 DEF RecoverySchedule, Next, RecoveryStep, TaskStep
<1>10. ASSUME NEW c \in Callers, SaveLoads(c) PROVE Next
  BY <1>10 DEF Next
<1>11. ASSUME UNCHANGED deliveryVars PROVE UNCHANGED vars
  BY <1>11 DEF deliveryVars
<1>. QED
  BY <1>1, <1>2, <1>3, <1>4, <1>5, <1>6, <1>7, <1>8, <1>9, <1>10, <1>11 DEF DeliveryNext

\* The rows behave as TaskEngine allows, however jobs are lost, repeated, stalled,
\* retained or evicted.
THEOREM DeliveryImplementsEngine == DeliverySpec => Spec
<1>1. DeliveryInit => Init
  BY DEF DeliveryInit
<1>. QED
  BY <1>1, DeliveryStepImplements, PTL DEF DeliverySpec, Spec

-------------------------------------------------------------------------------
(***************************************************************************)
(* One job per uid, one worker per active job: one worker per task.        *)
(***************************************************************************)

\* A claimed row in a worker's hands has an active job.
ActiveInv ==
    \A w \in Workers, t \in Tasks : Executing(w, t) => job[t].state = "active"

JobsTyped == job \in [Tasks -> Job]

LEMMA RejectedIsJob ==
  ASSUME NEW j \in Job
  PROVE  Rejected(j) \in Job /\ Rejected(j).state \in {"waiting", "failed"}
<1> DEFINE s == IF j.tries + 1 < MaxAttempt THEN "waiting" ELSE "failed"
<1>1. j.tries \in Nat /\ s \in {"waiting", "failed"}
  BY DEF Job
<1>2. [j EXCEPT !.tries = @ + 1] \in Job
  BY <1>1 DEF Job
<1>3. [[j EXCEPT !.tries = @ + 1] EXCEPT !.state = s] \in Job
  BY <1>1, <1>2 DEF Job
<1>4. Rejected(j) = [[j EXCEPT !.tries = @ + 1] EXCEPT !.state = s]
  BY DEF Rejected
<1>5. Rejected(j).state = s
  BY <1>4 DEF Job
<1>. QED
  BY <1>1, <1>3, <1>4, <1>5

LEMMA StalledIsJob ==
  ASSUME NEW j \in Job
  PROVE  Stalled(j) \in Job
<1>1. j.stalls + 1 \in Nat
  BY DEF Job
<1>2. [j EXCEPT !.stalls = @ + 1] \in Job
  BY <1>1 DEF Job
<1>3. [[j EXCEPT !.stalls = @ + 1] EXCEPT !.state = "waiting"] \in Job
  BY <1>2 DEF Job
<1>4. [j EXCEPT !.state = "failed"] \in Job
  BY DEF Job
<1>. QED
  BY <1>3, <1>4 DEF Stalled

LEMMA JobFollowsTyped ==
  ASSUME NEW w \in Workers, TypeOK, JobsTyped, work[w] # NoWork, JobFollows(w)
  PROVE  /\ job' \in [Tasks -> Job]
         /\ \A t \in Tasks : t # work[w].task \/ pc'[w] # "idle" => job'[t] = job[t]
<1>1. work[w].task \in Tasks
  BY DEF TypeOK, Work
<1>2. job[work[w].task] \in Job
  BY <1>1 DEF JobsTyped
<1>3. [job[work[w].task] EXCEPT !.state = "completed"] \in Job
  BY <1>2 DEF Job
<1>. QED
  BY <1>1, <1>2, <1>3, RejectedIsJob DEF JobFollows, JobsTyped

LEMMA DeliveryInvInit == DeliveryInit => JobsTyped /\ ActiveInv /\ ExclusiveExecution
  BY DEF DeliveryInit, Init, JobsTyped, Job, NoJob, ActiveInv, ExclusiveExecution, Executing

LEMMA DeliveryInvStep ==
  ASSUME TypeOK, TypeOK', JobsTyped, ActiveInv, ExclusiveExecution,
         [DeliveryNext]_deliveryVars
  PROVE  JobsTyped' /\ ActiveInv' /\ ExclusiveExecution'
<1> USE ConstantsAssumption DEF JobsTyped, ActiveInv, ExclusiveExecution, Executing
<1> DEFINE Goal == JobsTyped' /\ ActiveInv' /\ ExclusiveExecution'
<1>t. /\ work \in [Workers -> Work \cup {NoWork}]
      /\ pc \in [Workers -> {"idle", "running", "failing"}]
      /\ \A w \in Workers : pc[w] = "idle" <=> work[w] = NoWork
      /\ \A w \in Workers : pc'[w] = "idle" <=> work'[w] = NoWork
      /\ \A w \in Workers : saves[w] # NoSave => Executing(w, saves[w].task)
      /\ \A w \in Workers : work[w] # NoWork => work[w].task \in Tasks
  BY DEF TypeOK, Work
<1>1. ASSUME UNCHANGED <<work, job>> PROVE Goal
  BY <1>1
<1>2. ASSUME NEW t \in Tasks, Enqueue(t) PROVE Goal
  BY <1>2 DEF Enqueue, vars, FreshJob, NoJob, Job
<1>3. ASSUME NEW t \in Tasks, NEW w \in Workers, DeliverClaims(w, t) PROVE Goal
  <2>1. /\ work' = [work EXCEPT ![w] = [task |-> t, claim |-> claims[t] + 1]]
        /\ job' = [job EXCEPT ![t].state = "active"]
        /\ work[w] = NoWork
        /\ \A v \in Workers : ~Executing(v, t)
    BY <1>3, <1>t DEF DeliverClaims, TryClaimTask
  <2>2. job' \in [Tasks -> Job]
    BY <2>1 DEF Job
  <2>3. ActiveInv'
    BY <1>t, <2>1 DEF Job, Work
  <2>4. ExclusiveExecution'
    BY <1>t, <2>1 DEF Work
  <2>. QED
    BY <2>2, <2>3, <2>4
<1>4. ASSUME NEW t \in Tasks, UNCHANGED work, job[t].state # "active" \/
             (\A w \in Workers : ~Executing(w, t)),
             NEW j \in Job, job' = [job EXCEPT ![t] = j]
      PROVE  Goal
  BY <1>4
<1>5. ASSUME NEW w \in Workers, pc[w] # "idle", JobFollows(w),
             work' = work \/ (pc'[w] = "idle" /\ work' = [work EXCEPT ![w] = NoWork])
      PROVE  Goal
  <2>1. work[w] # NoWork /\ work[w].task \in Tasks
    BY <1>5, <1>t
  <2>2. /\ job' \in [Tasks -> Job]
        /\ \A t \in Tasks : t # work[w].task \/ pc'[w] # "idle" => job'[t] = job[t]
    BY <1>5, <2>1, JobFollowsTyped
  <2>3. CASE pc'[w] # "idle"
    BY <1>5, <1>t, <2>2, <2>3
  <2>4. CASE pc'[w] = "idle"
    <3>1. work' = [work EXCEPT ![w] = NoWork]
      BY <1>5, <1>t, <2>4
    <3>. QED
      BY <1>t, <2>1, <2>2, <3>1
  <2>. QED
    BY <2>3, <2>4
<1>6. ASSUME NEW w \in Workers, ExecuteRejects(w) \/ WorkerCrashes(w) PROVE Goal
  <2>1. work[w] # NoWork /\ work[w].task \in Tasks /\ work' = [work EXCEPT ![w] = NoWork]
    BY <1>6, <1>t DEF ExecuteRejects, WorkerCrashes, WorkerStops, Leave
  <2>2. /\ job' \in [Tasks -> Job]
        /\ \A t \in Tasks : t # work[w].task => job'[t] = job[t]
    BY <1>6, <2>1, RejectedIsJob DEF ExecuteRejects, WorkerCrashes, queueVars
  <2>. QED
    BY <1>t, <2>1, <2>2
<1>7. ASSUME NEW t \in Tasks, DeliverStep(t) PROVE Goal
  <2>1. CASE DeliverSkips(t)
    <3>1. [job[t] EXCEPT !.state = "completed"] \in Job
      BY DEF Job
    <3>. QED
      BY <1>4, <2>1, <3>1 DEF DeliverSkips, vars
  <2>2. CASE DeliverRejects(t)
    BY <1>4, <2>2, RejectedIsJob DEF DeliverRejects, vars
  <2>3. CASE DeliverCrashes(t)
    <3>1. [job[t] EXCEPT !.state = "active"] \in Job
      BY DEF Job
    <3>. QED
      BY <1>4, <2>3, <3>1 DEF DeliverCrashes, vars
  <2>. QED
    BY <1>3, <1>7, <2>1, <2>2, <2>3 DEF DeliverStep
<1>8. ASSUME NEW t \in Tasks, JobStalls(t) PROVE Goal
  BY <1>4, <1>8, StalledIsJob DEF JobStalls, vars
<1>9. ASSUME NEW t \in Tasks, EvictJob(t) PROVE Goal
  BY <1>4, <1>9 DEF EvictJob, vars, NoJob, Job, Finished
<1>10. ASSUME NEW w \in Workers, Execute(w) \/ ExecuteSaves(w) PROVE Goal
  <2>1. CASE Execute(w)
    <3>1. pc[w] # "idle" /\ JobFollows(w)
      BY <2>1 DEF Execute, CompleteTaskRead, ExecutionFails, FailTaskRead
    <3>2. work' = work \/ (pc'[w] = "idle" /\ work' = [work EXCEPT ![w] = NoWork])
      BY <1>t, <2>1 DEF Execute, CompleteTaskRead, ExecutionFails, FailTaskRead, Leave
    <3>. QED
      BY <1>5, <3>1, <3>2
  <2>2. CASE ExecuteSaves(w)
    <3>1. pc[w] # "idle" /\ JobFollows(w)
      BY <1>t, <2>2 DEF ExecuteSaves, SaveUpdates
    <3>2. work' = work \/ (pc'[w] = "idle" /\ work' = [work EXCEPT ![w] = NoWork])
      BY <1>t, <2>2 DEF ExecuteSaves, SaveUpdates, Leave
    <3>. QED
      BY <1>5, <3>1, <3>2
  <2>. QED
    BY <1>10, <2>1, <2>2
<1>11. ASSUME NEW a \in Admins, AdminCancels(a) PROVE Goal
  BY <1>1, <1>11 DEF AdminCancels, CancelTaskRead, SaveUpdates, queueVars
<1>12. ASSUME NEW t \in Tasks, ProducerStep(t) \/ AdminRetries(t) PROVE Goal
  <2>1. CASE Enqueue(t)
    BY <1>2, <2>1
  <2>2. CASE ~Enqueue(t)
    BY <1>1, <1>12, <2>2 DEF ProducerStep, CreateAndEnqueue, CreateTask, EnqueueFails,
       MarkDispatched, MarkFails, GraceEnds, AdminRetries, RetryTask, vars
  <2>. QED
    BY <2>1, <2>2
<1>13. ASSUME \/ FindPendingForDispatch
              \/ \E s \in scan : Recovers(s)
              \/ RecoverySchedule
              \/ \E c \in Callers : SaveLoads(c) /\ UNCHANGED queueVars
              \/ UNCHANGED deliveryVars
       PROVE Goal
  BY <1>1, <1>13 DEF FindPendingForDispatch, Recovers, RecoverStaleTask, RecoverySchedule,
     RecoveryScan, Scans, RecoveryAborts, LeaseExpires, SaveLoads, deliveryVars, queueVars, vars
<1>. QED
  BY <1>6, <1>7, <1>8, <1>9, <1>10, <1>11, <1>12, <1>13 DEF DeliveryNext, SlotStep

\* A task is never in the hands of two workers, even when claims expire under live
\* workers: the second delivery needs a job, and there is one job per uid.
THEOREM DeliveryExclusive == DeliverySpec => []ExclusiveExecution
<1> DEFINE Inv == JobsTyped /\ ActiveInv /\ ExclusiveExecution
<1>1. DeliverySpec => []TypeOK
  BY DeliveryImplementsEngine, TypeCorrect, PTL
<1>2. TypeOK /\ TypeOK' /\ Inv /\ [DeliveryNext]_deliveryVars => Inv'
  BY DeliveryInvStep
<1>3. DeliveryInit => Inv
  BY DeliveryInvInit
<1>4. Inv => ExclusiveExecution
  OBVIOUS
<1>. QED
  BY <1>1, <1>2, <1>3, <1>4, PTL DEF DeliverySpec
-------------------------------------------------------------------------------
(***************************************************************************)
(* Exclusive execution is all that the finality of SUCCESS needs: with it, *)
(* saves may be split and leases expire under live workers.                *)
(***************************************************************************)

\* What a save in flight may still do to the status of its row.
OutcomeInv ==
    /\ \A a \in Admins :
          saves[a] # NoSave => saves[a].target.status \in {"cancelled", "skipped"}
    /\ \A w \in Workers : saves[w] # NoSave =>
          /\ saves[w].target.status \in {"success", "failed", "retrying"}
          /\ saves[w].loaded => saves[w].base.status # "success"

\* A stored SUCCESS is one that the history knows.
KnownInv == \A t \in Tasks : row[t].status = "success" => t \in succeeded

\* No worker is about to write an outcome over one that has been stored.
DoneInv == \A w \in Workers : saves[w] # NoSave => saves[w].task \notin succeeded

SuccessInv == OutcomeInv /\ KnownInv /\ DoneInv /\ SuccessIsNotRerun

\* The UPDATE of a save: each column is the entity's or the row's, and the entity's where it
\* differs from what was loaded.
LEMMA UpdatedRow ==
  ASSUME TypeOK, NEW c \in Callers, SaveUpdates(c)
  PROVE  LET s == saves[c]
             base == IF SplitSave THEN s.base ELSE row[s.task]
         IN /\ s # NoSave /\ s \in Save /\ s.task \in Tasks
            /\ SplitSave => s.loaded
            /\ base \in Row /\ s.target \in Row
            /\ row' \in [Tasks -> Row]
            /\ row'[s.task] = Merged(s.target, base, row[s.task])
            /\ \A t \in Tasks \ {s.task} : row'[t] = row[t]
            /\ saves' = [saves EXCEPT ![c] = NoSave]
            /\ succeeded' = IF s.target.status = "success" THEN succeeded \cup {s.task}
                            ELSE succeeded
            /\ UNCHANGED <<claims, staleUpTo, scan>>
<1> DEFINE s == saves[c]
           base == IF SplitSave THEN s.base ELSE row[s.task]
<1>1. s # NoSave /\ s \in Save /\ s.task \in Tasks /\ s.target \in Row /\ s.base \in Row
  BY DEF SaveUpdates, TypeOK, Save
<1>2. base \in Row /\ row[s.task] \in Row
  BY <1>1 DEF TypeOK
<1>3. Merged(s.target, base, row[s.task]) \in Row
  BY <1>1, <1>2 DEF Merged, Column, Row
<1>4. row' = [row EXCEPT ![s.task] = Merged(s.target, base, row[s.task])]
  BY DEF SaveUpdates
<1> HIDE DEF base
<1>5. row' \in [Tasks -> Row] /\ row'[s.task] = Merged(s.target, base, row[s.task])
      /\ \A t \in Tasks \ {s.task} : row'[t] = row[t]
  BY <1>1, <1>3, <1>4 DEF TypeOK
<1>. QED
  BY <1>1, <1>2, <1>5 DEF base, SaveUpdates

LEMMA SuccessInit == Init => SuccessInv
  BY DEF Init, SuccessInv, OutcomeInv, KnownInv, DoneInv, SuccessIsNotRerun, Callers, Absent

LEMMA SuccessStep ==
  ASSUME TypeOK, ExclusiveExecution, SuccessInv, [Next]_vars
  PROVE  SuccessInv'
<1> USE ConstantsAssumption DEF SuccessInv, OutcomeInv, KnownInv, DoneInv, SuccessIsNotRerun
<1>t. /\ row \in [Tasks -> Row]
      /\ saves \in [Callers -> Save \cup {NoSave}]
      /\ \A w \in Workers : pc[w] = "idle" <=> work[w] = NoWork
      /\ \A w \in Workers : saves[w] # NoSave => Executing(w, saves[w].task)
      /\ \A w \in Workers : work[w] # NoWork => work[w].task \in Tasks
      /\ Workers \subseteq Callers /\ Admins \subseteq Callers
      /\ succeeded \subseteq Tasks
  BY DEF TypeOK, Callers, Work
<1>1. ASSUME NEW t \in Tasks, CreateTask(t) PROVE SuccessInv'
  BY <1>1, <1>t DEF CreateTask, Row, Exists
<1>2. ASSUME NEW w \in Workers, NEW t \in Tasks, TryClaimTask(w, t) PROVE SuccessInv'
  BY <1>2, <1>t DEF TryClaimTask, Claimable
<1>3. ASSUME NEW w \in Workers, CompleteTaskRead(w) \/ \E b \in BOOLEAN : FailTaskRead(w, b)
      PROVE  SuccessInv'
  <2> DEFINE t == work[w].task
  <2>1. t \in Tasks /\ w \in Callers /\ UNCHANGED <<row, succeeded>>
    BY <1>3, <1>t DEF CompleteTaskRead, FailTaskRead
  <2>2. CASE UNCHANGED saves
    BY <2>1, <2>2
  <2>3. ASSUME NEW e, saves' = [saves EXCEPT ![w] = Pending(t, e)],
               e.status \in {"success", "failed", "retrying"}, row[t].status = "processing"
        PROVE  SuccessInv'
    <3>1. /\ Pending(t, e).task = t /\ Pending(t, e).target = e /\ ~Pending(t, e).loaded
          /\ t \notin succeeded
      BY <2>1, <2>3 DEF Pending
    <3>. QED
      BY <1>t, <2>1, <2>3, <3>1
  <2>4. CASE CompleteTaskRead(w)
    BY <2>2, <2>3, <2>4 DEF CompleteTaskRead, Released
  <2>5. ASSUME NEW b \in BOOLEAN, FailTaskRead(w, b) PROVE SuccessInv'
    <3> DEFINE e == Released(t, IF ~b /\ row[t].attempt < MaxAttempt THEN "retrying" ELSE "failed")
    <3>1. e.status \in {"retrying", "failed"}
      BY DEF Released
    <3>2. UNCHANGED saves \/ (row[t].status = "processing" /\ UNCHANGED <<pc, work>>
                              /\ saves' = [saves EXCEPT ![w] = Pending(t, e)])
      BY <2>5 DEF FailTaskRead
    <3> HIDE DEF e
    <3>. QED
      BY <2>2, <2>3, <3>1, <3>2
  <2>. QED
    BY <1>3, <2>4, <2>5
<1>4. ASSUME NEW w \in Workers, ExecutionFails(w) \/ WorkerStops(w) PROVE SuccessInv'
  BY <1>4, <1>t DEF ExecutionFails, WorkerStops
<1>5. ASSUME NEW a \in Admins, NEW t \in Tasks, CancelTaskRead(a, t) \/ SkipTaskRead(a, t)
      PROVE  SuccessInv'
  BY <1>5, <1>t DEF CancelTaskRead, SkipTaskRead, Pending, Row
<1>6. ASSUME NEW t \in Tasks, RetryTask(t) PROVE SuccessInv'
  BY <1>6, <1>t DEF RetryTask
<1>7. ASSUME NEW c \in Callers, SaveLoads(c) PROVE SuccessInv'
  <2> DEFINE s == [saves[c] EXCEPT !.loaded = TRUE, !.base = row[saves[c].task]]
  <2>1. /\ saves' = [saves EXCEPT ![c] = s] /\ saves[c] \in Save /\ saves[c] # NoSave
        /\ UNCHANGED <<row, succeeded>>
    BY <1>7, <1>t DEF SaveLoads
  <2>2. s.task = saves[c].task /\ s.target = saves[c].target /\ s.base = row[saves[c].task]
        /\ saves[c].task \in Tasks
    BY <2>1 DEF Save
  <2>3. c \in Workers => s.base.status # "success"
    BY <2>1, <2>2
  <2> HIDE DEF s
  <2>. QED
    BY <1>t, <2>1, <2>2, <2>3
<1>8. ASSUME NEW c \in Callers, SaveUpdates(c) PROVE SuccessInv'
  <2> DEFINE s == saves[c]
             base == IF SplitSave THEN s.base ELSE row[s.task]
  <2>1. /\ s # NoSave /\ s \in Save /\ s.task \in Tasks
        /\ SplitSave => s.loaded
        /\ row'[s.task] = Merged(s.target, base, row[s.task])
        /\ \A t \in Tasks \ {s.task} : row'[t] = row[t]
        /\ saves' = [saves EXCEPT ![c] = NoSave]
        /\ succeeded' = IF s.target.status = "success" THEN succeeded \cup {s.task}
                        ELSE succeeded
    BY <1>8, UpdatedRow
  <2>2. /\ row'[s.task].status \in {s.target.status, row[s.task].status}
        /\ s.target.status # base.status => row'[s.task].status = s.target.status
    BY <2>1 DEF Merged, Column
  <2>3. OutcomeInv'
    BY <1>t, <2>1
  <2>4. CASE c \in Workers
    <3>1. s.task \notin succeeded /\ row[s.task].status # "success" /\ base.status # "success"
      BY <2>1, <2>4
    <3>2. \A v \in Workers \ {c} : saves[v] # NoSave => saves[v].task # s.task
      BY <1>t, <2>1, <2>4 DEF ExclusiveExecution
    <3> HIDE DEF base, s
    <3>3. DoneInv'
      BY <1>t, <2>1, <2>4, <3>2
    <3>4. KnownInv' /\ SuccessIsNotRerun'
      BY <1>t, <2>1, <2>2, <2>4, <3>1
    <3>. QED
      BY <2>3, <3>3, <3>4
  <2>5. CASE c \in Admins
    <3>1. s.target.status \in {"cancelled", "skipped"} /\ succeeded' = succeeded
      BY <2>1, <2>5
    <3> HIDE DEF base, s
    <3>. QED
      BY <1>t, <2>1, <2>2, <2>3, <2>5, <3>1
  <2>. QED
    BY <2>4, <2>5 DEF Callers
<1>9. ASSUME NEW s \in scan, RecoverStaleTask(s) PROVE SuccessInv'
  <2>1. UNCHANGED <<saves, succeeded>>
    BY <1>9 DEF RecoverStaleTask
  <2>2. CASE ~SameClaim(s)
    BY <1>9, <2>1, <2>2 DEF RecoverStaleTask
  <2>3. CASE SameClaim(s)
    <3>1. s.task \in Tasks /\ s.task \notin succeeded
      BY <2>3 DEF SameClaim, TypeOK, Scan
    <3>2. row'[s.task].status \in {"retrying", "failed"} /\ \A t \in Tasks \ {s.task} : row'[t] = row[t]
      BY <1>9, <1>t, <2>3, <3>1 DEF RecoverStaleTask, Row
    <3>. QED
      BY <1>t, <2>1, <3>1, <3>2
  <2>. QED
    BY <2>2, <2>3
<1>10. ASSUME \/ \E t \in Tasks : LeaseExpires(t)
              \/ RecoveryScan \/ RecoveryAborts
              \/ UNCHANGED vars
       PROVE  SuccessInv'
  BY <1>10 DEF LeaseExpires, RecoveryScan, Scans, RecoveryAborts, vars
<1>. QED
  BY <1>1, <1>2, <1>3, <1>4, <1>5, <1>6, <1>7, <1>8, <1>9, <1>10
  DEF Next, WorkerStep, AdminStep, TaskStep, RecoveryStep

\* Behind the queue a stored SUCCESS is final, with no assumption on saves or leases.
THEOREM DeliverySuccessFinal == DeliverySpec => []SuccessIsNotRerun
<1>1. DeliverySpec => []TypeOK
  BY DeliveryImplementsEngine, TypeCorrect, PTL
<1>2. TypeOK /\ ExclusiveExecution /\ SuccessInv /\ [Next]_vars => SuccessInv'
  BY SuccessStep
<1>3. SuccessInv => SuccessIsNotRerun
  BY DEF SuccessInv
<1>. QED
  BY <1>1, <1>2, <1>3, SuccessInit, DeliveryImplementsEngine, DeliveryExclusive, PTL DEF Spec
-------------------------------------------------------------------------------
(***************************************************************************)
(* The bound on attempts behind the queue, where cancellations do not      *)
(* overlap.  Two that do may leave an old attempt in a running row, which  *)
(* the save of a worker whose claim the sweep has failed meanwhile then    *)
(* writes over an administrator's retry.                                   *)
(***************************************************************************)

OneAdmin == \A a, b \in Admins : a = b

\* The engine without skipTask, which the admin API does not expose.
DeliveredNext ==
    \/ \E w \in Workers : WorkerStep(w)
    \/ \E a \in Admins, t \in Tasks : CancelTaskRead(a, t)
    \/ \E c \in Callers : SaveLoads(c) \/ SaveUpdates(c)
    \/ \E t \in Tasks : TaskStep(t)
    \/ RecoveryStep

LEMMA DeliveryStepDelivers == [DeliveryNext]_deliveryVars => [DeliveredNext]_vars
<1> SUFFICES ASSUME DeliveryNext PROVE [DeliveredNext]_vars
  BY DEF deliveryVars, vars
<1>1. ASSUME NEW t \in Tasks, ProducerStep(t) PROVE DeliveredNext \/ UNCHANGED vars
  BY <1>1 DEF ProducerStep, CreateAndEnqueue, Enqueue, EnqueueFails, MarkDispatched, MarkFails,
     GraceEnds, DeliveredNext, TaskStep
<1>2. ASSUME NEW t \in Tasks, DeliverStep(t) PROVE DeliveredNext \/ UNCHANGED vars
  BY <1>2 DEF DeliverStep, DeliverClaims, DeliverSkips, DeliverRejects, DeliverCrashes,
     DeliveredNext, WorkerStep
<1>3. ASSUME NEW w \in Workers, SlotStep(w) PROVE DeliveredNext
  BY <1>3 DEF SlotStep, Execute, ExecuteSaves, WorkerCrashes, ExecuteRejects, DeliveredNext,
     WorkerStep, Callers
<1>4. ASSUME NEW a \in Admins, AdminCancels(a) PROVE DeliveredNext
  BY <1>4 DEF AdminCancels, DeliveredNext, Callers
<1>5. ASSUME \/ \E t \in Tasks : AdminRetries(t)
             \/ \E c \in Callers : SaveLoads(c) /\ UNCHANGED queueVars
             \/ \E s \in scan : Recovers(s)
             \/ RecoverySchedule
      PROVE  DeliveredNext
  BY <1>5 DEF AdminRetries, Recovers, RecoverySchedule, RecoveryStep, TaskStep, DeliveredNext
<1>6. ASSUME \/ FindPendingForDispatch
             \/ \E t \in Tasks : JobStalls(t) \/ EvictJob(t)
      PROVE  UNCHANGED vars
  BY <1>6 DEF FindPendingForDispatch, JobStalls, EvictJob
<1>. QED
  BY <1>1, <1>2, <1>3, <1>4, <1>5, <1>6 DEF DeliveryNext

\* The cancellation in flight: its row is not cancelled, so that its status will be written.
CancelInv ==
    \A a \in Admins : saves[a] # NoSave =>
        /\ saves[a].target.status = "cancelled" /\ saves[a].target.attempt < MaxAttempt
        /\ row[saves[a].task].status # "cancelled"
        /\ saves[a].loaded => saves[a].base.status # "cancelled"

\* A worker's save in flight: one to RETRYING finds an attempt left, whatever column it writes;
\* one to FAILED that finds the row failed already finds its own attempt there.
RetryInv(s) ==
    s.target.status = "retrying" => s.target.attempt < MaxAttempt /\ row[s.task].attempt < MaxAttempt

FailInv(s) ==
    s.target.status = "failed" =>
        /\ row[s.task].status \in {"processing", "failed"} => row[s.task].attempt = s.target.attempt
        /\ s.loaded /\ s.base.status = "failed" => s.base.attempt = s.target.attempt

WorkerSaveInv ==
    \A w \in Workers : saves[w] # NoSave =>
        /\ saves[w].target.attempt <= MaxAttempt /\ saves[w].target.lockedAt = Unlocked
        /\ RetryInv(saves[w]) /\ FailInv(saves[w])

\* A sweep that is to bring a row back knows of an attempt left.
SweepInv ==
    \A s \in scan :
        /\ s.lockedAt # Unlocked
        /\ SameClaim(s) /\ s.attempt < MaxAttempt => row[s.task].attempt < MaxAttempt

\* A row has an attempt left whenever its status lets a worker claim it.
RowAttemptInv ==
    \A t \in Tasks :
        /\ row[t].attempt <= MaxAttempt
        /\ row[t].status \in Claimable \cup {"absent"} => row[t].attempt < MaxAttempt

CounterInv == RowAttemptInv /\ CancelInv /\ WorkerSaveInv /\ SweepInv

LEMMA CounterInit == Init => CounterInv
  BY ConstantsAssumption
  DEF Init, CounterInv, RowAttemptInv, CancelInv, WorkerSaveInv, SweepInv, Absent, Claimable, Callers

LEMMA CounterStep ==
  ASSUME OneAdmin, TypeOK, ScanStaleInv, ExclusiveExecution, ExclusiveExecution', TypeOK',
         SuccessInv, CounterInv, [DeliveredNext]_vars
  PROVE  CounterInv'
<1> USE ConstantsAssumption
    DEF CounterInv, RowAttemptInv, CancelInv, WorkerSaveInv, SweepInv, RetryInv, FailInv, Unlocked
<1>t. /\ row \in [Tasks -> Row] /\ claims \in [Tasks -> Nat] /\ scan \subseteq Scan
      /\ saves \in [Callers -> Save \cup {NoSave}]
      /\ \A w \in Workers : pc[w] = "idle" <=> work[w] = NoWork
      /\ \A w \in Workers : saves[w] # NoSave => Executing(w, saves[w].task)
      /\ \A w \in Workers : (saves[w] # NoSave => Executing(w, saves[w].task))'
      /\ \A w \in Workers : work[w] # NoWork => work[w].task \in Tasks
      /\ Workers \subseteq Callers /\ Admins \subseteq Callers
      /\ MaxAttempt \in Nat /\ MaxAttempt > 0
  <2>1. \A w \in Workers : (saves[w] # NoSave => Executing(w, saves[w].task))'
    BY DEF TypeOK, Executing
  <2>2. \A w \in Workers : work[w] # NoWork => work[w].task \in Tasks
    BY DEF TypeOK, Work
  <2>3. row \in [Tasks -> Row] /\ claims \in [Tasks -> Nat]
    BY DEF TypeOK
  <2>. QED
    BY <2>1, <2>2, <2>3 DEF TypeOK, Callers
<1>1. ASSUME NEW t \in Tasks, CreateTask(t) PROVE CounterInv'
  <2>1. /\ row[t].status = "absent" /\ row'[t].status = "pending" /\ row'[t].attempt = row[t].attempt
        /\ row'[t].attempt < MaxAttempt
        /\ \A u \in Tasks \ {t} : row'[u] = row[u]
        /\ UNCHANGED <<saves, scan>>
    BY <1>1, <1>t DEF CreateTask, Exists, Row
  <2>. QED
    BY <1>t, <2>1 DEF Claimable, SameClaim, Scan, Save
<1>2. ASSUME NEW w \in Workers, NEW t \in Tasks, TryClaimTask(w, t) PROVE CounterInv'
  <2>1. /\ row[t].status \in Claimable /\ row[t].attempt \in Nat
        /\ row'[t] = [status |-> "processing", attempt |-> row[t].attempt + 1,
                      lockedAt |-> claims[t] + 1]
        /\ \A u \in Tasks \ {t} : row'[u] = row[u]
        /\ saves[w] = NoSave /\ Executing(w, t)'
        /\ UNCHANGED <<saves, scan>>
    BY <1>2, <1>t DEF TryClaimTask, Row, TypeOK, Executing
  <2>2. \A v \in Workers : saves[v] # NoSave => saves[v].task # t
    <3> SUFFICES ASSUME NEW v \in Workers, saves[v] # NoSave, saves[v].task = t PROVE FALSE
      OBVIOUS
    <3>1. saves'[v] = saves[v]
      BY <2>1
    <3>2. Executing(v, t)'
      BY <1>t, <3>1
    <3>. QED
      BY <2>1, <3>2 DEF ExclusiveExecution
  <2>3. \A s \in scan : s.task = t => s.lockedAt # claims[t] + 1
    BY <1>t DEF ScanStaleInv, Scan
  <2>4. RowAttemptInv'
    BY <1>t, <2>1 DEF Claimable, Row
  <2>5. SweepInv'
    BY <1>t, <2>1, <2>3 DEF SameClaim, Scan
  <2>6. CancelInv' /\ WorkerSaveInv'
    BY <1>t, <2>1, <2>2 DEF Save, Callers
  <2>. QED
    BY <2>4, <2>5, <2>6
<1>3. ASSUME NEW w \in Workers, CompleteTaskRead(w) \/ \E b \in BOOLEAN : FailTaskRead(w, b)
      PROVE  CounterInv'
  <2> DEFINE t == work[w].task
  <2>1. t \in Tasks /\ w \in Callers /\ UNCHANGED <<row, scan>> /\ w \notin Admins
    BY <1>3, <1>t DEF CompleteTaskRead, FailTaskRead
  <2>2. CASE UNCHANGED saves
    BY <2>1, <2>2 DEF SameClaim
  <2>3. ASSUME NEW status \in {"success", "failed", "retrying"}, row[t].status = "processing",
               saves' = [saves EXCEPT ![w] = Pending(t, Released(t, status))],
               status = "retrying" => row[t].attempt < MaxAttempt
        PROVE  CounterInv'
    <3> DEFINE s == Pending(t, Released(t, status))
    <3>1. /\ s.task = t /\ s.target.status = status /\ s.target.attempt = row[t].attempt
          /\ s.target.lockedAt = Unlocked /\ ~s.loaded
      BY DEF Pending, Released
    <3>2. saves'[w] = s /\ \A c \in Callers \ {w} : saves'[c] = saves[c]
      BY <1>t, <2>1, <2>3
    <3> HIDE DEF s
    <3>3. WorkerSaveInv'
      BY <1>t, <2>1, <2>3, <3>1, <3>2
    <3>4. CancelInv'
      BY <1>t, <2>1, <3>2
    <3>. QED
      BY <2>1, <3>3, <3>4 DEF SameClaim
  <2>4. CASE CompleteTaskRead(w)
    BY <2>2, <2>3, <2>4 DEF CompleteTaskRead
  <2>5. ASSUME NEW b \in BOOLEAN, FailTaskRead(w, b) PROVE CounterInv'
    <3> DEFINE status == IF ~b /\ row[t].attempt < MaxAttempt THEN "retrying" ELSE "failed"
    <3>1. status \in {"retrying", "failed"} /\ (status = "retrying" => row[t].attempt < MaxAttempt)
      OBVIOUS
    <3>2. UNCHANGED saves \/ (row[t].status = "processing"
                              /\ saves' = [saves EXCEPT ![w] = Pending(t, Released(t, status))])
      BY <2>5 DEF FailTaskRead
    <3> HIDE DEF status
    <3>. QED
      BY <2>2, <2>3, <3>1, <3>2
  <2>. QED
    BY <1>3, <2>4, <2>5
<1>4. ASSUME NEW w \in Workers, ExecutionFails(w) \/ WorkerStops(w) PROVE CounterInv'
  <2>1. UNCHANGED <<row, scan>> /\ \A c \in Callers : saves'[c] = saves[c] \/ saves'[c] = NoSave
    BY <1>4, <1>t DEF ExecutionFails, WorkerStops
  <2>. QED
    BY <1>t, <2>1 DEF SameClaim
<1>5. ASSUME NEW a \in Admins, NEW t \in Tasks, CancelTaskRead(a, t) PROVE CounterInv'
  <2> DEFINE s == Pending(t, [row[t] EXCEPT !.status = "cancelled"])
  <2>1. /\ saves'[a] = s /\ \A c \in Callers \ {a} : saves'[c] = saves[c]
        /\ row[t].status \in Claimable /\ UNCHANGED <<row, scan>>
    BY <1>5, <1>t DEF CancelTaskRead
  <2>2. /\ s.task = t /\ s.target.status = "cancelled" /\ s.target.attempt = row[t].attempt
        /\ ~s.loaded
    BY <1>t DEF Pending, Row
  <2> HIDE DEF s
  <2>3. CancelInv'
    BY <1>t, <2>1, <2>2 DEF Claimable
  <2>4. WorkerSaveInv'
    BY <1>5, <1>t, <2>1 DEF Callers
  <2>. QED
    BY <2>1, <2>3, <2>4 DEF SameClaim
<1>6. ASSUME NEW t \in Tasks, RetryTask(t) PROVE CounterInv'
  <2>1. /\ row'[t] = [status |-> "pending", attempt |-> 0, lockedAt |-> Unlocked]
        /\ \A u \in Tasks \ {t} : row'[u] = row[u]
        /\ UNCHANGED <<saves, scan>>
    BY <1>6, <1>t DEF RetryTask
  <2>. QED
    BY <1>t, <2>1 DEF SameClaim, Scan, Save, Claimable
<1>7. ASSUME NEW c \in Callers, SaveLoads(c) PROVE CounterInv'
  <2> DEFINE s == [saves[c] EXCEPT !.loaded = TRUE, !.base = row[saves[c].task]]
  <2>1. /\ saves'[c] = s /\ \A d \in Callers \ {c} : saves'[d] = saves[d]
        /\ saves[c] \in Save /\ saves[c] # NoSave
        /\ UNCHANGED <<row, scan>>
    BY <1>7, <1>t DEF SaveLoads
  <2>2. s.task = saves[c].task /\ s.target = saves[c].target /\ s.base = row[saves[c].task]
        /\ saves[c].task \in Tasks
    BY <2>1 DEF Save
  <2> HIDE DEF s
  <2>3. WorkerSaveInv'
    BY <1>t, <2>1, <2>2
  <2>4. CancelInv'
    BY <1>t, <2>1, <2>2
  <2>. QED
    BY <2>1, <2>3, <2>4 DEF SameClaim
<1>8. ASSUME NEW c \in Callers, SaveUpdates(c) PROVE CounterInv'
  <2> DEFINE s == saves[c]
             base == IF SplitSave THEN s.base ELSE row[s.task]
             old == row[s.task]
             new == row'[s.task]
  <2>1. /\ s # NoSave /\ s \in Save /\ s.task \in Tasks
        /\ SplitSave => s.loaded
        /\ new = Merged(s.target, base, row[s.task])
        /\ \A t \in Tasks \ {s.task} : row'[t] = row[t]
        /\ saves' = [saves EXCEPT ![c] = NoSave]
        /\ UNCHANGED scan
    BY <1>8, UpdatedRow
  <2>2. /\ new.status = IF s.target.status # base.status THEN s.target.status ELSE old.status
        /\ new.attempt = IF s.target.attempt # base.attempt THEN s.target.attempt ELSE old.attempt
        /\ new.lockedAt = IF s.target.lockedAt # base.lockedAt THEN s.target.lockedAt ELSE old.lockedAt
    BY <2>1 DEF Merged, Column
  <2>3. saves'[c] = NoSave /\ \A d \in Callers \ {c} : saves'[d] = saves[d]
    BY <1>t, <2>1
  <2>4. /\ old.attempt \in Nat /\ s.target.attempt \in Nat /\ old.attempt <= MaxAttempt
        /\ old.status \in Claimable => old.attempt < MaxAttempt
    BY <1>t, <2>1 DEF Row, Save
  <2>5. CASE c \in Workers
    <3>1. \A v \in Workers : saves'[v] # NoSave => v # c /\ saves'[v] = saves[v] /\ saves[v].task # s.task
      BY <1>t, <2>1, <2>3, <2>5 DEF ExclusiveExecution
    <3>2. s.target.status \in {"success", "failed", "retrying"} /\ base.status # "success"
          /\ s.task \notin succeeded /\ old.status # "success"
      BY <2>1, <2>5 DEF SuccessInv, OutcomeInv, DoneInv, KnownInv
    <3>3. s.target.attempt <= MaxAttempt /\ s.target.lockedAt = Unlocked /\ RetryInv(s) /\ FailInv(s)
      BY <2>1, <2>5
    <3>4. s.target.status = "failed" /\ base.status = "failed" => s.target.attempt = base.attempt
      BY <2>1, <3>3
    <3>5. /\ new.attempt <= MaxAttempt
          /\ new.status # "cancelled" \/ old.status = "cancelled"
          /\ \/ new.attempt < MaxAttempt
             \/ new.status \in {"success", "failed"}
             \/ new.status = old.status /\ new.attempt = old.attempt
          /\ new.status = "processing" => old.status = "processing"
          /\ new.lockedAt = old.lockedAt \/ new.lockedAt = Unlocked
      <4> HIDE DEF old, new, base, s
      <4>1. CASE s.target.status = "success"
        BY <2>2, <2>4, <3>2, <3>3, <4>1
      <4>2. CASE s.target.status = "failed"
        BY <2>2, <2>4, <3>2, <3>3, <3>4, <4>2
      <4>3. CASE s.target.status = "retrying"
        <5>1. s.target.attempt < MaxAttempt /\ old.attempt < MaxAttempt
          BY <3>3, <4>3 DEF old
        <5>. QED
          BY <2>2, <2>4, <3>2, <3>3, <4>3, <5>1
      <4>. QED
        BY <3>2, <4>1, <4>2, <4>3
    <3>6. RowAttemptInv'
      <4>1. new.status \in Claimable \cup {"absent"} => new.attempt < MaxAttempt
        BY <1>t, <2>1, <3>5 DEF Claimable
      <4>. QED
        BY <1>t, <2>1, <3>5, <4>1
    <3>7. WorkerSaveInv'
      <4>1. \A v \in Workers : saves'[v] # NoSave => saves[v].task \in Tasks
        BY <1>t, <3>1 DEF Save
      <4>. QED
        BY <2>1, <3>1, <4>1
    <3>8. CancelInv'
      <4>1. \A a \in Admins : saves'[a] = saves[a] /\ (saves[a] # NoSave => saves[a].task \in Tasks)
        BY <1>t, <2>3, <2>5 DEF Save
      <4>. QED
        BY <2>1, <3>5, <4>1
    <3>9. SweepInv'
      <4> SUFFICES ASSUME NEW x \in scan, SameClaim(x)', x.attempt < MaxAttempt
                   PROVE  row'[x.task].attempt < MaxAttempt
        BY <2>1
      <4>1. x.task \in Tasks /\ x.lockedAt # Unlocked
        BY <1>t DEF Scan
      <4>2. CASE x.task # s.task
        BY <2>1, <4>1, <4>2 DEF SameClaim
      <4>3. CASE x.task = s.task
        <5>1. new.status = "processing" /\ new.lockedAt = x.lockedAt
          BY <4>3 DEF SameClaim
        <5>2. SameClaim(x)
          BY <3>5, <4>1, <4>3, <5>1 DEF SameClaim
        <5>. QED
          BY <3>5, <4>3, <5>1, <5>2
      <4>. QED
        BY <4>2, <4>3
    <3>. QED
      BY <3>6, <3>7, <3>8, <3>9
  <2>6. CASE c \in Admins
    <3>1. s.target.status = "cancelled" /\ s.target.attempt < MaxAttempt /\ base.status # "cancelled"
      BY <2>1, <2>6
    <3>2. new.status = "cancelled" /\ new.attempt <= MaxAttempt
          /\ (new.attempt < MaxAttempt \/ new.attempt = old.attempt)
      <4> HIDE DEF old, new, base, s
      <4>. QED
        BY <2>2, <2>4, <3>1
    <3>3. RowAttemptInv'
      BY <1>t, <2>1, <3>2 DEF Claimable
    <3>4. CancelInv'
      BY <2>3, <2>6 DEF OneAdmin
    <3>5. WorkerSaveInv'
      <4>1. \A v \in Workers : saves'[v] = saves[v] /\ (saves[v] # NoSave => saves[v].task \in Tasks)
        BY <1>t, <2>3, <2>6 DEF Save
      <4>. QED
        BY <2>1, <3>2, <4>1
    <3>6. SweepInv'
      BY <1>t, <2>1, <3>2 DEF SameClaim, Scan
    <3>. QED
      BY <3>3, <3>4, <3>5, <3>6
  <2>. QED
    BY <2>5, <2>6 DEF Callers
<1>9. ASSUME NEW s \in scan, RecoverStaleTask(s) PROVE CounterInv'
  <2>1. UNCHANGED saves /\ scan' \subseteq scan /\ s.task \in Tasks
    BY <1>9, <1>t DEF RecoverStaleTask, Scan
  <2>2. CASE ~SameClaim(s)
    BY <1>9, <2>1, <2>2 DEF RecoverStaleTask, SameClaim
  <2>3. CASE SameClaim(s)
    <3>1. /\ row'[s.task].status = IF s.attempt < MaxAttempt THEN "retrying" ELSE "failed"
          /\ row'[s.task].attempt = row[s.task].attempt
          /\ \A t \in Tasks \ {s.task} : row'[t] = row[t]
          /\ row[s.task].status = "processing"
      BY <1>9, <1>t, <2>1, <2>3 DEF RecoverStaleTask, Row, SameClaim
    <3>2. RowAttemptInv'
      BY <1>t, <2>1, <2>3, <3>1 DEF Claimable
    <3>3. CancelInv' /\ WorkerSaveInv'
      BY <1>t, <2>1, <3>1 DEF Save
    <3>4. SweepInv'
      BY <1>t, <2>1, <3>1 DEF SameClaim, Scan
    <3>. QED
      BY <3>2, <3>3, <3>4
  <2>. QED
    BY <2>2, <2>3
<1>10. ASSUME RecoveryScan PROVE CounterInv'
  BY <1>10, <1>t, ScanFinds DEF IsStale, SameClaim
<1>11. ASSUME \/ \E t \in Tasks : LeaseExpires(t)
              \/ RecoveryAborts
              \/ UNCHANGED vars
       PROVE  CounterInv'
  BY <1>11 DEF LeaseExpires, RecoveryAborts, vars, SameClaim
<1>. QED
  BY <1>1, <1>2, <1>3, <1>4, <1>5, <1>6, <1>7, <1>8, <1>9, <1>10, <1>11
  DEF DeliveredNext, WorkerStep, TaskStep, RecoveryStep

\* Behind the queue, and where cancellations do not overlap, no task is tried more often than
\* maxAttempt, with saves in two steps and claims that expire under live workers.
THEOREM DeliveryAttemptBound ==
  ASSUME OneAdmin PROVE DeliverySpec => []AttemptWithinMax
<1>1. Spec => [](TypeOK /\ ScanStaleInv)
  BY ScanStaleInvariant
<1>2. TypeOK /\ ExclusiveExecution /\ SuccessInv /\ [Next]_vars => SuccessInv'
  BY SuccessStep
<1>3. TypeOK /\ ScanStaleInv /\ ExclusiveExecution /\ ExclusiveExecution' /\ TypeOK' /\ SuccessInv
      /\ CounterInv /\ [DeliveredNext]_vars => CounterInv'
  BY CounterStep
<1>4. CounterInv => AttemptWithinMax
  BY DEF CounterInv, RowAttemptInv, AttemptWithinMax
<1>. QED
  BY <1>1, <1>2, <1>3, <1>4, SuccessInit, CounterInit, DeliveryImplementsEngine,
     DeliveryExclusive, DeliveryStepDelivers, PTL DEF Spec, DeliverySpec
===============================================================================
