-------------------------- MODULE TaskRetentionProofs --------------------------
(***************************************************************************)
(* Theorems about TaskRetention, for every set of tasks, creators and keys *)
(* and every limit: what a key stands for, and what a cleanup takes.       *)
(***************************************************************************)
EXTENDS TaskRetention, TaskEngineProofs

(***************************************************************************)
(* The inductive invariant.  Rows do not go away, so that the unique index *)
(* keeps one holder for each key.  A finished row whose retention is over  *)
(* has no save in flight but of an outcome, and so has one that a cleanup  *)
(* has selected, unless it has been retried.                               *)
(***************************************************************************)

\* What is being saved is a row that has been read, with an outcome.
SavesOfRows ==
    \A c \in Callers :
        saves[c] # NoSave => /\ saves[c].target.status \in Terminal \cup {"retrying"}
                             /\ Exists(saves[c].task)

KeyInv ==
    /\ \A t, u \in Tasks :
        Exists(t) /\ Exists(u) /\ key[t] = key[u] /\ key[t] # NoKey => t = u
    /\ \A c \in Creators :
        creator[c].key # NoKey /\ creator[c].task # NoTask
        => Exists(creator[c].task) /\ key[creator[c].task] = creator[c].key

\* Whatever is being saved, the row stays finished.
Settled(t) ==
    /\ row[t].status \in Terminal
    /\ \A c \in Callers :
        saves[c] # NoSave /\ saves[c].task = t => saves[c].target.status \in Terminal

CleanupInv ==
    /\ \A t \in Tasks : finishedAt[t] = "old" /\ row[t].status \in Terminal => Settled(t)
    /\ \A t \in cleanup.rows : Settled(t) \/ t \in retried
    /\ \A t \in retried : Exists(t)

RetentionInv ==
    /\ RetentionTypeOK
    /\ SavesOfRows
    /\ KeyInv
    /\ CleanupInv

(***************************************************************************)
(* Every step of a row that may be deleted is one of a row.                *)
(***************************************************************************)
LEMMA RetentionStep == [RetentionNext]_allVars => [Next]_vars
  <1> SUFFICES ASSUME [RetentionNext]_allVars PROVE [Next]_vars
    OBVIOUS
  <1>1. ASSUME NEW c \in Creators, CreatorStep(c) PROVE [Next]_vars
    BY <1>1 DEF CreatorStep, CreateLooks, CreateInserts, CreateConflicts, CreateResolves, Next, TaskStep
  <1>2. ASSUME NEW w \in Workers, HandlerStep(w) PROVE [Next]_vars
    BY <1>2 DEF HandlerStep, Claims, Completes, CompletesNothing, Fails, FailsNothing, Breaks, Next,
                WorkerStep
  <1>3. CASE OperatorStep
    BY <1>3 DEF OperatorStep, Cancels, Skips, Retries, Next, AdminStep, TaskStep
  <1>4. ASSUME NEW c \in Callers, Saves(c) PROVE [Next]_vars
    BY <1>4 DEF Saves, Next
  <1>5. CASE SweepStep
    <2>1. ASSUME RecoveryFinds PROVE RecoveryScan
      BY <2>1 DEF RecoveryFinds, RecoveryScan
    <2> QED
      BY <1>5, <2>1 DEF SweepStep, Recovers, RecoveryStops, Next, RecoveryStep
  <1>6. CASE CleanupStep
    BY <1>6 DEF CleanupStep, SelectsSuccessful, SelectsOthers, SoftDeletes, CleanupStops
  <1>7. ASSUME NEW t \in Tasks, Expires(t) \/ Ages(t) PROVE [Next]_vars
    BY <1>7 DEF Expires, Ages, Next, TaskStep
  <1>8. CASE UNCHANGED allVars
    BY <1>8 DEF allVars
  <1> QED
    BY <1>1, <1>2, <1>3, <1>4, <1>5, <1>6, <1>7, <1>8 DEF RetentionNext

\* TaskRetention implements TaskEngine: with deletion, keys and ages a row lives as without them,
\* so that whatever holds of every behaviour of TaskEngine holds here.
THEOREM RetentionImplementsEngine == RetentionSpec => Spec
  <1>1. RetentionInit => Init
    BY DEF RetentionInit
  <1> QED
    BY <1>1, RetentionStep, PTL DEF RetentionSpec, Spec

\* The sweep takes only stale claims also from rows that may be deleted.
THEOREM RetainedRecoverySafe == RetentionSpec => RecoveryTakesOnlyStaleClaims
  BY RetentionImplementsEngine, RecoverySafe, PTL

(***************************************************************************)
(* The steps of the engine by what they do to saves and to finished rows.  *)
(***************************************************************************)

\* No row begins or ends, nor does anybody store an outcome.
Calm ==
    \/ \E w \in Workers : \/ \E t \in Tasks : TryClaimTask(w, t)
                          \/ CompleteTaskRead(w) \/ ExecutionFails(w) \/ WorkerStops(w)
                          \/ \E nonRetryable \in BOOLEAN : FailTaskRead(w, nonRetryable)
    \/ \E a \in Admins, t \in Tasks : CancelTaskRead(a, t) \/ SkipTaskRead(a, t)
    \/ \E t \in Tasks : LeaseExpires(t)
    \/ RecoveryScan \/ RecoveryAborts

\* A caller that has read a row, has given up, or has its save as it was.
Reads(c) ==
    \/ saves'[c] = saves[c]
    \/ saves'[c] = NoSave
    \/ /\ saves'[c] # NoSave /\ saves'[c].task \in Tasks /\ Exists(saves'[c].task)
       /\ saves'[c].target.status \in Terminal \cup {"retrying"}
       /\ row[saves'[c].task].status \in Terminal => saves'[c].target.status \in Terminal

LEMMA CalmReads ==
    ASSUME TypeOK, Calm
    PROVE  /\ \A c \in Callers : Reads(c)
           /\ \A t \in Tasks : row'[t] = row[t] \/ (row[t].status \in Claimable
                                                    /\ row'[t].status = "processing")
  <1>t. /\ row \in [Tasks -> Row] /\ saves \in [Callers -> Save \cup {NoSave}]
        /\ work \in [Workers -> Work \cup {NoWork}]
        /\ \A w \in Workers : pc[w] = "idle" <=> work[w] = NoWork
    BY DEF TypeOK
  <1>1. ASSUME NEW w \in Workers, NEW t \in Tasks, TryClaimTask(w, t)
        PROVE  UNCHANGED saves /\ \A u \in Tasks : row'[u] = row[u] \/ (row[u].status \in Claimable
                                                    /\ row'[u].status = "processing")
    BY <1>1, <1>t DEF TryClaimTask
  <1>2. ASSUME NEW c \in Callers, NEW t \in Tasks, NEW target \in Row,
               saves' = [saves EXCEPT ![c] = Pending(t, target)], Exists(t),
               target.status \in Terminal \cup {"retrying"},
               row[t].status \in Terminal => target.status \in Terminal
        PROVE  \A d \in Callers : Reads(d)
    <2>1. Pending(t, target) # NoSave
      BY PendingIsSave, ConstantsAssumption
    <2> QED
      BY <1>t, <1>2, <2>1, PendingIsSave DEF Reads
  <1>3. ASSUME NEW w \in Workers, CompleteTaskRead(w) PROVE UNCHANGED row /\ \A d \in Callers : Reads(d)
    <2> DEFINE t == work[w].task
    <2>1. t \in Tasks /\ w \in Callers
      BY <1>3, <1>t DEF CompleteTaskRead, Work, Callers
    <2>2. UNCHANGED row /\ (UNCHANGED saves \/ (row[t].status = "processing"
              /\ saves' = [saves EXCEPT ![w] = Pending(t, Released(t, "success"))]))
      BY <1>3 DEF CompleteTaskRead
    <2>3. Released(t, "success") \in Row /\ Released(t, "success").status = "success"
      BY <1>t, <2>1 DEF Released, Row, Statuses, Terminal, Unlocked
    <2> HIDE DEF t
    <2>4. CASE UNCHANGED saves
      BY <2>2, <2>4 DEF Reads
    <2>5. CASE row[t].status = "processing"
               /\ saves' = [saves EXCEPT ![w] = Pending(t, Released(t, "success"))]
      BY <1>2, <2>1, <2>2, <2>3, <2>5 DEF Terminal, Exists
    <2> QED
      BY <2>2, <2>4, <2>5
  <1>4. ASSUME NEW w \in Workers, NEW b \in BOOLEAN, FailTaskRead(w, b)
        PROVE  UNCHANGED row /\ \A d \in Callers : Reads(d)
    <2> DEFINE t == work[w].task
               outcome == IF ~b /\ row[t].attempt < MaxAttempt THEN "retrying" ELSE "failed"
    <2>1. t \in Tasks /\ w \in Callers
      BY <1>4, <1>t DEF FailTaskRead, Work, Callers
    <2>2. UNCHANGED row /\ (UNCHANGED saves \/ (row[t].status = "processing"
              /\ saves' = [saves EXCEPT ![w] = Pending(t, Released(t, outcome))]))
      BY <1>4 DEF FailTaskRead
    <2>3. Released(t, outcome) \in Row /\ Released(t, outcome).status = outcome
          /\ outcome \in {"retrying", "failed"}
      BY <1>t, <2>1 DEF Released, Row, Statuses, Terminal, Claimable, Unlocked
    <2> HIDE DEF t, outcome
    <2>4. CASE UNCHANGED saves
      BY <2>2, <2>4 DEF Reads
    <2>5. CASE row[t].status = "processing"
               /\ saves' = [saves EXCEPT ![w] = Pending(t, Released(t, outcome))]
      BY <1>2, <2>1, <2>2, <2>3, <2>5 DEF Terminal, Exists
    <2> QED
      BY <2>2, <2>4, <2>5
  <1>5. ASSUME NEW a \in Admins, NEW t \in Tasks, CancelTaskRead(a, t) \/ SkipTaskRead(a, t)
        PROVE  UNCHANGED row /\ \A d \in Callers : Reads(d)
    <2>1. PICK outcome \in {"cancelled", "skipped"} :
              saves' = [saves EXCEPT ![a] = Pending(t, [row[t] EXCEPT !.status = outcome])]
      BY <1>5 DEF CancelTaskRead, SkipTaskRead
    <2>2. /\ [row[t] EXCEPT !.status = outcome] \in Row
          /\ [row[t] EXCEPT !.status = outcome].status = outcome
      BY <1>t DEF Row, Statuses, Terminal
    <2>3. UNCHANGED row /\ Exists(t) /\ a \in Callers
      BY <1>5 DEF CancelTaskRead, SkipTaskRead, Exists, Claimable, Callers
    <2> QED
      BY <1>2, <2>1, <2>2, <2>3 DEF Terminal
  <1>6. ASSUME NEW w \in Workers, ExecutionFails(w) \/ WorkerStops(w)
        PROVE  UNCHANGED row /\ \A d \in Callers : Reads(d)
    BY <1>6, <1>t DEF ExecutionFails, WorkerStops, Reads
  <1>7. ASSUME RecoveryScan \/ RecoveryAborts \/ \E t \in Tasks : LeaseExpires(t)
        PROVE  UNCHANGED <<row, saves>>
    BY <1>7, ScanFinds DEF RecoveryAborts, LeaseExpires
  <1>8. UNCHANGED saves => \A d \in Callers : Reads(d)
    BY DEF Reads
  <1> QED
    BY <1>1, <1>3, <1>4, <1>5, <1>6, <1>7, <1>8 DEF Calm

\* What the proofs of the steps use of the invariant.
LEMMA RetentionFacts ==
    ASSUME RetentionInv
    PROVE  /\ TypeOK /\ row \in [Tasks -> Row] /\ saves \in [Callers -> Save \cup {NoSave}]
           /\ finishedAt \in [Tasks -> {"null", "recent", "old"}]
           /\ key \in [Tasks -> Keys \cup {NoKey}] /\ creator \in [Creators -> Creator]
           /\ cleanup.rows \subseteq Tasks /\ retried \subseteq Tasks /\ deleted \subseteq Tasks
           /\ cleanup \in Cleanup
  BY DEF RetentionInv, RetentionTypeOK, TypeOK, Cleanup

\* A step after which the rows are the same rows, and finished ones are settled.
LEMMA RowsGoOn ==
    ASSUME RetentionInv, TypeOK', SavesOfRows', UNCHANGED <<key, creator, cleanup>>,
           \A t \in Tasks : Exists(t)' <=> Exists(t),
           finishedAt' \in [Tasks -> {"null", "recent", "old"}],
           retried' \subseteq Tasks, \A t \in retried' : Exists(t),
           deleted' \subseteq deleted,
           \A t \in Tasks : finishedAt'[t] = "old" /\ row'[t].status \in Terminal => Settled(t)',
           \A t \in cleanup.rows : Settled(t)' \/ t \in retried'
    PROVE  RetentionInv'
  <1>1. KeyInv'
    <2>1. \A c \in Creators : creator[c].task # NoTask => creator[c].task \in Tasks
      BY RetentionFacts DEF Creator
    <2>2. \A t, u \in Tasks : Exists(t)' /\ Exists(u)' /\ key[t] = key[u] /\ key[t] # NoKey => t = u
      BY DEF RetentionInv, KeyInv
    <2>3. \A c \in Creators :
              creator[c].key # NoKey /\ creator[c].task # NoTask
              => Exists(creator[c].task)' /\ key[creator[c].task] = creator[c].key
      <3> SUFFICES ASSUME NEW c \in Creators, creator[c].key # NoKey, creator[c].task # NoTask
                   PROVE  Exists(creator[c].task)' /\ key[creator[c].task] = creator[c].key
        OBVIOUS
      <3>1. \A t \in Tasks : t = creator[c].task => Exists(t)'
        BY DEF RetentionInv, KeyInv
      <3>2. key[creator[c].task] = creator[c].key
        BY DEF RetentionInv, KeyInv
      <3> QED
        BY <2>1, <3>1, <3>2 DEF Exists
    <2> QED
      BY <2>2, <2>3 DEF KeyInv, Exists
  <1>2. CleanupInv'
    BY RetentionFacts DEF CleanupInv
  <1>3. RetentionTypeOK'
    <2>1. \A t \in deleted' : Exists(t)'
      BY RetentionFacts DEF RetentionInv, RetentionTypeOK
    <2> QED
      BY <2>1, RetentionFacts DEF RetentionTypeOK
  <1> QED
    BY <1>1, <1>2, <1>3 DEF RetentionInv

LEMMA CalmKeeps ==
    ASSUME RetentionInv, TypeOK', Calm, UNCHANGED retention
    PROVE  RetentionInv'
  <1>1. /\ \A c \in Callers : Reads(c)
        /\ \A t \in Tasks : row'[t] = row[t] \/ (row[t].status \in Claimable
                                                 /\ row'[t].status = "processing")
    BY CalmReads, RetentionFacts
  <1>2. \A t \in Tasks : Exists(t)' <=> Exists(t)
    BY <1>1 DEF Exists, Claimable
  <1>3. \A c \in Callers : saves[c] # NoSave => saves[c].task \in Tasks
    BY RetentionFacts DEF Save
  <1>4. SavesOfRows'
    <2> SUFFICES ASSUME NEW c \in Callers, saves'[c] # NoSave
                 PROVE  /\ saves'[c].target.status \in Terminal \cup {"retrying"}
                        /\ row'[saves'[c].task].status # "absent"
      BY DEF SavesOfRows, Exists
    <2>1. Reads(c)
      BY <1>1
    <2>2. /\ saves'[c].target.status \in Terminal \cup {"retrying"}
          /\ saves'[c].task \in Tasks /\ Exists(saves'[c].task)
      BY <1>3, <2>1 DEF Reads, RetentionInv, SavesOfRows
    <2> QED
      BY <1>2, <2>2 DEF Exists
  <1>5. ASSUME NEW t \in Tasks, Settled(t) PROVE Settled(t)'
    <2>1. row'[t] = row[t] /\ row[t].status \in Terminal
      BY <1>1, <1>5 DEF Settled, Claimable, Terminal
    <2>2. ASSUME NEW c \in Callers, saves'[c] # NoSave, saves'[c].task = t
          PROVE  saves'[c].target.status \in Terminal
      <3>1. Reads(c)
        BY <1>1
      <3> QED
        BY <1>5, <2>1, <2>2, <3>1 DEF Reads, Settled
    <2> QED
      BY <2>1, <2>2 DEF Settled
  <1>6. UNCHANGED <<deleted, finishedAt, key, creator, cleanup, retried>>
    BY DEF retention
  <1>7. \A t \in Tasks : finishedAt'[t] = "old" /\ row'[t].status \in Terminal => Settled(t)'
    <2> SUFFICES ASSUME NEW t \in Tasks, finishedAt'[t] = "old", row'[t].status \in Terminal
                 PROVE  Settled(t)'
      OBVIOUS
    <2>1. row'[t] = row[t]
      BY <1>1 DEF Terminal
    <2>2. Settled(t)
      BY <1>6, <2>1 DEF RetentionInv, CleanupInv
    <2> QED
      BY <1>5, <2>2
  <1>8. \A t \in cleanup.rows : Settled(t)' \/ t \in retried'
    BY <1>5, <1>6, RetentionFacts DEF RetentionInv, CleanupInv
  <1>9. retried' \subseteq Tasks /\ \A t \in retried' : Exists(t)
    BY <1>6, RetentionFacts DEF RetentionInv, CleanupInv
  <1> QED
    BY <1>2, <1>4, <1>6, <1>7, <1>8, <1>9, RowsGoOn, RetentionFacts

\* An UPDATE that follows its own re-read writes the whole entity.
LEMMA AtomicSave ==
  ASSUME ~SplitSave, TypeOK, NEW c \in Callers, SaveUpdates(c)
  PROVE  /\ saves[c] # NoSave /\ saves[c] \in Save /\ saves[c].task \in Tasks
         /\ saves[c].target \in Row
         /\ row' = [row EXCEPT ![saves[c].task] = saves[c].target]
         /\ saves' = [saves EXCEPT ![c] = NoSave]
<1>1. /\ saves[c] # NoSave /\ saves[c] \in Save /\ saves[c].task \in Tasks
      /\ saves[c].target \in Row /\ row[saves[c].task] \in Row
  BY DEF TypeOK, SaveUpdates, Save
<1>2. Merged(saves[c].target, row[saves[c].task], row[saves[c].task]) = saves[c].target
  BY <1>1 DEF Merged, Column, Row
<1>. QED
  BY <1>1, <1>2 DEF SaveUpdates

LEMMA SavesKeeps ==
    ASSUME RetentionInv, TypeOK', NEW c \in Callers, Saves(c)
    PROVE  RetentionInv'
  <1> DEFINE t == saves[c].task
  <1>1. /\ saves[c] # NoSave /\ t \in Tasks
        /\ row' = [row EXCEPT ![t] = saves[c].target]
        /\ saves' = [saves EXCEPT ![c] = NoSave]
    BY AtomicSave, RetentionFacts, RetentionAssumption DEF Saves
  <1>2. /\ finishedAt' = [finishedAt EXCEPT ![t] = "recent"] /\ deleted' \subseteq deleted
        /\ UNCHANGED <<key, creator, cleanup, retried>>
    BY DEF Saves, Dated
  <1>3. saves[c].target.status \in Terminal \cup {"retrying"} /\ Exists(t)
    BY <1>1 DEF RetentionInv, SavesOfRows
  <1> HIDE DEF t
  <1>4. /\ row'[t] = saves[c].target /\ \A u \in Tasks \ {t} : row'[u] = row[u]
        /\ \A d \in Callers : saves'[d] # NoSave => d # c /\ saves'[d] = saves[d]
    BY <1>1, RetentionFacts
  <1>5. \A u \in Tasks : Exists(u)' <=> Exists(u)
    BY <1>3, <1>4 DEF Exists, Terminal
  <1>6. SavesOfRows'
    <2>1. \A d \in Callers : saves[d] # NoSave => saves[d].task \in Tasks
      BY RetentionFacts DEF Save
    <2> QED
      BY <1>4, <1>5, <2>1 DEF RetentionInv, SavesOfRows, Exists
  <1>7. ASSUME NEW u \in Tasks, Settled(u) PROVE Settled(u)'
    <2>1. row'[u].status \in Terminal
      BY <1>1, <1>4, <1>7 DEF Settled, t
    <2> QED
      BY <1>4, <1>7, <2>1 DEF Settled
  <1>8. \A u \in Tasks : finishedAt'[u] = "old" /\ row'[u].status \in Terminal => Settled(u)'
    <2> SUFFICES ASSUME NEW u \in Tasks, finishedAt'[u] = "old", row'[u].status \in Terminal
                 PROVE  Settled(u)'
      OBVIOUS
    <2>1. u # t /\ finishedAt[u] = "old"
      BY <1>1, <1>2, RetentionFacts
    <2>2. Settled(u)
      BY <1>4, <2>1 DEF RetentionInv, CleanupInv
    <2> QED
      BY <1>7, <2>2
  <1>9. finishedAt' \in [Tasks -> {"null", "recent", "old"}]
    BY <1>2, RetentionFacts
  <1>10. \A u \in cleanup.rows : Settled(u)' \/ u \in retried'
    BY <1>2, <1>7, RetentionFacts DEF RetentionInv, CleanupInv
  <1>11. retried' \subseteq Tasks /\ \A u \in retried' : Exists(u)
    BY <1>2, RetentionFacts DEF RetentionInv, CleanupInv
  <1> QED
    BY <1>2, <1>5, <1>6, <1>8, <1>9, <1>10, <1>11, RowsGoOn

LEMMA RecoversKeeps ==
    ASSUME RetentionInv, TypeOK', NEW s \in scan, Recovers(s)
    PROVE  RetentionInv'
  <1>1. /\ s.task \in Tasks /\ UNCHANGED <<saves, deleted, key, creator, cleanup, retried>>
        /\ finishedAt' = IF SameClaim(s) /\ row'[s.task].status = "failed"
                         THEN [finishedAt EXCEPT ![s.task] = "recent"] ELSE finishedAt
    BY RetentionFacts DEF Recovers, RecoverStaleTask, TypeOK, Scan, Dated
  <1>2. \/ UNCHANGED row
        \/ /\ row[s.task].status = "processing" /\ row'[s.task].status \in {"retrying", "failed"}
           /\ SameClaim(s)
           /\ \A u \in Tasks \ {s.task} : row'[u] = row[u]
    <2>1. CASE SameClaim(s)
      <3> DEFINE next == IF s.attempt < MaxAttempt THEN "retrying" ELSE "failed"
      <3>1. row' = [row EXCEPT ![s.task].status = next, ![s.task].lockedAt = Unlocked]
        BY <2>1 DEF Recovers, RecoverStaleTask
      <3>2. next \in {"retrying", "failed"}
        OBVIOUS
      <3> HIDE DEF next
      <3>3. row[s.task] \in Row
        BY <1>1, RetentionFacts
      <3>4. row'[s.task].status = next /\ \A u \in Tasks \ {s.task} : row'[u] = row[u]
        BY <1>1, <3>1, <3>3, RetentionFacts DEF Row
      <3> QED
        BY <2>1, <3>2, <3>4 DEF SameClaim
    <2>2. CASE ~SameClaim(s)
      BY <2>2 DEF Recovers, RecoverStaleTask
    <2> QED
      BY <2>1, <2>2
  <1>3. \A u \in Tasks : Exists(u)' <=> Exists(u)
    BY <1>2 DEF Exists
  <1>4. \A u \in Tasks : Settled(u) => Settled(u)'
    BY <1>1, <1>2 DEF Settled, Terminal
  <1>5. SavesOfRows'
    <2>1. \A d \in Callers : saves[d] # NoSave => saves[d].task \in Tasks
      BY RetentionFacts DEF Save
    <2> QED
      BY <1>1, <1>3, <2>1 DEF RetentionInv, SavesOfRows, Exists
  <1>6. \A u \in Tasks : finishedAt'[u] = "old" /\ row'[u].status \in Terminal => Settled(u)'
    <2> SUFFICES ASSUME NEW u \in Tasks, finishedAt'[u] = "old", row'[u].status \in Terminal
                 PROVE  Settled(u)'
      OBVIOUS
    <2>1. finishedAt[u] = "old" /\ row[u].status \in Terminal
      BY <1>1, <1>2, RetentionFacts DEF Terminal
    <2> QED
      BY <1>4, <2>1 DEF RetentionInv, CleanupInv
  <1>7. finishedAt' \in [Tasks -> {"null", "recent", "old"}]
    BY <1>1, RetentionFacts
  <1>8. \A u \in cleanup.rows : Settled(u)' \/ u \in retried'
    BY <1>1, <1>4, RetentionFacts DEF RetentionInv, CleanupInv
  <1>9. retried' \subseteq Tasks /\ (\A u \in retried' : Exists(u)) /\ deleted' \subseteq deleted
    BY <1>1, RetentionFacts DEF RetentionInv, CleanupInv
  <1> QED
    BY <1>1, <1>3, <1>5, <1>6, <1>7, <1>8, <1>9, RowsGoOn

LEMMA RetriesKeeps ==
    ASSUME RetentionInv, TypeOK', NEW t \in Tasks, Retries(t)
    PROVE  RetentionInv'
  <1>1. /\ row[t].status = "failed" /\ row'[t].status = "pending"
        /\ \A u \in Tasks \ {t} : row'[u] = row[u]
        /\ finishedAt' = [finishedAt EXCEPT ![t] = "null"] /\ retried' = retried \cup {t}
        /\ UNCHANGED <<saves, deleted, key, creator, cleanup>>
    BY RetentionFacts DEF Retries, RetryTask
  <1>2. \A u \in Tasks : Exists(u)' <=> Exists(u)
    BY <1>1 DEF Exists
  <1>3. \A u \in Tasks \ {t} : Settled(u) => Settled(u)'
    BY <1>1 DEF Settled
  <1>4. SavesOfRows'
    <2>1. \A d \in Callers : saves[d] # NoSave => saves[d].task \in Tasks
      BY RetentionFacts DEF Save
    <2> QED
      BY <1>1, <1>2, <2>1 DEF RetentionInv, SavesOfRows, Exists
  <1>5. \A u \in Tasks : finishedAt'[u] = "old" /\ row'[u].status \in Terminal => Settled(u)'
    BY <1>1, <1>3, RetentionFacts DEF RetentionInv, CleanupInv
  <1>6. finishedAt' \in [Tasks -> {"null", "recent", "old"}]
    BY <1>1, RetentionFacts
  <1>7. \A u \in cleanup.rows : Settled(u)' \/ u \in retried'
    BY <1>1, <1>3, RetentionFacts DEF RetentionInv, CleanupInv
  <1>8. retried' \subseteq Tasks /\ (\A u \in retried' : Exists(u)) /\ deleted' \subseteq deleted
    BY <1>1, RetentionFacts DEF RetentionInv, CleanupInv, Exists
  <1> QED
    BY <1>1, <1>2, <1>4, <1>5, <1>6, <1>7, <1>8, RowsGoOn

LEMMA InsertsKeeps ==
    ASSUME RetentionInv, TypeOK', NEW c \in Creators, NEW t \in Tasks, CreateInserts(c, t)
    PROVE  RetentionInv'
  <1> DEFINE k == creator[c].key
  <1>1. /\ ~Exists(t) /\ row'[t].status = "pending" /\ \A u \in Tasks \ {t} : row'[u] = row[u]
        /\ UNCHANGED <<saves, deleted, finishedAt, cleanup, retried>>
        /\ k \in Keys \cup {NoKey} /\ (k = NoKey \/ Holder(k) = {})
        /\ key' = [key EXCEPT ![t] = k]
        /\ creator' = [creator EXCEPT ![c] = [step |-> "done", key |-> k, task |-> t]]
    BY RetentionFacts DEF CreateInserts, CreateTask, CreatorGoes, Creator
  <1> HIDE DEF k
  <1>2. \A u \in Tasks : Exists(u)' <=> Exists(u) \/ u = t
    BY <1>1 DEF Exists
  <1>3. /\ key' \in [Tasks -> Keys \cup {NoKey}] /\ key'[t] = k
        /\ \A u \in Tasks \ {t} : key'[u] = key[u]
    BY <1>1, RetentionFacts
  <1>4. creator' \in [Creators -> Creator]
    BY <1>1, RetentionFacts DEF Creator
  <1>5. KeyInv'
    <2>1. \A u, v \in Tasks :
              Exists(u)' /\ Exists(v)' /\ key'[u] = key'[v] /\ key'[u] # NoKey => u = v
      BY <1>1, <1>2, <1>3 DEF RetentionInv, KeyInv, Holder
    <2>2. \A d \in Creators :
              creator'[d].key # NoKey /\ creator'[d].task # NoTask
              => row'[creator'[d].task].status # "absent" /\ key'[creator'[d].task] = creator'[d].key
      <3> SUFFICES ASSUME NEW d \in Creators, creator'[d].key # NoKey, creator'[d].task # NoTask
                   PROVE  row'[creator'[d].task].status # "absent"
                          /\ key'[creator'[d].task] = creator'[d].key
        OBVIOUS
      <3>1. CASE d = c
        <4>1. creator'[d].task = t /\ creator'[d].key = k
          BY <1>1, <3>1, RetentionFacts
        <4> QED
          BY <1>1, <1>3, <4>1
      <3>2. CASE d # c
        <4>1. creator'[d] = creator[d] /\ creator[d].task \in Tasks
          BY <1>1, <3>2, RetentionFacts DEF Creator
        <4>2. Exists(creator[d].task) /\ key[creator[d].task] = creator[d].key
          BY <4>1 DEF RetentionInv, KeyInv
        <4> QED
          BY <1>1, <1>3, <4>1, <4>2 DEF Exists
      <3> QED
        BY <3>1, <3>2
    <2> QED
      BY <2>1, <2>2 DEF KeyInv, Exists
  <1>6. SavesOfRows'
    <2>1. \A d \in Callers : saves[d] # NoSave => saves[d].task \in Tasks
      BY RetentionFacts DEF Save
    <2> QED
      BY <1>1, <1>2, <2>1 DEF RetentionInv, SavesOfRows, Exists
  <1>7. CleanupInv'
    <2>1. \A u \in Tasks \ {t} : Settled(u) => Settled(u)'
      BY <1>1 DEF Settled
    <2>2. ~Settled(t) /\ t \notin retried
      BY <1>1 DEF Settled, Exists, Terminal, RetentionInv, CleanupInv
    <2> QED
      BY <1>1, <2>1, <2>2, RetentionFacts DEF RetentionInv, CleanupInv, Exists, Terminal
  <1>8. RetentionTypeOK'
    BY <1>1, <1>2, <1>3, <1>4, RetentionFacts DEF RetentionInv, RetentionTypeOK, Exists
  <1> QED
    BY <1>5, <1>6, <1>7, <1>8 DEF RetentionInv

\* A step that leaves the rows as they are.
LEMMA BesideKeeps ==
    ASSUME RetentionInv, TypeOK', UNCHANGED vars,
           \/ \E c \in Creators : \/ \E k \in Keys \cup {NoKey} : CreateLooks(c, k)
                                  \/ CreateConflicts(c) \/ CreateResolves(c)
           \/ CleanupStep
           \/ \E t \in Tasks : Ages(t)
           \/ UNCHANGED retention
    PROVE  RetentionInv'
  <1>0. UNCHANGED <<row, saves, scan>>
    BY DEF vars
  <1>1. /\ SavesOfRows' /\ \A t \in Tasks : (Settled(t)' <=> Settled(t)) /\ (Exists(t)' <=> Exists(t))
    BY <1>0 DEF RetentionInv, SavesOfRows, Settled, Exists
  <1>2. ASSUME NEW c \in Creators, NEW k \in Keys \cup {NoKey}, NEW t \in Tasks \cup {NoTask},
               NEW step \in {"insert", "conflict", "done"}, CreatorGoes(c, step, k, t),
               k # NoKey /\ t # NoTask => Exists(t) /\ key[t] = k,
               UNCHANGED <<deleted, finishedAt, key, cleanup, retried>>
        PROVE  RetentionInv'
    <2>1. /\ creator' \in [Creators -> Creator] /\ creator'[c].key = k /\ creator'[c].task = t
          /\ \A d \in Creators \ {c} : creator'[d] = creator[d]
      BY <1>2, RetentionFacts DEF CreatorGoes, Creator
    <2>2. KeyInv'
      BY <1>0, <1>2, <2>1 DEF RetentionInv, KeyInv, Exists
    <2>3. CleanupInv'
      BY <1>0, <1>1, <1>2, RetentionFacts DEF RetentionInv, CleanupInv, Exists
    <2>4. RetentionTypeOK'
      BY <1>0, <1>2, <2>1, RetentionFacts DEF RetentionInv, RetentionTypeOK, Exists
    <2> QED
      BY <1>1, <2>2, <2>3, <2>4 DEF RetentionInv
  <1>3. ASSUME NEW c \in Creators, NEW k \in Keys \cup {NoKey}, CreateLooks(c, k)
        PROVE  RetentionInv'
    <2>1. CASE CreatorGoes(c, "insert", k, NoTask)
      BY <1>2, <1>3, <2>1 DEF CreateLooks
    <2>2. ASSUME NEW t \in Holder(k), CreatorGoes(c, "done", k, t) PROVE RetentionInv'
      BY <1>2, <1>3, <2>2 DEF CreateLooks, Holder
    <2> QED
      BY <1>3, <2>1, <2>2 DEF CreateLooks
  <1>4. ASSUME NEW c \in Creators, CreateConflicts(c) \/ CreateResolves(c) PROVE RetentionInv'
    <2>1. creator[c].key \in Keys \cup {NoKey}
      BY RetentionFacts DEF Creator
    <2>2. CASE CreateConflicts(c)
      BY <1>2, <2>1, <2>2 DEF CreateConflicts
    <2>3. CASE CreateResolves(c)
      <3> PICK t \in Holder(creator[c].key) :
              CreatorGoes(c, "done", creator[c].key, IF Visible(t) THEN t ELSE NoTask)
        BY <2>3 DEF CreateResolves
      <3>1. t \in Tasks /\ Exists(t) /\ key[t] = creator[c].key
        BY DEF Holder
      <3>2. UNCHANGED <<deleted, finishedAt, key, cleanup, retried>>
        BY <2>3 DEF CreateResolves
      <3>3. CASE Visible(t)
        BY <1>2, <2>1, <3>1, <3>2, <3>3
      <3>4. CASE ~Visible(t)
        BY <1>2, <2>1, <3>2, <3>4
      <3> QED
        BY <3>3, <3>4
    <2> QED
      BY <1>4, <2>2, <2>3
  <1>5. ASSUME UNCHANGED <<key, creator>>, finishedAt' \in [Tasks -> {"null", "recent", "old"}],
               cleanup' \in Cleanup, retried' \subseteq retried, deleted' \subseteq deleted \cup cleanup.rows,
               \A t \in Tasks : finishedAt'[t] = "old" /\ row[t].status \in Terminal => Settled(t),
               \A t \in cleanup'.rows : Settled(t) \/ t \in retried'
        PROVE  RetentionInv'
    <2>1. KeyInv'
      BY <1>0, <1>5 DEF RetentionInv, KeyInv, Exists
    <2>2. CleanupInv'
      <3>1. cleanup'.rows \subseteq Tasks
        BY <1>5 DEF Cleanup
      <3> QED
        BY <1>0, <1>1, <1>5, <3>1, RetentionFacts DEF RetentionInv, CleanupInv
    <2>3. \A t \in deleted' : Exists(t)
      <3>1. \A t \in cleanup.rows : Exists(t)
        BY RetentionFacts DEF RetentionInv, CleanupInv, Settled, Exists, Terminal
      <3> QED
        BY <1>5, <3>1 DEF RetentionInv, RetentionTypeOK
    <2>4. RetentionTypeOK'
      <3>1. deleted' \subseteq Tasks /\ retried' \subseteq Tasks
        BY <1>5, RetentionFacts
      <3>2. \A t \in deleted' : Exists(t)'
        BY <1>1, <2>3, <3>1
      <3> QED
        BY <1>5, <3>1, <3>2, RetentionFacts DEF RetentionTypeOK
    <2> QED
      BY <1>1, <2>1, <2>2, <2>4 DEF RetentionInv
  <1>6. \A t \in Tasks : finishedAt[t] = "old" /\ row[t].status \in Terminal => Settled(t)
    BY DEF RetentionInv, CleanupInv
  <1>7. \A t \in cleanup.rows : Settled(t) \/ t \in retried
    BY DEF RetentionInv, CleanupInv
  <1>8. ASSUME NEW t \in Tasks, Ages(t) PROVE RetentionInv'
    <2>1. /\ finishedAt' = [finishedAt EXCEPT ![t] = "old"] /\ retried' = retried \ {t}
          /\ t \notin cleanup.rows /\ UNCHANGED <<key, creator, cleanup, deleted>>
          /\ \A c \in Callers : saves[c] # NoSave => saves[c].task # t
      BY <1>8 DEF Ages
    <2>2. finishedAt' \in [Tasks -> {"null", "recent", "old"}]
      BY <2>1, RetentionFacts
    <2>3. \A u \in Tasks : finishedAt'[u] = "old" /\ row[u].status \in Terminal => Settled(u)
      <3>1. \A u \in Tasks \ {t} : finishedAt'[u] = finishedAt[u]
        BY <2>1, RetentionFacts
      <3>2. row[t].status \in Terminal => Settled(t)
        BY <2>1 DEF Settled
      <3> QED
        BY <1>6, <3>1, <3>2
    <2> QED
      BY <1>5, <1>7, <2>1, <2>2, <2>3, RetentionFacts
  <1>9. CASE CleanupStep
    <2>0. Idle \in Cleanup /\ Idle.rows = {}
      BY DEF Idle, Cleanup
    <2>1. CASE SelectsSuccessful
      <3>1. PICK s \in Taken({t \in Tasks : /\ Visible(t)
                                            /\ finishedAt[t] = "old"
                                            /\ row[t].status = "success"}, Limit) :
                     cleanup' = [step |-> "others", rows |-> s]
        BY <2>1 DEF SelectsSuccessful
      <3>2. s \subseteq Tasks /\ \A t \in s : Settled(t)
        BY <1>6 DEF Taken, Terminal
      <3>3. cleanup' \in Cleanup /\ cleanup'.rows = s
        BY <3>1, <3>2 DEF Cleanup
      <3> QED
        BY <1>5, <1>6, <2>1, <3>2, <3>3, RetentionFacts DEF SelectsSuccessful
    <2>2. CASE SelectsOthers
      <3>1. PICK s \in Taken({t \in Tasks : Other(t)}, Limit - Cardinality(cleanup.rows)) :
                     cleanup' = [step |-> "delete", rows |-> cleanup.rows \cup s]
        BY <2>2 DEF SelectsOthers
      <3>2. s \subseteq Tasks /\ \A t \in s : Settled(t)
        BY <1>6 DEF Taken, Other
      <3>3. cleanup' \in Cleanup /\ cleanup'.rows = cleanup.rows \cup s
        BY <3>1, <3>2, RetentionFacts DEF Cleanup
      <3> QED
        BY <1>5, <1>6, <1>7, <2>2, <3>2, <3>3, RetentionFacts DEF SelectsOthers
    <2>3. CASE SoftDeletes \/ CleanupStops
      BY <1>5, <1>6, <2>0, <2>3, RetentionFacts DEF SoftDeletes, CleanupStops
    <2> QED
      BY <1>9, <2>1, <2>2, <2>3 DEF CleanupStep
  <1>10. CASE UNCHANGED retention
    BY <1>5, <1>6, <1>7, <1>10, RetentionFacts DEF retention
  <1> QED
    BY <1>3, <1>4, <1>8, <1>9, <1>10

(***************************************************************************)
(* The theorems.                                                           *)
(***************************************************************************)
LEMMA RetentionStart == RetentionInit => RetentionInv
  <1> SUFFICES ASSUME RetentionInit PROVE RetentionInv
    OBVIOUS
  <1>1. TypeOK
    BY TypeInit DEF RetentionInit
  <1>2. RetentionTypeOK
    BY <1>1 DEF RetentionInit, RetentionTypeOK, Creator, Cleanup, Idle
  <1>3. SavesOfRows /\ KeyInv /\ CleanupInv
    BY DEF RetentionInit, Init, SavesOfRows, KeyInv, CleanupInv, Idle
  <1> QED
    BY <1>2, <1>3 DEF RetentionInv

LEMMA RetentionKept ==
    ASSUME RetentionInv, [RetentionNext]_allVars
    PROVE  RetentionInv'
  <1>0. TypeOK'
    BY RetentionStep, TypeStep, RetentionFacts
  <1>1. ASSUME NEW c \in Creators, CreatorStep(c) PROVE RetentionInv'
    <2>1. CASE \E k \in Keys \cup {NoKey} : CreateLooks(c, k)
      BY <1>0, <2>1, BesideKeeps DEF CreateLooks
    <2>2. CASE CreateConflicts(c) \/ CreateResolves(c)
      BY <1>0, <2>2, BesideKeeps DEF CreateConflicts, CreateResolves
    <2> QED
      BY <1>0, <1>1, <2>1, <2>2, InsertsKeeps DEF CreatorStep
  <1>2. ASSUME NEW w \in Workers, HandlerStep(w) PROVE RetentionInv'
    <2>1. Calm /\ UNCHANGED retention
      BY <1>2 DEF HandlerStep, Claims, Completes, CompletesNothing, Fails, FailsNothing, Breaks, Calm
    <2> QED
      BY <1>0, <2>1, CalmKeeps
  <1>3. CASE OperatorStep
    <2>1. ASSUME NEW a \in Admins, NEW t \in Tasks, Cancels(a, t) \/ Skips(a, t)
          PROVE  RetentionInv'
      <3>1. Calm /\ UNCHANGED retention
        BY <2>1 DEF Cancels, Skips, Calm
      <3> QED
        BY <1>0, <3>1, CalmKeeps
    <2> QED
      BY <1>0, <1>3, <2>1, RetriesKeeps DEF OperatorStep
  <1>4. CASE SweepStep
    <2>1. CASE RecoveryFinds \/ RecoveryStops
      <3>1. RecoveryFinds => RecoveryScan
        BY DEF RecoveryFinds, RecoveryScan
      <3>2. Calm /\ UNCHANGED retention
        BY <2>1, <3>1 DEF RecoveryFinds, RecoveryStops, Calm
      <3> QED
        BY <1>0, <3>2, CalmKeeps
    <2> QED
      BY <1>0, <1>4, <2>1, RecoversKeeps DEF SweepStep
  <1>5. CASE CleanupStep
    <2>1. UNCHANGED vars
      BY <1>5 DEF CleanupStep, SelectsSuccessful, SelectsOthers, SoftDeletes, CleanupStops
    <2> QED
      BY <1>0, <1>5, <2>1, BesideKeeps
  <1>6. ASSUME NEW t \in Tasks, Expires(t) \/ Ages(t) PROVE RetentionInv'
    <2>1. CASE Expires(t)
      <3>1. Calm /\ UNCHANGED retention
        BY <2>1 DEF Expires, Calm
      <3> QED
        BY <1>0, <3>1, CalmKeeps
    <2>2. CASE Ages(t)
      BY <1>0, <2>2, BesideKeeps DEF Ages
    <2> QED
      BY <1>6, <2>1, <2>2
  <1>7. CASE UNCHANGED allVars
    BY <1>0, <1>7, BesideKeeps DEF allVars
  <1> QED
    BY <1>0, <1>1, <1>2, <1>3, <1>4, <1>5, <1>6, <1>7, SavesKeeps DEF RetentionNext

\* Whatever creators, workers, administrators, sweeps and cleanups do, in any order, and wherever
\* a cleanup is cut short.
THEOREM RetentionInductive == RetentionSpec => []RetentionInv
  BY RetentionStart, RetentionKept, PTL DEF RetentionSpec

\* Types; only a row that is there is deleted.
THEOREM RetentionType == RetentionSpec => []RetentionTypeOK
  <1>1. RetentionInv => RetentionTypeOK
    BY DEF RetentionInv
  <1> QED
    BY <1>1, RetentionInductive, PTL

\* createTask: however many calls race for a dedupKey, and whatever has been cleaned up, all of
\* them that get a task get the same one.
THEOREM OneTaskPerKey == RetentionSpec => []SameKeySameTask
  <1>1. RetentionInv => SameKeySameTask
    <2> SUFFICES ASSUME RetentionInv, NEW c \in Creators, NEW d \in Creators,
                        creator[c].key # NoKey, creator[c].key = creator[d].key,
                        creator[c].task # NoTask, creator[d].task # NoTask
                 PROVE  creator[c].task = creator[d].task
      BY DEF SameKeySameTask
    <2>1. creator[c].task \in Tasks /\ creator[d].task \in Tasks
      BY RetentionFacts DEF Creator
    <2>2. /\ Exists(creator[c].task) /\ key[creator[c].task] = creator[c].key
          /\ Exists(creator[d].task) /\ key[creator[d].task] = creator[d].key
      BY DEF RetentionInv, KeyInv
    <2> QED
      BY <2>1, <2>2 DEF RetentionInv, KeyInv
  <1> QED
    BY <1>1, RetentionInductive, PTL

\* cleanupTerminalTasks: although softDelete looks at nothing but the uid, what it deletes has
\* finished, or has been retried since it was selected.
THEOREM CleanupSafe == RetentionSpec => CleanupTakesOnlyFinished
  <1> DEFINE OnlyFinished == \A t \in deleted' \ deleted : row[t].status \in Terminal \/ t \in retried
  <1>1. ASSUME RetentionInv, [RetentionNext]_allVars PROVE OnlyFinished
    <2>1. ASSUME NEW t \in deleted', t \notin deleted PROVE t \in cleanup.rows
      <3>1. CASE \E c \in Callers : Saves(c)
        BY <2>1, <3>1 DEF Saves
      <3>2. CASE CleanupStep
        BY <2>1, <3>2 DEF CleanupStep, SelectsSuccessful, SelectsOthers, SoftDeletes, CleanupStops
      <3>3. CASE UNCHANGED deleted
        BY <2>1, <3>3
      <3>4. ASSUME NEW c \in Creators, CreatorStep(c) PROVE UNCHANGED deleted
        BY <3>4 DEF CreatorStep, CreateLooks, CreateInserts, CreateConflicts, CreateResolves
      <3>5. ASSUME NEW w \in Workers, HandlerStep(w) PROVE UNCHANGED deleted
        BY <3>5 DEF HandlerStep, Claims, Completes, CompletesNothing, Fails, FailsNothing, Breaks,
                    retention
      <3>6. CASE OperatorStep \/ SweepStep
        BY <2>1, <3>6 DEF OperatorStep, Cancels, Skips, Retries, SweepStep, RecoveryFinds, Recovers,
                    RecoveryStops, retention
      <3>7. ASSUME NEW u \in Tasks, Expires(u) \/ Ages(u) PROVE UNCHANGED deleted
        BY <3>7 DEF Expires, Ages, retention
      <3>8. CASE UNCHANGED allVars
        BY <2>1, <3>8 DEF allVars, retention
      <3> QED
        BY <1>1, <3>1, <3>2, <3>3, <3>4, <3>5, <3>6, <3>7, <3>8 DEF RetentionNext
    <2> QED
      BY <1>1, <2>1 DEF RetentionInv, CleanupInv, Settled
  <1>2. OnlyFinished => [OnlyFinished]_allVars
    OBVIOUS
  <1> QED
    BY <1>1, <1>2, RetentionInductive, PTL DEF RetentionSpec, CleanupTakesOnlyFinished
===============================================================================
