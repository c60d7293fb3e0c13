--------------------------- MODULE TaskEngineProofs ---------------------------
(***************************************************************************)
(* Theorems about TaskEngine, for every set of tasks, workers and          *)
(* administrators and every MaxAttempt.                                    *)
(***************************************************************************)
EXTENDS TaskEngine, TLAPS

(***************************************************************************)
(* Type correctness.                                                       *)
(***************************************************************************)

LEMMA TypeInit == Init => TypeOK
  BY ConstantsAssumption
     DEF Init, TypeOK, Absent, Row, Statuses, Claimable, Terminal, Unlocked, Executing,
         Callers

\* What a save writes back is a row, and its stamp is one of the two it merges.
LEMMA MergedIsRow ==
  ASSUME NEW target \in Row, NEW base \in Row, NEW current \in Row
  PROVE  /\ Merged(target, base, current) \in Row
         /\ Merged(target, base, current).lockedAt \in {target.lockedAt, current.lockedAt}
  BY DEF Merged, Column, Row

\* Handing an entity to save() yields a well-formed pending save.
LEMMA PendingIsSave ==
  ASSUME NEW t \in Tasks, NEW target \in Row
  PROVE  /\ Pending(t, target) \in Save
         /\ Pending(t, target).task = t
         /\ Pending(t, target).target = target
  BY DEF Pending, Save

\* What a sweep has read is what it had read before and rows that are stale.
LEMMA ScanFinds ==
  ASSUME RecoveryScan
  PROVE  /\ \A s \in scan' : \/ s \in scan
                             \/ \E t \in Tasks : IsStale(t) /\ s = [task |-> t, attempt |-> row[t].attempt,
                                                                  lockedAt |-> row[t].lockedAt]
         /\ UNCHANGED <<row, claims, staleUpTo, pc, work, saves, succeeded>>
  BY DEF RecoveryScan, Scans

LEMMA TypeStep == TypeOK /\ [Next]_vars => TypeOK'
<1> SUFFICES ASSUME TypeOK, [Next]_vars PROVE TypeOK'
  OBVIOUS
<1> USE ConstantsAssumption DEF TypeOK, Executing
<1>1. ASSUME NEW t \in Tasks, CreateTask(t) PROVE TypeOK'
  BY <1>1 DEF CreateTask, Row, Statuses, Claimable
<1>2. ASSUME NEW w \in Workers, NEW t \in Tasks, TryClaimTask(w, t) PROVE TypeOK'
  <2> DEFINE r == [status |-> "processing", attempt |-> row[t].attempt + 1,
                   lockedAt |-> claims[t] + 1]
             k == [task |-> t, claim |-> claims[t] + 1]
  <2>1. row[t] \in Row /\ claims[t] \in Nat /\ claims[t] + 1 \in 0..MaxClaims
    BY <1>2 DEF TryClaimTask
  <2>2. r \in Row /\ k \in Work
    BY <2>1 DEF Row, Work, Statuses
  <2>3. k # NoWork
    BY <2>2
  <2> HIDE DEF r, k
  <2>4. /\ row' = [row EXCEPT ![t] = r]
        /\ work' = [work EXCEPT ![w] = k]
    BY <1>2 DEF TryClaimTask, r, k
  <2>5. k.task = t /\ r.lockedAt = claims[t] + 1
    BY DEF k, r
  <2>6. /\ row' \in [Tasks -> Row]
        /\ work' \in [Workers -> Work \cup {NoWork}]
    BY <2>2, <2>4
  <2>7. /\ claims' = [claims EXCEPT ![t] = claims[t] + 1]
        /\ claims' \in [Tasks -> 0..MaxClaims]
        /\ \A u \in Tasks : claims[u] <= claims'[u]
        /\ saves[w] = NoSave
        /\ pc' = [pc EXCEPT ![w] = "running"]
        /\ pc' \in [Workers -> {"idle", "running", "failing"}]
        /\ UNCHANGED <<staleUpTo, saves, scan, succeeded>>
    BY <1>2, <2>1 DEF TryClaimTask
  <2>8. \A u \in Tasks : row'[u].lockedAt <= claims'[u] /\ staleUpTo'[u] <= claims'[u]
    BY <2>1, <2>4, <2>5, <2>7
  <2>9. \A v \in Workers : /\ pc'[v] = "idle" <=> work'[v] = NoWork
                           /\ saves'[v] # NoSave => /\ work'[v] # NoWork
                                                    /\ work'[v].task = saves'[v].task
    <3> TAKE v \in Workers
    <3>1. CASE v = w
      BY <2>3, <2>4, <2>7, <3>1
    <3>2. CASE v # w
      <4>1. work'[v] = work[v] /\ pc'[v] = pc[v] /\ saves'[v] = saves[v]
        BY <2>4, <2>7, <3>2
      <4>. QED
        BY <4>1
    <3>. QED
      BY <3>1, <3>2
  <2>10. \A c \in Callers :
           saves'[c] # NoSave => saves'[c].target.lockedAt <= claims'[saves'[c].task]
    BY <2>7 DEF Save, Row
  <2>. QED
    BY <2>6, <2>7, <2>8, <2>9, <2>10
<1>3. ASSUME NEW w \in Workers, CompleteTaskRead(w) PROVE TypeOK'
  <2> DEFINE t == work[w].task
             e == Released(t, "success")
  <2>1. /\ work[w] \in Work /\ work[w] # NoWork /\ t \in Tasks /\ saves[w] = NoSave
        /\ w \in Callers
    BY <1>3 DEF CompleteTaskRead, Work, Callers
  <2>2. CASE saves' = saves
    BY <1>3, <2>1, <2>2 DEF CompleteTaskRead, Leave
  <2>3. CASE saves' = [saves EXCEPT ![w] = Pending(t, e)] /\ UNCHANGED <<pc, work>>
    <3>1. e \in Row /\ e.lockedAt = 0
      BY <2>1 DEF Released, Row, Statuses, Terminal, Unlocked
    <3> HIDE DEF e
    <3>2. /\ Pending(t, e) \in Save
          /\ Pending(t, e).task = t
          /\ Pending(t, e).target = e
      BY <2>1, <3>1, PendingIsSave
    <3>. QED
      BY <1>3, <2>1, <2>3, <3>1, <3>2 DEF CompleteTaskRead
  <2>. QED
    BY <1>3, <2>2, <2>3 DEF CompleteTaskRead
<1>4. ASSUME NEW w \in Workers, ExecutionFails(w) PROVE TypeOK'
  BY <1>4 DEF ExecutionFails, Callers
<1>5. ASSUME NEW w \in Workers, NEW b \in BOOLEAN, FailTaskRead(w, b) PROVE TypeOK'
  <2> DEFINE t == work[w].task
             canRetry == ~b /\ row[t].attempt < MaxAttempt
             e == Released(t, IF canRetry THEN "retrying" ELSE "failed")
  <2>1. /\ work[w] \in Work /\ work[w] # NoWork /\ t \in Tasks /\ saves[w] = NoSave
        /\ w \in Callers
    BY <1>5 DEF FailTaskRead, Work, Callers
  <2>2. CASE saves' = saves
    BY <1>5, <2>1, <2>2 DEF FailTaskRead, Leave
  <2>3. CASE saves' = [saves EXCEPT ![w] = Pending(t, e)] /\ UNCHANGED <<pc, work>>
    <3>1. e \in Row /\ e.lockedAt = 0
      BY <2>1 DEF Released, Row, Statuses, Terminal, Claimable, Unlocked
    <3> HIDE DEF e
    <3>2. /\ Pending(t, e) \in Save
          /\ Pending(t, e).task = t
          /\ Pending(t, e).target = e
      BY <2>1, <3>1, PendingIsSave
    <3>. QED
      BY <1>5, <2>1, <2>3, <3>1, <3>2 DEF FailTaskRead
  <2>. QED
    BY <1>5, <2>2, <2>3 DEF FailTaskRead
<1>6. ASSUME NEW w \in Workers, WorkerStops(w) PROVE TypeOK'
  BY <1>6 DEF WorkerStops, Leave, Callers
<1>7. ASSUME NEW a \in Admins, NEW t \in Tasks, CancelTaskRead(a, t) PROVE TypeOK'
  BY <1>7 DEF CancelTaskRead, Pending, Save, Row, Statuses, Terminal, Callers
<1>8. ASSUME NEW a \in Admins, NEW t \in Tasks, SkipTaskRead(a, t) PROVE TypeOK'
  BY <1>8 DEF SkipTaskRead, Pending, Save, Row, Statuses, Terminal, Callers
<1>9. ASSUME NEW t \in Tasks, RetryTask(t) PROVE TypeOK'
  BY <1>9 DEF RetryTask, Row, Statuses, Claimable, Unlocked
<1>10. ASSUME NEW c \in Callers, SaveLoads(c) PROVE TypeOK'
  <2> DEFINE s == [saves[c] EXCEPT !.loaded = TRUE, !.base = row[saves[c].task]]
  <2>1. saves[c] \in Save /\ saves[c] # NoSave /\ row[saves[c].task] \in Row
    BY <1>10 DEF SaveLoads, Save
  <2>2. s \in Save /\ s.task = saves[c].task /\ s.target = saves[c].target
    BY <2>1 DEF Save
  <2>3. saves' = [saves EXCEPT ![c] = s]
    BY <1>10 DEF SaveLoads
  <2> HIDE DEF s
  <2>. QED
    <3>1. saves' \in [Callers -> Save \cup {NoSave}]
      BY <2>2, <2>3
    <3>2. \A d \in Callers : saves'[d] # NoSave => /\ saves[d] # NoSave
                                                   /\ saves'[d].task = saves[d].task
                                                   /\ saves'[d].target = saves[d].target
      BY <2>1, <2>2, <2>3
    <3>. QED
      BY <1>10, <3>1, <3>2 DEF SaveLoads, Callers
<1>11. ASSUME NEW c \in Callers, SaveUpdates(c) PROVE TypeOK'
  <2> DEFINE s    == saves[c]
             base == IF SplitSave THEN s.base ELSE row[s.task]
             m    == Merged(s.target, base, row[s.task])
  <2>1. /\ s \in Save /\ s.task \in Tasks /\ s.target \in Row /\ base \in Row
        /\ row[s.task] \in Row
    BY <1>11 DEF SaveUpdates, Save
  <2>2. m \in Row /\ m.lockedAt \in {s.target.lockedAt, row[s.task].lockedAt}
    BY <2>1, MergedIsRow
  <2>3. row' = [row EXCEPT ![s.task] = m]
    BY <1>11 DEF SaveUpdates
  <2>4. s.target.lockedAt <= claims[s.task]
    BY <1>11 DEF SaveUpdates
  <2>5. /\ succeeded' \subseteq Tasks
        /\ saves' = [saves EXCEPT ![c] = NoSave]
        /\ UNCHANGED <<claims, staleUpTo, scan>>
    BY <1>11, <2>1 DEF SaveUpdates
  <2> HIDE DEF m, base
  <2>6. /\ row' \in [Tasks -> Row]
        /\ \A t \in Tasks : row'[t].lockedAt <= claims'[t]
    BY <2>1, <2>2, <2>3, <2>4, <2>5
  <2>7. CASE c \in Workers
    BY <1>11, <2>5, <2>6, <2>7 DEF SaveUpdates, Leave, Callers
  <2>8. CASE c \notin Workers
    BY <1>11, <2>5, <2>6, <2>8 DEF SaveUpdates, Callers
  <2>. QED
    BY <2>7, <2>8
<1>12. ASSUME NEW t \in Tasks, LeaseExpires(t) PROVE TypeOK'
  BY <1>12 DEF LeaseExpires, Row
<1>13. ASSUME RecoveryScan PROVE TypeOK'
  <2>1. scan' \subseteq Scan
    BY <1>13, ScanFinds DEF Scan, Row
  <2>. QED
    BY <1>13, <2>1, ScanFinds
<1>14. ASSUME NEW s \in scan, RecoverStaleTask(s) PROVE TypeOK'
  BY <1>14 DEF RecoverStaleTask, Scan, Row, Statuses, Claimable, Terminal, Unlocked
<1>15. ASSUME RecoveryAborts PROVE TypeOK'
  BY <1>15 DEF RecoveryAborts
<1>16. ASSUME UNCHANGED vars PROVE TypeOK'
  BY <1>16 DEF vars
<1>. QED
  BY <1>1, <1>2, <1>3, <1>4, <1>5, <1>6, <1>7, <1>8, <1>9, <1>10, <1>11, <1>12, <1>13,
     <1>14, <1>15, <1>16
  DEF Next, WorkerStep, AdminStep, TaskStep, RecoveryStep

\* Type correctness: rows, stamps and saves stay well formed in every behaviour.
THEOREM TypeCorrect == Spec => []TypeOK
  BY TypeInit, TypeStep, PTL DEF Spec

(***************************************************************************)
(* A recovery sweep only ends claims that have expired.                    *)
(***************************************************************************)

\* The rows a sweep holds were stale when it read them, and time does not run
\* backwards: their stamps stay below the stale threshold.
ScanStaleInv ==
    \A s \in scan : s.lockedAt <= staleUpTo[s.task] /\ s.lockedAt <= claims[s.task]

LEMMA ScanStaleStep == TypeOK /\ ScanStaleInv /\ [Next]_vars => ScanStaleInv'
<1> SUFFICES ASSUME TypeOK, ScanStaleInv, [Next]_vars PROVE ScanStaleInv'
  OBVIOUS
<1> USE DEF ScanStaleInv, Scan
<1>t. /\ row \in [Tasks -> Row] /\ claims \in [Tasks -> Nat]
      /\ staleUpTo \in [Tasks -> Nat] /\ scan \subseteq Scan
      /\ \A t \in Tasks : row[t].lockedAt <= claims[t]
  BY ConstantsAssumption DEF TypeOK
<1>1. ASSUME NEW w \in Workers, NEW t \in Tasks, TryClaimTask(w, t) PROVE ScanStaleInv'
  BY <1>1, <1>t DEF TryClaimTask
<1>2. ASSUME NEW t \in Tasks, LeaseExpires(t) PROVE ScanStaleInv'
  <2>1. staleUpTo' \in [Tasks -> Nat] /\ \A u \in Tasks : staleUpTo[u] <= staleUpTo'[u]
    BY <1>2, <1>t DEF LeaseExpires, Row
  <2>. QED
    BY <1>2, <1>t, <2>1 DEF LeaseExpires
<1>3. ASSUME RecoveryScan PROVE ScanStaleInv'
  BY <1>3, <1>t, ScanFinds DEF IsStale, Row
<1>4. ASSUME NEW s \in scan, RecoverStaleTask(s) PROVE ScanStaleInv'
  BY <1>4, <1>t DEF RecoverStaleTask
<1>5. ASSUME RecoveryAborts PROVE ScanStaleInv'
  BY <1>5 DEF RecoveryAborts
<1>6. ASSUME UNCHANGED <<claims, staleUpTo, scan>> PROVE ScanStaleInv'
  BY <1>6
<1>. QED
  BY <1>1, <1>2, <1>3, <1>4, <1>5, <1>6
  DEF Next, WorkerStep, AdminStep, TaskStep, RecoveryStep, CreateTask, CompleteTaskRead,
      ExecutionFails, FailTaskRead, WorkerStops, CancelTaskRead, SkipTaskRead, RetryTask,
      SaveLoads, SaveUpdates, vars

LEMMA ScanStaleInvariant == Spec => [](TypeOK /\ ScanStaleInv)
<1>1. Init => ScanStaleInv
  BY DEF Init, ScanStaleInv
<1>. QED
  BY <1>1, TypeInit, TypeStep, ScanStaleStep, PTL DEF Spec

\* The test on status and lockedAt in the UPDATE is enough: whatever happened to
\* the row since the scan, the claim the sweep ends is one that has expired.
THEOREM RecoverySafe == Spec => RecoveryTakesOnlyStaleClaims
<1> DEFINE Step == \A t \in Tasks :
                     /\ row[t].status = "processing"
                     /\ row'[t].status # "processing"
                     /\ saves' = saves
                     => row[t].lockedAt <= staleUpTo[t]
<1>1. TypeOK /\ ScanStaleInv /\ [Next]_vars => [Step]_vars
  <2> SUFFICES ASSUME TypeOK, ScanStaleInv, Next, NEW t \in Tasks,
                      row[t].status = "processing", row'[t].status # "processing",
                      saves' = saves
               PROVE  row[t].lockedAt <= staleUpTo[t]
    BY DEF vars
  <2>t. /\ row \in [Tasks -> Row] /\ scan \subseteq Scan
        /\ saves \in [Callers -> Save \cup {NoSave}]
    BY DEF TypeOK
  <2>1. ASSUME NEW u \in Tasks, CreateTask(u) \/ RetryTask(u) PROVE FALSE
    BY <2>1, <2>t DEF CreateTask, RetryTask, Exists, Row
  <2>2. ASSUME NEW w \in Workers, NEW u \in Tasks, TryClaimTask(w, u) PROVE FALSE
    BY <2>2, <2>t DEF TryClaimTask, Claimable
  <2>3. ASSUME NEW c \in Callers, SaveUpdates(c) PROVE FALSE
    BY <2>3, <2>t DEF SaveUpdates
  <2>4. ASSUME NEW s \in scan, RecoverStaleTask(s) PROVE row[t].lockedAt <= staleUpTo[t]
    <3>1. SameClaim(s) /\ s.task = t
      BY <2>4, <2>t DEF RecoverStaleTask, Scan, Row
    <3>. QED
      BY <3>1 DEF SameClaim, ScanStaleInv
  <2>5. ASSUME UNCHANGED row PROVE FALSE
    BY <2>5
  <2>. QED
    BY <2>1, <2>2, <2>3, <2>4, <2>5
    DEF Next, WorkerStep, AdminStep, TaskStep, RecoveryStep, CompleteTaskRead,
        ExecutionFails, FailTaskRead, WorkerStops, CancelTaskRead, SkipTaskRead,
        SaveLoads, LeaseExpires, RecoveryScan, Scans, RecoveryAborts
<1>. QED
  BY <1>1, ScanStaleInvariant, PTL DEF Spec, RecoveryTakesOnlyStaleClaims, Step
===============================================================================
