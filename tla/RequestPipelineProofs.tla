------------------------- MODULE RequestPipelineProofs -------------------------
(***************************************************************************)
(* Theorems about RequestPipeline, for any number of requests, users and    *)
(* addresses, any limit, any number of attempts and stalls: the types with  *)
(* the bound on rows, the rate limit, and the truth of operation logs.      *)
(***************************************************************************)
EXTENDS RequestPipeline, FiniteSetTheorems, TLAPS

-------------------------------------------------------------------------------
(***************************************************************************)
(* The rate limit.  The counter of a window is never below the number of    *)
(* the requests admitted in it.                                             *)
(***************************************************************************)

LimitTypeOK ==
    /\ request \in [Requests -> Request]
    /\ bucket \in [Keys -> [count : Nat, ttl : BOOLEAN]]
    /\ admitted \in [Keys -> SUBSET Requests]

LimitInv ==
    /\ LimitTypeOK
    /\ \A key \in Keys :
        /\ bucket[key].count > 0 => bucket[key].ttl
        /\ IsFiniteSet(admitted[key])
        /\ Cardinality(admitted[key]) <= bucket[key].count
        /\ Cardinality(admitted[key]) <= Max

\* The requests of this program's routes have keys of its limited routes.
LEMMA KeyIsKey ==
    ASSUME LimitTypeOK, NEW r \in Requests, request[r].route \in Limited
    PROVE  RateKey(r) \in Keys
  <1>1. request[r].ip \in Ips /\ request[r].sub \in Users \cup {NoUser}
    BY DEF LimitTypeOK, Request
  <1> QED
    BY <1>1 DEF RateKey, Keys

\* A request goes on, and nothing else about it changes but its sub.
LEMMA Going ==
    ASSUME request \in [Requests -> Request], NEW r \in Requests, NEW step \in Steps
    PROVE  /\ Goes(r, step) =>
                /\ request' \in [Requests -> Request]
                /\ request'[r] = [request[r] EXCEPT !.step = step]
                /\ request'[r].step = step
                /\ request'[r].user = request[r].user /\ request'[r].route = request[r].route
                /\ \A q \in Requests \ {r} : request'[q] = request[q]
           /\ request' = Intercepted(r) =>
                /\ request' \in [Requests -> Request]
                /\ request'[r].step = "handle"
                /\ request'[r].user = request[r].user /\ request'[r].route = request[r].route
                /\ \A q \in Requests \ {r} : request'[q] = request[q]
  <1>1. request[r] \in Request /\ request[r].user \in Users \cup {NoUser}
    BY DEF Request
  <1>2. [request[r] EXCEPT !.step = step] \in Request
    BY <1>1 DEF Request
  <1>3. [request[r] EXCEPT !.step = "handle", !.sub = request[r].user] \in Request
    BY <1>1 DEF Request, Steps
  <1>4. ASSUME Goes(r, step)
        PROVE  /\ request' \in [Requests -> Request]
               /\ request'[r] = [request[r] EXCEPT !.step = step]
               /\ request'[r].step = step
               /\ request'[r].user = request[r].user /\ request'[r].route = request[r].route
               /\ \A q \in Requests \ {r} : request'[q] = request[q]
    BY <1>1, <1>2, <1>4 DEF Goes, Request
  <1>5. ASSUME request' = Intercepted(r)
        PROVE  /\ request' \in [Requests -> Request]
               /\ request'[r].step = "handle"
               /\ request'[r].user = request[r].user /\ request'[r].route = request[r].route
               /\ \A q \in Requests \ {r} : request'[q] = request[q]
    BY <1>1, <1>3, <1>5 DEF Intercepted, Request
  <1> QED
    BY <1>4, <1>5

LEMMA Losing ==
    ASSUME request \in [Requests -> Request], NEW r \in Requests, LosesRequest(r)
    PROVE  /\ request' \in [Requests -> Request]
           /\ request'[r].step = "ended"
           /\ request'[r].user = request[r].user /\ request'[r].route = request[r].route
           /\ \A q \in Requests \ {r} : request'[q] = request[q]
  <1>1. request[r] \in Request
    OBVIOUS
  <1>2. [request[r] EXCEPT !.step = "ended", !.lost = TRUE] \in Request
    BY <1>1 DEF Request, Steps
  <1> QED
    BY <1>1, <1>2 DEF LosesRequest, Request

LEMMA OneMore ==
    ASSUME NEW S, IsFiniteSet(S), NEW x
    PROVE  /\ IsFiniteSet(S \cup {x}) /\ Cardinality(S \cup {x}) \in Nat
           /\ Cardinality(S \cup {x}) <= Cardinality(S) + 1
  <1> DEFINE more == S \cup {x}
  <1>1. IsFiniteSet(more)
    BY FS_AddElement
  <1>2. Cardinality(more) = IF x \in S THEN Cardinality(S) ELSE Cardinality(S) + 1
    BY FS_AddElement
  <1> HIDE DEF more
  <1>3. Cardinality(S) \in Nat /\ Cardinality(more) \in Nat
    BY <1>1, FS_CardinalityType
  <1>4. Cardinality(more) <= Cardinality(S) + 1
    BY <1>2, <1>3
  <1> QED
    BY <1>1, <1>3, <1>4 DEF more

LEMMA NobodyAdmitted == IsFiniteSet({}) /\ Cardinality({}) = 0 /\ 0 <= Max
  BY FS_EmptySet, PipelineAssumption

LEMMA LimitInit == Init => LimitInv
  <1> SUFFICES ASSUME Init PROVE LimitInv
    OBVIOUS
  <1>1. request \in [Requests -> Request]
    BY DEF Init, Request, Steps
  <1>2. bucket \in [Keys -> [count : Nat, ttl : BOOLEAN]] /\ admitted \in [Keys -> SUBSET Requests]
    BY DEF Init
  <1>3. \A key \in Keys : bucket[key].count = 0 /\ admitted[key] = {}
    BY DEF Init
  <1>4. \A key \in Keys : /\ ~(bucket[key].count > 0)
                          /\ IsFiniteSet(admitted[key])
                          /\ Cardinality(admitted[key]) <= bucket[key].count
                          /\ Cardinality(admitted[key]) <= Max
    BY <1>3, NobodyAdmitted
  <1> QED
    BY <1>1, <1>2, <1>4 DEF LimitInv, LimitTypeOK

LEMMA LimitHits ==
    ASSUME LimitInv, NEW r \in Requests, Hits(r)
    PROVE  LimitInv'
  <1> DEFINE key == RateKey(r)
             hit == RateLimitHit(bucket[key])
             mine == admitted[key]
  <1>1. key \in Keys
    BY KeyIsKey DEF Hits, LimitInv
  <1>2. bucket[key] \in [count : Nat, ttl : BOOLEAN]
    BY <1>1 DEF LimitInv, LimitTypeOK
  <1>3. /\ hit \in [count : Nat, ttl : BOOLEAN] /\ hit.count = bucket[key].count + 1
        /\ hit.ttl
    <2>1. bucket[key].count = 0 \/ bucket[key].ttl
      BY <1>1, <1>2 DEF LimitInv
    <2> HIDE DEF key
    <2>2. hit = [count |-> bucket[key].count + 1, ttl |-> bucket[key].ttl \/ bucket[key].count = 0]
      BY DEF RateLimitHit
    <2>3. bucket[key].count + 1 \in Nat
      BY <1>2
    <2>4. hit = [count |-> bucket[key].count + 1, ttl |-> TRUE]
      BY <2>1, <2>2
    <2> HIDE DEF hit
    <2> QED
      BY <2>3, <2>4
  <1>4. IsFiniteSet(mine) /\ Cardinality(mine) \in Nat /\ Cardinality(mine) <= bucket[key].count
        /\ Cardinality(mine) <= Max
    BY <1>1, FS_CardinalityType DEF LimitInv
  <1>5. IsFiniteSet(mine \cup {r}) /\ Cardinality(mine \cup {r}) \in Nat
        /\ Cardinality(mine \cup {r}) <= Cardinality(mine) + 1
    BY <1>4, OneMore
  <1>6. bucket' = [bucket EXCEPT ![key] = hit]
    BY DEF Hits
  <1>7. \/ admitted' = admitted /\ Goes(r, "ended")
        \/ /\ admitted' = [admitted EXCEPT ![key] = mine \cup {r}]
           /\ hit.count <= Max /\ request' = Intercepted(r)
    BY DEF Hits, Allows
  <1> HIDE DEF key, hit, mine
  <1>8. request' \in [Requests -> Request]
    BY <1>7, Going DEF LimitInv, LimitTypeOK, Steps
  <1>9. bucket' \in [Keys -> [count : Nat, ttl : BOOLEAN]] /\ bucket'[key] = hit
        /\ \A k \in Keys \ {key} : bucket'[k] = bucket[k]
    BY <1>1, <1>3, <1>6 DEF LimitInv, LimitTypeOK
  <1>10. /\ admitted' \in [Keys -> SUBSET Requests]
         /\ \A k \in Keys \ {key} : admitted'[k] = admitted[k]
         /\ admitted'[key] = mine \/ (admitted'[key] = mine \cup {r} /\ hit.count <= Max)
    BY <1>1, <1>7 DEF LimitInv, LimitTypeOK, mine
  <1>11. /\ IsFiniteSet(admitted'[key]) /\ Cardinality(admitted'[key]) <= hit.count
         /\ Cardinality(admitted'[key]) <= Max
    <2>1. Cardinality(mine) <= hit.count /\ Max \in Nat /\ hit.count \in Nat
      BY <1>2, <1>3, <1>4, PipelineAssumption
    <2>2. CASE admitted'[key] = mine
      BY <1>4, <2>1, <2>2
    <2>3. CASE admitted'[key] = mine \cup {r} /\ hit.count <= Max
      BY <1>2, <1>3, <1>4, <1>5, <2>1, <2>3
    <2> QED
      BY <1>10, <2>2, <2>3
  <1>12. LimitTypeOK'
    BY <1>8, <1>9, <1>10 DEF LimitTypeOK
  <1> QED
    BY <1>3, <1>9, <1>10, <1>11, <1>12 DEF LimitInv

LEMMA LimitWindowEnds ==
    ASSUME LimitInv, NEW key \in Keys, WindowEnds(key)
    PROVE  LimitInv'
  <1>1. /\ bucket' \in [Keys -> [count : Nat, ttl : BOOLEAN]]
        /\ bucket'[key].count = 0
        /\ \A k \in Keys \ {key} : bucket'[k] = bucket[k]
    BY DEF WindowEnds, LimitInv, LimitTypeOK
  <1>2. /\ admitted' \in [Keys -> SUBSET Requests] /\ admitted'[key] = {}
        /\ \A k \in Keys \ {key} : admitted'[k] = admitted[k]
    BY DEF WindowEnds, LimitInv, LimitTypeOK
  <1>3. LimitTypeOK'
    BY <1>1, <1>2 DEF WindowEnds, LimitInv, LimitTypeOK
  <1>4. \A k \in Keys :
          /\ bucket'[k].count > 0 => bucket'[k].ttl
          /\ IsFiniteSet(admitted'[k])
          /\ Cardinality(admitted'[k]) <= bucket'[k].count
          /\ Cardinality(admitted'[k]) <= Max
    <2> SUFFICES ASSUME NEW k \in Keys
                 PROVE  /\ bucket'[k].count > 0 => bucket'[k].ttl
                        /\ IsFiniteSet(admitted'[k])
                        /\ Cardinality(admitted'[k]) <= bucket'[k].count
                        /\ Cardinality(admitted'[k]) <= Max
      OBVIOUS
    <2>1. CASE k = key
      BY <1>1, <1>2, <2>1, NobodyAdmitted
    <2>2. CASE k # key
      BY <1>1, <1>2, <2>2 DEF LimitInv
    <2> QED
      BY <2>1, <2>2
  <1> QED
    BY <1>3, <1>4 DEF LimitInv

LEMMA LimitKept ==
    ASSUME LimitInv, UNCHANGED limitVars, request' \in [Requests -> Request]
    PROVE  LimitInv'
  BY DEF LimitInv, LimitTypeOK, limitVars

LEMMA LimitNext ==
    ASSUME LimitInv, [Next]_vars
    PROVE  LimitInv'
  <1>0. request \in [Requests -> Request] /\ Steps # {}
        /\ {"limit", "ended", "committed", "add"} \subseteq Steps
    BY DEF LimitInv, LimitTypeOK, Steps
  <1>1. ASSUME NEW r \in Requests, GuardStep(r) PROVE LimitInv'
    <2>1. CASE Hits(r)
      BY <2>1, LimitHits
    <2>2. CASE PassesGuards(r) \/ Refuses(r) \/ Unlimited(r)
      BY <1>0, <2>2, Going, LimitKept DEF PassesGuards, Refuses, Unlimited
    <2> QED
      BY <1>1, <2>1, <2>2 DEF GuardStep
  <1>2. ASSUME NEW r \in Requests, HandlerStep(r) PROVE LimitInv'
    <2>1. UNCHANGED limitVars /\ \E step \in Steps : Goes(r, step)
      BY <1>0, <1>2 DEF HandlerStep, Commits, Resolves, Throws, EnqueuesAudit, AfterHandler
    <2> QED
      BY <1>0, <2>1, Going, LimitKept
  <1>3. ASSUME NEW r \in Requests, LosesRequest(r) PROVE LimitInv'
    BY <1>0, <1>3, Losing, LimitKept DEF LosesRequest
  <1>4. ASSUME NEW r \in Requests, WorkerStep(r) PROVE LimitInv'
    BY <1>0, <1>4, LimitKept
       DEF WorkerStep, WorkerTakes, Persists, JobCompletes, JobRejects, JobStalls
  <1>5. CASE UNCHANGED vars
    BY <1>0, <1>5, LimitKept DEF vars, limitVars
  <1> QED
    BY <1>1, <1>2, <1>3, <1>4, <1>5, LimitWindowEnds DEF Next

THEOREM LimitInductive == Spec => []LimitInv
  BY LimitInit, LimitNext, PTL DEF Spec

\* RateLimitGuard and RATE_LIMIT_LUA: whatever the requests, the addresses and the limit, and
\* however the requests overlap, at most Max of one client are admitted in a window.
THEOREM RateLimitHolds == Spec => []LimitHolds
  <1>1. LimitInv => LimitHolds
    BY DEF LimitInv, LimitHolds
  <1> QED
    BY <1>1, LimitInductive, PTL

-------------------------------------------------------------------------------
(***************************************************************************)
(* The operation log.  The payload of a job does not change any more once   *)
(* the job exists, and each row is of another run of it.                    *)
(***************************************************************************)

LogTypeOK ==
    /\ request \in [Requests -> Request]
    /\ changed \subseteq Requests
    /\ job \in [Requests -> Job]
    /\ audit \in [Requests -> Payload]
    /\ written \subseteq Requests
    /\ rows \in [Requests -> Seq(Payload)]

Running(r) == job[r].state \in {"waiting", "active"}

\* A row for each run that has ended, at most, and one for the run at hand.
RowsOfRuns(r) ==
    /\ r \in written => job[r].state = "active"
    /\ job[r].stalls <= MaxStalledCount
    /\ job[r].state = "none" => rows[r] = <<>>
    /\ Running(r) =>
        /\ job[r].tries < Attempts
        /\ Len(rows[r]) <= job[r].tries + job[r].stalls + (IF r \in written THEN 1 ELSE 0)
    /\ Len(rows[r]) <= Attempts + MaxStalledCount

\* The payload tells what has happened, and every row is the payload.
Truthful(r) ==
    /\ request[r].step \in {"limit", "handle", "committed", "add"}
        => request[r].user # NoUser \/ request[r].route \in Public
    /\ request[r].step = "committed" => r \in changed
    /\ request[r].step # "ended" => job[r].state = "none"
    /\ request[r].step = "add" \/ job[r].state # "none" =>
        /\ audit[r].success => r \in changed
        /\ audit[r].actor # NoUser \/ request[r].route \in Public
    /\ \A i \in DOMAIN rows[r] : rows[r][i] = audit[r]

LogInv == LogTypeOK /\ \A r \in Requests : RowsOfRuns(r) /\ Truthful(r)

\* What concerns one request leaves the others alone.
Only(r) ==
    \A q \in Requests \ {r} :
        /\ request'[q] = request[q] /\ job'[q] = job[q] /\ audit'[q] = audit[q]
        /\ rows'[q] = rows[q]
        /\ (q \in written') = (q \in written) /\ (q \in changed') = (q \in changed)

LEMMA LogFrame ==
    ASSUME LogInv, NEW r \in Requests, LogTypeOK', Only(r), RowsOfRuns(r)', Truthful(r)'
    PROVE  LogInv'
  <1>1. ASSUME NEW q \in Requests \ {r} PROVE (RowsOfRuns(q) /\ Truthful(q))'
    BY DEF LogInv, Only, RowsOfRuns, Running, Truthful
  <1> QED
    BY <1>1 DEF LogInv

LEMMA LogInit == Init => LogInv
  <1> SUFFICES ASSUME Init PROVE LogInv
    OBVIOUS
  <1>1. request \in [Requests -> Request] /\ job \in [Requests -> Job]
    BY DEF Init, Request, Steps, Job, NoJob
  <1>2. audit \in [Requests -> Payload] /\ rows \in [Requests -> Seq(Payload)]
    BY DEF Init, Payload
  <1>3. \A r \in Requests : RowsOfRuns(r)
    BY PipelineAssumption DEF Init, RowsOfRuns, Running, NoJob
  <1>4. \A r \in Requests : Truthful(r)
    <2> SUFFICES ASSUME NEW r \in Requests PROVE Truthful(r)
      OBVIOUS
    <2>1. request[r].step = "guards" /\ job[r].state = "none" /\ rows[r] = <<>>
      BY DEF Init, NoJob
    <2> QED
      BY <2>1 DEF Truthful
  <1> QED
    BY <1>1, <1>2, <1>3, <1>4 DEF Init, LogInv, LogTypeOK

\* A request on its way to its job.
LEMMA RequestKeepsLog ==
    ASSUME LogInv, NEW r \in Requests, GuardStep(r) \/ Commits(r) \/ LosesRequest(r)
    PROVE  LogInv'
  <1>0. request \in [Requests -> Request] /\ request[r].step \in Steps
        /\ {"limit", "ended", "committed"} \subseteq Steps
    BY DEF LogInv, LogTypeOK, Request, Steps
  <1>1. UNCHANGED jobVars /\ changed \subseteq changed' /\ changed' \subseteq changed \cup {r}
    BY DEF GuardStep, PassesGuards, Refuses, Unlimited, Hits, Commits, LosesRequest
  <1>2. /\ request' \in [Requests -> Request]
        /\ request'[r].user = request[r].user /\ request'[r].route = request[r].route
        /\ \A q \in Requests \ {r} : request'[q] = request[q]
        /\ \/ /\ request'[r].step = "limit" /\ request[r].step = "guards"
              /\ request[r].route \in Public \/ request[r].user # NoUser
           \/ request'[r].step = "handle" /\ request[r].step = "limit"
           \/ request'[r].step = "ended"
           \/ request'[r].step = "committed" /\ request[r].step = "handle" /\ r \in changed'
    <2>1. CASE PassesGuards(r)
      BY <1>0, <2>1, Going DEF PassesGuards, At
    <2>2. CASE Refuses(r)
      BY <1>0, <2>2, Going DEF Refuses
    <2>3. CASE Unlimited(r)
      BY <1>0, <2>3, Going DEF Unlimited, At
    <2>4. CASE Hits(r)
      BY <1>0, <2>4, Going DEF Hits, At
    <2>5. CASE Commits(r)
      BY <1>0, <2>5, Going DEF Commits, At
    <2>6. CASE LosesRequest(r)
      BY <1>0, <2>6, Losing
    <2> QED
      BY <2>1, <2>2, <2>3, <2>4, <2>5, <2>6 DEF GuardStep
  <1>3. LogTypeOK' /\ Only(r)
    BY <1>1, <1>2 DEF LogInv, LogTypeOK, Only, jobVars
  <1>4. RowsOfRuns(r)'
    BY <1>1 DEF LogInv, RowsOfRuns, Running, jobVars
  <1>5. Truthful(r)'
    BY <1>1, <1>2 DEF LogInv, Truthful, jobVars
  <1> QED
    BY <1>3, <1>4, <1>5, LogFrame

\* tap, catchError.
LEMMA HandlerKeepsLog ==
    ASSUME LogInv, NEW r \in Requests, Resolves(r) \/ Throws(r)
    PROVE  LogInv'
  <1>0. request \in [Requests -> Request] /\ request[r] \in Request /\ AfterHandler(r) \in Steps
    BY DEF LogInv, LogTypeOK, AfterHandler, Steps
  <1>1. PICK success \in BOOLEAN :
          /\ success => At(r, "committed")
          /\ audit' = [audit EXCEPT ![r] = AuditOf(r, success)]
    BY DEF Resolves, Throws
  <1>2. request[r].step \in {"handle", "committed"} /\ Goes(r, AfterHandler(r))
        /\ UNCHANGED <<changed, job, written, rows>>
    BY DEF Resolves, Throws, At
  <1>3. AuditOf(r, success) \in Payload /\ AuditOf(r, success).success = success
        /\ AuditOf(r, success).actor = request[r].user
    BY <1>0 DEF AuditOf, Payload, Request
  <1>4. audit' \in [Requests -> Payload] /\ audit'[r] = AuditOf(r, success)
        /\ \A q \in Requests \ {r} : audit'[q] = audit[q]
    BY <1>1, <1>3 DEF LogInv, LogTypeOK
  <1>5. /\ request' \in [Requests -> Request]
        /\ request'[r].step \in {"add", "ended"}
        /\ request'[r].user = request[r].user /\ request'[r].route = request[r].route
        /\ \A q \in Requests \ {r} : request'[q] = request[q]
    BY <1>0, <1>2, Going DEF AfterHandler
  <1>6. LogTypeOK' /\ Only(r)
    BY <1>2, <1>4, <1>5 DEF LogInv, LogTypeOK, Only
  <1>7. RowsOfRuns(r)'
    BY <1>2 DEF LogInv, RowsOfRuns, Running
  <1>8. rows[r] = <<>> /\ job[r].state = "none" /\ (success => r \in changed)
        /\ (request[r].user # NoUser \/ request[r].route \in Public)
    BY <1>1, <1>2 DEF LogInv, Truthful, RowsOfRuns, At
  <1>9. \A i \in DOMAIN rows'[r] : rows'[r][i] = audit'[r]
    BY <1>2, <1>8
  <1>10. Truthful(r)'
    BY <1>2, <1>3, <1>4, <1>5, <1>8, <1>9 DEF Truthful
  <1> QED
    BY <1>6, <1>7, <1>10, LogFrame

LEMMA EnqueueKeepsLog ==
    ASSUME LogInv, NEW r \in Requests, EnqueuesAudit(r)
    PROVE  LogInv'
  <1>0. request \in [Requests -> Request] /\ "ended" \in Steps /\ request[r].step = "add"
    BY DEF LogInv, LogTypeOK, EnqueuesAudit, At, Steps
  <1>1. FreshJob \in Job /\ FreshJob.state = "waiting" /\ FreshJob.tries = 0 /\ FreshJob.stalls = 0
    BY DEF FreshJob, NoJob, Job
  <1>2. job' \in [Requests -> Job] /\ job'[r] = FreshJob
        /\ \A q \in Requests \ {r} : job'[q] = job[q]
    BY <1>1 DEF EnqueuesAudit, LogInv, LogTypeOK
  <1>3. /\ request' \in [Requests -> Request] /\ request'[r].step = "ended"
        /\ request'[r].user = request[r].user /\ request'[r].route = request[r].route
        /\ \A q \in Requests \ {r} : request'[q] = request[q]
    BY <1>0, Going DEF EnqueuesAudit
  <1>4. LogTypeOK' /\ Only(r)
    BY <1>2, <1>3 DEF LogInv, LogTypeOK, Only, EnqueuesAudit
  <1>5. rows[r] = <<>> /\ r \notin written
    BY <1>0 DEF LogInv, Truthful, RowsOfRuns
  <1>6. RowsOfRuns(r)'
    BY <1>1, <1>2, <1>5, PipelineAssumption DEF RowsOfRuns, Running, EnqueuesAudit
  <1>7. Truthful(r)'
    BY <1>0, <1>1, <1>2, <1>3 DEF Truthful, EnqueuesAudit, LogInv
  <1> QED
    BY <1>4, <1>6, <1>7, LogFrame

\* What the job of r becomes, other than by the INSERT.
Becomes(r, j) ==
    /\ job' = [job EXCEPT ![r] = j]
    /\ j \in Job /\ j.state # "none" /\ j.stalls <= MaxStalledCount
    /\ j.state \in {"waiting", "active"} =>
        j.tries < Attempts /\ Len(rows[r]) <= j.tries + j.stalls
    /\ r \notin written'

\* The runs of a job, whatever becomes of them.
LEMMA WorkerKeepsLog ==
    ASSUME LogInv, NEW r \in Requests, WorkerStep(r)
    PROVE  LogInv'
  <1>0. /\ job \in [Requests -> Job] /\ job[r] \in Job /\ rows[r] \in Seq(Payload)
        /\ RowsOfRuns(r) /\ Truthful(r)
        /\ Len(rows[r]) \in Nat /\ Attempts \in Nat /\ MaxStalledCount \in Nat
    BY PipelineAssumption DEF LogInv, LogTypeOK
  <1>1. job[r].tries \in Nat /\ job[r].stalls \in Nat
    BY <1>0 DEF Job
  <1>2. UNCHANGED <<request, changed, audit>> /\ Running(r)
    BY DEF WorkerStep, WorkerTakes, Persists, JobCompletes, JobRejects, JobStalls, Running
  <1>3. CASE Persists(r)
    <2>1. /\ rows' = [rows EXCEPT ![r] = Append(rows[r], audit[r])]
          /\ written' = written \cup {r} /\ r \notin written /\ UNCHANGED job
          /\ job[r].state = "active"
      BY <1>3 DEF Persists
    <2> DEFINE mine == Append(rows[r], audit[r])
    <2>2. audit[r] \in Payload
      BY DEF LogInv, LogTypeOK
    <2>3. mine \in Seq(Payload) /\ Len(mine) = Len(rows[r]) + 1
      BY <1>0, <2>2
    <2>4. \A i \in DOMAIN mine : mine[i] = audit[r]
      BY <1>0, <2>2 DEF Truthful
    <2> HIDE DEF mine
    <2>5. rows' \in [Requests -> Seq(Payload)] /\ rows'[r] = mine
          /\ \A q \in Requests \ {r} : rows'[q] = rows[q]
      BY <2>1, <2>3 DEF mine, LogInv, LogTypeOK
    <2>6. LogTypeOK' /\ Only(r)
      BY <1>2, <2>1, <2>5 DEF LogInv, LogTypeOK, Only
    <2>7. RowsOfRuns(r)'
      <3>1. job[r].tries < Attempts /\ job[r].stalls <= MaxStalledCount
            /\ Len(rows[r]) <= job[r].tries + job[r].stalls
        BY <1>0, <1>1, <1>2, <2>1 DEF RowsOfRuns
      <3>2. Len(mine) <= job[r].tries + job[r].stalls + 1
            /\ Len(mine) <= Attempts + MaxStalledCount
        BY <1>0, <1>1, <2>3, <3>1
      <3> QED
        BY <2>1, <2>5, <3>1, <3>2 DEF RowsOfRuns, Running
    <2>8. Truthful(r)'
      BY <1>0, <1>2, <2>1, <2>4, <2>5 DEF Truthful
    <2> QED
      BY <2>6, <2>7, <2>8, LogFrame
  <1>4. CASE ~Persists(r)
    <2>1. rows' = rows /\ written' \in {written, written \ {r}} /\ \E j : Becomes(r, j)
      <3>1. CASE WorkerTakes(r)
        <4> DEFINE j == [job[r] EXCEPT !.state = "active"]
        <4>1. /\ j \in Job /\ j.state = "active" /\ j.tries = job[r].tries
              /\ j.stalls = job[r].stalls
          BY <1>0 DEF Job
        <4>2. job' = [job EXCEPT ![r] = j] /\ UNCHANGED <<rows, written>>
              /\ job[r].state = "waiting"
          BY <3>1 DEF WorkerTakes
        <4> HIDE DEF j
        <4>3. r \notin written /\ Len(rows[r]) <= job[r].tries + job[r].stalls
              /\ job[r].tries < Attempts /\ job[r].stalls <= MaxStalledCount
          BY <1>0, <1>1, <1>2, <4>2 DEF RowsOfRuns
        <4>4. Becomes(r, j)
          BY <4>1, <4>2, <4>3 DEF Becomes
        <4> QED
          BY <4>2, <4>4
      <3>2. CASE JobCompletes(r)
        <4> DEFINE j == [job[r] EXCEPT !.state = "completed"]
        <4>1. /\ j \in Job /\ j.state = "completed" /\ j.tries = job[r].tries
              /\ j.stalls = job[r].stalls
          BY <1>0 DEF Job
        <4>2. job' = [job EXCEPT ![r] = j] /\ rows' = rows /\ written' = written \ {r}
          BY <3>2 DEF JobCompletes
        <4> HIDE DEF j
        <4>3. Becomes(r, j)
          BY <1>0, <4>1, <4>2 DEF RowsOfRuns, Becomes
        <4> QED
          BY <4>2, <4>3
      <3>3. CASE JobRejects(r)
        <4> DEFINE j == Rejected(job[r])
        <4>1. /\ j \in Job /\ j.state = (IF job[r].tries + 1 < Attempts THEN "waiting" ELSE "failed")
              /\ j.tries = job[r].tries + 1 /\ j.stalls = job[r].stalls
          <5>1. job[r].tries + 1 \in Nat
            BY <1>1
          <5> QED
            BY <1>0, <5>1 DEF Job, Rejected
        <4>2. job' = [job EXCEPT ![r] = j] /\ rows' = rows /\ written' = written \ {r}
          BY <3>3 DEF JobRejects
        <4>3. Len(rows[r]) <= job[r].tries + job[r].stalls + 1
              /\ job[r].stalls <= MaxStalledCount
          BY <1>0, <1>1, <1>2 DEF RowsOfRuns
        <4> HIDE DEF j
        <4>4. Becomes(r, j)
          BY <1>0, <1>1, <4>1, <4>2, <4>3 DEF Becomes
        <4> QED
          BY <4>2, <4>4
      <3>4. CASE JobStalls(r)
        <4> DEFINE j == Stalled(job[r])
        <4>1. /\ j \in Job /\ j.tries = job[r].tries
              /\ \/ job[r].stalls < MaxStalledCount /\ j.stalls = job[r].stalls + 1
                    /\ j.state = "waiting"
                 \/ j.stalls = job[r].stalls /\ j.state = "failed"
          <5>1. job[r].stalls + 1 \in Nat
            BY <1>1
          <5> QED
            BY <1>0, <5>1 DEF Job, Stalled
        <4>2. job' = [job EXCEPT ![r] = j] /\ rows' = rows /\ written' = written \ {r}
          BY <3>4 DEF JobStalls
        <4>3. Len(rows[r]) <= job[r].tries + job[r].stalls + 1 /\ job[r].tries < Attempts
          BY <1>0, <1>1, <1>2 DEF RowsOfRuns
        <4> HIDE DEF j
        <4>4. Becomes(r, j)
          BY <1>0, <1>1, <4>1, <4>2, <4>3 DEF Becomes, RowsOfRuns
        <4> QED
          BY <4>2, <4>4
      <3> QED
        BY <1>4, <3>1, <3>2, <3>3, <3>4 DEF WorkerStep
    <2>2. PICK j : Becomes(r, j)
      BY <2>1
    <2>3. job' \in [Requests -> Job] /\ job'[r] = j
          /\ \A q \in Requests \ {r} : job'[q] = job[q]
      BY <1>0, <2>2 DEF Becomes
    <2>4. LogTypeOK' /\ Only(r)
      BY <1>2, <2>1, <2>3 DEF LogInv, LogTypeOK, Only
    <2>5. j.tries \in Nat /\ j.stalls \in Nat
      BY <2>2 DEF Becomes, Job
    <2>6. RowsOfRuns(r)'
      BY <1>0, <2>1, <2>2, <2>3, <2>5 DEF Becomes, RowsOfRuns, Running
    <2>7. Truthful(r)'
      BY <1>0, <1>2, <2>1, <2>2, <2>3 DEF Becomes, Truthful, Running
    <2> QED
      BY <2>4, <2>6, <2>7, LogFrame
  <1> QED
    BY <1>3, <1>4

LEMMA LogNext ==
    ASSUME LogInv, [Next]_vars
    PROVE  LogInv'
  <1>1. ASSUME NEW key \in Keys, WindowEnds(key) PROVE LogInv'
    BY <1>1 DEF WindowEnds, jobVars, LogInv, LogTypeOK, RowsOfRuns, Running, Truthful
  <1>2. CASE UNCHANGED vars
    BY <1>2 DEF vars, LogInv, LogTypeOK, RowsOfRuns, Running, Truthful
  <1> QED
    BY <1>1, <1>2, RequestKeepsLog, HandlerKeepsLog, EnqueueKeepsLog, WorkerKeepsLog
       DEF Next, HandlerStep

THEOREM LogInductive == Spec => []LogInv
  BY LogInit, LogNext, PTL DEF Spec

\* OperationLogInterceptor and AuditLogProcessor: however often a job is run, its rows all say the
\* same, a success only where the change is committed, and a route that is not public names its
\* user.
THEOREM OperationLogsAreTrue == Spec => []RowsTellTheTruth
  <1>1. LogInv => RowsTellTheTruth
    <2> SUFFICES ASSUME LogInv, NEW r \in Requests, NEW i \in DOMAIN rows[r]
                 PROVE  /\ rows[r][i].success => r \in changed
                        /\ rows[r][i] = rows[r][1]
                        /\ rows[r][i].actor # NoUser \/ request[r].route \in Public
      BY DEF RowsTellTheTruth
    <2>1. rows[r] \in Seq(Payload) /\ Truthful(r) /\ RowsOfRuns(r)
      BY DEF LogInv, LogTypeOK
    <2>2. rows[r] # <<>> /\ 1 \in DOMAIN rows[r]
      BY <2>1
    <2> QED
      BY <2>1, <2>2 DEF Truthful, RowsOfRuns
  <1> QED
    BY <1>1, LogInductive, PTL

\* Types; a counter in Redis has a TTL, and a request has no more rows than its job has runs,
\* attempts and stalls together (RATE_LIMIT_LUA, persistFromJob).
THEOREM PipelineType == Spec => []TypeOK
  <1>1. LimitInv /\ LogInv => TypeOK
    BY DEF LimitInv, LimitTypeOK, LogInv, LogTypeOK, RowsOfRuns, TypeOK
  <1> QED
    BY <1>1, LimitInductive, LogInductive, PTL
===============================================================================
