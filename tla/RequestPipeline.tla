---------------------------- MODULE RequestPipeline ----------------------------
(* A request's way through admin-api or user-api, and its operation log.        *)
(*                                                                            *)
(* Nest runs the global guards (JWT, permissions), the guard of the route       *)
(* (RateLimitGuard) and then the interceptors around the handler, the last of   *)
(* them OperationLogInterceptor: guards refuse before it sees the request.      *)
(* When the handler has ended, it adds a job to the queue `audit`               *)
(* without waiting, which the worker's AuditLogProcessor turns into a row of    *)
(* operation_logs.  Requests run concurrently; any of them may die with its     *)
(* process, and so may a worker.                                               *)
EXTENDS Naturals, Sequences, FiniteSets

CONSTANTS Requests, Users, Ips,
          Audited,           \* the routes with @OperationLogDecorator
          Max,               \* @RateLimit({ max })
          Attempts,          \* defaultJobOptions.attempts
          MaxStalledCount,   \* BullMQ's default is 1
          NoUser

ASSUME PipelineAssumption ==
    /\ Max \in Nat /\ MaxStalledCount \in Nat
    /\ Attempts \in Nat \ {0}
    /\ Users \cap Ips = {}
    /\ Audited \subseteq {"login", "password", "other"}
    /\ NoUser \notin Users

VARIABLES request,   \* request[r]: where it is and who sent it
          bucket,    \* bucket[key]: the counter of RateLimitService in Redis, and its TTL
          admitted,  \* admitted[key]: the requests admitted in the current window
          changed,   \* the requests whose change is committed
          job,       \* job[r]: the job of the queue `audit` for r
          audit,     \* audit[r]: the payload of that job
          written,   \* the jobs whose row the worker at hand has inserted
          rows       \* rows[r]: the rows of operation_logs for r

vars == <<request, bucket, admitted, changed, job, audit, written, rows>>

INSTANCE BullJobs

\* The kinds of routes: login is @Public() and keyed by IP, changing the password is keyed by
\* user, and the others have no @RateLimit.
Routes == {"login", "password", "other"}
Public == {"login"}
Limited == {"login", "password"}
KeyedByUser == {"password"}

Steps == {"guards", "limit", "handle", "committed", "add", "ended"}

\* user: whom the access token is of, which a public route does not look at; sub: what
\* RequestContext says; lost: the process died, or Redis refused the job.
Request == [step : Steps, route : Routes, ip : Ips, user : Users \cup {NoUser},
            sub : Users \cup {NoUser}, lost : BOOLEAN]

Payload == [success : BOOLEAN, actor : Users \cup {NoUser}]

Keys == Limited \X (Ips \cup Users)

\* A counter has a TTL; a row is of an admitted request, and jobs insert a row for each time they
\* are run at most.
TypeOK ==
    /\ request \in [Requests -> Request]
    /\ bucket \in [Keys -> [count : Nat, ttl : BOOLEAN]]
    /\ \A key \in Keys : bucket[key].count > 0 => bucket[key].ttl
    /\ admitted \in [Keys -> SUBSET Requests]
    /\ changed \subseteq Requests
    /\ job \in [Requests -> Job]
    /\ audit \in [Requests -> Payload]
    /\ written \subseteq Requests
    /\ rows \in [Requests -> Seq(Payload)]
    /\ \A r \in Requests : Len(rows[r]) <= Attempts + MaxStalledCount

Init ==
    /\ request \in [Requests -> [step : {"guards"}, route : Routes, ip : Ips,
                                 user : Users \cup {NoUser}, sub : {NoUser}, lost : {FALSE}]]
    /\ \A r \in Requests : request[r].route \in Public => request[r].user = NoUser
    /\ bucket = [key \in Keys |-> [count |-> 0, ttl |-> FALSE]]
    /\ admitted = [key \in Keys |-> {}]
    /\ changed = {}
    /\ job = [r \in Requests |-> NoJob]
    /\ audit = [r \in Requests |-> [success |-> FALSE, actor |-> NoUser]]
    /\ written = {}
    /\ rows = [r \in Requests |-> <<>>]

At(r, step) == request[r].step = step
Goes(r, step) == request' = [request EXCEPT ![r].step = step]

jobVars == <<job, audit, written, rows>>
limitVars == <<bucket, admitted>>

------------------------------------------------------------------------------
(* The guards                                                                  *)

\* AdminJwtAuthGuard, UserJwtAuthGuard, PermissionsGuard: a public route needs no token; another
\* one a token that is signed, not expired, not in the blacklist, of a valid session and of a user
\* with the permissions of the route, if there are any.
PassesGuards(r) ==
    /\ At(r, "guards")
    /\ request[r].route \in Public \/ request[r].user # NoUser
    /\ Goes(r, "limit")
    /\ UNCHANGED <<limitVars, changed, jobVars>>

\* AUTH_UNAUTHORIZED, PERM_DENIED; or Redis does not answer RateLimitGuard.
Refuses(r) ==
    /\ \/ At(r, "guards") /\ request[r].route \notin Public
       \/ At(r, "limit") /\ request[r].route \in Limited
    /\ Goes(r, "ended")
    /\ UNCHANGED <<limitVars, changed, jobVars>>

\* keyBy: 'user' falls back to the IP where the context has no sub.
RateKey(r) ==
    <<request[r].route,
      IF request[r].route \in KeyedByUser /\ request[r].sub # NoUser
      THEN request[r].sub ELSE request[r].ip>>

\* Mutant: the script is told to expire the key when it is hit the second time.
RateLimitHitLate(b) == [count |-> b.count + 1, ttl |-> b.ttl \/ b.count = 1]

\* RATE_LIMIT_LUA, one atomic script: INCR, and EXPIRE for the first hit of a window.
RateLimitHit(b) == [count |-> b.count + 1, ttl |-> b.ttl \/ b.count = 0]

\* The interceptors run, up to the handler: UserContextInterceptor fills in the sub.
Intercepted(r) == [request EXCEPT ![r].step = "handle", ![r].sub = request[r].user]

\* RateLimitGuard of a route without @RateLimit.
Unlimited(r) ==
    /\ At(r, "limit")
    /\ request[r].route \notin Limited
    /\ request' = Intercepted(r)
    /\ UNCHANGED <<limitVars, changed, jobVars>>

\* Mutant: the counter is compared as it was before the hit.
AllowsBefore(count) == count - 1 <= Max

\* hit: allowed.
Allows(count) == count <= Max

Hits(r) ==
    LET key == RateKey(r)
        hit == RateLimitHit(bucket[key]) IN
    /\ At(r, "limit")
    /\ request[r].route \in Limited
    /\ bucket' = [bucket EXCEPT ![key] = hit]
    /\ IF Allows(hit.count)
       THEN /\ request' = Intercepted(r)
            /\ admitted' = [admitted EXCEPT ![key] = @ \cup {r}]
       ELSE /\ Goes(r, "ended")
            /\ UNCHANGED admitted
    /\ UNCHANGED <<changed, jobVars>>

\* The TTL runs out.
WindowEnds(key) ==
    /\ bucket[key].ttl
    /\ bucket' = [bucket EXCEPT ![key] = [count |-> 0, ttl |-> FALSE]]
    /\ admitted' = [admitted EXCEPT ![key] = {}]
    /\ UNCHANGED <<request, changed, jobVars>>

------------------------------------------------------------------------------
(* The handler, and OperationLogInterceptor around it                          *)

Commits(r) ==
    /\ At(r, "handle")
    /\ changed' = changed \cup {r}
    /\ Goes(r, "committed")
    /\ UNCHANGED <<limitVars, jobVars>>

\* The operator of a row is the user of the token.
AuditOf(r, success) == [success |-> success, actor |-> request[r].user]

\* Without metadata, the interceptor leaves it at next.handle().
AfterHandler(r) == IF request[r].route \in Audited THEN "add" ELSE "ended"

\* Mutant: the handler's promise is not awaited.
ResolvesUnawaited(r) ==
    /\ request[r].step \in {"handle", "committed"}
    /\ audit' = [audit EXCEPT ![r] = AuditOf(r, TRUE)]
    /\ Goes(r, AfterHandler(r))
    /\ UNCHANGED <<limitVars, changed, job, written, rows>>

\* tap.
Resolves(r) ==
    /\ At(r, "committed")
    /\ audit' = [audit EXCEPT ![r] = AuditOf(r, TRUE)]
    /\ Goes(r, AfterHandler(r))
    /\ UNCHANGED <<limitVars, changed, job, written, rows>>

\* catchError: the handler throws, be it before its transaction is committed or after (a cache
\* or a queue that does not answer).
Throws(r) ==
    /\ request[r].step \in {"handle", "committed"}
    /\ audit' = [audit EXCEPT ![r] = AuditOf(r, FALSE)]
    /\ Goes(r, AfterHandler(r))
    /\ UNCHANGED <<limitVars, changed, job, written, rows>>

\* enqueue: queue.add without a jobId.
EnqueuesAudit(r) ==
    /\ At(r, "add")
    /\ job' = [job EXCEPT ![r] = FreshJob]
    /\ Goes(r, "ended")
    /\ UNCHANGED <<limitVars, changed, audit, written, rows>>

\* enqueue swallows the error of an add() that fails; or the process dies.
LosesRequest(r) ==
    /\ request[r].step \in {"handle", "committed", "add"}
    /\ request' = [request EXCEPT ![r].step = "ended", ![r].lost = TRUE]
    /\ UNCHANGED <<limitVars, changed, jobVars>>

------------------------------------------------------------------------------
(* AuditLogProcessor                                                           *)

WorkerTakes(r) ==
    /\ job[r].state = "waiting"
    /\ job' = [job EXCEPT ![r].state = "active"]
    /\ UNCHANGED <<request, limitVars, changed, audit, written, rows>>

\* persistFromJob: create saves a new row each time; it does not look for one of the job.
Persists(r) ==
    /\ job[r].state = "active" /\ r \notin written
    /\ written' = written \cup {r}
    /\ rows' = [rows EXCEPT ![r] = Append(@, audit[r])]
    /\ UNCHANGED <<request, limitVars, changed, job, audit>>

JobCompletes(r) ==
    /\ job[r].state = "active" /\ r \in written
    /\ job' = [job EXCEPT ![r].state = "completed"]
    /\ written' = written \ {r}
    /\ UNCHANGED <<request, limitVars, changed, audit, rows>>

\* OP_LOG_CREATE_FAILED: save() has failed, or has lost the answer to a committed INSERT.
JobRejects(r) ==
    /\ job[r].state = "active"
    /\ job' = [job EXCEPT ![r] = Rejected(@)]
    /\ written' = written \ {r}
    /\ UNCHANGED <<request, limitVars, changed, audit, rows>>

\* Mutant: a job whose worker has died is gone.
JobVanishes(r) ==
    /\ job[r].state = "active"
    /\ job' = [job EXCEPT ![r] = NoJob]
    /\ written' = written \ {r}
    /\ UNCHANGED <<request, limitVars, changed, audit, rows>>

\* The worker dies.
JobStalls(r) ==
    /\ job[r].state = "active"
    /\ job' = [job EXCEPT ![r] = Stalled(@)]
    /\ written' = written \ {r}
    /\ UNCHANGED <<request, limitVars, changed, audit, rows>>

------------------------------------------------------------------------------
GuardStep(r) ==
    PassesGuards(r) \/ Refuses(r) \/ Unlimited(r) \/ Hits(r)

HandlerStep(r) == Commits(r) \/ Resolves(r) \/ Throws(r) \/ EnqueuesAudit(r)

WorkerStep(r) == WorkerTakes(r) \/ Persists(r) \/ JobCompletes(r) \/ JobRejects(r) \/ JobStalls(r)

Next ==
    \/ \E r \in Requests : GuardStep(r) \/ HandlerStep(r) \/ LosesRequest(r) \/ WorkerStep(r)
    \/ \E key \in Keys : WindowEnds(key)

Spec == Init /\ [][Next]_vars

\* A request that has been admitted is handled, the worker goes on with its jobs, and a TTL runs
\* out: nothing of it has to succeed.
FairSpec ==
    /\ Spec
    /\ \A r \in Requests : WF_vars(HandlerStep(r)) /\ WF_vars(WorkerStep(r))
    /\ \A key \in Keys : WF_vars(WindowEnds(key))

------------------------------------------------------------------------------
\* However many requests run through the guard at once, at most Max of those that count as one
\* client are admitted to a limited route in a window (RateLimitGuard, RATE_LIMIT_LUA).
LimitHolds == \A key \in Keys : Cardinality(admitted[key]) <= Max

\* A client that is refused is not refused for good: the counter is gone at the end of its window,
\* which hits do not put off (RATE_LIMIT_LUA sets the TTL with the first hit).
WindowsEnd == \A key \in Limited \X Ips : bucket[key].count > 0 ~> bucket[key].count = 0

\* An operation log never tells of a success that was not: the change is committed. All rows of a
\* request say the same (OperationLogInterceptor; the rows of a job that is run again).
RowsTellTheTruth ==
    \A r \in Requests : \A i \in DOMAIN rows[r] :
        /\ rows[r][i].success => r \in changed
        /\ rows[r][i] = rows[r][1]
        /\ rows[r][i].actor # NoUser \/ request[r].route \in Public

\* An admitted request to an audited route leaves a row, unless its process dies, or Redis refuses
\* the job, or the job stays among the failed ones (OperationLogInterceptor.enqueue,
\* AuditLogProcessor).
AuditSettles ==
    \A r \in Requests :
        At(r, "handle") /\ request[r].route \in Audited ~>
            request[r].lost \/ rows[r] # <<>> \/ job[r].state = "failed"
==============================================================================
