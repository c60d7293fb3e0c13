------------------------------- MODULE Context -------------------------------
(* The context of a request: its id and, after the guards, its user.            *)
(*                                                                            *)
(* RequestContextMiddleware runs a request in an AsyncLocalStorage of its own,  *)
(* UserContextInterceptor writes the user into it, and whatever the request     *)
(* does later reads it there: AuditFieldsSubscriber stamps the audited rows     *)
(* (one of them is modelled) that TypeORM inserts, saves or updates, and        *)
(* QueueProducer copies the id into the data of a job, from which               *)
(* BaseQueueProcessor makes the context of each run of it.                      *)
EXTENDS Naturals, Sequences

CONSTANTS Flows,        \* requests
          Subs,         \* who may have sent them
          HeaderIds,    \* ids that clients and gateways send
          JobAttempts,  \* task.maxAttempt
          NoId, NoSub

\* A generated id is one.
ASSUME ContextAssumption == NoId \notin Seq(Nat)

VARIABLES flow,    \* flow[f]: the request, and the entity it has read
          store,   \* store[f]: its RequestContextData
          entity,  \* a row of an audited table
          author,  \* who inserted it, and the last user whose request wrote it
          task,    \* task[f]: the job of the queue `task` of the row that f may create
          dead,    \* dead[f]: the originData of its record in the queue `dead-letter`
          uuids    \* how many ids have been generated

ctxVars == <<flow, store, entity, author, task, dead, uuids>>

\* createdBy and createdByUsername, updatedBy and updatedByUsername, of an entity that is made.
Unstamped == [createdBy |-> NoSub, updatedBy |-> NoSub]

\* by: who has enqueued it; data: the requestId in its data; runs: the ids in whose context it
\* has been run.
NoTask == [by |-> "none", data |-> NoId, runs |-> <<>>, state |-> "none"]

\* Outside a context.
NoStore == [requestId |-> NoId, sub |-> NoSub]

ContextInit ==
    /\ flow = [f \in Flows |-> [step |-> "sent", user |-> NoSub, named |-> NoId, answer |-> NoId,
                               loaded |-> Unstamped]]
    /\ store = [f \in Flows |-> NoStore]
    /\ entity = [exists |-> FALSE, stamps |-> Unstamped]
    /\ author = Unstamped
    /\ task = [f \in Flows |-> NoTask]
    /\ dead = [f \in Flows |-> {}]
    /\ uuids = 0

In(f, step) == flow[f].step = step
Moves(f, step) == flow' = [flow EXCEPT ![f].step = step]

\* uuidv4.
Generated == <<uuids + 1>>

------------------------------------------------------------------------------
\* getRequestId: what the first of the four headers says that is there, or a new id.  named: the
\* header x-request-id; other: the first of x-correlation-id, request-id and correlation-id.
RequestIdOf(named, other) ==
    IF named # NoId THEN named ELSE IF other # NoId THEN other ELSE Generated

\* RequestContextMiddleware.use.
Enters(f) ==
    /\ In(f, "sent")
    /\ \E named, other \in HeaderIds \cup {NoId} :
          LET id == RequestIdOf(named, other) IN
          /\ store' = [store EXCEPT ![f].requestId = id]
          /\ uuids' = IF id = Generated THEN uuids + 1 ELSE uuids
          /\ flow' = [flow EXCEPT ![f].step = "guarded", ![f].named = named]
    /\ UNCHANGED <<entity, author, task, dead>>

\* setUser.
SetUser(context, user) == [context EXCEPT !.sub = user]

\* UserContextInterceptor: the guards have found out whose token it is; a public route has no user.
UserIsSet(f) ==
    /\ In(f, "guarded")
    /\ \E user \in Subs \cup {NoSub} :
          /\ store' = [store EXCEPT ![f] = IF user # NoSub THEN SetUser(@, user) ELSE @]
          /\ flow' = [flow EXCEPT ![f].step = "handler", ![f].user = user]
    /\ UNCHANGED <<entity, author, task, dead, uuids>>

------------------------------------------------------------------------------
(* AuditFieldsSubscriber                                                       *)

\* beforeInsert: a new entity has no stamps of its own.
BeforeInsert(stamps, sub) ==
    [createdBy |-> IF stamps.createdBy = NoSub THEN sub ELSE stamps.createdBy,
     updatedBy |-> IF stamps.updatedBy = NoSub THEN sub ELSE stamps.updatedBy]

\* Mutant: what is there is kept, as at an insert.
BeforeUpdateKeeping(stamps, sub) == BeforeInsert(stamps, sub)

\* beforeUpdate.
BeforeUpdate(stamps, sub) == IF sub = NoSub THEN stamps ELSE [stamps EXCEPT !.updatedBy = sub]

\* A request creates the row; registering is a public route.
CreatesRow(f) ==
    /\ In(f, "handler") /\ ~entity.exists
    /\ entity' = [exists |-> TRUE, stamps |-> BeforeInsert(Unstamped, store[f].sub)]
    /\ author' = [createdBy |-> flow[f].user, updatedBy |-> flow[f].user]
    /\ Moves(f, "replies")
    /\ UNCHANGED <<store, task, dead, uuids>>

Loads(f) ==
    /\ In(f, "handler") /\ entity.exists
    /\ flow' = [flow EXCEPT ![f].step = "loaded", ![f].loaded = entity.stamps]
    /\ UNCHANGED <<store, entity, author, task, dead, uuids>>

\* save() of the entity that was loaded, by a route that needs a user: all its columns are written
\* that differ from the row of now.
Saves(f) ==
    /\ In(f, "loaded") /\ flow[f].user # NoSub
    /\ entity' = [entity EXCEPT !.stamps = BeforeUpdate(flow[f].loaded, store[f].sub)]
    /\ author' = [author EXCEPT !.updatedBy = flow[f].user]
    /\ Moves(f, "replies")
    /\ UNCHANGED <<store, task, dead, uuids>>

\* update(criteria) and increment, of the row of now: before it makes the statement TypeORM passes the
\* values to be set to beforeUpdate as the entity.  A login's lastLoginAt, which is public, sets no
\* stamps; softRemove has a hook of its own, which is not one of the subscriber's (Answers).
UpdatesByCriteria(f) ==
    /\ flow[f].step \in {"handler", "loaded"} /\ entity.exists
    /\ entity' = [entity EXCEPT !.stamps = BeforeUpdate(@, store[f].sub)]
    /\ author' = IF flow[f].user # NoSub THEN [author EXCEPT !.updatedBy = flow[f].user] ELSE author
    /\ Moves(f, "replies")
    /\ UNCHANGED <<store, task, dead, uuids>>

------------------------------------------------------------------------------
(* QueueProducer and BaseQueueProcessor                                        *)

\* Mutant: the data goes into the queue as it is.
WithContextBare(data, id) == data

\* withContext: an id that is in the data already is kept.
WithContext(data, id) == IF data # NoId THEN data ELSE id

\* createAndEnqueue, in the context of the request.
AddsTask(f) ==
    /\ In(f, "handler") /\ task[f].state = "none"
    /\ task' = [task EXCEPT ![f].by = "request", ![f].state = "waiting",
                            ![f].data = WithContext(NoId, store[f].requestId)]
    /\ Moves(f, "replies")
    /\ UNCHANGED <<store, entity, author, dead, uuids>>

\* TaskDispatchSchedule, where the request has lost its add(): there is no context to copy.
DispatchesTask(f) ==
    /\ In(f, "done") /\ task[f].state = "none"
    /\ task' = [task EXCEPT ![f].by = "dispatcher", ![f].state = "waiting"]
    /\ UNCHANGED <<flow, store, entity, author, dead, uuids>>

\* bullJobToRequestContext: each run of a job without an id gets one of its own.
JobContext(f) == IF task[f].data # NoId THEN task[f].data ELSE Generated

\* runWithBullJobContext.
RunsJob(f) ==
    /\ task[f].state = "waiting"
    /\ task' = [task EXCEPT ![f].state = "active", ![f].runs = Append(@, JobContext(f))]
    /\ uuids' = IF task[f].data # NoId THEN uuids ELSE uuids + 1
    /\ UNCHANGED <<flow, store, entity, author, dead>>

EndsJob(f) ==
    /\ task[f].state = "active"
    /\ task' = [task EXCEPT ![f].state = "completed"]
    /\ UNCHANGED <<flow, store, entity, author, dead, uuids>>

\* The handler throws, and onFailed makes a record of the last attempt, with the job's data.
FailsJob(f) ==
    LET last == Len(task[f].runs) >= JobAttempts IN
    /\ task[f].state = "active"
    /\ task' = [task EXCEPT ![f].state = IF last THEN "failed" ELSE "waiting"]
    /\ dead' = IF last THEN [dead EXCEPT ![f] = {task[f].data}] ELSE dead
    /\ UNCHANGED <<flow, store, entity, author, uuids>>

------------------------------------------------------------------------------
\* TransformInterceptor and AllExceptionsFilter: the header x-request-id, or the context's id.  The
\* handler may throw at any point.
Answers(f) ==
    /\ flow[f].step \in {"guarded", "handler", "loaded", "replies"}
    /\ flow' = [flow EXCEPT ![f].step = "done",
                            ![f].answer = IF flow[f].named # NoId
                                          THEN flow[f].named ELSE store[f].requestId]
    /\ UNCHANGED <<store, entity, author, task, dead, uuids>>

FlowStep(f) ==
    Enters(f) \/ UserIsSet(f) \/ CreatesRow(f) \/ Loads(f) \/ Saves(f) \/ UpdatesByCriteria(f) \/ Answers(f)

JobStep(f) == AddsTask(f) \/ DispatchesTask(f) \/ RunsJob(f) \/ EndsJob(f) \/ FailsJob(f)

ContextNext == \E f \in Flows : FlowStep(f) \/ JobStep(f)

------------------------------------------------------------------------------
\* An audited row names the user who created it, or nobody where it was a public route, and the user
\* who wrote it last, with save() of what was loaded before or with update() of the row of now,
\* however requests interleave (AuditFieldsSubscriber, AsyncLocalStorage).
ActorIsRecorded == entity.exists => entity.stamps = author

\* Whatever a request leads to carries the id it has been given: its answer, every run of its job on
\* every attempt, and the record of a job that has failed for good (QueueProducer.withContext,
\* bullJobToRequestContext, TaskRetryProcessor.onFailed).
TraceFollows ==
    \A f \in Flows :
        /\ flow[f].answer \in {NoId, store[f].requestId}
        /\ task[f].by = "request" =>
              /\ \A i \in DOMAIN task[f].runs : task[f].runs[i] = store[f].requestId
              /\ dead[f] \subseteq {store[f].requestId}
==============================================================================
