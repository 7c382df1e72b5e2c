------------------------------ MODULE TaskApi -------------------------------
(***************************************************************************)
(* What an agent sees of tasks: the tasks/* methods (router.rs,            *)
(* task_methods.rs, governance/handlers.rs, protocol/task.rs) and the      *)
(* capabilities an initialize is answered with (protocol/capability.rs,    *)
(* capabilities.rs).  TaskStore has the store itself; here its tasks move  *)
(* and are swept while requests wait for the caller's identity, which is   *)
(* read anew from the environment for each (policy/principal.rs).          *)
(*                                                                         *)
(* created_at is any reading of the wall clock.  A JSON document is a      *)
(* function from its paths to "object", "true" or "other".                 *)
(***************************************************************************)
EXTENDS Integers, Sequences, FiniteSets, SequencesExt, TaskStatus

CONSTANTS Tasks, None,
          Gone,            \* stands for a task that was removed
          Handlers,        \* requests in progress
          Environments,    \* what an inference may find: dev, hostname, namespace, token
          DefaultPrincipal,\* of the evaluator, when inference fails
          ForeignId,       \* an id without the tg_ prefix
          Clock,           \* readings of the wall clock
          Fields,          \* names that an object of a document may have
          Results,         \* documents an upstream answers initialize with
          PageSize,        \* 20
          Workloads        \* bounds of one behaviour: methods, ids, statuses, environments,
                           \* and whether there is an approval engine

ASSUME ApiAssumption == PageSize \in Nat \ {0} /\ Clock \subseteq Int

ASSUME WorkloadsAssumption ==
    \A w \in Workloads : w.ids \subseteq Tasks /\ w.statuses \subseteq Status /\ w.environments \subseteq Environments

\* The variables of a process stay as they are; the mounted files may not.
ASSUME EnvironmentAssumption ==
    \A e, f \in Environments : e.dev = f.dev /\ e.hostname = f.hostname

VARIABLES load,      \* the workload of this behaviour
          task,      \* the store's tasks
          index,     \* by_principal: of each app the ids, in the order they came
          sweeping,  \* the task cleanup_terminal has taken out and not yet its id
          request,   \* what each handler works on
          cache,     \* CapabilityCache
          reply,     \* what was answered in this step, None when nothing was
          walk,      \* a client reading the whole list, page by page; when it is done,
                     \* how many tasks it missed and how many were swept meanwhile
          shown      \* the terminal status a client was shown of a task (history)

vars == <<load, task, index, sweeping, request, cache, reply, walk, shown>>
storeVars == <<load, task, index, sweeping>>

NoWalk == [phase |-> "none", cursor |-> None, seen |-> {}, must |-> {}, removed |-> {}, missed |-> 0, swept |-> 0]

Existing == {t \in Tasks : task[t] \notin {None, Gone}}

\* Sep1686Status::is_terminal.
WireTerminal == {"completed", "failed", "cancelled"}

----------------------------------------------------------------------------
(* Who asks.                                                               *)

\* parse_service_account_from_token: a token that cannot be read or parsed
\* leaves the account "default".
ServiceAccount(env) == IF env.token = None THEN "default" ELSE env.token

KubernetesPrincipal(env) ==
    IF env.hostname = None \/ env.namespace = None THEN None
    ELSE [app |-> env.hostname, namespace |-> env.namespace, account |-> ServiceAccount(env)]

DevModePrincipal == [app |-> "dev", namespace |-> "development", account |-> "dev-sa"]

InferPrincipal(env) == IF env.dev THEN DevModePrincipal ELSE KubernetesPrincipal(env)

\* infer_principal_optional, for a tools/call: without an identity, the evaluator's.
EffectivePrincipal(env) == IF InferPrincipal(env) = None THEN DefaultPrincipal ELSE InferPrincipal(env)

\* rate_limit_key: without a user or a session, the application alone.
RateLimitKey(p) == p.app

Principals == {InferPrincipal(e) : e \in Environments} \ {None}
Owners == Principals \cup {DefaultPrincipal}
Keys == {RateLimitKey(p) : p \in Owners}

\* A task of the store, as far as requests see it.
TaskRecord == [status : Status, principal : Owners, at : Clock, result : BOOLEAN]

\* None, Gone and a foreign id are nothing else.
ASSUME NamesAssumption ==
    /\ None \notin Tasks \cup TaskRecord \cup WireTerminal \cup Nat \cup {Gone, ForeignId, DefaultPrincipal}
    /\ Gone \notin TaskRecord /\ ForeignId \notin Tasks

----------------------------------------------------------------------------
(* Pure parts of the protocol.                                             *)

\* From<TaskStatus> for Sep1686Status.
Sep1686Status(s) ==
    CASE s \in {"Working", "Executing"} -> "working"
      [] s = "InputRequired" -> "input_required"
      [] s = "Completed" -> "completed"
      [] s \in {"Failed", "Rejected", "Expired"} -> "failed"
      [] s = "Cancelled" -> "cancelled"

\* Sep1686TaskId: what ThoughtGate makes has the prefix.
IsThoughtgateOwned(id) == id # ForeignId

\* McpRouter::route of the task methods; a taskId that is missing or no string
\* is None.
Route(method, id) ==
    IF method = "list" \/ (id # None /\ IsThoughtgateOwned(id)) THEN "handler" ELSE "upstream"

\* What tasks/get, tasks/list and a granted tasks/cancel say of a task.
Metadata(t) == [task |-> t, status |-> Sep1686Status(task[t].status), poll |-> task[t].status \notin Terminal]
ListEntry(t) == [task |-> t, status |-> Sep1686Status(task[t].status)]
CancelResponse(t) == [task |-> t, status |-> "cancelled"]

\* handle_tasks_result of a task that has ended.
ErrorContent(t) ==
    CASE task[t].status = "Failed" -> "failure"
      [] task[t].status = "Rejected" -> "rejected"
      [] OTHER -> "ended"
ResultOf(t) == IF task[t].result THEN "result" ELSE ErrorContent(t)

\* list_for_principal, from the ids it copied: newest first, in the order of the
\* index among equals, as the place each task has in the list.  Ids whose task is
\* gone are passed over.
Listed(ids) == ToSet(ids) \cap Existing
Before(ids, a, b) == \E j, k \in DOMAIN ids : j < k /\ ids[j] = a /\ ids[k] = b
Newer(ids, a, b) == task[a].at > task[b].at \/ (task[a].at = task[b].at /\ Before(ids, a, b))
Place(ids, t) == Cardinality({u \in Listed(ids) : Newer(ids, u, t)})
ListForPrincipal(ids, offset, limit) == {t \in Listed(ids) : Place(ids, t) \in offset .. offset + limit - 1}

\* A cursor that is missing or no number starts at the beginning.
ParseCursor(cursor) == IF cursor \in Nat THEN cursor ELSE 0

\* handle_tasks_list: one task more than a page is asked for, to know of another.
HandleTasksListExactly(ids, cursor) ==
    LET offset == ParseCursor(cursor)
        tasks == ListForPrincipal(ids, offset, PageSize)
    IN [tasks |-> tasks, next |-> IF Cardinality(tasks) > PageSize THEN offset + PageSize ELSE None]
HandleTasksList(ids, cursor) ==
    LET offset == ParseCursor(cursor)
        tasks == ListForPrincipal(ids, offset, PageSize + 1)
    IN [tasks |-> {t \in tasks : Place(ids, t) < offset + PageSize},
        next |-> IF Cardinality(tasks) > PageSize THEN offset + PageSize ELSE None]

----------------------------------------------------------------------------
(* Capabilities: documents and what an initialize makes of them.           *)

TasksCall == <<"capabilities", "tasks", "requests", "tools/call">>
SseStatus == <<"capabilities", "notifications", "tasks", "status">>

Says(doc, path) == path \in DOMAIN doc /\ doc[path] = "true"
ExtractUpstreamTaskSupport(doc) == Says(doc, TasksCall)
ExtractUpstreamSseSupport(doc) == Says(doc, SseStatus)

IsObject(doc, path) == path \in DOMAIN doc /\ doc[path] = "object"

\* A document has what is in its objects, and each path in the object above it.
Document(doc) ==
    /\ DOMAIN doc \subseteq Seq(Fields)
    /\ \A p \in DOMAIN doc : p # <<>> => IsObject(doc, Front(p))
ASSUME DocumentsAssumption ==
    /\ {"capabilities", "tasks", "requests", "tools/call", "notifications", "status"} \subseteq Fields
    /\ \A doc \in Results : Document(doc)

\* What is on the way to a path, from the top.
Ancestors(path) == {SubSeq(path, 1, n) : n \in 0..Len(path) - 1}

\* inject_task_capability makes what is missing on the way, and stops silently
\* at something that is no object.  What was at the end is replaced.
InjectAnew(doc) == [p \in Ancestors(TasksCall) \cup {TasksCall} |-> IF p = TasksCall THEN "true" ELSE "object"]
Blocked(doc, path) == \E q \in Ancestors(path) : q \in DOMAIN doc /\ ~IsObject(doc, q)
Made(doc) == {p \in Ancestors(TasksCall) \cup {TasksCall} : ~Blocked(doc, p) /\ (p \in DOMAIN doc => p = TasksCall)}
Replaced(doc) == {p \in DOMAIN doc : ~Blocked(doc, TasksCall) /\ IsPrefix(TasksCall, p)}
InjectTaskCapability(doc) ==
    IF ~IsObject(doc, <<>>) THEN doc
    ELSE [p \in (DOMAIN doc \ Replaced(doc)) \cup Made(doc) |->
             IF p \notin Made(doc) THEN doc[p] ELSE IF p = TasksCall THEN "true" ELSE "object"]

Without(doc, paths) == [p \in DOMAIN doc \ paths |-> doc[p]]
Empty(doc, path) == ~\E p \in DOMAIN doc : Len(p) = Len(path) + 1 /\ IsStrictPrefix(path, p)

\* strip_sse_capability takes the status out, and the objects this leaves empty.
StripStatus(doc) == Without(doc, {p \in DOMAIN doc : IsPrefix(SseStatus, p)})
RemoveEmpty(doc, path) == IF IsObject(doc, path) /\ Empty(doc, path) THEN Without(doc, {path}) ELSE doc
StripSseCapability(doc) ==
    LET tasks == Front(SseStatus)
        notifications == Front(tasks)
    IN RemoveEmpty(RemoveEmpty(StripStatus(doc), tasks), notifications)

----------------------------------------------------------------------------
(* The store, as far as requests see it.                                   *)

Init ==
    /\ load \in Workloads
    /\ task = [t \in Tasks |-> None]
    /\ index = [k \in Keys |-> <<>>] /\ sweeping = None
    /\ request = [h \in Handlers |-> None]
    /\ cache = [tasks |-> FALSE, sse |-> FALSE, initialized |-> FALSE]
    /\ reply = None /\ walk = NoWalk
    /\ shown = [t \in Tasks |-> None]

\* A decision, an execution or a sweep moves a task on; only a request cancels it.
Move(t) ==
    /\ t \in Existing
    /\ \E s \in load.statuses \ {"Cancelled"} :
          /\ CanTransitionTo(task[t].status, s)
          /\ task' = [task EXCEPT ![t].status = s, ![t].result = (s = "Completed")]
    /\ reply' = None
    /\ UNCHANGED <<load, index, sweeping, request, cache, walk, shown>>

\* record_auto_approve_result: an expired task gets a result and stays expired.
\* The call tests no status; its caller read Expired, and nothing but a removal
\* follows that (TaskStore takes the two steps apart).
RecordAutoApproveResult(t) ==
    /\ t \in Existing /\ task[t].status = "Expired" /\ ~task[t].result
    /\ task' = [task EXCEPT ![t].result = TRUE]
    /\ reply' = None
    /\ UNCHANGED <<load, index, sweeping, request, cache, walk, shown>>

\* cleanup_terminal: first the task, then its id.
RemoveTask(t) ==
    /\ sweeping = None /\ t \in Existing /\ task[t].status \in Terminal
    /\ sweeping' = [task |-> t, key |-> RateLimitKey(task[t].principal)]
    /\ task' = [task EXCEPT ![t] = Gone]
    /\ walk' = [walk EXCEPT !.removed = IF walk.phase = "reading" THEN @ \cup {t} ELSE @]
    /\ reply' = None
    /\ UNCHANGED <<load, index, request, cache, shown>>

\* retain, of an id that is in the list once, or not yet.
Retain(ids, t) ==
    IF t \in ToSet(ids) THEN RemoveAt(ids, CHOOSE k \in DOMAIN ids : ids[k] = t) ELSE ids
RetainIndex ==
    /\ sweeping # None
    /\ index' = [index EXCEPT ![sweeping.key] = Retain(@, sweeping.task)]
    /\ sweeping' = None /\ reply' = None
    /\ UNCHANGED <<load, task, request, cache, walk, shown>>

----------------------------------------------------------------------------
(* Requests.                                                               *)

\* What a handler knows of its request.
NewRequest(method, id, phase) ==
    [method |-> method, id |-> id, phase |-> phase, caller |-> None, ids |-> <<>>, doc |-> None]

Start(h, method, id, phase) ==
    /\ request[h] = None /\ method \in load.methods
    /\ request' = [request EXCEPT ![h] = NewRequest(method, id, phase)]
    /\ reply' = None

\* Shown once is shown: the terminal status of a task as a client has read it.
Show(entries) ==
    shown' = [t \in Tasks |->
        IF shown[t] = None /\ \E e \in entries : e.task = t /\ e.status \in WireTerminal
        THEN (CHOOSE e \in entries : e.task = t).status ELSE shown[t]]

Reply(r, kind, entries, doc) ==
    [method |-> r.method, id |-> r.id, caller |-> r.caller, said |-> r.doc, kind |-> kind, entries |-> entries, told |-> doc]

Answer(h, kind, entries, doc) ==
    /\ reply' = Reply(request[h], kind, entries, doc)
    /\ request' = [request EXCEPT ![h] = None]
    /\ Show(entries)

Error(h, kind) == Answer(h, kind, {}, None)

\* A tools/call that needs approval and has task metadata, while ids last.
FreshIds == {t \in load.ids : task[t] = None}
CallTool(h) ==
    /\ Cardinality({g \in Handlers : request[g] # None /\ request[g].phase = "create"}) < Cardinality(FreshIds)
    /\ Start(h, "call", None, "create")
    /\ UNCHANGED <<storeVars, cache, walk, shown>>

\* The task is in the map before its id is in the index.
CreateTask(h) ==
    /\ request[h] # None /\ request[h].phase = "create" /\ FreshIds # {}
    /\ \E at \in Clock, e \in load.environments :
          LET t == CHOOSE u \in FreshIds : TRUE
              p == EffectivePrincipal(e)
          IN
          /\ task' = [task EXCEPT ![t] = [status |-> "Working", principal |-> p, at |-> at, result |-> FALSE]]
          /\ request' = [request EXCEPT ![h].id = t, ![h].caller = p, ![h].phase = "index"]
    /\ reply' = None
    /\ UNCHANGED <<load, index, sweeping, cache, walk, shown>>

AddToIndex(h) ==
    /\ request[h] # None /\ request[h].phase = "index"
    /\ index' = [index EXCEPT ![RateLimitKey(request[h].caller)] = Append(@, request[h].id)]
    /\ Answer(h, "created", {}, None)
    /\ UNCHANGED <<load, task, sweeping, cache, walk>>

\* route_request of tasks/get, tasks/result and tasks/cancel.
TaskRequest(h, method) ==
    /\ \E id \in Tasks \cup {ForeignId, None} :
          /\ id \in Tasks => task[id] # None
          /\ Start(h, method, id, IF Route(method, id) = "handler" THEN "verify" ELSE "upstream")
    /\ UNCHANGED <<storeVars, cache, walk, shown>>

PassThrough(h) ==
    /\ request[h] # None /\ request[h].phase = "upstream"
    /\ Answer(h, "forwarded", {}, None)
    /\ UNCHANGED <<storeVars, cache, walk>>

\* verify_task_principal: no identity, no task and another's task look the same.
VerifiesNobody(h) ==
    /\ request[h] # None /\ request[h].phase = "verify"
    /\ \E e \in load.environments : request' = [request EXCEPT ![h].caller = InferPrincipal(e), ![h].phase = "act"]
    /\ reply' = None
    /\ UNCHANGED <<storeVars, cache, walk, shown>>
VerifyTaskPrincipal(h) ==
    /\ request[h] # None /\ request[h].phase = "verify"
    /\ \E e \in load.environments :
          LET p == InferPrincipal(e) IN
          IF p = None \/ request[h].id \notin Existing \/ task[request[h].id].principal # p
          THEN /\ reply' = Reply([request[h] EXCEPT !.caller = p], "not_found", {}, None)
               /\ request' = [request EXCEPT ![h] = None]
          ELSE /\ request' = [request EXCEPT ![h].caller = p, ![h].phase = "act"]
               /\ reply' = None
    /\ UNCHANGED <<storeVars, cache, walk, shown>>

Acts(h, method) == request[h] # None /\ request[h].method = method /\ request[h].phase = "act"

HandleTasksGet(h) ==
    /\ Acts(h, "get")
    /\ IF request[h].id \in Existing THEN Answer(h, "metadata", {Metadata(request[h].id)}, None)
       ELSE Error(h, "not_found")
    /\ UNCHANGED <<storeVars, cache, walk>>

\* Without an engine the stored outcome is all there is; an expired task's result
\* is one that record_auto_approve_result left.
HandleTasksResult(h) ==
    /\ Acts(h, "result") /\ ~load.engine
    /\ LET t == request[h].id IN
       IF t \notin Existing THEN Error(h, "not_found")
       ELSE IF task[t].status \notin Terminal THEN Error(h, "not_ready")
       ELSE Answer(h, ResultOf(t), {}, None)
    /\ UNCHANGED <<storeVars, cache, walk>>

\* execute_on_result by status.  ApprovalFlow has the execution of an approved or
\* of an expired task, which may end in its result or in an error.
EngineAnswers(t) ==
    CASE task[t].status \in {"Working", "InputRequired"} -> {"not_ready"}
      [] task[t].status \in {"Executing", "Expired"} -> {"result", "failure"}
      [] task[t].status = "Completed" -> {"result"}
      [] OTHER -> {ErrorContent(t)}
ExecuteOnResult(h) ==
    /\ Acts(h, "result") /\ load.engine
    /\ LET t == request[h].id IN
       IF t \notin Existing THEN Error(h, "not_found")
       ELSE \E a \in EngineAnswers(t) : Answer(h, a, {}, None)
    /\ UNCHANGED <<storeVars, cache, walk>>

\* handle_tasks_cancel and TaskStore::cancel, which a cancelled task grants again.
CancelsAnything(h) ==
    /\ Acts(h, "cancel")
    /\ IF request[h].id \in Existing
       THEN /\ task' = [task EXCEPT ![request[h].id].status = "Cancelled"]
            /\ Answer(h, "cancelled", {CancelResponse(request[h].id)}, None)
       ELSE Error(h, "not_found") /\ UNCHANGED task
    /\ UNCHANGED <<load, index, sweeping, cache, walk>>
HandleTasksCancel(h) ==
    LET t == request[h].id IN
    /\ Acts(h, "cancel")
    /\ IF t \notin Existing THEN Error(h, "not_found") /\ UNCHANGED task
       ELSE IF task[t].status \in {"InputRequired", "Cancelled"}
       THEN /\ task' = [task EXCEPT ![t].status = "Cancelled"]
            /\ Answer(h, "cancelled", {CancelResponse(t)}, None)
       ELSE /\ Error(h, IF task[t].status \in Terminal THEN "already_terminal" ELSE "invalid_transition")
            /\ UNCHANGED task
    /\ UNCHANGED <<load, index, sweeping, cache, walk>>

\* A client begins to read the list, or goes on with the cursor it was given.
TasksList(h) ==
    /\ ~\E g \in Handlers : request[g] # None /\ request[g].method = "list"
    /\ Start(h, "list", None, "infer")
    /\ walk' = IF walk.phase = "reading" THEN walk
               ELSE [NoWalk EXCEPT !.phase = "reading",
                                   !.must = Existing \cap UNION {ToSet(index[RateLimitKey(p)]) : p \in Principals}]
    /\ UNCHANGED <<storeVars, cache, shown>>

\* infer_principal_or_error, and the copy of the ids list_for_principal begins with.
CopyIds(h) ==
    /\ request[h] # None /\ request[h].phase = "infer"
    /\ \E e \in load.environments :
          LET p == InferPrincipal(e) IN
          IF p = None
          THEN Error(h, "denied") /\ walk' = [NoWalk EXCEPT !.phase = "failed"]
          ELSE /\ request' = [request EXCEPT ![h].caller = p, ![h].ids = index[RateLimitKey(p)], ![h].phase = "read"]
               /\ reply' = None /\ UNCHANGED <<shown, walk>>
    /\ UNCHANGED <<storeVars, cache>>

ReadList(h) ==
    /\ request[h] # None /\ request[h].phase = "read"
    /\ LET page == HandleTasksList(request[h].ids, walk.cursor) IN
       /\ Answer(h, "list", {ListEntry(t) : t \in page.tasks}, None)
       /\ walk' = LET seen == walk.seen \cup page.tasks IN
                  IF page.next # None THEN [walk EXCEPT !.seen = seen, !.cursor = page.next]
                  ELSE [NoWalk EXCEPT !.phase = "complete", !.swept = Cardinality(walk.removed),
                                      !.missed = Cardinality((walk.must \ walk.removed) \ seen)]
    /\ UNCHANGED <<storeVars, cache>>

\* handle_initialize_method up to the upstream's answer: an error or an answer
\* without a result goes back as it is.
Initialize(h) ==
    /\ Start(h, "initialize", None, "forward")
    /\ UNCHANGED <<storeVars, cache, walk, shown>>

InitializeAnswered(h) ==
    /\ request[h] # None /\ request[h].phase = "forward"
    /\ \/ Error(h, "upstream_error")
       \/ \E doc \in Results :
             /\ request' = [request EXCEPT ![h].doc = doc, ![h].phase = "tasks"]
             /\ reply' = None /\ UNCHANGED shown
    /\ UNCHANGED <<storeVars, cache, walk>>

\* The two flags are stored one after the other.
SetUpstreamSupportsTasks(h) ==
    /\ request[h] # None /\ request[h].phase = "tasks"
    /\ cache' = [cache EXCEPT !.tasks = ExtractUpstreamTaskSupport(request[h].doc), !.initialized = TRUE]
    /\ request' = [request EXCEPT ![h].phase = "sse"]
    /\ reply' = None
    /\ UNCHANGED <<storeVars, walk, shown>>

SetUpstreamSupportsTaskSse(h) ==
    /\ request[h] # None /\ request[h].phase = "sse"
    /\ cache' = [cache EXCEPT !.sse = ExtractUpstreamSseSupport(request[h].doc)]
    /\ Answer(h, "initialized", {}, StripSseCapability(InjectTaskCapability(request[h].doc)))
    /\ UNCHANGED <<storeVars, walk>>

----------------------------------------------------------------------------

HandlerStep(h) ==
    \/ CreateTask(h) \/ AddToIndex(h) \/ PassThrough(h) \/ VerifyTaskPrincipal(h)
    \/ HandleTasksGet(h) \/ HandleTasksResult(h) \/ ExecuteOnResult(h) \/ HandleTasksCancel(h)
    \/ CopyIds(h) \/ ReadList(h)
    \/ InitializeAnswered(h) \/ SetUpstreamSupportsTasks(h) \/ SetUpstreamSupportsTaskSse(h)

Arrive(h) ==
    \/ CallTool(h) \/ TasksList(h) \/ Initialize(h)
    \/ \E method \in {"get", "result", "cancel"} : TaskRequest(h, method)

StoreStep ==
    \/ \E t \in Tasks : Move(t) \/ RecordAutoApproveResult(t) \/ RemoveTask(t)
    \/ RetainIndex

Next == StoreStep \/ \E h \in Handlers : Arrive(h) \/ HandlerStep(h)

Spec == Init /\ [][Next]_vars


----------------------------------------------------------------------------
(* Properties.                                                             *)

Phases == {"create", "index", "verify", "act", "upstream", "infer", "read", "forward", "tasks", "sse"}
Request == [method : {"call", "get", "result", "cancel", "list", "initialize"}, id : Tasks \cup {ForeignId, None},
            phase : Phases, caller : Owners \cup {None}, ids : Seq(Tasks), doc : Results \cup {None}]

\* Every variable has its type; what is swept is gone.
TypeOK ==
    /\ load \in Workloads
    /\ task \in [Tasks -> TaskRecord \cup {None, Gone}]
    /\ index \in [Keys -> Seq(Tasks)]
    /\ sweeping # None => sweeping.key \in Keys /\ sweeping.task \in Tasks /\ task[sweeping.task] = Gone
    /\ request \in [Handlers -> Request \cup {None}]
    /\ cache \in [tasks : BOOLEAN, sse : BOOLEAN, initialized : BOOLEAN]
    /\ walk \in [phase : {"none", "reading", "failed", "complete"}, cursor : Nat \cup {None}, seen : SUBSET Tasks,
                 must : SUBSET Tasks, removed : SUBSET Tasks, missed : Nat, swept : Nat]
    /\ shown \in [Tasks -> WireTerminal \cup {None}]

\* Isolation of principals (REQ-GOV-001/F-011), which verify_task_principal checks
\* before the handler reads the task again: a caller learns of a task's status or
\* result, or cancels it, only as its owner; the owner is told "not found" only of a
\* task that is gone; and a listing has no task of another application.
IsolationExact ==
    reply # None =>
        LET id == reply.id
            caller == reply.caller
        IN /\ reply.method \in {"get", "result", "cancel"} /\ id \in Existing /\ reply.kind # "forwarded" =>
                  (reply.kind = "not_found" <=> caller # task[id].principal)
           /\ reply.kind = "list" =>
                  \A e \in reply.entries : RateLimitKey(task[e.task].principal) = RateLimitKey(caller)

\* A task that ends stays as it ended for everyone: once some client was shown a
\* terminal status, what is read after that shows the same status (tasks/get,
\* tasks/list), is never "not ready" (tasks/result), and is "cancelled" again or
\* refused as already terminal, whichever it was (tasks/cancel).
TerminalAnswersFinal ==
    [][reply' # None =>
          /\ \A e \in reply'.entries : shown[e.task] \in {None, e.status}
          /\ LET id == reply'.id IN
             (IF id \in Tasks THEN shown[id] # None ELSE FALSE) =>
                  /\ reply'.kind \notin {"not_ready", "invalid_transition"}
                  /\ reply'.kind = "already_terminal" => shown[id] # "cancelled"]_vars

\* Reading the list page by page (handle_tasks_list, a numeric offset into a list
\* that changes between the pages): a client that reaches the end has seen every task
\* that was there when it began and still is, but for at most one for each that was
\* swept meanwhile.  A new task only moves others further on, and so hides none.
WalkMissesOnlySwept == walk.missed <= walk.swept

\* What an initialize is answered: task support unless the upstream put something
\* else in its place, status notifications only when the upstream has them, and all
\* else as the upstream said it, but for the objects on the way to those
\* notifications, which may go (handle_initialize_method).
InitializeExact ==
    (reply # None /\ reply.kind = "initialized") =>
        LET said == reply.said
            told == reply.told
            own(p) == IsPrefix(TasksCall, p) \/ IsPrefix(SseStatus, p) \/ (Len(p) > 1 /\ IsPrefix(p, SseStatus))
            open == \A p \in Ancestors(TasksCall) : p \in DOMAIN said => said[p] = "object"
        IN /\ Says(told, SseStatus) => Says(said, SseStatus)
           /\ (<<>> \in DOMAIN said /\ open) => Says(told, TasksCall)
           /\ \A p \in DOMAIN said : ~own(p) => p \in DOMAIN told /\ told[p] = said[p]
           /\ \A p \in DOMAIN told : p # <<>> => IsObject(told, Front(p))

\* capabilities.rs:24 says of initialize that it "Conditionally advertises SSE (only
\* if upstream supports it)", and specs/REQ-CORE-007 (6.1, F-001.5) wants it so.
\* The handler strips it whatever the upstream has.
SseConditionallyAdvertised ==
    (reply # None /\ reply.kind = "initialized") =>
        (Says(reply.told, SseStatus) <=> Says(reply.said, SseStatus))

=============================================================================
