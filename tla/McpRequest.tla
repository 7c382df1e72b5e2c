----------------------------- MODULE McpRequest -----------------------------
(***************************************************************************)
(* The proxy's handling of MCP request bodies: thoughtgate-proxy/src/      *)
(* mcp_handler over transport/router.rs, transport/upstream.rs and Gates.  *)
(*                                                                         *)
(* Handlers of different bodies run on different threads, and the items of *)
(* one batch interleave at their awaits.  A handler first adds its body to *)
(* the shared byte counter, then takes one semaphore permit per item, and  *)
(* gives both back on every way out, a dropped future included.  An item   *)
(* is routed, gated, forwarded with retries or sent for approval.  A       *)
(* single call that waits for a human is handed to a background stream and *)
(* its handler leaves; in a batch the handler itself waits.  Cedar         *)
(* policies are reloaded at any time.  What the approval engine and the    *)
(* task store do inside a call is ApprovalFlow and TaskStore; here a call  *)
(* to them ends well or badly.                                             *)
(***************************************************************************)
EXTENDS Gates, FiniteSets

CONSTANTS Requests,            \* HTTP requests
          Bodies,              \* the bodies clients may send
          Configs,             \* the configurations a process may start with
          StartPolicy,         \* the Cedar policy loaded at start
          Policies,            \* the Cedar policies that may come into force
          LocalTask,           \* a task id this proxy issued ("tg_" prefix)
          MaxBody,             \* max_body_size
          MaxAggregate,        \* max_aggregate_buffer
          MaxBatch,            \* max_batch_size
          MaxConcurrent,       \* max_concurrent_requests, the semaphore's permits
          BatchConcurrency,    \* items of a batch in flight at once (16)
          MaxTransportRetries, \* 2 in the code
          MaxReloads           \* bound: policy reloads explored

ASSUME LimitsAssumption ==
    /\ \A n \in {MaxBody, MaxAggregate, MaxBatch, MaxConcurrent, MaxTransportRetries,
                 MaxReloads} : n \in Nat
    /\ BatchConcurrency \in Nat \ {0}
    /\ \A b \in Bodies : b.size \in Nat /\ Len(b.items) \in Nat \ {0}

ASSUME ConfigsAssumption == \A cfg \in Configs : cfg.loaded => Validate(cfg) /\ WellTyped(cfg)

Slots == Requests \X (1 .. (MaxBatch + 1))

VARIABLES config,      \* the process's configuration, fixed at start
          permitted,   \* what the Cedar policy in force permits
          reloads,     \* policy reloads so far
          body,        \* the body each request carries
          pc,          \* where its handler is
          buffered,    \* AtomicUsize buffered_bytes
          permits,     \* permits left in the semaphore
          at,          \* where each item of a body is
          tries,       \* connection attempts of an item that failed
          delivered,   \* times the upstream received an item
          responses,   \* items answered to the client
          gone         \* requests whose client went away or timed out

limitVars == <<buffered, permits>>
itemVars == <<at, tries, delivered>>
policyVars == <<config, permitted, reloads>>
vars == <<policyVars, body, pc, limitVars, itemVars, responses, gone>>

Init ==
    /\ config \in Configs /\ permitted = StartPolicy /\ reloads = 0
    /\ body = [r \in Requests |-> None]
    /\ pc = [r \in Requests |-> "new"]
    /\ buffered = 0 /\ permits = MaxConcurrent
    /\ at = [s \in Slots |-> "queued"]
    /\ tries = [s \in Slots |-> 0]
    /\ delivered = [s \in Slots |-> 0]
    /\ responses = [r \in Requests |-> {}]
    /\ gone = {}

----------------------------------------------------------------------------
(* Admission: handle_mcp_request and handle_mcp_body_bytes.                *)

Goto(r, l) == pc' = [pc EXCEPT ![r] = l]

\* The body is collected up to the limit; a longer one is answered at once.
Arrive(r, b) ==
    /\ pc[r] = "new"
    /\ body' = [body EXCEPT ![r] = b]
    /\ Goto(r, IF b.size > MaxBody THEN "done" ELSE "collected")
    /\ UNCHANGED <<policyVars, limitVars, itemVars, responses, gone>>

\* fetch_add on the byte counter; its result decides.
OverflowsIgnoringOwn(r) == buffered > MaxAggregate
Overflows(r) == buffered + body[r].size > MaxAggregate

Reserve(r) ==
    /\ pc[r] = "collected"
    /\ buffered' = buffered + body[r].size
    /\ Goto(r, IF Overflows(r) THEN "overflow" ELSE "parsing")
    /\ UNCHANGED <<policyVars, body, permits, itemVars, responses, gone>>

\* Over the limit: the matching fetch_sub is a step of its own.
UndoReserve(r) ==
    /\ pc[r] = "overflow"
    /\ buffered' = buffered - body[r].size
    /\ Goto(r, "done")
    /\ UNCHANGED <<policyVars, body, permits, itemVars, responses, gone>>

Cost(r) == Len(body[r].items)

\* Parse, check the batch size, take the permits or refuse.
Parse(r) ==
    LET admitted == body[r].kind # "bad" /\ Cost(r) <= MaxBatch /\ Cost(r) <= permits IN
    /\ pc[r] = "parsing"
    /\ permits' = IF admitted THEN permits - Cost(r) ELSE permits
    /\ Goto(r, IF admitted THEN "running" ELSE "leaving")
    /\ UNCHANGED <<policyVars, body, buffered, itemVars, responses, gone>>

\* BufferGuard is the last thing a handler drops.
DropBufferGuard(r) ==
    pc[r] = "leaving" /\ Goto(r, "done") /\ buffered' = buffered - body[r].size

Leave(r) ==
    /\ DropBufferGuard(r)
    /\ UNCHANGED <<policyVars, body, permits, itemVars, responses, gone>>

----------------------------------------------------------------------------
(* Routing of one item: McpRouter::route and route_request.                *)

Item(s) == body[s[1]].items[s[2]]
Live(s) == pc[s[1]] = "running" /\ s[2] <= Cost(s[1])
Ended == {"ok", "failed", "task", "stream"}
Active(s) == Live(s) /\ at[s] \notin Ended \cup {"queued"}

TaskMethods == {"tasks/get", "tasks/result", "tasks/cancel"}

\* tasks/* goes to the task handler when the id is one of ours.
RoutesToTaskHandler(m) ==
    m.method = "tasks/list" \/ (m.method \in TaskMethods /\ m.name = LocalTask)

\* validate_task_metadata: an action that may need approval, no task metadata
\* and no engine to block on.
NeedsApproval(m) == Evaluate(config, m.name) \in {"approve", "policy"}
TaskRequired(m) == NeedsApproval(m) /\ ~m.task /\ ~config.engine
Blocking(m) == NeedsApproval(m) /\ ~m.task /\ config.engine

\* Where the first uninterrupted run of route_request leaves an item.  With no
\* configuration the gates are Cedar alone.
Route(m) ==
    CASE m.method = "invalid"                                -> "failed"
      [] RoutesToTaskHandler(m)                              -> "owner"
      [] MethodRequiresGates(m.method) /\ m.name = None      -> "failed"
      [] MethodRequiresGates(m.method) /\ m.name # None /\ ~config.loaded -> "cedar"
      [] MethodRequiresGates(m.method) /\ m.name # None /\ config.loaded  ->
             IF TaskRequired(m) THEN "failed" ELSE "principal"
      [] OTHER                                               -> "forward"

Move(s, l) == at' = [at EXCEPT ![s] = l]

RestUnchanged == UNCHANGED <<policyVars, body, pc, limitVars, responses, gone>>

\* buffer_unordered: items start in order, a bounded number at a time.
StartItem(s) ==
    /\ Live(s) /\ at[s] = "queued"
    /\ \A i \in 1 .. (s[2] - 1) : at[<<s[1], i>>] # "queued"
    /\ Cardinality({i \in 1 .. Cost(s[1]) : Active(<<s[1], i>>)}) < BatchConcurrency
    /\ Move(s, Route(Item(s)))
    /\ RestUnchanged /\ UNCHANGED <<tries, delivered>>

\* route_through_gates after the principal is known (it is optional here): the
\* policy is read once and no await separates it from the decision.
EvaluateGates(s) ==
    LET decision == EvaluateWithPrincipal(config, permitted, Item(s).method, Item(s).name) IN
    /\ Live(s) /\ at[s] = "principal"
    /\ Move(s, IF decision = "deny" THEN "failed" ELSE decision)
    /\ RestUnchanged /\ UNCHANGED <<tries, delivered>>

\* evaluate_with_cedar without configuration; an unknown principal is an error.
EvaluateLegacy(s) ==
    /\ Live(s) /\ at[s] = "cedar"
    /\ \/ Move(s, IF CedarResource(Item(s).method, Item(s).name) \in permitted THEN "forward" ELSE "failed")
       \/ Move(s, "failed")
    /\ RestUnchanged /\ UNCHANGED <<tries, delivered>>

\* handle_task_method: principal unknown or another's, or the store's answer.
HandleTaskMethod(s) ==
    /\ Live(s) /\ at[s] = "owner"
    /\ Move(s, "ok") \/ Move(s, "failed")
    /\ RestUnchanged /\ UNCHANGED <<tries, delivered>>

\* Gate 4: the approval is posted, or fails and the call is denied.  Without
\* task metadata the caller waits: in the background when it is the only item.
BeginApproval(s) ==
    /\ Live(s) /\ at[s] = "approve"
    /\ \/ Move(s, CASE ~Blocking(Item(s))         -> "task"
                    [] Blocking(Item(s)) /\ body[s[1]].kind = "single" -> "stream"
                    [] OTHER                      -> "waiting")
       \/ Move(s, "failed")
    /\ RestUnchanged /\ UNCHANGED <<tries, delivered>>

\* blocking_approval_sync: wait_and_execute ends, at the latest by its timeout.
WaitEnds(s) ==
    /\ Live(s) /\ at[s] = "waiting"
    /\ Move(s, "ok") \/ Move(s, "failed")
    /\ RestUnchanged /\ UNCHANGED <<tries, delivered>>

----------------------------------------------------------------------------
(* UpstreamClient::forward_with_retry.                                     *)

Deliver(s) ==
    /\ Live(s) /\ at[s] = "forward"
    /\ Move(s, "sent")
    /\ delivered' = [delivered EXCEPT ![s] = @ + 1]
    /\ RestUnchanged /\ UNCHANGED tries

\* No connection: try again after a pause, a bounded number of times.  A
\* timeout while connecting is not tried again.
ConnectFails(s) ==
    /\ Live(s) /\ at[s] = "forward"
    /\ \/ tries[s] < MaxTransportRetries
          /\ tries' = [tries EXCEPT ![s] = @ + 1] /\ UNCHANGED at
       \/ Move(s, "failed") /\ UNCHANGED tries
    /\ RestUnchanged /\ UNCHANGED delivered

\* After delivery: a timeout, an HTTP error, an unreadable body.
SendFailsRetried(s) ==
    \/ tries[s] < MaxTransportRetries
       /\ Move(s, "forward") /\ tries' = [tries EXCEPT ![s] = @ + 1]
    \/ tries[s] = MaxTransportRetries /\ Move(s, "failed") /\ UNCHANGED tries
SendFails(s) == Move(s, "failed") /\ UNCHANGED tries

\* Or the answer, passed on (a list filtered, initialize with capabilities).
UpstreamAnswers(s) ==
    /\ Live(s) /\ at[s] = "sent"
    /\ (Move(s, "ok") /\ UNCHANGED tries) \/ SendFails(s)
    /\ RestUnchanged /\ UNCHANGED delivered

----------------------------------------------------------------------------
(* The end of a body.                                                      *)

Items(r) == 1 .. Cost(r)

\* Items that are answered when the handler returns: those with an id that
\* have an outcome of their own.
Answerable(r) == {i \in Items(r) : at[<<r, i>>] # "stream" /\ Item(<<r, i>>).id}

ReturnPermits(r) == permits' = permits + Cost(r) /\ Goto(r, "leaving")

Finish(r) ==
    /\ pc[r] = "running"
    /\ \A i \in Items(r) : at[<<r, i>>] \in Ended
    /\ ReturnPermits(r)
    /\ responses' = [responses EXCEPT ![r] = Answerable(r)]
    /\ UNCHANGED <<policyVars, body, buffered, itemVars, gone>>

\* The client leaves, or the connection's request timeout fires: the handler's
\* future is dropped with everything it awaits.
DropHandler(r) ==
    /\ pc[r] = "running"
    /\ \E i \in Items(r) : at[<<r, i>>] \notin Ended
    /\ ReturnPermits(r)
    /\ gone' = gone \cup {r}
    /\ UNCHANGED <<policyVars, body, buffered, itemVars, responses>>

\* The background task of a blocking approval: the wait ends and the result is
\* sent, whatever the request's id.
Streaming(r) == pc[r] \in {"leaving", "done"} /\ at[<<r, 1>>] = "stream" /\ r \notin gone

StreamSaysNothing(r) == UNCHANGED responses
SendFinal(r) == responses' = [responses EXCEPT ![r] = {1}]

StreamEnds(r) ==
    /\ Streaming(r)
    /\ at' = [at EXCEPT ![<<r, 1>>] = "ok"] \/ at' = [at EXCEPT ![<<r, 1>>] = "failed"]
    /\ SendFinal(r)
    /\ UNCHANGED <<policyVars, body, pc, limitVars, tries, delivered, gone>>

\* A keepalive finds the receiver gone and the wait is cancelled.
StreamAbandoned(r) ==
    /\ Streaming(r)
    /\ gone' = gone \cup {r}
    /\ UNCHANGED <<policyVars, body, pc, limitVars, itemVars, responses>>

\* CedarEngine::reload swaps the snapshot at any moment.  It is the engine's own
\* operation; no binary of the workspace calls it yet.
Reload(p) ==
    /\ reloads < MaxReloads /\ p # permitted
    /\ permitted' = p /\ reloads' = reloads + 1
    /\ UNCHANGED <<config, body, pc, limitVars, itemVars, responses, gone>>

HandlerStep(r) == Reserve(r) \/ UndoReserve(r) \/ Parse(r) \/ Finish(r) \/ Leave(r)

AnyItemStep(s) ==
    \/ StartItem(s) \/ EvaluateGates(s) \/ EvaluateLegacy(s) \/ HandleTaskMethod(s)
    \/ BeginApproval(s) \/ WaitEnds(s) \/ Deliver(s) \/ ConnectFails(s)
    \/ UpstreamAnswers(s)

Next ==
    \/ \E r \in Requests :
          \/ \E b \in Bodies : Arrive(r, b)
          \/ HandlerStep(r) \/ DropHandler(r) \/ StreamEnds(r) \/ StreamAbandoned(r)
    \/ \E s \in Slots : AnyItemStep(s)
    \/ \E p \in Policies : Reload(p)

Spec == Init /\ [][Next]_vars

\* Tokio polls every ready future; reqwest's timeout bounds an exchange with
\* the upstream and blocking_timeout a wait for a human.
FairSpec ==
    /\ Spec
    /\ \A r \in Requests : WF_vars(HandlerStep(r)) /\ WF_vars(StreamEnds(r))
    /\ \A s \in Slots : WF_vars(AnyItemStep(s))

----------------------------------------------------------------------------
HandlerStates == {"new", "collected", "overflow", "parsing", "running", "leaving", "done"}
ItemStates == Ended \cup {"queued", "owner", "cedar", "principal", "forward", "sent",
                          "approve", "waiting"}

\* TypeOK: every variable keeps its type.
TypeOK ==
    /\ config \in Configs /\ permitted \in Policies \cup {StartPolicy} /\ reloads \in 0 .. MaxReloads
    /\ body \in [Requests -> Bodies \cup {None}]
    /\ pc \in [Requests -> HandlerStates]
    /\ buffered \in Nat /\ permits \in 0 .. MaxConcurrent
    /\ at \in [Slots -> ItemStates]
    /\ tries \in [Slots -> 0 .. MaxTransportRetries]
    /\ delivered \in [Slots -> Nat]
    /\ responses \in [Requests -> SUBSET (1 .. (MaxBatch + 1))]
    /\ gone \subseteq Requests

In(states) == {r \in Requests : pc[r] \in states}

\* The bytes, and the items, of the bodies of some requests.
BytesOf(S) == UNION {{r} \X (1 .. body[r].size) : r \in S}
ItemsOf(S) == UNION {{r} \X (1 .. Cost(r)) : r \in S}

\* CapacityExact: the byte counter is the number of bytes in memory and the
\* semaphore lacks one permit per item being handled, whichever way earlier
\* requests ended (request.rs, helpers.rs BufferGuard).
CapacityExact ==
    /\ buffered = Cardinality(BytesOf(In({"overflow", "parsing", "running", "leaving"})))
    /\ permits + Cardinality(ItemsOf(In({"running"}))) = MaxConcurrent

\* AcceptedFits: although the counter overshoots while a refused body is being
\* undone, the bodies that are accepted never exceed max_aggregate_buffer.
AcceptedFits == Cardinality(BytesOf(In({"parsing", "running", "leaving"}))) <= MaxAggregate

\* CapacityHeld: bytes and permits come back on every way out, and what is
\* accepted stays within the limit.
CapacityHeld == CapacityExact /\ AcceptedFits

\* DeliveredOnce: retries notwithstanding, the upstream receives an item once
\* (upstream.rs: "Does NOT retry on timeouts ... to prevent duplicate side
\* effects").
DeliveredOnce == \A s \in Slots : delivered[s] <= 1

\* GatesDecide: an item that names a governed resource comes to be forwarded
\* only when the gates, stated without their order, let it: a shown name and
\* an unshadowed forward rule, or with no configuration the policy in force.
GatesDecide ==
    [][\A s \in Slots :
          (Live(s) /\ at[s] # "forward" /\ at'[s] = "forward" /\ Item(s).method \in Governed)
          => /\ Item(s).name # None
             /\ IF config.loaded THEN MayForward(config, Item(s).name)
                                 ELSE CedarResource(Item(s).method, Item(s).name) \in permitted]_vars

\* Answered: the client of an admitted body that stays gets an answer to every
\* item that has an id, a blocking approval in the background included.
Answered ==
    \A r \in Requests :
        pc[r] = "running" ~>
            \/ r \in gone
            \/ body[r] # None /\ {i \in Items(r) : Item(<<r, i>>).id} \subseteq responses[r]

\* NotificationsUnanswered: an item without an id is never answered
\* (request.rs "Handle notification - no response (empty body with 204)").
NotificationsUnanswered ==
    \A r \in Requests : \A i \in responses[r] : Item(<<r, i>>).id
=============================================================================
