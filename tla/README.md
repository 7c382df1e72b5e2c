# TLA+ models of ThoughtGate

ThoughtGate stands between an AI agent and its MCP servers. Every tool call
passes a chain of gates (visibility, governance rules, Cedar policy, human
approval) and is forwarded, denied, or held as an *approval task* until a human
has decided. This directory models the parts of it that keep state and run
concurrently, checks them with TLC on small instances, and proves the safety
properties of all of them with TLAPS for instances of any size.

## The system

| Part | State | Operations | Interacts with |
|---|---|---|---|
| Task store (`governance/task/store.rs`) | `tasks`, `by_principal`, `pending_by_principal` (DashMaps), `pending_count`, `pending_bytes` (atomics) | create, transition, record_approval, complete, fail, cancel, record_auto_approve_result, three sweeps | every request thread; the scheduler |
| Task status (`governance/task/status.rs`) | none | `can_transition_to`, `is_terminal` | the store |
| Approval engine (`governance/engine.rs`) | `executing` (DashSet) | start_approval, execute_on_result, wait_and_execute | store, scheduler, pipeline |
| Scheduler (`governance/approval/scheduler.rs`) | `pending` queue, `references` | submit, run (poll_next, expiry tick, drain) | store, adapter |
| Pipeline (`governance/pipeline.rs`) | none | validate_approval, reevaluate_policy, post_approval_amber, forward_to_upstream | engine, policy, upstream |
| Lifecycle (`lifecycle/mod.rs`, proxy `main.rs`) | `state`, tokens, `active_requests`, readiness flags, connection semaphore | mark_ready, begin_shutdown, track_request, drain_requests, mark_stopped | accept loop, signal handlers, probes |
| MCP request handling, gate evaluator (`mcp_handler`, `governance/evaluator.rs`) | configuration, policy snapshot, byte budget, concurrency permits | handle_mcp_body, evaluate, forward with retry | engine, store, upstream |
| Task methods, capability cache (`governance/handlers.rs`, `task_methods.rs`, `protocol/`) | two cached flags | tasks/get, result, cancel, list; initialize | store, engine, upstream, the pod's identity files |
| Approval adapters (`approval/slack.rs`, `mock.rs`, `redact.rs`) | cache of user names, limiter | post, poll, cancel | scheduler; Slack and its reviewers |
| Cedar policy engine (`policy/`) | a snapshot of policies, annotations and source; statistics | load, reload, evaluate | evaluator, pipeline; files that others write |
| Start of the proxy (`main.rs`, `config/`, `defaults.rs`) | environment, configuration files, what has been built | find, load, validate, build | all of the above |
| Way in (`main.rs`, `proxy_service.rs`, `timeout.rs`, `rate_limiter.rs`) | connections and their timers, buckets per address, permits, gauges | accept, limit, classify, forward, stream, shut down | lifecycle, MCP handling, upstream |
| Stdio shim and governance service (`shim/`, `governance/service.rs`) | table of outstanding requests, shutdown flag, child process; tasks | two pumps, approval polling, revalidation, heartbeat, staged shutdown | evaluator, agent, server process |
| Wrap mode (`wrap/`) | the agent's configuration files, their backups, a lock | parse, back up, rewrite, launch, restore | shim, governance service, other wrap processes |

What is hard here: the store is updated by any number of threads through
several atomics and two sharded maps with no lock around them all; approvals
are futures that may be dropped at any `await`; the scheduler's `select!` drops
its own poll; a decision, a cancellation, a TTL, a shutdown and two fetches of
the result race for one task; signals race with startup; configuration and
policy files change while they are read; a shim's tasks share a table and a
flag without an order between them; wrap processes share files and may die
between any two writes. `PROJECT.json` lists
these hazards at their lines, with the properties that look at each.

## Modules

**TaskStatus** holds the eight statuses and the transition relation, shared by
the others.

**TaskStore** models the store at the grain another thread can observe: one
action per atomic read-modify-write and per shard lock that is held across
further steps. `pc[w]` is the place of thread `w` in its call. `create` is
`ReserveGlobal` (the compare_exchange loop), `ReservePrincipal` (`entry()`, whose
guard lives to the end of the call), `NewTask`, `CheckBytes`, `AddBytes`,
`Insert`, `AddToIndex`, with `NewTaskFails`, `BytesExceeded` and
`RollbackGlobal` as its error paths. Calls that end a task share `Change`,
which keeps the task's shard locked while `DecGlobal`, `DecBytes`,
`DecPrincipal` and `RemoveIfZero` run. The sweeps are `StartSweep`, one `Scan`
per shard, then one step per collected id. `overdue` and `graceOver` stand for
the clock: sets that only grow. A call that fails and changes nothing is a
stuttering step. `DecBytes` and the other counters are integers without a
width: `CountersExact` and `BytesSound` show that they never go below zero.

**TaskRegistry** is what the store promises: tasks are created within both
limits, move only along the lifecycle, and are removed only when they have
ended. `TaskStore` implements it under the identity mapping of `status` and
`owner` (`RegistrySpec`).

**ApprovalFlow** composes engine, scheduler and pipeline. The operations of the
store are single steps here, which is what `TaskStore` justifies. `submit[t]`
is the place of the `start_approval` future of task `t`, `poll` that of the
scheduler's `poll_next`, `pc[c]` that of a call to `tasks/result`, or of a
blocking request, which stays in `wait_and_execute` (`Wait`, `WaitPolls`,
`WaitReturns`) until its task has ended or its deadline has passed.
`DropSubmit`, `Abandon` and `AbandonWait` are futures dropped because the client disconnected, `Tick` is the expiration interval
winning the biased `select!` and dropping a poll. Policy, inspectors, adapter,
human and upstream are nondeterministic: each of their outcomes is a step.
A task has two requests, `original`, which is posted to the human, and
`transformed`, which `pre_approval_amber` made of it and which is hashed, stored
and forwarded. `Inspect` says what the inspector chain may make of a request: the
request itself where there are no inspectors, as in the engine built by
`ApprovalEngine::new`.

**Gates** holds the gates as functions of a configuration: visibility, the
first matching rule or the default, Cedar, approval, and what a list answer
shows. A glob pattern is the set of names it matches, a Cedar policy the set of
resources it permits. Cedar is asked about a tool by its name and about any other
governed method by the method alone, whatever resource or prompt the call names
(`CedarResource`). Beside them stands `MayForward`, the same promise stated
without the order of evaluation.

**McpRequest** models `mcp_handler` over the router and the upstream client.
`pc[r]` is the place of a body's handler: `Arrive`, `Reserve` (the `fetch_add`)
with `UndoReserve`, `Parse` (batch size and permits), `Finish` or `DropHandler`,
and `Leave`, where `BufferGuard` is dropped. `at[<<r, i>>]` is the place of the
i-th item of body `r`; the items of a batch interleave at their awaits. `Route`
is the stretch of `route_request` up to the first await, `EvaluateGates` and
`EvaluateLegacy` the decision, `Deliver`, `ConnectFails` and `UpstreamAnswers`
`forward_with_retry`, `BeginApproval` and `WaitEnds` a blocking approval inside
a batch, `StreamEnds` and `StreamAbandoned` the detached task that answers a
single one. `Reload` swaps the policy at any moment; the operation exists and
is tested, though no binary calls it yet. What happens inside an approval is
left to ApprovalFlow: here it ends well or badly.

**Lifecycle** models the main task of the proxy from the installation of the
signal handlers to the exit, the connection tasks, both signal handlers,
SIGQUIT and the upstream health checker. Its specification is `LifecycleSpec`:
it begins where that of `Startup` ends, and one module proves about both.

**SlackPolling** is the other half of the scheduler: several tasks that share
its queue, limiter and soft limit, over the Slack adapter (or the mock).
`SubmitStep` posts and then inserts, `PollStep` takes the entry that is due,
waits for the limiter, asks Slack, resolves the reviewer's name through the
bounded cache and records the decision or re-queues with back-off. Reviewers
react, take reactions back and delete messages at any moment; Slack may fail,
limit, or answer late. Redaction is a function on documents (functions from
paths to leaves), one field after the other. Time is ticks on the queue's entries.

**TaskApi** is what an agent sees of tasks: the four `tasks/*` methods and the
rewriting of an `initialize` answer. A handler is a record that goes through
the awaits of the code (infer the caller, check the owner, read again, answer);
meanwhile tasks move, end and are swept in two steps, as `TaskStore` has them,
and the mounted identity files come and go. `walk` is a client that reads the
whole list page by page.

**PolicyEngine** models `CedarEngine` and its loader: `exists`, read, parse and
apply are steps of their own, with the retry after a failed parse, while a
writer swaps, truncates, removes and hides the file and evaluations run. A file
without a character (`Blank`) is told from one that only has comments, a file
that cannot be read from one whose metadata cannot be had (`Hidden`), which
`Path::exists` takes for absent. Cedar is represented by sets of permit and
forbid policies with conditions on resources, roles and one argument.
`JsonToCedarExprDepth[left]` converts the values of `JsonValues`, nested as deep
as they are, with `left` levels to go before the depth limit; numbers go through
the code's casts (`Saturate`, `AsFloat`), with `MaxLong` for `i64::MAX`. The
snapshot and an evaluation under way are sets of at most one element. `Inside`
and `Exceeds` say of a document, without converting it, what the conversion and
the conditions must come to.

**Startup** extends it with `main` up to the point where the proxy serves:
defaults, environment checks, finding, reading and validating the
configuration, building policy engine, adapter and handler, binding the port.
Each check is a step, and the configuration file may be edited between them.
`Worlds` are the environments and files a behaviour starts with: one plain
start and a variation for every check.

**Wire** has no state: the classification of HTTP requests, the choice of the
target, forwarded headers, and the parser of JSON-RPC bodies.

**Ingress** models a connection from `accept` to the end of its task: the rate
limiter with its sweep, the permit, `peek`, requests, handler or upstream,
streamed answers with both timers, the connection's own timeout and the five
seconds at shutdown. The handler may refuse a body whole (one answer with id
null, whatever ids are in it), answer it, or open a stream, which answers a
lone notification too. A timer is the number of ticks it has left. Clients and
upstream may do anything, or nothing, at each point.

**TokenBucket** is what the rate limiter promises: a bucket per address, which
only an address not heard of for `StaleAfter` may find full before it has
refilled. `Ingress` implements it for every burst and every `stale_after`, under
the mapping `tokens[a] <- Burst - Debt(a)`, where an address that was forgotten
has no debt and has been idle for `StaleAfter` (`BucketSpec`). With a burst that
takes longer to refill than `stale_after`, which the code does not rule out, the
sweep does hand out tokens; the run has such constants. Where a bucket refills
in time, as with the defaults, it does not (`SweepGivesNothing`).

**Shim** composes one stdio shim with the governance service it asks. Four
concurrent tasks share the table of outstanding requests and the shutdown flag;
`pump` is the place of the agent-to-server task, which asks, polls for an
approval and revalidates inline. `MainStep` waits for the first task to end and
takes the server process through close, SIGTERM and SIGKILL; nothing stops the
pump meanwhile, which goes on as long as the process lives. `Pass`, `Forward`,
`WriteStdout` and `PollProgress` are the writes: they wait while the end they
write to has stopped reading (`Stalls`, `Resumes`). `refused` are the lines the
pump decided not to deliver, also those without an id, which get no answer.
Revalidation may fail, time out, or be answered by something else than 200,
which counts as permitted (`StillPermitted`). Reviewer, agent, server and service
may each fail or fall silent. The inbound half of the table of requests (the
server's own calls) only feeds a log and is left out.

**Wrap** models `run_wrap` for two processes over the same files. A file is a
function from its servers to the shims put in front of each, so that nested
wrapping and a lost original are visible. Each process may be killed between any
two writes, be signalled, fail to write, or panic: the hook (`TaskPanics`,
`HookCopies`) copies the backup without looking at the lock, beside the main task
of its process. Copies truncate first, renames are atomic; what was written stays
written (a failure of the machine is left out, since `atomic_write` does not
sync). An earlier wrap is recognised by the path or file name of the binary
(helpers.rs:230-247); the model takes it that all processes run under it and that
no server of the user does. Adapters are records of what they do differently.

How the modules fit together: `Ingress` ends where `McpRequest` begins (a body
handed to the handler), `McpRequest` and `Shim` both use `Gates`, an approval
they begin is `ApprovalFlow`, whose polling is `SlackPolling` for many tasks and
whose store is `TaskStore`, whose readers are `TaskApi`. Each of them sees the
other through the steps that the other's properties justify.

`MC*` modules only name the model values, functions and inputs that the `.cfg`
files use, and the symmetries.

## Runs

| Run | Question | Bounds | States |
|---|---|---|---|
| `store_counters` | Do the counters stay exact and the limits hold through every rollback path; does the store implement the registry? | 3 threads, 3 tasks of 1 or 2 bytes, 2 principals in different shards, limits 3 / 2 / 3 bytes, so that the principal's and the byte limit are hit and the latter is overshot | 149 thousand |
| `store_sweeps` | Can the sweeps' stale lists of ids damage the index or a recorded decision? (That they leave the counters exact is proved.) | 2 threads, 2 tasks, 1 principal, all calls and sweeps | 1.3 million |
| `approval` | Is only what was approved executed, exclusively, unchanged; does every call end and release its guard; do undecided tasks expire? | 1 task, 2 callers, 2 requests of which the inspectors may change one, disconnects and a shutdown | 218 thousand |
| `approval_at_most_once` | At-most-once execution (violated) | 1 task, 2 callers, no faults | stops at the violation |
| `slack` | Do decisions rest on the reactions of their own message, is no task starved or queued twice, do the soft limits hold? | 2 tasks, 1 polled task allowed, intervals 1 to 2, a cache of 1 name, 2 reviewers with opposite reactions | 623 thousand |
| `task_api` | Do only owners reach a task, does what has ended stay so, does a paged listing miss no more than was swept? | 2 requests at a time, 2 tasks, pages of 1, three states of the identity files, 6 initialize answers | 132 thousand |
| `mcp_request` | Are bytes and permits returned on every way out, do the gates decide what is forwarded, is nothing delivered twice and every remaining client answered? | 2 requests out of 11 bodies (single, batch, notification, malformed, too long), 6 configurations, body and buffer limit 3, batch limit 2, 2 permits, 2 items at once (16 in the code), 1 retry (2 in the code), 1 reload | 498 thousand |
| `ingress` | Are slots given back on every path, can MCP traffic slip past the handler, do answers carry the right ids, is a cut answer never taken for a whole one, is the limiter a token bucket? | 2 sockets of one address that reconnect without end, burst 2, 1 stream, timers of 1 to 3 ticks, 2 frames, 25 requests and every body of one or two elements | 250 thousand |
| `startup` | Does the proxy refuse or honour what was configured, and decide by a whole text that was written? | 137 worlds, 1 edit of the configuration, 2 of the policies, 2 calls (reload or evaluate), 13 requests, numbers around a `MaxLong` of 50 | 593 thousand |
| `lifecycle` | Are requests and permits counted exactly, is a clean drain final, does shutdown end? | 3 connections, 1 permit, 2 signals | 69 thousand |
| `shim` | Does a governed request reach the server only when it may, does nothing that was refused, is everything answered once or passed on, does a shutdown reach the server? | 2 lines of the agent out of 6 kinds, 1 of the server, 2 configurations, 1 policy change, 1 failure, ends that stall and resume | 453 thousand |
| `wrap` | Can the original always be recovered, is it restored, does the agent start behind shims? | 2 processes, 7 layouts of 5 agents, both flags, 2 crashes, panics or failed writes | 2.4 million |

Why the bounds are enough. A conflict in the store is between two threads over
one counter or shard; the third lets one be in a rollback while the other two
race. Two tasks give the sweeps one that is stale and one that is fresh. The
races of ApprovalFlow are over a single task: its phases, two fetches of its
result, one poll. `MaxCalls` only caps how far upstream calls are counted; the
properties tell 0, 1 and more apart. In McpRequest two bodies of sizes 1 to 3
overshoot the buffer limit in either order and compete for the permits; a batch
of two holds an item that waits beside one that is forwarded, one of three is
refused; the configurations have shadowed rules, both list modes, a disabled
source, development mode, no approval engine, and no configuration at all. In
SlackPolling two tasks over a limit of one exceed it, share one token and one
cache entry. In TaskApi a page of one makes every step of the listing a new
request. In Ingress one stream makes the second socket meet the permit limit
and a burst of two, refilled more slowly than idle addresses are forgotten,
lets it meet the rate limit and the sweep; `DrainTimeout` is longer than
`Grace`, as 25 is than 5. In Shim the second line finds the pump in every place
the first may hold it. In Wrap a crash of one process at each step meets a
second process that starts before, during or after it; two mishaps let a process
die while its panic hook copies, or a restore fail after a crash.

`store_sweeps` and `store_counters` use one shard for all tasks and explore
everything up to the deadlock described below, hence `CHECK_DEADLOCK FALSE`.
Tasks, callers, lines, processes, submissions and calls are finite in the other
systems, so these stop too. `ingress`, where connections come again and again,
is checked for deadlock.

A property that is a conjunction names its parts, which are definitions of
their own: `ExecutesWhatWasApproved` is `OnlyApprovedExecutes`,
`ForwardsWhatWasApproved` and `ResultsAreReal`. To see which part an edit of a
module breaks, list the parts in the `.cfg` instead. `TypeOK` of each module
holds on its instance too; no run lists it, because a value of the wrong type
shows up in the other properties first.

### Fairness

`approval`, `slack`, `mcp_request`, `ingress`, `shim` and `lifecycle` check
liveness under `FairSpec`; the other runs are about safety, under `Spec`.

- ApprovalFlow: weak fairness of futures that nobody drops (adapter, policy and
  upstream calls all have timeouts, a blocking wait has its deadline), of the
  interval tick, and of the scheduler's reaction to the token; strong fairness
  of `TakeDue`, because the queue is ordered by time and a tick may disable it
  again and again. Clients, humans and signals get none, nor do the TTL and the
  validity of an approval.
- SlackPolling: weak fairness of the polling loop and of submissions, whose
  calls end by `api_timeout`, and of the clock. Reviewers get none.
- McpRequest: weak fairness of a handler's and an item's steps, because tokio
  polls what is ready and reqwest's timeout bounds every exchange, and of the
  end of a detached wait, which `blocking_timeout` bounds. Clients and reloads
  get none.
- Ingress: weak fairness of the clock, of timers that have run out, and of the
  end of a finished task. Nothing of clients, upstream or operator.
- Shim: weak fairness of its four tasks. Requests and polls end with an answer,
  a timeout or the flag. A write has no such end: it is not enabled while the
  other side does not read, and nothing makes that side read again. `Handled`
  therefore makes one exception, a pump that is blocked for good; without the
  exception TLC refutes it.
- Lifecycle: weak fairness of the main task, of a handler that has begun, and
  of connections, which the request timeout bounds; strong fairness of leaving
  the accept loop, because tokio's `select!` picks among ready branches at
  random.

## Disagreements between code and documentation

`approval_at_most_once` is a run of its own. **AtMostOnce**: a caller takes its
snapshot, another caller executes and releases the guard, the first one enters
and executes again; an expired task with `on_timeout: approve` is executed by
every fetch. `engine.rs:246` says that "This ensures at-most-once semantics".

The statements below are properties of their modules that no run checks,
because the code does not keep them. To see a counterexample, put the name into
the `.cfg` of the run in place of its properties (with `CHECK_DEADLOCK FALSE`);
TLC finds each within seconds.

| Property | Module, run | What the code does | Who says otherwise |
|---|---|---|---|
| `NoWaitCycle` (invariant) | TaskStore, `store_counters` | `create` holds its principal's shard and wants the task's; completion holds the task's shard and wants the principal's (store.rs:290, 350, 209) | store.rs:91 "lock-free concurrent access" |
| `ReferencesReclaimed` (property) | ApprovalFlow, `approval` | the tick drops a poll between its removal from `pending` and its requeue; the reference stays and counts against `max_concurrent` (scheduler.rs:253). `UndecidedExpires` shows that the task still expires | scheduler.rs:179 "The system self-corrects as tasks complete" |
| `TtlIsOuterBoundary` (property) | ApprovalFlow, `approval` | nothing ends an approved task that is not fetched (status.rs:88) | specs/architecture.md:988 "nothing survives past TTL" |
| `ForwardsWhatWasShown` (invariant) | ApprovalFlow, `approval` | the human is shown the original request (engine.rs:445-448); what the inspectors made of it is forwarded (engine.rs:425, pipeline.rs:684). Without inspectors, as the engine is built today, the two are the same | pipeline.rs:676 "the human approved pre_approval_transformed" |
| `PermissionErrorsFailClosed` (property) | PolicyEngine, `startup` | a policy file in a directory that cannot be searched counts as absent, and the embedded permit-all policies are used (policy/loader.rs:59) | policy/loader.rs:71 "A transient permissions error must NOT silently fall through to embedded permit-all policies" |
| `LimitsBind` (invariant) | PolicyEngine, `startup` | a number above `i64::MAX` becomes a string, a comparison with it errs, and a forbid whose condition errs does not apply (policy/engine.rs:658-665) | policy/engine.rs:660 "Convert to string for safe policy comparison" |
| `NotReadyDuringShutdown` (invariant) | Lifecycle, `lifecycle` | `mark_ready` overwrites `ShuttingDown` (lifecycle/mod.rs:342) | health.rs:196 "During shutdown, return 503" |
| `NotificationsUnanswered` (invariant) | McpRequest, `mcp_request` | a lone notification under an approve rule is answered by the stream (request.rs:338) | request.rs:382 "Handle notification - no response" |
| `SseConditionallyAdvertised` (invariant) | TaskApi, `task_api` | status notifications are stripped from every initialize answer, whatever the upstream has (capabilities.rs:73-80) | capabilities.rs:24 "Conditionally advertises SSE (only if upstream supports it)", specs/REQ-CORE-007 6.1 and F-001.5 |
| `FirstReactionWins` (invariant) | SlackPolling, `slack` | the approve reaction is looked for first whatever came first (slack.rs:345) | specs/REQ-GOV-003:715 "first one wins" |
| `InFlightComplete` (property) | Ingress, `ingress` | a connection gets 5 seconds at shutdown whatever the drain timeout is (main.rs:874) | specs/REQ-CORE-005:466 |
| `ListAnswersFiltered` (invariant) | Shim, `shim` | a list answer that arrives before its id is in the table is passed on unfiltered (agent_to_server.rs:384, 402) | server_to_agent.rs:161 "agents only see tools/resources/prompts they are allowed to access" |
| `PumpStopsWithMain` (property) | Shim, `shim` | nothing aborts the pump when the shutdown begins; when it began because the server closed its output or ended, the flag is not set either and the pump goes on reading and delivering until the process ends (shim/proxy/mod.rs:261-273) | shutdown.rs:13 "already dropped by aborting agent→server task" |
| `OriginalAlwaysKept` (invariant) | Wrap, `wrap` | Claude Code looks for an earlier wrap in the working directory's project only: after a crash, or with `--no-restore`, a wrap in a second project saves the rewritten file over the only backup of the original. And a panic hook truncates the file although the main task is removing the backup (agent_launch.rs:439) | config_guard.rs:5, README.md:70 |
| `NeverNested` (invariant) | Wrap, `wrap` | the servers are parsed before the lock is taken (agent_launch.rs:310): a process that parsed another's rewrite and found the file restored under the lock puts its shim in front of the other's | specs/REQ-CORE-008:1073 "do not nest shim inside shim" (EC-STDIO-034) |
| `EveryServerGoverned` (invariant) | Wrap, `wrap` | Claude Code's `.mcp.json` is read and never rewritten, so its servers start without a shim | website/docs/how-to/wrap-agents.md:41-45 "Rewrites each server's `command`" |
| `AllRestored` (invariant) | Wrap, `wrap` | Cursor's project configuration is rewritten, by a dry run too, and never restored (adapters.rs:487) | README.md:70, config_guard.rs:5 |

Smaller things met while modelling, all of them in the models as the code has
them: the error paths of `create` leave an entry with a zero counter;
`fail_all_pending` leaves tasks in `InputRequired` as they are, although
`specs/REQ-CORE-005_Operational_Lifecycle.md:547` wants them failed; a listing
is by application and a read by the whole principal, so with an unreadable
token a listed task may not be found; a task created while no identity could be
inferred belongs to the evaluator's default principal and cannot be reached by
its creator; `reload` does not know the policy files of the configuration; a
configuration whose policy files are all empty falls through to the embedded
policies; a configuration file whose metadata cannot be had is passed over
(config/loader.rs:88); a float of 2^63 is taken for `i64::MAX`; a `tools/call`
without an id passes the shim ungated; a revalidation that is answered with
anything but 200 counts as permitted, in production too (helpers.rs:502-515); a
wrap whose ThoughtGate configuration is missing or does not load runs in stub
mode, which forwards everything, whatever the profile is (agent_launch.rs:350-364;
`DeliveriesSound` excludes it); a body that is refused whole is answered with id
null even where its ids are known (request.rs:193-218); an invalid element of a
batch is answered with id null (request.rs:454-461), which `Answered` does not
ask for; any environment but "production", "prod" and the empty name allows
development mode (`IsProduction`), although lifecycle/mod.rs:617 says it must be
"development" or "test".

## Proofs

Eight modules hold theorems. Each proves its results for every value of the
constants: any number of threads, tasks, requests, connections or processes,
any limits, any configuration that validation accepts. Wherever a run checks
the same definition, `PROJECT.json` names it beside the theorem.

| Module | Theorems (all of the form `Spec => []P` unless noted) |
|---|---|
| `TaskStoreProofs` | `TypeCorrect`, `CountersAreExact`, `LimitsAreHeld`, `BytesAreSound`, `DecisionsAreRecorded`, `IndexIsSound`, `Refinement` (`Spec => RegistrySpec`) |
| `ApprovalFlowProofs` | `TypeCorrect`, `ApprovedExecutes`, `ExecutionIsExclusive`, `RecordsAreKept` (the action property `RecordsStand`) |
| `SlackPollingProofs` | `TypeCorrect`, `DecisionsHaveReviewers`, `SharedStateIsSound`, `ArgumentsAreRedacted` |
| `ProxyProofs` (Startup and PolicyEngine, then Lifecycle) | `TypeCorrect`, `ServesAsConfiguredAlways`, `PoliciesAreGenuine`, `EvaluationsAreSound`; `LifecycleTypeCorrect`, `AdmissionIsExact`, `CleanDrainStaysFinal` |
| `McpRequestProofs` | `TypeCorrect`, `CapacityIsHeld`, `DeliveredAtMostOnce`, `OnlyGatesForward` (the action property `GatesDecide`) |
| `IngressProofs` | `TypeCorrect`, `SlotsAreExact`, `IngressIsGoverned`, `AnswersAreTrue`, `LimiterRefines` (`Spec => BucketSpec`), `SweepGivesNothing` |
| `TaskApiProofs` | `TypeCorrect`, `OwnersAreIsolated`, `ListingMissesOnlySwept`, `InitializeIsExact`, `EndsAreFinal` (the action property `TerminalAnswersFinal`) |
| `StdioProofs` (Shim, then Wrap) | `TypeCorrect`, `DeliveriesAreSound`, `AnsweredAtMostOnce`; `WrapTypeCorrect`, `OriginalIsKept`, `AgentStaysGoverned`, `ConfigIsRestored` |

Each component has an inductive invariant (`IndInv`, `LifecycleInd`, `WrapInd`),
a theorem that it is one (`Inductive`, `LifecycleInductive`, `WrapInductive`), and
one step per action. What each invariant adds to the properties, and why it must:

- **TaskStore.** `CountersExact` counts a call's share of the counters by its
  label, its principal and the owner of its task, so these have to be defined
  where they are used and no two calls may account for the same task.
  `AuxInv`: no two creating calls have the same fresh id (`FreshIds`), a call in
  `create` has a principal and, from `NewTask` on, a task (`Creators`), a call
  that frees slots does so for a task that has ended (`Enders`), every inserted
  task has an owner (`Owners`), a counter above zero has its entry, so that
  `decrement_pending_counters` never skips it (`KeysCover`), and what
  `cleanup_terminal` collected has ended and stays so (`SweptEnded`).
  Cardinality lemmas say how one element entering or leaving a set changes the
  sums. The refinement follows from `IndInv`, since only `Insert`, `Change` and
  `RemoveId` touch `status`. `DecisionInv` and `IndexInv` are two more
  invariants on top of it: nobody has decided about a task that is not yet
  there; a sweep unlists only what it has removed, and a create lists its task
  under the key it was inserted with. For the bytes, sums of sizes are
  cardinalities of sets of pairs (task or call, byte). `BytesInv`: a create past
  `entry()` holds the shard of its principal's counter (`GuardsHeld`), so there
  is one per shard between the check and the addition, and what all of them
  will add is within the bound already (`PassedFits`).
- **ApprovalFlow.** The point of the argument is that a caller enters on a
  snapshot that may be stale. `SnapshotsJustified` says what cannot be undone of
  it: an approval once given, or an expiry under `on_timeout: approve`.
  `NotYetAsked` and `ExecutingApproved` tie the status to a human's answer,
  `InsideHoldsGuard` the place of a caller to the DashSet, `RequestsApproved` the
  request about to be forwarded to the stored transformation, and that to the
  original. Exclusiveness is shown;
  that the execution happens once is not, as the run `approval_at_most_once`
  shows that it does not hold. `DecidedMoved`, on top of it: a decision has moved
  its task where nothing expires it, so that the automatic approval of an
  expired task replaces none. With it `RecordsAreKept` shows that engine,
  scheduler and pipeline use the store as `TaskRegistry` has it, task by task (a
  tick may end several at once); that creating a task stays within the limits is
  what `TaskStoreProofs` shows.
- **SlackPolling.** `Placed`: a task is in one place only, the queue, the poll or
  a submission, which is why it is never queued twice. `Referenced` keeps a
  reference with whatever is polled or about to be queued. `LimitInv` counts the
  submissions that have passed the check with the references, since the check
  and the insertion are apart; the bound is the highest number that ran at once.
  For redaction, what the first n fields leave is characterised by whether one
  of them is a prefix of the path.
- **PolicyEngine.** `LoadsGenuine`: a text in a loader's hands was held by its
  source, and one that is past parsing has parsed; a file that was seen binds
  the loader to it. Conversion is shown to succeed exactly on what is
  representable, by induction on the depth (`ConvertsTheRepresentable`), and a
  condition to hold of a converted argument exactly when it holds of the JSON
  value (`LimitsAreOfArguments`); what the casts do to a float is a lemma
  (`FloatsToCedar`). Without entities exactly the unconditional policies apply
  (`AppliesWithoutEntities`), which gives the version 0.1 interface.
- **Startup.** `StartInv` says what every check that was passed has left behind,
  phase by phase, while the files may change: the configuration that was
  validated is the one in `boot`, never read again.
- **Lifecycle.** `InHand`: the connection being admitted is one nobody serves
  yet, so the counter's increment stands for nobody else. `CleanIsLate`: only
  the end of the drain reports a clean one.
- **McpRequest.** Sums over bodies are cardinalities of sets of pairs (request,
  byte) and (request, item), so that a body entering or leaving is a disjoint
  union and no fold has to be reasoned about. `Admitted` keeps a handler's items
  unstarted until it runs, `NotYetDelivered` keeps an item that may be
  forwarded undelivered, `GatesApply` says which part of the router asked.
  `OnlyGatesForward` compares the gates in their order with `MayForward`, which
  has none; that the first matching rule decides rests on a least element.
- **Ingress.** `SlotsInv` adds finiteness of the connections that have a task to
  `SlotsExact`. `Refilled` is what makes forgetting safe: debt and idle time of an
  entry never exceed the burst together, so an entry that is idle for as long as
  a bucket takes to refill owes nothing. The events are shown true in the state they are
  made in; this needs lemmas on the loop of `normalize_path` (`PushedIs` and its
  successors: what has been pushed has no two slashes in a row and is the path
  with its runs of slashes collapsed) and on `ParseBatch` and the ids of its
  answers.
- **TaskApi.** `OwnersInv` says whose a task is at every point: the caller that
  made it until it is listed, the key it is listed under, the caller that was
  let through. A removed task belongs to anyone, which is why the second read
  after `verify_task_principal` is harmless: ids are not used again.
  `WalkInv` gives each task a place in the list, the number of newer ones, and
  says that among the tasks still to be seen at most as many as were removed
  have a place before the cursor; new tasks and newly listed ids only increase
  places, a removal decreases them by one. `Follows` carries this from the ids a
  request copied to the index it copied them from, while both change. For
  `InitializeExact` a document is a set of paths closed under prefixes, and the
  lemmas say which paths injection and stripping touch.
- **Shim.** `Progress`: the pump works through the stream in order, and the line
  in its hand is neither delivered nor answered, and refused only while its
  answer is being written. `HandChecked`: it stands at
  "forward" only when it was let through. `NotLate`: nothing was written after
  the flag while the line taken before it is still in hand.
- **Wrap.** `LockExclusive` makes the holder of the lock the only process past
  it; `ImageFresh` says that what was read is still on disk when it is written
  over, `BackupsGenuine` that every backup is the original whenever one is
  needed, `Stands` that a rewrite is there until its process restores it. The
  panic hook, which restores without the lock, is the hard case: until its own
  process restores it truncates and fills a file whose backup is genuine, and it
  copies that very backup (`HookFresh`). Once the two have overlapped (`raced`)
  nothing is claimed of the files but their types (`RacingHook`).

Induction over data. The library's induction principles take a predicate as a
parameter, which the provers cannot instantiate. Where a loop over a sequence
had to be reasoned about (`normalize_path`, the ids of a batch, a first rule,
the fields to redact, the levels of a JSON document), the proofs take a minimal
counterexample instead (`WFMin`, `LeastOf`, `MinOf`): the set of lengths at which
the claim fails has a least element, and there is none. That the recursive
functions `Redact`, `JsonToCedarExprDepth` and `Inside` satisfy their equations is
proved the same way (`RedactDefined`, `ConvertDefined`, `InsideDefined`): a
function that follows the definition up to any given argument exists. No
module declares a RECURSIVE operator, with which the prover loses its SMT backend.

Assumed are only the named ASSUMEs of the modules, which TLC evaluates in the
runs: finite sets where the code has finitely many of something, `None` and
`Gone` outside the values they stand apart from, natural limits, and the shape
of inputs: rules with one of the four actions and configurations that pass
validation (`ConfigsAssumption`), lines as the framing splits them
(`LinesAssumption`), paths that begin with a slash (`RequestsAssumption`), JSON
bodies and documents (`BodiesAssumption`, `DocumentsAssumption`, `JsonAssumption`),
fields as paths of keys (`FieldsAssumption`), a cache from which a quarter can be
evicted (`CacheAssumption`; the code has 1000), environments and files as the
parsers deliver them (`WorldsAssumption`), environment
variables that a process does not see change (`EnvironmentAssumption`).
`SweepGivesNothing` has a condition of its own, that a bucket refills within
`stale_after`.

Where a proof attempt changed a model. `InjectTaskCapability` had kept what
was below `tools/call` although `insert` replaces the value: the attempt to
prove the answer prefix-closed failed, and a document of that kind is now among
those TLC uses. Wrap's `Rewrite` touched ids outside the process's own scope,
which the adapters do not. Sums became cardinalities, `NormalizePath` and
`ListForPrincipal` lost their folds and sorts for the definitions the proofs use;
the runs check them as before.

### Only model-checked

- Liveness (`CallsEnd`, `UndecidedExpires`, `QueueServed`, `Answered`, `Handled`,
  `ShutdownReachesServer`, `ConnectionsEnd`, `ShutdownCompletes`): fairness and
  `ENABLED` are out of the prover's reach.
- At-most-once execution and the other disagreements above, which do not hold.

Every invariant and every action property that a passing run checks, and both
refinements, are stated by a theorem as well. `RecordsStand` is proved only:
no run lists it, though TLC confirms it with the constants of `approval`.

## Not modelled

- Telemetry: it observes and changes nothing the program acts on. Validation of
  its settings is in `Startup`.
- Errors: the mapping to codes and texts. Which error a path takes is modelled.
- Inspectors: pure functions of a body; their outcome is a choice in
  `ApprovalFlow`.
- Parsing of YAML, JSON and command lines, glob matching, the layout of Slack
  messages, annotations of list answers: data without control. Cedar, governor,
  hyper and reqwest are libraries, modelled by how this code uses them.
- `ProxyBody`, `forward_batch`, the registry of shims,
  `CapabilityCache::invalidate` and `PollingScheduler::cancel`: the program does
  not use them (tests call the last; `tasks/cancel` leaves the reference to the
  next poll, which `SlackPolling` has).
