-------------------------------- MODULE Shim --------------------------------
(***************************************************************************)
(* One stdio shim (thoughtgate/src/shim) beside the governance service it  *)
(* asks (governance/service.rs).                                           *)
(*                                                                         *)
(* The shim is four concurrent tasks: the pump from the agent to the       *)
(* server, which asks the service about each line and may wait for a       *)
(* human; the pump from the server to the agent, which filters list        *)
(* answers; the heartbeat; and the main task, which waits for the first    *)
(* of them to end and then stops the server process.  They share the table *)
(* of outstanding requests and a shutdown flag.  A line is a record of its *)
(* place in the agent's stream, its framing, method, id and tool name.     *)
(* What a reviewer decides, when the service dies and what the agent and   *)
(* the server write is up to the environment.                              *)
(***************************************************************************)
EXTENDS Gates, FiniteSets

CONSTANTS Lines,          \* the lines an agent may write
          Ids,            \* JSON-RPC ids
          Configs,        \* the configurations the service may have
          Names,          \* the tools the server has
          StartPolicy,    \* what Cedar permits at first
          Policies,       \* what it may permit later (policies can read the clock)
          MaxLines,       \* bound: lines the agent writes
          MaxServerLines, \* bound: lines the server writes of its own accord
          MaxFaults,      \* bound: failures of the agent, the server and the service
          Stubs,          \* whether the service may run without an evaluator
          Filters         \* whether the shim may have the configuration for lists

ASSUME LinesAssumption ==
    /\ MaxLines \in Nat /\ MaxServerLines \in Nat /\ MaxFaults \in Nat
    /\ \A l \in Lines : l.framing \in {"ok", "long", "bad"} /\ l.id \in Ids \cup {None}
    /\ None \notin {"approved", "rejected", "expired"}

ASSUME ConfigsAssumption == \A c \in Configs : WellTyped(c)

Places == 1 .. MaxLines

VARIABLES config, stub, filter,   \* the service's configuration; the shim's copy for lists
          permitted,              \* what Cedar permits now
          sent,                   \* what the agent wrote, in order
          read,                   \* how many of these lines the pump has taken
          agentEof,               \* the agent closed its end
          pump,                   \* where the agent-to-server pump is
          tasks,                  \* the service's task for a line: its approval state
          toServer,               \* written to the server's stdin, not yet read by it
          delivered,              \* places of the lines written to the server
          fromServer,             \* on the server's stdout, not yet read by the shim
          chatter,                \* lines the server wrote of its own accord
          outbound,               \* PendingRequests (its inbound half is only ever logged)
          refused,                \* places of the lines the pump decided not to pass on
          reply,                  \* what it is about to answer the line in hand
          answers,                \* places answered by the shim itself, with what
          lists,                  \* list answers the agent has seen: ids and names
          flag,                   \* the shutdown watch channel
          late,                   \* lines written to the server since the flag was set
          svcShutdown, svcUp,     \* GovernanceServiceState::shutdown; the service process
          main, child,            \* run_shim and the server process
          stalled,                \* ends that stopped emptying their pipe from the shim
          faults                  \* failures the environment has caused

serviceVars == <<config, stub, filter, permitted, tasks, svcShutdown, svcUp>>
agentVars == <<sent, agentEof>>
serverVars == <<toServer, fromServer, chatter>>
replyVars == <<refused, reply>>
procVars == <<main, child, stalled, faults>>
vars == <<serviceVars, agentVars, read, pump, serverVars, delivered, outbound,
          replyVars, answers, lists, flag, late, procVars>>

Dev == config.dev

Init ==
    /\ config \in Configs /\ stub \in Stubs /\ filter \in Filters /\ permitted = StartPolicy
    /\ sent = <<>> /\ agentEof = FALSE /\ read = 0 /\ pump = "idle"
    /\ tasks = [p \in Places |-> "none"]
    /\ toServer = <<>> /\ fromServer = <<>> /\ chatter = 0 /\ delivered = {}
    /\ outbound = [i \in Ids |-> None]
    /\ refused = {} /\ reply = None /\ answers = {} /\ lists = {}
    /\ flag = FALSE /\ late = 0 /\ svcShutdown = FALSE /\ svcUp = TRUE
    /\ main = "starting" /\ child = "none" /\ stalled = {} /\ faults = 0

----------------------------------------------------------------------------
(* run_shim: spawn, readiness, the select over the tasks, the shutdown.    *)

Running == main \in {"select", "grace", "term", "kill"}
MainRest == UNCHANGED <<serviceVars, agentVars, read, serverVars, delivered, outbound,
                        replyVars, answers, lists, flag, late, stalled, faults>>

SpawnServer ==
    /\ main = "starting"
    /\ \/ child' = "running" /\ main' = "healthz"
       \/ main' = "exited" /\ UNCHANGED child                    \* ServerSpawnError
    /\ UNCHANGED pump /\ MainRest

\* poll_governance_healthz: twenty tries; a failure drops, and so kills, the server.
PollHealthz ==
    /\ main = "healthz"
    /\ \/ svcUp /\ main' = "select" /\ pump' = "read" /\ UNCHANGED child
       \/ ~svcUp /\ main' = "exited" /\ child' = "exited" /\ UNCHANGED pump
    /\ MainRest

\* server_to_agent ends with the flag or with the server's stdout, or at a line
\* it cannot write because the agent is gone.
RelayEnded == flag \/ (child # "running" /\ fromServer = <<>>) \/ (agentEof /\ fromServer # <<>>)

\* The first of four futures that is ready.  Nothing aborts the pumps: they go
\* on until the process ends.
SelectEnds ==
    /\ main = "select"
    /\ pump = "ended" \/ RelayEnded \/ child = "exited" \/ flag
    /\ main' = "grace"
    /\ UNCHANGED <<pump, child>> /\ MainRest

\* shutdown_server: wait, SIGTERM, wait, SIGKILL, wait; then the process ends.
StageWithoutKill == [grace |-> "term", term |-> "exited", kill |-> "exited"]
Stage == [grace |-> "term", term |-> "kill", kill |-> "exited"]

ShutdownServer ==
    /\ main \in DOMAIN Stage
    /\ \/ child = "exited" /\ main' = "exited" /\ UNCHANGED child
       \/ /\ child # "exited" /\ main' = Stage[main]
          /\ child' = IF main = "kill" THEN "exited" ELSE child
    /\ UNCHANGED pump /\ MainRest

----------------------------------------------------------------------------
(* agent_to_server.                                                        *)

Line == sent[read]

\* bounded_read_line and drain_until_newline: a line over the limit is skipped
\* to its end.  When the end does not come within thirty seconds the rest is
\* read as a line of its own: one more line the agent wrote.
TooLong(l) == l.framing = "long"

\* parse_stdio_message over classify_jsonrpc: what the id and the method of a
\* message make of it.  bounded_read_line ends a line at its newline, so
\* detect_smuggling never sees a second message in it.
Kind(l) ==
    IF l.id # None /\ l.method # None THEN "request"
    ELSE IF l.id # None THEN "response"
    ELSE IF l.method # None THEN "notification" ELSE "unclassifiable"
Malformed(l) == l.framing = "bad" \/ Kind(l) = "unclassifiable"

\* id_from_kind
HasId(l) == Kind(l) # "notification"

Passthrough == {"initialize", "initialized", "notifications/cancelled", "notifications/progress",
                "notifications/resources/updated", "notifications/resources/list_changed",
                "notifications/tools/list_changed", "notifications/prompts/list_changed",
                "ping", "pong"}

\* method_from_kind: a response has no method of its own.
Method(l) == IF Kind(l) = "response" THEN "response" ELSE l.method

PumpRest == UNCHANGED <<agentVars, procVars, config, stub, filter, permitted, svcUp, svcShutdown,
                        fromServer, chatter, lists>>
NoWrite == UNCHANGED <<toServer, delivered, late>>

\* write_all and flush, without a timeout and without a look at the flag: they
\* wait as long as the server does not empty the pipe.  A broken pipe ends the
\* pump with an error.
Write(next) ==
    \/ /\ child # "exited" /\ "server" \notin stalled /\ pump' = next
       /\ toServer' = Append(toServer, Line)
       /\ delivered' = delivered \cup {read}
       /\ late' = IF flag THEN late + 1 ELSE late
    \/ child = "exited" /\ pump' = "ended" /\ NoWrite

\* The end of the loop: the biased select finds the flag set, or the end of the
\* agent's stream.  Dropping the pipe closes the server's stdin.
StopReading ==
    /\ Running /\ pump = "read"
    /\ flag \/ (read = Len(sent) /\ agentEof)
    /\ pump' = "ended"
    /\ PumpRest /\ NoWrite /\ UNCHANGED <<read, tasks, outbound, replyVars, answers, flag>>

\* A line is taken, unless the flag is up.  One that is too long, not UTF-8,
\* empty or not one JSON-RPC message is skipped.  Passthrough methods are
\* written as they are, any other goes to the service.
Skipped(l) == TooLong(l) \/ Malformed(l)
MayRead == ~flag

ReadLine ==
    LET l == sent[read + 1] IN
    /\ Running /\ pump = "read" /\ MayRead /\ read < Len(sent)
    /\ read' = read + 1
    /\ \/ Skipped(l) /\ UNCHANGED pump
       \/ ~Skipped(l) /\ Method(l) \in Passthrough /\ pump' = "pass"
       \/ ~Skipped(l) /\ Method(l) \notin Passthrough /\ pump' = "ask"
    /\ PumpRest /\ NoWrite /\ UNCHANGED <<tasks, outbound, replyVars, answers, flag>>

\* Neither evaluated nor tracked.
Pass ==
    /\ Running /\ pump = "pass" /\ Write("read")
    /\ PumpRest /\ UNCHANGED <<read, tasks, outbound, replyVars, answers, flag>>

\* The line goes no further: an error line to the agent, for a message that has
\* an id, and the next line.
Respond(what) ==
    /\ refused' = refused \cup {read}
    /\ \/ HasId(Line) /\ pump' = "respond" /\ reply' = what
       \/ ~HasId(Line) /\ pump' = "read" /\ UNCHANGED reply
    /\ UNCHANGED answers

\* The continue after an answer.
FallsThrough == "forward"
NextLine == "read"

\* write_stdout: waits, like Write, for an agent that does not read; fails, and
\* ends the pump, when the agent is gone.
WriteStdout ==
    /\ Running /\ pump = "respond" /\ reply' = None
    /\ \/ /\ "agent" \notin stalled /\ pump' = NextLine
          /\ answers' = answers \cup {[place |-> read, what |-> reply]}
       \/ agentEof /\ pump' = "ended" /\ UNCHANGED answers
    /\ PumpRest /\ NoWrite /\ UNCHANGED <<read, tasks, outbound, refused, flag>>

\* evaluate_handler over GovernanceEvaluator::evaluate: the decision about a line.
\* A governed request without a name is forwarded.
Decision(l) ==
    IF stub \/ Kind(l) # "request" \/ ~MethodRequiresGates(l.method) \/ l.name = None
      THEN "forward"
      ELSE EvaluateWithPrincipal(config, permitted, l.method, l.name)

\* start_approval creates the task.
NewTask == tasks' = [tasks EXCEPT ![read] = "pending"]

\* The service evaluates; it read its shutdown flag before it did, so the flag
\* in the answer may be older than the decision.  Gate 4 creates the task, or
\* fails to and denies.  The shim acts on the decision even when it is told to
\* shut down.
ServiceEvaluates ==
    LET d == Decision(Line) IN
    /\ Running /\ pump = "ask" /\ svcUp
    /\ \/ d = "forward" /\ pump' = "forward" /\ UNCHANGED <<tasks, replyVars, answers>>
       \/ d = "approve" /\ pump' = "poll" /\ NewTask /\ UNCHANGED <<replyVars, answers>>
       \/ d # "forward" /\ Respond("denied") /\ UNCHANGED tasks
    /\ \E seen \in {svcShutdown, FALSE} : flag' = (flag \/ seen)
    /\ PumpRest /\ NoWrite /\ UNCHANGED <<read, outbound>>

\* No answer within the timeout, or one that cannot be parsed: production
\* denies, development forwards.  The service may have created a task all the
\* same, which nobody will ask about.
EvaluateFails ==
    /\ Running /\ pump = "ask"
    /\ UNCHANGED tasks \/ (svcUp /\ Decision(Line) = "approve" /\ NewTask)
    /\ \/ Dev /\ pump' = "forward" /\ UNCHANGED <<replyVars, answers>>
       \/ ~Dev /\ Respond("denied")
    /\ PumpRest /\ NoWrite /\ UNCHANGED <<read, outbound, flag>>

\* Written and flushed first, entered in the table afterwards.
Forward ==
    /\ Running /\ pump = "forward" /\ Write("track")
    /\ PumpRest /\ UNCHANGED <<read, tasks, outbound, replyVars, answers, flag>>

\* F-015: a response of the agent is entered as well, under its id.
Track ==
    /\ Running /\ pump = "track"
    /\ outbound' = IF HasId(Line) THEN [outbound EXCEPT ![Line.id] = Method(Line)] ELSE outbound
    /\ pump' = "read"
    /\ PumpRest /\ NoWrite /\ UNCHANGED <<read, tasks, replyVars, answers, flag>>

\* task_status_handler: the recorded decision, or a terminal state.
TaskStatusHandler(p) == IF tasks[p] = "pending" THEN None ELSE tasks[p]

\* poll_approval_status looks at the flag first.
PollAnswered ==
    LET outcome == TaskStatusHandler(read) IN
    /\ Running /\ pump = "poll" /\ ~flag /\ svcUp
    /\ \/ outcome = "approved" /\ pump' = "revalidate" /\ UNCHANGED <<replyVars, answers>>
       \/ outcome \in {"rejected", "expired"} /\ Respond(outcome)
    /\ PumpRest /\ NoWrite /\ UNCHANGED <<read, tasks, outbound, flag>>

\* The deadline from the task's time to live, or the limit of 720 polls; or a
\* request that fails (only evaluations of the production profile wait here).
PollWithoutDeadline ==
    /\ Running /\ pump = "poll" /\ ~flag /\ ~svcUp /\ Respond("unavailable")
    /\ PumpRest /\ NoWrite /\ UNCHANGED <<read, tasks, outbound, flag>>
PollGivesUp ==
    /\ Running /\ pump = "poll"
    /\ Respond("timeout") \/ (~flag /\ Respond("unavailable"))
    /\ PumpRest /\ NoWrite /\ UNCHANGED <<read, tasks, outbound, flag>>

PollStops ==
    /\ Running /\ pump = "poll" /\ flag
    /\ pump' = "ended"
    /\ PumpRest /\ NoWrite /\ UNCHANGED <<read, tasks, outbound, replyVars, answers, flag>>

\* Between two polls a progress notification is due now and then.  Its failure
\* is ignored, but it waits for an agent that does not read.
PollProgress ==
    /\ Running
    /\ \/ pump = "poll" /\ "agent" \in stalled /\ pump' = "progress"
       \/ pump = "progress" /\ ("agent" \notin stalled \/ agentEof) /\ pump' = "poll"
    /\ PumpRest /\ NoWrite /\ UNCHANGED <<read, tasks, outbound, replyVars, answers, flag>>

\* revalidate_handler: Cedar, if there is an engine, is asked again, about a tool
\* of that name whatever the method was.
RevalidateHandler(l) == config.engine => l.name \in permitted

\* revalidate_before_forward: what the handler answers; any status but success
\* permits (404 when the task is gone); a request that times out or cannot be
\* parsed refuses in production.
StillPermitted(l) == IF svcUp THEN {RevalidateHandler(l), TRUE, Dev} ELSE {Dev}

DriftForgotten ==
    pump' = "forward" /\ refused' = refused \cup {read} /\ UNCHANGED <<reply, answers>>
DriftDenies == Respond("drift")

Revalidate ==
    /\ Running /\ pump = "revalidate"
    /\ \E permits \in StillPermitted(Line) :
          \/ permits /\ pump' = "forward" /\ UNCHANGED <<replyVars, answers>>
          \/ ~permits /\ DriftDenies
    /\ PumpRest /\ NoWrite /\ UNCHANGED <<read, tasks, outbound, flag>>

----------------------------------------------------------------------------
(* server_to_agent.                                                        *)

ListMethods == {"tools/list", "resources/list", "prompts/list"}

\* What the agent is shown of a list answer whose request was tracked as entry.
Shown(msg, entry) ==
    IF entry \in ListMethods /\ filter THEN FilterByVisibility(config, msg.names) ELSE msg.names

\* One line: an answer is correlated and a list answer filtered; a request, a
\* notification or what cannot be parsed goes through as it is.  The line is out
\* once the agent reads.
RelayLine ==
    LET msg == Head(fromServer) IN
    /\ Running /\ ~flag /\ fromServer # <<>> /\ "agent" \notin stalled
    /\ fromServer' = Tail(fromServer)
    /\ \/ /\ msg.kind = "response"
          /\ outbound' = [outbound EXCEPT ![msg.id] = None]
          /\ lists' = IF msg.names = None THEN lists
                      ELSE lists \cup {[id |-> msg.id, names |-> Shown(msg, outbound[msg.id])]}
       \/ msg.kind = "other" /\ UNCHANGED <<outbound, lists>>
    /\ UNCHANGED <<serviceVars, agentVars, read, pump, toServer, chatter, delivered, replyVars,
                   answers, flag, late, procVars>>

----------------------------------------------------------------------------
(* heartbeat_loop over heartbeat_handler.                                  *)

\* heartbeat_handler
HeartbeatHandler == svcShutdown

\* A service that is gone counts as a request to shut down.
ToldToStop == ~svcUp \/ HeartbeatHandler

Beat ==
    /\ Running /\ ~flag /\ ToldToStop
    /\ flag' = TRUE
    /\ UNCHANGED <<serviceVars, agentVars, read, pump, serverVars, delivered, outbound,
                   replyVars, answers, lists, late, procVars>>

----------------------------------------------------------------------------
(* The environment.  Nothing after the end of the shim is of interest.     *)

EnvRest == /\ main # "exited"
           /\ UNCHANGED <<config, stub, filter, read, pump, delivered, outbound, replyVars,
                          answers, lists, flag, late, main>>
Fault == faults < MaxFaults /\ faults' = faults + 1

\* The agent writes lines in any order, at most one ahead of the pump (a pipe
\* keeps their order, so more would only wait), and may close its end.
AgentWrites(l) ==
    /\ ~agentEof /\ Len(sent) = read /\ Len(sent) < MaxLines /\ sent' = Append(sent, l)
    /\ EnvRest
    /\ UNCHANGED <<permitted, tasks, svcShutdown, svcUp, agentEof, serverVars, child, stalled, faults>>

AgentCloses ==
    /\ ~agentEof /\ agentEof' = TRUE /\ Fault
    /\ EnvRest /\ UNCHANGED <<permitted, tasks, svcShutdown, svcUp, sent, serverVars, child, stalled>>

\* The agent or the server stops reading what the shim writes, and its pipe is
\* full; it may go on later, or never.
Stalls(end) ==
    /\ Running /\ end \notin stalled /\ stalled' = stalled \cup {end} /\ Fault
    /\ EnvRest
    /\ UNCHANGED <<permitted, tasks, svcShutdown, svcUp, agentVars, serverVars, child>>

Resumes(end) ==
    /\ end \in stalled /\ stalled' = stalled \ {end}
    /\ EnvRest
    /\ UNCHANGED <<permitted, tasks, svcShutdown, svcUp, agentVars, serverVars, child, faults>>

\* The server reads a line, and answers it if it is a request: with its tools
\* when it was asked for a list.
ServerReads ==
    LET l == Head(toServer) IN
    /\ child = "running" /\ toServer # <<>> /\ "server" \notin stalled
    /\ toServer' = Tail(toServer)
    /\ fromServer' = IF Kind(l) # "request" THEN fromServer
                     ELSE Append(fromServer, [kind |-> "response", id |-> l.id,
                                              names |-> IF l.method \in ListMethods THEN Names ELSE None])
    /\ EnvRest /\ UNCHANGED <<permitted, tasks, svcShutdown, svcUp, agentVars, chatter, child,
                            stalled, faults>>

\* A line of its own accord.
ServerSpeaks ==
    /\ child = "running" /\ chatter < MaxServerLines
    /\ chatter' = chatter + 1
    /\ fromServer' = Append(fromServer, [kind |-> "other", id |-> None, names |-> None])
    /\ EnvRest /\ UNCHANGED <<permitted, tasks, svcShutdown, svcUp, agentVars, toServer, child,
                            stalled, faults>>

\* The server ends, or only closes its stdout and goes on.
ServerEnds ==
    /\ child = "running" /\ child' \in {"exited", "mute"} /\ Fault
    /\ EnvRest /\ UNCHANGED <<permitted, tasks, svcShutdown, svcUp, agentVars, serverVars, stalled>>

\* A reviewer or the scheduler ends a task.
Decides(p, o) ==
    /\ svcUp /\ tasks[p] = "pending" /\ tasks' = [tasks EXCEPT ![p] = o]
    /\ EnvRest
    /\ UNCHANGED <<permitted, svcShutdown, svcUp, agentVars, serverVars, child, stalled, faults>>

PolicyChanges(s) ==
    /\ permitted # s /\ permitted' = s /\ Fault
    /\ EnvRest /\ UNCHANGED <<tasks, svcShutdown, svcUp, agentVars, serverVars, child, stalled>>

\* shutdown_handler, or trigger_shutdown of wrap_cleanup.
TriggerShutdown ==
    /\ svcUp /\ ~svcShutdown /\ svcShutdown' = TRUE /\ Fault
    /\ EnvRest /\ UNCHANGED <<permitted, tasks, svcUp, agentVars, serverVars, child, stalled>>

ServiceDies ==
    /\ svcUp /\ svcUp' = FALSE /\ Fault
    /\ EnvRest /\ UNCHANGED <<permitted, tasks, svcShutdown, agentVars, serverVars, child, stalled>>

----------------------------------------------------------------------------
PumpStep ==
    \/ StopReading \/ ReadLine \/ Pass \/ ServiceEvaluates \/ EvaluateFails \/ Forward \/ Track
    \/ WriteStdout \/ PollAnswered \/ PollGivesUp \/ PollStops \/ PollProgress \/ Revalidate
MainStep == SpawnServer \/ PollHealthz \/ SelectEnds \/ ShutdownServer
EnvStep ==
    \/ \E l \in Lines : AgentWrites(l)
    \/ AgentCloses \/ ServerReads \/ ServerSpeaks \/ ServerEnds \/ TriggerShutdown \/ ServiceDies
    \/ \E end \in {"agent", "server"} : Stalls(end) \/ Resumes(end)
    \/ \E p \in Places, o \in {"approved", "rejected", "expired"} : Decides(p, o)
    \/ \E s \in Policies : PolicyChanges(s)

Next == PumpStep \/ MainStep \/ RelayLine \/ Beat \/ EnvStep

Spec == Init /\ [][Next]_vars

\* Every task of the shim runs whenever it can: its requests and polls end with
\* an answer, a timeout or a deadline.  A write to an end that does not read is
\* not enabled, and nothing makes that end read again: nothing is asked of the
\* agent, the server, the reviewer or the service.
FairSpec == Spec /\ WF_vars(PumpStep) /\ WF_vars(MainStep) /\ WF_vars(RelayLine) /\ WF_vars(Beat)

----------------------------------------------------------------------------
(* Properties.                                                             *)

\* The values the variables take.
TypeOK ==
    /\ read \in 0 .. Len(sent) /\ Len(sent) <= MaxLines
    /\ pump \in {"idle", "read", "pass", "ask", "forward", "track", "poll", "progress",
                "revalidate", "respond", "ended"}
    /\ tasks \in [Places -> {"none", "pending", "approved", "rejected", "expired"}]
    /\ delivered \subseteq Places /\ refused \subseteq Places /\ stalled \subseteq {"agent", "server"}
    /\ main \in {"starting", "healthz", "select", "grace", "term", "kill", "exited"}
    /\ child \in {"none", "running", "mute", "exited"}

\* In production a governed request with a name reaches the server only when
\* the gates forward that name outright or a reviewer approved the task made for
\* this very line, whatever failed, timed out or was shut down on the way.  (A
\* service without an evaluator forwards all; a call without an id or a name is
\* not put to the gates.)
GovernedDelivery ==
    \A p \in delivered :
        (~Dev /\ ~stub /\ Kind(sent[p]) = "request" /\ MethodRequiresGates(sent[p].method)
            /\ sent[p].name # None)
        => \/ tasks[p] = "approved"
           \/ EvaluateWithPrincipal(config, permitted, sent[p].method, sent[p].name) = "forward"

\* The shim never answers a request it also lets through, and never twice: the
\* agent would match the second answer to a later request with the same id.
AnsweredOnce ==
    /\ \A a \in answers : a.place \notin delivered
    /\ \A a, b \in answers : a.place = b.place => a = b

\* A line refused for whatever reason (denied, rejected, expired, timed out, or
\* no longer permitted when asked again after the approval) never reaches the
\* server.
RefusalsStand == refused \cap delivered = {}

\* Once the service has signalled shutdown the pump finishes the line it holds
\* and takes no other, although its reads, its polls and the signal race.
LateDeliveriesBounded == late <= 1

\* What reaches the server was let through and not refused, and after the signal
\* it is no more than the line in hand.
DeliveriesSound == GovernedDelivery /\ RefusalsStand /\ LateDeliveriesBounded

\* The pump is in a write that the other end does not take.
Blocked ==
    \/ pump \in {"pass", "forward"} /\ "server" \in stalled /\ child # "exited"
    \/ pump \in {"respond", "progress"} /\ "agent" \in stalled /\ ~agentEof

\* Every well-formed request the agent wrote is passed on or answered, or the
\* shim ends, unless the pump is blocked for good by an end that never reads
\* again: an evaluation that hangs, a reviewer who never decides or a service
\* that dies cannot leave it pending for good, nor can an end that reads late.
Handled ==
    \A p \in Places :
        (Len(sent) >= p /\ ~Skipped(sent[p]) /\ HasId(sent[p]))
            ~> (p \in delivered \/ (\E a \in answers : a.place = p) \/ main = "exited" \/ []Blocked)

\* When wrap triggers a shutdown or the service dies, the shim ends and its
\* server process with it.
ShutdownReachesServer == (svcShutdown \/ ~svcUp) ~> (main = "exited" /\ child \in {"none", "exited"})

\* Agents only see the tools they are allowed to access: every list answer
\* shown under a loaded configuration is filtered.
ListAnswersFiltered ==
    filter => \A a \in lists : a.names \subseteq FilterByVisibility(config, Names)

\* The pump was stopped before the server process is waited for and killed.
PumpStopsWithMain == [][(main \in DOMAIN Stage) => read' = read /\ delivered' = delivered]_vars
=============================================================================
