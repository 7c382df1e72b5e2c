---------------------------- MODULE ApprovalFlow ----------------------------
(***************************************************************************)
(* The life of an approval: ApprovalEngine (governance/engine.rs) creates  *)
(* the task and later executes it, PollingScheduler                        *)
(* (governance/approval/scheduler.rs) posts the request to a human and     *)
(* polls for the decision, ApprovalPipeline (governance/pipeline.rs) checks *)
(* the approval again and calls the upstream.                              *)
(*                                                                         *)
(* Every request future, the scheduler loop and every tasks/result call    *)
(* interleave at their awaits; a future may be dropped at any await, by a  *)
(* client that disconnects or by the select! around it.  Operations of the *)
(* store are single steps here: TaskStore shows that they behave so.       *)
(***************************************************************************)
EXTENDS TaskStatus, Naturals, FiniteSets

CONSTANTS TaskIds,
          Callers,         \* tasks/result and blocking calls in flight
          MaxConcurrent,   \* PollingConfig.max_concurrent
          Requests,        \* tools/call requests
          Inspect,         \* what the inspector chain may make of each: without
                           \* inspectors, as ApprovalEngine::new builds it, itself
          DriftMode,       \* PipelineConfig.transform_drift_mode
          MaxCalls,        \* upstream calls counted per task (bound)
          Faults,          \* which of "disconnect" and "shutdown" may happen
          None

ASSUME ConstantsAssumption ==
    /\ MaxConcurrent \in Nat /\ MaxCalls \in Nat \ {0}
    /\ None \notin TaskIds /\ None \notin Requests
    /\ Inspect \in [Requests -> SUBSET Requests]
    /\ DriftMode \in {"Strict", "Permissive"}

VARIABLES
    status,               \* of the task in the store, or "absent"
    approval,             \* Task.approval: "none", "approved", "rejected", "auto"
    result,               \* tasks whose Task.result is Some
    onTimeout,            \* Task.on_timeout
    original,             \* Task.original_request, which is also what is posted
    transformed,          \* Task.pre_approval_transformed, whose hash is kept
    overdue, validityOver,\* tasks past expires_at / past approval_valid_until
    submit,               \* where the start_approval of each task is
    human,                \* what the human answered on the posted message
    references, pending,  \* of the scheduler
    poll, polled,         \* where its poll_next is, and on which task
    shutdown,             \* "no", "signalled", "failed" (fail_all_pending ran)
    executing,            \* the engine's DashSet
    pc, task, auto, request, \* of each caller: place, task, whether the
                          \* snapshot was Expired, request to forward
    calls, sent           \* upstream: calls per task, <<task, request>> received

requestVars == <<onTimeout, original, transformed>>
storeVars == <<status, approval, result, requestVars>>
clockVars == <<overdue, validityOver>>
schedVars == <<references, pending, poll, polled>>
callerVars == <<executing, pc, task, auto, request>>
upstreamVars == <<calls, sent>>
vars == <<storeVars, clockVars, submit, human, schedVars, shutdown, callerVars, upstreamVars>>

Init ==
    /\ status = [t \in TaskIds |-> "absent"]
    /\ approval = [t \in TaskIds |-> "none"]
    /\ result = {}
    /\ onTimeout = [t \in TaskIds |-> "Deny"]
    /\ original = [t \in TaskIds |-> None] /\ transformed = [t \in TaskIds |-> None]
    /\ overdue = {} /\ validityOver = {}
    /\ submit = [t \in TaskIds |-> "new"]
    /\ human = [t \in TaskIds |-> "unasked"]
    /\ references = {} /\ pending = {}
    /\ poll = "idle" /\ polled = None
    /\ shutdown = "no"
    /\ executing = {}
    /\ pc = [c \in Callers |-> "idle"]
    /\ task = [c \in Callers |-> None]
    /\ auto = [c \in Callers |-> FALSE]
    /\ request = [c \in Callers |-> None]
    /\ calls = [t \in TaskIds |-> 0]
    /\ sent = {}

-----------------------------------------------------------------------------
(* start_approval and PollingScheduler::submit, one request per task.      *)

\* pre_approval_amber makes v of the request r, then TaskStore::create.
Create(t, a, r, v) ==
    /\ submit[t] = "new"
    /\ v \in Inspect[r]
    /\ status' = [status EXCEPT ![t] = "Working"]
    /\ onTimeout' = [onTimeout EXCEPT ![t] = a]
    /\ original' = [original EXCEPT ![t] = r]
    /\ transformed' = [transformed EXCEPT ![t] = v]
    /\ submit' = [submit EXCEPT ![t] = "created"]
    /\ UNCHANGED <<approval, result, clockVars, human, schedVars, shutdown, callerVars,
                   upstreamVars>>

\* transition(InputRequired), refused if a shutdown or the TTL was faster.
AskInput(t) ==
    /\ submit[t] = "created"
    /\ IF CanTransitionTo(status[t], "InputRequired")
         THEN /\ status' = [status EXCEPT ![t] = "InputRequired"]
              /\ submit' = [submit EXCEPT ![t] = "check"]
         ELSE submit' = [submit EXCEPT ![t] = "failed"] /\ UNCHANGED status
    /\ UNCHANGED <<approval, result, requestVars, clockVars, human, schedVars, shutdown,
                   callerVars, upstreamVars>>

CapacityFull == Cardinality(references) >= MaxConcurrent

\* The soft limit.  RateLimited leaves the task InputRequired, unposted.
CheckCapacity(t) ==
    /\ submit[t] = "check"
    /\ submit' = [submit EXCEPT ![t] = IF CapacityFull THEN "failed" ELSE "posting"]
    /\ UNCHANGED <<storeVars, clockVars, human, schedVars, shutdown, callerVars, upstreamVars>>

\* post_approval_request reaches the chat system with the original request,
\* not with what the inspectors made of it ...
Post(t) ==
    /\ submit[t] = "posting"
    /\ human' = [human EXCEPT ![t] = "asked"]
    /\ submit' = [submit EXCEPT ![t] = "posted"]
    /\ UNCHANGED <<storeVars, clockVars, schedVars, shutdown, callerVars, upstreamVars>>

\* ... or the call fails, before or after the message was posted.
PostFails(t) ==
    /\ submit[t] \in {"posting", "posted"}
    /\ submit' = [submit EXCEPT ![t] = "failed"]
    /\ UNCHANGED <<storeVars, clockVars, human, schedVars, shutdown, callerVars, upstreamVars>>

AddReference(t) ==
    /\ submit[t] = "posted"
    /\ references' = references \cup {t}
    /\ submit' = [submit EXCEPT ![t] = "enqueue"]
    /\ UNCHANGED <<storeVars, clockVars, human, pending, poll, polled, shutdown, callerVars,
                   upstreamVars>>

\* pending.lock().await and the insertion.
Enqueue(t) ==
    /\ submit[t] = "enqueue"
    /\ pending' = pending \cup {t}
    /\ submit' = [submit EXCEPT ![t] = "done"]
    /\ UNCHANGED <<storeVars, clockVars, human, references, poll, polled, shutdown, callerVars,
                   upstreamVars>>

\* The client goes away and hyper drops the future at one of its awaits.
DropSubmit(t) ==
    /\ "disconnect" \in Faults
    /\ submit[t] \in {"posting", "posted", "enqueue"}
    /\ submit' = [submit EXCEPT ![t] = "dropped"]
    /\ UNCHANGED <<storeVars, clockVars, human, schedVars, shutdown, callerVars, upstreamVars>>

-----------------------------------------------------------------------------
(* PollingScheduler::run.                                                  *)

SetStatus(t, s) ==
    /\ status' = IF CanTransitionTo(status[t], s) THEN [status EXCEPT ![t] = s] ELSE status
    /\ UNCHANGED <<approval, result, requestVars>>

\* get_next_due and the look at the store that follows without an await.
\* Without a reference nothing more happens; a task that ended is dropped; one
\* past its TTL is dropped and expired; any other is polled.
TakeDue(t) ==
    /\ poll = "idle"
    /\ t \in pending
    /\ pending' = pending \ {t}
    /\ IF t \in references /\ status[t] \in NonTerminal /\ t \notin overdue
         THEN poll' = "asking" /\ polled' = t /\ UNCHANGED <<references, storeVars>>
         ELSE /\ references' = references \ {t}
              /\ IF t \in references /\ status[t] \in NonTerminal
                   THEN SetStatus(t, "Expired")
                   ELSE UNCHANGED storeVars
              /\ UNCHANGED <<poll, polled>>
    /\ UNCHANGED <<clockVars, submit, human, shutdown, callerVars, upstreamVars>>

PollEnds == poll' = "idle" /\ polled' = None

\* handle_decision: no await between dropping the reference and recording.
\* record_approval refuses unless the task is InputRequired.
HandleDecision ==
    LET t == polled IN
    /\ poll = "asking"
    /\ human[t] \in {"approved", "rejected"}
    /\ references' = references \ {t}
    /\ IF status[t] = "InputRequired"
         THEN /\ approval' = [approval EXCEPT ![t] = human[t]]
              /\ status' = [status EXCEPT ![t] =
                              IF human[t] = "approved" THEN "Executing" ELSE "Rejected"]
         ELSE UNCHANGED <<approval, status>>
    /\ PollEnds
    /\ UNCHANGED <<result, requestVars, clockVars, submit, human, pending, shutdown,
                   callerVars, upstreamVars>>

\* No decision yet, rate limited, or a retriable error: reschedule puts the
\* reference back and then awaits the queue's lock.
PollAgain ==
    /\ poll = "asking"
    /\ references' = references \cup {polled}
    /\ poll' = "requeue"
    /\ UNCHANGED <<storeVars, clockVars, submit, human, pending, polled, shutdown, callerVars,
                   upstreamVars>>

Requeue ==
    /\ poll = "requeue"
    /\ pending' = pending \cup {polled}
    /\ PollEnds
    /\ UNCHANGED <<storeVars, clockVars, submit, human, references, shutdown, callerVars,
                   upstreamVars>>

\* MessageNotFound or another error that is not retriable.
PollGivesUp ==
    /\ poll = "asking"
    /\ references' = references \ {polled}
    /\ PollEnds
    /\ UNCHANGED <<storeVars, clockVars, submit, human, pending, shutdown, callerVars,
                   upstreamVars>>

ExpirableOnlyNew(s) == s = "Working"
Expirable(s) == CanTransitionTo(s, "Expired")

ExpireOverdue ==
    /\ status' = [t \in TaskIds |->
                    IF t \in overdue /\ Expirable(status[t]) THEN "Expired" ELSE status[t]]
    /\ UNCHANGED <<approval, result, requestVars>>

\* The expiration tick wins the biased select!: an unfinished poll_next is
\* dropped where it is, and expire_overdue runs.
Tick ==
    /\ poll # "stopped"
    /\ ExpireOverdue
    /\ PollEnds
    /\ UNCHANGED <<clockVars, submit, human, references, pending, shutdown, callerVars,
                   upstreamVars>>

\* SIGTERM or SIGINT: begin_shutdown cancels the token.
Signal ==
    /\ "shutdown" \in Faults /\ shutdown = "no"
    /\ shutdown' = "signalled"
    /\ UNCHANGED <<storeVars, clockVars, submit, human, schedVars, callerVars, upstreamVars>>

\* The loop sees the token: last sweep, then drain_pending.
StopScheduler ==
    /\ shutdown # "no" /\ poll # "stopped"
    /\ ExpireOverdue
    /\ references' = {}
    /\ poll' = "stopped" /\ polled' = None
    /\ UNCHANGED <<clockVars, submit, human, pending, shutdown, callerVars, upstreamVars>>

\* graceful_shutdown calls fail_all_pending, which only Working and Executing
\* tasks obey.
FailAllPending ==
    /\ shutdown = "signalled"
    /\ shutdown' = "failed"
    /\ status' = [t \in TaskIds |->
                    IF CanTransitionTo(status[t], "Failed") THEN "Failed" ELSE status[t]]
    /\ UNCHANGED <<approval, result, requestVars, clockVars, submit, human, schedVars,
                   callerVars, upstreamVars>>

-----------------------------------------------------------------------------
(* tasks/cancel, which leaves the scheduler's reference alone.             *)

TasksCancel(t) ==
    /\ status[t] = "InputRequired"
    /\ SetStatus(t, "Cancelled")
    /\ UNCHANGED <<clockVars, submit, human, schedVars, shutdown, callerVars, upstreamVars>>

-----------------------------------------------------------------------------
(* wait_and_execute, execute_on_result and handle_expired_task.            *)

\* A blocking request waits in the future that ran its start_approval.
Wait(c, t) ==
    /\ pc[c] = "idle" /\ submit[t] = "done"
    /\ submit' = [submit EXCEPT ![t] = "waited"]
    /\ pc' = [pc EXCEPT ![c] = "waiting"]
    /\ task' = [task EXCEPT ![c] = t]
    /\ UNCHANGED <<storeVars, clockVars, human, schedVars, shutdown, executing, auto, request,
                   upstreamVars>>

\* The statuses execute_on_result goes on from.
Executable(t) ==
    \/ status[t] = "Executing"
    \/ status[t] = "Expired" /\ onTimeout[t] = "Approve"

\* The snapshot of the task, for tasks/result or in the loop of a blocking
\* request.  Every other status answers tasks/result at once.
GetTask(c, t) ==
    /\ pc[c] \in {"idle", "waiting"} /\ task[c] \in {None, t}
    /\ Executable(t)
    /\ task' = [task EXCEPT ![c] = t]
    /\ auto' = [auto EXCEPT ![c] = status[t] = "Expired"]
    /\ pc' = [pc EXCEPT ![c] = "acquire"]
    /\ UNCHANGED <<storeVars, clockVars, submit, human, schedVars, shutdown, executing, request,
                   upstreamVars>>

Free(c) ==
    /\ pc' = [pc EXCEPT ![c] = "idle"]
    /\ task' = [task EXCEPT ![c] = None]
    /\ auto' = [auto EXCEPT ![c] = FALSE]
    /\ request' = [request EXCEPT ![c] = None]

\* A blocking request returns when its task has ended without being executed,
\* or when its deadline has passed and the last poll found no decision; the
\* deadline is not looked at otherwise.
WaitReturns(c) ==
    /\ pc[c] = "waiting"
    /\ ~Executable(task[c])
    /\ Free(c)
    /\ UNCHANGED <<storeVars, clockVars, submit, human, schedVars, shutdown, executing,
                   upstreamVars>>

AcquireAnyway(c) ==
    /\ pc[c] = "acquire"
    /\ executing' = executing \cup {task[c]}
    /\ pc' = [pc EXCEPT ![c] = "validate"]
    /\ UNCHANGED <<storeVars, clockVars, submit, human, schedVars, shutdown, task, auto, request,
                   upstreamVars>>

\* executing.insert: only one caller passes, the others are turned away.
Acquire(c) ==
    /\ pc[c] = "acquire"
    /\ IF task[c] \in executing
         THEN Free(c) /\ UNCHANGED executing
         ELSE /\ executing' = executing \cup {task[c]}
              /\ pc' = [pc EXCEPT ![c] = "validate"]
              /\ UNCHANGED <<task, auto, request>>
    /\ UNCHANGED <<storeVars, clockVars, submit, human, schedVars, shutdown, upstreamVars>>

Advance(c, l) ==
    /\ pc' = [pc EXCEPT ![c] = l]
    /\ UNCHANGED <<storeVars, clockVars, submit, human, schedVars, shutdown, executing, task,
                   auto, upstreamVars>>

\* validate_approval.  The snapshot is Executing, and the synthetic approval
\* of an expired task is fresh.
ValidateApproval(c) ==
    /\ pc[c] = "validate"
    /\ Advance(c, IF ~auto[c] /\ task[c] \in validityOver THEN "failure" ELSE "policy")
    /\ UNCHANGED request

\* The policy in force now permits the call, or rejects it (PolicyDrift).
ReevaluatePolicy(c) ==
    /\ pc[c] = "policy"
    /\ \E l \in {"inspect", "failure"} : Advance(c, l)
    /\ UNCHANGED request

FinalRequestDrifts(t, v) == IF v = transformed[t] \/ DriftMode = "Permissive" THEN v ELSE None

\* What post_approval_amber returns when the chain now makes v of the original
\* request, None if it fails: v if its hash is the stored one, else an error
\* (strict) or the transformation made before the approval (permissive).
FinalRequest(t, v) ==
    IF v = transformed[t] THEN v ELSE IF DriftMode = "Permissive" THEN transformed[t] ELSE None

PostApprovalAmber(c, v) ==
    LET r == FinalRequest(task[c], v) IN
    /\ pc[c] = "inspect"
    /\ v \in Inspect[original[task[c]]]
    /\ request' = [request EXCEPT ![c] = r]
    /\ Advance(c, IF r = None THEN "failure" ELSE "forward")

\* An inspector rejects, fails or times out.
InspectionFails(c) ==
    /\ pc[c] = "inspect"
    /\ Advance(c, "failure")
    /\ UNCHANGED request

\* The request reaches the upstream.
Forward(c) ==
    /\ pc[c] = "forward"
    /\ pc' = [pc EXCEPT ![c] = "sent"]
    /\ calls' = [calls EXCEPT ![task[c]] = IF @ < MaxCalls THEN @ + 1 ELSE @]
    /\ sent' = sent \cup {<<task[c], request[c]>>}
    /\ UNCHANGED <<storeVars, clockVars, submit, human, schedVars, shutdown, executing, task,
                   auto, request>>

\* It answers, or it fails or times out.
Answer(c) ==
    /\ pc[c] = "sent"
    /\ \E l \in {"success", "failure"} : Advance(c, l)
    /\ UNCHANGED request

InPipeline == {"policy", "inspect", "forward", "sent"}

\* The execution timeout around the pipeline: a failure to record, or for an
\* expired task an error that records nothing.
ExecutionTimeout(c) ==
    /\ pc[c] \in InPipeline
    /\ Advance(c, IF auto[c] THEN "release" ELSE "failure")
    /\ UNCHANGED request

\* handle_pipeline_result and its counterpart for an expired task.  complete
\* and fail refuse a task that is no longer Executing.
RecordSuccess(c) ==
    LET t == task[c] IN
    /\ pc[c] = "success"
    /\ IF auto[c]
         THEN /\ result' = result \cup {t}
              /\ approval' = [approval EXCEPT ![t] = "auto"]
              /\ UNCHANGED status
         ELSE /\ UNCHANGED approval
              /\ IF status[t] = "Executing"
                   THEN result' = result \cup {t} /\ status' = [status EXCEPT ![t] = "Completed"]
                   ELSE UNCHANGED <<result, status>>
    /\ pc' = [pc EXCEPT ![c] = "release"]
    /\ UNCHANGED <<requestVars, clockVars, submit, human, schedVars, shutdown, executing,
                   task, auto, request, upstreamVars>>

RecordFailure(c) ==
    /\ pc[c] = "failure"
    /\ IF auto[c] THEN UNCHANGED storeVars ELSE SetStatus(task[c], "Failed")
    /\ pc' = [pc EXCEPT ![c] = "release"]
    /\ UNCHANGED <<clockVars, submit, human, schedVars, shutdown, executing, task, auto, request,
                   upstreamVars>>

DropGuardForgotten(c) ==
    /\ Free(c)
    /\ UNCHANGED <<storeVars, clockVars, submit, human, schedVars, shutdown, executing,
                   upstreamVars>>

\* ExecutingGuard::drop, at the end of the call ...
DropGuard(c) ==
    /\ executing' = executing \ {task[c]}
    /\ Free(c)
    /\ UNCHANGED <<storeVars, clockVars, submit, human, schedVars, shutdown, upstreamVars>>

Release(c) == pc[c] = "release" /\ DropGuard(c)

\* ... or wherever the call's future is dropped because its client is gone.
Abandon(c) == "disconnect" \in Faults /\ pc[c] \in InPipeline /\ DropGuard(c)

\* A waiting call that is dropped holds no guard.
AbandonWait(c) ==
    /\ "disconnect" \in Faults /\ pc[c] = "waiting"
    /\ Free(c)
    /\ UNCHANGED <<storeVars, clockVars, submit, human, schedVars, shutdown, executing,
                   upstreamVars>>

-----------------------------------------------------------------------------
(* The clock and the human.                                                *)

TtlPasses(t) ==
    /\ status[t] \in NonTerminal /\ t \notin overdue
    /\ overdue' = overdue \cup {t}
    /\ UNCHANGED <<storeVars, validityOver, submit, human, schedVars, shutdown, callerVars,
                   upstreamVars>>

ValidityPasses(t) ==
    /\ approval[t] = "approved" /\ t \notin validityOver
    /\ validityOver' = validityOver \cup {t}
    /\ UNCHANGED <<storeVars, overdue, submit, human, schedVars, shutdown, callerVars,
                   upstreamVars>>

\* A reaction on the posted message; the first one counts.
Decide(t, d) ==
    /\ human[t] = "asked"
    /\ human' = [human EXCEPT ![t] = d]
    /\ UNCHANGED <<storeVars, clockVars, submit, schedVars, shutdown, callerVars, upstreamVars>>

-----------------------------------------------------------------------------
SubmitStep(t) ==
    AskInput(t) \/ CheckCapacity(t) \/ Post(t) \/ PostFails(t) \/ AddReference(t) \/ Enqueue(t)

PollStep == HandleDecision \/ PollAgain \/ Requeue \/ PollGivesUp

WaitPolls(c) == pc[c] = "waiting" /\ GetTask(c, task[c])

CallStep(c) ==
    \/ WaitPolls(c) \/ WaitReturns(c)
    \/ Acquire(c) \/ ValidateApproval(c) \/ ReevaluatePolicy(c)
    \/ \E v \in Requests : PostApprovalAmber(c, v)
    \/ InspectionFails(c) \/ Forward(c) \/ Answer(c) \/ ExecutionTimeout(c)
    \/ RecordSuccess(c) \/ RecordFailure(c) \/ Release(c)

TaskStep(t) ==
    \/ \E a \in {"Deny", "Approve"}, r, v \in Requests : Create(t, a, r, v)
    \/ SubmitStep(t) \/ DropSubmit(t)
    \/ TakeDue(t)
    \/ TasksCancel(t)
    \/ TtlPasses(t) \/ ValidityPasses(t)
    \/ \E d \in {"approved", "rejected"} : Decide(t, d)
    \/ \E c \in Callers : Wait(c, t) \/ GetTask(c, t)

Next ==
    \/ \E t \in TaskIds : TaskStep(t)
    \/ \E c \in Callers : CallStep(c) \/ Abandon(c) \/ AbandonWait(c)
    \/ PollStep \/ Tick
    \/ Signal \/ StopScheduler \/ FailAllPending

Spec == Init /\ [][Next]_vars

\* Futures that are not dropped make progress, the interval ticks, and the
\* queue, ordered by next_poll_at, passes over no entry forever.  Clients,
\* humans and signals owe nothing.
FairSpec ==
    /\ Spec
    /\ \A t \in TaskIds : WF_vars(SubmitStep(t)) /\ SF_vars(TakeDue(t))
    /\ WF_vars(PollStep) /\ WF_vars(Tick) /\ WF_vars(StopScheduler)
    /\ \A c \in Callers : WF_vars(CallStep(c))

-----------------------------------------------------------------------------
(* Properties *)

HoldsGuard == InPipeline \cup {"validate", "success", "failure", "release"}

\* Every variable has its type; a poll is in flight exactly when the loop
\* remembers its task, and a call is exactly when it has one.
TypeOK ==
    /\ status \in [TaskIds -> Status \cup {"absent"}]
    /\ approval \in [TaskIds -> {"none", "approved", "rejected", "auto"}]
    /\ result \subseteq TaskIds
    /\ onTimeout \in [TaskIds -> {"Deny", "Approve"}]
    /\ original \in [TaskIds -> Requests \cup {None}]
    /\ transformed \in [TaskIds -> Requests \cup {None}]
    /\ overdue \subseteq TaskIds /\ validityOver \subseteq TaskIds
    /\ submit \in [TaskIds -> {"new", "created", "check", "posting", "posted", "enqueue",
                               "done", "waited", "failed", "dropped"}]
    /\ human \in [TaskIds -> {"unasked", "asked", "approved", "rejected"}]
    /\ references \subseteq TaskIds /\ pending \subseteq TaskIds
    /\ poll \in {"idle", "asking", "requeue", "stopped"}
    /\ polled \in TaskIds \cup {None} /\ (polled # None <=> poll \in {"asking", "requeue"})
    /\ shutdown \in {"no", "signalled", "failed"}
    /\ executing \subseteq TaskIds
    /\ pc \in [Callers -> {"idle", "waiting", "acquire"} \cup HoldsGuard]
    /\ task \in [Callers -> TaskIds \cup {None}]
    /\ \A c \in Callers : task[c] # None <=> pc[c] # "idle"
    /\ auto \in [Callers -> BOOLEAN]
    /\ request \in [Callers -> Requests \cup {None}]
    /\ calls \in [TaskIds -> 0..MaxCalls]
    /\ sent \subseteq TaskIds \X Requests

\* An approval-gated call reaches the upstream only on a human's recorded
\* approval, or after the TTL of a task whose on_timeout is Approve; never for
\* a task that was rejected or cancelled, or that is still awaiting its answer.
OnlyApprovedExecutes ==
    \A t \in TaskIds : calls[t] > 0 =>
        \/ /\ status[t] \in {"Executing", "Completed", "Failed"}
           /\ approval[t] = "approved" /\ human[t] = "approved"
        \/ status[t] = "Expired" /\ onTimeout[t] = "Approve" /\ t \in overdue

\* Two calls never run the pipeline for one task at the same time.
ExecutionExclusive ==
    \A c, d \in Callers :
        (pc[c] \in HoldsGuard /\ pc[d] \in HoldsGuard /\ task[c] = task[d]) => c = d

\* What the store holds of a task is written once: its status only moves along
\* the lifecycle, its request and on_timeout stay as they were created, and a
\* human's decision is replaced neither by a later one nor by the automatic
\* approval that record_auto_approve_result writes for an expired task.
RecordKept(t) ==
    /\ \/ status'[t] = status[t]
       \/ status[t] = "absent" /\ status'[t] = "Working"
       \/ CanTransitionTo(status[t], status'[t])
    /\ status[t] # "absent" => /\ original'[t] = original[t] /\ transformed'[t] = transformed[t]
                               /\ onTimeout'[t] = onTimeout[t]
    /\ approval[t] \in {"approved", "rejected"} => approval'[t] = approval[t]
RecordsStand == [][\A t \in TaskIds : RecordKept(t)]_vars

\* The upstream receives the transformation that was stored before anyone was
\* asked: drift of the inspectors between that moment and the execution is
\* refused (strict) or undone (permissive).  The human is shown the original
\* request, so what is forwarded is what was shown where the inspectors leave
\* a request alone: always, when there are none.
ForwardsWhatWasApproved ==
    \A s \in sent :
        /\ s[2] = transformed[s[1]]
        /\ Inspect[original[s[1]]] = {original[s[1]]} => s[2] = original[s[1]]

\* A stored result comes from the upstream, and a completed task has one.
ResultsAreReal ==
    \A t \in TaskIds :
        /\ t \in result => calls[t] > 0
        /\ status[t] = "Completed" => t \in result

\* What the upstream receives was approved, and is what was stored for that
\* approval; what the agent receives is the upstream's answer.
ExecutesWhatWasApproved == OnlyApprovedExecutes /\ ForwardsWhatWasApproved /\ ResultsAreReal

\* The execution guard is released however the call ends, so that a task can
\* be retried.
GuardReleased == \A t \in TaskIds : t \in executing ~> t \notin executing

\* Every call returns, a blocking one too although nobody may ever decide, and
\* none leaves the guard of its task behind.
CallsEnd == GuardReleased /\ \A c \in Callers : pc[c] # "idle" ~> pc[c] = "idle"

\* A task nobody decides on leaves InputRequired after its TTL, whatever
\* happened to its polling, unless the scheduler was stopped.
UndecidedExpires ==
    \A t \in TaskIds :
        (t \in overdue /\ status[t] = "InputRequired")
            ~> (status[t] # "InputRequired" \/ poll = "stopped")

\* "the human approved pre_approval_transformed, so that's what gets executed"
\* (pipeline.rs:676): what is executed is what the human was shown.
ForwardsWhatWasShown == \A s \in sent : s[2] = original[s[1]]

\* "This ensures at-most-once semantics for upstream calls" (engine.rs:246).
AtMostOnce == \A t \in TaskIds : calls[t] <= 1

\* "The system self-corrects as tasks complete" (scheduler.rs:179): the entry
\* of a task that ended does not keep its place under max_concurrent.
ReferencesReclaimed ==
    \A t \in TaskIds : (t \in references /\ status[t] \in Terminal) ~> t \notin references

\* "Task TTL is the outer boundary - nothing survives past TTL"
\* (specs/architecture.md:988).
TtlIsOuterBoundary ==
    \A t \in TaskIds : t \in overdue ~> (status[t] \in Terminal \/ poll = "stopped")
=============================================================================
