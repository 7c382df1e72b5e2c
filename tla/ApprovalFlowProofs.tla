------------------------- MODULE ApprovalFlowProofs -------------------------
(***************************************************************************)
(* Theorems about ApprovalFlow, for any number of tasks, callers and       *)
(* requests, any inspectors and any limits: only what was approved is      *)
(* executed, with the request stored for it, by one caller at a time, and  *)
(* what was recorded of a task stays.                                      *)
(***************************************************************************)
EXTENDS ApprovalFlow, TLAPS

\* A task enters the store with its create, and nobody can have answered a
\* question that was not posted yet.
NotYetAsked ==
    \A t \in TaskIds :
        /\ submit[t] = "new" => status[t] = "absent"
        /\ submit[t] \in {"new", "created", "check", "posting"} => human[t] = "unasked"

\* Executing and Completed are reached only through record_approval.
ExecutingApproved ==
    \A t \in TaskIds : status[t] \in {"Executing", "Completed"} =>
        approval[t] = "approved" /\ human[t] = "approved"

\* Only the TTL expires a task.
ExpiredOverdue == \A t \in TaskIds : status[t] = "Expired" => t \in overdue

\* What justifies an execution of t, by a caller that saw it Expired or not.
Justified(t, expired) ==
    IF expired
      THEN status[t] = "Expired" /\ onTimeout[t] = "Approve" /\ t \in overdue
      ELSE /\ status[t] \in {"Executing", "Completed", "Failed"}
           /\ approval[t] = "approved" /\ human[t] = "approved"

\* A snapshot may be stale, but what made it executable cannot be undone.
SnapshotsJustified ==
    \A c \in Callers : pc[c] \in HoldsGuard \cup {"acquire"} =>
        task[c] \in TaskIds /\ Justified(task[c], auto[c])

\* A caller inside has put its task into the engine's DashSet.
InsideHoldsGuard == \A c \in Callers : pc[c] \in HoldsGuard => task[c] \in executing

\* What is about to be forwarded is what was stored before the approval, and
\* that is something the inspectors made of the original request.
RequestsApproved ==
    /\ \A c \in Callers : pc[c] = "forward" =>
          request[c] = transformed[task[c]] /\ request[c] \in Requests
    /\ \A t \in TaskIds : transformed[t] # None => transformed[t] \in Inspect[original[t]]

\* Whoever has an answer, or was received, has been counted.
CallsCounted ==
    /\ \A c \in Callers : pc[c] \in {"sent", "success"} => calls[task[c]] > 0
    /\ \A s \in sent : calls[s[1]] > 0

AuxInv ==
    /\ NotYetAsked
    /\ ExecutingApproved
    /\ ExpiredOverdue
    /\ SnapshotsJustified
    /\ InsideHoldsGuard
    /\ RequestsApproved
    /\ CallsCounted

IndInv == TypeOK /\ AuxInv /\ ExecutesWhatWasApproved /\ ExecutionExclusive

SafetyInv == AuxInv /\ ExecutesWhatWasApproved /\ ExecutionExclusive

-----------------------------------------------------------------------------
(* Steps that share a shape *)

\* No task exists and no call is under way at first.
LEMMA InitInd == Init => IndInv
<1> SUFFICES ASSUME Init PROVE IndInv
  OBVIOUS
<1>1. TypeOK
  BY ConstantsAssumption DEF Init, TypeOK, Status
<1>2. AuxInv
  BY DEF Init, AuxInv, NotYetAsked, ExecutingApproved, ExpiredOverdue, SnapshotsJustified,
         InsideHoldsGuard, RequestsApproved, CallsCounted, HoldsGuard, InPipeline
<1>3. ExecutesWhatWasApproved
  BY DEF Init, ExecutesWhatWasApproved, OnlyApprovedExecutes, ForwardsWhatWasApproved,
         ResultsAreReal
<1>4. ExecutionExclusive
  BY DEF Init, ExecutionExclusive, HoldsGuard, InPipeline
<1> QED BY <1>1, <1>2, <1>3, <1>4 DEF IndInv

\* The submission advances, the TTL passes, or the store moves a task to a
\* status that no execution leads to: the callers and what justifies them are
\* left as they were.
StoreMoves ==
    \A t \in TaskIds :
        \/ status'[t] = status[t]
        \/ /\ CanTransitionTo(status[t], status'[t])
           /\ status'[t] \notin {"Executing", "Completed"}
           /\ status'[t] = "Expired" => t \in overdue'

SubmitAdvances ==
    \A t \in TaskIds :
        /\ submit'[t] = "new" => submit[t] = "new"
        /\ submit'[t] \in {"new", "created", "check", "posting"} =>
              submit[t] \in {"new", "created", "check", "posting"}

\* A step of the store that moves a task along its life, and touches no caller, keeps what is safe.
LEMMA StoreFrame ==
    ASSUME IndInv, StoreMoves, SubmitAdvances, overdue \subseteq overdue',
           UNCHANGED <<approval, result, requestVars, human, callerVars, upstreamVars>>
    PROVE  SafetyInv'
<1> USE DEF requestVars, callerVars, upstreamVars, IndInv, AuxInv
<1>1. NotYetAsked'
  BY DEF NotYetAsked, StoreMoves, SubmitAdvances, CanTransitionTo, Transitions
<1>2. ExecutingApproved' /\ ExpiredOverdue'
  BY DEF ExecutingApproved, ExpiredOverdue, StoreMoves
<1>3. ASSUME NEW t \in TaskIds, NEW b, Justified(t, b) PROVE Justified(t, b)'
  BY <1>3 DEF Justified, StoreMoves, CanTransitionTo, Transitions
<1>4. SnapshotsJustified'
  BY <1>3 DEF SnapshotsJustified
<1>5. InsideHoldsGuard' /\ RequestsApproved' /\ CallsCounted' /\ ExecutionExclusive'
  BY DEF InsideHoldsGuard, RequestsApproved, CallsCounted, ExecutionExclusive
<1>6. OnlyApprovedExecutes'
  BY DEF ExecutesWhatWasApproved, OnlyApprovedExecutes, StoreMoves, CanTransitionTo, Transitions
<1>7. ForwardsWhatWasApproved' /\ ResultsAreReal'
  BY DEF ExecutesWhatWasApproved, ForwardsWhatWasApproved, ResultsAreReal, StoreMoves
<1> QED
  BY <1>1, <1>2, <1>4, <1>5, <1>6, <1>7 DEF SafetyInv, ExecutesWhatWasApproved

\* One caller moves, and the store, the human and the upstream do not.
OthersStay(c) ==
    /\ \A d \in Callers \ {c} :
          /\ pc'[d] = pc[d] /\ task'[d] = task[d]
          /\ auto'[d] = auto[d] /\ request'[d] = request[d]
          /\ pc[d] \in HoldsGuard => task[d] \in executing'

CallerEarned(c) ==
    /\ pc'[c] \in HoldsGuard \cup {"acquire"} =>
          task'[c] \in TaskIds /\ Justified(task'[c], auto'[c])
    /\ pc'[c] \in HoldsGuard =>
          /\ task'[c] \in executing'
          /\ \A d \in Callers \ {c} : pc[d] \in HoldsGuard => task[d] # task'[c]
    /\ pc'[c] = "forward" => request'[c] = transformed[task'[c]] /\ request'[c] \in Requests
    /\ pc'[c] \in {"sent", "success"} => calls[task'[c]] > 0

\* So does a step of one caller that earns what it takes.
LEMMA CallerFrame ==
    ASSUME IndInv, NEW c \in Callers, OthersStay(c), CallerEarned(c),
           UNCHANGED <<storeVars, overdue, human, upstreamVars>>, SubmitAdvances
    PROVE  SafetyInv'
<1> USE DEF storeVars, requestVars, upstreamVars, IndInv, AuxInv
<1>1. NotYetAsked' /\ ExecutingApproved' /\ ExpiredOverdue'
  BY DEF NotYetAsked, ExecutingApproved, ExpiredOverdue, SubmitAdvances
<1>2. \A t, b : Justified(t, b)' <=> Justified(t, b)
  BY DEF Justified
<1>3. SnapshotsJustified'
  <2> SUFFICES ASSUME NEW d \in Callers, pc'[d] \in HoldsGuard \cup {"acquire"}
               PROVE  task'[d] \in TaskIds /\ Justified(task'[d], auto'[d])
    BY <1>2 DEF SnapshotsJustified
  <2>1. CASE d = c
    BY <2>1 DEF CallerEarned
  <2>2. CASE d # c
    BY <2>2 DEF OthersStay, SnapshotsJustified
  <2> QED BY <2>1, <2>2
<1>4. InsideHoldsGuard' /\ RequestsApproved'
  BY DEF InsideHoldsGuard, RequestsApproved, OthersStay, CallerEarned
<1>5. CallsCounted'
  BY DEF CallsCounted, OthersStay, CallerEarned
<1>6. ExecutionExclusive'
  BY DEF ExecutionExclusive, OthersStay, CallerEarned
<1>7. ExecutesWhatWasApproved'
  BY DEF ExecutesWhatWasApproved, OnlyApprovedExecutes, ForwardsWhatWasApproved, ResultsAreReal
<1> QED BY <1>1, <1>3, <1>4, <1>5, <1>6, <1>7 DEF SafetyInv

-----------------------------------------------------------------------------
(* Type correctness *)

\* The steps of a submission.
LEMMA TypeSubmit ==
    ASSUME TypeOK, NEW t \in TaskIds,
           \/ \E a \in {"Deny", "Approve"}, r, v \in Requests : Create(t, a, r, v)
           \/ SubmitStep(t) \/ DropSubmit(t)
    PROVE  TypeOK'
<1> USE DEF storeVars, requestVars, clockVars, schedVars, callerVars, upstreamVars
<1>1. ASSUME NEW a \in {"Deny", "Approve"}, NEW r \in Requests, NEW v \in Requests, Create(t, a, r, v)
      PROVE  TypeOK'
  BY <1>1 DEF TypeOK, Create, Status
<1>2. CASE AskInput(t)
  BY <1>2 DEF TypeOK, AskInput, Status
<1>3. CASE CheckCapacity(t)
  BY <1>3 DEF TypeOK, CheckCapacity
<1>4. CASE Post(t)
  BY <1>4 DEF TypeOK, Post
<1>5. CASE PostFails(t)
  BY <1>5 DEF TypeOK, PostFails
<1>6. CASE AddReference(t)
  BY <1>6 DEF TypeOK, AddReference
<1>7. CASE Enqueue(t)
  BY <1>7 DEF TypeOK, Enqueue
<1>8. CASE DropSubmit(t)
  BY <1>8 DEF TypeOK, DropSubmit
<1> QED BY <1>1, <1>2, <1>3, <1>4, <1>5, <1>6, <1>7, <1>8 DEF SubmitStep

\* The clock, the human and tasks/cancel.
LEMMA TypeWorld ==
    ASSUME TypeOK, NEW t \in TaskIds,
           \/ TasksCancel(t) \/ TtlPasses(t) \/ ValidityPasses(t)
           \/ \E d \in {"approved", "rejected"} : Decide(t, d)
    PROVE  TypeOK'
<1> USE DEF storeVars, requestVars, clockVars, schedVars, callerVars, upstreamVars
<1>1. CASE TasksCancel(t)
  BY <1>1 DEF TypeOK, TasksCancel, SetStatus, Status
<1>2. CASE TtlPasses(t)
  BY <1>2 DEF TypeOK, TtlPasses
<1>3. CASE ValidityPasses(t)
  BY <1>3 DEF TypeOK, ValidityPasses
<1>4. ASSUME NEW d \in {"approved", "rejected"}, Decide(t, d)
      PROVE  TypeOK'
  BY <1>4 DEF TypeOK, Decide
<1> QED BY <1>1, <1>2, <1>3, <1>4

\* The scheduler and the shutdown.
LEMMA TypeScheduler ==
    ASSUME TypeOK,
           \/ \E t \in TaskIds : TakeDue(t)
           \/ PollStep \/ Tick \/ Signal \/ StopScheduler \/ FailAllPending
    PROVE  TypeOK'
<1> USE DEF storeVars, requestVars, clockVars, schedVars, callerVars, upstreamVars
<1>1. ASSUME NEW t \in TaskIds, TakeDue(t)
      PROVE  TypeOK'
  BY <1>1, ConstantsAssumption DEF TypeOK, TakeDue, SetStatus, Status
<1>2. CASE HandleDecision
  <2>1. polled \in TaskIds
    BY <1>2 DEF TypeOK, HandleDecision
  <2> QED BY <1>2, <2>1 DEF TypeOK, HandleDecision, PollEnds, Status
<1>3. CASE PollAgain
  BY <1>3 DEF TypeOK, PollAgain
<1>4. CASE Requeue
  BY <1>4 DEF TypeOK, Requeue, PollEnds
<1>5. CASE PollGivesUp
  BY <1>5 DEF TypeOK, PollGivesUp, PollEnds
<1>6. CASE Tick
  BY <1>6 DEF TypeOK, Tick, ExpireOverdue, PollEnds, Status
<1>7. CASE Signal
  BY <1>7 DEF TypeOK, Signal
<1>8. CASE StopScheduler
  BY <1>8 DEF TypeOK, StopScheduler, ExpireOverdue, Status
<1>9. CASE FailAllPending
  BY <1>9 DEF TypeOK, FailAllPending, Status
<1> QED BY <1>1, <1>2, <1>3, <1>4, <1>5, <1>6, <1>7, <1>8, <1>9 DEF PollStep

\* A caller that moves on inside its call.
LEMMA TypeAdvance ==
    ASSUME TypeOK, NEW c \in Callers, pc[c] # "idle", NEW l \in HoldsGuard, Advance(c, l),
           request' \in [Callers -> Requests \cup {None}]
    PROVE  TypeOK'
<1>1. l # "idle"
  BY DEF HoldsGuard, InPipeline
<1> QED
  BY <1>1 DEF TypeOK, Advance, storeVars, requestVars, clockVars, schedVars, upstreamVars

\* A caller that is done.
LEMMA TypeFree ==
    ASSUME TypeOK, NEW c \in Callers, Free(c), executing' \subseteq TaskIds,
           UNCHANGED <<storeVars, clockVars, submit, human, schedVars, shutdown, upstreamVars>>
    PROVE  TypeOK'
BY DEF TypeOK, Free, storeVars, requestVars, clockVars, schedVars, upstreamVars

\* The steps of a call; only a request that exists is forwarded.
LEMMA TypeCall ==
    ASSUME TypeOK, RequestsApproved, NEW c \in Callers,
           \/ CallStep(c) \/ Abandon(c) \/ AbandonWait(c)
           \/ \E t \in TaskIds : Wait(c, t) \/ GetTask(c, t)
    PROVE  TypeOK'
<1> USE DEF storeVars, requestVars, clockVars, schedVars, upstreamVars
<1> USE DEF HoldsGuard, InPipeline
<1>1. ASSUME NEW t \in TaskIds, Wait(c, t)
      PROVE  TypeOK'
  BY <1>1, ConstantsAssumption DEF TypeOK, Wait
<1>2. ASSUME NEW t \in TaskIds, GetTask(c, t)
      PROVE  TypeOK'
  BY <1>2, ConstantsAssumption DEF TypeOK, GetTask
<1>3. CASE WaitPolls(c)
  <2>1. task[c] \in TaskIds /\ GetTask(c, task[c])
    BY <1>3 DEF TypeOK, WaitPolls
  <2> QED BY <1>2, <2>1
<1>4. CASE WaitReturns(c) \/ AbandonWait(c)
  <2>1. Free(c) /\ executing' = executing
    BY <1>4 DEF WaitReturns, AbandonWait
  <2> QED BY <1>4, <2>1, TypeFree DEF TypeOK, WaitReturns, AbandonWait
<1>5. CASE Acquire(c)
  <2>1. CASE task[c] \in executing
    BY <1>5, <2>1, TypeFree DEF TypeOK, Acquire
  <2>2. CASE task[c] \notin executing
    BY <1>5, <2>2 DEF TypeOK, Acquire
  <2> QED BY <2>1, <2>2
<1>6. CASE ValidateApproval(c)
  BY <1>6, TypeAdvance DEF TypeOK, ValidateApproval
<1>7. CASE ReevaluatePolicy(c)
  BY <1>7, TypeAdvance DEF TypeOK, ReevaluatePolicy
<1>8. ASSUME NEW v \in Requests, PostApprovalAmber(c, v)
      PROVE  TypeOK'
  <2>1. task[c] \in TaskIds
    BY <1>8 DEF TypeOK, PostApprovalAmber
  <2>2. FinalRequest(task[c], v) \in Requests \cup {None}
    BY <2>1 DEF TypeOK, FinalRequest
  <2>3. request' \in [Callers -> Requests \cup {None}]
    BY <1>8, <2>2 DEF TypeOK, PostApprovalAmber
  <2> QED BY <1>8, <2>3, TypeAdvance DEF PostApprovalAmber
<1>9. CASE InspectionFails(c)
  BY <1>9, TypeAdvance DEF TypeOK, InspectionFails
<1>10. CASE Forward(c)
  <2>1. task[c] \in TaskIds /\ request[c] \in Requests
    BY <1>10 DEF TypeOK, RequestsApproved, Forward
  <2>2. calls' \in [TaskIds -> 0..MaxCalls]
    BY <1>10, <2>1, ConstantsAssumption DEF TypeOK, Forward
  <2>3. sent' \subseteq TaskIds \X Requests
    BY <1>10, <2>1 DEF TypeOK, Forward
  <2>4. pc' \in [Callers -> {"idle", "waiting", "acquire"} \cup HoldsGuard]
    BY <1>10 DEF TypeOK, Forward
  <2>5. \A d \in Callers : task'[d] # None <=> pc'[d] # "idle"
    BY <1>10 DEF TypeOK, Forward
  <2> QED BY <1>10, <2>2, <2>3, <2>4, <2>5 DEF TypeOK, Forward
<1>11. CASE Answer(c)
  BY <1>11, TypeAdvance DEF TypeOK, Answer
<1>12. CASE ExecutionTimeout(c)
  BY <1>12, TypeAdvance DEF TypeOK, ExecutionTimeout
<1>13. CASE RecordSuccess(c)
  <2>1. task[c] \in TaskIds
    BY <1>13 DEF TypeOK, RecordSuccess
  <2> QED BY <1>13, <2>1 DEF TypeOK, RecordSuccess, Status
<1>14. CASE RecordFailure(c)
  <2>1. task[c] \in TaskIds
    BY <1>14 DEF TypeOK, RecordFailure
  <2> QED BY <1>14, <2>1 DEF TypeOK, RecordFailure, SetStatus, Status
<1>15. CASE Release(c) \/ Abandon(c)
  <2>1. DropGuard(c)
    BY <1>15 DEF Release, Abandon
  <2> QED BY <2>1, TypeFree DEF TypeOK, DropGuard
<1> QED
  BY <1>1, <1>2, <1>3, <1>4, <1>5, <1>6, <1>7, <1>8, <1>9, <1>10, <1>11, <1>12, <1>13, <1>14,
     <1>15
  DEF CallStep

-----------------------------------------------------------------------------
(* Safety, action by action *)

\* Creating a task names what will be shown and what will be sent; nothing can have
\* happened to the task before.
LEMMA SafeCreate ==
    ASSUME IndInv, NEW t \in TaskIds, NEW a \in {"Deny", "Approve"}, NEW r \in Requests, NEW v \in Requests,
           Create(t, a, r, v)
    PROVE  SafetyInv'
<1> USE DEF IndInv, AuxInv, Create, callerVars, upstreamVars
<1>1. status[t] = "absent" /\ submit[t] = "new"
  BY DEF NotYetAsked
<1>2. ~(calls[t] > 0)
  BY <1>1 DEF ExecutesWhatWasApproved, OnlyApprovedExecutes
<1>3. \A c \in Callers : pc[c] \in HoldsGuard \cup {"acquire"} => task[c] # t
  BY <1>1 DEF SnapshotsJustified, Justified
<1>4. \A s \in sent : s[1] # t
  BY <1>2 DEF CallsCounted
<1>5. NotYetAsked' /\ ExecutingApproved' /\ ExpiredOverdue'
  BY DEF NotYetAsked, ExecutingApproved, ExpiredOverdue, TypeOK, clockVars
<1>6. SnapshotsJustified'
  BY <1>3 DEF SnapshotsJustified, Justified, TypeOK, clockVars
<1>7. InsideHoldsGuard' /\ CallsCounted' /\ ExecutionExclusive'
  BY DEF InsideHoldsGuard, CallsCounted, ExecutionExclusive
<1>8. RequestsApproved'
  <2>0. \A u \in TaskIds : transformed'[u] # None => transformed'[u] \in Inspect[original'[u]]
    BY DEF RequestsApproved, TypeOK
  <2> SUFFICES ASSUME NEW c \in Callers, pc[c] = "forward"
               PROVE  request[c] = transformed'[task[c]] /\ request[c] \in Requests
    BY <2>0 DEF RequestsApproved
  <2>1. task[c] # t /\ task[c] \in TaskIds
    BY <1>3 DEF SnapshotsJustified, HoldsGuard, InPipeline
  <2> QED BY <2>1 DEF RequestsApproved, TypeOK
<1>9. OnlyApprovedExecutes' /\ ResultsAreReal'
  BY <1>2 DEF ExecutesWhatWasApproved, OnlyApprovedExecutes, ResultsAreReal, TypeOK, clockVars
<1>10. ForwardsWhatWasApproved'
  BY <1>4 DEF ExecutesWhatWasApproved, ForwardsWhatWasApproved, TypeOK
<1> QED
  BY <1>5, <1>6, <1>7, <1>8, <1>9, <1>10 DEF SafetyInv, ExecutesWhatWasApproved

\* The steps of a submission that only move it on.
LEMMA SafeSubmit ==
    ASSUME IndInv, NEW t \in TaskIds,
           AskInput(t) \/ CheckCapacity(t) \/ PostFails(t) \/ AddReference(t) \/ Enqueue(t)
           \/ DropSubmit(t)
    PROVE  SafetyInv'
<1> USE DEF storeVars, requestVars, clockVars, IndInv
<1>1. SubmitAdvances
  BY DEF SubmitAdvances, TypeOK, AskInput, CheckCapacity, PostFails, AddReference, Enqueue,
         DropSubmit
<1>2. StoreMoves
  <2>1. CASE AskInput(t)
    BY <2>1 DEF StoreMoves, TypeOK, AskInput
  <2>2. CASE ~AskInput(t)
    BY <2>2 DEF StoreMoves, CheckCapacity, PostFails, AddReference, Enqueue, DropSubmit
  <2> QED BY <2>1, <2>2
<1>3. /\ UNCHANGED <<approval, result, requestVars, human, callerVars, upstreamVars>>
      /\ overdue' = overdue
  BY DEF AskInput, CheckCapacity, PostFails, AddReference, Enqueue, DropSubmit
<1> QED BY <1>1, <1>2, <1>3, StoreFrame

\* The message appears, or its reader answers: only a posted question is
\* answered, and only once.
LEMMA SafeHuman ==
    ASSUME IndInv, NEW t \in TaskIds,
           Post(t) \/ \E d \in {"approved", "rejected"} : Decide(t, d)
    PROVE  SafetyInv'
<1> USE DEF IndInv, AuxInv, storeVars, requestVars, clockVars, callerVars, upstreamVars
<1>1. human[t] \in {"unasked", "asked"}
  BY DEF NotYetAsked, Post, Decide
<1>2. /\ UNCHANGED <<storeVars, clockVars, callerVars, upstreamVars>>
      /\ \A u \in TaskIds : u # t => human'[u] = human[u]
      /\ human'[t] # "unasked" /\ submit'[t] \notin {"new", "created", "check", "posting"}
      /\ \A u \in TaskIds : u # t => submit'[u] = submit[u]
  BY DEF Post, Decide, TypeOK, NotYetAsked
<1>3. NotYetAsked' /\ ExecutingApproved' /\ ExpiredOverdue'
  BY <1>1, <1>2 DEF NotYetAsked, ExecutingApproved, ExpiredOverdue
<1>4. ASSUME NEW u \in TaskIds, NEW b, Justified(u, b) PROVE Justified(u, b)'
  BY <1>1, <1>2, <1>4 DEF Justified
<1>5. SnapshotsJustified'
  BY <1>2, <1>4 DEF SnapshotsJustified
<1>6. InsideHoldsGuard' /\ RequestsApproved' /\ CallsCounted' /\ ExecutionExclusive'
  BY <1>2 DEF InsideHoldsGuard, RequestsApproved, CallsCounted, ExecutionExclusive
<1>7. OnlyApprovedExecutes'
  BY <1>1, <1>2 DEF ExecutesWhatWasApproved, OnlyApprovedExecutes
<1>8. ForwardsWhatWasApproved' /\ ResultsAreReal'
  BY <1>2 DEF ExecutesWhatWasApproved, ForwardsWhatWasApproved, ResultsAreReal
<1> QED
  BY <1>3, <1>5, <1>6, <1>7, <1>8 DEF SafetyInv, ExecutesWhatWasApproved

\* record_approval: the decision taken from the message is the human's, and a
\* task that any caller runs is past it.
LEMMA SafeDecision ==
    ASSUME IndInv, HandleDecision
    PROVE  SafetyInv'
<1> USE DEF IndInv, AuxInv, HandleDecision, clockVars, callerVars, upstreamVars
<1> USE DEF requestVars
<1> DEFINE t == polled
<1>1. t \in TaskIds
  BY DEF TypeOK
<1>2. CASE status[t] # "InputRequired"
  <2>1. StoreMoves /\ SubmitAdvances
    BY <1>2 DEF StoreMoves, SubmitAdvances
  <2> QED BY <1>2, <2>1, StoreFrame
<1>3. CASE status[t] = "InputRequired"
  <2>1. /\ \A u \in TaskIds : u # t => status'[u] = status[u] /\ approval'[u] = approval[u]
        /\ approval'[t] = human[t]
        /\ status'[t] = IF human[t] = "approved" THEN "Executing" ELSE "Rejected"
    BY <1>1, <1>3 DEF TypeOK
  <2> HIDE DEF t
  <2>2. NotYetAsked' /\ ExpiredOverdue'
    BY <1>1, <1>3, <2>1 DEF NotYetAsked, ExpiredOverdue
  <2>3. ExecutingApproved'
    BY <1>1, <1>3, <2>1 DEF ExecutingApproved
  <2>4. ASSUME NEW u \in TaskIds, NEW b, Justified(u, b) PROVE Justified(u, b)'
    BY <1>1, <1>3, <2>1, <2>4 DEF Justified
  <2>5. SnapshotsJustified'
    BY <2>4 DEF SnapshotsJustified
  <2>6. InsideHoldsGuard' /\ RequestsApproved' /\ CallsCounted' /\ ExecutionExclusive'
    BY DEF InsideHoldsGuard, RequestsApproved, CallsCounted, ExecutionExclusive
  <2>7. OnlyApprovedExecutes'
    BY <1>1, <1>3, <2>1 DEF ExecutesWhatWasApproved, OnlyApprovedExecutes
  <2>8. ForwardsWhatWasApproved' /\ ResultsAreReal'
    BY <1>1, <1>3, <2>1 DEF ExecutesWhatWasApproved, ForwardsWhatWasApproved, ResultsAreReal
  <2> QED
    BY <2>2, <2>3, <2>5, <2>6, <2>7, <2>8 DEF SafetyInv, ExecutesWhatWasApproved
<1> QED BY <1>2, <1>3

\* The other steps of the scheduler, of the shutdown and of the clock, and
\* tasks/cancel: none of them makes a task Executing or undoes an execution.
LEMMA SafeScheduler ==
    ASSUME IndInv,
           \/ \E t \in TaskIds : TakeDue(t) \/ TasksCancel(t) \/ TtlPasses(t) \/ ValidityPasses(t)
           \/ PollAgain \/ Requeue \/ PollGivesUp
           \/ Tick \/ Signal \/ StopScheduler \/ FailAllPending
    PROVE  SafetyInv'
<1> USE DEF storeVars, requestVars, clockVars, IndInv
<1>1. ASSUME NEW t \in TaskIds, TakeDue(t)
      PROVE  SafetyInv'
  <2>1. StoreMoves
    BY <1>1 DEF StoreMoves, TypeOK, TakeDue, SetStatus
  <2>2. SubmitAdvances
    BY <1>1 DEF SubmitAdvances, TakeDue
  <2> QED BY <1>1, <2>1, <2>2, StoreFrame DEF TakeDue, SetStatus
<1>2. ASSUME NEW t \in TaskIds, TasksCancel(t)
      PROVE  SafetyInv'
  <2>1. StoreMoves /\ SubmitAdvances
    BY <1>2 DEF StoreMoves, SubmitAdvances, TypeOK, TasksCancel, SetStatus
  <2> QED BY <1>2, <2>1, StoreFrame DEF TasksCancel, SetStatus
<1>3. ASSUME NEW t \in TaskIds, TtlPasses(t) \/ ValidityPasses(t)
      PROVE  SafetyInv'
  BY <1>3, StoreFrame DEF TtlPasses, ValidityPasses, StoreMoves, SubmitAdvances
<1>4. CASE PollAgain \/ Requeue \/ PollGivesUp \/ Signal
  BY <1>4, StoreFrame DEF PollAgain, Requeue, PollGivesUp, Signal, StoreMoves, SubmitAdvances
<1>5. CASE Tick \/ StopScheduler
  <2>1. StoreMoves
    BY <1>5 DEF Tick, StopScheduler, ExpireOverdue, Expirable, StoreMoves
  <2> QED
    BY <1>5, <2>1, StoreFrame DEF Tick, StopScheduler, ExpireOverdue, SubmitAdvances
<1>6. CASE FailAllPending
  BY <1>6, StoreFrame DEF FailAllPending, StoreMoves, SubmitAdvances
<1> QED BY <1>1, <1>2, <1>3, <1>4, <1>5, <1>6

\* A caller that leaves, with or without a guard: it takes away its own task
\* only, which nobody else is running.
LEMMA SafeLeave ==
    ASSUME IndInv, NEW c \in Callers,
           WaitReturns(c) \/ AbandonWait(c) \/ Release(c) \/ Abandon(c)
    PROVE  SafetyInv'
<1> USE DEF IndInv, AuxInv, clockVars, HoldsGuard, InPipeline
<1>1. /\ Free(c) /\ UNCHANGED <<storeVars, clockVars, submit, human, upstreamVars>>
      /\ \/ executing' = executing
         \/ pc[c] \in HoldsGuard /\ executing' = executing \ {task[c]}
  BY DEF WaitReturns, AbandonWait, Release, Abandon, DropGuard
<1>2. OthersStay(c)
  <2> SUFFICES ASSUME NEW d \in Callers, d # c, pc[d] \in HoldsGuard
               PROVE  task[d] \in executing'
    BY <1>1 DEF OthersStay, Free, TypeOK
  <2>1. task[d] \in executing
    BY DEF InsideHoldsGuard
  <2>2. pc[c] \in HoldsGuard => task[d] # task[c]
    BY DEF ExecutionExclusive
  <2> QED BY <1>1, <2>1, <2>2
<1>3. CallerEarned(c)
  BY <1>1 DEF CallerEarned, Free, TypeOK
<1> QED BY <1>1, <1>2, <1>3, CallerFrame DEF SubmitAdvances

\* A caller takes its snapshot, or waits for one.
LEMMA SafeSnapshot ==
    ASSUME IndInv, NEW c \in Callers, NEW t \in TaskIds, Wait(c, t) \/ GetTask(c, t)
    PROVE  SafetyInv'
<1> USE DEF IndInv, AuxInv, clockVars, HoldsGuard, InPipeline
<1>1. CASE Wait(c, t)
  <2>1. OthersStay(c) /\ CallerEarned(c) /\ SubmitAdvances
    BY <1>1 DEF Wait, OthersStay, CallerEarned, SubmitAdvances, InsideHoldsGuard, TypeOK
  <2> QED BY <1>1, <2>1, CallerFrame DEF Wait
<1>2. CASE GetTask(c, t)
  <2>1. OthersStay(c)
    BY <1>2 DEF GetTask, OthersStay, InsideHoldsGuard, TypeOK
  <2>2. pc'[c] = "acquire" /\ task'[c] = t /\ auto'[c] = (status[t] = "Expired")
    BY <1>2 DEF GetTask, TypeOK
  <2>3. Justified(t, status[t] = "Expired")
    BY <1>2 DEF GetTask, Executable, Justified, ExecutingApproved, ExpiredOverdue
  <2>4. CallerEarned(c)
    BY <2>2, <2>3 DEF CallerEarned
  <2> QED BY <1>2, <2>1, <2>4, CallerFrame DEF GetTask, SubmitAdvances
<1> QED BY <1>1, <1>2

\* executing.insert lets one caller in.
LEMMA SafeAcquire ==
    ASSUME IndInv, NEW c \in Callers, Acquire(c)
    PROVE  SafetyInv'
<1> USE DEF IndInv, AuxInv, clockVars, HoldsGuard, InPipeline
<1>1. OthersStay(c)
  BY DEF Acquire, Free, OthersStay, InsideHoldsGuard, TypeOK
<1>2. CallerEarned(c)
  <2>1. CASE task[c] \in executing
    BY <2>1 DEF Acquire, Free, CallerEarned, TypeOK
  <2>2. CASE task[c] \notin executing
    <3>1. pc'[c] = "validate" /\ task'[c] = task[c] /\ auto'[c] = auto[c]
      BY <2>2 DEF Acquire, TypeOK
    <3>2. task[c] \in TaskIds /\ Justified(task[c], auto[c])
      BY DEF Acquire, SnapshotsJustified
    <3>3. \A d \in Callers \ {c} : pc[d] \in HoldsGuard => task[d] # task[c]
      BY <2>2 DEF InsideHoldsGuard
    <3>4. task[c] \in executing'
      BY <2>2 DEF Acquire
    <3> QED BY <3>1, <3>2, <3>3, <3>4 DEF CallerEarned
  <2> QED BY <2>1, <2>2
<1> QED BY <1>1, <1>2, CallerFrame DEF Acquire, SubmitAdvances

\* A caller moves on inside the pipeline: it keeps its task, its snapshot and
\* its guard, so only the request and the call count of the place it reaches
\* are in question.
LEMMA SafeAdvance ==
    ASSUME IndInv, NEW c \in Callers, pc[c] \in HoldsGuard, NEW l \in HoldsGuard, Advance(c, l),
           \A d \in Callers : d # c => request'[d] = request[d],
           l = "forward" => request'[c] = transformed[task[c]] /\ request'[c] \in Requests,
           l \in {"sent", "success"} => calls[task[c]] > 0
    PROVE  SafetyInv'
<1> USE DEF IndInv, AuxInv, Advance, clockVars
<1>1. OthersStay(c)
  BY DEF OthersStay, InsideHoldsGuard, TypeOK
<1>2. pc'[c] = l
  BY DEF TypeOK
<1>3. task[c] \in TaskIds /\ Justified(task[c], auto[c]) /\ task[c] \in executing
  BY DEF SnapshotsJustified, InsideHoldsGuard
<1>4. \A d \in Callers \ {c} : pc[d] \in HoldsGuard => task[d] # task[c]
  BY DEF ExecutionExclusive
<1>5. CallerEarned(c)
  BY <1>2, <1>3, <1>4 DEF CallerEarned
<1> QED BY <1>1, <1>5, CallerFrame DEF SubmitAdvances

\* ApprovalPipeline: validation, policy, inspection, the answer, the timeout.
LEMMA SafePipeline ==
    ASSUME IndInv, NEW c \in Callers,
           \/ ValidateApproval(c) \/ ReevaluatePolicy(c) \/ InspectionFails(c)
           \/ Answer(c) \/ ExecutionTimeout(c)
           \/ \E v \in Requests : PostApprovalAmber(c, v)
    PROVE  SafetyInv'
<1>1. CASE ValidateApproval(c) \/ ReevaluatePolicy(c) \/ InspectionFails(c)
           \/ ExecutionTimeout(c)
  BY <1>1, SafeAdvance DEF ValidateApproval, ReevaluatePolicy, InspectionFails, ExecutionTimeout,
                           HoldsGuard, InPipeline
<1>2. CASE Answer(c)
  <2>1. calls[task[c]] > 0
    BY <1>2 DEF IndInv, AuxInv, CallsCounted, Answer
  <2> QED BY <1>2, <2>1, SafeAdvance DEF Answer, HoldsGuard, InPipeline
<1>3. ASSUME NEW v \in Requests, PostApprovalAmber(c, v)
      PROVE  SafetyInv'
  <2> DEFINE r == FinalRequest(task[c], v)
  <2>1. task[c] \in TaskIds
    BY <1>3 DEF IndInv, TypeOK, PostApprovalAmber
  <2>2. r \in Requests \cup {None} /\ (r # None => r = transformed[task[c]])
    BY <2>1 DEF IndInv, TypeOK, FinalRequest
  <2>3. request' = [request EXCEPT ![c] = r] /\ pc[c] = "inspect"
    BY <1>3 DEF PostApprovalAmber
  <2>4. Advance(c, IF r = None THEN "failure" ELSE "forward")
    BY <1>3 DEF PostApprovalAmber
  <2>5. request'[c] = r /\ \A d \in Callers : d # c => request'[d] = request[d]
    BY <2>3 DEF IndInv, TypeOK
  <2> HIDE DEF r
  <2>6. CASE r = None
    BY <2>3, <2>4, <2>5, <2>6, SafeAdvance DEF HoldsGuard, InPipeline
  <2>7. CASE r # None
    BY <2>2, <2>3, <2>4, <2>5, <2>7, SafeAdvance DEF HoldsGuard, InPipeline
  <2> QED BY <2>6, <2>7
<1> QED BY <1>1, <1>2, <1>3

\* The upstream receives the request: what was approved, of a task that may be
\* executed.
LEMMA SafeForward ==
    ASSUME IndInv, NEW c \in Callers, Forward(c)
    PROVE  SafetyInv'
<1> USE DEF IndInv, AuxInv, Forward, storeVars, requestVars, clockVars
<1>1. /\ task[c] \in TaskIds /\ Justified(task[c], auto[c])
      /\ request[c] = transformed[task[c]] /\ request[c] \in Requests
  BY DEF SnapshotsJustified, RequestsApproved, HoldsGuard, InPipeline
<1>2. /\ calls'[task[c]] > 0
      /\ \A t \in TaskIds : calls[t] > 0 => calls'[t] > 0
      /\ \A t \in TaskIds : t # task[c] => calls'[t] = calls[t]
  BY <1>1, ConstantsAssumption DEF TypeOK
<1>3. pc'[c] = "sent" /\ \A d \in Callers : d # c => pc'[d] = pc[d]
  BY DEF TypeOK
<1>4. pc[c] \in HoldsGuard /\ pc'[c] \in HoldsGuard
  BY <1>3 DEF HoldsGuard, InPipeline
<1>5. NotYetAsked' /\ ExecutingApproved' /\ ExpiredOverdue'
  BY DEF NotYetAsked, ExecutingApproved, ExpiredOverdue
<1>6. SnapshotsJustified'
  BY <1>3, <1>4 DEF SnapshotsJustified, Justified
<1>7. InsideHoldsGuard' /\ RequestsApproved' /\ ExecutionExclusive'
  BY <1>3, <1>4 DEF InsideHoldsGuard, RequestsApproved, ExecutionExclusive
<1>8. CallsCounted'
  <2>1. \A d \in Callers : pc'[d] \in {"sent", "success"} => calls'[task[d]] > 0
    BY <1>1, <1>2, <1>3 DEF CallsCounted, SnapshotsJustified, HoldsGuard, InPipeline
  <2>2. \A s \in sent : s[1] \in TaskIds /\ calls[s[1]] > 0
    BY DEF CallsCounted, TypeOK
  <2>3. \A s \in sent' : calls'[s[1]] > 0
    BY <1>1, <1>2, <2>2
  <2> QED BY <2>1, <2>3 DEF CallsCounted
<1>9. OnlyApprovedExecutes'
  BY <1>1, <1>2 DEF ExecutesWhatWasApproved, OnlyApprovedExecutes, Justified
<1>10. ForwardsWhatWasApproved'
  <2>1. transformed[task[c]] \in Inspect[original[task[c]]]
    BY <1>1, ConstantsAssumption DEF RequestsApproved
  <2>2. ASSUME NEW s \in sent'
        PROVE  /\ s[2] = transformed[s[1]]
               /\ Inspect[original[s[1]]] = {original[s[1]]} => s[2] = original[s[1]]
    <3>1. CASE s \in sent
      BY <3>1 DEF ExecutesWhatWasApproved, ForwardsWhatWasApproved
    <3>2. CASE s = <<task[c], request[c]>>
      BY <1>1, <2>1, <3>2
    <3> QED BY <3>1, <3>2
  <2> QED BY <2>2 DEF ForwardsWhatWasApproved
<1>11. ResultsAreReal'
  BY <1>2 DEF ExecutesWhatWasApproved, ResultsAreReal
<1> QED
  BY <1>5, <1>6, <1>7, <1>8, <1>9, <1>10, <1>11 DEF SafetyInv, ExecutesWhatWasApproved

\* The outcome is recorded: only for a task that is still Executing, or on the
\* side for one that has expired, and a result only after a call.
LEMMA SafeRecord ==
    ASSUME IndInv, NEW c \in Callers, RecordSuccess(c) \/ RecordFailure(c)
    PROVE  SafetyInv'
<1> USE DEF IndInv, AuxInv, storeVars, requestVars, clockVars, upstreamVars
<1> DEFINE t == task[c]
<1>1. pc[c] \in {"success", "failure"} /\ t \in TaskIds /\ Justified(t, auto[c])
  BY DEF SnapshotsJustified, HoldsGuard, RecordSuccess, RecordFailure
<1>2. /\ UNCHANGED <<requestVars, overdue, submit, human, executing, task, auto, request,
                     upstreamVars>>
      /\ pc' = [pc EXCEPT ![c] = "release"]
      /\ \A u \in TaskIds : u # t => status'[u] = status[u] /\ approval'[u] = approval[u]
  BY <1>1 DEF RecordSuccess, RecordFailure, SetStatus, TypeOK
<1>3. \/ /\ auto[c] /\ status' = status
      \/ /\ ~auto[c] /\ approval' = approval
         /\ \/ status'[t] = status[t]
            \/ status[t] = "Executing" /\ status'[t] = "Failed"
            \/ status[t] = "Executing" /\ status'[t] = "Completed" /\ t \in result'
  BY <1>1 DEF RecordSuccess, RecordFailure, SetStatus, TypeOK, Justified, CanTransitionTo,
              Transitions
<1>4. result' = result \/ (result' = result \cup {t} /\ calls[t] > 0)
  BY DEF RecordSuccess, RecordFailure, SetStatus, CallsCounted
<1>5. /\ pc'[c] = "release" /\ pc'[c] \in HoldsGuard /\ pc[c] \in HoldsGuard
      /\ \A d \in Callers : d # c => pc'[d] = pc[d]
  BY <1>1, <1>2 DEF TypeOK, HoldsGuard
<1> HIDE DEF t
<1>6. NotYetAsked' /\ ExpiredOverdue'
  BY <1>1, <1>2, <1>3 DEF NotYetAsked, ExpiredOverdue, Justified
<1>7. ExecutingApproved'
  BY <1>1, <1>2, <1>3 DEF ExecutingApproved, Justified
<1>8. ASSUME NEW u \in TaskIds, NEW b, Justified(u, b) PROVE Justified(u, b)'
  BY <1>1, <1>2, <1>3, <1>8 DEF Justified
<1>9. SnapshotsJustified'
  BY <1>2, <1>5, <1>8 DEF SnapshotsJustified
<1>10. InsideHoldsGuard' /\ RequestsApproved' /\ ExecutionExclusive'
  BY <1>2, <1>5 DEF InsideHoldsGuard, RequestsApproved, ExecutionExclusive
<1>11. CallsCounted'
  BY <1>2, <1>5 DEF CallsCounted
<1>12. OnlyApprovedExecutes'
  BY <1>1, <1>2, <1>3 DEF ExecutesWhatWasApproved, OnlyApprovedExecutes, Justified
<1>13. ForwardsWhatWasApproved' /\ ResultsAreReal'
  BY <1>1, <1>2, <1>3, <1>4 DEF ExecutesWhatWasApproved, ForwardsWhatWasApproved, ResultsAreReal
<1> QED
  BY <1>6, <1>7, <1>9, <1>10, <1>11, <1>12, <1>13 DEF SafetyInv, ExecutesWhatWasApproved

-----------------------------------------------------------------------------
(* Theorems *)

\* The invariant is inductive.
THEOREM Inductive == Spec => []IndInv
<1>1. IndInv /\ [Next]_vars => IndInv'
  <2> SUFFICES ASSUME IndInv, [Next]_vars PROVE TypeOK' /\ SafetyInv'
    BY DEF IndInv, SafetyInv
  <2> USE DEF IndInv, AuxInv
  <2>1. CASE UNCHANGED vars
    <3>1. TypeOK'
      BY <2>1 DEF vars, storeVars, requestVars, clockVars, schedVars, callerVars, upstreamVars, TypeOK
    <3>2. SafetyInv'
      BY <2>1, StoreFrame
      DEF vars, storeVars, requestVars, clockVars, StoreMoves, SubmitAdvances
    <3> QED BY <3>1, <3>2
  <2>2. ASSUME NEW t \in TaskIds, TaskStep(t)
        PROVE  TypeOK' /\ SafetyInv'
    <3>1. TypeOK'
      BY <2>2, TypeSubmit, TypeWorld, TypeScheduler, TypeCall DEF TaskStep
    <3>2. SafetyInv'
      BY <2>2, SafeCreate, SafeSubmit, SafeHuman, SafeScheduler, SafeSnapshot
      DEF TaskStep, SubmitStep
    <3> QED BY <3>1, <3>2
  <2>3. ASSUME NEW c \in Callers, CallStep(c) \/ Abandon(c) \/ AbandonWait(c)
        PROVE  TypeOK' /\ SafetyInv'
    <3>1. TypeOK'
      BY <2>3, TypeCall
    <3>2. CASE WaitPolls(c)
      BY <3>1, <3>2, SafeSnapshot DEF WaitPolls, TypeOK
    <3>3. CASE ~WaitPolls(c)
      BY <2>3, <3>1, <3>3, SafeLeave, SafeAcquire, SafePipeline, SafeForward, SafeRecord DEF CallStep
    <3> QED BY <3>2, <3>3
  <2>4. CASE PollStep \/ Tick \/ Signal \/ StopScheduler \/ FailAllPending
    BY <2>4, TypeScheduler, SafeDecision, SafeScheduler DEF PollStep
  <2> QED BY <2>1, <2>2, <2>3, <2>4 DEF Next
<1> QED BY <1>1, InitInd, PTL DEF Spec

\* Type correctness: a poll remembers its task exactly while it is in flight,
\* a call exactly while it runs, and every request received was a real one.
THEOREM TypeCorrect == Spec => []TypeOK
<1>1. IndInv => TypeOK
  BY DEF IndInv
<1> QED BY <1>1, Inductive, PTL

\* The upstream is called only for a task a human approved, or that expired
\* with on_timeout Approve; it receives the transformation stored before the
\* human was asked, which is what the human was shown where the inspectors
\* leave the request alone; and a stored result is its answer: for every interleaving of the
\* submissions, the scheduler, the callers, dropped futures and the shutdown.
THEOREM ApprovedExecutes == Spec => []ExecutesWhatWasApproved
<1>1. IndInv => ExecutesWhatWasApproved
  BY DEF IndInv
<1> QED BY <1>1, Inductive, PTL

\* No two callers run the pipeline for one task at the same time, however they
\* enter, leave or are dropped.
THEOREM ExecutionIsExclusive == Spec => []ExecutionExclusive
<1>1. IndInv => ExecutionExclusive
  BY DEF IndInv
<1> QED BY <1>1, Inductive, PTL

-----------------------------------------------------------------------------
(* What was recorded stays *)

\* A human's decision moved the task where nothing expires it any more.
DecidedMoved ==
    \A t \in TaskIds : approval[t] \in {"approved", "rejected"} =>
        status[t] \in {"Executing", "Completed", "Failed", "Rejected"}

\* A step that leaves the decisions alone and moves tasks along the lifecycle.
LEMMA KeptByMoves ==
    ASSUME IndInv, DecidedMoved, UNCHANGED <<approval, requestVars>>,
           \A t \in TaskIds : status'[t] = status[t] \/ CanTransitionTo(status[t], status'[t])
    PROVE  DecidedMoved' /\ \A t \in TaskIds : RecordKept(t)
<1> USE DEF requestVars
<1>1. DecidedMoved'
  BY DEF DecidedMoved, CanTransitionTo, Transitions
<1> QED BY <1>1 DEF RecordKept

\* The operations of the store that take a status on request.
LEMMA KeptBySetStatus ==
    ASSUME IndInv, DecidedMoved, NEW t \in TaskIds, NEW s \in Status, SetStatus(t, s)
    PROVE  DecidedMoved' /\ \A u \in TaskIds : RecordKept(u)
<1>1. \A u \in TaskIds : status'[u] = status[u] \/ CanTransitionTo(status[u], status'[u])
  BY DEF SetStatus, IndInv, TypeOK
<1> QED BY <1>1, KeptByMoves DEF SetStatus

\* Every step keeps what was recorded.
LEMMA RecordStep ==
    ASSUME IndInv, DecidedMoved, [Next]_vars
    PROVE  DecidedMoved' /\ \A t \in TaskIds : RecordKept(t)
<1> USE DEF storeVars, requestVars
<1>0. ASSUME UNCHANGED storeVars PROVE DecidedMoved' /\ \A t \in TaskIds : RecordKept(t)
  BY <1>0, KeptByMoves
<1>1. ASSUME NEW t \in TaskIds, NEW a \in {"Deny", "Approve"}, NEW r \in Requests, NEW v \in Requests, Create(t, a, r, v)
      PROVE  DecidedMoved' /\ \A u \in TaskIds : RecordKept(u)
  <2>1. status[t] = "absent" /\ approval[t] \notin {"approved", "rejected"}
    BY <1>1 DEF Create, IndInv, AuxInv, NotYetAsked, DecidedMoved
  <2>2. approval' = approval /\ \A u \in TaskIds :
            /\ status'[u] = (IF u = t THEN "Working" ELSE status[u])
            /\ u # t => /\ original'[u] = original[u] /\ transformed'[u] = transformed[u]
                        /\ onTimeout'[u] = onTimeout[u]
    BY <1>1 DEF Create, IndInv, TypeOK
  <2>3. DecidedMoved'
    BY <2>1, <2>2 DEF DecidedMoved
  <2> QED BY <2>1, <2>2, <2>3 DEF RecordKept
<1>2. ASSUME NEW t \in TaskIds, TaskStep(t)
      PROVE  DecidedMoved' /\ \A u \in TaskIds : RecordKept(u)
  <2>1. CASE AskInput(t)
    <3>1. \A u \in TaskIds : status'[u] = status[u] \/ CanTransitionTo(status[u], status'[u])
      BY <2>1 DEF AskInput, IndInv, TypeOK
    <3> QED BY <2>1, <3>1, KeptByMoves DEF AskInput
  <2>2. CASE TakeDue(t)
    BY <2>2, <1>0, KeptBySetStatus DEF TakeDue, Status
  <2>3. CASE TasksCancel(t)
    BY <2>3, KeptBySetStatus DEF TasksCancel, Status
  <2>4. CASE \/ CheckCapacity(t) \/ Post(t) \/ PostFails(t) \/ AddReference(t) \/ Enqueue(t)
             \/ DropSubmit(t) \/ TtlPasses(t) \/ ValidityPasses(t)
             \/ \E d \in {"approved", "rejected"} : Decide(t, d)
             \/ \E c \in Callers : Wait(c, t) \/ GetTask(c, t)
    BY <2>4, <1>0
    DEF CheckCapacity, Post, PostFails, AddReference, Enqueue, DropSubmit, TtlPasses,
        ValidityPasses, Decide, Wait, GetTask
  <2> QED BY <1>1, <1>2, <2>1, <2>2, <2>3, <2>4 DEF TaskStep, SubmitStep
<1>3. ASSUME NEW c \in Callers, CallStep(c) \/ Abandon(c) \/ AbandonWait(c)
      PROVE  DecidedMoved' /\ \A u \in TaskIds : RecordKept(u)
  <2>1. CASE RecordSuccess(c)
    <3>1. task[c] \in TaskIds /\ Justified(task[c], auto[c])
      BY <2>1 DEF RecordSuccess, IndInv, AuxInv, SnapshotsJustified, HoldsGuard
    <3>2. CASE auto[c]
      <4>1. status[task[c]] = "Expired" /\ approval[task[c]] \notin {"approved", "rejected"}
        BY <3>1, <3>2 DEF Justified, DecidedMoved
      <4>2. UNCHANGED <<status, requestVars>> /\ \A u \in TaskIds :
                approval'[u] = (IF u = task[c] THEN "auto" ELSE approval[u])
        BY <2>1, <3>2 DEF RecordSuccess, IndInv, TypeOK
      <4>3. DecidedMoved'
        BY <4>1, <4>2 DEF DecidedMoved
      <4> QED BY <4>1, <4>2, <4>3 DEF RecordKept
    <3>3. CASE ~auto[c]
      <4>1. \A u \in TaskIds : status'[u] = status[u] \/ CanTransitionTo(status[u], status'[u])
        BY <2>1, <3>1, <3>3 DEF RecordSuccess, IndInv, TypeOK, CanTransitionTo, Transitions
      <4> QED BY <2>1, <3>3, <4>1, KeptByMoves DEF RecordSuccess
    <3> QED BY <3>2, <3>3
  <2>2. CASE RecordFailure(c)
    <3>1. task[c] \in TaskIds
      BY <2>2 DEF RecordFailure, IndInv, AuxInv, SnapshotsJustified, HoldsGuard
    <3> QED BY <2>2, <3>1, <1>0, KeptBySetStatus DEF RecordFailure, Status
  <2>3. CASE \/ WaitPolls(c) \/ WaitReturns(c) \/ Acquire(c) \/ ValidateApproval(c)
             \/ ReevaluatePolicy(c) \/ \E v \in Requests : PostApprovalAmber(c, v)
             \/ InspectionFails(c) \/ Forward(c) \/ Answer(c) \/ ExecutionTimeout(c)
             \/ Release(c) \/ Abandon(c) \/ AbandonWait(c)
    BY <2>3, <1>0
    DEF WaitPolls, GetTask, WaitReturns, Acquire, ValidateApproval, ReevaluatePolicy,
        PostApprovalAmber, InspectionFails, Forward, Answer, ExecutionTimeout, Advance, Release,
        DropGuard, Abandon, AbandonWait
  <2> QED BY <1>3, <2>1, <2>2, <2>3 DEF CallStep
<1>4. CASE HandleDecision
  <2>1. polled \in TaskIds
    BY <1>4 DEF HandleDecision, IndInv, TypeOK
  <2>2. CASE status[polled] = "InputRequired"
    <3>1. approval[polled] \notin {"approved", "rejected"}
      BY <2>1, <2>2 DEF DecidedMoved
    <3>2. UNCHANGED requestVars /\ \A u \in TaskIds :
              /\ approval'[u] = (IF u = polled THEN human[polled] ELSE approval[u])
              /\ status'[u] = (IF u # polled THEN status[u]
                              ELSE IF human[polled] = "approved" THEN "Executing" ELSE "Rejected")
      BY <1>4, <2>1, <2>2 DEF HandleDecision, IndInv, TypeOK
    <3>3. DecidedMoved'
      BY <3>2 DEF DecidedMoved
    <3> QED BY <2>2, <3>1, <3>2, <3>3 DEF RecordKept, CanTransitionTo, Transitions
  <2>3. CASE status[polled] # "InputRequired"
    BY <1>4, <2>3, KeptByMoves DEF HandleDecision
  <2> QED BY <2>2, <2>3
<1>5. CASE Tick \/ StopScheduler
  <2>1. \A u \in TaskIds : status'[u] = status[u] \/ CanTransitionTo(status[u], status'[u])
    BY <1>5 DEF Tick, StopScheduler, ExpireOverdue, Expirable
  <2> QED BY <1>5, <2>1, KeptByMoves DEF Tick, StopScheduler, ExpireOverdue
<1>6. CASE FailAllPending
  <2>1. \A u \in TaskIds : status'[u] = status[u] \/ CanTransitionTo(status[u], status'[u])
    BY <1>6 DEF FailAllPending
  <2> QED BY <1>6, <2>1, KeptByMoves DEF FailAllPending
<1>7. CASE PollAgain \/ Requeue \/ PollGivesUp \/ Signal \/ UNCHANGED vars
  BY <1>7, <1>0 DEF PollAgain, Requeue, PollGivesUp, Signal, vars
<1> QED BY <1>2, <1>3, <1>4, <1>5, <1>6, <1>7 DEF Next, PollStep

\* What the store holds of a task is written once, whoever races for it: the
\* status moves along the lifecycle, the requests stay as created, and
\* neither record_approval nor record_auto_approve_result replaces a decision.
THEOREM RecordsAreKept == Spec => RecordsStand
<1>1. Init => DecidedMoved
  BY DEF Init, DecidedMoved
<1>2. IndInv /\ DecidedMoved /\ [Next]_vars => DecidedMoved' /\ [\A t \in TaskIds : RecordKept(t)]_vars
  BY RecordStep
<1> QED BY <1>1, <1>2, Inductive, PTL DEF Spec, RecordsStand
=============================================================================
