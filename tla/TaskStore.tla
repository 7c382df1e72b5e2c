------------------------------ MODULE TaskStore ------------------------------
(***************************************************************************)
(* TaskStore (thoughtgate-core/src/governance/task/store.rs): the          *)
(* in-memory store of approval tasks, shared by every request thread.      *)
(*                                                                         *)
(* A worker is a thread inside one call.  A step ends where another thread *)
(* could interleave: at an atomic counter and at the acquisition of a      *)
(* DashMap shard lock that is then held.  Calls that fail without changing *)
(* anything (NotFound, AlreadyTerminal, ...) are stuttering steps.  Time   *)
(* is two sets that only grow: tasks past their TTL, and terminal tasks    *)
(* past the grace period.                                                  *)
(***************************************************************************)
EXTENDS TaskStatus, Integers, FiniteSets, FiniteSetsExt

CONSTANTS Workers, TaskIds, Principals,
          Shards, ShardOf,      \* shards of the map `tasks`
          PShards, PShardOf,    \* shards of the map `pending_by_principal`
          Sizes,                \* estimated_bytes a task may have
          MaxPendingGlobal, MaxPendingPerPrincipal, MaxPendingBytes,
          Calls,                \* the calls the workers make
          None

ASSUME FiniteAssumption ==
    IsFiniteSet(Workers) /\ IsFiniteSet(TaskIds) /\ IsFiniteSet(Principals)
ASSUME NoneAssumption ==
    None \notin Workers /\ None \notin TaskIds /\ None \notin Principals
ASSUME ShardAssumption ==
    ShardOf \in [TaskIds -> Shards] /\ PShardOf \in [Principals -> PShards]
ASSUME LimitAssumption ==
    /\ MaxPendingGlobal \in Nat /\ MaxPendingPerPrincipal \in Nat /\ MaxPendingBytes \in Nat
    /\ Sizes \subseteq Nat
\* A DashMap has a number of shards, and a body a largest size.
ASSUME BoundAssumption ==
    /\ IsFiniteSet(PShards) /\ PShards # {}
    /\ \E m \in Sizes : \A n \in Sizes : m >= n

VARIABLES
    status, owner,        \* Task.status and the key of Task.principal
    bytes,                \* TaskEntry.estimated_bytes
    approval,             \* decision in Task.approval, or "none"
    failure, result,      \* tasks whose Task.failure / Task.result is Some
    overdue, graceOver,   \* tasks with now > expires_at / past terminal grace
    index, indexKeys,     \* by_principal: the ids of a key, and keys present
    pendingCount, pendingBytes,
    counter, counterKeys, \* pending_by_principal: values, and keys present
    taskLock,             \* holder of the write guard of a shard of `tasks`
    principalLock,        \* ... of a shard of `pending_by_principal`
    pc,                   \* where each worker is in its call
    wTask, wPrin, wSize,  \* its task, principal key and estimated_bytes
    wSweep,               \* the sweep it runs, or "none"
    wNow,                 \* tasks the sweep's `now` covers
    wShards, wIds         \* shards still to scan; ids collected

taskVars == <<status, owner, bytes, approval, failure, result>>
clockVars == <<overdue, graceOver>>
indexVars == <<index, indexKeys>>
counterVars == <<pendingCount, pendingBytes, counter, counterKeys>>
lockVars == <<taskLock, principalLock>>
callVars == <<wTask, wPrin, wSize>>
sweepVars == <<wSweep, wNow, wShards, wIds>>
vars == <<taskVars, clockVars, indexVars, counterVars, lockVars, pc, callVars, sweepVars>>

-----------------------------------------------------------------------------
Present(t) == status[t] \in Status

Live == {t \in TaskIds : status[t] \in NonTerminal}

LiveOf(p) == {t \in Live : owner[t] = p}

TaskFree(t) == taskLock[ShardOf[t]] = None

PrincipalFree(p) == principalLock[PShardOf[p]] = None

Goto(w, l) == pc' = [pc EXCEPT ![w] = l]

\* Where a call on one task goes back to: its caller, or the sweep around it.
Caller(w) == IF wSweep[w] = "none" THEN "idle" ELSE "each"

Init ==
    /\ status = [t \in TaskIds |-> "absent"]
    /\ owner = [t \in TaskIds |-> None]
    /\ bytes = [t \in TaskIds |-> 0]
    /\ approval = [t \in TaskIds |-> "none"]
    /\ failure = {} /\ result = {} /\ overdue = {} /\ graceOver = {}
    /\ index = [p \in Principals |-> {}] /\ indexKeys = {}
    /\ pendingCount = 0 /\ pendingBytes = 0
    /\ counter = [p \in Principals |-> 0] /\ counterKeys = {}
    /\ taskLock = [s \in Shards |-> None]
    /\ principalLock = [s \in PShards |-> None]
    /\ pc = [w \in Workers |-> "idle"]
    /\ wTask = [w \in Workers |-> None]
    /\ wPrin = [w \in Workers |-> None]
    /\ wSize = [w \in Workers |-> 0]
    /\ wSweep = [w \in Workers |-> "none"]
    /\ wNow = [w \in Workers |-> {}]
    /\ wShards = [w \in Workers |-> {}]
    /\ wIds = [w \in Workers |-> {}]

-----------------------------------------------------------------------------
(* create(), one action per visible step. *)

GlobalFull == pendingCount >= MaxPendingGlobal

PrincipalFullOffByOne(p) == counter[p] > MaxPendingPerPrincipal
PrincipalFull(p) == counter[p] >= MaxPendingPerPrincipal

BytesFullIgnoresNewTask(w) == pendingBytes > MaxPendingBytes
BytesFull(w) == pendingBytes + wSize[w] > MaxPendingBytes

\* The compare_exchange loop: reserve a global slot, or return CapacityExceeded.
ReserveGlobal(w, p, n) ==
    /\ pc[w] = "idle"
    /\ ~GlobalFull
    /\ pendingCount' = pendingCount + 1
    /\ wPrin' = [wPrin EXCEPT ![w] = p]
    /\ wSize' = [wSize EXCEPT ![w] = n]
    /\ Goto(w, "principal")
    /\ UNCHANGED <<taskVars, clockVars, indexVars, pendingBytes, counter, counterKeys, lockVars,
                   wTask, sweepVars>>

\* entry().or_insert_with(): the shard's write guard is held from here on.
\* Over the limit the increment is taken back before the guard is released.
ReservePrincipal(w) ==
    LET p == wPrin[w] IN
    /\ pc[w] = "principal"
    /\ PrincipalFree(p)
    /\ principalLock' = [principalLock EXCEPT ![PShardOf[p]] = w]
    /\ counterKeys' = counterKeys \cup {p}
    /\ IF PrincipalFull(p)
         THEN UNCHANGED counter /\ Goto(w, "rollback")
         ELSE counter' = [counter EXCEPT ![p] = @ + 1] /\ Goto(w, "build")
    /\ UNCHANGED <<taskVars, clockVars, indexVars, pendingCount, pendingBytes, taskLock,
                   callVars, sweepVars>>

\* Task::new: a fresh id, or an error when hash_request refuses the arguments.
NewTask(w, t) ==
    /\ pc[w] = "build"
    /\ status[t] = "absent" /\ \A v \in Workers : wTask[v] # t
    /\ wTask' = [wTask EXCEPT ![w] = t]
    /\ Goto(w, "checkBytes")
    /\ UNCHANGED <<taskVars, clockVars, indexVars, counterVars, lockVars, wPrin, wSize, sweepVars>>

UndoForgotten(w) ==
    /\ wTask' = [wTask EXCEPT ![w] = None]
    /\ Goto(w, "rollback")
    /\ UNCHANGED <<taskVars, clockVars, indexVars, counterVars, lockVars, wPrin, wSize, sweepVars>>

\* The fetch_sub of principal_counter on an error path.
UndoPrincipal(w) ==
    /\ counter' = [counter EXCEPT ![wPrin[w]] = @ - 1]
    /\ wTask' = [wTask EXCEPT ![w] = None]
    /\ Goto(w, "rollback")
    /\ UNCHANGED <<taskVars, clockVars, indexVars, pendingCount, pendingBytes, counterKeys,
                   lockVars, wPrin, wSize, sweepVars>>

NewTaskFails(w) == pc[w] = "build" /\ UndoPrincipal(w)

\* The byte limit: a load here, the fetch_add a step later.
BytesExceeded(w) ==
    /\ pc[w] = "checkBytes"
    /\ BytesFull(w)
    /\ UndoPrincipal(w)

CheckBytes(w) ==
    /\ pc[w] = "checkBytes"
    /\ ~BytesFull(w)
    /\ Goto(w, "addBytes")
    /\ UNCHANGED <<taskVars, clockVars, indexVars, counterVars, lockVars, callVars, sweepVars>>

AddBytes(w) ==
    /\ pc[w] = "addBytes"
    /\ pendingBytes' = pendingBytes + wSize[w]
    /\ Goto(w, "insert")
    /\ UNCHANGED <<taskVars, clockVars, indexVars, pendingCount, counter, counterKeys, lockVars,
                   callVars, sweepVars>>

\* tasks.insert, under the task's shard lock and with the principal guard held.
Insert(w) ==
    LET t == wTask[w] IN
    /\ pc[w] = "insert"
    /\ TaskFree(t)
    /\ status' = [status EXCEPT ![t] = "Working"]
    /\ owner' = [owner EXCEPT ![t] = wPrin[w]]
    /\ bytes' = [bytes EXCEPT ![t] = wSize[w]]
    /\ Goto(w, "index")
    /\ UNCHANGED <<approval, failure, result, clockVars, indexVars, counterVars, lockVars,
                   callVars, sweepVars>>

\* The end of create: its locals go out of scope and the principal guard with them.
ReleasePrincipal(w) ==
    /\ principalLock' = [principalLock EXCEPT ![PShardOf[wPrin[w]]] = None]
    /\ wTask' = [wTask EXCEPT ![w] = None]
    /\ wPrin' = [wPrin EXCEPT ![w] = None]
    /\ wSize' = [wSize EXCEPT ![w] = 0]
    /\ Goto(w, "idle")

AddToIndex(w) ==
    /\ pc[w] = "index"
    /\ index' = [index EXCEPT ![wPrin[w]] = @ \cup {wTask[w]}]
    /\ indexKeys' = indexKeys \cup {wPrin[w]}
    /\ ReleasePrincipal(w)
    /\ UNCHANGED <<taskVars, clockVars, counterVars, taskLock, sweepVars>>

\* The error paths' last fetch_sub; CapacityExceeded, RateLimited or Internal.
RollbackGlobal(w) ==
    /\ pc[w] = "rollback"
    /\ pendingCount' = pendingCount - 1
    /\ ReleasePrincipal(w)
    /\ UNCHANGED <<taskVars, clockVars, indexVars, pendingBytes, counter, counterKeys, taskLock,
                   sweepVars>>

-----------------------------------------------------------------------------
(* Operations on one entry, under tasks.get_mut.                           *)

ChangeUnchecked(w, t, s) ==
    /\ TaskFree(t) /\ Present(t)
    /\ status' = [status EXCEPT ![t] = s]
    /\ taskLock' = [taskLock EXCEPT ![ShardOf[t]] = w]
    /\ wTask' = [wTask EXCEPT ![w] = t]
    /\ Goto(w, "decGlobal")
    /\ UNCHANGED <<owner, bytes, clockVars, indexVars, counterVars, principalLock, wPrin, wSize>>

\* What they share: t moves to s under its shard lock, which a move to a
\* terminal status keeps while the counters are decremented.
Change(w, t, s) ==
    /\ TaskFree(t)
    /\ CanTransitionTo(status[t], s)
    /\ status' = [status EXCEPT ![t] = s]
    /\ IF s \in Terminal
         THEN /\ taskLock' = [taskLock EXCEPT ![ShardOf[t]] = w]
              /\ wTask' = [wTask EXCEPT ![w] = t]
              /\ Goto(w, "decGlobal")
         ELSE UNCHANGED <<taskLock, wTask, pc>>
    /\ UNCHANGED <<owner, bytes, clockVars, indexVars, counterVars, principalLock, wPrin, wSize>>

\* transition(), with the statuses its callers pass: engine.rs:439 and
\* evaluator.rs:683, scheduler.rs:307, evaluator.rs:717.  transition_if is the
\* same step with the further guard that the status is the expected one.
TransitionTargets == {"InputRequired", "Expired", "Failed"}

Transition(w, t, s) ==
    /\ pc[w] = "idle"
    /\ Change(w, t, s)
    /\ UNCHANGED <<approval, failure, result, sweepVars>>

RecordApproval(w, t, d) ==
    /\ pc[w] = "idle"
    /\ status[t] = "InputRequired"
    /\ approval' = [approval EXCEPT ![t] = d]
    /\ Change(w, t, IF d = "approved" THEN "Executing" ELSE "Rejected")
    /\ UNCHANGED <<failure, result, sweepVars>>

Complete(w, t) ==
    /\ pc[w] = "idle"
    /\ status[t] = "Executing"
    /\ result' = result \cup {t}
    /\ Change(w, t, "Completed")
    /\ UNCHANGED <<approval, failure, sweepVars>>

Cancel(w, t) ==
    /\ pc[w] = "idle"
    /\ status[t] = "InputRequired"
    /\ Change(w, t, "Cancelled")
    /\ UNCHANGED <<approval, failure, result, sweepVars>>

\* fail(): Task.failure is written before the transition is tried ...
FailTask(w, t) ==
    /\ failure' = failure \cup {t}
    /\ Change(w, t, "Failed")
    /\ UNCHANGED <<approval, result>>

\* ... so it stays when the transition is refused.
FailRefused(t) ==
    /\ TaskFree(t)
    /\ status[t] \in NonTerminal /\ ~CanTransitionTo(status[t], "Failed")
    /\ failure' = failure \cup {t}
    /\ UNCHANGED <<status, owner, bytes, approval, result, clockVars, indexVars, counterVars,
                   lockVars, callVars>>

Fail(w, t) ==
    /\ pc[w] = "idle"
    /\ FailTask(w, t) \/ (FailRefused(t) /\ UNCHANGED pc)
    /\ UNCHANGED sweepVars

HandleOverdueTask(w, t) ==
    /\ pc[w] = "idle"
    /\ TaskFree(t) /\ Present(t)
    /\ t \in overdue
    /\ wTask' = [wTask EXCEPT ![w] = t]
    /\ Goto(w, "autoApprove")
    /\ UNCHANGED <<taskVars, clockVars, indexVars, counterVars, lockVars, wPrin, wSize, sweepVars>>

\* handle_expired_task(), the one caller of record_auto_approve_result: it has
\* read the status and executes an Expired task that is to be auto-approved,
\* holding nothing meanwhile.  That one caller at a time does so is the
\* engine's `executing` set (ApprovalFlow); the store does not rely on it.
HandleExpiredTask(w, t) ==
    /\ pc[w] = "idle"
    /\ TaskFree(t)
    /\ status[t] = "Expired"
    /\ wTask' = [wTask EXCEPT ![w] = t]
    /\ Goto(w, "autoApprove")
    /\ UNCHANGED <<taskVars, clockVars, indexVars, counterVars, lockVars, wPrin, wSize, sweepVars>>

\* The execution is over and handle_expired_task returns.
LeaveExpiredTask(w) ==
    /\ pc[w] = "autoApprove"
    /\ wTask' = [wTask EXCEPT ![w] = None]
    /\ Goto(w, "idle")
    /\ UNCHANGED <<status, owner, bytes, failure, clockVars, indexVars, counterVars, lockVars, wPrin,
                   wSize, sweepVars>>

\* record_auto_approve_result(): no test of the status, only of the entry.
RecordAutoApproveResult(w) ==
    LET t == wTask[w] IN
    /\ LeaveExpiredTask(w)
    /\ TaskFree(t) /\ Present(t)
    /\ result' = result \cup {t}
    /\ approval' = [approval EXCEPT ![t] = "approved"]

\* The execution failed or timed out, or record_auto_approve_result finds no
\* entry (NotFound, which is logged): nothing is recorded.
AutoApproveUnrecorded(w) == LeaveExpiredTask(w) /\ UNCHANGED <<approval, result>>

-----------------------------------------------------------------------------
(* decrement_pending_counters() and the release of the entry.              *)

DecGlobal(w) ==
    /\ pc[w] = "decGlobal"
    /\ pendingCount' = pendingCount - 1
    /\ Goto(w, "decBytes")
    /\ UNCHANGED <<taskVars, clockVars, indexVars, pendingBytes, counter, counterKeys, lockVars,
                   callVars, sweepVars>>

DecBytes(w) ==
    /\ pc[w] = "decBytes"
    /\ pendingBytes' = pendingBytes - bytes[wTask[w]]
    /\ Goto(w, "decPrincipal")
    /\ UNCHANGED <<taskVars, clockVars, indexVars, pendingCount, counter, counterKeys, lockVars,
                   callVars, sweepVars>>

\* notify_waiters, then the entry's guard is dropped.
ReleaseTask(w) ==
    /\ taskLock' = [taskLock EXCEPT ![ShardOf[wTask[w]]] = None]
    /\ wTask' = [wTask EXCEPT ![w] = None]
    /\ Goto(w, Caller(w))

\* The read guard excludes a create() that holds the shard for writing.
DecPrincipal(w) ==
    LET p == owner[wTask[w]] IN
    /\ pc[w] = "decPrincipal"
    /\ PrincipalFree(p)
    /\ IF p \in counterKeys
         THEN /\ counter' = [counter EXCEPT ![p] = @ - 1]
              /\ IF counter[p] = 1
                   THEN Goto(w, "removeIf") /\ UNCHANGED <<taskLock, wTask>>
                   ELSE ReleaseTask(w)
         ELSE UNCHANGED counter /\ ReleaseTask(w)
    /\ UNCHANGED <<taskVars, clockVars, indexVars, pendingCount, pendingBytes, counterKeys,
                   principalLock, wPrin, wSize, sweepVars>>

RemoveIfZero(w) ==
    LET p == owner[wTask[w]] IN
    /\ pc[w] = "removeIf"
    /\ PrincipalFree(p)
    /\ counterKeys' = IF counter[p] = 0 THEN counterKeys \ {p} ELSE counterKeys
    /\ ReleaseTask(w)
    /\ UNCHANGED <<taskVars, clockVars, indexVars, pendingCount, pendingBytes, counter,
                   principalLock, wPrin, wSize, sweepVars>>

-----------------------------------------------------------------------------
(* expire_overdue(), fail_all_pending(), cleanup_terminal(): collect ids   *)
(* shard by shard, then act on each, checking again under its lock.        *)

StartSweep(w, k) ==
    /\ pc[w] = "idle"
    /\ wSweep' = [wSweep EXCEPT ![w] = k]
    /\ wNow' = [wNow EXCEPT ![w] = CASE k = "expire"  -> overdue
                                     [] k = "cleanup" -> graceOver
                                     [] k = "failAll" -> TaskIds]
    /\ wShards' = [wShards EXCEPT ![w] = Shards]
    /\ Goto(w, "scan")
    /\ UNCHANGED <<taskVars, clockVars, indexVars, counterVars, lockVars, callVars, wIds>>

\* The filter_map of the sweep on one entry.
Collects(k, t) ==
    IF k = "cleanup" THEN status[t] \in Terminal ELSE status[t] \in NonTerminal

Scan(w, s) ==
    /\ pc[w] = "scan"
    /\ s \in wShards[w]
    /\ taskLock[s] = None
    /\ wShards' = [wShards EXCEPT ![w] = @ \ {s}]
    /\ wIds' = [wIds EXCEPT ![w] =
                  @ \cup {t \in wNow[w] : ShardOf[t] = s /\ Collects(wSweep[w], t)}]
    /\ Goto(w, IF wShards[w] = {s} THEN "each" ELSE "scan")
    /\ UNCHANGED <<taskVars, clockVars, indexVars, counterVars, lockVars, callVars, wSweep, wNow>>

\* The loop over the collected ids takes t.
TakeId(w, t) ==
    /\ pc[w] = "each"
    /\ t \in wIds[w]
    /\ wIds' = [wIds EXCEPT ![w] = @ \ {t}]
    /\ UNCHANGED <<wSweep, wNow, wShards>>

\* t is gone, terminal or refuses the transition: nothing happens to it.
SkipId(w, t) ==
    /\ TakeId(w, t)
    /\ TaskFree(t)
    /\ \/ wSweep[w] = "expire" /\ ~CanTransitionTo(status[t], "Expired")
       \/ wSweep[w] = "failAll" /\ status[t] \notin NonTerminal
       \/ wSweep[w] = "cleanup" /\ ~Present(t)
    /\ UNCHANGED <<taskVars, clockVars, indexVars, counterVars, lockVars, pc, callVars>>

ExpireId(w, t) ==
    /\ TakeId(w, t)
    /\ wSweep[w] = "expire"
    /\ Change(w, t, "Expired")
    /\ UNCHANGED <<approval, failure, result>>

FailId(w, t) ==
    /\ TakeId(w, t)
    /\ wSweep[w] = "failAll"
    /\ FailTask(w, t) \/ (FailRefused(t) /\ UNCHANGED pc)

\* tasks.remove: nothing but the collected list says the task is terminal.
RemoveId(w, t) ==
    /\ TakeId(w, t)
    /\ wSweep[w] = "cleanup"
    /\ TaskFree(t)
    /\ Present(t)
    /\ status' = [status EXCEPT ![t] = "removed"]
    /\ wTask' = [wTask EXCEPT ![w] = t]
    /\ Goto(w, "unindex")
    /\ UNCHANGED <<owner, bytes, approval, failure, result, clockVars, indexVars, counterVars,
                   lockVars, wPrin, wSize>>

\* by_principal.get_mut and ids.retain; when that leaves no id, the guard is
\* dropped before remove_if takes its own.
Unindex(w) ==
    LET p == owner[wTask[w]]
        emptied == p \in indexKeys /\ index[p] \subseteq {wTask[w]}
    IN
    /\ pc[w] = "unindex"
    /\ index' = [index EXCEPT ![p] = @ \ {wTask[w]}]
    /\ Goto(w, IF emptied THEN "dropKey" ELSE "each")
    /\ wTask' = [wTask EXCEPT ![w] = IF emptied THEN @ ELSE None]
    /\ UNCHANGED <<taskVars, clockVars, indexKeys, counterVars, lockVars, wPrin, wSize,
                   sweepVars>>

DropKeyUnchecked(w) ==
    /\ pc[w] = "dropKey"
    /\ indexKeys' = indexKeys \ {owner[wTask[w]]}
    /\ wTask' = [wTask EXCEPT ![w] = None]
    /\ Goto(w, "each")
    /\ UNCHANGED <<taskVars, clockVars, index, counterVars, lockVars, wPrin, wSize, sweepVars>>

\* by_principal.remove_if: only if no id was pushed since the guard was dropped.
DropKey(w) ==
    LET p == owner[wTask[w]] IN
    /\ pc[w] = "dropKey"
    /\ indexKeys' = IF index[p] = {} THEN indexKeys \ {p} ELSE indexKeys
    /\ wTask' = [wTask EXCEPT ![w] = None]
    /\ Goto(w, "each")
    /\ UNCHANGED <<taskVars, clockVars, index, counterVars, lockVars, wPrin, wSize, sweepVars>>

EndSweep(w) ==
    /\ pc[w] = "each"
    /\ wIds[w] = {}
    /\ wSweep' = [wSweep EXCEPT ![w] = "none"]
    /\ wNow' = [wNow EXCEPT ![w] = {}]
    /\ Goto(w, "idle")
    /\ UNCHANGED <<taskVars, clockVars, indexVars, counterVars, lockVars, callVars, wShards, wIds>>

-----------------------------------------------------------------------------
(* The clock: Utc::now() passes expires_at, or terminal_at + grace period. *)

TtlPasses(t) ==
    /\ status[t] \in NonTerminal /\ t \notin overdue
    /\ overdue' = overdue \cup {t}
    /\ UNCHANGED <<taskVars, graceOver, indexVars, counterVars, lockVars, pc, callVars, sweepVars>>

GracePasses(t) ==
    /\ status[t] \in Terminal /\ t \notin graceOver
    /\ graceOver' = graceOver \cup {t}
    /\ UNCHANGED <<taskVars, overdue, indexVars, counterVars, lockVars, pc, callVars, sweepVars>>

-----------------------------------------------------------------------------
Sweeps == {"expire", "failAll", "cleanup"}

\* A worker that has returned starts a call.
Call(w) ==
    \/ \E p \in Principals, n \in Sizes : "create" \in Calls /\ ReserveGlobal(w, p, n)
    \/ \E t \in TaskIds :
          \/ \E s \in TransitionTargets \cap Calls : Transition(w, t, s)
          \/ \E d \in {"approved", "rejected"} \cap Calls : RecordApproval(w, t, d)
          \/ "complete" \in Calls /\ Complete(w, t)
          \/ "cancel" \in Calls /\ Cancel(w, t)
          \/ "fail" \in Calls /\ Fail(w, t)
          \/ "autoApprove" \in Calls /\ HandleExpiredTask(w, t)
    \/ \E k \in Sweeps \cap Calls : StartSweep(w, k)

\* A worker inside a call goes on.
Step(w) ==
    \/ ReservePrincipal(w)
    \/ \E t \in TaskIds : NewTask(w, t)
    \/ NewTaskFails(w)
    \/ BytesExceeded(w)
    \/ CheckBytes(w)
    \/ AddBytes(w)
    \/ Insert(w)
    \/ AddToIndex(w)
    \/ RollbackGlobal(w)
    \/ RecordAutoApproveResult(w)
    \/ AutoApproveUnrecorded(w)
    \/ DecGlobal(w)
    \/ DecBytes(w)
    \/ DecPrincipal(w)
    \/ RemoveIfZero(w)
    \/ \E s \in Shards : Scan(w, s)
    \/ \E t \in TaskIds : SkipId(w, t) \/ ExpireId(w, t) \/ FailId(w, t) \/ RemoveId(w, t)
    \/ Unindex(w)
    \/ DropKey(w)
    \/ EndSweep(w)

\* Deadlines matter only where a sweep reads them.
Clock ==
    \E t \in TaskIds :
        \/ "expire" \in Calls /\ TtlPasses(t)
        \/ "cleanup" \in Calls /\ GracePasses(t)

Next == (\E w \in Workers : Call(w) \/ Step(w)) \/ Clock

Spec == Init /\ [][Next]_vars

-----------------------------------------------------------------------------
(* Properties *)

Labels == {"idle", "principal", "build", "checkBytes", "addBytes", "insert", "index",
           "rollback", "autoApprove", "decGlobal", "decBytes", "decPrincipal", "removeIf",
           "scan", "each", "unindex", "dropKey"}

\* Labels at which a worker has a share of pending_count, of its principal's
\* counter and of pending_bytes that no live task accounts for, and at which
\* it holds the two kinds of lock.
GlobalSlot == {"principal", "build", "checkBytes", "addBytes", "insert", "rollback", "decGlobal"}
CreateSlot == {"build", "checkBytes", "addBytes", "insert"}
EndSlot == {"decGlobal", "decBytes", "decPrincipal"}
HoldsTask == EndSlot \cup {"removeIf"}
HoldsPrincipal == CreateSlot \cup {"index", "rollback"}

\* Every variable has its type; in particular pending_count and every
\* per-principal counter stay between zero and their limit.
TypeOK ==
    /\ status \in [TaskIds -> Status \cup {"absent", "removed"}]
    /\ owner \in [TaskIds -> Principals \cup {None}]
    /\ bytes \in [TaskIds -> Sizes \cup {0}]
    /\ approval \in [TaskIds -> {"none", "approved", "rejected"}]
    /\ failure \subseteq TaskIds /\ result \subseteq TaskIds
    /\ overdue \subseteq TaskIds /\ graceOver \subseteq TaskIds
    /\ index \in [Principals -> SUBSET TaskIds] /\ indexKeys \subseteq Principals
    /\ pendingCount \in 0..MaxPendingGlobal
    /\ pendingBytes \in Int
    /\ counter \in [Principals -> 0..MaxPendingPerPrincipal] /\ counterKeys \subseteq Principals
    /\ taskLock \in [Shards -> Workers \cup {None}]
    /\ principalLock \in [PShards -> Workers \cup {None}]
    /\ pc \in [Workers -> Labels]
    /\ wTask \in [Workers -> TaskIds \cup {None}]
    /\ wPrin \in [Workers -> Principals \cup {None}]
    /\ wSize \in [Workers -> Sizes \cup {0}]
    /\ wSweep \in [Workers -> Sweeps \cup {"none"}]
    /\ wNow \in [Workers -> SUBSET TaskIds]
    /\ wShards \in [Workers -> SUBSET Shards]
    /\ wIds \in [Workers -> SUBSET TaskIds]

Reserving == {w \in Workers : pc[w] \in GlobalSlot}
Creating(p) == {w \in Workers : pc[w] \in CreateSlot /\ wPrin[w] = p}
Ending(p) == {w \in Workers : pc[w] \in EndSlot /\ owner[wTask[w]] = p}

GlobalExact == pendingCount = Cardinality(Live) + Cardinality(Reserving)
PrincipalExact(p) ==
    counter[p] = Cardinality(LiveOf(p)) + Cardinality(Creating(p)) + Cardinality(Ending(p))

\* No pending slot is leaked or given out twice: pending_count is the number
\* of live tasks and of calls that reserved a slot or have still to free one,
\* and each principal's counter likewise, for every interleaving of create,
\* its three rollback paths and decrement_pending_counters.
CountersExact == GlobalExact /\ \A p \in Principals : PrincipalExact(p)

\* max_pending_global and max_pending_per_principal bound the live tasks
\* however create calls interleave with one another and with completions.
LimitsHeld ==
    /\ Cardinality(Live) <= MaxPendingGlobal
    /\ \A p \in Principals : Cardinality(LiveOf(p)) <= MaxPendingPerPrincipal

\* Each byte of each member of S.
BytesOf(S, size) == UNION {{x} \X (1 .. size[x]) : x \in S}

Charged == {w \in Workers : pc[w] = "insert"}
Refunding == {w \in Workers : pc[w] \in {"decGlobal", "decBytes"}}
RefundSize == [w \in Refunding |-> bytes[wTask[w]]]

\* pending_bytes is the size of the live tasks plus that of the calls which
\* have added theirs and not inserted, or ended a task and not subtracted.
BytesExact ==
    pendingBytes = Cardinality(BytesOf(Live, bytes))
                 + Cardinality(BytesOf(Charged, wSize))
                 + Cardinality(BytesOf(Refunding, RefundSize))

\* The byte limit is checked and charged in two steps.  The principal guard
\* held meanwhile lets at most one create per shard of pending_by_principal
\* be between the two, so the overshoot is at most one task per other shard.
BytesOvershootBounded ==
    pendingBytes <= MaxPendingBytes + (Cardinality(PShards) - 1) * Max(Sizes)

\* pending_bytes is exact, and the limit on it is exceeded only by what the
\* two-step check lets through.
BytesSound == BytesExact /\ BytesOvershootBounded

\* Every task in the store can be listed by its principal, or will be once
\* the create that inserted it has pushed its id: no cleanup_terminal running
\* beside a create drops the key under the new id.
IndexComplete ==
    \A t \in TaskIds : Present(t) =>
        \/ owner[t] \in indexKeys /\ t \in index[owner[t]]
        \/ \E w \in Workers : pc[w] = "index" /\ wTask[w] = t

\* by_principal keeps no empty entry once the sweeps that emptied it returned.
IndexTidy ==
    \A p \in indexKeys : index[p] # {} \/ \E w \in Workers :
        pc[w] \in {"unindex", "dropKey"} /\ owner[wTask[w]] = p

\* by_principal lists what is in the store, and keeps no empty entries.
IndexSound == IndexComplete /\ IndexTidy

\* A human decision stands behind every task that executes, and its record
\* agrees with the status; a result exists only on a task that completed or
\* was executed after expiry.
DecisionRecorded ==
    \A t \in TaskIds :
        /\ status[t] \in {"Executing", "Completed"} => approval[t] = "approved"
        /\ Present(t) => (status[t] = "Rejected" <=> approval[t] = "rejected")
        /\ t \in result => status[t] \in {"Completed", "Expired", "removed"}
        /\ status[t] = "Completed" => t \in result

\* The store implements the registry: tasks are created within both limits,
\* move along the lifecycle only, never leave a terminal status but by
\* cleanup, and never come back.
Registry == INSTANCE TaskRegistry
RegistrySpec == Registry!Spec

\* "Uses DashMap for lock-free concurrent access to tasks" (store.rs:91): no
\* two calls ever wait for each other.
NoWaitCycle ==
    ~ \E v, w \in Workers :
        /\ pc[v] = "insert" /\ taskLock[ShardOf[wTask[v]]] = w
        /\ pc[w] \in {"decPrincipal", "removeIf"}
        /\ principalLock[PShardOf[owner[wTask[w]]]] = v
=============================================================================
