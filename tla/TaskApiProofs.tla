---------------------------- MODULE TaskApiProofs ---------------------------
(***************************************************************************)
(* Theorems about TaskApi, for any number of tasks, requests and pages,    *)
(* any clock and any documents: callers reach only their own tasks, what   *)
(* has ended stays as it was shown, a listing read page by page misses no  *)
(* more than was swept, and an initialize is answered as it must be.       *)
(***************************************************************************)
EXTENDS TaskApi, TLAPS, FiniteSetTheorems, SequenceTheorems

In(h, phases) == request[h] # None /\ request[h].phase \in phases

\* Whose a task is: of the caller that made it, of the key it is listed under, of
\* the caller that was let through to it.
Owned(t, p) == task[t] # None /\ (t \in Existing => task[t].principal = p)
OfKey(t, k) == task[t] # None /\ (t \in Existing => RateLimitKey(task[t].principal) = k)

\* What is true of a request in each phase.
Fit(r) ==
    /\ r.phase \in {"create", "index"} => r.method = "call"
    /\ r.phase \in {"verify", "act", "upstream"} => r.method \in {"get", "result", "cancel"}
    /\ r.phase \in {"infer", "read"} => r.method = "list"
    /\ r.phase \in {"forward", "tasks", "sse"} => r.method = "initialize"
    /\ r.phase \in {"tasks", "sse"} => r.doc \in Results
    /\ r.phase = "upstream" => r.id \notin Tasks
Unplaced(r) ==
    /\ r.id \in Tasks /\ r.caller \in Owners /\ Owned(r.id, r.caller)
    /\ \A k \in Keys : r.id \notin ToSet(index[k])
Copied(r) ==
    /\ r.caller \in Principals /\ IsInjective(r.ids)
    /\ \A t \in ToSet(r.ids) : OfKey(t, RateLimitKey(r.caller))
Sound(r) ==
    /\ Fit(r)
    /\ r.phase = "index" => Unplaced(r)
    /\ r.phase \in {"verify", "act"} => r.id \in Tasks /\ task[r.id] # None
    /\ r.phase = "act" => Owned(r.id, r.caller)
    /\ r.phase = "read" => Copied(r)
RequestsSound == \A h \in Handlers : request[h] # None => Sound(request[h])
IndexPlaced == \A k \in Keys : IsInjective(index[k]) /\ \A t \in ToSet(index[k]) : OfKey(t, k)
OneEach == \A g, h \in Handlers : In(g, {"index"}) /\ In(h, {"index"}) /\ request[g].id = request[h].id => g = h
OwnersInv == RequestsSound /\ IndexPlaced /\ OneEach

\* What was shown as ended has ended so.
ShownTrue ==
    \A t \in Tasks : shown[t] # None =>
        /\ task[t] # None
        /\ t \in Existing => task[t].status \in Terminal /\ Sep1686Status(task[t].status) = shown[t]

\* Reading the list: one request at a time; what has still to be seen is listed,
\* and as many as were removed may have moved to pages already read.
ToSee == (walk.must \ walk.removed) \ walk.seen
Passed(ids) == {t \in ToSee : Place(ids, t) < ParseCursor(walk.cursor)}
Listing(ids) ==
    /\ walk.must \ walk.removed \subseteq Listed(ids)
    /\ IsFiniteSet(Passed(ids)) /\ Cardinality(Passed(ids)) <= Cardinality(walk.removed)
\* The ids a request has copied are in the index still, in their order.
Follows(ids, k) ==
    /\ Listed(ids) \subseteq Listed(index[k])
    /\ \A a, b \in Existing : Before(ids, a, b) => Before(index[k], a, b)
WalkInv ==
    /\ IsFiniteSet(walk.removed) /\ \A t \in walk.removed : task[t] = Gone
    /\ \A g, h \in Handlers : In(g, {"infer", "read"}) /\ In(h, {"infer", "read"}) => g = h
    /\ \A h \in Handlers : In(h, {"infer", "read"}) => walk.phase = "reading"
    /\ walk.phase = "reading" => \A p \in Principals : Listing(index[RateLimitKey(p)])
    /\ \A h \in Handlers : In(h, {"read"}) =>
          Listing(request[h].ids) /\ Follows(request[h].ids, RateLimitKey(request[h].caller))
    /\ WalkMissesOnlySwept

IndInv == TypeOK /\ OwnersInv /\ IsolationExact /\ ShownTrue /\ WalkInv /\ InitializeExact

-----------------------------------------------------------------------------
(* Types *)

\* An inferred identity is one of the principals or none; the effective one always owns.
LEMMA IdentityTypes ==
    ASSUME NEW e \in Environments
    PROVE  /\ EffectivePrincipal(e) \in Owners
           /\ InferPrincipal(e) = None \/ InferPrincipal(e) \in Principals
           /\ None \notin Owners /\ Principals \subseteq Owners
BY NamesAssumption DEF EffectivePrincipal, Owners, Principals

\* What a record of a task is not.
LEMMA RecordIsTask ==
    ASSUME NEW r \in TaskRecord
    PROVE  r # None /\ r # Gone
BY NamesAssumption

\* One request is replaced.
LEMMA OneRequest ==
    ASSUME TypeOK, NEW h \in Handlers, NEW x \in Request \cup {None}, request' = [request EXCEPT ![h] = x]
    PROVE  /\ request' \in [Handlers -> Request \cup {None}]
           /\ request'[h] = x /\ \A g \in Handlers \ {h} : request'[g] = request[g]
BY DEF TypeOK

\* The request each step of a handler leaves.
RequestOf(h, x) == x \in Request \cup {None} /\ request' = [request EXCEPT ![h] = x]

\* A new request is a request.
LEMMA NewRequestType ==
    ASSUME NEW m \in {"call", "get", "result", "cancel", "list", "initialize"},
           NEW id \in Tasks \cup {ForeignId, None}, NEW p \in Phases
    PROVE  NewRequest(m, id, p) \in Request
<1>1. <<>> \in Seq(Tasks)
  OBVIOUS
<1> QED BY <1>1 DEF NewRequest, Request

\* A step of a handler replaces that handler's request by a request or by none.
LEMMA HandlerRequests ==
    ASSUME TypeOK, NEW h \in Handlers, Arrive(h) \/ HandlerStep(h)
    PROVE  \E x : RequestOf(h, x)
<1>0. load \in Workloads /\ load.ids \subseteq Tasks /\ load.statuses \subseteq Status
      /\ load.environments \subseteq Environments
  BY WorkloadsAssumption DEF TypeOK
<1>1. request[h] # None => request[h] \in Request
  BY DEF TypeOK
<1>2. ASSUME NEW kind, NEW entries, NEW doc, Answer(h, kind, entries, doc)
      PROVE  \E x : RequestOf(h, x)
  BY <1>2 DEF Answer, RequestOf
<1>3. ASSUME NEW m \in {"call", "get", "result", "cancel", "list", "initialize"},
             NEW id \in Tasks \cup {ForeignId, None}, NEW p \in Phases, Start(h, m, id, p)
      PROVE  \E x : RequestOf(h, x)
  BY <1>3, NewRequestType DEF Start, RequestOf
<1>4. CASE CallTool(h) \/ Initialize(h) \/ TasksList(h)
  <2>1. Start(h, "call", None, "create") \/ Start(h, "initialize", None, "forward") \/ Start(h, "list", None, "infer")
    BY <1>4 DEF CallTool, Initialize, TasksList
  <2> QED BY <1>3, <2>1 DEF Phases
<1>5. ASSUME NEW m \in {"get", "result", "cancel"}, TaskRequest(h, m) PROVE \E x : RequestOf(h, x)
  <2>1. PICK id \in Tasks \cup {ForeignId, None}, p \in {"verify", "upstream"} : Start(h, m, id, p)
    BY <1>5 DEF TaskRequest
  <2> QED BY <1>3, <2>1 DEF Phases
<1>6. CASE CreateTask(h)
  <2>1. PICK e \in load.environments, t \in FreshIds :
           request' = [request EXCEPT ![h].id = t, ![h].caller = EffectivePrincipal(e), ![h].phase = "index"]
    BY <1>6 DEF CreateTask
  <2>2. request[h] \in Request /\ t \in Tasks /\ EffectivePrincipal(e) \in Owners
    BY <1>0, <1>1, <1>6, IdentityTypes DEF CreateTask, FreshIds
  <2>3. [request[h] EXCEPT !.id = t, !.caller = EffectivePrincipal(e), !.phase = "index"] \in Request
    BY <2>2 DEF Request, Phases
  <2>4. request' = [request EXCEPT ![h] =
              [request[h] EXCEPT !.id = t, !.caller = EffectivePrincipal(e), !.phase = "index"]]
    BY <2>1 DEF TypeOK
  <2> QED BY <2>3, <2>4 DEF RequestOf
<1>7. CASE VerifyTaskPrincipal(h)
  <2>1. PICK e \in load.environments :
            \/ request' = [request EXCEPT ![h] = None]
            \/ /\ InferPrincipal(e) # None
               /\ request' = [request EXCEPT ![h].caller = InferPrincipal(e), ![h].phase = "act"]
    BY <1>7 DEF VerifyTaskPrincipal
  <2>2. request[h] \in Request /\ InferPrincipal(e) \in Owners \cup {None}
    BY <1>0, <1>1, <1>7, IdentityTypes DEF VerifyTaskPrincipal
  <2>3. [request[h] EXCEPT !.caller = InferPrincipal(e), !.phase = "act"] \in Request
    BY <2>2 DEF Request, Phases
  <2>4. [request EXCEPT ![h].caller = InferPrincipal(e), ![h].phase = "act"]
          = [request EXCEPT ![h] = [request[h] EXCEPT !.caller = InferPrincipal(e), !.phase = "act"]]
    BY DEF TypeOK
  <2> QED BY <2>1, <2>3, <2>4 DEF RequestOf
<1>8. CASE CopyIds(h)
  <2>1. CASE Error(h, "denied")
    BY <1>2, <2>1 DEF Error
  <2>2. CASE ~Error(h, "denied")
    <3>1. PICK e \in load.environments : InferPrincipal(e) # None
            /\ request' = [request EXCEPT ![h].caller = InferPrincipal(e),
                               ![h].ids = index[RateLimitKey(InferPrincipal(e))], ![h].phase = "read"]
      BY <1>8, <2>2 DEF CopyIds
    <3>2. InferPrincipal(e) \in Owners /\ RateLimitKey(InferPrincipal(e)) \in Keys
      BY <1>0, <3>1, IdentityTypes DEF Keys
    <3>3. PICK c, ids : c = InferPrincipal(e) /\ ids = index[RateLimitKey(InferPrincipal(e))]
      OBVIOUS
    <3>4. c \in Owners /\ ids \in Seq(Tasks) /\ request[h] \in Request
      BY <1>1, <1>8, <3>2, <3>3 DEF TypeOK, CopyIds
    <3>5. [request[h] EXCEPT !.caller = c, !.ids = ids, !.phase = "read"] \in Request
      BY <3>4 DEF Request, Phases
    <3>6. request' = [request EXCEPT ![h] = [request[h] EXCEPT !.caller = c, !.ids = ids, !.phase = "read"]]
      BY <3>1, <3>3 DEF TypeOK
    <3> QED BY <3>5, <3>6 DEF RequestOf
  <2> QED BY <2>1, <2>2
<1>9. CASE InitializeAnswered(h)
  <2>1. CASE Error(h, "upstream_error")
    BY <1>2, <2>1 DEF Error
  <2>2. ASSUME NEW doc \in Results, request' = [request EXCEPT ![h].doc = doc, ![h].phase = "tasks"]
        PROVE  \E x : RequestOf(h, x)
    <3>1. [request[h] EXCEPT !.doc = doc, !.phase = "tasks"] \in Request
      BY <1>1, <1>9 DEF InitializeAnswered, Request, Phases
    <3>2. request' = [request EXCEPT ![h] = [request[h] EXCEPT !.doc = doc, !.phase = "tasks"]]
      BY <2>2 DEF TypeOK
    <3> QED BY <3>1, <3>2 DEF RequestOf
  <2> QED BY <1>9, <2>1, <2>2 DEF InitializeAnswered
<1>10. CASE SetUpstreamSupportsTasks(h)
  <2>1. [request[h] EXCEPT !.phase = "sse"] \in Request
    BY <1>1, <1>10 DEF SetUpstreamSupportsTasks, Request, Phases
  <2>2. request' = [request EXCEPT ![h] = [request[h] EXCEPT !.phase = "sse"]]
    BY <1>10 DEF SetUpstreamSupportsTasks, TypeOK
  <2> QED BY <2>1, <2>2 DEF RequestOf
<1>11. CASE AddToIndex(h) \/ PassThrough(h) \/ HandleTasksGet(h) \/ HandleTasksResult(h) \/ ExecuteOnResult(h)
           \/ HandleTasksCancel(h) \/ ReadList(h) \/ SetUpstreamSupportsTaskSse(h)
  <2>1. request' = [request EXCEPT ![h] = None]
    BY <1>11 DEF AddToIndex, PassThrough, HandleTasksGet, HandleTasksResult, ExecuteOnResult,
                 HandleTasksCancel, ReadList, SetUpstreamSupportsTaskSse, Answer, Error
  <2> QED BY <2>1 DEF RequestOf
<1> QED BY <1>4, <1>5, <1>6, <1>7, <1>8, <1>9, <1>10, <1>11 DEF Arrive, HandlerStep

-----------------------------------------------------------------------------
(* What a step does to a task *)

Kept(t) ==
    \/ task'[t] = task[t]
    \/ task[t] = None /\ task'[t] \in TaskRecord
    \/ t \in Existing /\ task'[t] = Gone /\ RemoveTask(t)
    \/ /\ t \in Existing /\ task'[t] \in TaskRecord
       /\ task'[t].principal = task[t].principal /\ task'[t].at = task[t].at
       /\ task[t].status \in Terminal => task'[t].status = task[t].status

\* Every step keeps the tasks typed, and moves each of them only along its life.
LEMMA TaskSteps ==
    ASSUME TypeOK, [Next]_vars
    PROVE  task' \in [Tasks -> TaskRecord \cup {None, Gone}] /\ \A t \in Tasks : Kept(t)
<1>0. load.ids \subseteq Tasks /\ load.statuses \subseteq Status /\ load.environments \subseteq Environments
  BY WorkloadsAssumption DEF TypeOK
<1>1. task \in [Tasks -> TaskRecord \cup {None, Gone}]
  BY DEF TypeOK
<1>2. CASE task' = task
  BY <1>1, <1>2 DEF Kept
<1>3. ASSUME NEW t \in Tasks, NEW x \in TaskRecord \cup {Gone}, task' = [task EXCEPT ![t] = x],
             \/ task[t] = None /\ x \in TaskRecord
             \/ t \in Existing /\ x = Gone /\ RemoveTask(t)
             \/ /\ t \in Existing /\ x \in TaskRecord
                /\ x.principal = task[t].principal /\ x.at = task[t].at
                /\ task[t].status \in Terminal => x.status = task[t].status
      PROVE  task' \in [Tasks -> TaskRecord \cup {None, Gone}] /\ \A u \in Tasks : Kept(u)
  BY <1>1, <1>3 DEF Kept
<1>4. ASSUME NEW t \in Tasks, Move(t)
      PROVE  task' \in [Tasks -> TaskRecord \cup {None, Gone}] /\ \A u \in Tasks : Kept(u)
  <2>1. PICK s \in load.statuses : CanTransitionTo(task[t].status, s) /\ t \in Existing
           /\ task' = [task EXCEPT ![t].status = s, ![t].result = (s = "Completed")]
    BY <1>4 DEF Move
  <2>2. task[t] \in TaskRecord
    BY <1>1, <2>1 DEF Existing
  <2>3. PICK x : x = [task[t] EXCEPT !.status = s, !.result = (s = "Completed")]
    OBVIOUS
  <2>4. x \in TaskRecord /\ x.principal = task[t].principal /\ x.at = task[t].at
    BY <1>0, <2>2, <2>3 DEF TaskRecord
  <2>5. task[t].status \notin Terminal
    BY <2>1 DEF CanTransitionTo, Transitions, Terminal
  <2>6. task' = [task EXCEPT ![t] = x]
    BY <1>1, <2>1, <2>3
  <2> QED BY <1>3, <2>1, <2>4, <2>5, <2>6
<1>5. ASSUME NEW t \in Tasks, RecordAutoApproveResult(t)
      PROVE  task' \in [Tasks -> TaskRecord \cup {None, Gone}] /\ \A u \in Tasks : Kept(u)
  <2>1. task[t] \in TaskRecord /\ t \in Existing
    BY <1>1, <1>5 DEF Existing, RecordAutoApproveResult
  <2>2. PICK x : x = [task[t] EXCEPT !.result = TRUE]
    OBVIOUS
  <2>3. x \in TaskRecord /\ x.principal = task[t].principal /\ x.at = task[t].at /\ x.status = task[t].status
    BY <2>1, <2>2 DEF TaskRecord
  <2>4. task' = [task EXCEPT ![t] = x]
    BY <1>1, <1>5, <2>2 DEF RecordAutoApproveResult
  <2> QED BY <1>3, <2>1, <2>3, <2>4
<1>6. ASSUME NEW t \in Tasks, RemoveTask(t)
      PROVE  task' \in [Tasks -> TaskRecord \cup {None, Gone}] /\ \A u \in Tasks : Kept(u)
  <2>1. t \in Existing /\ task' = [task EXCEPT ![t] = Gone]
    BY <1>6 DEF RemoveTask
  <2> QED BY <1>3, <1>6, <2>1
<1>7. ASSUME NEW h \in Handlers, CreateTask(h)
      PROVE  task' \in [Tasks -> TaskRecord \cup {None, Gone}] /\ \A u \in Tasks : Kept(u)
  <2>1. PICK at \in Clock, e \in load.environments, t \in FreshIds :
           task' = [task EXCEPT ![t] = [status |-> "Working", principal |-> EffectivePrincipal(e),
                                        at |-> at, result |-> FALSE]]
    BY <1>7 DEF CreateTask
  <2>2. PICK x : x = [status |-> "Working", principal |-> EffectivePrincipal(e), at |-> at, result |-> FALSE]
    OBVIOUS
  <2>3. t \in Tasks /\ task[t] = None /\ EffectivePrincipal(e) \in Owners
    BY <1>0, IdentityTypes DEF FreshIds
  <2>4. x \in TaskRecord
    BY <2>2, <2>3 DEF TaskRecord, Status
  <2>5. task' = [task EXCEPT ![t] = x]
    BY <2>1, <2>2
  <2> QED BY <1>3, <2>3, <2>4, <2>5
<1>8. ASSUME NEW h \in Handlers, HandleTasksCancel(h)
      PROVE  task' \in [Tasks -> TaskRecord \cup {None, Gone}] /\ \A u \in Tasks : Kept(u)
  <2>1. PICK t : t = request[h].id
    OBVIOUS
  <2>2. \/ task' = task
        \/ t \in Existing /\ task[t].status \in {"InputRequired", "Cancelled"}
           /\ task' = [task EXCEPT ![t].status = "Cancelled"]
    BY <1>8, <2>1 DEF HandleTasksCancel
  <2>3. CASE t \in Existing /\ task[t].status \in {"InputRequired", "Cancelled"}
           /\ task' = [task EXCEPT ![t].status = "Cancelled"]
    <3>1. t \in Tasks /\ task[t] \in TaskRecord
      BY <1>1, <2>3 DEF Existing
    <3>2. PICK x : x = [task[t] EXCEPT !.status = "Cancelled"]
      OBVIOUS
    <3>3. x \in TaskRecord /\ x.principal = task[t].principal /\ x.at = task[t].at /\ x.status = "Cancelled"
      BY <3>1, <3>2 DEF TaskRecord, Status
    <3>4. task[t].status \in Terminal => task[t].status = "Cancelled"
      BY <2>3 DEF Terminal
    <3>5. task' = [task EXCEPT ![t] = x]
      BY <1>1, <2>3, <3>2
    <3> QED BY <1>3, <2>3, <3>1, <3>3, <3>4, <3>5
  <2> QED BY <1>2, <2>2, <2>3
<1>9. ASSUME NEW h \in Handlers, Arrive(h) PROVE task' = task
  BY <1>9, Zenon DEF Arrive, CallTool, TasksList, Initialize, TaskRequest, storeVars
<1>10. ASSUME NEW h \in Handlers, HandlerStep(h), ~CreateTask(h), ~HandleTasksCancel(h) PROVE task' = task
  BY <1>10, Zenon DEF HandlerStep, AddToIndex, PassThrough, VerifyTaskPrincipal, HandleTasksGet,
               HandleTasksResult, ExecuteOnResult, CopyIds, ReadList, InitializeAnswered, SetUpstreamSupportsTasks,
               SetUpstreamSupportsTaskSse, storeVars
<1>11. CASE RetainIndex \/ UNCHANGED vars
  BY <1>2, <1>11 DEF RetainIndex, vars
<1> QED BY <1>2, <1>4, <1>5, <1>6, <1>7, <1>8, <1>9, <1>10, <1>11 DEF Next, StoreStep

\* A task stays its owner's.
LEMMA StaysOwned ==
    ASSUME TypeOK, NEW t \in Tasks, Kept(t), task[t] # None
    PROVE  /\ task'[t] # None
           /\ t \in Existing' => t \in Existing /\ task'[t].principal = task[t].principal
                                  /\ task'[t].at = task[t].at
           /\ \A p : Owned(t, p) => Owned(t, p)'
           /\ \A k : OfKey(t, k) => OfKey(t, k)'
<1>1. task'[t] # None
  BY NamesAssumption DEF Kept
<1>2. t \in Existing' => t \in Existing /\ task'[t].principal = task[t].principal /\ task'[t].at = task[t].at
  BY DEF Kept, Existing
<1>3. \A p : Owned(t, p) => Owned(t, p)'
  BY <1>1, <1>2 DEF Owned
<1>4. \A k : OfKey(t, k) => OfKey(t, k)'
  BY <1>1, <1>2 DEF OfKey
<1> QED BY <1>1, <1>2, <1>3, <1>4

-----------------------------------------------------------------------------
(* The index *)

\* What appending an id does to a list.
LEMMA Appended ==
    ASSUME NEW s \in Seq(Tasks), NEW t \in Tasks
    PROVE  /\ Append(s, t) \in Seq(Tasks) /\ ToSet(Append(s, t)) = ToSet(s) \cup {t}
           /\ IsInjective(s) /\ t \notin ToSet(s) => IsInjective(Append(s, t))
           /\ \A a, b : Before(s, a, b) => Before(Append(s, t), a, b)
<1>0. PICK n \in Nat : n = Len(s)
  OBVIOUS
<1>0a. DOMAIN s = 1 .. n
  BY <1>0
<1>0b. PICK r : r = Append(s, t)
  OBVIOUS
<1>1. n = Len(s) /\ DOMAIN s = 1 .. n /\ r = Append(s, t)
  BY <1>0, <1>0a, <1>0b
<1>2. r \in Seq(Tasks) /\ DOMAIN r = 1 .. n + 1 /\ r[n + 1] = t /\ \A k \in 1 .. n : r[k] = s[k]
  BY <1>1
<1>3. 1 .. n + 1 = (1 .. n) \cup {n + 1}
  OBVIOUS
<1>4. ToSet(r) = ToSet(s) \cup {t}
  BY <1>1, <1>2, <1>3 DEF ToSet
<1>5. IsInjective(s) /\ t \notin ToSet(s) => IsInjective(r)
  BY <1>1, <1>2, <1>3 DEF IsInjective, ToSet
<1>6. \A a, b : Before(s, a, b) => Before(r, a, b)
  BY <1>1, <1>2, <1>3 DEF Before
<1> QED BY <1>1, <1>2, <1>4, <1>5, <1>6

\* What taking an id out does to a list of different ids.
LEMMA Retained ==
    ASSUME NEW s \in Seq(Tasks), IsInjective(s), NEW t
    PROVE  /\ Retain(s, t) \in Seq(Tasks) /\ ToSet(Retain(s, t)) = ToSet(s) \ {t}
           /\ IsInjective(Retain(s, t))
           /\ \A a, b : a # t /\ b # t /\ Before(s, a, b) => Before(Retain(s, t), a, b)
<1>1. CASE t \notin ToSet(s)
  BY <1>1 DEF Retain
<1>2. CASE t \in ToSet(s)
  <2>1. PICK n \in Nat : n = Len(s) /\ DOMAIN s = 1 .. n
    OBVIOUS
  <2>2. PICK i, r : i = (CHOOSE k \in DOMAIN s : s[k] = t) /\ r = SubSeq(s, 1, i - 1) \o SubSeq(s, i + 1, Len(s))
    OBVIOUS
  <2>3. i \in 1 .. n /\ s[i] = t
    <3>1. \E k \in DOMAIN s : s[k] = t
      BY <1>2 DEF ToSet
    <3> QED BY <2>1, <2>2, <3>1
  <2>4. Retain(s, t) = r
    BY <1>2, <2>2 DEF Retain, RemoveAt
  <2>5a. /\ SubSeq(s, 1, i - 1) \in Seq(Tasks) /\ Len(SubSeq(s, 1, i - 1)) = i - 1
         /\ \A k \in 1 .. i - 1 : SubSeq(s, 1, i - 1)[k] = s[k]
    BY <2>1, <2>3
  <2>5b. /\ SubSeq(s, i + 1, n) \in Seq(Tasks) /\ Len(SubSeq(s, i + 1, n)) = n - i
         /\ \A k \in 1 .. n - i : SubSeq(s, i + 1, n)[k] = s[i + k]
    BY <2>1, <2>3
  <2>5. PICK u \in Seq(Tasks) : u = SubSeq(s, 1, i - 1)
    BY <2>5a
  <2>6. PICK v \in Seq(Tasks) : v = SubSeq(s, i + 1, n)
    BY <2>5b
  <2>6a. r = u \o v
    BY <2>1, <2>2, <2>5, <2>6
  <2>6b. Len(u) + Len(v) = n - 1
    BY <2>3, <2>5, <2>5a, <2>5b, <2>6
  <2>6c. u \o v \in Seq(Tasks) /\ Len(u \o v) = Len(u) + Len(v) /\ DOMAIN (u \o v) = 1 .. Len(u) + Len(v)
         /\ \A k \in 1 .. Len(u) + Len(v) : (u \o v)[k] = IF k <= Len(u) THEN u[k] ELSE v[k - Len(u)]
    OBVIOUS
  <2>7. r \in Seq(Tasks) /\ Len(r) = n - 1 /\ DOMAIN r = 1 .. n - 1
    BY <2>6a, <2>6b, <2>6c
  <2>8. \A k \in 1 .. n - 1 : r[k] = IF k < i THEN s[k] ELSE s[k + 1]
    <3> SUFFICES ASSUME NEW k \in 1 .. n - 1 PROVE r[k] = IF k < i THEN s[k] ELSE s[k + 1]
      OBVIOUS
    <3>1. CASE k < i
      <4>1. Len(u) = i - 1 /\ k \in 1 .. i - 1 /\ k \in 1 .. Len(u) + Len(v) /\ k <= Len(u)
        BY <2>3, <2>5, <2>5a, <2>6b, <3>1
      <4>2. r[k] = u[k]
        BY <2>6a, <2>6c, <4>1
      <4> QED BY <2>5, <2>5a, <3>1, <4>1, <4>2
    <3>2. CASE ~(k < i)
      <4>1. k - (i - 1) \in 1 .. n - i /\ i + (k - (i - 1)) = k + 1
        BY <2>3, <3>2
      <4>2. r[k] = v[k - (i - 1)]
        BY <2>3, <2>5, <2>5a, <2>6a, <2>6b, <2>6c, <3>2
      <4> QED BY <2>5b, <2>6, <3>2, <4>1, <4>2
    <3> QED BY <3>1, <3>2
  <2>9. \A j \in 1 .. n : j # i => (IF j < i THEN j ELSE j - 1) \in 1 .. n - 1
                                   /\ r[IF j < i THEN j ELSE j - 1] = s[j]
    <3> SUFFICES ASSUME NEW j \in 1 .. n, j # i
                 PROVE  (IF j < i THEN j ELSE j - 1) \in 1 .. n - 1 /\ r[IF j < i THEN j ELSE j - 1] = s[j]
      OBVIOUS
    <3>1. CASE j < i
      BY <2>3, <2>8, <3>1
    <3>2. CASE ~(j < i)
      <4>1. j - 1 \in 1 .. n - 1 /\ ~(j - 1 < i) /\ (j - 1) + 1 = j
        BY <2>3, <3>2
      <4> QED BY <2>8, <3>2, <4>1
    <3> QED BY <3>1, <3>2
  <2>10. \A j, k \in 1 .. n : s[j] = s[k] => j = k
    BY <2>1 DEF IsInjective
  <2>11. ToSet(r) = ToSet(s) \ {t}
    <3>1. ASSUME NEW x \in ToSet(r) PROVE x \in ToSet(s) \ {t}
      <4>1. PICK k \in 1 .. n - 1 : x = r[k]
        BY <2>7, <3>1 DEF ToSet
      <4>2. PICK j \in 1 .. n : x = s[j] /\ j # i
        <5>1. CASE k < i
          BY <2>3, <2>8, <4>1, <5>1
        <5>2. CASE ~(k < i)
          <6>1. k + 1 \in 1 .. n /\ k + 1 # i /\ r[k] = s[k + 1]
            BY <2>3, <2>8, <4>1, <5>2
          <6> QED BY <4>1, <6>1
        <5> QED BY <5>1, <5>2
      <4> QED BY <2>1, <2>3, <2>10, <4>2 DEF ToSet
    <3>2. ASSUME NEW x \in ToSet(s) \ {t} PROVE x \in ToSet(r)
      <4>1. PICK j \in 1 .. n : x = s[j] /\ j # i
        BY <2>1, <2>3, <3>2 DEF ToSet
      <4> QED BY <2>7, <2>9, <4>1 DEF ToSet
    <3> QED BY <3>1, <3>2
  <2>12. IsInjective(r)
    <3> SUFFICES ASSUME NEW j \in 1 .. n - 1, NEW k \in 1 .. n - 1, r[j] = r[k] PROVE j = k
      BY <2>7 DEF IsInjective
    <3>1. PICK a \in 1 .. n : a = IF j < i THEN j ELSE j + 1
      BY <2>3
    <3>2. PICK b \in 1 .. n : b = IF k < i THEN k ELSE k + 1
      BY <2>3
    <3>3. s[a] = s[b]
      BY <2>8, <3>1, <3>2
    <3> QED BY <2>3, <2>10, <3>1, <3>2, <3>3
  <2>13. \A a, b : a # t /\ b # t /\ Before(s, a, b) => Before(r, a, b)
    <3> SUFFICES ASSUME NEW a, NEW b, a # t, b # t, Before(s, a, b) PROVE Before(r, a, b)
      OBVIOUS
    <3>1. PICK j \in 1 .. n, k \in 1 .. n : j < k /\ s[j] = a /\ s[k] = b
      BY <2>1 DEF Before
    <3>2. PICK x, y : x = (IF j < i THEN j ELSE j - 1) /\ y = (IF k < i THEN k ELSE k - 1)
      OBVIOUS
    <3>3. x \in 1 .. n - 1 /\ y \in 1 .. n - 1 /\ r[x] = a /\ r[y] = b
      BY <2>3, <2>9, <3>1, <3>2
    <3>4. x < y
      BY <2>3, <3>1, <3>2
    <3> QED BY <2>7, <3>3, <3>4 DEF Before
  <2> QED BY <2>4, <2>7, <2>11, <2>12, <2>13
<1> QED BY <1>1, <1>2

\* Who writes the index: a request that adds its id, and the sweep.
LEMMA IndexWriters ==
    ASSUME [Next]_vars
    PROVE  \/ index' = index /\ \A h \in Handlers : ~AddToIndex(h)
           \/ \E h \in Handlers : AddToIndex(h)
           \/ RetainIndex /\ UNCHANGED <<task, request>>
<1>1. ASSUME NEW t \in Tasks, Move(t) \/ RecordAutoApproveResult(t) \/ RemoveTask(t)
      PROVE  index' = index
  BY <1>1 DEF Move, RecordAutoApproveResult, RemoveTask
<1>2. ASSUME NEW h \in Handlers, Arrive(h) PROVE index' = index
  BY <1>2, Zenon DEF Arrive, CallTool, TasksList, Initialize, TaskRequest, storeVars
<1>3. ASSUME NEW h \in Handlers, HandlerStep(h), ~AddToIndex(h) PROVE index' = index
  BY <1>3, Zenon DEF HandlerStep, CreateTask, PassThrough, VerifyTaskPrincipal, HandleTasksGet, HandleTasksResult,
              ExecuteOnResult, HandleTasksCancel, CopyIds, ReadList, InitializeAnswered, SetUpstreamSupportsTasks,
              SetUpstreamSupportsTaskSse, storeVars
<1>4. RetainIndex => UNCHANGED <<task, request>>
  BY DEF RetainIndex
<1>5. UNCHANGED vars => index' = index
  BY DEF vars
<1> QED BY <1>1, <1>2, <1>3, <1>4, <1>5 DEF Next, StoreStep

\* Each key lists different tasks of its own, and a step adds at most the id of a request that waits for it.
LEMMA IndexSteps ==
    ASSUME TypeOK, OwnersInv, [Next]_vars
    PROVE  /\ index' \in [Keys -> Seq(Tasks)] /\ IndexPlaced'
           /\ \A k \in Keys : \A t \in ToSet(index'[k]) :
                 t \in ToSet(index[k]) \/ \E h \in Handlers : AddToIndex(h) /\ t = request[h].id
<1>1. index \in [Keys -> Seq(Tasks)]
  BY DEF TypeOK
<1>2. \A t \in Tasks : Kept(t)
  BY TaskSteps
<1>3. \A k \in Keys : IsInjective(index[k]) /\ \A t \in ToSet(index[k]) : t \in Tasks /\ OfKey(t, k) /\ OfKey(t, k)'
  <2>1. \A k \in Keys : IsInjective(index[k]) /\ \A t \in ToSet(index[k]) : t \in Tasks /\ OfKey(t, k)
    BY <1>1 DEF OwnersInv, IndexPlaced, ToSet
  <2> QED BY <1>2, <2>1, StaysOwned DEF OfKey
<1>4. CASE index' = index
  BY <1>1, <1>3, <1>4 DEF IndexPlaced
<1>5. ASSUME NEW h \in Handlers, AddToIndex(h)
      PROVE  /\ index' \in [Keys -> Seq(Tasks)] /\ IndexPlaced'
             /\ \A k \in Keys : \A t \in ToSet(index'[k]) : t \in ToSet(index[k]) \/ t = request[h].id
  <2>1. PICK u, p : u = request[h].id /\ p = request[h].caller
    OBVIOUS
  <2>2. /\ index' = [index EXCEPT ![RateLimitKey(p)] = Append(@, u)]
        /\ u \in Tasks /\ p \in Owners /\ Owned(u, p) /\ \A k \in Keys : u \notin ToSet(index[k])
    BY <1>5, <2>1 DEF AddToIndex, OwnersInv, RequestsSound, Sound, Unplaced
  <2>3. PICK q \in Keys : q = RateLimitKey(p)
    BY <2>2 DEF Keys
  <2>4. index'[q] = Append(index[q], u) /\ \A k \in Keys \ {q} : index'[k] = index[k]
    BY <1>1, <2>2, <2>3
  <2>5. /\ Append(index[q], u) \in Seq(Tasks) /\ ToSet(Append(index[q], u)) = ToSet(index[q]) \cup {u}
        /\ IsInjective(Append(index[q], u))
    BY <1>1, <1>3, <2>2, Appended
  <2>6. index' \in [Keys -> Seq(Tasks)]
    BY <1>1, <2>2, <2>3, <2>5
  <2>7. OfKey(u, q)'
    <3>1. OfKey(u, q) /\ task[u] # None
      BY <2>2, <2>3 DEF Owned, OfKey
    <3> QED BY <1>2, <2>2, <3>1, StaysOwned
  <2>8. IndexPlaced'
    <3>1. \A k \in Keys : IsInjective(index'[k]) /\ \A t \in ToSet(index'[k]) : OfKey(t, k)'
      BY <1>3, <2>4, <2>5, <2>7
    <3> QED BY <3>1 DEF IndexPlaced
  <2> QED BY <2>1, <2>4, <2>5, <2>6, <2>8
<1>6. ASSUME RetainIndex
      PROVE  /\ index' \in [Keys -> Seq(Tasks)] /\ IndexPlaced'
             /\ \A k \in Keys : \A t \in ToSet(index'[k]) : t \in ToSet(index[k])
  <2>1. PICK q \in Keys, u \in Tasks : q = sweeping.key /\ u = sweeping.task
    BY <1>6 DEF RetainIndex, TypeOK
  <2>2. index' = [index EXCEPT ![q] = Retain(@, u)]
    BY <1>6, <2>1 DEF RetainIndex
  <2>3. index'[q] = Retain(index[q], u) /\ \A k \in Keys \ {q} : index'[k] = index[k]
    BY <1>1, <2>2
  <2>4. /\ Retain(index[q], u) \in Seq(Tasks) /\ ToSet(Retain(index[q], u)) = ToSet(index[q]) \ {u}
        /\ IsInjective(Retain(index[q], u))
    BY <1>1, <1>3, Retained
  <2>5. index' \in [Keys -> Seq(Tasks)]
    BY <1>1, <2>2, <2>4
  <2>6. \A k \in Keys : IsInjective(index'[k]) /\ \A t \in ToSet(index'[k]) : OfKey(t, k)'
    BY <1>3, <2>3, <2>4
  <2> QED BY <2>3, <2>4, <2>5, <2>6 DEF IndexPlaced
<1> QED BY <1>4, <1>5, <1>6, IndexWriters

-----------------------------------------------------------------------------
(* Requests and what they hold *)

\* A request that is left alone stays sound.
LEMMA SoundStays ==
    ASSUME TypeOK, NEW r \in Request, Sound(r), \A t \in Tasks : Kept(t),
           r.phase = "index" => \A k \in Keys : r.id \notin ToSet(index'[k])
    PROVE  Sound(r)'
<1>1. CASE r.phase = "index"
  BY <1>1, StaysOwned DEF Sound, Fit, Unplaced, Owned
<1>2. CASE r.phase \in {"verify", "act"}
  <2>1. r.id \in Tasks /\ task[r.id] # None
    BY <1>2 DEF Sound
  <2>2. task'[r.id] # None /\ (Owned(r.id, r.caller) => Owned(r.id, r.caller)')
    BY <2>1, StaysOwned
  <2> QED BY <1>2, <2>2 DEF Sound, Fit
<1>3. CASE r.phase = "read"
  <2>1. \A t \in ToSet(r.ids) : t \in Tasks
    <3>1. r.ids \in Seq(Tasks)
      BY DEF Request
    <3> QED BY <3>1 DEF ToSet
  <2>2. \A t \in ToSet(r.ids) : OfKey(t, RateLimitKey(r.caller))
    BY <1>3 DEF Sound, Copied
  <2>3. \A t \in ToSet(r.ids) : OfKey(t, RateLimitKey(r.caller))'
    BY <2>1, <2>2, StaysOwned DEF OfKey
  <2> QED BY <1>3, <2>3 DEF Sound, Copied, Fit
<1>4. CASE r.phase \notin {"index", "verify", "act", "read"}
  BY <1>4 DEF Sound, Fit
<1> QED BY <1>1, <1>2, <1>3, <1>4

\* A request that a step makes or moves on is sound.
LEMMA NewSound ==
    ASSUME TypeOK, OwnersInv, NEW h \in Handlers, Arrive(h) \/ HandlerStep(h)
    PROVE  request'[h] # None => Sound(request[h])'
<1>0. load.ids \subseteq Tasks /\ load.statuses \subseteq Status /\ load.environments \subseteq Environments
  BY WorkloadsAssumption DEF TypeOK
<1>1. request \in [Handlers -> Request \cup {None}] /\ (request[h] # None => request[h] \in Request /\ Sound(request[h]))
  BY DEF TypeOK, OwnersInv, RequestsSound
<1>2. ASSUME NEW kind, NEW entries, NEW doc, Answer(h, kind, entries, doc)
      PROVE  request'[h] = None
  BY <1>1, <1>2 DEF Answer
<1>3. CASE CallTool(h) \/ Initialize(h) \/ TasksList(h)
  <2>1. PICK m, p : /\ request' = [request EXCEPT ![h] = NewRequest(m, None, p)]
                    /\ <<m, p>> \in {<<"call", "create">>, <<"initialize", "forward">>, <<"list", "infer">>}
    BY <1>3 DEF CallTool, Initialize, TasksList, Start
  <2>2. request'[h].method = m /\ request'[h].phase = p
    BY <1>1, <2>1 DEF NewRequest
  <2> QED BY <2>1, <2>2 DEF Sound, Fit
<1>4. ASSUME NEW m \in {"get", "result", "cancel"}, TaskRequest(h, m)
      PROVE  request'[h] # None => Sound(request[h])'
  <2>1. PICK id \in Tasks \cup {ForeignId, None} : /\ id \in Tasks => task[id] # None
                   /\ Start(h, m, id, IF Route(m, id) = "handler" THEN "verify" ELSE "upstream")
    BY <1>4 DEF TaskRequest
  <2>2. request'[h] = NewRequest(m, id, IF Route(m, id) = "handler" THEN "verify" ELSE "upstream")
    BY <1>1, <2>1 DEF Start
  <2>3. IF Route(m, id) = "handler" THEN id \in Tasks ELSE id \notin Tasks
    BY NamesAssumption DEF Route, IsThoughtgateOwned
  <2>4. PICK p : p = IF Route(m, id) = "handler" THEN "verify" ELSE "upstream"
    OBVIOUS
  <2>5. request'[h].method = m /\ request'[h].phase = p /\ request'[h].id = id
    BY <2>2, <2>4 DEF NewRequest
  <2>6. task' = task
    BY <1>4 DEF TaskRequest, storeVars
  <2> QED BY <2>1, <2>3, <2>4, <2>5, <2>6 DEF Sound, Fit
<1>5. CASE CreateTask(h)
  <2>1. PICK at \in Clock, e \in load.environments, t \in FreshIds :
           /\ task' = [task EXCEPT ![t] = [status |-> "Working", principal |-> EffectivePrincipal(e),
                                        at |-> at, result |-> FALSE]]
           /\ request' = [request EXCEPT ![h].id = t, ![h].caller = EffectivePrincipal(e), ![h].phase = "index"]
    <3>1. PICK x : x = CHOOSE u \in FreshIds : TRUE
      OBVIOUS
    <3>2. x \in FreshIds
      BY <1>5, <3>1 DEF CreateTask
    <3>3. PICK at \in Clock, e \in load.environments :
           /\ task' = [task EXCEPT ![x] = [status |-> "Working", principal |-> EffectivePrincipal(e),
                                        at |-> at, result |-> FALSE]]
           /\ request' = [request EXCEPT ![h].id = x, ![h].caller = EffectivePrincipal(e), ![h].phase = "index"]
      BY <1>5, <3>1, Zenon DEF CreateTask
    <3> QED BY <3>2, <3>3, Zenon
  <2>2. t \in Tasks /\ task[t] = None /\ EffectivePrincipal(e) \in Owners
    BY <1>0, IdentityTypes DEF FreshIds
  <2>3. request[h] \in Request /\ request[h].phase = "create" /\ request[h].method = "call" /\ index' = index
    BY <1>1, <1>5 DEF CreateTask, Sound, Fit
  <2>4. PICK p : p = EffectivePrincipal(e)
    OBVIOUS
  <2>5. request'[h].id = t /\ request'[h].caller = p /\ request'[h].phase = "index" /\ request'[h].method = "call"
    BY <1>1, <2>1, <2>3, <2>4 DEF Request
  <2>6. task'[t] # None /\ task'[t].principal = p
    <3>1. PICK x : x = [status |-> "Working", principal |-> p, at |-> at, result |-> FALSE]
      OBVIOUS
    <3>2. x \in TaskRecord /\ x.principal = p
      BY <2>2, <2>4, <3>1 DEF TaskRecord, Status
    <3>3. task'[t] = x
      BY <2>1, <2>2, <2>4, <3>1 DEF TypeOK
    <3> QED BY <3>2, <3>3, RecordIsTask
  <2>7. \A k \in Keys : t \notin ToSet(index'[k])
    BY <2>2, <2>3 DEF OwnersInv, IndexPlaced, OfKey
  <2>8. Unplaced(request[h])'
    BY <2>2, <2>4, <2>5, <2>6, <2>7 DEF Unplaced, Owned
  <2> QED BY <2>5, <2>8 DEF Sound, Fit
<1>6. CASE VerifyTaskPrincipal(h)
  <2>1. PICK e \in load.environments :
            \/ request' = [request EXCEPT ![h] = None]
            \/ /\ InferPrincipal(e) # None /\ request[h].id \in Existing
               /\ task[request[h].id].principal = InferPrincipal(e)
               /\ request' = [request EXCEPT ![h].caller = InferPrincipal(e), ![h].phase = "act"]
    BY <1>6 DEF VerifyTaskPrincipal
  <2>2. request[h] \in Request /\ request[h].phase = "verify" /\ Sound(request[h]) /\ task' = task
    BY <1>1, <1>6 DEF VerifyTaskPrincipal, storeVars
  <2>3. CASE request' = [request EXCEPT ![h] = None]
    BY <1>1, <2>3
  <2>4. CASE /\ request[h].id \in Existing /\ task[request[h].id].principal = InferPrincipal(e)
             /\ request' = [request EXCEPT ![h].caller = InferPrincipal(e), ![h].phase = "act"]
    <3>1. PICK p, t, m : p = InferPrincipal(e) /\ t = request[h].id /\ m = request[h].method
      OBVIOUS
    <3>2. request'[h].id = t /\ request'[h].caller = p /\ request'[h].phase = "act" /\ request'[h].method = m
      BY <1>1, <2>2, <2>4, <3>1 DEF Request
    <3>3. m \in {"get", "result", "cancel"} /\ t \in Tasks /\ task[t] # None /\ task[t].principal = p
      BY <2>2, <2>4, <3>1 DEF Sound, Fit
    <3> QED BY <2>2, <3>2, <3>3 DEF Sound, Fit, Owned
  <2> QED BY <2>1, <2>3, <2>4
<1>7. CASE CopyIds(h)
  <2>1. CASE Error(h, "denied")
    BY <1>2, <2>1 DEF Error
  <2>2. CASE ~Error(h, "denied")
    <3>1. PICK e \in load.environments : InferPrincipal(e) # None
            /\ request' = [request EXCEPT ![h].caller = InferPrincipal(e),
                               ![h].ids = index[RateLimitKey(InferPrincipal(e))], ![h].phase = "read"]
      BY <1>7, <2>2 DEF CopyIds
    <3>2. PICK c, ids : c = InferPrincipal(e) /\ ids = index[RateLimitKey(c)]
      OBVIOUS
    <3>3. c \in Principals /\ RateLimitKey(c) \in Keys
      BY <1>0, <3>1, <3>2, IdentityTypes DEF Keys
    <3>4. request[h] \in Request /\ request[h].phase = "infer" /\ request[h].method = "list" /\ task' = task
      BY <1>1, <1>7 DEF CopyIds, Sound, Fit, storeVars
    <3>5. request'[h].caller = c /\ request'[h].ids = ids /\ request'[h].phase = "read" /\ request'[h].method = "list"
      BY <1>1, <3>1, <3>2, <3>4 DEF Request
    <3>6. IsInjective(ids) /\ \A t \in ToSet(ids) : OfKey(t, RateLimitKey(c))
      BY <3>2, <3>3 DEF OwnersInv, IndexPlaced
    <3>7. \A t \in ToSet(ids) : OfKey(t, RateLimitKey(c))'
      BY <3>4, <3>6 DEF OfKey, Existing
    <3> QED BY <3>3, <3>5, <3>6, <3>7 DEF Sound, Fit, Copied
  <2> QED BY <2>1, <2>2
<1>8. CASE InitializeAnswered(h)
  <2>1. CASE Error(h, "upstream_error")
    BY <1>2, <2>1 DEF Error
  <2>2. ASSUME NEW doc \in Results, request' = [request EXCEPT ![h].doc = doc, ![h].phase = "tasks"]
        PROVE  Sound(request[h])'
    <3>1. request[h] \in Request /\ request[h].method = "initialize"
      BY <1>1, <1>8 DEF InitializeAnswered, Sound, Fit
    <3>2. request'[h].doc = doc /\ request'[h].phase = "tasks" /\ request'[h].method = "initialize"
      BY <1>1, <2>2, <3>1 DEF Request
    <3> QED BY <3>2 DEF Sound, Fit
  <2> QED BY <1>8, <2>1, <2>2 DEF InitializeAnswered
<1>9. CASE SetUpstreamSupportsTasks(h)
  <2>1. request[h] \in Request /\ request[h].method = "initialize" /\ request[h].doc \in Results
    BY <1>1, <1>9 DEF SetUpstreamSupportsTasks, Sound, Fit
  <2>2. PICK d : d = request[h].doc
    OBVIOUS
  <2>3. request'[h].phase = "sse" /\ request'[h].method = "initialize" /\ request'[h].doc = d
    BY <1>1, <1>9, <2>1, <2>2 DEF SetUpstreamSupportsTasks, Request
  <2> QED BY <2>1, <2>2, <2>3 DEF Sound, Fit
<1>10. CASE AddToIndex(h) \/ PassThrough(h) \/ HandleTasksGet(h) \/ HandleTasksResult(h) \/ ExecuteOnResult(h)
           \/ HandleTasksCancel(h) \/ ReadList(h) \/ SetUpstreamSupportsTaskSse(h)
  <2>1. request' = [request EXCEPT ![h] = None]
    BY <1>10 DEF AddToIndex, PassThrough, HandleTasksGet, HandleTasksResult, ExecuteOnResult,
                 HandleTasksCancel, ReadList, SetUpstreamSupportsTaskSse, Answer, Error
  <2> QED BY <1>1, <2>1
<1> QED BY <1>3, <1>4, <1>5, <1>6, <1>7, <1>8, <1>9, <1>10 DEF Arrive, HandlerStep

\* Only a request that makes a task has an id still to be placed.
LEMMA NewUnplaced ==
    ASSUME TypeOK, OwnersInv, NEW h \in Handlers, Arrive(h) \/ HandlerStep(h),
           request'[h] # None, request'[h].phase = "index"
    PROVE  request'[h].id \in Tasks /\ task[request'[h].id] = None
<1>0. request \in [Handlers -> Request \cup {None}]
  BY Zenon DEF TypeOK
<1>1. request \in [Handlers -> Request \cup {None}] /\ (request[h] # None => request[h] \in Request)
  BY ONLY <1>0, h \in Handlers
<1>2. CASE CreateTask(h)
  <2>1. PICK e \in load.environments, t \in FreshIds :
          request' = [request EXCEPT ![h].id = t, ![h].caller = EffectivePrincipal(e), ![h].phase = "index"]
    BY <1>2 DEF CreateTask
  <2>2. request[h] \in Request
    BY <1>1, <1>2 DEF CreateTask
  <2>3. request'[h].id = t
    BY <1>1, <2>1, <2>2 DEF Request
  <2>4. t \in Tasks /\ task[t] = None
    BY WorkloadsAssumption DEF FreshIds, TypeOK
  <2>5. request'[h].id \in Tasks
    BY ONLY <2>3, <2>4
  <2>6. task[request'[h].id] = None
    BY ONLY <2>3, <2>4
  <2> QED BY ONLY <2>5, <2>6, Zenon
<1>3. CASE ~CreateTask(h)
  <2>1. CASE Arrive(h)
    <3>1. PICK m, id, p : request' = [request EXCEPT ![h] = NewRequest(m, id, p)]
                          /\ p \in {"create", "forward", "infer", "verify", "upstream"}
      BY <2>1 DEF Arrive, CallTool, Initialize, TasksList, TaskRequest, Start
    <3>2. request'[h].phase = p
      BY <1>1, <3>1 DEF NewRequest
    <3> QED BY <3>1, <3>2
  <2>2. CASE VerifyTaskPrincipal(h) \/ CopyIds(h) \/ InitializeAnswered(h) \/ SetUpstreamSupportsTasks(h)
    <3>1. request[h] \in Request
      BY <1>1, <2>2 DEF VerifyTaskPrincipal, CopyIds, InitializeAnswered, SetUpstreamSupportsTasks
    <3>2. request'[h].phase \in {"act", "read", "tasks", "sse"}
      <4>1. CASE VerifyTaskPrincipal(h)
        BY <1>1, <3>1, <4>1 DEF VerifyTaskPrincipal, Request
      <4>2. CASE CopyIds(h)
        BY <1>1, <3>1, <4>2 DEF CopyIds, Request, Error, Answer
      <4>3. CASE InitializeAnswered(h)
        BY <1>1, <3>1, <4>3 DEF InitializeAnswered, Request, Error, Answer
      <4>4. CASE SetUpstreamSupportsTasks(h)
        BY <1>1, <3>1, <4>4 DEF SetUpstreamSupportsTasks, Request
      <4> QED BY <2>2, <4>1, <4>2, <4>3, <4>4
    <3> QED BY <3>2
  <2>3. CASE AddToIndex(h) \/ PassThrough(h) \/ HandleTasksGet(h) \/ HandleTasksResult(h) \/ ExecuteOnResult(h)
           \/ HandleTasksCancel(h) \/ ReadList(h) \/ SetUpstreamSupportsTaskSse(h)
    BY <1>1, <2>3 DEF AddToIndex, PassThrough, HandleTasksGet, HandleTasksResult, ExecuteOnResult,
                 HandleTasksCancel, ReadList, SetUpstreamSupportsTaskSse, Answer, Error
  <2> QED BY <1>3, <2>1, <2>2, <2>3 DEF HandlerStep
<1> QED BY <1>2, <1>3

\* Every step keeps what is true of requests and of the index.
LEMMA OwnersStep ==
    ASSUME TypeOK, OwnersInv, [Next]_vars
    PROVE  OwnersInv' /\ request' \in [Handlers -> Request \cup {None}]
<1>1. /\ IndexPlaced'
      /\ \A k \in Keys : \A t \in ToSet(index'[k]) :
                 t \in ToSet(index[k]) \/ \E h \in Handlers : AddToIndex(h) /\ t = request[h].id
  BY IndexSteps
<1>2. \A t \in Tasks : Kept(t)
  BY TaskSteps
<1>3. request \in [Handlers -> Request \cup {None}]
  BY DEF TypeOK
<1>4. ASSUME NEW g \in Handlers, request'[g] = request[g], request[g] # None
      PROVE  Sound(request[g])'
  <2>1. PICK r \in Request : r = request[g]
    BY <1>3, <1>4
  <2>2. Sound(r)
    BY <1>4, <2>1 DEF OwnersInv, RequestsSound
  <2>3. ASSUME r.phase = "index", NEW k \in Keys PROVE r.id \notin ToSet(index'[k])
    <3>1. SUFFICES ASSUME r.id \in ToSet(index'[k]) PROVE FALSE
      OBVIOUS
    <3>2. r.id \notin ToSet(index[k])
      BY <2>2, <2>3 DEF Sound, Unplaced
    <3>3. PICK h \in Handlers : AddToIndex(h) /\ r.id = request[h].id
      BY <1>1, <3>1, <3>2
    <3>4. In(h, {"index"}) /\ In(g, {"index"})
      BY <1>4, <2>1, <2>3, <3>3 DEF AddToIndex, In
    <3>5. g = h
      BY <2>1, <3>3, <3>4 DEF OwnersInv, OneEach
    <3>6. request'[h] = None
      BY <1>3, <3>3 DEF AddToIndex, Answer
    <3> QED BY <1>4, <3>5, <3>6
  <2>4. Sound(r)'
    BY <1>2, <2>2, <2>3, SoundStays
  <2> QED BY <1>4, <2>1, <2>4
<1>5. CASE request' = request
  BY <1>1, <1>3, <1>4, <1>5 DEF OwnersInv, RequestsSound, OneEach, In
<1>6. ASSUME NEW h \in Handlers, Arrive(h) \/ HandlerStep(h)
      PROVE  OwnersInv' /\ request' \in [Handlers -> Request \cup {None}]
  <2>1. PICK x : RequestOf(h, x)
    BY <1>6, HandlerRequests
  <2>2. /\ request' \in [Handlers -> Request \cup {None}]
        /\ request'[h] = x /\ \A g \in Handlers \ {h} : request'[g] = request[g]
    BY <2>1, OneRequest DEF RequestOf
  <2>3. RequestsSound'
    <3>1. request'[h] # None => Sound(request[h])'
      BY <1>6, NewSound
    <3>2. \A g \in Handlers \ {h} : request'[g] # None => Sound(request[g])'
      BY <1>4, <2>2
    <3> QED BY <3>1, <3>2 DEF RequestsSound
  <2>4. OneEach'
    <3>1. ASSUME NEW f \in Handlers, NEW g \in Handlers, In(f, {"index"})', In(g, {"index"})', f # g,
                 request'[f].id = request'[g].id
          PROVE  FALSE
      <4>1. CASE f # h /\ g # h
        BY <2>2, <3>1, <4>1 DEF OwnersInv, OneEach, In
      <4>2. ASSUME NEW a \in Handlers, a # h, In(a, {"index"})'
            PROVE  task[request'[a].id] # None
        BY <2>2, <4>2 DEF OwnersInv, RequestsSound, Sound, Unplaced, Owned, In
      <4>3. In(h, {"index"})' => task[request'[h].id] = None
        BY <1>6, NewUnplaced DEF In
      <4> QED BY <3>1, <4>1, <4>2, <4>3
    <3> QED BY <3>1 DEF OneEach
  <2> QED BY <1>1, <2>2, <2>3, <2>4 DEF OwnersInv
<1>7. CASE StoreStep \/ UNCHANGED vars
  <2>1. request' = request
    BY <1>7 DEF StoreStep, Move, RecordAutoApproveResult, RemoveTask, RetainIndex, vars
  <2> QED BY <1>5, <2>1
<1> QED BY <1>6, <1>7 DEF Next

-----------------------------------------------------------------------------
(* Replies *)

\* A reply that says nothing of a task to anybody.
LEMMA Harmless ==
    ASSUME \/ reply' = None
           \/ reply'.method \notin {"get", "result", "cancel"} /\ reply'.kind # "list"
           \/ reply'.kind = "forwarded"
    PROVE  IsolationExact'
BY DEF IsolationExact

\* The steps that act on a task for its verified owner.
LEMMA OwnerAnswered ==
    ASSUME TypeOK, OwnersInv, [Next]_vars, NEW h \in Handlers, request[h] # None, request[h].phase = "act",
           NEW kind, NEW entries, NEW doc, reply' = Reply(request[h], kind, entries, doc),
           kind # "list", request[h].id \in Existing => kind # "not_found"
    PROVE  IsolationExact'
<1>1. PICK r : r = request[h]
  OBVIOUS
<1>2. r \in Request /\ Sound(r)
  BY <1>1 DEF TypeOK, OwnersInv, RequestsSound
<1>3. r.id \in Tasks /\ task[r.id] # None /\ Owned(r.id, r.caller)
  BY <1>1, <1>2 DEF Sound
<1>4. r.id \in Existing' => r.id \in Existing /\ task'[r.id].principal = r.caller
  <2>1. Kept(r.id)
    BY <1>3, TaskSteps
  <2> QED BY <1>3, <2>1, StaysOwned DEF Owned
<1>5. reply'.id = r.id /\ reply'.caller = r.caller /\ reply'.kind = kind /\ reply'.method = r.method
  BY <1>1 DEF Reply
<1> QED BY <1>1, <1>4, <1>5 DEF IsolationExact

\* Every step answers the owner, and nobody else.
LEMMA IsolationStep ==
    ASSUME TypeOK, OwnersInv, IsolationExact, [Next]_vars
    PROVE  IsolationExact'
<1>1. ASSUME NEW h \in Handlers, request[h] # None
      PROVE  request[h] \in Request /\ Sound(request[h])
  BY <1>1 DEF TypeOK, OwnersInv, RequestsSound
<1>2. ASSUME NEW h \in Handlers, Acts(h, "get") \/ Acts(h, "result") \/ Acts(h, "cancel"),
             HandleTasksGet(h) \/ HandleTasksResult(h) \/ ExecuteOnResult(h) \/ HandleTasksCancel(h)
      PROVE  IsolationExact'
  <2>1. request[h] # None /\ request[h].phase = "act"
    BY <1>2 DEF Acts
  <2>2. PICK kind, entries : /\ reply' = Reply(request[h], kind, entries, None)
                             /\ kind # "list" /\ (request[h].id \in Existing => kind # "not_found")
    <3>1. CASE HandleTasksGet(h)
      BY <3>1 DEF HandleTasksGet, Answer, Error
    <3>2. CASE HandleTasksResult(h)
      <4>1. request[h].id \notin Existing => reply' = Reply(request[h], "not_found", {}, None)
        BY <3>2 DEF HandleTasksResult, Answer, Error
      <4>2. request[h].id \in Existing =>
              \E kind \in {"not_ready", "result", "failure", "rejected", "ended"} :
                  reply' = Reply(request[h], kind, {}, None)
        BY <3>2 DEF HandleTasksResult, Answer, Error, ResultOf, ErrorContent
      <4> QED BY <4>1, <4>2
    <3>3. CASE ExecuteOnResult(h)
      <4>1. request[h].id \notin Existing => reply' = Reply(request[h], "not_found", {}, None)
        BY <3>3 DEF ExecuteOnResult, Answer, Error
      <4>2. EngineAnswers(request[h].id) \subseteq {"not_ready", "result", "failure", "rejected", "ended"}
        BY DEF EngineAnswers, ErrorContent
      <4>3. request[h].id \in Existing =>
              \E kind \in {"not_ready", "result", "failure", "rejected", "ended"} :
                  reply' = Reply(request[h], kind, {}, None)
        BY <3>3, <4>2 DEF ExecuteOnResult, Answer
      <4> QED BY <4>1, <4>3
    <3>4. CASE HandleTasksCancel(h)
      BY <3>4 DEF HandleTasksCancel, Answer, Error
    <3> QED BY <1>2, <3>1, <3>2, <3>3, <3>4
  <2> QED BY <2>1, <2>2, OwnerAnswered
<1>3. ASSUME NEW h \in Handlers, VerifyTaskPrincipal(h) PROVE IsolationExact'
  <2>1. PICK e \in load.environments :
          \/ reply' = None
          \/ /\ InferPrincipal(e) = None \/ request[h].id \notin Existing
                   \/ task[request[h].id].principal # InferPrincipal(e)
             /\ reply' = Reply([request[h] EXCEPT !.caller = InferPrincipal(e)], "not_found", {}, None)
    BY <1>3 DEF VerifyTaskPrincipal
  <2>2. request[h] \in Request /\ task' = task
    BY <1>1, <1>3 DEF VerifyTaskPrincipal, storeVars
  <2>3. CASE reply' = None
    BY <2>3, Harmless
  <2>4. CASE /\ InferPrincipal(e) = None \/ request[h].id \notin Existing
                   \/ task[request[h].id].principal # InferPrincipal(e)
             /\ reply' = Reply([request[h] EXCEPT !.caller = InferPrincipal(e)], "not_found", {}, None)
    <3>1. PICK p, t : p = InferPrincipal(e) /\ t = request[h].id
      OBVIOUS
    <3>2. reply'.id = t /\ reply'.caller = p /\ reply'.kind = "not_found"
      BY <2>2, <2>4, <3>1 DEF Reply, Request
    <3>3. t \in Existing' => task'[t].principal # p
      <4>1. t \in Existing => task[t].principal \in Owners
        BY DEF TypeOK, Existing, TaskRecord
      <4>2. None \notin Owners
        BY NamesAssumption DEF Owners, Principals
      <4> QED BY <2>2, <2>4, <3>1, <4>1, <4>2 DEF Existing
    <3> QED BY <3>2, <3>3 DEF IsolationExact
  <2> QED BY <2>1, <2>3, <2>4
<1>4. ASSUME NEW h \in Handlers, ReadList(h) PROVE IsolationExact'
  <2>1. PICK r : r = request[h]
    OBVIOUS
  <2>2. r.phase = "read" /\ r.method = "list" /\ Copied(r)
    BY <1>1, <1>4, <2>1 DEF ReadList, Sound, Fit
  <2>3. PICK page : page = HandleTasksList(r.ids, walk.cursor)
    OBVIOUS
  <2>4. reply' = Reply(r, "list", {ListEntry(t) : t \in page.tasks}, None) /\ task' = task
    BY <1>4, <2>1, <2>3 DEF ReadList, Answer, storeVars
  <2>5. reply'.caller = r.caller /\ reply'.entries = {ListEntry(t) : t \in page.tasks} /\ reply'.method = "list"
    BY <2>2, <2>4 DEF Reply
  <2>6. page.tasks \subseteq Listed(r.ids)
    BY <2>3 DEF HandleTasksList, ListForPrincipal
  <2>7. \A e \in reply'.entries : RateLimitKey(task'[e.task].principal) = RateLimitKey(r.caller)
    <3> SUFFICES ASSUME NEW e \in reply'.entries PROVE RateLimitKey(task'[e.task].principal) = RateLimitKey(r.caller)
      OBVIOUS
    <3>1. PICK t \in page.tasks : e.task = t
      BY <2>5 DEF ListEntry
    <3>2. t \in ToSet(r.ids) /\ t \in Existing
      BY <2>6, <3>1 DEF Listed
    <3> QED BY <2>2, <2>4, <3>1, <3>2 DEF Copied, OfKey
  <2> QED BY <2>5, <2>7 DEF IsolationExact
<1>5. ASSUME NEW h \in Handlers, Arrive(h) PROVE reply' = None
  BY <1>5 DEF Arrive, CallTool, TasksList, Initialize, TaskRequest, Start
<1>6. ASSUME NEW h \in Handlers, AddToIndex(h) \/ PassThrough(h) \/ CopyIds(h) \/ InitializeAnswered(h)
                                  \/ SetUpstreamSupportsTaskSse(h)
      PROVE  IsolationExact'
  <2>1. Sound(request[h])
    BY <1>1, <1>6, Zenon DEF AddToIndex, PassThrough, CopyIds, InitializeAnswered, SetUpstreamSupportsTaskSse
  <2>2. \/ reply' = None
        \/ reply'.method = request[h].method /\ reply'.kind # "list"
           /\ (reply'.kind = "forwarded" \/ request[h].phase \in {"index", "infer", "forward", "sse"})
    <3>1. CASE reply' = None
      BY <3>1
    <3>2. CASE reply' # None
      <4>1. PICK kind \in {"created", "forwarded", "denied", "upstream_error", "initialized"} :
               /\ \E doc : Answer(h, kind, {}, doc)
               /\ kind = "forwarded" \/ request[h].phase \in {"index", "infer", "forward", "sse"}
        <5>1. CASE AddToIndex(h)
          BY <5>1 DEF AddToIndex
        <5>2. CASE PassThrough(h)
          BY <5>2 DEF PassThrough
        <5>3. CASE CopyIds(h)
          BY <3>2, <5>3 DEF CopyIds, Error
        <5>4. CASE InitializeAnswered(h)
          BY <3>2, <5>4 DEF InitializeAnswered, Error
        <5>5. CASE SetUpstreamSupportsTaskSse(h)
          BY <5>5 DEF SetUpstreamSupportsTaskSse
        <5> QED BY <1>6, <5>1, <5>2, <5>3, <5>4, <5>5
      <4>2. reply'.method = request[h].method /\ reply'.kind = kind
        BY <4>1 DEF Answer, Reply
      <4> QED BY <4>1, <4>2
    <3> QED BY <3>1, <3>2
  <2>3. request[h].phase \in {"index", "infer", "forward", "sse"} =>
           request[h].method \notin {"get", "result", "cancel"}
    BY <2>1 DEF Sound, Fit
  <2>4. \/ reply' = None
        \/ reply'.method \notin {"get", "result", "cancel"} /\ reply'.kind # "list"
        \/ reply'.kind = "forwarded"
    BY <2>2, <2>3
  <2> QED BY <2>4, Harmless, Zenon
<1>7. ASSUME NEW h \in Handlers, CreateTask(h) \/ SetUpstreamSupportsTasks(h) PROVE reply' = None
  BY <1>7 DEF CreateTask, SetUpstreamSupportsTasks
<1>8. StoreStep => reply' = None
  BY DEF StoreStep, Move, RecordAutoApproveResult, RemoveTask, RetainIndex
<1>9. ASSUME NEW h \in Handlers, HandlerStep(h) PROVE IsolationExact'
  <2>1. CASE HandleTasksGet(h) \/ HandleTasksResult(h) \/ ExecuteOnResult(h) \/ HandleTasksCancel(h)
    BY <1>2, <2>1 DEF HandleTasksGet, HandleTasksResult, ExecuteOnResult, HandleTasksCancel
  <2> QED BY <1>3, <1>4, <1>6, <1>7, <1>9, <2>1, Harmless DEF HandlerStep
<1>10. UNCHANGED vars => IsolationExact'
  BY DEF vars, IsolationExact, Existing
<1> QED BY <1>5, <1>8, <1>9, <1>10, Harmless DEF Next

-----------------------------------------------------------------------------
(* What has ended *)

\* What a step reports of a task is what the task then is.
Reported(entries) ==
    \A e \in entries : /\ e.task \in Existing' /\ e.status = Sep1686Status(task'[e.task].status)
                       /\ e.status \in WireTerminal => task'[e.task].status \in Terminal

\* A terminal status as the wire has it, and only a terminal one.
LEMMA WireStatus ==
    ASSUME NEW s \in Status
    PROVE  /\ Sep1686Status(s) \in WireTerminal => s \in Terminal
           /\ s \in Terminal => Sep1686Status(s) \in WireTerminal
           /\ s \in Terminal /\ Sep1686Status(s) = "cancelled" => s = "Cancelled"
           /\ s = "Cancelled" => Sep1686Status(s) = "cancelled"
BY DEF Status, Sep1686Status, WireTerminal, Terminal

\* What was shown of a task stays true of it.
LEMMA ShownStays ==
    ASSUME TypeOK, ShownTrue, [Next]_vars, NEW t \in Tasks, shown[t] # None, shown'[t] = shown[t]
    PROVE  task'[t] # None /\ (t \in Existing' => task'[t].status \in Terminal
                                                /\ Sep1686Status(task'[t].status) = shown'[t])
<1>1. Kept(t)
  BY TaskSteps
<1>2. task[t] # None /\ (t \in Existing => task[t].status \in Terminal /\ Sep1686Status(task[t].status) = shown[t])
  BY DEF ShownTrue
<1>3. task'[t] # None
  BY <1>1, <1>2, StaysOwned
<1>4. t \in Existing' => t \in Existing /\ task'[t].status = task[t].status
  BY <1>1, <1>2 DEF Kept, Existing
<1> QED BY <1>2, <1>3, <1>4

\* What a client is shown anew is true, when what is reported is.
LEMMA ShowKeeps ==
    ASSUME TypeOK, ShownTrue, [Next]_vars, NEW entries, Show(entries), Reported(entries)
    PROVE  ShownTrue' /\ shown' \in [Tasks -> WireTerminal \cup {None}]
<1>1. shown \in [Tasks -> WireTerminal \cup {None}]
  BY DEF TypeOK
<1>2. ASSUME NEW t \in Tasks
      PROVE  /\ shown'[t] \in WireTerminal \cup {None}
             /\ shown'[t] # None => /\ task'[t] # None
                                    /\ t \in Existing' => /\ task'[t].status \in Terminal
                                                          /\ Sep1686Status(task'[t].status) = shown'[t]
  <2>1. CASE shown[t] = None /\ \E e \in entries : e.task = t /\ e.status \in WireTerminal
    <3>1. PICK e \in entries : e = CHOOSE x \in entries : x.task = t
      BY <2>1
    <3>2. e.task = t
      BY <2>1, <3>1
    <3>3. shown'[t] = e.status
      BY <2>1, <3>1 DEF Show
    <3>4. t \in Existing' /\ e.status = Sep1686Status(task'[t].status)
      BY <3>2 DEF Reported
    <3>5. PICK f \in entries : f.task = t /\ f.status \in WireTerminal
      BY <2>1
    <3>6. f.status = e.status /\ task'[t].status \in Terminal
      BY <3>4, <3>5 DEF Reported
    <3>7. task'[t] # None
      BY <3>4 DEF Existing
    <3> QED BY <3>3, <3>4, <3>5, <3>6, <3>7
  <2>2. CASE ~(shown[t] = None /\ \E e \in entries : e.task = t /\ e.status \in WireTerminal)
    <3>1. shown'[t] = shown[t]
      BY <2>2 DEF Show
    <3> QED BY <1>1, <3>1, ShownStays
  <2> QED BY <2>1, <2>2
<1>3. shown' = [t \in Tasks |-> shown'[t]]
  BY DEF Show
<1> QED BY <1>2, <1>3 DEF ShownTrue

\* What a reply says of a task that was shown as ended.
Final(id, kind) ==
    (IF id \in Tasks THEN shown[id] # None ELSE FALSE) =>
        /\ kind \notin {"not_ready", "invalid_transition"}
        /\ kind = "already_terminal" => shown[id] # "cancelled"

\* Every answer reports tasks as they are, and is final about one that has ended.
AnsweredTrue(h) ==
    \E kind, entries, doc :
        /\ reply'.entries = entries /\ reply'.id = request[h].id /\ reply'.kind = kind
        /\ (shown' = shown /\ entries = {}) \/ Show(entries)
        /\ Reported(entries) /\ Final(request[h].id, kind)

\* Every answer of a handler is such a true one.
LEMMA AnswersTrue ==
    ASSUME TypeOK, OwnersInv, ShownTrue, [Next]_vars, NEW h \in Handlers, HandlerStep(h),
           reply' # None \/ shown' # shown
    PROVE  AnsweredTrue(h)
<1>1. request[h] # None => request[h] \in Request /\ Sound(request[h])
  BY DEF TypeOK, OwnersInv, RequestsSound
<1>2. \A t \in Existing : t \in Tasks /\ task[t] \in TaskRecord /\ task[t].status \in Status
  BY DEF TypeOK, Existing, TaskRecord
<1>3. \A t \in Tasks : shown[t] # None /\ t \in Existing =>
         task[t].status \in Terminal /\ Sep1686Status(task[t].status) = shown[t]
  BY DEF ShownTrue
<1>4. ASSUME NEW kind, NEW entries, NEW doc, Answer(h, kind, entries, doc),
             Reported(entries), Final(request[h].id, kind)
      PROVE  AnsweredTrue(h)
  <2>1. reply'.entries = entries /\ reply'.id = request[h].id /\ reply'.kind = kind /\ Show(entries)
    BY <1>4 DEF Answer, Reply
  <2> QED BY <1>4, <2>1 DEF AnsweredTrue
<1>5. Reported({})
  BY DEF Reported
<1>6. ASSUME NEW kind \in {"created", "forwarded", "denied", "upstream_error", "initialized", "not_found",
                           "metadata", "list", "cancelled", "result", "failure", "rejected", "ended"}
      PROVE  Final(request[h].id, kind)
  BY DEF Final
<1>7. CASE AddToIndex(h) \/ PassThrough(h) \/ CopyIds(h) \/ InitializeAnswered(h) \/ SetUpstreamSupportsTaskSse(h)
  <2>1. PICK kind \in {"created", "forwarded", "denied", "upstream_error", "initialized"} :
           \E doc : Answer(h, kind, {}, doc)
    <3>1. CASE AddToIndex(h)
      BY <3>1 DEF AddToIndex
    <3>2. CASE PassThrough(h)
      BY <3>2 DEF PassThrough
    <3>3. CASE CopyIds(h)
      BY <3>3 DEF CopyIds, Error
    <3>4. CASE InitializeAnswered(h)
      BY <3>4 DEF InitializeAnswered, Error
    <3>5. CASE SetUpstreamSupportsTaskSse(h)
      BY <3>5 DEF SetUpstreamSupportsTaskSse
    <3> QED BY <1>7, <3>1, <3>2, <3>3, <3>4, <3>5
  <2> QED BY <1>4, <1>5, <1>6, <2>1
<1>8. CASE VerifyTaskPrincipal(h)
  <2>1. PICK p : reply' = Reply([request[h] EXCEPT !.caller = p], "not_found", {}, None) /\ shown' = shown
    BY <1>8 DEF VerifyTaskPrincipal
  <2>2. request[h] \in Request
    BY <1>1, <1>8 DEF VerifyTaskPrincipal
  <2>3. [request[h] EXCEPT !.caller = p].id = request[h].id
    BY <2>2 DEF Request
  <2>4. reply'.entries = {} /\ reply'.id = request[h].id /\ reply'.kind = "not_found"
    BY <2>1, <2>3 DEF Reply
  <2> QED BY <1>5, <1>6, <2>1, <2>4 DEF AnsweredTrue
<1>9. CASE HandleTasksGet(h)
  <2>1. CASE request[h].id \notin Existing
    BY <1>4, <1>5, <1>6, <1>9, <2>1 DEF HandleTasksGet, Error
  <2>2. CASE request[h].id \in Existing
    <3>1. PICK t \in Existing : t = request[h].id
      BY <2>2
    <3>2. Answer(h, "metadata", {Metadata(t)}, None) /\ task' = task
      BY <1>9, <2>2, <3>1 DEF HandleTasksGet, storeVars
    <3>3. Metadata(t).task = t /\ Metadata(t).status = Sep1686Status(task[t].status)
      BY DEF Metadata
    <3>4. Reported({Metadata(t)})
      <4>1. Sep1686Status(task[t].status) \in WireTerminal => task[t].status \in Terminal
        BY <1>2, WireStatus
      <4> QED BY <3>2, <3>3, <4>1 DEF Reported, Existing
    <3> QED BY <1>4, <1>6, <3>2, <3>4
  <2> QED BY <2>1, <2>2
<1>10. CASE ReadList(h)
  <2>1. PICK tasks : Answer(h, "list", {ListEntry(t) : t \in tasks}, None) /\ tasks \subseteq Existing /\ task' = task
    <3>1. HandleTasksList(request[h].ids, walk.cursor).tasks \subseteq Existing
      BY DEF HandleTasksList, ListForPrincipal, Listed
    <3> QED BY <1>10, <3>1 DEF ReadList, storeVars
  <2>2. \A t \in tasks : ListEntry(t).task = t /\ ListEntry(t).status = Sep1686Status(task[t].status)
    BY DEF ListEntry
  <2>3. \A t \in tasks : t \in Existing /\ (Sep1686Status(task[t].status) \in WireTerminal => task[t].status \in Terminal)
    BY <1>2, <2>1, WireStatus
  <2>4. Reported({ListEntry(t) : t \in tasks})
    <3> SUFFICES ASSUME NEW t \in tasks
                 PROVE  /\ ListEntry(t).task \in Existing'
                        /\ ListEntry(t).status = Sep1686Status(task'[ListEntry(t).task].status)
                        /\ ListEntry(t).status \in WireTerminal => task'[ListEntry(t).task].status \in Terminal
      BY DEF Reported
    <3>1. t \in Existing'
      BY <2>1, <2>3 DEF Existing
    <3> QED BY <2>1, <2>2, <2>3, <3>1
  <2> QED BY <1>4, <1>6, <2>1, <2>4
<1>11. CASE HandleTasksResult(h)
  <2>1. PICK t : t = request[h].id
    OBVIOUS
  <2>2. CASE t \notin Existing
    BY <1>4, <1>5, <1>6, <1>11, <2>1, <2>2 DEF HandleTasksResult, Error
  <2>3. CASE t \in Existing /\ task[t].status \notin Terminal
    <3>1. Answer(h, "not_ready", {}, None)
      BY <1>11, <2>1, <2>3 DEF HandleTasksResult, Error
    <3>2. Final(t, "not_ready")
      BY <1>3, <2>3 DEF Final
    <3> QED BY <1>4, <1>5, <2>1, <3>1, <3>2
  <2>4. CASE t \in Existing /\ task[t].status \in Terminal
    <3>1. Answer(h, ResultOf(t), {}, None)
      BY <1>11, <2>1, <2>4 DEF HandleTasksResult
    <3>2. ResultOf(t) \in {"result", "failure", "rejected", "ended"}
      BY DEF ResultOf, ErrorContent
    <3> QED BY <1>4, <1>5, <1>6, <3>1, <3>2
  <2> QED BY <2>2, <2>3, <2>4
<1>12. CASE ExecuteOnResult(h)
  <2>1. PICK t : t = request[h].id
    OBVIOUS
  <2>2. CASE t \notin Existing
    BY <1>4, <1>5, <1>6, <1>12, <2>1, <2>2 DEF ExecuteOnResult, Error
  <2>3. CASE t \in Existing
    <3>1. PICK a \in EngineAnswers(t) : Answer(h, a, {}, None)
      BY <1>12, <2>1, <2>3 DEF ExecuteOnResult
    <3>2. a \in {"not_ready", "result", "failure", "rejected", "ended"}
          /\ (a = "not_ready" => task[t].status \in {"Working", "InputRequired"})
      BY DEF EngineAnswers, ErrorContent
    <3>3. CASE a # "not_ready"
      BY <1>4, <1>5, <1>6, <3>1, <3>2, <3>3
    <3>4. CASE a = "not_ready"
      <4>1. task[t].status \notin Terminal
        BY <3>2, <3>4 DEF Terminal
      <4>2. Final(t, "not_ready")
        BY <1>3, <2>3, <4>1 DEF Final
      <4> QED BY <1>4, <1>5, <2>1, <3>1, <3>4, <4>2
    <3> QED BY <3>3, <3>4
  <2> QED BY <2>2, <2>3
<1>13. CASE HandleTasksCancel(h)
  <2>1. PICK t : t = request[h].id
    OBVIOUS
  <2>2. CASE t \notin Existing
    BY <1>4, <1>5, <1>6, <1>13, <2>1, <2>2 DEF HandleTasksCancel, Error
  <2>3. CASE t \in Existing /\ task[t].status \in {"InputRequired", "Cancelled"}
    <3>1. Answer(h, "cancelled", {CancelResponse(t)}, None) /\ task' = [task EXCEPT ![t].status = "Cancelled"]
      BY <1>13, <2>1, <2>3 DEF HandleTasksCancel
    <3>2. PICK x : x = [task[t] EXCEPT !.status = "Cancelled"]
      OBVIOUS
    <3>3. x \in TaskRecord /\ x.status = "Cancelled"
      BY <1>2, <2>3, <3>2 DEF TaskRecord, Status
    <3>4. task'[t] = x /\ t \in Existing'
      BY <1>2, <2>3, <3>1, <3>2, <3>3, RecordIsTask DEF TypeOK, Existing
    <3>5. CancelResponse(t).task = t /\ CancelResponse(t).status = "cancelled"
      BY DEF CancelResponse
    <3>6. Reported({CancelResponse(t)})
      BY <3>3, <3>4, <3>5 DEF Reported, Sep1686Status, Terminal
    <3> QED BY <1>4, <1>6, <3>1, <3>6
  <2>4. CASE t \in Existing /\ task[t].status \notin {"InputRequired", "Cancelled"}
    <3>1. PICK kind : Answer(h, kind, {}, None)
             /\ kind = IF task[t].status \in Terminal THEN "already_terminal" ELSE "invalid_transition"
      BY <1>13, <2>1, <2>4 DEF HandleTasksCancel, Error
    <3>2. task[t].status \in Terminal => Sep1686Status(task[t].status) # "cancelled"
      BY <1>2, <2>4, WireStatus
    <3>3. Final(t, kind)
      BY <1>2, <1>3, <2>4, <3>1, <3>2 DEF Final
    <3> QED BY <1>4, <1>5, <2>1, <3>1, <3>3
  <2> QED BY <2>2, <2>3, <2>4
<1>14. CASE CreateTask(h) \/ SetUpstreamSupportsTasks(h)
  BY <1>14 DEF CreateTask, SetUpstreamSupportsTasks
<1> QED BY <1>7, <1>8, <1>9, <1>10, <1>11, <1>12, <1>13, <1>14 DEF HandlerStep

\* So what was shown is always true.
LEMMA ShownStep ==
    ASSUME TypeOK, OwnersInv, ShownTrue, [Next]_vars
    PROVE  ShownTrue' /\ shown' \in [Tasks -> WireTerminal \cup {None}]
<1>1. CASE shown' = shown
  BY <1>1, ShownStays DEF TypeOK, ShownTrue
<1>2. ASSUME NEW h \in Handlers, HandlerStep(h), shown' # shown
      PROVE  ShownTrue' /\ shown' \in [Tasks -> WireTerminal \cup {None}]
  <2>1. PICK entries : Show(entries) /\ Reported(entries)
    BY <1>2, AnswersTrue DEF AnsweredTrue
  <2> QED BY <2>1, ShowKeeps
<1>4. ASSUME NEW h \in Handlers, Arrive(h) PROVE shown' = shown
  BY <1>4 DEF Arrive, CallTool, TasksList, Initialize, TaskRequest
<1>5. StoreStep \/ UNCHANGED vars => shown' = shown
  BY DEF StoreStep, Move, RecordAutoApproveResult, RemoveTask, RetainIndex, vars
<1> QED BY <1>1, <1>2, <1>4, <1>5 DEF Next

-----------------------------------------------------------------------------
(* Places in an order *)

Rank(S, R, t) == Cardinality({u \in S : <<u, t>> \in R})
Ordered(S, R) ==
    /\ IsFiniteSet(S)
    /\ \A a \in S : <<a, a>> \notin R
    /\ \A a, b \in S : a # b => <<a, b>> \in R \/ <<b, a>> \in R
    /\ \A a, b, c \in S : <<a, b>> \in R /\ <<b, c>> \in R => <<a, c>> \in R

\* A rank in a finite set is a number.
LEMMA RankType ==
    ASSUME NEW S, IsFiniteSet(S), NEW R, NEW t
    PROVE  Rank(S, R, t) \in Nat /\ IsFiniteSet({u \in S : <<u, t>> \in R})
<1>1. {u \in S : <<u, t>> \in R} \in SUBSET S
  OBVIOUS
<1>2. IsFiniteSet({u \in S : <<u, t>> \in R})
  BY <1>1, FS_Subset
<1> QED BY <1>2, FS_CardinalityType DEF Rank

\* Who comes later has more before it.
LEMMA RankLess ==
    ASSUME NEW S, NEW R, Ordered(S, R), NEW a \in S, NEW b \in S, <<a, b>> \in R
    PROVE  Rank(S, R, a) < Rank(S, R, b)
<1>0. PICK A \in SUBSET S, B \in SUBSET S : A = {u \in S : <<u, a>> \in R} /\ B = {u \in S : <<u, b>> \in R}
  OBVIOUS
<1>1. IsFiniteSet(A) /\ IsFiniteSet(B) /\ Cardinality(A) \in Nat /\ Cardinality(B) \in Nat
  BY FS_Subset, FS_CardinalityType DEF Ordered
<1>2. a \notin A /\ A \cup {a} \in SUBSET B
  BY <1>0 DEF Ordered
<1>3. Cardinality(A \cup {a}) = Cardinality(A) + 1
  BY <1>1, <1>2, FS_AddElement
<1>4. Cardinality(A \cup {a}) <= Cardinality(B)
  BY <1>1, <1>2, FS_Subset
<1> QED BY <1>0, <1>1, <1>3, <1>4 DEF Rank

\* No two have the same rank.
LEMMA RankInjective ==
    ASSUME NEW S, NEW R, Ordered(S, R), NEW a \in S, NEW b \in S, Rank(S, R, a) = Rank(S, R, b)
    PROVE  a = b
<1>1. Rank(S, R, a) \in Nat /\ Rank(S, R, b) \in Nat
  BY RankType DEF Ordered
<1>2. SUFFICES ASSUME a # b PROVE FALSE
  OBVIOUS
<1>3. <<a, b>> \in R \/ <<b, a>> \in R
  BY <1>2 DEF Ordered
<1>4. Rank(S, R, a) < Rank(S, R, b) \/ Rank(S, R, b) < Rank(S, R, a)
  BY <1>3, RankLess
<1> QED BY <1>1, <1>4

\* Every place up to the last is taken.
LEMMA RankOnto ==
    ASSUME NEW S, NEW R, Ordered(S, R), NEW r \in 0 .. Cardinality(S) - 1
    PROVE  \E t \in S : Rank(S, R, t) = r
<1>1. IsFiniteSet(S) /\ Cardinality(S) \in Nat
  BY FS_CardinalityType DEF Ordered
<1>2. PICK n \in Nat : n = Cardinality(S)
  BY <1>1
<1>3. \A t \in S : Rank(S, R, t) \in 0 .. n - 1
  <2> SUFFICES ASSUME NEW t \in S PROVE Rank(S, R, t) \in 0 .. n - 1
    OBVIOUS
  <2>1. {u \in S : <<u, t>> \in R} \in SUBSET (S \ {t})
    BY DEF Ordered
  <2>2. IsFiniteSet(S \ {t}) /\ Cardinality(S \ {t}) = n - 1
    BY <1>1, <1>2, FS_RemoveElement
  <2>3. Rank(S, R, t) <= n - 1
    <3>1. Cardinality({u \in S : <<u, t>> \in R}) <= Cardinality(S \ {t})
      BY <2>1, <2>2, FS_Subset
    <3> QED BY <2>2, <3>1 DEF Rank
  <2>4. Rank(S, R, t) \in Nat
    BY <1>1, RankType
  <2> QED BY <2>3, <2>4
<1>4. PICK f : f = [t \in S |-> Rank(S, R, t)]
  OBVIOUS
<1>5. f \in [S -> 0 .. n - 1]
  BY <1>3, <1>4
<1>6. \A a, b \in S : f[a] = f[b] => a = b
  BY <1>4, RankInjective
<1>7. f \in Injection(S, 0 .. n - 1)
  BY <1>5, <1>6 DEF Injection, IsInjective
<1>8. IsFiniteSet(0 .. n - 1) /\ Cardinality(0 .. n - 1) = n
  BY FS_Interval
<1>9. f \in Surjection(S, 0 .. n - 1)
  BY <1>2, <1>7, <1>8, FS_Injection
<1>10. \E t \in S : f[t] = r
  BY <1>2, <1>9 DEF Surjection
<1> QED BY <1>4, <1>10

\* Asking for one more than a page tells whether there is more.
LEMMA MoreThanPage ==
    ASSUME NEW S, NEW R, Ordered(S, R), NEW o \in Nat, NEW n \in Nat, NEW t \in S, Rank(S, R, t) >= o + n
    PROVE  Cardinality({s \in S : Rank(S, R, s) \in o .. o + n}) > n
<1>1. IsFiniteSet(S) /\ Cardinality(S) \in Nat
  BY FS_CardinalityType DEF Ordered
<1>2. Rank(S, R, t) \in Nat /\ Rank(S, R, t) < Cardinality(S)
  <2>1. {u \in S : <<u, t>> \in R} \in SUBSET (S \ {t})
    BY DEF Ordered
  <2>2. IsFiniteSet(S \ {t}) /\ Cardinality(S \ {t}) = Cardinality(S) - 1
    BY <1>1, FS_RemoveElement
  <2>3. Rank(S, R, t) <= Cardinality(S) - 1
    <3>1. Cardinality({u \in S : <<u, t>> \in R}) <= Cardinality(S \ {t})
      BY <2>1, <2>2, FS_Subset
    <3> QED BY <2>2, <3>1 DEF Rank
  <2>4. Rank(S, R, t) \in Nat
    BY <1>1, RankType
  <2> QED BY <1>1, <2>3, <2>4
<1>3. PICK A : A = {s \in S : Rank(S, R, s) \in o .. o + n}
  OBVIOUS
<1>4. IsFiniteSet(A) /\ Cardinality(A) \in Nat
  <2>1. A \in SUBSET S
    BY <1>3
  <2> QED BY <1>1, <2>1, FS_Subset, FS_CardinalityType
<1>5. PICK f : f = [s \in A |-> Rank(S, R, s)]
  OBVIOUS
<1>6. f \in [A -> o .. o + n]
  BY <1>3, <1>5
<1>7. \A r \in o .. o + n : \E s \in A : f[s] = r
  <2> SUFFICES ASSUME NEW r \in o .. o + n PROVE \E s \in A : f[s] = r
    OBVIOUS
  <2>1. r \in 0 .. Cardinality(S) - 1
    BY <1>1, <1>2
  <2>2. PICK s \in S : Rank(S, R, s) = r
    BY <2>1, RankOnto
  <2> QED BY <1>3, <1>5, <2>2
<1>8. f \in Surjection(A, o .. o + n)
  BY <1>6, <1>7 DEF Surjection
<1>9. Cardinality(o .. o + n) <= Cardinality(A)
  BY <1>4, <1>8, FS_Surjection
<1>10. Cardinality(o .. o + n) = n + 1
  BY FS_Interval
<1> QED BY <1>3, <1>4, <1>9, <1>10

\* Taking one out moves at most one more of the others in front of a place.
LEMMA TakenOut ==
    ASSUME NEW S, NEW R, Ordered(S, R), NEW x, NEW Q,
           \A a, b \in S \ {x} : <<a, b>> \in R => <<a, b>> \in Q,
           NEW U \in SUBSET S, NEW o \in Nat,
           NEW N, \A u : u \in N <=> u \in U \ {x} /\ Rank(S \ {x}, Q, u) < o,
           NEW O, \A u : u \in O <=> u \in U /\ Rank(S, R, u) < o
    PROVE  IsFiniteSet(N) /\ IsFiniteSet(O) /\ Cardinality(N) <= Cardinality(O) + 1
<1>1. IsFiniteSet(S) /\ IsFiniteSet(S \ {x})
  BY FS_RemoveElement DEF Ordered
<1>2. ASSUME NEW u \in S \ {x} PROVE Rank(S, R, u) <= Rank(S \ {x}, Q, u) + 1
  <2>1. PICK A \in SUBSET S, B \in SUBSET (S \ {x}) :
            A = {v \in S : <<v, u>> \in R} /\ B = {v \in S \ {x} : <<v, u>> \in Q}
    OBVIOUS
  <2>2. A \in SUBSET (B \cup {x})
    BY <2>1
  <2>3. IsFiniteSet(B) /\ Cardinality(B) \in Nat
    BY <1>1, FS_Subset, FS_CardinalityType
  <2>4. IsFiniteSet(B \cup {x}) /\ Cardinality(B \cup {x}) = Cardinality(B) + 1
    <3>1. x \notin B
      OBVIOUS
    <3> QED BY <2>3, <3>1, FS_AddElement
  <2>5. Cardinality(A) <= Cardinality(B \cup {x})
    BY <2>2, <2>4, FS_Subset
  <2>6. Cardinality(A) \in Nat /\ Cardinality(B \cup {x}) \in Nat
    BY <1>1, <2>4, FS_Subset, FS_CardinalityType
  <2> QED BY <2>1, <2>3, <2>4, <2>5, <2>6 DEF Rank
<1>3. \A u \in S : Rank(S, R, u) \in Nat
  BY <1>1, RankType
<1>4. \A u \in S : Rank(S \ {x}, Q, u) \in Nat
  BY <1>1, RankType
<1>6. IsFiniteSet(N) /\ IsFiniteSet(O) /\ Cardinality(N) \in Nat /\ Cardinality(O) \in Nat
  <2>1. N \in SUBSET S /\ O \in SUBSET S
    OBVIOUS
  <2> QED BY <1>1, <2>1, FS_Subset, FS_CardinalityType
<1>7. \A u \in N : u \in O \/ (u \in S /\ Rank(S, R, u) = o)
  <2> SUFFICES ASSUME NEW u \in N, u \notin O PROVE u \in S /\ Rank(S, R, u) = o
    OBVIOUS
  <2>1. u \in U \ {x} /\ u \in S \ {x} /\ Rank(S \ {x}, Q, u) < o /\ ~(Rank(S, R, u) < o)
    OBVIOUS
  <2>2. PICK r \in Nat, q \in Nat : r = Rank(S, R, u) /\ q = Rank(S \ {x}, Q, u)
    BY <1>3, <1>4, <2>1
  <2>3. r <= q + 1 /\ q < o /\ ~(r < o)
    BY <1>2, <2>1, <2>2
  <2>4. r = o
    BY <2>3
  <2> QED BY <2>1, <2>2, <2>4
<1>8. CASE N \in SUBSET O
  <2>1. Cardinality(N) <= Cardinality(O)
    BY <1>6, <1>8, FS_Subset
  <2> QED BY <1>6, <2>1
<1>9. CASE ~(N \in SUBSET O)
  <2>1. PICK y \in N : y \notin O
    BY <1>9
  <2>2. N \in SUBSET (O \cup {y})
    <3> SUFFICES ASSUME NEW u \in N, u \notin O PROVE u = y
      OBVIOUS
    <3>1. u \in S /\ y \in S /\ Rank(S, R, u) = o /\ Rank(S, R, y) = o
      BY <1>7, <2>1
    <3> QED BY <3>1, RankInjective
  <2>3. IsFiniteSet(O \cup {y}) /\ Cardinality(O \cup {y}) = Cardinality(O) + 1
    BY <1>6, <2>1, FS_AddElement
  <2>4. Cardinality(N) <= Cardinality(O \cup {y})
    BY <2>2, <2>3, FS_Subset
  <2> QED BY <1>6, <2>3, <2>4
<1> QED BY <1>6, <1>8, <1>9

-----------------------------------------------------------------------------
(* Reading the list *)

TasksTyped == task \in [Tasks -> TaskRecord \cup {None, Gone}]
NewerPairs(ids) == {x \in Tasks \X Tasks : Newer(ids, x[1], x[2])}

\* A list has finitely many ids, all of tasks.
LEMMA ToSetFinite ==
    ASSUME NEW ids \in Seq(Tasks)
    PROVE  IsFiniteSet(ToSet(ids)) /\ ToSet(ids) \subseteq Tasks
<1>1. PICK n \in Nat : n = Len(ids) /\ DOMAIN ids = 1 .. n
  OBVIOUS
<1>2. ids \in Surjection(1 .. n, ToSet(ids))
  BY <1>1 DEF Surjection, ToSet
<1>3. IsFiniteSet(1 .. n)
  BY FS_Interval
<1>4. IsFiniteSet(ToSet(ids))
  BY <1>2, <1>3, FS_Surjection
<1>5. ToSet(ids) \subseteq Tasks
  BY <1>1 DEF ToSet
<1> QED BY <1>4, <1>5

ListsFinite ==
    \A ids \in Seq(Tasks) : IsFiniteSet(Listed(ids)) /\ Listed(ids) \subseteq Tasks /\ Listed(ids) \subseteq Existing
\* So has what is listed of it.
LEMMA ListedFinite == ListsFinite
<1> SUFFICES ASSUME NEW ids \in Seq(Tasks)
             PROVE  IsFiniteSet(Listed(ids)) /\ Listed(ids) \subseteq Tasks /\ Listed(ids) \subseteq Existing
  BY DEF ListsFinite
<1>1. Listed(ids) \in SUBSET ToSet(ids) /\ Listed(ids) \subseteq Existing
  BY DEF Listed
<1> QED BY <1>1, ToSetFinite, FS_Subset

\* The order of a list of different ids is a strict order of all of them.
LEMMA BeforeOrder ==
    ASSUME NEW ids \in Seq(Tasks), IsInjective(ids)
    PROVE  /\ \A a : ~Before(ids, a, a)
           /\ \A a, b \in ToSet(ids) : a # b => Before(ids, a, b) \/ Before(ids, b, a)
           /\ \A a, b, c : Before(ids, a, b) /\ Before(ids, b, c) => Before(ids, a, c)
<1>1. PICK n \in Nat : n = Len(ids) /\ DOMAIN ids = 1 .. n
  OBVIOUS
<1>2. \A j, k \in 1 .. n : ids[j] = ids[k] => j = k
  BY <1>1 DEF IsInjective
<1>3. \A a : ~Before(ids, a, a)
  BY <1>1, <1>2 DEF Before
<1>4. ASSUME NEW a \in ToSet(ids), NEW b \in ToSet(ids), a # b PROVE Before(ids, a, b) \/ Before(ids, b, a)
  <2>1. PICK j \in 1 .. n, k \in 1 .. n : ids[j] = a /\ ids[k] = b
    BY <1>1 DEF ToSet
  <2>2. j < k \/ k < j
    BY <1>4, <2>1
  <2> QED BY <1>1, <2>1, <2>2 DEF Before
<1>5. ASSUME NEW a, NEW b, NEW c, Before(ids, a, b), Before(ids, b, c) PROVE Before(ids, a, c)
  <2>1. PICK i \in 1 .. n, j \in 1 .. n : i < j /\ ids[i] = a /\ ids[j] = b
    BY <1>1, <1>5 DEF Before
  <2>2. PICK k \in 1 .. n, l \in 1 .. n : k < l /\ ids[k] = b /\ ids[l] = c
    BY <1>1, <1>5 DEF Before
  <2>3. i < l
    BY <1>2, <2>1, <2>2
  <2> QED BY <1>1, <2>1, <2>2, <2>3 DEF Before
<1> QED BY <1>3, <1>4, <1>5

ListsOrdered == TasksTyped => \A ids \in Seq(Tasks) : IsInjective(ids) => Ordered(Listed(ids), NewerPairs(ids))
\* What is listed is in one order.
LEMMA NewerOrder == ListsOrdered
<1> SUFFICES ASSUME TasksTyped, NEW ids \in Seq(Tasks), IsInjective(ids)
             PROVE  Ordered(Listed(ids), NewerPairs(ids))
  BY DEF ListsOrdered
<1>1. PICK S : S = Listed(ids)
  OBVIOUS
<1>2. IsFiniteSet(S) /\ S \subseteq Tasks /\ S \subseteq ToSet(ids) /\ \A a \in S : task[a].at \in Int
  <2>1. IsFiniteSet(S) /\ S \subseteq Tasks /\ S \subseteq ToSet(ids) /\ S \subseteq Existing
    BY <1>1, ListedFinite DEF ListsFinite, Listed
  <2>2. \A a \in S : task[a] \in TaskRecord
    BY <2>1 DEF TasksTyped, Existing
  <2> QED BY <2>1, <2>2, ApiAssumption DEF TaskRecord
<1>3. \A a, b \in S : <<a, b>> \in NewerPairs(ids) <=> Newer(ids, a, b)
  BY <1>2 DEF NewerPairs
<1>4. \A a \in S : ~Newer(ids, a, a)
  BY <1>2, BeforeOrder DEF Newer
<1>5. \A a, b \in S : a # b => Newer(ids, a, b) \/ Newer(ids, b, a)
  BY <1>2, BeforeOrder DEF Newer
<1>6. ASSUME NEW a \in S, NEW b \in S, NEW c \in S, Newer(ids, a, b), Newer(ids, b, c) PROVE Newer(ids, a, c)
  <2>1. Before(ids, a, b) /\ Before(ids, b, c) => Before(ids, a, c)
    BY BeforeOrder
  <2> QED BY <1>2, <1>6, <2>1 DEF Newer
<1> QED BY <1>1, <1>2, <1>3, <1>4, <1>5, <1>6 DEF Ordered

PlacesAreRanks ==
    \A ids \in Seq(Tasks), t \in Tasks :
        Place(ids, t) = Rank(Listed(ids), NewerPairs(ids), t) /\ Place(ids, t) \in Nat
\* The place of a task is its rank in that order.
LEMMA PlaceRank == PlacesAreRanks
<1> SUFFICES ASSUME NEW ids \in Seq(Tasks), NEW t \in Tasks
             PROVE  Place(ids, t) = Rank(Listed(ids), NewerPairs(ids), t) /\ Place(ids, t) \in Nat
  BY DEF PlacesAreRanks
<1>1. IsFiniteSet(Listed(ids)) /\ Listed(ids) \subseteq Tasks
  BY ListedFinite DEF ListsFinite
<1>2. {u \in Listed(ids) : Newer(ids, u, t)} = {u \in Listed(ids) : <<u, t>> \in NewerPairs(ids)}
  BY <1>1 DEF NewerPairs
<1>3. Place(ids, t) = Rank(Listed(ids), NewerPairs(ids), t)
  BY <1>2 DEF Place, Rank
<1> QED BY <1>1, <1>3, RankType

\* One process has one application name.
LEMMA SameKey ==
    ASSUME NEW p \in Principals, NEW q \in Principals
    PROVE  RateLimitKey(p) = RateLimitKey(q) /\ RateLimitKey(p) \in Keys
<1>1. PICK e \in Environments, f \in Environments :
        p = InferPrincipal(e) /\ q = InferPrincipal(f) /\ p # None /\ q # None
  BY DEF Principals
<1>2. e.dev = f.dev /\ e.hostname = f.hostname
  BY EnvironmentAssumption
<1>3. CASE e.dev
  BY <1>1, <1>2, <1>3 DEF InferPrincipal, Keys, Owners
<1>4. CASE ~e.dev
  <2>1. p.app = e.hostname /\ q.app = f.hostname
    BY <1>1, <1>2, <1>4 DEF InferPrincipal, KubernetesPrincipal
  <2> QED BY <1>2, <2>1 DEF RateLimitKey, Keys, Owners
<1> QED BY <1>3, <1>4

\* Only the sweep takes a task away, and nothing changes when it was made.
LEMMA Stays ==
    ASSUME TypeOK, [Next]_vars
    PROVE  /\ \A t \in Existing : ~RemoveTask(t) => t \in Existing' /\ task'[t].at = task[t].at
           /\ \A t \in Tasks : task[t] # None /\ t \in Existing' => t \in Existing /\ task'[t].at = task[t].at
           /\ \A t \in Tasks : task[t] = Gone => task'[t] = Gone
<1>1. \A t \in Tasks : Kept(t)
  BY TaskSteps
<1>2. ASSUME NEW t \in Existing, ~RemoveTask(t) PROVE t \in Existing' /\ task'[t].at = task[t].at
  BY <1>1, <1>2, RecordIsTask DEF Kept, Existing
<1>3. ASSUME NEW t \in Tasks, task[t] = Gone PROVE task'[t] = Gone
  BY <1>1, <1>3, NamesAssumption DEF Kept, Existing
<1> QED BY <1>1, <1>2, <1>3, StaysOwned

\* What there is keeps its entry and its order.
LEMMA IndexKeeps ==
    ASSUME TypeOK, OwnersInv, [Next]_vars, NEW k \in Keys
    PROVE  /\ \A t \in Existing' : t \in ToSet(index[k]) => t \in ToSet(index'[k])
           /\ \A a, b \in Existing' : Before(index[k], a, b) => Before(index'[k], a, b)
<1>1. index \in [Keys -> Seq(Tasks)] /\ IsInjective(index[k])
  BY DEF TypeOK, OwnersInv, IndexPlaced
<1>2. CASE index' = index
  BY <1>2
<1>3. ASSUME NEW h \in Handlers, AddToIndex(h)
      PROVE  /\ \A t \in Existing' : t \in ToSet(index[k]) => t \in ToSet(index'[k])
             /\ \A a, b \in Existing' : Before(index[k], a, b) => Before(index'[k], a, b)
  <2>1. PICK u \in Tasks, q \in Keys : index' = [index EXCEPT ![q] = Append(@, u)]
    <3>1. request[h].id \in Tasks /\ request[h].caller \in Owners
      BY <1>3 DEF AddToIndex, OwnersInv, RequestsSound, Sound, Unplaced
    <3>2. RateLimitKey(request[h].caller) \in Keys
      BY <3>1 DEF Keys
    <3> QED BY <1>3, <3>1, <3>2 DEF AddToIndex
  <2>2. index'[k] = index[k] \/ index'[k] = Append(index[k], u)
    BY <1>1, <2>1
  <2>3. /\ ToSet(Append(index[k], u)) = ToSet(index[k]) \cup {u}
        /\ \A a, b : Before(index[k], a, b) => Before(Append(index[k], u), a, b)
    BY <1>1, Appended
  <2> QED BY <2>2, <2>3
<1>4. ASSUME RetainIndex
      PROVE  /\ \A t \in Existing' : t \in ToSet(index[k]) => t \in ToSet(index'[k])
             /\ \A a, b \in Existing' : Before(index[k], a, b) => Before(index'[k], a, b)
  <2>1. PICK q \in Keys, u \in Tasks : q = sweeping.key /\ u = sweeping.task /\ task[u] = Gone
    BY <1>4 DEF RetainIndex, TypeOK
  <2>2. index' = [index EXCEPT ![q] = Retain(@, u)] /\ task' = task
    BY <1>4, <2>1 DEF RetainIndex
  <2>3. index'[k] = index[k] \/ index'[k] = Retain(index[k], u)
    BY <1>1, <2>2
  <2>4. /\ ToSet(Retain(index[k], u)) = ToSet(index[k]) \ {u}
        /\ \A a, b : a # u /\ b # u /\ Before(index[k], a, b) => Before(Retain(index[k], u), a, b)
    BY <1>1, Retained
  <2>5. u \notin Existing'
    BY <2>1, <2>2 DEF Existing
  <2> QED BY <2>3, <2>4, <2>5
<1> QED BY <1>2, <1>3, <1>4, IndexWriters

\* A list that has all it had, in its order, hides no more of it.
LEMMA FurtherBack ==
    ASSUME NEW S, NEW R, NEW T, IsFiniteSet(T), NEW Q, S \subseteq T, NEW t,
           \A u \in S : <<u, t>> \in R => <<u, t>> \in Q
    PROVE  Rank(S, R, t) <= Rank(T, Q, t)
<1>1. PICK A, B : A = {u \in S : <<u, t>> \in R} /\ B = {u \in T : <<u, t>> \in Q}
  OBVIOUS
<1>2. A \in SUBSET B /\ B \in SUBSET T
  BY <1>1
<1>3. Cardinality(A) <= Cardinality(B)
  BY <1>2, FS_Subset
<1> QED BY <1>1, <1>3 DEF Rank

\* A list that has all it had, in its order, lets nothing more slip by.
LEMMA ListingGrows ==
    ASSUME TypeOK, NEW ids \in Seq(Tasks), NEW new \in Seq(Tasks), Listing(ids), walk' = walk, IsFiniteSet(walk.removed),
           Listed(ids) \subseteq Listed(new)',
           \A a, b \in Listed(ids) : Newer(ids, a, b) => Newer(new, a, b)'
    PROVE  Listing(new)'
<1>1. Listed(ids) \subseteq Tasks /\ ToSee \subseteq Listed(ids)
  BY ListedFinite DEF ListsFinite, Listing, ToSee
<1>2. ListsFinite'
  BY ListedFinite, PTL
<1>3. PlacesAreRanks /\ PlacesAreRanks'
  BY PlaceRank, PTL
<1>4. ASSUME NEW t \in Listed(ids) PROVE Place(ids, t) <= Place(new, t)'
  <2>1. Place(ids, t) = Rank(Listed(ids), NewerPairs(ids), t)
        /\ Place(new, t)' = Rank(Listed(new)', NewerPairs(new)', t)
    BY <1>1, <1>3 DEF PlacesAreRanks
  <2>2. \A u \in Listed(ids) : <<u, t>> \in NewerPairs(ids) => <<u, t>> \in NewerPairs(new)'
    BY <1>1 DEF NewerPairs
  <2>3. PICK S, T, R, Q : S = Listed(ids) /\ T = Listed(new)' /\ R = NewerPairs(ids) /\ Q = NewerPairs(new)'
    OBVIOUS
  <2>4. IsFiniteSet(T)
    BY <1>2, <2>3 DEF ListsFinite
  <2> QED BY <2>1, <2>2, <2>3, <2>4, FurtherBack
<1>5. ToSee' = ToSee /\ ParseCursor(walk.cursor)' = ParseCursor(walk.cursor)
  BY DEF ToSee, ParseCursor
<1>6. Passed(new)' \in SUBSET Passed(ids)
  <2> SUFFICES ASSUME NEW t \in Passed(new)' PROVE t \in Passed(ids)
    OBVIOUS
  <2>1. t \in ToSee /\ Place(new, t)' < ParseCursor(walk.cursor) /\ ParseCursor(walk.cursor) \in Nat
    BY <1>5 DEF Passed, ParseCursor
  <2>2. Place(ids, t) \in Nat /\ Place(new, t)' \in Nat /\ Place(ids, t) <= Place(new, t)'
    BY <1>1, <1>3, <1>4, <2>1 DEF PlacesAreRanks
  <2> QED BY <2>1, <2>2 DEF Passed
<1>7. IsFiniteSet(Passed(ids)) /\ Cardinality(Passed(ids)) <= Cardinality(walk.removed)
  BY DEF Listing
<1>8. PICK A, B : A = Passed(ids) /\ B = Passed(new)'
  OBVIOUS
<1>9. IsFiniteSet(B) /\ Cardinality(B) <= Cardinality(A)
  BY <1>6, <1>7, <1>8, FS_Subset
<1>10. Cardinality(A) \in Nat /\ Cardinality(B) \in Nat /\ Cardinality(walk.removed) \in Nat
  BY <1>7, <1>8, <1>9, FS_CardinalityType
<1>11. Cardinality(B) <= Cardinality(walk'.removed)
  BY <1>7, <1>8, <1>9, <1>10
<1>12. (walk.must \ walk.removed)' \subseteq Listed(new)'
  BY DEF Listing
<1> QED BY <1>8, <1>9, <1>11, <1>12 DEF Listing

\* What is swept lets at most one more slip to the pages already read.
LEMMA ListingLoses ==
    ASSUME TypeOK, NEW x \in Tasks, RemoveTask(x), walk.phase = "reading",
           IsFiniteSet(walk.removed), \A t \in walk.removed : task[t] = Gone,
           NEW ids \in Seq(Tasks), IsInjective(ids), Listing(ids)
    PROVE  Listing(ids)'
<1>1. /\ task' = [task EXCEPT ![x] = Gone] /\ x \in Existing
      /\ walk' = [walk EXCEPT !.removed = @ \cup {x}]
  BY DEF RemoveTask
<1>2. Existing' = Existing \ {x} /\ \A t \in Existing \ {x} : task'[t] = task[t]
  BY <1>1 DEF Existing, TypeOK
<1>3. x \notin walk.removed
  BY <1>1, NamesAssumption DEF Existing
<1>4. /\ walk'.must = walk.must /\ walk'.seen = walk.seen /\ walk'.cursor = walk.cursor
      /\ walk'.removed = walk.removed \cup {x}
  BY <1>1 DEF TypeOK
<1>5. ToSee' = ToSee \ {x} /\ (walk.must \ walk.removed)' = (walk.must \ walk.removed) \ {x}
  BY <1>4 DEF ToSee
<1>6. Listed(ids)' = Listed(ids) \ {x}
  BY <1>2 DEF Listed
<1>7. PlacesAreRanks /\ PlacesAreRanks' /\ ListsOrdered /\ ListsFinite
  BY PlaceRank, NewerOrder, ListedFinite, PTL
<1>8a. PICK S, R, Q, U : S = Listed(ids) /\ R = NewerPairs(ids) /\ Q = NewerPairs(ids)' /\ U = ToSee
  OBVIOUS
<1>8b. PICK o \in Nat : o = ParseCursor(walk.cursor)
  BY DEF ParseCursor
<1>8. /\ S = Listed(ids) /\ R = NewerPairs(ids) /\ Q = NewerPairs(ids)'
      /\ o = ParseCursor(walk.cursor) /\ U = ToSee
  BY <1>8a, <1>8b
<1>9. Ordered(S, R) /\ S \subseteq Tasks /\ S \subseteq Existing /\ U \in SUBSET S
  BY <1>7, <1>8 DEF ListsOrdered, ListsFinite, TasksTyped, TypeOK, Listing, ToSee
<1>10. \A a, b \in S \ {x} : <<a, b>> \in R => <<a, b>> \in Q
  <2> SUFFICES ASSUME NEW a \in S \ {x}, NEW b \in S \ {x}, Newer(ids, a, b) PROVE Newer(ids, a, b)'
    BY <1>8, <1>9 DEF NewerPairs
  <2> QED BY <1>2, <1>9 DEF Newer, Before
<1>11. PICK new, old : /\ new = {u \in U \ {x} : Rank(S \ {x}, Q, u) < o}
                       /\ old = {u \in U : Rank(S, R, u) < o}
  OBVIOUS
<1>12. IsFiniteSet(new) /\ IsFiniteSet(old) /\ Cardinality(new) <= Cardinality(old) + 1
  <2>1. /\ \A u : u \in new <=> u \in U \ {x} /\ Rank(S \ {x}, Q, u) < o
        /\ \A u : u \in old <=> u \in U /\ Rank(S, R, u) < o
    BY <1>11
  <2> HIDE <1>11
  <2> QED BY <1>9, <1>10, <2>1, TakenOut
<1>13. Passed(ids) = old
  <2>1. \A u \in U : Place(ids, u) = Rank(S, R, u)
    BY <1>7, <1>8, <1>9 DEF PlacesAreRanks
  <2> QED BY <1>8, <1>11, <2>1 DEF Passed
<1>14. Passed(ids)' = new
  <2>1. \A u \in U : Place(ids, u)' = Rank(S \ {x}, Q, u)
    BY <1>6, <1>7, <1>8, <1>9 DEF PlacesAreRanks
  <2>2. ParseCursor(walk.cursor)' = o
    BY <1>4, <1>8 DEF ParseCursor
  <2> QED BY <1>5, <1>8, <1>11, <2>1, <2>2 DEF Passed
<1>15. Cardinality(walk'.removed) = Cardinality(walk.removed) + 1
  BY <1>3, <1>4, FS_AddElement
<1>16. Cardinality(walk.removed) \in Nat /\ Cardinality(new) \in Nat /\ Cardinality(old) \in Nat
  BY <1>12, FS_CardinalityType
<1>17. Cardinality(old) <= Cardinality(walk.removed)
  BY <1>13 DEF Listing
<1>18. (walk.must \ walk.removed)' \subseteq Listed(ids)'
  BY <1>5, <1>6 DEF Listing
<1> QED BY <1>12, <1>14, <1>15, <1>16, <1>17, <1>18 DEF Listing

\* The two kinds of lists stay so in every other step.
LEMMA ListingStays ==
    ASSUME TypeOK, OwnersInv, [Next]_vars, walk' = walk, \A t \in Tasks : ~RemoveTask(t), IsFiniteSet(walk.removed)
    PROVE  /\ \A k \in Keys : Listing(index[k]) => Listing(index[k])'
           /\ \A ids \in Seq(Tasks) : Listing(ids) => Listing(ids)'
<1>1. \A t \in Existing : t \in Existing' /\ task'[t].at = task[t].at
  BY Stays DEF Existing
<1>2. ASSUME NEW ids \in Seq(Tasks), NEW new \in Seq(Tasks), Listing(ids),
             \A t \in Existing : t \in ToSet(ids) => t \in ToSet(new),
             \A a, b \in Existing : Before(ids, a, b) => Before(new, a, b)
      PROVE  Listing(new)'
  <2>1. Listed(ids) \subseteq Listed(new)'
    BY <1>1, <1>2 DEF Listed
  <2>2. \A a, b \in Listed(ids) : Newer(ids, a, b) => Newer(new, a, b)'
    BY <1>1, <1>2 DEF Listed, Newer, Before
  <2> QED BY <1>2, <2>1, <2>2, ListingGrows
<1>3. ASSUME NEW k \in Keys, Listing(index[k]) PROVE Listing(index[k])'
  <2>1. PICK ids \in Seq(Tasks), new \in Seq(Tasks) : ids = index[k] /\ new = index'[k]
    BY IndexSteps DEF TypeOK
  <2>2. /\ \A t \in Existing : t \in ToSet(ids) => t \in ToSet(new)
        /\ \A a, b \in Existing : Before(ids, a, b) => Before(new, a, b)
    BY <1>1, <2>1, IndexKeeps
  <2>3. Listing(ids)
    BY <1>3, <2>1
  <2>4. Listing(new)'
    BY <1>2, <2>2, <2>3
  <2> QED BY <2>1, <2>4 
<1>4. ASSUME NEW ids \in Seq(Tasks), Listing(ids) PROVE Listing(ids)'
  BY <1>2, <1>4
<1> QED BY <1>3, <1>4

\* The ids that were copied stay in the index, in their order, while their tasks are there.
LEMMA FollowsStays ==
    ASSUME TypeOK, OwnersInv, [Next]_vars, NEW k \in Keys, NEW ids \in Seq(Tasks),
           \A t \in ToSet(ids) : task[t] # None, Follows(ids, k)
    PROVE  Follows(ids, k)'
<1>1. \A t \in ToSet(ids) : t \in Tasks /\ (t \in Existing' => t \in Existing)
  BY ToSetFinite, Stays
<1>2. \A a, b : Before(ids, a, b) => a \in ToSet(ids) /\ b \in ToSet(ids)
  BY DEF Before, ToSet
<1>3. Listed(ids)' \subseteq Listed(index[k])'
  BY <1>1, IndexKeeps DEF Listed, Follows
<1>4. \A a, b \in Existing' : Before(ids, a, b) => Before(index'[k], a, b)
  BY <1>1, <1>2, IndexKeeps DEF Follows
<1> QED BY <1>3, <1>4 DEF Follows, Before

\* Who has to do with the walk.
Reads(h) == In(h, {"infer", "read"})
Quiet ==
    /\ walk' = walk /\ \A t \in Tasks : ~RemoveTask(t)
    /\ \A h \in Handlers : Reads(h)' => request'[h] = request[h]

\* The steps that matter to a client that reads the list.
LEMMA WalkSteps ==
    ASSUME TypeOK, OwnersInv, [Next]_vars
    PROVE  \/ Quiet
           \/ \E t \in Tasks : RemoveTask(t)
           \/ \E h \in Handlers : TasksList(h) \/ CopyIds(h) \/ ReadList(h)
<1>1. SUFFICES ASSUME \A t \in Tasks : ~RemoveTask(t), \A h \in Handlers : ~TasksList(h) /\ ~CopyIds(h) /\ ~ReadList(h)
               PROVE  walk' = walk /\ \A h \in Handlers : Reads(h)' => request'[h] = request[h]
  BY DEF Quiet
<1>2. CASE UNCHANGED vars
  BY <1>2 DEF vars
<1>3. CASE StoreStep
  BY <1>1, <1>3 DEF StoreStep, Move, RecordAutoApproveResult, RetainIndex
<1>4. ASSUME NEW h \in Handlers, Arrive(h) \/ HandlerStep(h)
      PROVE  walk' = walk /\ \A g \in Handlers : Reads(g)' => request'[g] = request[g]
  <2>1. PICK x : RequestOf(h, x)
    BY <1>4, HandlerRequests
  <2>2. request'[h] = x /\ \A g \in Handlers \ {h} : request'[g] = request[g]
    BY <2>1, OneRequest DEF RequestOf
  <2>3. request \in [Handlers -> Request \cup {None}]
    BY DEF TypeOK
  <2>4. ASSUME NEW kind, NEW entries, NEW doc, Answer(h, kind, entries, doc) PROVE ~Reads(h)'
    BY <2>3, <2>4 DEF Answer, Reads, In
  <2>5. ASSUME NEW m, NEW id, NEW p, Start(h, m, id, p), p \notin {"infer", "read"} PROVE ~Reads(h)'
    BY <2>3, <2>5 DEF Start, NewRequest, Reads, In
  <2>6. ASSUME NEW p, request'[h].phase = p, p \notin {"infer", "read"} PROVE ~Reads(h)'
    BY <2>6 DEF Reads, In
  <2>7. CASE CallTool(h) \/ Initialize(h)
    BY <2>2, <2>5, <2>7 DEF CallTool, Initialize
  <2>8. ASSUME NEW m, TaskRequest(h, m) PROVE walk' = walk /\ ~Reads(h)'
    <3>1. PICK id \in Tasks \cup {ForeignId, None}, p \in {"verify", "upstream"} : Start(h, m, id, p)
      BY <2>8 DEF TaskRequest
    <3> QED BY <2>5, <2>8, <3>1 DEF TaskRequest
  <2>9. CASE AddToIndex(h) \/ PassThrough(h) \/ HandleTasksGet(h) \/ HandleTasksResult(h) \/ ExecuteOnResult(h)
             \/ HandleTasksCancel(h) \/ SetUpstreamSupportsTaskSse(h)
    <3>1. walk' = walk /\ \E kind, entries, doc : Answer(h, kind, entries, doc)
      BY <2>9 DEF AddToIndex, PassThrough, HandleTasksGet, HandleTasksResult, ExecuteOnResult,
                  HandleTasksCancel, SetUpstreamSupportsTaskSse, Error
    <3> QED BY <2>2, <2>4, <3>1
  <2>10. ASSUME CreateTask(h) \/ VerifyTaskPrincipal(h) \/ InitializeAnswered(h) \/ SetUpstreamSupportsTasks(h)
         PROVE  walk' = walk /\ ~Reads(h)'
    <3>0. request[h] # None /\ request[h] \in Request
      BY <2>3, <2>10 DEF CreateTask, VerifyTaskPrincipal, InitializeAnswered, SetUpstreamSupportsTasks
    <3>1. ASSUME CreateTask(h) PROVE request'[h].phase = "index"
      <4>1. PICK e \in load.environments, t \in FreshIds :
              request' = [request EXCEPT ![h].id = t, ![h].caller = EffectivePrincipal(e), ![h].phase = "index"]
        BY <3>1, Zenon DEF CreateTask
      <4>2. PICK p : p = EffectivePrincipal(e)
        OBVIOUS
      <4> QED BY <2>3, <3>0, <4>1, <4>2 DEF Request
    <3>2. ASSUME VerifyTaskPrincipal(h) PROVE request'[h] = None \/ request'[h].phase = "act"
      <4>1. PICK c : request' = [request EXCEPT ![h] = None]
                     \/ request' = [request EXCEPT ![h].caller = c, ![h].phase = "act"]
        BY <3>2 DEF VerifyTaskPrincipal
      <4> QED BY <2>3, <3>0, <4>1 DEF Request
    <3>3. ASSUME InitializeAnswered(h) PROVE request'[h] = None \/ request'[h].phase = "tasks"
      <4>1. PICK d : request' = [request EXCEPT ![h] = None]
                     \/ request' = [request EXCEPT ![h].doc = d, ![h].phase = "tasks"]
        BY <3>3 DEF InitializeAnswered, Error, Answer
      <4> QED BY <2>3, <3>0, <4>1 DEF Request
    <3>4. ASSUME SetUpstreamSupportsTasks(h) PROVE request'[h].phase = "sse"
      BY <2>3, <3>0, <3>4 DEF SetUpstreamSupportsTasks, Request
    <3>5. walk' = walk
      BY <2>10 DEF CreateTask, VerifyTaskPrincipal, InitializeAnswered, SetUpstreamSupportsTasks
    <3> QED BY <2>10, <3>1, <3>2, <3>3, <3>4, <3>5 DEF Reads, In
  <2> QED BY <1>1, <1>4, <2>2, <2>7, <2>8, <2>9, <2>10 DEF Arrive, HandlerStep
<1> QED BY <1>2, <1>3, <1>4 DEF Next

WalkType ==
    walk \in [phase : {"none", "reading", "failed", "complete"}, cursor : Nat \cup {None}, seen : SUBSET Tasks,
              must : SUBSET Tasks, removed : SUBSET Tasks, missed : Nat, swept : Nat]

\* All other steps keep what is true of the walk.
LEMMA WalkQuiet ==
    ASSUME TypeOK, OwnersInv, WalkInv, [Next]_vars, Quiet
    PROVE  WalkInv' /\ WalkType'
<1>1. WalkType' /\ WalkMissesOnlySwept' /\ IsFiniteSet(walk'.removed)
  BY DEF WalkType, TypeOK, Quiet, WalkInv, WalkMissesOnlySwept
<1>2. \A t \in walk'.removed : task'[t] = Gone
  BY Stays DEF Quiet, WalkInv, TypeOK
<1>3. \A g, h \in Handlers : Reads(g)' /\ Reads(h)' => g = h
  BY DEF Quiet, WalkInv, Reads, In
<1>4. \A h \in Handlers : Reads(h)' => walk'.phase = "reading"
  BY DEF Quiet, WalkInv, Reads, In
<1>5. ASSUME walk'.phase = "reading", NEW p \in Principals PROVE Listing(index[RateLimitKey(p)])'
  <2>1. RateLimitKey(p) \in Keys /\ Listing(index[RateLimitKey(p)])
    BY <1>5, SameKey DEF Quiet, WalkInv
  <2> QED BY <2>1, ListingStays DEF Quiet, WalkInv
<1>6. ASSUME NEW h \in Handlers, In(h, {"read"})'
      PROVE  Listing(request[h].ids)' /\ Follows(request[h].ids, RateLimitKey(request[h].caller))'
  <2>1. request'[h] = request[h] /\ In(h, {"read"})
    BY <1>6 DEF Quiet, Reads, In
  <2>2. PICK r \in Request : r = request[h]
    BY <2>1 DEF In, TypeOK
  <2>3. Listing(r.ids) /\ Follows(r.ids, RateLimitKey(r.caller))
    BY <2>1, <2>2 DEF WalkInv
  <2>4. r.ids \in Seq(Tasks) /\ RateLimitKey(r.caller) \in Keys /\ \A t \in ToSet(r.ids) : task[t] # None
    <3>1. Copied(r)
      BY <2>1, <2>2 DEF In, OwnersInv, RequestsSound, Sound
    <3> QED BY <3>1, SameKey DEF Copied, Request, OfKey
  <2>5. Listing(r.ids)'
    BY <2>3, <2>4, ListingStays DEF Quiet, WalkInv
  <2>6. Follows(r.ids, RateLimitKey(r.caller))'
    BY <2>3, <2>4, FollowsStays
  <2> QED BY <2>1, <2>2, <2>5, <2>6
<1> QED BY <1>1, <1>2, <1>3, <1>4, <1>5, <1>6 DEF WalkInv, Reads

\* So does a sweep.
LEMMA WalkRemoves ==
    ASSUME TypeOK, OwnersInv, WalkInv, [Next]_vars, NEW x \in Tasks, RemoveTask(x)
    PROVE  WalkInv' /\ WalkType'
<1>1. /\ index' = index /\ request' = request /\ task' = [task EXCEPT ![x] = Gone] /\ x \in Existing
      /\ walk' = [walk EXCEPT !.removed = IF walk.phase = "reading" THEN @ \cup {x} ELSE @]
  BY DEF RemoveTask
<1>2. /\ WalkType' /\ walk'.phase = walk.phase /\ walk'.missed = walk.missed /\ walk'.swept = walk.swept
      /\ walk'.removed \subseteq walk.removed \cup {x}
  BY <1>1 DEF WalkType, TypeOK
<1>3. IsFiniteSet(walk'.removed)
  <2>1. IsFiniteSet(walk.removed \cup {x})
    BY FS_AddElement DEF WalkInv
  <2> QED BY <1>2, <2>1, FS_Subset
<1>4. \A t \in walk'.removed : task'[t] = Gone
  BY <1>1, <1>2, Stays DEF WalkInv, TypeOK
<1>5. /\ \A g, h \in Handlers : Reads(g)' /\ Reads(h)' => g = h
      /\ \A h \in Handlers : Reads(h)' => walk'.phase = "reading"
      /\ WalkMissesOnlySwept'
  BY <1>1, <1>2 DEF WalkInv, Reads, In, WalkMissesOnlySwept
<1>6. ASSUME walk.phase = "reading", NEW ids \in Seq(Tasks), IsInjective(ids), Listing(ids) PROVE Listing(ids)'
  BY <1>6, ListingLoses DEF WalkInv
<1>7. ASSUME walk'.phase = "reading", NEW p \in Principals PROVE Listing(index[RateLimitKey(p)])'
  <2>1. RateLimitKey(p) \in Keys /\ Listing(index[RateLimitKey(p)])
    BY <1>2, <1>7, SameKey DEF WalkInv
  <2>2. PICK ids \in Seq(Tasks) : ids = index[RateLimitKey(p)]
    BY <2>1 DEF TypeOK
  <2>3. IsInjective(ids) /\ Listing(ids)
    BY <2>1, <2>2 DEF OwnersInv, IndexPlaced
  <2>4. Listing(ids)'
    BY <1>2, <1>6, <1>7, <2>3
  <2> QED BY <1>1, <2>2, <2>4
<1>8. ASSUME NEW h \in Handlers, In(h, {"read"})'
      PROVE  Listing(request[h].ids)' /\ Follows(request[h].ids, RateLimitKey(request[h].caller))'
  <2>1. request'[h] = request[h] /\ In(h, {"read"}) /\ walk.phase = "reading"
    BY <1>1, <1>8 DEF In, WalkInv
  <2>2. PICK r \in Request : r = request[h]
    BY <2>1 DEF In, TypeOK
  <2>3. Listing(r.ids) /\ Follows(r.ids, RateLimitKey(r.caller))
    BY <2>1, <2>2 DEF WalkInv
  <2>4. /\ r.ids \in Seq(Tasks) /\ IsInjective(r.ids)
        /\ RateLimitKey(r.caller) \in Keys /\ \A t \in ToSet(r.ids) : task[t] # None
    <3>1. Copied(r)
      BY <2>1, <2>2 DEF In, OwnersInv, RequestsSound, Sound
    <3> QED BY <3>1, SameKey DEF Copied, Request, OfKey
  <2>5. Listing(r.ids)'
    BY <1>6, <2>1, <2>3, <2>4
  <2>6. Follows(r.ids, RateLimitKey(r.caller))'
    BY <2>3, <2>4, FollowsStays
  <2> QED BY <2>1, <2>2, <2>5, <2>6
<1> QED BY <1>2, <1>3, <1>4, <1>5, <1>7, <1>8 DEF WalkInv, Reads

\* A client begins: nothing is passed yet.
LEMMA WalkBegins ==
    ASSUME TypeOK, OwnersInv, WalkInv, [Next]_vars, NEW h \in Handlers, TasksList(h)
    PROVE  WalkInv' /\ WalkType'
<1>1. /\ index' = index /\ task' = task /\ request' = [request EXCEPT ![h] = NewRequest("list", None, "infer")]
      /\ \A g \in Handlers : request[g] # None => request[g].method # "list"
      /\ walk' = IF walk.phase = "reading" THEN walk
                 ELSE [NoWalk EXCEPT !.phase = "reading",
                                     !.must = Existing \cap UNION {ToSet(index[RateLimitKey(p)]) : p \in Principals}]
  BY DEF TasksList, Start, storeVars
<1>2. \A g \in Handlers : ~Reads(g)
  BY <1>1 DEF Reads, In, OwnersInv, RequestsSound, Sound, Fit
<1>3. request'[h] = NewRequest("list", None, "infer") /\ \A g \in Handlers \ {h} : request'[g] = request[g]
  BY <1>1 DEF TypeOK
<1>4. \A g \in Handlers : (Reads(g)' => g = h) /\ ~In(g, {"read"})'
  <2>1. request'[h].phase = "infer"
    BY <1>3 DEF NewRequest
  <2> QED BY <1>2, <1>3, <2>1 DEF Reads, In
<1>5. CASE walk.phase = "reading"
  <2>1. walk' = walk /\ \A t \in Tasks : ~RemoveTask(t)
    BY <1>1, <1>5 DEF RemoveTask, Existing, TypeOK
  <2>2. WalkType' /\ WalkMissesOnlySwept' /\ IsFiniteSet(walk'.removed) /\ \A t \in walk'.removed : task'[t] = Gone
    BY <1>1, <2>1 DEF WalkType, TypeOK, WalkInv, WalkMissesOnlySwept
  <2>3. \A p \in Principals : Listing(index[RateLimitKey(p)])'
    BY <1>1, <1>5, <2>1, SameKey, ListingStays DEF WalkInv
  <2> QED BY <1>4, <1>5, <2>1, <2>2, <2>3 DEF WalkInv, Reads
<1>6. CASE walk.phase # "reading"
  <2>1. PICK must : must = Existing \cap UNION {ToSet(index[RateLimitKey(p)]) : p \in Principals}
    OBVIOUS
  <2>2. must \subseteq Tasks
    BY <2>1 DEF Existing
  <2>3. walk' = [phase |-> "reading", cursor |-> None, seen |-> {}, must |-> must, removed |-> {}, missed |-> 0, swept |-> 0]
    BY <1>1, <1>6, <2>1 DEF NoWalk
  <2>4. WalkType' /\ WalkMissesOnlySwept' /\ IsFiniteSet(walk'.removed)
    BY <2>2, <2>3, FS_EmptySet DEF WalkType, WalkMissesOnlySwept
  <2>5. ASSUME NEW p \in Principals PROVE Listing(index[RateLimitKey(p)])'
    <3>1. PICK ids \in Seq(Tasks) : ids = index[RateLimitKey(p)]
      BY SameKey DEF TypeOK
    <3>2. must \subseteq Listed(ids)'
      BY <1>1, <2>1, <3>1, SameKey DEF Listed, Existing
    <3>3. ParseCursor(walk.cursor)' = 0
      BY <2>3, NamesAssumption DEF ParseCursor
    <3>4. PlacesAreRanks'
      BY PlaceRank, PTL
    <3>5. ToSee' \subseteq Tasks
      BY <2>2, <2>3 DEF ToSee
    <3>6. Passed(ids)' = {}
      BY <3>3, <3>4, <3>5 DEF Passed, PlacesAreRanks
    <3>7. Listing(ids)'
      BY <2>3, <3>2, <3>6, FS_EmptySet DEF Listing
    <3> QED BY <1>1, <3>1, <3>7
  <2> QED BY <1>4, <2>3, <2>4, <2>5 DEF WalkInv, Reads
<1> QED BY <1>5, <1>6

\* The ids are copied, or the client is refused.
LEMMA WalkCopies ==
    ASSUME TypeOK, OwnersInv, WalkInv, [Next]_vars, NEW h \in Handlers, CopyIds(h)
    PROVE  WalkInv' /\ WalkType'
<1>1. index' = index /\ task' = task /\ request[h] # None /\ request[h].phase = "infer"
  BY DEF CopyIds, storeVars
<1>2. \A g \in Handlers : Reads(g) => g = h
  BY <1>1 DEF WalkInv, Reads, In
<1>3. CASE Error(h, "denied") /\ walk' = [NoWalk EXCEPT !.phase = "failed"]
  <2>1. walk' = [phase |-> "failed", cursor |-> None, seen |-> {}, must |-> {}, removed |-> {}, missed |-> 0, swept |-> 0]
    BY <1>3 DEF NoWalk
  <2>2. WalkType' /\ WalkMissesOnlySwept' /\ IsFiniteSet(walk'.removed)
    BY <2>1, FS_EmptySet DEF WalkType, WalkMissesOnlySwept
  <2>3. request' = [request EXCEPT ![h] = None]
    BY <1>3 DEF Error, Answer
  <2>4. \A g \in Handlers : ~Reads(g)'
    BY <1>2, <2>3 DEF Reads, In, TypeOK
  <2> QED BY <2>1, <2>2, <2>4 DEF WalkInv, Reads, In
<1>4. CASE ~(Error(h, "denied") /\ walk' = [NoWalk EXCEPT !.phase = "failed"])
  <2>1. PICK e \in load.environments : InferPrincipal(e) # None /\ walk' = walk
          /\ request' = [request EXCEPT ![h].caller = InferPrincipal(e),
                             ![h].ids = index[RateLimitKey(InferPrincipal(e))], ![h].phase = "read"]
    BY <1>4 DEF CopyIds
  <2>2. PICK p \in Principals : p = InferPrincipal(e)
    BY <2>1, WorkloadsAssumption, IdentityTypes DEF TypeOK
  <2>3. PICK ids \in Seq(Tasks) : ids = index[RateLimitKey(p)]
    BY SameKey DEF TypeOK
  <2>4. /\ request'[h].ids = ids /\ request'[h].caller = p
        /\ \A g \in Handlers \ {h} : request'[g] = request[g]
    BY <1>1, <2>1, <2>2, <2>3 DEF TypeOK, Request
  <2>5. walk.phase = "reading"
    BY <1>1 DEF WalkInv, In
  <2>6. \A t \in Tasks : ~RemoveTask(t)
    BY <1>1 DEF RemoveTask, Existing, TypeOK
  <2>7. WalkType' /\ WalkMissesOnlySwept' /\ IsFiniteSet(walk'.removed) /\ \A t \in walk'.removed : task'[t] = Gone
    BY <1>1, <2>1 DEF WalkType, TypeOK, WalkInv, WalkMissesOnlySwept
  <2>8. \A q \in Principals : Listing(index[RateLimitKey(q)])'
    BY <2>1, <2>5, <2>6, SameKey, ListingStays DEF WalkInv
  <2>9. Listing(ids)'
    BY <1>1, <2>3, <2>8
  <2>10. Follows(ids, RateLimitKey(p))'
    BY <1>1, <2>3 DEF Follows
  <2>11. \A g \in Handlers : Reads(g)' => g = h
    BY <1>2, <2>4 DEF Reads, In
  <2>12. \A g \in Handlers : In(g, {"read"})' => g = h
    BY <2>11 DEF Reads, In
  <2>13. \A g \in Handlers : In(g, {"read"})' =>
            Listing(request[g].ids)' /\ Follows(request[g].ids, RateLimitKey(request[g].caller))'
    BY <2>4, <2>9, <2>10, <2>12
  <2> QED BY <2>1, <2>5, <2>7, <2>8, <2>11, <2>13 DEF WalkInv, Reads
<1> QED BY <1>3, <1>4

\* A page is what is listed from the cursor on; where it is the last, nothing is
\* listed after it.
LEMMA PageTasks ==
    ASSUME TypeOK, NEW ids \in Seq(Tasks), IsInjective(ids), NEW cursor \in Nat \cup {None},
           NEW o, o = ParseCursor(cursor), NEW page, page = HandleTasksList(ids, cursor)
    PROVE  /\ o \in Nat
           /\ page.tasks \subseteq Tasks
           /\ \A t \in Listed(ids) : t \in page.tasks <=> o <= Place(ids, t) /\ Place(ids, t) < o + PageSize
           /\ page.next \in {None, o + PageSize}
           /\ page.next = None => \A t \in Listed(ids) : Place(ids, t) < o + PageSize
<1>1. o \in Nat /\ PageSize \in Nat
  BY ApiAssumption DEF ParseCursor
<1>2. PICK S, R : S = Listed(ids) /\ R = NewerPairs(ids)
  OBVIOUS
<1>3. Ordered(S, R) /\ S \subseteq Tasks /\ \A t \in S : Place(ids, t) = Rank(S, R, t) /\ Place(ids, t) \in Nat
  <2>1. ListsOrdered /\ ListsFinite /\ PlacesAreRanks
    BY NewerOrder, ListedFinite, PlaceRank
  <2> QED BY <1>2, <2>1 DEF ListsOrdered, ListsFinite, PlacesAreRanks, TasksTyped, TypeOK
<1>4. PICK more : more = {t \in S : Place(ids, t) \in o .. o + PageSize}
  OBVIOUS
<1>5. ListForPrincipal(ids, o, PageSize + 1) = more
  <2>1. o + (PageSize + 1) - 1 = o + PageSize
    BY <1>1
  <2> QED BY <1>2, <1>4, <2>1 DEF ListForPrincipal
<1>6. page = [tasks |-> {t \in more : Place(ids, t) < o + PageSize},
              next |-> IF Cardinality(more) > PageSize THEN o + PageSize ELSE None]
  BY <1>5 DEF HandleTasksList
<1>7. page.tasks \subseteq Tasks /\ \A t \in S : t \in page.tasks <=> o <= Place(ids, t) /\ Place(ids, t) < o + PageSize
  BY <1>1, <1>3, <1>4, <1>6
<1>8. ASSUME page.next = None, NEW t \in S PROVE Place(ids, t) < o + PageSize
  <2>1. SUFFICES ASSUME Rank(S, R, t) >= o + PageSize PROVE FALSE
    BY <1>1, <1>3
  <2>2. Cardinality({s \in S : Rank(S, R, s) \in o .. o + PageSize}) > PageSize
    BY <1>1, <1>3, <2>1, MoreThanPage
  <2>3. more = {s \in S : Rank(S, R, s) \in o .. o + PageSize}
    BY <1>3, <1>4
  <2>4. page.next = o + PageSize
    BY <1>6, <2>2, <2>3
  <2>5. o + PageSize \in Nat
    BY <1>1
  <2> QED BY <1>8, <2>4, <2>5, NamesAssumption
<1>9. page.next \in {None, o + PageSize}
  BY <1>6
<1> QED BY <1>1, <1>2, <1>7, <1>8, <1>9

\* A page is read: what it does not have of the tasks before its end has slipped
\* past the client.
LEMMA WalkGoesOn ==
    ASSUME TypeOK, OwnersInv, WalkInv, [Next]_vars, NEW h \in Handlers, ReadList(h)
    PROVE  WalkInv' /\ WalkType'
<1>1. index' = index /\ task' = task /\ In(h, {"read"}) /\ request' = [request EXCEPT ![h] = None]
  BY DEF ReadList, Answer, storeVars, In
<1>2. PICK r \in Request : r = request[h]
  BY <1>1 DEF In, TypeOK
<1>3. PICK ids \in Seq(Tasks), k \in Keys, cursor \in Nat \cup {None} :
          ids = r.ids /\ k = RateLimitKey(r.caller) /\ cursor = walk.cursor
          /\ IsInjective(ids) /\ r.caller \in Principals
  <2>1. Copied(r)
    BY <1>1, <1>2 DEF In, OwnersInv, RequestsSound, Sound
  <2>2. r.ids \in Seq(Tasks) /\ r.caller \in Principals /\ IsInjective(r.ids)
    BY <2>1 DEF Copied, Request
  <2>3. walk.cursor \in Nat \cup {None} /\ RateLimitKey(r.caller) \in Keys
    BY <2>2, SameKey DEF TypeOK
  <2> QED BY <2>2, <2>3
<1>4. PICK o, page, seen : /\ o = ParseCursor(cursor) /\ page = HandleTasksList(ids, cursor)
                           /\ seen = walk.seen \cup page.tasks
  OBVIOUS
<1>5. walk' = IF page.next # None THEN [walk EXCEPT !.seen = seen, !.cursor = page.next]
              ELSE [NoWalk EXCEPT !.phase = "complete", !.swept = Cardinality(walk.removed),
                                  !.missed = Cardinality((walk.must \ walk.removed) \ seen)]
  BY <1>2, <1>3, <1>4 DEF ReadList
<1>6. /\ o \in Nat /\ PageSize \in Nat
      /\ page.tasks \subseteq Tasks
      /\ \A t \in Listed(ids) : t \in page.tasks <=> o <= Place(ids, t) /\ Place(ids, t) < o + PageSize
      /\ page.next \in {None, o + PageSize}
      /\ page.next = None => \A t \in Listed(ids) : Place(ids, t) < o + PageSize
  <2>1. PageSize \in Nat
    BY ApiAssumption
  <2>2. TypeOK /\ IsInjective(ids)
    BY <1>3
  <2>3. o = ParseCursor(cursor) /\ page = HandleTasksList(ids, cursor)
    BY <1>4
  <2> QED BY ONLY <2>1, <2>2, <2>3, PageTasks
<1>7. Listing(ids) /\ Follows(ids, k) /\ walk.phase = "reading" /\ IsFiniteSet(walk.removed)
  BY <1>1, <1>2, <1>3 DEF WalkInv, In
<1>8. PlacesAreRanks /\ PlacesAreRanks' /\ ListsFinite
  BY PlaceRank, ListedFinite, PTL
<1>9. ToSee \subseteq Listed(ids) /\ Listed(ids) \subseteq Tasks /\ \A t \in Tasks : Place(ids, t) \in Nat
  BY <1>7, <1>8 DEF Listing, ToSee, ListsFinite, PlacesAreRanks
<1>10. \A g \in Handlers : ~Reads(g)'
  <2>1. \A g \in Handlers : Reads(g) => g = h
    BY <1>1 DEF WalkInv, Reads, In
  <2> QED BY <1>1, <2>1 DEF Reads, In, TypeOK
<1>11. PICK P : P = Passed(ids)
  OBVIOUS
<1>12. IsFiniteSet(P) /\ Cardinality(P) <= Cardinality(walk.removed) /\ Cardinality(P) \in Nat
       /\ Cardinality(walk.removed) \in Nat
  BY <1>7, <1>11, FS_CardinalityType DEF Listing
<1>13. \A t \in ToSee \ page.tasks : Place(ids, t) < o + PageSize => t \in P
  <2> SUFFICES ASSUME NEW t \in ToSee \ page.tasks, Place(ids, t) < o + PageSize PROVE t \in P
    OBVIOUS
  <2>1. Place(ids, t) \in Nat /\ ~(o <= Place(ids, t))
    BY <1>6, <1>9
  <2>2. Place(ids, t) < ParseCursor(walk.cursor)
    BY <1>3, <1>4, <1>6, <2>1
  <2> QED BY <1>11, <2>2 DEF Passed
<1>14. CASE page.next # None
  <2>1. page.next = o + PageSize /\ page.next \in Nat
    BY <1>6, <1>14
  <2>2. /\ walk'.phase = "reading" /\ walk'.cursor = o + PageSize /\ walk'.seen = seen /\ walk'.must = walk.must
        /\ walk'.removed = walk.removed /\ walk'.missed = walk.missed /\ walk'.swept = walk.swept /\ WalkType'
    BY <1>4, <1>5, <1>6, <1>7, <1>14, <2>1 DEF TypeOK, WalkType
  <2>3. ToSee' = ToSee \ page.tasks
    BY <1>4, <2>2 DEF ToSee
  <2>4. ASSUME NEW p \in Principals PROVE Listing(index[RateLimitKey(p)])'
    <3>1. k = RateLimitKey(p)
      BY <1>3, SameKey
    <3>2. PICK new \in Seq(Tasks) : new = index[k]
      BY <1>3 DEF TypeOK
    <3>3. Listed(ids) \subseteq Listed(new) /\ \A a, b \in Existing : Before(ids, a, b) => Before(new, a, b)
      BY <1>7, <3>2 DEF Follows
    <3>4. ASSUME NEW t \in Listed(ids) PROVE Place(ids, t) <= Place(new, t)
      <4>1. PICK S, R, T, Q : S = Listed(ids) /\ R = NewerPairs(ids) /\ T = Listed(new) /\ Q = NewerPairs(new)
        OBVIOUS
      <4>2. \A u \in S : <<u, t>> \in R => <<u, t>> \in Q
        BY <1>9, <3>3, <4>1 DEF NewerPairs, Newer, Listed
      <4>3. IsFiniteSet(T) /\ S \subseteq T
        BY <1>8, <3>3, <4>1 DEF ListsFinite
      <4>4. Rank(S, R, t) <= Rank(T, Q, t)
        BY <4>2, <4>3, FurtherBack
      <4> QED BY <1>8, <1>9, <4>1, <4>4 DEF PlacesAreRanks
    <3>5. \A t \in Tasks : Place(new, t)' = Place(new, t) /\ Place(new, t) \in Nat
      BY <1>1, <1>8 DEF Place, Listed, Existing, Newer, PlacesAreRanks
    <3>6. ParseCursor(walk.cursor)' = o + PageSize
      BY <2>1, <2>2 DEF ParseCursor
    <3>7. Passed(new)' \in SUBSET P
      <4> SUFFICES ASSUME NEW t \in Passed(new)' PROVE t \in P
        OBVIOUS
      <4>1. t \in ToSee \ page.tasks /\ t \in Listed(ids) /\ t \in Tasks /\ Place(new, t) < o + PageSize
        BY <1>9, <2>3, <3>5, <3>6 DEF Passed
      <4>2. Place(ids, t) < o + PageSize
        BY <1>6, <1>9, <3>4, <3>5, <4>1
      <4> QED BY <1>13, <4>1, <4>2
    <3>8. PICK N : N = Passed(new)'
      OBVIOUS
    <3>9. IsFiniteSet(N) /\ Cardinality(N) <= Cardinality(P) /\ Cardinality(N) \in Nat
      BY <1>12, <3>7, <3>8, FS_Subset, FS_CardinalityType
    <3>10. IsFiniteSet(N) /\ Cardinality(N) <= Cardinality(walk'.removed)
      BY <1>12, <2>2, <3>9
    <3>11. (walk.must \ walk.removed)' \subseteq Listed(new)'
      BY <1>1, <1>7, <2>2, <3>3 DEF Listing, Listed, Existing
    <3>12. Listing(new)'
      BY <3>8, <3>10, <3>11 DEF Listing
    <3> QED BY <1>1, <3>1, <3>2, <3>12
  <2>5. WalkMissesOnlySwept' /\ IsFiniteSet(walk'.removed) /\ \A t \in walk'.removed : task'[t] = Gone
    BY <1>1, <2>2 DEF WalkInv, WalkMissesOnlySwept
  <2> QED BY <1>10, <2>2, <2>4, <2>5 DEF WalkInv, Reads, In
<1>15. CASE page.next = None
  <2>1. PICK M : M = (walk.must \ walk.removed) \ seen
    OBVIOUS
  <2>2. M \in SUBSET P
    BY <1>4, <1>6, <1>9, <1>13, <1>15, <2>1 DEF ToSee
  <2>3. Cardinality(M) <= Cardinality(P) /\ Cardinality(M) \in Nat
    BY <1>12, <2>2, FS_Subset, FS_CardinalityType
  <2>4. walk' = [phase |-> "complete", cursor |-> None, seen |-> {}, must |-> {}, removed |-> {},
                 missed |-> Cardinality(M), swept |-> Cardinality(walk.removed)]
    BY <1>5, <1>15, <2>1 DEF NoWalk
  <2>5. WalkType' /\ IsFiniteSet(walk'.removed)
    BY <1>12, <2>3, <2>4, FS_EmptySet DEF WalkType
  <2>6. WalkMissesOnlySwept'
    BY <1>12, <2>3, <2>4 DEF WalkMissesOnlySwept
  <2> QED BY <1>10, <2>4, <2>5, <2>6 DEF WalkInv, Reads, In
<1> QED BY <1>14, <1>15

\* So does every step.
LEMMA WalkStep ==
    ASSUME TypeOK, OwnersInv, WalkInv, [Next]_vars
    PROVE  WalkInv' /\ WalkType'
BY WalkSteps, WalkQuiet, WalkRemoves, WalkBegins, WalkCopies, WalkGoesOn

-----------------------------------------------------------------------------
(* Documents *)

\* s is the beginning of t.
Begins(s, t) == Len(s) <= Len(t) /\ \A i \in 1 .. Len(s) : s[i] = t[i]

\* Paths of the same names are the same.
LEMMA SamePath ==
    ASSUME NEW s \in Seq(Fields), NEW t \in Seq(Fields), Len(s) = Len(t), \A i \in 1 .. Len(s) : s[i] = t[i]
    PROVE  s = t
BY SeqEqual

\* The beginning of a path is a path.
LEMMA Parts ==
    ASSUME NEW s \in Seq(Fields), NEW n \in 0 .. Len(s)
    PROVE  /\ SubSeq(s, 1, n) \in Seq(Fields) /\ Len(SubSeq(s, 1, n)) = n
           /\ \A i \in 1 .. n : SubSeq(s, 1, n)[i] = s[i]
OBVIOUS

\* A prefix is a beginning.
LEMMA PrefixBegins ==
    ASSUME NEW s \in Seq(Fields), NEW t \in Seq(Fields)
    PROVE  IsPrefix(s, t) <=> Begins(s, t)
<1>1. CASE ~(Len(s) <= Len(t))
  BY <1>1 DEF IsPrefix, Begins
<1>2. CASE Len(s) <= Len(t)
  <2>1. PICK n \in Nat : n = Len(s) /\ n \in 0 .. Len(s) /\ n \in 0 .. Len(t)
    BY <1>2
  <2>2. PICK a \in Seq(Fields), b \in Seq(Fields) : a = SubSeq(s, 1, n) /\ b = SubSeq(t, 1, n)
    BY <2>1, Parts
  <2>3. Len(a) = n /\ Len(b) = n /\ \A i \in 1 .. n : a[i] = s[i] /\ b[i] = t[i]
    BY <2>1, <2>2, Parts
  <2>4. a = b <=> \A i \in 1 .. n : s[i] = t[i]
    BY <2>3, SamePath
  <2> QED BY <1>2, <2>1, <2>2, <2>4 DEF IsPrefix, Begins
<1> QED BY <1>1, <1>2

\* What is above a path begins it.
LEMMA FrontBegins ==
    ASSUME NEW p \in Seq(Fields), Len(p) # 0
    PROVE  /\ Front(p) \in Seq(Fields) /\ Len(p) \in Nat \ {0} /\ Len(Front(p)) = Len(p) - 1 /\ Begins(Front(p), p)
<1>1. Len(p) \in Nat \ {0}
  OBVIOUS
<1>2. PICK n \in 0 .. Len(p) : n = Len(p) - 1
  <2>1. Len(p) - 1 \in 0 .. Len(p)
    BY <1>1
  <2> QED BY ONLY <2>1
<1>3. Front(p) = SubSeq(p, 1, n)
  BY <1>2 DEF Front
<1>4. Front(p) \in Seq(Fields) /\ Len(Front(p)) = n /\ \A i \in 1 .. n : Front(p)[i] = p[i]
  BY <1>3, Parts
<1> QED BY <1>1, <1>2, <1>4 DEF Begins

\* To begin is transitive.
LEMMA BeginsOn ==
    ASSUME NEW s \in Seq(Fields), NEW t \in Seq(Fields), NEW u \in Seq(Fields), Begins(s, t), Begins(t, u)
    PROVE  Begins(s, u)
<1>1. Len(s) \in Nat /\ Len(t) \in Nat /\ Len(u) \in Nat
  OBVIOUS
<1> QED BY <1>1 DEF Begins

\* The ancestors of a path are what begins it and is shorter.
LEMMA AncestorsBegin ==
    ASSUME NEW p \in Seq(Fields), NEW q
    PROVE  q \in Ancestors(p) <=> q \in Seq(Fields) /\ Len(q) < Len(p) /\ Begins(q, p)
<1>1. ASSUME q \in Ancestors(p) PROVE q \in Seq(Fields) /\ Len(q) < Len(p) /\ Begins(q, p)
  <2>1. PICK n \in 0 .. Len(p) - 1 : q = SubSeq(p, 1, n)
    BY <1>1 DEF Ancestors
  <2>2. n \in 0 .. Len(p) /\ Len(p) \in Nat
    BY <2>1
  <2> QED BY <2>1, <2>2, Parts DEF Begins
<1>2. ASSUME q \in Seq(Fields), Len(q) < Len(p), Begins(q, p) PROVE q \in Ancestors(p)
  <2>1. PICK n \in 0 .. Len(p) - 1 : n = Len(q) /\ n \in 0 .. Len(p)
    BY <1>2
  <2>2. SubSeq(p, 1, n) = q
    BY <1>2, <2>1, Parts, SamePath DEF Begins
  <2> QED BY <2>1, <2>2 DEF Ancestors
<1> QED BY <1>1, <1>2

\* What the two paths are, as far as it matters.
LEMMA TheirPaths ==
    /\ TasksCall \in Seq(Fields) /\ Len(TasksCall) = 4 /\ TasksCall[2] = "tasks"
    /\ SseStatus \in Seq(Fields) /\ Len(SseStatus) = 4 /\ SseStatus[2] = "notifications"
    /\ Front(SseStatus) \in Seq(Fields) /\ Len(Front(SseStatus)) = 3 /\ Begins(Front(SseStatus), SseStatus)
    /\ Front(Front(SseStatus)) \in Seq(Fields) /\ Len(Front(Front(SseStatus))) = 2
    /\ Begins(Front(Front(SseStatus)), SseStatus)
<1>1. /\ TasksCall \in Seq(Fields) /\ Len(TasksCall) = 4 /\ TasksCall[2] = "tasks"
      /\ SseStatus \in Seq(Fields) /\ Len(SseStatus) = 4 /\ SseStatus[2] = "notifications"
  <2>0. \A a, b, c, d \in Fields : <<a, b, c, d>> \in Seq(Fields)
    OBVIOUS
  <2>1. TasksCall \in Seq(Fields)
    BY <2>0, DocumentsAssumption DEF TasksCall
  <2>2. Len(TasksCall) = 4 /\ TasksCall[2] = "tasks"
    BY DEF TasksCall
  <2>3. SseStatus \in Seq(Fields)
    BY <2>0, DocumentsAssumption DEF SseStatus
  <2>4. Len(SseStatus) = 4 /\ SseStatus[2] = "notifications"
    BY DEF SseStatus
  <2> QED BY <2>1, <2>2, <2>3, <2>4
<1>2. Front(SseStatus) \in Seq(Fields) /\ Len(Front(SseStatus)) = 3 /\ Begins(Front(SseStatus), SseStatus)
  <2>1. Len(SseStatus) # 0
    BY <1>1
  <2>2. Front(SseStatus) \in Seq(Fields) /\ Len(Front(SseStatus)) = Len(SseStatus) - 1 /\ Begins(Front(SseStatus), SseStatus)
    BY <1>1, <2>1, FrontBegins
  <2> QED BY <1>1, <2>2
<1>3. /\ Front(Front(SseStatus)) \in Seq(Fields) /\ Len(Front(Front(SseStatus))) = 2
      /\ Begins(Front(Front(SseStatus)), Front(SseStatus))
  <2>1. PICK s \in Seq(Fields) : s = Front(SseStatus) /\ Len(s) = 3
    BY <1>2
  <2>2. Len(s) # 0
    BY <2>1
  <2>3. Front(s) \in Seq(Fields) /\ Len(Front(s)) = Len(s) - 1 /\ Begins(Front(s), s)
    BY <2>2, FrontBegins
  <2> QED BY <2>1, <2>3
<1>4. Begins(Front(Front(SseStatus)), SseStatus)
  BY <1>1, <1>2, <1>3 DEF Begins
<1> QED BY <1>1, <1>2, <1>3, <1>4

\* What injecting leaves is a document again.
LEMMA Injected ==
    ASSUME NEW doc, Document(doc), NEW d, d = InjectTaskCapability(doc)
    PROVE  /\ Document(d)
           /\ <<>> \in DOMAIN doc /\ (\A p \in Ancestors(TasksCall) : p \in DOMAIN doc => doc[p] = "object") =>
                 Says(d, TasksCall)
           /\ \A p \in DOMAIN doc : ~IsPrefix(TasksCall, p) => p \in DOMAIN d /\ d[p] = doc[p]
<1>0. TasksCall \in Seq(Fields) /\ Len(TasksCall) = 4 /\ <<>> \in Seq(Fields) /\ Len(<<>>) = 0
      /\ <<>> # TasksCall /\ Begins(TasksCall, TasksCall) /\ Begins(<<>>, TasksCall)
  BY TheirPaths DEF Begins
<1>1. CASE ~IsObject(doc, <<>>)
  <2>1. d = doc
    BY <1>1 DEF InjectTaskCapability
  <2>2. <<>> \in Ancestors(TasksCall)
    <3>1. Len(<<>>) < Len(TasksCall)
      BY <1>0
    <3> QED BY <1>0, <3>1, AncestorsBegin
  <2> QED BY <1>1, <2>1, <2>2 DEF IsObject
<1>2. CASE IsObject(doc, <<>>)
  <2>1. /\ DOMAIN d = (DOMAIN doc \ Replaced(doc)) \cup Made(doc)
        /\ \A p \in DOMAIN d : d[p] = IF p \notin Made(doc) THEN doc[p] ELSE IF p = TasksCall THEN "true" ELSE "object"
    BY <1>2 DEF InjectTaskCapability
  <2>2. \A p : p \in Made(doc) <=> /\ p \in Seq(Fields) /\ Begins(p, TasksCall)
                                   /\ ~Blocked(doc, p) /\ (p \in DOMAIN doc => p = TasksCall)
    <3>1. \A p : p \in Ancestors(TasksCall) \cup {TasksCall} <=> p \in Seq(Fields) /\ Begins(p, TasksCall)
      <4> SUFFICES ASSUME NEW p
                   PROVE  p \in Ancestors(TasksCall) \cup {TasksCall} <=> p \in Seq(Fields) /\ Begins(p, TasksCall)
        OBVIOUS
      <4>1. p \in Ancestors(TasksCall) <=> p \in Seq(Fields) /\ Len(p) < 4 /\ Begins(p, TasksCall)
        BY <1>0, AncestorsBegin
      <4>2. p \in Seq(Fields) /\ Begins(p, TasksCall) /\ ~(Len(p) < 4) => p = TasksCall
        BY <1>0, SamePath DEF Begins
      <4> QED BY <1>0, <4>1, <4>2
    <3> QED BY <3>1 DEF Made
  <2>3. DOMAIN doc \subseteq Seq(Fields) /\ \A p \in DOMAIN doc : p # <<>> => IsObject(doc, Front(p))
    BY DEF Document
  <2>4. \A p \in DOMAIN doc : ~IsPrefix(TasksCall, p) => p \in DOMAIN d /\ d[p] = doc[p]
    <3> SUFFICES ASSUME NEW p \in DOMAIN doc, ~IsPrefix(TasksCall, p) PROVE p \in DOMAIN d /\ d[p] = doc[p]
      OBVIOUS
    <3>1. p # TasksCall
      BY <1>0, PrefixBegins
    <3>2. p \notin Made(doc) /\ p \notin Replaced(doc)
      BY <2>2, <3>1 DEF Replaced
    <3> QED BY <2>1, <3>2
  <2>5. ASSUME <<>> \in DOMAIN doc, \A p \in Ancestors(TasksCall) : p \in DOMAIN doc => doc[p] = "object"
        PROVE  Says(d, TasksCall)
    <3>1. ~Blocked(doc, TasksCall)
      BY <2>5 DEF Blocked, IsObject
    <3>2. TasksCall \in Made(doc)
      BY <1>0, <2>2, <3>1
    <3> QED BY <2>1, <3>2 DEF Says
  <2>6. DOMAIN d \subseteq Seq(Fields)
    BY <2>1, <2>2, <2>3
  <2>7. ASSUME NEW p \in DOMAIN d, p # <<>> PROVE IsObject(d, Front(p))
    <3>1. p \in Seq(Fields) /\ Front(p) \in Seq(Fields) /\ Len(p) \in Nat \ {0} /\ Len(Front(p)) = Len(p) - 1
          /\ Begins(Front(p), p)
      <4>1. p \in Seq(Fields)
        BY <2>6, <2>7
      <4>2. Len(p) # 0
        BY <2>7, <4>1
      <4> QED BY <4>1, <4>2, FrontBegins
    <3>2. PICK f \in Seq(Fields) : f = Front(p)
      BY <3>1
    <3>3. CASE p \in Made(doc)
      <4>1. Begins(f, TasksCall) /\ f # TasksCall /\ Len(f) < Len(p) /\ Begins(f, p)
        BY <1>0, <2>2, <3>1, <3>2, <3>3 DEF Begins
      <4>2. f \in Ancestors(p)
        BY <3>1, <4>1, AncestorsBegin
      <4>3. f \in DOMAIN doc => IsObject(doc, f)
        BY <2>2, <3>3, <4>2 DEF Blocked
      <4>4. ~Blocked(doc, f)
        <5>1. Ancestors(f) \subseteq Ancestors(p)
          <6> SUFFICES ASSUME NEW q \in Ancestors(f) PROVE q \in Ancestors(p)
            OBVIOUS
          <6>1. q \in Seq(Fields) /\ Len(q) < Len(f) /\ Begins(q, f)
            BY AncestorsBegin
          <6>2. Len(q) < Len(p) /\ Begins(q, p)
            BY <3>1, <3>2, <4>1, <6>1 DEF Begins
          <6> QED BY <3>1, <6>1, <6>2, AncestorsBegin
        <5> QED BY <2>2, <3>3, <5>1 DEF Blocked
      <4>5. CASE f \in DOMAIN doc
        <5>1. f \notin Made(doc) /\ IsObject(doc, f)
          BY <2>2, <4>1, <4>3, <4>5
        <5>2. ~IsPrefix(TasksCall, f)
          <6>1. Len(f) < 4
            BY <1>0, <2>2, <3>1, <3>3, <4>1 DEF Begins
          <6>2. ~Begins(TasksCall, f)
            BY <1>0, <6>1 DEF Begins
          <6> QED BY <1>0, <6>2, PrefixBegins
        <5>3. f \notin Replaced(doc)
          BY <5>2 DEF Replaced
        <5> QED BY <2>1, <3>2, <4>5, <5>1, <5>3 DEF IsObject
      <4>6. CASE f \notin DOMAIN doc
        <5>1. f \in Made(doc)
          BY <2>2, <4>1, <4>4, <4>6
        <5> QED BY <2>1, <3>2, <4>1, <5>1 DEF IsObject
      <4> QED BY <4>5, <4>6
    <3>4. CASE p \notin Made(doc)
      <4>1. p \in DOMAIN doc /\ p \notin Replaced(doc) /\ IsObject(doc, f)
        BY <2>1, <2>3, <2>7, <3>2, <3>4
      <4>2. f \notin Replaced(doc)
        <5>1. Begins(TasksCall, f) => Begins(TasksCall, p)
          BY <1>0, <3>1, <3>2, BeginsOn
        <5> QED BY <1>0, <3>1, <4>1, <5>1, PrefixBegins DEF Replaced
      <4>3. f \notin Made(doc)
        <5>1. (f = TasksCall /\ ~Blocked(doc, TasksCall)) => f \in Replaced(doc)
          BY <1>0, <4>1, PrefixBegins DEF Replaced, IsObject
        <5> QED BY <2>2, <4>1, <4>2, <5>1 DEF IsObject
      <4> QED BY <2>1, <3>2, <4>1, <4>2, <4>3 DEF IsObject
    <3> QED BY <3>3, <3>4
  <2> QED BY <2>4, <2>5, <2>6, <2>7 DEF Document
<1> QED BY <1>1, <1>2

\* Stripping takes paths away, never from above what stays.
LEMMA StatusStripped ==
    ASSUME NEW doc, Document(doc), NEW d, d = StripStatus(doc)
    PROVE  /\ Document(d) /\ SseStatus \notin DOMAIN d /\ DOMAIN d \subseteq DOMAIN doc
           /\ \A p \in DOMAIN d : d[p] = doc[p]
           /\ \A p \in DOMAIN doc : ~IsPrefix(SseStatus, p) => p \in DOMAIN d
<1>1. DOMAIN d = {p \in DOMAIN doc : ~IsPrefix(SseStatus, p)} /\ \A p \in DOMAIN d : d[p] = doc[p]
  BY DEF StripStatus, Without
<1>2. SseStatus \in Seq(Fields) /\ IsPrefix(SseStatus, SseStatus)
  BY TheirPaths, PrefixBegins DEF Begins
<1>3. ASSUME NEW p \in DOMAIN d, p # <<>> PROVE IsObject(d, Front(p))
  <2>1. p \in Seq(Fields) /\ IsObject(doc, Front(p))
    BY <1>1, <1>3 DEF Document
  <2>2. Len(p) # 0
    BY <1>3, <2>1
  <2>3. PICK f \in Seq(Fields) : f = Front(p) /\ Begins(f, p)
    BY <2>1, <2>2, FrontBegins
  <2>4. ~IsPrefix(SseStatus, f)
    <3>1. Begins(SseStatus, f) => Begins(SseStatus, p)
      BY <1>2, <2>1, <2>3, BeginsOn
    <3> QED BY <1>1, <1>2, <1>3, <2>1, <3>1, PrefixBegins
  <2> QED BY <1>1, <2>1, <2>3, <2>4 DEF IsObject
<1> QED BY <1>1, <1>2, <1>3 DEF Document

\* Removing an empty object removes that path alone, and leaves a document.
LEMMA EmptyRemoved ==
    ASSUME NEW doc, Document(doc), NEW path \in Seq(Fields), NEW d, d = RemoveEmpty(doc, path)
    PROVE  /\ Document(d) /\ DOMAIN d \subseteq DOMAIN doc
           /\ \A p \in DOMAIN d : d[p] = doc[p]
           /\ \A p \in DOMAIN doc : p # path => p \in DOMAIN d
<1>1. CASE ~(IsObject(doc, path) /\ Empty(doc, path))
  BY <1>1 DEF RemoveEmpty
<1>2. CASE IsObject(doc, path) /\ Empty(doc, path)
  <2>1. DOMAIN d = DOMAIN doc \ {path} /\ \A p \in DOMAIN d : d[p] = doc[p]
    BY <1>2 DEF RemoveEmpty, Without
  <2>2. ASSUME NEW p \in DOMAIN d, p # <<>> PROVE IsObject(d, Front(p))
    <3>1. p \in DOMAIN doc /\ p \in Seq(Fields) /\ IsObject(doc, Front(p))
      BY <2>1, <2>2 DEF Document
    <3>2. Len(p) # 0
      BY <2>2, <3>1
    <3>3. PICK f \in Seq(Fields) : f = Front(p) /\ Begins(f, p) /\ Len(f) = Len(p) - 1 /\ Len(p) \in Nat
      BY <3>1, <3>2, FrontBegins
    <3>4. f # path
      <4> SUFFICES ASSUME f = path PROVE FALSE
        OBVIOUS
      <4>1. IsPrefix(path, p) /\ Len(p) = Len(path) + 1 /\ path # p
        BY <3>1, <3>3, PrefixBegins
      <4> QED BY <1>2, <3>1, <4>1 DEF Empty, IsStrictPrefix
    <3> QED BY <2>1, <3>1, <3>3, <3>4 DEF IsObject
  <2> QED BY <2>1, <2>2 DEF Document
<1> QED BY <1>1, <1>2

\* What an initialize is answered, of any document.
LEMMA ToldExact ==
    ASSUME NEW said, Document(said), NEW told, told = StripSseCapability(InjectTaskCapability(said))
    PROVE  /\ SseStatus \notin DOMAIN told
           /\ <<>> \in DOMAIN said /\ (\A p \in Ancestors(TasksCall) : p \in DOMAIN said => said[p] = "object") =>
                 Says(told, TasksCall)
           /\ \A p \in DOMAIN said :
                 ~(IsPrefix(TasksCall, p) \/ IsPrefix(SseStatus, p) \/ (Len(p) > 1 /\ IsPrefix(p, SseStatus))) =>
                    p \in DOMAIN told /\ told[p] = said[p]
           /\ \A p \in DOMAIN told : p # <<>> => IsObject(told, Front(p))
<1>1. PICK d : d = InjectTaskCapability(said)
  OBVIOUS
<1>2. /\ Document(d)
      /\ <<>> \in DOMAIN said /\ (\A p \in Ancestors(TasksCall) : p \in DOMAIN said => said[p] = "object") =>
            Says(d, TasksCall)
      /\ \A p \in DOMAIN said : ~IsPrefix(TasksCall, p) => p \in DOMAIN d /\ d[p] = said[p]
  BY <1>1, Injected
<1>3. PICK e : e = StripStatus(d)
  OBVIOUS
<1>4. /\ Document(e) /\ SseStatus \notin DOMAIN e /\ DOMAIN e \subseteq DOMAIN d
      /\ \A p \in DOMAIN e : e[p] = d[p]
      /\ \A p \in DOMAIN d : ~IsPrefix(SseStatus, p) => p \in DOMAIN e
  BY <1>2, <1>3, StatusStripped
<1>5. PICK tasks \in Seq(Fields), notifications \in Seq(Fields) :
         tasks = Front(SseStatus) /\ notifications = Front(Front(SseStatus))
  BY TheirPaths
<1>6. Len(tasks) = 3 /\ Len(notifications) = 2 /\ Begins(tasks, SseStatus) /\ Begins(notifications, SseStatus)
  BY <1>5, TheirPaths
<1>7. PICK f : f = RemoveEmpty(e, tasks)
  OBVIOUS
<1>8. /\ Document(f) /\ DOMAIN f \subseteq DOMAIN e
      /\ \A p \in DOMAIN f : f[p] = e[p]
      /\ \A p \in DOMAIN e : p # tasks => p \in DOMAIN f
  BY <1>4, <1>7, EmptyRemoved
<1>9. told = RemoveEmpty(f, notifications)
  BY <1>1, <1>3, <1>5, <1>7 DEF StripSseCapability
<1>10. /\ Document(told) /\ DOMAIN told \subseteq DOMAIN f
       /\ \A p \in DOMAIN told : told[p] = f[p]
       /\ \A p \in DOMAIN f : p # notifications => p \in DOMAIN told
  BY <1>8, <1>9, EmptyRemoved
<1>11. \A p \in DOMAIN d : ~IsPrefix(SseStatus, p) /\ p # tasks /\ p # notifications => p \in DOMAIN told /\ told[p] = d[p]
  BY <1>4, <1>8, <1>10
<1>12. Says(d, TasksCall) => Says(told, TasksCall)
  <2>1. TasksCall # tasks /\ TasksCall # notifications
    <3>1. Len(TasksCall) = 4
      BY TheirPaths
    <3>2. Len(TasksCall) # Len(tasks) /\ Len(TasksCall) # Len(notifications)
      BY <1>6, <3>1
    <3> QED BY <3>2
  <2>2. ~IsPrefix(SseStatus, TasksCall)
    <3>1. ~Begins(SseStatus, TasksCall)
      BY TheirPaths DEF Begins
    <3> QED BY <3>1, TheirPaths, PrefixBegins
  <2> QED BY <1>11, <2>1, <2>2 DEF Says
<1>13. ASSUME NEW p \in DOMAIN said,
              ~(IsPrefix(TasksCall, p) \/ IsPrefix(SseStatus, p) \/ (Len(p) > 1 /\ IsPrefix(p, SseStatus)))
       PROVE  p \in DOMAIN told /\ told[p] = said[p]
  <2>1. IsPrefix(tasks, SseStatus) /\ IsPrefix(notifications, SseStatus)
    BY <1>6, TheirPaths, PrefixBegins
  <2>2. p # tasks /\ p # notifications
    <3>1. Len(tasks) > 1 /\ Len(notifications) > 1
      BY <1>6
    <3> QED BY <1>13, <2>1, <3>1
  <2> QED BY <1>2, <1>11, <1>13, <2>2
<1>14. \A p \in DOMAIN told : p # <<>> => IsObject(told, Front(p))
  BY <1>10 DEF Document
<1>15. SseStatus \notin DOMAIN told
  BY <1>4, <1>8, <1>10
<1> QED BY <1>2, <1>12, <1>13, <1>14, <1>15

\* Every answer to an initialize is exact.
LEMMA InitializeStep ==
    ASSUME TypeOK, OwnersInv, InitializeExact, [Next]_vars
    PROVE  InitializeExact'
<1>1. ASSUME NEW h \in Handlers, SetUpstreamSupportsTaskSse(h) PROVE InitializeExact'
  <2>1. PICK r : r = request[h]
    OBVIOUS
  <2>2. r.doc \in Results /\ Document(r.doc)
    BY <1>1, <2>1, DocumentsAssumption DEF SetUpstreamSupportsTaskSse, OwnersInv, RequestsSound, Sound, Fit
  <2>3. PICK said, told : said = r.doc /\ told = StripSseCapability(InjectTaskCapability(said))
    OBVIOUS
  <2>4. reply'.said = said /\ reply'.told = told
    BY <1>1, <2>1, <2>3 DEF SetUpstreamSupportsTaskSse, Answer, Reply
  <2>5. /\ SseStatus \notin DOMAIN told
        /\ <<>> \in DOMAIN said /\ (\A p \in Ancestors(TasksCall) : p \in DOMAIN said => said[p] = "object") =>
              Says(told, TasksCall)
        /\ \A p \in DOMAIN said :
              ~(IsPrefix(TasksCall, p) \/ IsPrefix(SseStatus, p) \/ (Len(p) > 1 /\ IsPrefix(p, SseStatus))) =>
                 p \in DOMAIN told /\ told[p] = said[p]
        /\ \A p \in DOMAIN told : p # <<>> => IsObject(told, Front(p))
    BY <2>2, <2>3, ToldExact
  <2>6. Says(told, SseStatus) => Says(said, SseStatus)
    BY <2>5 DEF Says
  <2> QED BY <2>4, <2>5, <2>6 DEF InitializeExact
<1>2. ASSUME reply' = None \/ reply'.kind # "initialized" PROVE InitializeExact'
  BY <1>2 DEF InitializeExact
<1>3. ASSUME NEW h \in Handlers, Arrive(h) PROVE reply' = None
  BY <1>3 DEF Arrive, CallTool, TasksList, Initialize, TaskRequest, Start
<1>4. StoreStep => reply' = None
  BY DEF StoreStep, Move, RecordAutoApproveResult, RemoveTask, RetainIndex
<1>5. ASSUME NEW h \in Handlers, HandlerStep(h), ~SetUpstreamSupportsTaskSse(h)
      PROVE  reply' = None \/ reply'.kind # "initialized"
  <2>1. CASE HandleTasksResult(h) \/ ExecuteOnResult(h)
    <3>1. PICK t : t = request[h].id
      OBVIOUS
    <3>2. ResultOf(t) # "initialized" /\ "initialized" \notin EngineAnswers(t)
      BY DEF ResultOf, ErrorContent, EngineAnswers
    <3> QED BY <2>1, <3>1, <3>2 DEF HandleTasksResult, ExecuteOnResult, Answer, Error, Reply
  <2>2. ASSUME NEW r, NEW kind, NEW entries, NEW doc, kind # "initialized", reply' = Reply(r, kind, entries, doc)
        PROVE  reply'.kind # "initialized"
    BY <2>2 DEF Reply
  <2>3. CASE AddToIndex(h) \/ PassThrough(h) \/ CreateTask(h) \/ SetUpstreamSupportsTasks(h)
    <3>1. CreateTask(h) \/ SetUpstreamSupportsTasks(h) => reply' = None
      BY DEF CreateTask, SetUpstreamSupportsTasks
    <3>2. AddToIndex(h) => reply' = Reply(request[h], "created", {}, None)
      BY DEF AddToIndex, Answer
    <3>3. PassThrough(h) => reply' = Reply(request[h], "forwarded", {}, None)
      BY DEF PassThrough, Answer
    <3> QED BY <2>2, <2>3, <3>1, <3>2, <3>3
  <2>4. CASE VerifyTaskPrincipal(h)
    BY <2>2, <2>4 DEF VerifyTaskPrincipal
  <2>5. CASE HandleTasksGet(h)
    BY <2>2, <2>5 DEF HandleTasksGet, Answer, Error
  <2>6. CASE HandleTasksCancel(h)
    <3>1. PICK t : t = request[h].id
      OBVIOUS
    <3>2. PICK kind, entries :
             /\ kind \in {"not_found", "cancelled", "already_terminal", "invalid_transition"}
             /\ Answer(h, kind, entries, None)
      BY <2>6, <3>1 DEF HandleTasksCancel, Error
    <3> QED BY <2>2, <3>2 DEF Answer
  <2>7. CASE CopyIds(h)
    <3>1. reply' = None \/ reply' = Reply(request[h], "denied", {}, None)
      BY <2>7 DEF CopyIds, Answer, Error
    <3> QED BY <2>2, <3>1
  <2>8. CASE ReadList(h)
    <3>1. PICK entries : reply' = Reply(request[h], "list", entries, None)
      BY <2>8 DEF ReadList, Answer
    <3> QED BY <2>2, <3>1
  <2>9. CASE InitializeAnswered(h)
    <3>1. reply' = None \/ reply' = Reply(request[h], "upstream_error", {}, None)
      BY <2>9 DEF InitializeAnswered, Answer, Error
    <3> QED BY <2>2, <3>1
  <2> QED BY <1>5, <2>1, <2>3, <2>4, <2>5, <2>6, <2>7, <2>8, <2>9 DEF HandlerStep
<1>6. UNCHANGED vars => InitializeExact'
  BY DEF vars, InitializeExact
<1> QED BY <1>1, <1>2, <1>3, <1>4, <1>5, <1>6 DEF Next

-----------------------------------------------------------------------------
(* Theorems *)

\* Every step keeps the types.
LEMMA TypeStep ==
    ASSUME TypeOK, OwnersInv, ShownTrue, WalkInv, [Next]_vars
    PROVE  TypeOK'
<1>1. load' = load
  <2>1. ASSUME NEW h \in Handlers, Arrive(h) PROVE load' = load
    BY <2>1, Zenon DEF Arrive, CallTool, TasksList, Initialize, TaskRequest, storeVars
  <2>2. ASSUME NEW h \in Handlers, HandlerStep(h) PROVE load' = load
    BY <2>2, Zenon DEF HandlerStep, CreateTask, AddToIndex, PassThrough, VerifyTaskPrincipal, HandleTasksGet,
                HandleTasksResult, ExecuteOnResult, HandleTasksCancel, CopyIds, ReadList, InitializeAnswered,
                SetUpstreamSupportsTasks, SetUpstreamSupportsTaskSse, storeVars
  <2>3. StoreStep \/ UNCHANGED vars => load' = load
    BY DEF StoreStep, Move, RecordAutoApproveResult, RemoveTask, RetainIndex, vars
  <2> QED BY <2>1, <2>2, <2>3 DEF Next
<1>2. task' \in [Tasks -> TaskRecord \cup {None, Gone}] /\ index' \in [Keys -> Seq(Tasks)]
  BY TaskSteps, IndexSteps
<1>3. request' \in [Handlers -> Request \cup {None}] /\ shown' \in [Tasks -> WireTerminal \cup {None}] /\ WalkType'
  BY OwnersStep, ShownStep, WalkStep
<1>4. sweeping' # None => sweeping'.key \in Keys /\ sweeping'.task \in Tasks /\ task'[sweeping'.task] = Gone
  <2>1. CASE sweeping' = sweeping
    BY <2>1, Stays DEF TypeOK
  <2>2. CASE RetainIndex
    BY <2>2 DEF RetainIndex
  <2>3. ASSUME NEW t \in Tasks, RemoveTask(t)
        PROVE  sweeping'.key \in Keys /\ sweeping'.task \in Tasks /\ task'[sweeping'.task] = Gone
    <3>1. task[t] \in TaskRecord
      BY <2>3 DEF RemoveTask, Existing, TypeOK
    <3>2. RateLimitKey(task[t].principal) \in Keys
      BY <3>1 DEF TaskRecord, Keys
    <3> QED BY <2>3, <3>2 DEF RemoveTask, TypeOK
  <2>4. ASSUME NEW h \in Handlers, Arrive(h) PROVE sweeping' = sweeping
    BY <2>4, Zenon DEF Arrive, CallTool, TasksList, Initialize, TaskRequest, storeVars
  <2>5. ASSUME NEW h \in Handlers, HandlerStep(h) PROVE sweeping' = sweeping
    BY <2>5, Zenon DEF HandlerStep, CreateTask, AddToIndex, PassThrough, VerifyTaskPrincipal, HandleTasksGet,
                HandleTasksResult, ExecuteOnResult, HandleTasksCancel, CopyIds, ReadList, InitializeAnswered,
                SetUpstreamSupportsTasks, SetUpstreamSupportsTaskSse, storeVars
  <2>6. ASSUME NEW t \in Tasks, Move(t) \/ RecordAutoApproveResult(t) PROVE sweeping' = sweeping
    BY <2>6 DEF Move, RecordAutoApproveResult
  <2>7. UNCHANGED vars => sweeping' = sweeping
    BY DEF vars
  <2> QED BY <2>1, <2>2, <2>3, <2>4, <2>5, <2>6, <2>7 DEF Next, StoreStep
<1>5. cache' \in [tasks : BOOLEAN, sse : BOOLEAN, initialized : BOOLEAN]
  <2>1. CASE cache' = cache
    BY <2>1 DEF TypeOK
  <2>2. ASSUME NEW h \in Handlers, SetUpstreamSupportsTasks(h) \/ SetUpstreamSupportsTaskSse(h)
        PROVE  cache' \in [tasks : BOOLEAN, sse : BOOLEAN, initialized : BOOLEAN]
    <3>1. PICK a \in BOOLEAN, b \in BOOLEAN :
             a = ExtractUpstreamTaskSupport(request[h].doc) /\ b = ExtractUpstreamSseSupport(request[h].doc)
      BY DEF ExtractUpstreamTaskSupport, ExtractUpstreamSseSupport, Says
    <3>2. cache' = [cache EXCEPT !.tasks = a, !.initialized = TRUE] \/ cache' = [cache EXCEPT !.sse = b]
      BY <2>2, <3>1 DEF SetUpstreamSupportsTasks, SetUpstreamSupportsTaskSse
    <3> QED BY <3>2 DEF TypeOK
  <2>3. ASSUME NEW h \in Handlers, Arrive(h) PROVE cache' = cache
    BY <2>3, Zenon DEF Arrive, CallTool, TasksList, Initialize, TaskRequest
  <2>4. ASSUME NEW h \in Handlers, HandlerStep(h), ~SetUpstreamSupportsTasks(h), ~SetUpstreamSupportsTaskSse(h)
        PROVE  cache' = cache
    BY <2>4, Zenon DEF HandlerStep, CreateTask, AddToIndex, PassThrough, VerifyTaskPrincipal, HandleTasksGet,
                HandleTasksResult, ExecuteOnResult, HandleTasksCancel, CopyIds, ReadList, InitializeAnswered
  <2>5. StoreStep \/ UNCHANGED vars => cache' = cache
    BY DEF StoreStep, Move, RecordAutoApproveResult, RemoveTask, RetainIndex, vars
  <2> QED BY <2>1, <2>2, <2>3, <2>4, <2>5 DEF Next
<1>6. load' \in Workloads
  BY <1>1 DEF TypeOK
<1> QED BY <1>2, <1>3, <1>4, <1>5, <1>6 DEF TypeOK, WalkType

\* The invariant holds at first.
LEMMA InitIsSound == Init => IndInv
<1> SUFFICES ASSUME Init PROVE IndInv
  OBVIOUS
<1>1. walk = [phase |-> "none", cursor |-> None, seen |-> {}, must |-> {}, removed |-> {}, missed |-> 0, swept |-> 0]
  BY DEF Init, NoWalk
<1>2. \A h \in Handlers : request[h] = None
  BY DEF Init
<1>3. <<>> \in Seq(Tasks) /\ ToSet(<<>>) = {} /\ IsInjective(<<>>)
  BY DEF ToSet, IsInjective
<1>4. TypeOK
  BY <1>1, <1>3 DEF Init, TypeOK
<1>5. OwnersInv
  BY <1>2, <1>3 DEF Init, OwnersInv, RequestsSound, IndexPlaced, OneEach, In
<1>6. IsolationExact /\ InitializeExact
  BY DEF Init, IsolationExact, InitializeExact
<1>7. ShownTrue
  BY DEF Init, ShownTrue
<1>8. WalkInv
  BY <1>1, <1>2, FS_EmptySet DEF WalkInv, In, WalkMissesOnlySwept
<1> QED BY <1>4, <1>5, <1>6, <1>7, <1>8 DEF IndInv

\* IndInv holds always: it is true at first, and each step keeps it.
THEOREM Inductive == Spec => []IndInv
<1>1. ASSUME IndInv, [Next]_vars PROVE IndInv'
  <2>1. TypeOK /\ OwnersInv /\ IsolationExact /\ ShownTrue /\ WalkInv /\ InitializeExact
    BY <1>1 DEF IndInv
  <2>2. TypeOK'
    BY <1>1, <2>1, TypeStep
  <2>3. OwnersInv' /\ IsolationExact' /\ ShownTrue'
    BY <1>1, <2>1, OwnersStep, IsolationStep, ShownStep
  <2>4. WalkInv' /\ InitializeExact'
    BY <1>1, <2>1, WalkStep, InitializeStep
  <2> QED BY <2>2, <2>3, <2>4 DEF IndInv
<1> QED BY <1>1, InitIsSound, PTL DEF Spec

\* Every variable has its type, always.
THEOREM TypeCorrect == Spec => []TypeOK
<1>1. IndInv => TypeOK
  BY DEF IndInv
<1> QED BY <1>1, Inductive, PTL

\* Whatever the interleaving of requests, moves and sweeps, and whatever the mounts
\* of the process hold at each read: tasks/get, tasks/result and tasks/cancel answer
\* the owner of a task and nobody else, tell the owner "not found" only of a task
\* that is gone, and tasks/list lists one application's tasks.
THEOREM OwnersAreIsolated == Spec => []IsolationExact
<1>1. IndInv => IsolationExact
  BY DEF IndInv
<1> QED BY <1>1, Inductive, PTL

\* A client that pages through tasks/list to its end misses no more tasks than were
\* swept while it read, for any page size, clock and number of tasks.
THEOREM ListingMissesOnlySwept == Spec => []WalkMissesOnlySwept
<1>1. IndInv => WalkMissesOnlySwept
  BY DEF IndInv, WalkInv
<1> QED BY <1>1, Inductive, PTL

\* Every initialize is answered with task support unless something is in its place,
\* with status notifications only when the upstream has them, and otherwise as the
\* upstream said, for any document.
THEOREM InitializeIsExact == Spec => []InitializeExact
<1>1. IndInv => InitializeExact
  BY DEF IndInv
<1> QED BY <1>1, Inductive, PTL

\* What a client was once shown of the end of a task, no later answer contradicts.
THEOREM EndsAreFinal == Spec => TerminalAnswersFinal
<1> DEFINE FinalStep ==
        reply' # None =>
          /\ \A e \in reply'.entries : shown[e.task] \in {None, e.status}
          /\ LET id == reply'.id IN
             (IF id \in Tasks THEN shown[id] # None ELSE FALSE) =>
                  /\ reply'.kind \notin {"not_ready", "invalid_transition"}
                  /\ reply'.kind = "already_terminal" => shown[id] # "cancelled"
<1>1. ASSUME IndInv, [Next]_vars PROVE [FinalStep]_vars
  <2> SUFFICES ASSUME Next, reply' # None
               PROVE  /\ \A e \in reply'.entries : shown[e.task] \in {None, e.status}
                      /\ Final(reply'.id, reply'.kind)
    BY <1>1 DEF Final
  <2>1. TypeOK /\ OwnersInv /\ ShownTrue
    BY <1>1 DEF IndInv
  <2>2. PICK h \in Handlers : HandlerStep(h)
    <3>1. ASSUME NEW h \in Handlers, Arrive(h) PROVE reply' = None
      BY <3>1 DEF Arrive, CallTool, TasksList, Initialize, TaskRequest, Start
    <3>2. StoreStep => reply' = None
      BY DEF StoreStep, Move, RecordAutoApproveResult, RemoveTask, RetainIndex
    <3> QED BY <3>1, <3>2 DEF Next
  <2>3. Reported(reply'.entries) /\ Final(reply'.id, reply'.kind)
    BY <1>1, <2>1, <2>2, AnswersTrue DEF AnsweredTrue
  <2>4. ASSUME NEW e \in reply'.entries, shown[e.task] # None PROVE shown[e.task] = e.status
    <3>1. PICK t : t = e.task
      OBVIOUS
    <3>2. t \in Existing' /\ e.status = Sep1686Status(task'[t].status)
      BY <2>3, <3>1 DEF Reported
    <3>3. t \in Tasks /\ Kept(t)
      BY <1>1, <2>1, <3>2, TaskSteps DEF Existing
    <3>4. task[t] # None /\ (t \in Existing => task[t].status \in Terminal /\ Sep1686Status(task[t].status) = shown[t])
      BY <2>1, <2>4, <3>1, <3>3 DEF ShownTrue
    <3>5. t \in Existing /\ task'[t].status = task[t].status
      BY <3>2, <3>3, <3>4 DEF Kept, Existing
    <3> QED BY <3>1, <3>2, <3>4, <3>5
  <2> QED BY <2>3, <2>4
<1> QED BY <1>1, Inductive, PTL DEF Spec, TerminalAnswersFinal

=============================================================================
