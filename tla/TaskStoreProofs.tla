--------------------------- MODULE TaskStoreProofs ---------------------------
(***************************************************************************)
(* Theorems about TaskStore, for any number of threads, tasks, principals  *)
(* and shards and any limits: the counters are exact, the limits hold and  *)
(* the store implements TaskRegistry.                                      *)
(***************************************************************************)
EXTENDS TaskStore, TLAPS, FiniteSetTheorems

\* A create that has an id and has not inserted it yet owns that id alone.
FreshIds ==
    \A w \in Workers : pc[w] \in {"checkBytes", "addBytes", "insert"} =>
        /\ wTask[w] \in TaskIds
        /\ status[wTask[w]] = "absent"
        /\ \A v \in Workers : v # w => wTask[v] # wTask[w]

\* A create past its first step knows its principal, and at the end its task.
Creators ==
    \A w \in Workers :
        /\ pc[w] \in {"principal"} \cup HoldsPrincipal => wPrin[w] \in Principals
        /\ pc[w] = "index" => wTask[w] \in TaskIds

\* A call that is to free a task's slots, or that executes for an expired
\* task, is on a task that has ended.
Enders ==
    \A w \in Workers : pc[w] \in HoldsTask \cup {"autoApprove"} =>
        wTask[w] \in TaskIds /\ status[wTask[w]] \in Terminal \cup {"removed"}

\* Every task that was ever inserted has an owner.
Owners == \A t \in TaskIds : status[t] # "absent" => owner[t] \in Principals

\* A counter that is not zero has an entry in pending_by_principal.
KeysCover == \A p \in Principals : counter[p] > 0 => p \in counterKeys

\* cleanup_terminal removes without checking again: what it collected has ended.
SweptEnded ==
    \A w \in Workers : wSweep[w] = "cleanup" =>
        \A t \in wIds[w] : status[t] \in Terminal \cup {"removed"}

\* Only a sweep has collected ids, and a worker outside its calls runs none.
SweepLabels ==
    \A w \in Workers :
        /\ pc[w] \in {"idle", "principal", "autoApprove"} \cup HoldsPrincipal => wSweep[w] = "none"
        /\ pc[w] = "scan" => wSweep[w] # "none"
        /\ wSweep[w] = "none" => wIds[w] = {}

AuxInv ==
    /\ FreshIds
    /\ Creators
    /\ Enders
    /\ Owners
    /\ KeysCover
    /\ SweptEnded
    /\ SweepLabels

IndInv == TypeOK /\ AuxInv /\ CountersExact

-----------------------------------------------------------------------------
(* Counting *)

\* One element more, one slot more.
LEMMA CardAdd ==
    ASSUME NEW S, IsFiniteSet(S), NEW x, x \notin S
    PROVE  IsFiniteSet(S \cup {x}) /\ Cardinality(S \cup {x}) = Cardinality(S) + 1
BY FS_AddElement

\* One element less, one slot less; and there was one to give back.
LEMMA CardRemove ==
    ASSUME NEW S, IsFiniteSet(S), NEW x \in S
    PROVE  /\ Cardinality(S \ {x}) = Cardinality(S) - 1
           /\ Cardinality(S) \in Nat /\ Cardinality(S) >= 1
<1>1. IsFiniteSet(S \ {x}) /\ Cardinality(S \ {x}) = Cardinality(S) - 1
  BY FS_RemoveElement
<1>2. Cardinality(S) \in Nat /\ Cardinality(S \ {x}) \in Nat
  BY <1>1, FS_CardinalityType
<1> QED BY <1>1, <1>2

\* The sets the counters count are finite.
LEMMA CountedFinite ==
    /\ IsFiniteSet(Live) /\ IsFiniteSet(Reserving)
    /\ Cardinality(Live) \in Nat /\ Cardinality(Reserving) \in Nat
    /\ \A p \in Principals :
          /\ IsFiniteSet(LiveOf(p)) /\ IsFiniteSet(Creating(p)) /\ IsFiniteSet(Ending(p))
          /\ Cardinality(LiveOf(p)) \in Nat
          /\ Cardinality(Creating(p)) \in Nat
          /\ Cardinality(Ending(p)) \in Nat
<1>1. IsFiniteSet(Live) /\ IsFiniteSet(Reserving)
  BY FiniteAssumption, FS_Subset DEF Live, Reserving
<1>2. ASSUME NEW p \in Principals
      PROVE  IsFiniteSet(LiveOf(p)) /\ IsFiniteSet(Creating(p)) /\ IsFiniteSet(Ending(p))
  BY FiniteAssumption, FS_Subset, <1>1 DEF LiveOf, Creating, Ending
<1> QED BY <1>1, <1>2, FS_CardinalityType

\* The invariant holds initially: nothing is live and no call is under way.
LEMMA InitInd == Init => IndInv
<1> SUFFICES ASSUME Init PROVE IndInv
  OBVIOUS
<1>1. TypeOK
  BY LimitAssumption DEF Init, TypeOK, Labels, Sweeps
<1>2. AuxInv
  BY DEF Init, AuxInv, FreshIds, Creators, Enders, Owners, KeysCover, SweptEnded, SweepLabels,
         HoldsPrincipal, HoldsTask, CreateSlot, EndSlot
<1>3. Live = {} /\ Reserving = {}
  BY DEF Init, Live, Reserving, NonTerminal, Status, Terminal, GlobalSlot
<1>4. \A p \in Principals : LiveOf(p) = {} /\ Creating(p) = {} /\ Ending(p) = {}
  BY <1>3 DEF Init, LiveOf, Creating, Ending, CreateSlot, EndSlot
<1>5. Cardinality({}) = 0
  BY FS_EmptySet
<1>6. /\ Cardinality(Live) = 0 /\ Cardinality(Reserving) = 0
      /\ \A p \in Principals : /\ Cardinality(LiveOf(p)) = 0
                               /\ Cardinality(Creating(p)) = 0
                               /\ Cardinality(Ending(p)) = 0
  BY <1>3, <1>4, <1>5, Zenon
<1>7. CountersExact
  BY <1>6 DEF Init, CountersExact, GlobalExact, PrincipalExact
<1> QED BY <1>1, <1>2, <1>7 DEF IndInv

-----------------------------------------------------------------------------
(* Type correctness *)

\* What Change does to the types, whichever status it moves to.
LEMMA ChangeType ==
    ASSUME TypeOK, NEW w \in Workers, NEW t \in TaskIds, NEW s \in Status, Change(w, t, s),
           approval' \in [TaskIds -> {"none", "approved", "rejected"}],
           failure' \subseteq TaskIds, result' \subseteq TaskIds,
           wSweep' = wSweep, wNow' = wNow, wShards' = wShards,
           wIds' \in [Workers -> SUBSET TaskIds]
    PROVE  TypeOK'
<1>1. status' \in [TaskIds -> Status \cup {"absent", "removed"}]
  BY DEF TypeOK, Change
<1>2. taskLock' \in [Shards -> Workers \cup {None}]
  BY DEF TypeOK, Change
<1>3. wTask' \in [Workers -> TaskIds \cup {None}]
  BY DEF TypeOK, Change
<1>4. pc' \in [Workers -> Labels]
  BY DEF TypeOK, Change, Goto, Labels
<1> QED BY <1>1, <1>2, <1>3, <1>4 DEF TypeOK, Change, clockVars, indexVars, counterVars

\* A call that holds a slot finds pending_count above zero, and a call that
\* holds a share of a principal's counter finds that above zero.
LEMMA SlotsHeld ==
    ASSUME IndInv, NEW w \in Workers
    PROVE  /\ pc[w] \in GlobalSlot => pendingCount - 1 \in 0..MaxPendingGlobal
           /\ pc[w] \in CreateSlot => counter[wPrin[w]] - 1 \in 0..MaxPendingPerPrincipal
           /\ pc[w] \in EndSlot =>
                /\ counter[owner[wTask[w]]] - 1 \in 0..MaxPendingPerPrincipal
                /\ owner[wTask[w]] \in counterKeys
<1>1. ASSUME pc[w] \in GlobalSlot PROVE pendingCount - 1 \in 0..MaxPendingGlobal
  <2>1. w \in Reserving
    BY <1>1 DEF Reserving
  <2>2. Cardinality(Reserving) >= 1
    BY <2>1, CountedFinite, CardRemove
  <2> QED BY <2>2, CountedFinite, LimitAssumption DEF IndInv, CountersExact, GlobalExact,
        PrincipalExact, TypeOK
<1>2. ASSUME pc[w] \in CreateSlot
      PROVE  counter[wPrin[w]] - 1 \in 0..MaxPendingPerPrincipal
  <2>1. wPrin[w] \in Principals /\ w \in Creating(wPrin[w])
    BY <1>2 DEF IndInv, AuxInv, Creators, Creating, HoldsPrincipal
  <2>2. Cardinality(Creating(wPrin[w])) >= 1
    BY <2>1, CountedFinite, CardRemove
  <2> QED BY <2>1, <2>2, CountedFinite, LimitAssumption DEF IndInv, CountersExact, GlobalExact,
        PrincipalExact, TypeOK
<1>3. ASSUME pc[w] \in EndSlot
      PROVE  /\ counter[owner[wTask[w]]] - 1 \in 0..MaxPendingPerPrincipal
             /\ owner[wTask[w]] \in counterKeys
  <2>1. owner[wTask[w]] \in Principals /\ w \in Ending(owner[wTask[w]])
    BY <1>3 DEF IndInv, AuxInv, Enders, Owners, Ending, HoldsTask, Terminal
  <2>2. Cardinality(Ending(owner[wTask[w]])) >= 1
    BY <2>1, CountedFinite, CardRemove
  <2>3. counter[owner[wTask[w]]] >= 1
    BY <2>1, <2>2, CountedFinite DEF IndInv, CountersExact, PrincipalExact
  <2> QED BY <2>1, <2>3, LimitAssumption DEF IndInv, AuxInv, KeysCover, TypeOK
<1> QED BY <1>1, <1>2, <1>3

\* Every step keeps every variable in its type.
LEMMA TypeStep == IndInv /\ [Next]_vars => TypeOK'
<1> SUFFICES ASSUME IndInv, [Next]_vars PROVE TypeOK'
  OBVIOUS
<1> USE LimitAssumption DEF IndInv, Labels, Goto
<1> USE DEF taskVars, clockVars, indexVars, counterVars, lockVars, callVars, sweepVars
<1>1. ASSUME NEW w \in Workers, NEW p \in Principals, NEW n \in Sizes, ReserveGlobal(w, p, n)
      PROVE  TypeOK'
  BY <1>1 DEF TypeOK, ReserveGlobal, GlobalFull
<1>2. ASSUME NEW w \in Workers, NEW t \in TaskIds, NEW s \in TransitionTargets, Transition(w,
      t, s)
      PROVE  TypeOK'
  <2>1. s \in Status /\ Change(w, t, s) /\ UNCHANGED <<approval, failure, result, sweepVars>>
    BY <1>2 DEF Transition, TransitionTargets, Status
  <2> QED BY <2>1, ChangeType DEF TypeOK
<1>3. ASSUME NEW w \in Workers, NEW t \in TaskIds, NEW d \in {"approved", "rejected"}, RecordApproval(w, t, d)
      PROVE  TypeOK'
  BY <1>3, ChangeType DEF TypeOK, RecordApproval, Status
<1>4. ASSUME NEW w \in Workers, NEW t \in TaskIds, Complete(w, t) PROVE TypeOK'
  BY <1>4, ChangeType DEF TypeOK, Complete, Status
<1>5. ASSUME NEW w \in Workers, NEW t \in TaskIds, Cancel(w, t) PROVE TypeOK'
  BY <1>5, ChangeType DEF TypeOK, Cancel, Status
<1>6. ASSUME NEW w \in Workers, NEW t \in TaskIds, FailTask(w, t), UNCHANGED sweepVars
      PROVE  TypeOK'
  BY <1>6, ChangeType DEF TypeOK, FailTask, Status
<1>7. ASSUME NEW w \in Workers, NEW t \in TaskIds, FailRefused(t), UNCHANGED <<pc, sweepVars>>
      PROVE  TypeOK'
  BY <1>7 DEF TypeOK, FailRefused
<1>8. ASSUME NEW w \in Workers,
             \/ \E t \in TaskIds : HandleExpiredTask(w, t)
             \/ RecordAutoApproveResult(w) \/ AutoApproveUnrecorded(w)
      PROVE  TypeOK'
  <2>1. CASE \E t \in TaskIds : HandleExpiredTask(w, t)
    BY <2>1 DEF TypeOK, HandleExpiredTask
  <2>2. CASE RecordAutoApproveResult(w)
    BY <2>2 DEF TypeOK, RecordAutoApproveResult, LeaveExpiredTask, AuxInv, Enders
  <2>3. CASE AutoApproveUnrecorded(w)
    BY <2>3 DEF TypeOK, AutoApproveUnrecorded, LeaveExpiredTask
  <2> QED BY <1>8, <2>1, <2>2, <2>3
<1>9. ASSUME NEW w \in Workers, NEW k \in Sweeps, StartSweep(w, k) PROVE TypeOK'
  BY <1>9 DEF TypeOK, StartSweep, Sweeps
<1>10. ASSUME NEW w \in Workers, ReservePrincipal(w) PROVE TypeOK'
  <2>1. wPrin[w] \in Principals
    BY <1>10 DEF ReservePrincipal, AuxInv, Creators
  <2>2. counter' \in [Principals -> 0..MaxPendingPerPrincipal]
    BY <1>10, <2>1 DEF TypeOK, ReservePrincipal, PrincipalFull
  <2>3. counterKeys' \subseteq Principals
    BY <1>10, <2>1 DEF TypeOK, ReservePrincipal
  <2>4. pc' \in [Workers -> Labels]
    BY <1>10 DEF TypeOK, ReservePrincipal
  <2> QED BY <1>10, <2>2, <2>3, <2>4 DEF TypeOK, ReservePrincipal
<1>11. ASSUME NEW w \in Workers, NEW t \in TaskIds, NewTask(w, t) PROVE TypeOK'
  BY <1>11 DEF TypeOK, NewTask
<1>12. ASSUME NEW w \in Workers, NewTaskFails(w) \/ BytesExceeded(w) PROVE TypeOK'
  <2>1. counter[wPrin[w]] - 1 \in 0..MaxPendingPerPrincipal
    BY <1>12, SlotsHeld DEF NewTaskFails, BytesExceeded, CreateSlot
  <2>2. counter' \in [Principals -> 0..MaxPendingPerPrincipal]
    BY <1>12, <2>1 DEF TypeOK, NewTaskFails, BytesExceeded, UndoPrincipal
  <2> QED BY <1>12, <2>2 DEF TypeOK, NewTaskFails, BytesExceeded, UndoPrincipal
<1>13. ASSUME NEW w \in Workers, CheckBytes(w) PROVE TypeOK'
  BY <1>13 DEF TypeOK, CheckBytes
<1>14. ASSUME NEW w \in Workers, AddBytes(w) PROVE TypeOK'
  BY <1>14 DEF TypeOK, AddBytes
<1>15. ASSUME NEW w \in Workers, Insert(w) PROVE TypeOK'
  BY <1>15 DEF TypeOK, Insert, AuxInv, FreshIds, Creators, HoldsPrincipal, CreateSlot, Status,
        Terminal
<1>16. ASSUME NEW w \in Workers, AddToIndex(w) PROVE TypeOK'
  <2>1. wPrin[w] \in Principals /\ wTask[w] \in TaskIds
    BY <1>16 DEF AddToIndex, AuxInv, Creators, HoldsPrincipal
  <2>2. index' \in [Principals -> SUBSET TaskIds]
    BY <1>16, <2>1 DEF TypeOK, AddToIndex
  <2> QED BY <1>16, <2>1, <2>2 DEF TypeOK, AddToIndex, ReleasePrincipal
<1>17. ASSUME NEW w \in Workers, RollbackGlobal(w) PROVE TypeOK'
  BY <1>17, SlotsHeld DEF TypeOK, RollbackGlobal, ReleasePrincipal, GlobalSlot
<1>18. ASSUME NEW w \in Workers, DecGlobal(w) PROVE TypeOK'
  BY <1>18, SlotsHeld DEF TypeOK, DecGlobal, GlobalSlot
<1>19. ASSUME NEW w \in Workers, DecBytes(w) PROVE TypeOK'
  BY <1>19 DEF TypeOK, DecBytes, AuxInv, Enders, HoldsTask, EndSlot
<1>20. ASSUME NEW w \in Workers, DecPrincipal(w) PROVE TypeOK'
  <2>1. /\ counter[owner[wTask[w]]] - 1 \in 0..MaxPendingPerPrincipal
        /\ counter' = [counter EXCEPT ![owner[wTask[w]]] = @ - 1]
    BY <1>20, SlotsHeld DEF DecPrincipal, EndSlot
  <2>2. counter' \in [Principals -> 0..MaxPendingPerPrincipal]
    BY <2>1 DEF TypeOK
  <2>3. CASE counter[owner[wTask[w]]] = 1
    BY <1>20, <2>2, <2>3 DEF TypeOK, DecPrincipal, ReleaseTask, Caller
  <2>4. CASE counter[owner[wTask[w]]] # 1
    BY <1>20, <2>2, <2>4 DEF TypeOK, DecPrincipal, ReleaseTask, Caller
  <2> QED BY <2>3, <2>4
<1>21. ASSUME NEW w \in Workers, RemoveIfZero(w) PROVE TypeOK'
  BY <1>21 DEF TypeOK, RemoveIfZero, ReleaseTask, Caller
<1>22. ASSUME NEW w \in Workers, NEW s \in Shards, Scan(w, s) PROVE TypeOK'
  BY <1>22 DEF TypeOK, Scan
<1>23. ASSUME NEW w \in Workers, NEW t \in TaskIds, SkipId(w, t) PROVE TypeOK'
  BY <1>23 DEF TypeOK, SkipId, TakeId
<1>24. ASSUME NEW w \in Workers, NEW t \in TaskIds, ExpireId(w, t) PROVE TypeOK'
  BY <1>24, ChangeType DEF TypeOK, ExpireId, TakeId, Status
<1>25. ASSUME NEW w \in Workers, NEW t \in TaskIds, FailId(w, t), FailTask(w, t) PROVE TypeOK'
  BY <1>25, ChangeType DEF TypeOK, FailId, FailTask, TakeId, Status
<1>26. ASSUME NEW w \in Workers, NEW t \in TaskIds, FailId(w, t), FailRefused(t), UNCHANGED pc
       PROVE  TypeOK'
  BY <1>26 DEF TypeOK, FailId, FailRefused, TakeId
<1>27. ASSUME NEW w \in Workers, NEW t \in TaskIds, RemoveId(w, t) PROVE TypeOK'
  BY <1>27 DEF TypeOK, RemoveId, TakeId
<1>28. ASSUME NEW w \in Workers, Unindex(w) PROVE TypeOK'
  BY <1>28 DEF TypeOK, Unindex
<1>29. ASSUME NEW w \in Workers, DropKey(w) PROVE TypeOK'
  BY <1>29 DEF TypeOK, DropKey
<1>30. ASSUME NEW w \in Workers, EndSweep(w) PROVE TypeOK'
  BY <1>30 DEF TypeOK, EndSweep
<1>31. ASSUME NEW t \in TaskIds, TtlPasses(t) \/ GracePasses(t) PROVE TypeOK'
  BY <1>31 DEF TypeOK, TtlPasses, GracePasses
<1>32. CASE UNCHANGED vars
  BY <1>32 DEF TypeOK, vars
<1> QED
  BY <1>1, <1>2, <1>3, <1>4, <1>5, <1>6, <1>7, <1>8, <1>9, <1>10, <1>11, <1>12, <1>13, <1>14,
        <1>15, <1>16, <1>17, <1>18, <1>19, <1>20, <1>21, <1>22, <1>23, <1>24, <1>25, <1>26,
        <1>27, <1>28, <1>29, <1>30, <1>31, <1>32
  DEF Next, Call, Step, Clock, Fail, FailId

-----------------------------------------------------------------------------
(* The auxiliary invariants *)

\* A change of status under the entry's lock keeps them, in a call of its own or in a sweep.
LEMMA ChangeAux ==
    ASSUME IndInv, NEW w \in Workers, NEW t \in TaskIds, NEW s \in Status, Change(w, t, s),
           pc[w] \in {"idle", "each"}, wSweep' = wSweep,
           \A v \in Workers : wIds'[v] \subseteq wIds[v]
    PROVE  AuxInv'
<1> USE DEF HoldsPrincipal, HoldsTask, CreateSlot, EndSlot
<1>1. status[t] \in NonTerminal /\ s \in Status
  BY DEF Change, CanTransitionTo, Transitions, NonTerminal, Terminal, Status
<1>2. status'[t] = s /\ (\A u \in TaskIds : u # t => status'[u] = status[u]) /\ UNCHANGED <<owner, counter, counterKeys, wPrin>>
  BY DEF Change, IndInv, TypeOK, counterVars
<1>3. \A v \in Workers : v # w => pc'[v] = pc[v] /\ wTask'[v] = wTask[v]
  BY DEF Change, Goto, IndInv, TypeOK
<1>4. \/ pc'[w] = pc[w] /\ wTask'[w] = wTask[w]
      \/ pc'[w] = "decGlobal" /\ wTask'[w] = t /\ s \in Terminal
  BY DEF Change, Goto, IndInv, TypeOK
<1>5. "absent" \notin NonTerminal /\ "removed" \notin NonTerminal /\ NonTerminal \cap Terminal = {} /\ Terminal \subseteq Status
  BY DEF NonTerminal, Terminal, Status
<1>6. FreshIds'
  <2>1. ASSUME NEW v \in Workers, pc'[v] \in {"checkBytes", "addBytes", "insert"}
        PROVE  v # w /\ wTask[v] \in TaskIds /\ status[wTask[v]] = "absent" /\ wTask[v] # t
               /\ (\A u \in Workers : u # v => wTask[u] # wTask[v])
    BY <1>1, <1>3, <1>4, <1>5, <2>1 DEF IndInv, AuxInv, FreshIds
  <2> QED BY <1>2, <1>3, <1>4, <2>1 DEF FreshIds
<1>7. Creators'
  BY <1>2, <1>3, <1>4 DEF IndInv, AuxInv, Creators
<1>8. Enders'
  BY <1>1, <1>2, <1>3, <1>4, <1>5 DEF IndInv, AuxInv, Enders
<1>9. Owners'
  BY <1>1, <1>2, <1>5 DEF IndInv, AuxInv, Owners
<1>10. KeysCover'
  BY <1>2 DEF IndInv, AuxInv, KeysCover
<1>11. SweptEnded'
  BY <1>1, <1>2, <1>5 DEF IndInv, TypeOK, AuxInv, SweptEnded
<1>12. SweepLabels'
  <2>1. \A v \in Workers : wSweep[v] = "none" => wIds'[v] = {}
    BY DEF IndInv, AuxInv, SweepLabels
  <2> QED BY <1>3, <1>4, <2>1 DEF IndInv, AuxInv, SweepLabels
<1> QED BY <1>6, <1>7, <1>8, <1>9, <1>10, <1>11, <1>12 DEF AuxInv

\* Every step keeps the facts that tie a worker's label to its task.
LEMMA AuxStep == IndInv /\ [Next]_vars => AuxInv'
<1> SUFFICES ASSUME IndInv, [Next]_vars PROVE AuxInv'
  OBVIOUS
<1> USE NoneAssumption DEF IndInv, TypeOK, AuxInv, Goto, HoldsPrincipal, HoldsTask, CreateSlot,
      EndSlot
<1> USE DEF FreshIds, Creators, Enders, Owners, KeysCover, SweptEnded, SweepLabels
<1> USE DEF taskVars, clockVars, indexVars, counterVars, lockVars, callVars, sweepVars
<1> USE DEF Status, NonTerminal, Terminal, Present
<1>1. ASSUME NEW w \in Workers, NEW p \in Principals, NEW n \in Sizes, ReserveGlobal(w, p, n)
      PROVE  AuxInv'
  BY <1>1 DEF ReserveGlobal
<1>2. ASSUME NEW w \in Workers, NEW t \in TaskIds, NEW s \in TransitionTargets, Transition(w,
      t, s)
      PROVE  AuxInv'
  BY <1>2, ChangeAux DEF Transition, TransitionTargets, sweepVars, Status
<1>3. ASSUME NEW w \in Workers, NEW t \in TaskIds, NEW d \in {"approved", "rejected"}, RecordApproval(w, t, d)
      PROVE  AuxInv'
  BY <1>3, ChangeAux DEF RecordApproval, sweepVars, Status
<1>4. ASSUME NEW w \in Workers, NEW t \in TaskIds, Complete(w, t) PROVE AuxInv'
  BY <1>4, ChangeAux DEF Complete, sweepVars, Status
<1>5. ASSUME NEW w \in Workers, NEW t \in TaskIds, Cancel(w, t) PROVE AuxInv'
  BY <1>5, ChangeAux DEF Cancel, sweepVars, Status
<1>6. ASSUME NEW w \in Workers, NEW t \in TaskIds, FailTask(w, t), pc[w] = "idle", UNCHANGED sweepVars
      PROVE  AuxInv'
  BY <1>6, ChangeAux DEF FailTask, sweepVars, Status
<1>7. ASSUME NEW w \in Workers, NEW t \in TaskIds, FailRefused(t), UNCHANGED <<pc, sweepVars>>
      PROVE  AuxInv'
  BY <1>7 DEF FailRefused
<1>8. ASSUME NEW w \in Workers,
             \/ \E t \in TaskIds : HandleExpiredTask(w, t)
             \/ RecordAutoApproveResult(w) \/ AutoApproveUnrecorded(w)
      PROVE  AuxInv'
  <2>1. CASE \E t \in TaskIds : HandleExpiredTask(w, t)
    BY <2>1 DEF HandleExpiredTask
  <2>2. CASE RecordAutoApproveResult(w)
    BY <2>2 DEF RecordAutoApproveResult, LeaveExpiredTask
  <2>3. CASE AutoApproveUnrecorded(w)
    BY <2>3 DEF AutoApproveUnrecorded, LeaveExpiredTask
  <2> QED BY <1>8, <2>1, <2>2, <2>3
<1>9. ASSUME NEW w \in Workers, NEW k \in Sweeps, StartSweep(w, k) PROVE AuxInv'
  BY <1>9 DEF StartSweep, Sweeps
<1>10. ASSUME NEW w \in Workers, ReservePrincipal(w) PROVE AuxInv'
  BY <1>10 DEF ReservePrincipal, PrincipalFull
<1>11. ASSUME NEW w \in Workers, NEW t \in TaskIds, NewTask(w, t) PROVE AuxInv'
  BY <1>11 DEF NewTask
<1>12. ASSUME NEW w \in Workers, NewTaskFails(w) \/ BytesExceeded(w) PROVE AuxInv'
  <2>1. FreshIds'
    BY <1>12 DEF NewTaskFails, BytesExceeded, UndoPrincipal
  <2>2. Creators'
    BY <1>12 DEF NewTaskFails, BytesExceeded, UndoPrincipal
  <2>3. Enders'
    BY <1>12 DEF NewTaskFails, BytesExceeded, UndoPrincipal
  <2>4. Owners'
    BY <1>12 DEF NewTaskFails, BytesExceeded, UndoPrincipal
  <2>5. KeysCover'
    BY <1>12 DEF NewTaskFails, BytesExceeded, UndoPrincipal
  <2>6. SweptEnded'
    BY <1>12 DEF NewTaskFails, BytesExceeded, UndoPrincipal
  <2>7. SweepLabels'
    BY <1>12 DEF NewTaskFails, BytesExceeded, UndoPrincipal
  <2> QED BY <2>1, <2>2, <2>3, <2>4, <2>5, <2>6, <2>7
<1>13. ASSUME NEW w \in Workers, CheckBytes(w) PROVE AuxInv'
  BY <1>13 DEF CheckBytes
<1>14. ASSUME NEW w \in Workers, AddBytes(w) PROVE AuxInv'
  BY <1>14 DEF AddBytes
<1>15. ASSUME NEW w \in Workers, Insert(w) PROVE AuxInv'
  BY <1>15 DEF Insert
<1>16. ASSUME NEW w \in Workers, AddToIndex(w) PROVE AuxInv'
  BY <1>16 DEF AddToIndex, ReleasePrincipal
<1>17. ASSUME NEW w \in Workers, RollbackGlobal(w) PROVE AuxInv'
  BY <1>17 DEF RollbackGlobal, ReleasePrincipal
<1>18. ASSUME NEW w \in Workers, DecGlobal(w) PROVE AuxInv'
  BY <1>18 DEF DecGlobal
<1>19. ASSUME NEW w \in Workers, DecBytes(w) PROVE AuxInv'
  BY <1>19 DEF DecBytes
<1>20. ASSUME NEW w \in Workers, DecPrincipal(w) PROVE AuxInv'
  <2>1. FreshIds'
    BY <1>20 DEF DecPrincipal, ReleaseTask, Caller
  <2>2. Creators'
    BY <1>20 DEF DecPrincipal, ReleaseTask, Caller
  <2>3. Enders'
    <3>1. /\ UNCHANGED status /\ pc'[w] \in {"removeIf", "idle", "each"}
          /\ pc'[w] = "removeIf" => wTask'[w] = wTask[w]
          /\ \A v \in Workers : v # w => pc'[v] = pc[v] /\ wTask'[v] = wTask[v]
          /\ pc[w] = "decPrincipal"
      BY <1>20 DEF DecPrincipal, ReleaseTask, Caller
    <3> QED BY <3>1
  <2>4. Owners'
    BY <1>20 DEF DecPrincipal, ReleaseTask, Caller
  <2>5. KeysCover'
    BY <1>20 DEF DecPrincipal, ReleaseTask, Caller
  <2>6. SweptEnded'
    BY <1>20 DEF DecPrincipal, ReleaseTask, Caller
  <2>7. SweepLabels'
    BY <1>20 DEF DecPrincipal, ReleaseTask, Caller
  <2> QED BY <2>1, <2>2, <2>3, <2>4, <2>5, <2>6, <2>7
<1>21. ASSUME NEW w \in Workers, RemoveIfZero(w) PROVE AuxInv'
  BY <1>21 DEF RemoveIfZero, ReleaseTask, Caller
<1>22. ASSUME NEW w \in Workers, NEW s \in Shards, Scan(w, s) PROVE AuxInv'
  <2>1. FreshIds'
    BY <1>22 DEF Scan, Collects
  <2>2. Creators'
    BY <1>22 DEF Scan, Collects
  <2>3. Enders'
    BY <1>22 DEF Scan, Collects
  <2>4. Owners'
    BY <1>22 DEF Scan, Collects
  <2>5. KeysCover'
    BY <1>22 DEF Scan, Collects
  <2>6. SweptEnded'
    BY <1>22 DEF Scan, Collects
  <2>7. SweepLabels'
    BY <1>22 DEF Scan, Collects
  <2> QED BY <2>1, <2>2, <2>3, <2>4, <2>5, <2>6, <2>7
<1>23. ASSUME NEW w \in Workers, NEW t \in TaskIds, SkipId(w, t) PROVE AuxInv'
  BY <1>23 DEF SkipId, TakeId
<1>24. ASSUME NEW w \in Workers, NEW t \in TaskIds, ExpireId(w, t) PROVE AuxInv'
  <2>1. "Expired" \in Status /\ \A v \in Workers : wIds'[v] \subseteq wIds[v]
    BY <1>24 DEF ExpireId, TakeId
  <2> QED BY <1>24, <2>1, ChangeAux DEF ExpireId, TakeId
<1>25. ASSUME NEW w \in Workers, NEW t \in TaskIds, FailId(w, t), FailTask(w, t) PROVE AuxInv'
  <2>1. "Failed" \in Status /\ \A v \in Workers : wIds'[v] \subseteq wIds[v]
    BY <1>25 DEF FailId, TakeId
  <2> QED BY <1>25, <2>1, ChangeAux DEF FailId, FailTask, TakeId
<1>26. ASSUME NEW w \in Workers, NEW t \in TaskIds, FailId(w, t), FailRefused(t), UNCHANGED pc
       PROVE  AuxInv'
  BY <1>26 DEF FailId, FailRefused, TakeId
<1>27. ASSUME NEW w \in Workers, NEW t \in TaskIds, RemoveId(w, t) PROVE AuxInv'
  BY <1>27 DEF RemoveId, TakeId
<1>28. ASSUME NEW w \in Workers, Unindex(w) PROVE AuxInv'
  BY <1>28 DEF Unindex
<1>29. ASSUME NEW w \in Workers, DropKey(w) PROVE AuxInv'
  BY <1>29 DEF DropKey
<1>30. ASSUME NEW w \in Workers, EndSweep(w) PROVE AuxInv'
  BY <1>30 DEF EndSweep
<1>31. ASSUME NEW t \in TaskIds, TtlPasses(t) \/ GracePasses(t) PROVE AuxInv'
  BY <1>31 DEF TtlPasses, GracePasses
<1>32. CASE UNCHANGED vars
  BY <1>32 DEF vars
<1> HIDE NoneAssumption DEF IndInv, TypeOK, AuxInv, Goto, HoldsPrincipal, HoldsTask, CreateSlot,
      EndSlot, FreshIds, Creators, Enders, Owners, KeysCover, SweptEnded, SweepLabels, taskVars,
      clockVars, indexVars, counterVars, lockVars, callVars, sweepVars, Status, NonTerminal, Terminal,
      Present
<1> QED
  BY <1>1, <1>2, <1>3, <1>4, <1>5, <1>6, <1>7, <1>8, <1>9, <1>10, <1>11, <1>12, <1>13, <1>14,
        <1>15, <1>16, <1>17, <1>18, <1>19, <1>20, <1>21, <1>22, <1>23, <1>24, <1>25, <1>26,
        <1>27, <1>28, <1>29, <1>30, <1>31, <1>32
  DEF Next, Call, Step, Clock, Fail, FailId

-----------------------------------------------------------------------------
(* The counters *)

\* A step that leaves what pending_count counts alone keeps it exact.
LEMMA SameGlobal ==
    ASSUME GlobalExact, pendingCount' = pendingCount, Live' = Live, Reserving' = Reserving
    PROVE  GlobalExact'
BY Zenon DEF GlobalExact

\* The same for one principal's counter.
LEMMA SamePrincipal ==
    ASSUME NEW p \in Principals, PrincipalExact(p), counter'[p] = counter[p],
           LiveOf(p)' = LiveOf(p), Creating(p)' = Creating(p), Ending(p)' = Ending(p)
    PROVE  PrincipalExact(p)'
BY Zenon DEF PrincipalExact

\* A call that takes or gives back a global slot moves the count with it.
LEMMA SlotTaken ==
    ASSUME GlobalExact, NEW w, w \notin Reserving, TypeOK, pendingCount' = pendingCount + 1,
           Live' = Live, Reserving' = Reserving \cup {w}
    PROVE  GlobalExact'
<1>1. Cardinality(Reserving') = Cardinality(Reserving) + 1
  BY CountedFinite, CardAdd
<1>2. Cardinality(Live') = Cardinality(Live)
  BY Zenon
<1> QED BY <1>1, <1>2, CountedFinite DEF GlobalExact

\* ... when it is given back.
LEMMA SlotReturned ==
    ASSUME GlobalExact, NEW w \in Reserving, TypeOK, pendingCount' = pendingCount - 1,
           Live' = Live, Reserving' = Reserving \ {w}
    PROVE  GlobalExact'
<1>1. Cardinality(Reserving') = Cardinality(Reserving) - 1
  BY CountedFinite, CardRemove
<1>2. Cardinality(Live') = Cardinality(Live)
  BY Zenon
<1> QED BY <1>1, <1>2, CountedFinite DEF GlobalExact

\* A move to a terminal status hands the task's slots to the call that made
\* it, to be given back; any other move changes no count.
LEMMA ChangeCounts ==
    ASSUME IndInv, NEW w \in Workers, NEW t \in TaskIds, NEW s \in Status, Change(w, t, s),
           pc[w] \in {"idle", "each"}
    PROVE  CountersExact'
<1> USE DEF IndInv, TypeOK, Change, Goto, CanTransitionTo, Transitions, counterVars
<1> USE DEF Status, Terminal, NonTerminal
<1>1. t \in Live /\ owner[t] \in Principals
  BY DEF Live, AuxInv, Owners
<1>2. GlobalExact /\ \A p \in Principals : PrincipalExact(p)
  BY DEF CountersExact
<1>3. CASE s \notin Terminal
  <2>1. Live' = Live /\ Reserving' = Reserving
    BY <1>3, <1>1 DEF Live, Reserving
  <2>2. ASSUME NEW p \in Principals
        PROVE  LiveOf(p)' = LiveOf(p) /\ Creating(p)' = Creating(p) /\ Ending(p)' = Ending(p)
    BY <1>3, <2>1 DEF LiveOf, Creating, Ending
  <2> QED BY <1>2, <2>1, <2>2, SameGlobal, SamePrincipal DEF CountersExact
<1>4. CASE s \in Terminal
  <2>1. Live' = Live \ {t}
    BY <1>4, <1>1 DEF Live
  <2>2. Reserving' = Reserving \cup {w} /\ w \notin Reserving
    BY <1>4 DEF Reserving, GlobalSlot
  <2>3. GlobalExact'
    <3>1. Cardinality(Live') = Cardinality(Live) - 1
      BY <2>1, <1>1, CountedFinite, CardRemove
    <3>2. Cardinality(Reserving') = Cardinality(Reserving) + 1
      BY <2>2, CountedFinite, CardAdd
    <3> QED BY <1>2, <3>1, <3>2, CountedFinite DEF GlobalExact
  <2>4. ASSUME NEW p \in Principals PROVE PrincipalExact(p)'
    <3>1. Creating(p)' = Creating(p)
      BY <1>4 DEF Creating, CreateSlot
    <3>2. CASE p = owner[t]
      <4>1. LiveOf(p)' = LiveOf(p) \ {t} /\ t \in LiveOf(p)
        BY <2>1, <1>1, <3>2 DEF LiveOf
      <4>2. Ending(p)' = Ending(p) \cup {w} /\ w \notin Ending(p)
        BY <1>4, <3>2 DEF Ending, EndSlot
      <4>3. Cardinality(LiveOf(p)') = Cardinality(LiveOf(p)) - 1
        BY <4>1, CountedFinite, CardRemove
      <4>4. Cardinality(Ending(p)') = Cardinality(Ending(p)) + 1
        BY <4>2, CountedFinite, CardAdd
      <4>5. Cardinality(Creating(p)') = Cardinality(Creating(p))
        BY <3>1, Zenon
      <4> QED BY <1>2, <4>3, <4>4, <4>5, CountedFinite DEF PrincipalExact
    <3>3. CASE p # owner[t]
      <4>1. LiveOf(p)' = LiveOf(p)
        BY <2>1, <1>1, <3>3 DEF LiveOf
      <4>2. Ending(p)' = Ending(p)
        BY <1>4, <3>3 DEF Ending, EndSlot
      <4> QED BY <1>2, <3>1, <4>1, <4>2, SamePrincipal
    <3> QED BY <3>2, <3>3
  <2> QED BY <2>3, <2>4 DEF CountersExact
<1> QED BY <1>3, <1>4

\* A step between labels that count the same, on no task's status and on no
\* counter, keeps the counters exact.
LEMMA FrameCounts ==
    ASSUME IndInv, pendingCount' = pendingCount, counter' = counter, owner' = owner,
           Live' = Live,
           \A v \in Workers :
              /\ pc'[v] \in GlobalSlot <=> pc[v] \in GlobalSlot
              /\ pc'[v] \in CreateSlot <=> pc[v] \in CreateSlot
              /\ pc'[v] \in EndSlot <=> pc[v] \in EndSlot
              /\ pc[v] \in CreateSlot => wPrin'[v] = wPrin[v]
              /\ pc[v] \in EndSlot => wTask'[v] = wTask[v]
    PROVE  CountersExact'
<1>1. Reserving' = Reserving
  BY DEF Reserving
<1>2. ASSUME NEW p \in Principals
      PROVE  LiveOf(p)' = LiveOf(p) /\ Creating(p)' = Creating(p) /\ Ending(p)' = Ending(p)
  BY DEF LiveOf, Creating, Ending
<1> QED BY <1>1, <1>2, SameGlobal, SamePrincipal DEF IndInv, CountersExact

\* create takes its principal's share of the counter.
LEMMA ReserveCounts ==
    ASSUME IndInv, NEW w \in Workers, ReservePrincipal(w)
    PROVE  CountersExact'
<1> USE DEF IndInv, TypeOK, ReservePrincipal, Goto, taskVars, callVars
<1> DEFINE p == wPrin[w]
<1>1. p \in Principals
  BY DEF AuxInv, Creators
<1>2. Live' = Live
  BY DEF Live
<1>3. CASE PrincipalFull(p)
  BY <1>2, <1>3, FrameCounts DEF GlobalSlot, CreateSlot, EndSlot
<1>4. CASE ~PrincipalFull(p)
  <2>1. Reserving' = Reserving
    BY <1>4 DEF Reserving, GlobalSlot
  <2>2. ASSUME NEW q \in Principals PROVE PrincipalExact(q)'
    <3>1. LiveOf(q)' = LiveOf(q) /\ Ending(q)' = Ending(q)
      BY <1>2, <1>4 DEF LiveOf, Ending, EndSlot
    <3>2. CASE q = p
      <4>1. Creating(q)' = Creating(q) \cup {w} /\ w \notin Creating(q)
        BY <1>4, <3>2 DEF Creating, CreateSlot
      <4>2. Cardinality(Creating(q)') = Cardinality(Creating(q)) + 1
        BY <4>1, CountedFinite, CardAdd
      <4>3. /\ Cardinality(LiveOf(q)') = Cardinality(LiveOf(q))
            /\ Cardinality(Ending(q)') = Cardinality(Ending(q))
        BY <3>1, Zenon
      <4>4. counter'[q] = counter[q] + 1
        BY <1>1, <1>4, <3>2
      <4> QED BY <4>2, <4>3, <4>4, CountedFinite DEF CountersExact, PrincipalExact
    <3>3. CASE q # p
      <4>1. Creating(q)' = Creating(q)
        BY <1>4, <3>3 DEF Creating, CreateSlot
      <4>2. counter'[q] = counter[q]
        BY <1>1, <1>4, <3>3
      <4> QED BY <3>1, <4>1, <4>2, SamePrincipal DEF CountersExact
    <3> QED BY <3>2, <3>3
  <2> QED BY <1>2, <2>1, <2>2, SameGlobal DEF CountersExact
<1> QED BY <1>3, <1>4

\* An error path of create gives that share back.
LEMMA UndoCounts ==
    ASSUME IndInv, NEW w \in Workers, pc[w] \in {"build", "checkBytes"}, UndoPrincipal(w)
    PROVE  CountersExact'
<1> USE DEF IndInv, TypeOK, UndoPrincipal, Goto, taskVars
<1> DEFINE p == wPrin[w]
<1>1. p \in Principals
  BY DEF AuxInv, Creators, HoldsPrincipal, CreateSlot
<1>2. Live' = Live
  BY DEF Live
<1>3. Reserving' = Reserving
  BY DEF Reserving, GlobalSlot
<1>4. ASSUME NEW q \in Principals PROVE PrincipalExact(q)'
  <2>1. LiveOf(q)' = LiveOf(q) /\ Ending(q)' = Ending(q)
    BY <1>2 DEF LiveOf, Ending, EndSlot
  <2>2. CASE q = p
    <3>1. Creating(q)' = Creating(q) \ {w} /\ w \in Creating(q)
      BY <2>2 DEF Creating, CreateSlot
    <3>2. Cardinality(Creating(q)') = Cardinality(Creating(q)) - 1
      BY <3>1, CountedFinite, CardRemove
    <3>3. /\ Cardinality(LiveOf(q)') = Cardinality(LiveOf(q))
          /\ Cardinality(Ending(q)') = Cardinality(Ending(q))
      BY <2>1, Zenon
    <3>4. counter'[q] = counter[q] - 1
      BY <1>1, <2>2
    <3> QED BY <3>2, <3>3, <3>4, CountedFinite DEF CountersExact, PrincipalExact
  <2>3. CASE q # p
    <3>1. Creating(q)' = Creating(q)
      BY <2>3 DEF Creating, CreateSlot
    <3>2. counter'[q] = counter[q]
      BY <1>1, <2>3
    <3> QED BY <2>1, <3>1, <3>2, SamePrincipal DEF CountersExact
  <2> QED BY <2>2, <2>3
<1> QED BY <1>2, <1>3, <1>4, SameGlobal DEF CountersExact

\* The insertion turns both reservations into a live task.
LEMMA InsertCounts ==
    ASSUME IndInv, NEW w \in Workers, Insert(w)
    PROVE  CountersExact'
<1> USE DEF IndInv, TypeOK, Insert, Goto, counterVars, callVars
<1> DEFINE p == wPrin[w]
           t == wTask[w]
<1>1. p \in Principals /\ t \in TaskIds /\ status[t] = "absent"
  BY DEF AuxInv, Creators, FreshIds, HoldsPrincipal, CreateSlot
<1>2. Live' = Live \cup {t} /\ t \notin Live
  BY <1>1 DEF Live, NonTerminal, Status, Terminal
<1>3. Reserving' = Reserving \ {w} /\ w \in Reserving
  BY DEF Reserving, GlobalSlot
<1>4. GlobalExact'
  <2>1. Cardinality(Live') = Cardinality(Live) + 1
    BY <1>2, CountedFinite, CardAdd
  <2>2. Cardinality(Reserving') = Cardinality(Reserving) - 1
    BY <1>3, CountedFinite, CardRemove
  <2> QED BY <2>1, <2>2, CountedFinite DEF CountersExact, GlobalExact
<1>5. ASSUME NEW q \in Principals PROVE PrincipalExact(q)'
  <2>1. Ending(q)' = Ending(q)
    BY <1>1 DEF Ending, EndSlot, AuxInv, Enders, HoldsTask, Terminal
  <2>2. CASE q = p
    <3>1. LiveOf(q)' = LiveOf(q) \cup {t} /\ t \notin LiveOf(q)
      BY <1>1, <1>2, <2>2 DEF LiveOf, Live
    <3>2. Creating(q)' = Creating(q) \ {w} /\ w \in Creating(q)
      BY <2>2 DEF Creating, CreateSlot
    <3>3. Cardinality(LiveOf(q)') = Cardinality(LiveOf(q)) + 1
      BY <3>1, CountedFinite, CardAdd
    <3>4. Cardinality(Creating(q)') = Cardinality(Creating(q)) - 1
      BY <3>2, CountedFinite, CardRemove
    <3>5. Cardinality(Ending(q)') = Cardinality(Ending(q))
      BY <2>1, Zenon
    <3> QED BY <3>3, <3>4, <3>5, CountedFinite DEF CountersExact, PrincipalExact
  <2>3. CASE q # p
    <3>1. LiveOf(q)' = LiveOf(q)
      BY <1>1, <1>2, <2>3 DEF LiveOf, Live
    <3>2. Creating(q)' = Creating(q)
      BY <2>3 DEF Creating, CreateSlot
    <3> QED BY <2>1, <3>1, <3>2, SamePrincipal DEF CountersExact
  <2> QED BY <2>2, <2>3
<1> QED BY <1>4, <1>5 DEF CountersExact

\* decrement_pending_counters gives back the principal's share, because the
\* entry it looks up exists.
LEMMA DecPrincipalCounts ==
    ASSUME IndInv, NEW w \in Workers, DecPrincipal(w)
    PROVE  CountersExact'
<1> USE DEF IndInv, TypeOK, DecPrincipal, ReleaseTask, Caller, Goto, taskVars
<1> DEFINE p == owner[wTask[w]]
<1>1. p \in Principals /\ p \in counterKeys
  BY SlotsHeld DEF AuxInv, Enders, Owners, HoldsTask, EndSlot, Terminal
<1>2. Live' = Live
  BY DEF Live
<1>3. Reserving' = Reserving
  BY DEF Reserving, GlobalSlot
<1>4. ASSUME NEW q \in Principals PROVE PrincipalExact(q)'
  <2>1. LiveOf(q)' = LiveOf(q) /\ Creating(q)' = Creating(q)
    BY <1>2 DEF LiveOf, Creating, CreateSlot
  <2>2. CASE q = p
    <3>1. Ending(q)' = Ending(q) \ {w} /\ w \in Ending(q)
      BY <2>2 DEF Ending, EndSlot
    <3>2. Cardinality(Ending(q)') = Cardinality(Ending(q)) - 1
      BY <3>1, CountedFinite, CardRemove
    <3>3. /\ Cardinality(LiveOf(q)') = Cardinality(LiveOf(q))
          /\ Cardinality(Creating(q)') = Cardinality(Creating(q))
      BY <2>1, Zenon
    <3>4. counter'[q] = counter[q] - 1
      BY <1>1, <2>2
    <3> QED BY <3>2, <3>3, <3>4, CountedFinite DEF CountersExact, PrincipalExact
  <2>3. CASE q # p
    <3>1. Ending(q)' = Ending(q)
      BY <2>3 DEF Ending, EndSlot
    <3>2. counter'[q] = counter[q]
      BY <1>1, <2>3
    <3> QED BY <2>1, <3>1, <3>2, SamePrincipal DEF CountersExact
  <2> QED BY <2>2, <2>3
<1> QED BY <1>2, <1>3, <1>4, SameGlobal DEF CountersExact

\* Every step keeps pending_count and the per-principal counters exact.
LEMMA CountStep == IndInv /\ [Next]_vars => CountersExact'
<1> SUFFICES ASSUME IndInv, [Next]_vars PROVE CountersExact'
  OBVIOUS
<1> USE DEF IndInv, TypeOK, Goto
<1> USE DEF taskVars, clockVars, indexVars, counterVars, lockVars, callVars, sweepVars
<1>1. ASSUME NEW w \in Workers, NEW p \in Principals, NEW n \in Sizes, ReserveGlobal(w, p, n)
      PROVE  CountersExact'
  <2>1. Live' = Live
    BY <1>1 DEF ReserveGlobal, Live
  <2>2. Reserving' = Reserving \cup {w} /\ w \notin Reserving
    BY <1>1 DEF ReserveGlobal, Reserving, GlobalSlot
  <2>3. GlobalExact'
    BY <1>1, <2>1, <2>2, SlotTaken DEF ReserveGlobal, CountersExact
  <2>4. ASSUME NEW q \in Principals
        PROVE  LiveOf(q)' = LiveOf(q) /\ Creating(q)' = Creating(q) /\ Ending(q)' = Ending(q)
    BY <1>1, <2>1 DEF ReserveGlobal, LiveOf, Creating, Ending, CreateSlot, EndSlot
  <2> QED BY <1>1, <2>3, <2>4, SamePrincipal DEF ReserveGlobal, CountersExact
<1>2. ASSUME NEW w \in Workers, NEW t \in TaskIds, NEW s \in TransitionTargets, Transition(w,
      t, s)
      PROVE  CountersExact'
  BY <1>2, ChangeCounts DEF Transition, TransitionTargets, Status
<1>3. ASSUME NEW w \in Workers, NEW t \in TaskIds, NEW d \in {"approved", "rejected"}, RecordApproval(w, t, d)
      PROVE  CountersExact'
  BY <1>3, ChangeCounts DEF RecordApproval, Status
<1>4. ASSUME NEW w \in Workers, NEW t \in TaskIds, Complete(w, t) PROVE CountersExact'
  BY <1>4, ChangeCounts DEF Complete, Status
<1>5. ASSUME NEW w \in Workers, NEW t \in TaskIds, Cancel(w, t) PROVE CountersExact'
  BY <1>5, ChangeCounts DEF Cancel, Status
<1>6. ASSUME NEW w \in Workers, NEW t \in TaskIds, FailTask(w, t), pc[w] = "idle", UNCHANGED sweepVars
      PROVE  CountersExact'
  BY <1>6, ChangeCounts DEF FailTask, Status
<1>7. ASSUME NEW w \in Workers, NEW t \in TaskIds, FailRefused(t), UNCHANGED <<pc, sweepVars>>
      PROVE  CountersExact'
  <2>1. Live' = Live
    BY <1>7 DEF FailRefused, Live
  <2> QED BY <1>7, <2>1, FrameCounts DEF FailRefused, GlobalSlot, CreateSlot, EndSlot
<1>8. ASSUME NEW w \in Workers,
             \/ \E t \in TaskIds : HandleExpiredTask(w, t)
             \/ RecordAutoApproveResult(w) \/ AutoApproveUnrecorded(w)
      PROVE  CountersExact'
  <2>1. Live' = Live
    BY <1>8 DEF HandleExpiredTask, LeaveExpiredTask, RecordAutoApproveResult,
     AutoApproveUnrecorded, Live
  <2> QED BY <1>8, <2>1, FrameCounts
          DEF HandleExpiredTask, LeaveExpiredTask, RecordAutoApproveResult,
     AutoApproveUnrecorded, GlobalSlot, CreateSlot, EndSlot
<1>9. ASSUME NEW w \in Workers, NEW k \in Sweeps, StartSweep(w, k) PROVE CountersExact'
  <2>1. Live' = Live
    BY <1>9 DEF StartSweep, Live
  <2> QED BY <1>9, <2>1, FrameCounts DEF StartSweep, GlobalSlot, CreateSlot, EndSlot
<1>10. ASSUME NEW w \in Workers, ReservePrincipal(w) PROVE CountersExact'
  BY <1>10, ReserveCounts
<1>11. ASSUME NEW w \in Workers, NEW t \in TaskIds, NewTask(w, t) PROVE CountersExact'
  <2>1. Live' = Live
    BY <1>11 DEF NewTask, Live
  <2> QED BY <1>11, <2>1, FrameCounts DEF NewTask, GlobalSlot, CreateSlot, EndSlot
<1>12. ASSUME NEW w \in Workers, NewTaskFails(w) \/ BytesExceeded(w) PROVE CountersExact'
  BY <1>12, UndoCounts DEF NewTaskFails, BytesExceeded
<1>13. ASSUME NEW w \in Workers, CheckBytes(w) PROVE CountersExact'
  <2>1. Live' = Live
    BY <1>13 DEF CheckBytes, Live
  <2> QED BY <1>13, <2>1, FrameCounts DEF CheckBytes, GlobalSlot, CreateSlot, EndSlot
<1>14. ASSUME NEW w \in Workers, AddBytes(w) PROVE CountersExact'
  <2>1. Live' = Live
    BY <1>14 DEF AddBytes, Live
  <2> QED BY <1>14, <2>1, FrameCounts DEF AddBytes, GlobalSlot, CreateSlot, EndSlot
<1>15. ASSUME NEW w \in Workers, Insert(w) PROVE CountersExact'
  BY <1>15, InsertCounts
<1>16. ASSUME NEW w \in Workers, AddToIndex(w) PROVE CountersExact'
  <2>1. Live' = Live
    BY <1>16 DEF AddToIndex, ReleasePrincipal, Live
  <2> QED BY <1>16, <2>1, FrameCounts DEF AddToIndex, ReleasePrincipal, GlobalSlot, CreateSlot,
        EndSlot
<1>17. ASSUME NEW w \in Workers, RollbackGlobal(w) PROVE CountersExact'
  <2>1. Live' = Live
    BY <1>17 DEF RollbackGlobal, ReleasePrincipal, Live
  <2>2. Reserving' = Reserving \ {w} /\ w \in Reserving
    BY <1>17 DEF RollbackGlobal, ReleasePrincipal, Reserving, GlobalSlot
  <2>3. GlobalExact'
    BY <1>17, <2>1, <2>2, SlotReturned DEF RollbackGlobal, ReleasePrincipal, CountersExact
  <2>4. ASSUME NEW q \in Principals
        PROVE  LiveOf(q)' = LiveOf(q) /\ Creating(q)' = Creating(q) /\ Ending(q)' = Ending(q)
    BY <1>17, <2>1 DEF RollbackGlobal, ReleasePrincipal, LiveOf, Creating, Ending, CreateSlot,
          EndSlot
  <2> QED BY <1>17, <2>3, <2>4, SamePrincipal DEF RollbackGlobal, ReleasePrincipal, CountersExact
<1>18. ASSUME NEW w \in Workers, DecGlobal(w) PROVE CountersExact'
  <2>1. Live' = Live
    BY <1>18 DEF DecGlobal, Live
  <2>2. Reserving' = Reserving \ {w} /\ w \in Reserving
    BY <1>18 DEF DecGlobal, Reserving, GlobalSlot
  <2>3. GlobalExact'
    BY <1>18, <2>1, <2>2, SlotReturned DEF DecGlobal, CountersExact
  <2>4. ASSUME NEW q \in Principals
        PROVE  LiveOf(q)' = LiveOf(q) /\ Creating(q)' = Creating(q) /\ Ending(q)' = Ending(q)
    BY <1>18, <2>1 DEF DecGlobal, LiveOf, Creating, Ending, CreateSlot, EndSlot
  <2> QED BY <1>18, <2>3, <2>4, SamePrincipal DEF DecGlobal, CountersExact
<1>19. ASSUME NEW w \in Workers, DecBytes(w) PROVE CountersExact'
  <2>1. Live' = Live
    BY <1>19 DEF DecBytes, Live
  <2> QED BY <1>19, <2>1, FrameCounts DEF DecBytes, GlobalSlot, CreateSlot, EndSlot
<1>20. ASSUME NEW w \in Workers, DecPrincipal(w) PROVE CountersExact'
  BY <1>20, DecPrincipalCounts
<1>21. ASSUME NEW w \in Workers, RemoveIfZero(w) PROVE CountersExact'
  <2>1. Live' = Live
    BY <1>21 DEF RemoveIfZero, ReleaseTask, Caller, Live
  <2> QED BY <1>21, <2>1, FrameCounts DEF RemoveIfZero, ReleaseTask, Caller, GlobalSlot,
        CreateSlot, EndSlot
<1>22. ASSUME NEW w \in Workers, NEW s \in Shards, Scan(w, s) PROVE CountersExact'
  <2>1. Live' = Live
    BY <1>22 DEF Scan, Collects, Live
  <2> QED BY <1>22, <2>1, FrameCounts DEF Scan, Collects, GlobalSlot, CreateSlot, EndSlot
<1>23. ASSUME NEW w \in Workers, NEW t \in TaskIds, SkipId(w, t) PROVE CountersExact'
  <2>1. Live' = Live
    BY <1>23 DEF SkipId, TakeId, Live
  <2> QED BY <1>23, <2>1, FrameCounts DEF SkipId, TakeId, GlobalSlot, CreateSlot, EndSlot
<1>24. ASSUME NEW w \in Workers, NEW t \in TaskIds, ExpireId(w, t) PROVE CountersExact'
  BY <1>24, ChangeCounts DEF ExpireId, TakeId, Status
<1>25. ASSUME NEW w \in Workers, NEW t \in TaskIds, FailId(w, t), FailTask(w, t)
       PROVE  CountersExact'
  BY <1>25, ChangeCounts DEF FailId, FailTask, TakeId, Status
<1>26. ASSUME NEW w \in Workers, NEW t \in TaskIds, FailId(w, t), FailRefused(t), UNCHANGED pc
       PROVE  CountersExact'
  <2>1. Live' = Live
    BY <1>26 DEF FailId, FailRefused, TakeId, Live
  <2> QED BY <1>26, <2>1, FrameCounts DEF FailId, FailRefused, TakeId, GlobalSlot, CreateSlot,
        EndSlot
<1>27. ASSUME NEW w \in Workers, NEW t \in TaskIds, RemoveId(w, t) PROVE CountersExact'
  <2>1. Live' = Live
    BY <1>27 DEF RemoveId, TakeId, Live, AuxInv, SweptEnded, Status, NonTerminal, Terminal
  <2> QED BY <1>27, <2>1, FrameCounts DEF RemoveId, TakeId, GlobalSlot, CreateSlot, EndSlot
<1>28. ASSUME NEW w \in Workers, Unindex(w) PROVE CountersExact'
  <2>1. Live' = Live
    BY <1>28 DEF Unindex, Live
  <2> QED BY <1>28, <2>1, FrameCounts DEF Unindex, GlobalSlot, CreateSlot, EndSlot
<1>29. ASSUME NEW w \in Workers, DropKey(w) PROVE CountersExact'
  <2>1. Live' = Live
    BY <1>29 DEF DropKey, Live
  <2> QED BY <1>29, <2>1, FrameCounts DEF DropKey, GlobalSlot, CreateSlot, EndSlot
<1>30. ASSUME NEW w \in Workers, EndSweep(w) PROVE CountersExact'
  <2>1. Live' = Live
    BY <1>30 DEF EndSweep, Live
  <2> QED BY <1>30, <2>1, FrameCounts DEF EndSweep, GlobalSlot, CreateSlot, EndSlot
<1>31. ASSUME NEW t \in TaskIds, TtlPasses(t) \/ GracePasses(t) PROVE CountersExact'
  <2>1. Live' = Live
    BY <1>31 DEF TtlPasses, GracePasses, Live
  <2> QED BY <1>31, <2>1, FrameCounts DEF TtlPasses, GracePasses, GlobalSlot, CreateSlot, EndSlot
<1>32. CASE UNCHANGED vars
  <2>1. Live' = Live
    BY <1>32 DEF vars, Live
  <2> QED BY <1>32, <2>1, FrameCounts DEF vars
<1> QED
  BY <1>1, <1>2, <1>3, <1>4, <1>5, <1>6, <1>7, <1>8, <1>9, <1>10, <1>11, <1>12, <1>13, <1>14,
        <1>15, <1>16, <1>17, <1>18, <1>19, <1>20, <1>21, <1>22, <1>23, <1>24, <1>25, <1>26,
        <1>27, <1>28, <1>29, <1>30, <1>31, <1>32
  DEF Next, Call, Step, Clock, Fail, FailId

-----------------------------------------------------------------------------
(* Theorems *)

\* The inductive invariant holds in every reachable state.
THEOREM Inductive == Spec => []IndInv
<1>1. IndInv /\ [Next]_vars => IndInv'
  BY TypeStep, AuxStep, CountStep DEF IndInv
<1> QED BY InitInd, <1>1, PTL DEF Spec

\* Type correctness: pending_count and every per-principal counter stay within
\* their limits, and no step of any call leaves a value outside its type.
THEOREM TypeCorrect == Spec => []TypeOK
<1>1. IndInv => TypeOK
  BY DEF IndInv
<1> QED BY Inductive, <1>1, PTL

\* No interleaving of create, its rollbacks and decrement_pending_counters
\* leaks or duplicates a slot.
THEOREM CountersAreExact == Spec => []CountersExact
<1>1. IndInv => CountersExact
  BY DEF IndInv
<1> QED BY Inductive, <1>1, PTL

\* The live tasks never exceed max_pending_global, nor those of one principal
\* max_pending_per_principal.
THEOREM LimitsAreHeld == Spec => []LimitsHeld
<1>1. IndInv => LimitsHeld
  <2> SUFFICES ASSUME IndInv PROVE LimitsHeld
    OBVIOUS
  <2>1. Cardinality(Live) <= MaxPendingGlobal
    BY CountedFinite, LimitAssumption DEF IndInv, TypeOK, CountersExact, GlobalExact
  <2>2. ASSUME NEW p \in Principals PROVE Cardinality(LiveOf(p)) <= MaxPendingPerPrincipal
    BY CountedFinite, LimitAssumption DEF IndInv, TypeOK, CountersExact, PrincipalExact
  <2> QED BY <2>1, <2>2 DEF LimitsHeld
<1> QED BY Inductive, <1>1, PTL

-----------------------------------------------------------------------------
(* Refinement *)

\* The registry counts the same tasks as the store.
LEMMA SameLive ==
    /\ Registry!Live = Live
    /\ \A p : Registry!LiveOf(p) = LiveOf(p)
BY DEF Registry!Live, Registry!LiveOf, Live, LiveOf, Registry!NonTerminal, Registry!Status,
       Registry!Terminal, NonTerminal, Status, Terminal

\* Cardinality means the same inside the registry's instance.
LEMMA SameCardinality == \A S : Registry!Cardinality(S) = Cardinality(S)
BY DEF Cardinality, Registry!Cardinality, IsFiniteSet, Registry!IsFiniteSet

\* A change of status under the entry's lock is a Move of the registry.
LEMMA ChangeIsMove ==
    ASSUME NEW w, NEW t \in TaskIds, NEW s \in Status, Change(w, t, s)
    PROVE  Registry!Next
<1>1. Registry!Move(t, s)
  BY DEF Change, Registry!Move, CanTransitionTo, Transitions,
         Registry!CanTransitionTo, Registry!Transitions
<1>2. s \in Registry!Status
  BY DEF Status, Registry!Status
<1> QED BY <1>1, <1>2 DEF Registry!Next

\* The insertion is a Create of the registry: the two reservations the call
\* still holds show that neither limit has been reached.
LEMMA InsertIsCreate ==
    ASSUME IndInv, NEW w \in Workers, Insert(w)
    PROVE  Registry!Next
<1> DEFINE p == wPrin[w]
           t == wTask[w]
<1>1. p \in Principals /\ t \in TaskIds /\ status[t] = "absent"
  BY DEF IndInv, AuxInv, Creators, FreshIds, HoldsPrincipal, CreateSlot, Insert
<1>2. Cardinality(Live) < MaxPendingGlobal
  <2>1. w \in Reserving
    BY DEF Insert, Reserving, GlobalSlot
  <2>2. Cardinality(Reserving) >= 1
    BY <2>1, CountedFinite, CardRemove
  <2> QED BY <2>2, CountedFinite, LimitAssumption DEF IndInv, TypeOK, CountersExact, GlobalExact
<1>3. Cardinality(LiveOf(p)) < MaxPendingPerPrincipal
  <2>1. w \in Creating(p)
    BY DEF Insert, Creating, CreateSlot
  <2>2. Cardinality(Creating(p)) >= 1
    BY <1>1, <2>1, CountedFinite, CardRemove
  <2>3. counter[p] <= MaxPendingPerPrincipal /\ counter[p] \in Nat
    BY <1>1, LimitAssumption DEF IndInv, TypeOK
  <2> QED BY <1>1, <2>2, <2>3, CountedFinite, LimitAssumption
          DEF IndInv, CountersExact, PrincipalExact
<1>4. /\ Registry!Cardinality(Registry!Live) < MaxPendingGlobal
      /\ Registry!Cardinality(Registry!LiveOf(p)) < MaxPendingPerPrincipal
  BY <1>2, <1>3, SameLive, SameCardinality, Zenon
<1>5. Registry!Create(t, p)
  BY <1>1, <1>4 DEF Insert, Registry!Create
<1> QED BY <1>1, <1>5 DEF Registry!Next

\* Every step of the store is a step of the registry or leaves it unchanged.
LEMMA StepRefines == IndInv /\ [Next]_vars => [Registry!Next]_(Registry!vars)
<1> SUFFICES ASSUME IndInv, [Next]_vars PROVE Registry!Next \/ UNCHANGED <<status, owner>>
  BY DEF Registry!vars
<1> USE DEF taskVars
<1>1. ASSUME NEW w \in Workers, NEW t \in TaskIds, NEW s \in TransitionTargets, Transition(w,
      t, s) PROVE Registry!Next
  BY <1>1, ChangeIsMove DEF Transition, TransitionTargets, Status
<1>2. ASSUME NEW w \in Workers, NEW t \in TaskIds, NEW d \in {"approved", "rejected"}, RecordApproval(w, t, d) PROVE Registry!Next
  BY <1>2, ChangeIsMove DEF RecordApproval, Status
<1>3. ASSUME NEW w \in Workers, NEW t \in TaskIds, Complete(w, t) PROVE Registry!Next
  BY <1>3, ChangeIsMove DEF Complete, Status
<1>4. ASSUME NEW w \in Workers, NEW t \in TaskIds, Cancel(w, t) PROVE Registry!Next
  BY <1>4, ChangeIsMove DEF Cancel, Status
<1>5. ASSUME NEW w \in Workers, NEW t \in TaskIds, FailTask(w, t) PROVE Registry!Next
  BY <1>5, ChangeIsMove DEF FailTask, Status
<1>6. ASSUME NEW w \in Workers, Insert(w) PROVE Registry!Next
  BY <1>6, InsertIsCreate
<1>7. ASSUME NEW w \in Workers, NEW t \in TaskIds, ExpireId(w, t) PROVE Registry!Next
  BY <1>7, ChangeIsMove DEF ExpireId, Status
<1>8. ASSUME NEW w \in Workers, NEW t \in TaskIds, RemoveId(w, t) PROVE Registry!Next
  <2>1. status[t] \in Terminal
    BY <1>8 DEF RemoveId, TakeId, Present, Status, Terminal, IndInv, AuxInv, SweptEnded
  <2>2. Registry!Remove(t)
    BY <1>8, <2>1 DEF RemoveId, Registry!Remove, Terminal, Registry!Terminal
  <2> QED BY <2>2 DEF Registry!Next
<1>9. ASSUME NEW w \in Workers, NEW p \in Principals, NEW n \in Sizes, ReserveGlobal(w, p, n)
      PROVE  UNCHANGED <<status, owner>>
  BY <1>9 DEF ReserveGlobal
<1>10. ASSUME NEW w \in Workers, NEW t \in TaskIds, FailRefused(t), UNCHANGED <<pc, sweepVars>>
       PROVE  UNCHANGED <<status, owner>>
  BY <1>10 DEF FailRefused
<1>11. ASSUME NEW w \in Workers,
             \/ \E t \in TaskIds : HandleExpiredTask(w, t)
             \/ RecordAutoApproveResult(w) \/ AutoApproveUnrecorded(w)
       PROVE  UNCHANGED <<status, owner>>
  BY <1>11 DEF HandleExpiredTask, LeaveExpiredTask, RecordAutoApproveResult,
     AutoApproveUnrecorded
<1>12. ASSUME NEW w \in Workers, NEW k \in Sweeps, StartSweep(w, k)
       PROVE  UNCHANGED <<status, owner>>
  BY <1>12 DEF StartSweep
<1>13. ASSUME NEW w \in Workers, ReservePrincipal(w) PROVE UNCHANGED <<status, owner>>
  BY <1>13 DEF ReservePrincipal
<1>14. ASSUME NEW w \in Workers, NEW t \in TaskIds, NewTask(w, t)
       PROVE  UNCHANGED <<status, owner>>
  BY <1>14 DEF NewTask
<1>15. ASSUME NEW w \in Workers, NewTaskFails(w) \/ BytesExceeded(w)
       PROVE  UNCHANGED <<status, owner>>
  BY <1>15 DEF NewTaskFails, BytesExceeded, UndoPrincipal
<1>16. ASSUME NEW w \in Workers, CheckBytes(w) PROVE UNCHANGED <<status, owner>>
  BY <1>16 DEF CheckBytes
<1>17. ASSUME NEW w \in Workers, AddBytes(w) PROVE UNCHANGED <<status, owner>>
  BY <1>17 DEF AddBytes
<1>18. ASSUME NEW w \in Workers, AddToIndex(w) PROVE UNCHANGED <<status, owner>>
  BY <1>18 DEF AddToIndex
<1>19. ASSUME NEW w \in Workers, RollbackGlobal(w) PROVE UNCHANGED <<status, owner>>
  BY <1>19 DEF RollbackGlobal
<1>20. ASSUME NEW w \in Workers, DecGlobal(w) PROVE UNCHANGED <<status, owner>>
  BY <1>20 DEF DecGlobal
<1>21. ASSUME NEW w \in Workers, DecBytes(w) PROVE UNCHANGED <<status, owner>>
  BY <1>21 DEF DecBytes
<1>22. ASSUME NEW w \in Workers, DecPrincipal(w) PROVE UNCHANGED <<status, owner>>
  BY <1>22 DEF DecPrincipal
<1>23. ASSUME NEW w \in Workers, RemoveIfZero(w) PROVE UNCHANGED <<status, owner>>
  BY <1>23 DEF RemoveIfZero
<1>24. ASSUME NEW w \in Workers, NEW s \in Shards, Scan(w, s) PROVE UNCHANGED <<status, owner>>
  BY <1>24 DEF Scan
<1>25. ASSUME NEW w \in Workers, NEW t \in TaskIds, SkipId(w, t)
       PROVE  UNCHANGED <<status, owner>>
  BY <1>25 DEF SkipId
<1>26. ASSUME NEW w \in Workers, NEW t \in TaskIds, FailId(w, t), FailRefused(t), UNCHANGED pc
       PROVE  UNCHANGED <<status, owner>>
  BY <1>26 DEF FailRefused
<1>27. ASSUME NEW w \in Workers, Unindex(w) PROVE UNCHANGED <<status, owner>>
  BY <1>27 DEF Unindex
<1>28. ASSUME NEW w \in Workers, DropKey(w) PROVE UNCHANGED <<status, owner>>
  BY <1>28 DEF DropKey
<1>29. ASSUME NEW w \in Workers, EndSweep(w) PROVE UNCHANGED <<status, owner>>
  BY <1>29 DEF EndSweep
<1>30. ASSUME NEW t \in TaskIds, TtlPasses(t) \/ GracePasses(t)
       PROVE  UNCHANGED <<status, owner>>
  BY <1>30 DEF TtlPasses, GracePasses
<1>31. CASE UNCHANGED vars
  BY <1>31 DEF vars
<1> QED
  BY <1>1, <1>2, <1>3, <1>4, <1>5, <1>6, <1>7, <1>8, <1>9, <1>10, <1>11, <1>12, <1>13, <1>14,
        <1>15, <1>16, <1>17, <1>18, <1>19, <1>20, <1>21, <1>22, <1>23, <1>24, <1>25, <1>26,
        <1>27, <1>28, <1>29, <1>30, <1>31
  DEF Next, Call, Step, Clock, Fail, FailId

\* The concurrent store, with its locks, counters and sweeps, implements the
\* registry: both limits at every creation, the lifecycle at every move, and
\* removal of ended tasks only.
THEOREM Refinement == Spec => RegistrySpec
<1>1. Init => Registry!Init
  BY DEF Init, Registry!Init
<1>2. IndInv /\ [Next]_vars => [Registry!Next]_(Registry!vars)
  BY StepRefines
<1> QED BY Inductive, <1>1, <1>2, PTL DEF Spec, RegistrySpec, Registry!Spec

-----------------------------------------------------------------------------
(* Decisions and results *)

\* Before record_approval a task carries no decision.
Undecided ==
    \A t \in TaskIds : status[t] \in {"absent", "Working", "InputRequired"} => approval[t] = "none"

\* A call that executes for an expired task has read its status: Expired is
\* terminal, so that is still its status when the result is recorded, unless
\* cleanup_terminal has removed it.  record_auto_approve_result relies on this
\* and does not test it.
ExpiredSeen ==
    \A w \in Workers : pc[w] = "autoApprove" =>
        wTask[w] \in TaskIds /\ status[wTask[w]] \in {"Expired", "removed"}

DecisionInv == DecisionRecorded /\ Undecided

\* An expired task stays so until it is removed.
LEMMA ExpiredStays ==
    ASSUME IndInv, [Next]_vars, NEW t \in TaskIds, status[t] \in {"Expired", "removed"}
    PROVE  status'[t] \in {"Expired", "removed"}
<1>1. CASE Registry!Next
  BY <1>1 DEF Registry!Next, Registry!Create, Registry!Move, Registry!Remove,
     Registry!CanTransitionTo, Registry!Transitions, Registry!Terminal, IndInv, TypeOK
<1>2. CASE UNCHANGED Registry!vars
  BY <1>2 DEF Registry!vars
<1> QED BY <1>1, <1>2, StepRefines

\* A worker is executing for an expired task because it was already, or because
\* it has just read the status.
LEMMA SeenWhere ==
    ASSUME IndInv, [Next]_vars, NEW v \in Workers, pc'[v] = "autoApprove"
    PROVE  \/ pc[v] = "autoApprove" /\ wTask'[v] = wTask[v]
           \/ \E t \in TaskIds : status[t] = "Expired" /\ wTask'[v] = t
<1> DEFINE Seen == \/ pc[v] = "autoApprove" /\ wTask'[v] = wTask[v]
                   \/ \E t \in TaskIds : status[t] = "Expired" /\ wTask'[v] = t
<1> USE DEF callVars
<1>1. ASSUME NEW w \in Workers, NEW t \in TaskIds, HandleExpiredTask(w, t)
      PROVE  Seen
  BY <1>1 DEF HandleExpiredTask, Goto, IndInv, TypeOK
<1>2. ASSUME NEW w \in Workers, NEW t \in TaskIds, NEW s \in Status, Change(w, t, s),
             pc[w] # "autoApprove"
      PROVE  Seen
  BY <1>2 DEF Change, Goto, IndInv, TypeOK
<1>3. ASSUME NEW w \in Workers, NEW t \in TaskIds,
             \/ \E s \in TransitionTargets : Transition(w, t, s)
             \/ \E d \in {"approved", "rejected"} : RecordApproval(w, t, d)
             \/ Complete(w, t) \/ Cancel(w, t) \/ ExpireId(w, t)
             \/ FailTask(w, t) /\ pc[w] \in {"idle", "each"}
      PROVE  Seen
  <2>1. (\E s \in Status : Change(w, t, s)) /\ pc[w] # "autoApprove"
    BY <1>3 DEF Transition, TransitionTargets, RecordApproval, Complete, Cancel, FailTask,
       ExpireId, TakeId, Status
  <2> QED BY <1>2, <2>1
<1>4. ASSUME NEW w \in Workers, NEW t \in TaskIds,
             (FailRefused(t) /\ UNCHANGED pc) \/ SkipId(w, t)
      PROVE  Seen
  BY <1>4 DEF FailRefused, SkipId
<1>5. ASSUME NEW w \in Workers,
             \/ \E p \in Principals, n \in Sizes : ReserveGlobal(w, p, n)
             \/ \E k \in Sweeps : StartSweep(w, k)
             \/ ReservePrincipal(w) \/ (\E t \in TaskIds : NewTask(w, t))
             \/ NewTaskFails(w) \/ BytesExceeded(w) \/ CheckBytes(w) \/ AddBytes(w)
             \/ Insert(w) \/ AddToIndex(w) \/ RollbackGlobal(w)
             \/ RecordAutoApproveResult(w) \/ AutoApproveUnrecorded(w)
      PROVE  Seen
  BY <1>5 DEF ReserveGlobal, StartSweep, ReservePrincipal, NewTask, NewTaskFails, BytesExceeded,
     UndoPrincipal, CheckBytes, AddBytes, Insert, AddToIndex, RollbackGlobal, ReleasePrincipal,
     RecordAutoApproveResult, AutoApproveUnrecorded, LeaveExpiredTask, Goto, IndInv, TypeOK
<1>6. ASSUME NEW w \in Workers,
             \/ DecGlobal(w) \/ DecBytes(w) \/ DecPrincipal(w) \/ RemoveIfZero(w)
             \/ \E s \in Shards : Scan(w, s)
             \/ \E t \in TaskIds : RemoveId(w, t)
             \/ Unindex(w) \/ DropKey(w) \/ EndSweep(w)
      PROVE  Seen
  BY <1>6 DEF DecGlobal, DecBytes, DecPrincipal, RemoveIfZero, ReleaseTask, Caller, Scan, RemoveId,
     TakeId, Unindex, DropKey, EndSweep, Goto, IndInv, TypeOK
<1>7. CASE Clock \/ UNCHANGED vars
  BY <1>7 DEF Clock, TtlPasses, GracePasses, vars
<1> QED
  BY <1>1, <1>3, <1>4, <1>5, <1>6, <1>7 DEF Next, Call, Step, Fail, FailId, TakeId

\* Every step keeps what the executing call has read true.
LEMMA SeenStep == IndInv /\ ExpiredSeen /\ [Next]_vars => ExpiredSeen'
<1> SUFFICES ASSUME IndInv, ExpiredSeen, [Next]_vars, NEW v \in Workers, pc'[v] = "autoApprove"
             PROVE  wTask'[v] \in TaskIds /\ status'[wTask'[v]] \in {"Expired", "removed"}
  BY DEF ExpiredSeen
<1> QED BY SeenWhere, ExpiredStays DEF ExpiredSeen

\* A step that touches neither the statuses nor the records keeps them in
\* agreement.
LEMMA DecisionFrame ==
    ASSUME DecisionInv, UNCHANGED <<status, approval, result>>
    PROVE  DecisionInv'
BY DEF DecisionInv, DecisionRecorded, Undecided, Present

\* A task that ends without a decision and without a result.
LEMMA DecisionEnds ==
    ASSUME IndInv, DecisionInv, NEW w, NEW t \in TaskIds,
           NEW s \in {"InputRequired", "Expired", "Failed", "Cancelled"}, Change(w, t, s),
           UNCHANGED <<approval, result>>
    PROVE  DecisionInv'
BY DEF IndInv, TypeOK, DecisionInv, DecisionRecorded, Undecided, Present, Status, Change,
       CanTransitionTo, Transitions

\* Every step keeps decision, result and status in agreement.
LEMMA DecisionStep == IndInv /\ ExpiredSeen /\ DecisionInv /\ [Next]_vars => DecisionInv'
<1> SUFFICES ASSUME IndInv, ExpiredSeen, DecisionInv, [Next]_vars PROVE DecisionInv'
  OBVIOUS
<1> USE DEF taskVars
<1>1. ASSUME NEW w \in Workers, NEW t \in TaskIds, NEW s \in TransitionTargets, Transition(w, t, s)
      PROVE  DecisionInv'
  BY <1>1, DecisionEnds DEF Transition, TransitionTargets
<1>2. ASSUME NEW w \in Workers, NEW t \in TaskIds, NEW d \in {"approved", "rejected"},
             RecordApproval(w, t, d)
      PROVE  DecisionInv'
  BY <1>2 DEF RecordApproval, Change, IndInv, TypeOK, DecisionInv, DecisionRecorded, Undecided,
              Present, Status
<1>3. ASSUME NEW w \in Workers, NEW t \in TaskIds, Complete(w, t)
      PROVE  DecisionInv'
  BY <1>3 DEF Complete, Change, IndInv, TypeOK, DecisionInv, DecisionRecorded, Undecided,
              Present, Status
<1>4. ASSUME NEW w \in Workers, NEW t \in TaskIds, Cancel(w, t)
      PROVE  DecisionInv'
  BY <1>4, DecisionEnds DEF Cancel
<1>5. ASSUME NEW w \in Workers, NEW t \in TaskIds, FailTask(w, t)
      PROVE  DecisionInv'
  BY <1>5, DecisionEnds DEF FailTask
<1>6. ASSUME NEW t \in TaskIds, FailRefused(t)
      PROVE  DecisionInv'
  BY <1>6, DecisionFrame DEF FailRefused
<1>7. ASSUME NEW w \in Workers, RecordAutoApproveResult(w)
      PROVE  DecisionInv'
  <2>1. wTask[w] \in TaskIds /\ status[wTask[w]] = "Expired"
    BY <1>7 DEF RecordAutoApproveResult, LeaveExpiredTask, ExpiredSeen, Present, Status
  <2> QED BY <1>7, <2>1 DEF RecordAutoApproveResult, LeaveExpiredTask, IndInv, TypeOK, DecisionInv,
                            DecisionRecorded, Undecided, Present, Status
<1>8. ASSUME NEW w \in Workers, Insert(w)
      PROVE  DecisionInv'
  <2>1. wTask[w] \in TaskIds /\ status[wTask[w]] = "absent"
    BY <1>8 DEF Insert, IndInv, AuxInv, FreshIds
  <2> QED BY <1>8, <2>1 DEF Insert, IndInv, TypeOK, DecisionInv, DecisionRecorded, Undecided,
                            Present, Status
<1>9. ASSUME NEW w \in Workers, NEW t \in TaskIds, ExpireId(w, t)
      PROVE  DecisionInv'
  BY <1>9, DecisionEnds DEF ExpireId
<1>10. ASSUME NEW w \in Workers, NEW t \in TaskIds, RemoveId(w, t)
       PROVE  DecisionInv'
  BY <1>10 DEF RemoveId, TakeId, IndInv, TypeOK, AuxInv, SweptEnded, DecisionInv,
               DecisionRecorded, Undecided, Present, Status, Terminal
<1>11. ASSUME NEW w \in Workers,
              \/ \E p \in Principals, n \in Sizes : ReserveGlobal(w, p, n)
              \/ \E k \in Sweeps : StartSweep(w, k)
              \/ ReservePrincipal(w) \/ (\E t \in TaskIds : NewTask(w, t))
              \/ NewTaskFails(w) \/ BytesExceeded(w) \/ CheckBytes(w) \/ AddBytes(w)
              \/ AddToIndex(w) \/ RollbackGlobal(w)
              \/ (\E t \in TaskIds : HandleExpiredTask(w, t)) \/ AutoApproveUnrecorded(w)
       PROVE  DecisionInv'
  BY <1>11, DecisionFrame DEF ReserveGlobal, StartSweep, ReservePrincipal, NewTask, NewTaskFails,
     BytesExceeded, UndoPrincipal, CheckBytes, AddBytes, AddToIndex, RollbackGlobal,
     HandleExpiredTask, AutoApproveUnrecorded, LeaveExpiredTask
<1>12. ASSUME NEW w \in Workers,
              \/ DecGlobal(w) \/ DecBytes(w) \/ DecPrincipal(w) \/ RemoveIfZero(w)
              \/ \E s \in Shards : Scan(w, s)
              \/ \E t \in TaskIds : SkipId(w, t)
              \/ Unindex(w) \/ DropKey(w) \/ EndSweep(w)
       PROVE  DecisionInv'
  BY <1>12, DecisionFrame DEF DecGlobal, DecBytes, DecPrincipal, RemoveIfZero, Scan, SkipId,
     Unindex, DropKey, EndSweep
<1>13. CASE Clock
  BY <1>13, DecisionFrame DEF Clock, TtlPasses, GracePasses
<1>14. CASE UNCHANGED vars
  BY <1>14, DecisionFrame DEF vars
<1> QED
  BY <1>1, <1>2, <1>3, <1>4, <1>5, <1>6, <1>7, <1>8, <1>9, <1>10, <1>11, <1>12, <1>13, <1>14
  DEF Next, Call, Step, Fail, FailId

\* A task executes or completes only on a recorded approval, is Rejected
\* exactly when that is its decision, and has a result only if it completed or
\* was executed after it expired, whatever calls and sweeps run beside each
\* other and although record_auto_approve_result tests no status.
THEOREM DecisionsAreRecorded == Spec => []DecisionRecorded
<1>1. Init => DecisionInv
  BY DEF Init, DecisionInv, DecisionRecorded, Undecided, Present, Status
<1>2. Init => ExpiredSeen
  BY DEF Init, ExpiredSeen
<1>3. DecisionInv => DecisionRecorded
  BY DEF DecisionInv
<1> QED BY <1>1, <1>2, <1>3, SeenStep, DecisionStep, Inductive, PTL DEF Spec

-----------------------------------------------------------------------------
(* The index by principal *)

\* A cleanup that still has an id to take from the index has removed its task.
RemovedFirst ==
    \A w \in Workers : pc[w] \in {"unindex", "dropKey"} =>
        wTask[w] \in TaskIds /\ status[wTask[w]] = "removed"

\* A create lists the task it inserted, under the key it inserted it with.
ListsOwn == \A w \in Workers : pc[w] = "index" => owner[wTask[w]] = wPrin[w]

IndexInv == RemovedFirst /\ ListsOwn /\ IndexComplete /\ IndexTidy

\* What the index depends on stays: the tasks present and their owners, the
\* index itself, and who is about to write to it.
LEMMA IndexFrame ==
    ASSUME IndexInv, UNCHANGED <<owner, index, indexKeys>>,
           \A t \in TaskIds : Present(t)' => Present(t),
           \A t \in TaskIds : status[t] = "removed" => status'[t] = "removed",
           \A w \in Workers :
              /\ pc[w] = "index" => pc'[w] = "index" /\ wTask'[w] = wTask[w]
              /\ pc'[w] = "index" => pc[w] = "index" /\ wPrin'[w] = wPrin[w]
              /\ pc[w] \in {"unindex", "dropKey"} => pc'[w] = pc[w] /\ wTask'[w] = wTask[w]
              /\ pc'[w] \in {"unindex", "dropKey"} =>
                    wTask'[w] \in TaskIds /\ status'[wTask'[w]] = "removed"
    PROVE  IndexInv'
<1>1. RemovedFirst' /\ ListsOwn'
  BY DEF RemovedFirst, ListsOwn, IndexInv
<1>2. IndexComplete'
  BY DEF IndexInv, IndexComplete
<1>3. IndexTidy'
  BY DEF IndexInv, IndexTidy
<1> QED BY <1>1, <1>2, <1>3 DEF IndexInv

\* A change of status under the entry's lock keeps the index as it was.
LEMMA IndexChange ==
    ASSUME IndInv, IndexInv, NEW w \in Workers, pc[w] \in {"idle", "each"}, NEW t \in TaskIds,
           NEW s \in Status, Change(w, t, s)
    PROVE  IndexInv'
<1>1. \A u \in TaskIds : Present(u)' => Present(u)
  BY DEF IndInv, TypeOK, Change, CanTransitionTo, Transitions, Present, Status
<1>2. \A u \in TaskIds : status[u] = "removed" => status'[u] = "removed"
  BY DEF IndInv, TypeOK, Change, CanTransitionTo, Transitions
<1>3. \A v \in Workers :
        \/ pc'[v] = pc[v] /\ wTask'[v] = wTask[v]
        \/ v = w /\ pc'[v] = "decGlobal"
  BY DEF IndInv, TypeOK, Change, Goto
<1> QED BY <1>1, <1>2, <1>3, IndexFrame DEF Change, indexVars, IndexInv, RemovedFirst, ListsOwn

\* The new task is not listed yet, but the create that inserted it is about
\* to list it.
LEMMA IndexInsert ==
    ASSUME IndInv, IndexInv, NEW w \in Workers, Insert(w)
    PROVE  IndexInv'
<1> DEFINE t == wTask[w]
<1>1. t \in TaskIds /\ status[t] = "absent" /\ pc[w] = "insert"
  BY DEF Insert, IndInv, AuxInv, FreshIds
<1>2. /\ UNCHANGED <<index, indexKeys, wTask>>
      /\ pc'[w] = "index" /\ \A v \in Workers : v # w => pc'[v] = pc[v]
      /\ \A u \in TaskIds : u # t => status'[u] = status[u] /\ owner'[u] = owner[u]
      /\ owner'[t] = wPrin[w] /\ wPrin' = wPrin
  BY <1>1 DEF Insert, IndInv, TypeOK, Goto, indexVars, callVars
<1> HIDE DEF t
<1>3. \A v \in Workers : pc[v] \in {"unindex", "dropKey"} => wTask[v] \in TaskIds \ {t}
  BY <1>1 DEF IndexInv, RemovedFirst
<1>4. RemovedFirst' /\ ListsOwn'
  <2>1. \A v \in Workers : v # w /\ pc[v] = "index" => wTask[v] \in TaskIds \ {t}
    BY <1>1 DEF IndInv, AuxInv, FreshIds, Creators, t
  <2>2. ListsOwn'
    BY <1>2, <2>1 DEF IndexInv, ListsOwn, t
  <2> QED BY <1>1, <1>2, <1>3, <2>2 DEF IndexInv, RemovedFirst
<1>5. IndexComplete'
  <2> SUFFICES ASSUME NEW u \in TaskIds, Present(u)'
               PROVE  \/ owner'[u] \in indexKeys /\ u \in index[owner'[u]]
                      \/ \E v \in Workers : pc'[v] = "index" /\ wTask[v] = u
    BY <1>2 DEF IndexComplete
  <2>1. CASE u = t
    BY <1>2, <2>1 DEF t
  <2>2. CASE u # t
    BY <1>1, <1>2, <2>2 DEF IndexInv, IndexComplete, Present
  <2> QED BY <2>1, <2>2
<1>6. IndexTidy'
  BY <1>1, <1>2, <1>3 DEF IndexInv, IndexTidy
<1> QED BY <1>4, <1>5, <1>6 DEF IndexInv

\* The create lists its task, with the key, whatever a cleanup did meanwhile.
LEMMA IndexAdd ==
    ASSUME IndInv, IndexInv, NEW w \in Workers, AddToIndex(w)
    PROVE  IndexInv'
<1> DEFINE t == wTask[w]
           p == wPrin[w]
<1>1. t \in TaskIds /\ p \in Principals /\ owner[t] = p
  BY DEF AddToIndex, IndInv, AuxInv, Creators, HoldsPrincipal, IndexInv, ListsOwn
<1>2. /\ UNCHANGED <<status, owner>>
      /\ pc[w] = "index" /\ pc'[w] = "idle"
      /\ \A v \in Workers : v # w => /\ pc'[v] = pc[v] /\ wTask'[v] = wTask[v]
                                     /\ wPrin'[v] = wPrin[v]
      /\ index'[p] = index[p] \cup {t} /\ indexKeys' = indexKeys \cup {p}
      /\ \A q \in Principals : q # p => index'[q] = index[q]
  BY <1>1 DEF AddToIndex, ReleasePrincipal, IndInv, TypeOK, Goto, taskVars
<1> HIDE DEF t, p
<1>3. RemovedFirst' /\ ListsOwn'
  BY <1>2 DEF IndexInv, RemovedFirst, ListsOwn
<1>4. IndexComplete'
  <2> SUFFICES ASSUME NEW u \in TaskIds, Present(u)
               PROVE  \/ owner[u] \in indexKeys' /\ u \in index'[owner[u]]
                      \/ \E v \in Workers : pc'[v] = "index" /\ wTask'[v] = u
    BY <1>2 DEF IndexComplete, Present
  <2>1. CASE u = t
    BY <1>1, <1>2, <2>1
  <2>2. CASE owner[u] \in indexKeys /\ u \in index[owner[u]]
    BY <1>1, <1>2, <2>2 DEF IndInv, TypeOK
  <2>3. CASE u # t /\ \E v \in Workers : pc[v] = "index" /\ wTask[v] = u
    BY <1>2, <2>3 DEF t
  <2> QED BY <2>1, <2>2, <2>3 DEF IndexInv, IndexComplete
<1>5. IndexTidy'
  <2> SUFFICES ASSUME NEW q \in indexKeys'
               PROVE  index'[q] # {} \/ \E v \in Workers :
                          pc'[v] \in {"unindex", "dropKey"} /\ owner[wTask'[v]] = q
    BY <1>2 DEF IndexTidy
  <2>1. CASE q = p
    BY <1>2, <2>1
  <2>2. CASE q # p
    <3>1. q \in indexKeys /\ q \in Principals /\ index'[q] = index[q]
      BY <1>2, <2>2 DEF IndInv, TypeOK
    <3> QED BY <1>2, <3>1 DEF IndexInv, IndexTidy
  <2> QED BY <2>1, <2>2
<1> QED BY <1>3, <1>4, <1>5 DEF IndexInv

\* The cleanup takes the id of a task that is gone; if no id is left, the same
\* call is about to look at the key again.
LEMMA IndexUnindex ==
    ASSUME IndInv, IndexInv, NEW w \in Workers, Unindex(w)
    PROVE  IndexInv'
<1> DEFINE t == wTask[w]
           p == owner[t]
           emptied == p \in indexKeys /\ index[p] \subseteq {t}
<1>1. t \in TaskIds /\ status[t] = "removed" /\ p \in Principals
  BY DEF Unindex, IndexInv, RemovedFirst, IndInv, AuxInv, Owners
<1>2. /\ UNCHANGED <<status, owner, indexKeys, wPrin>> /\ pc[w] = "unindex"
      /\ emptied => pc'[w] = "dropKey" /\ wTask'[w] = t
      /\ ~emptied => pc'[w] = "each"
      /\ \A v \in Workers : v # w => pc'[v] = pc[v] /\ wTask'[v] = wTask[v]
      /\ index'[p] = index[p] \ {t}
      /\ \A q \in Principals : q # p => index'[q] = index[q]
  BY <1>1 DEF Unindex, IndInv, TypeOK, Goto, taskVars
<1>3. index[p] \subseteq TaskIds /\ indexKeys \subseteq Principals
  BY <1>1 DEF IndInv, TypeOK
<1>4. RemovedFirst' /\ ListsOwn'
  BY <1>1, <1>2 DEF IndexInv, RemovedFirst, ListsOwn
<1>5. IndexComplete'
  <2> SUFFICES ASSUME NEW u \in TaskIds, Present(u)
               PROVE  \/ owner[u] \in indexKeys /\ u \in index'[owner[u]]
                      \/ \E v \in Workers : pc'[v] = "index" /\ wTask'[v] = u
    BY <1>2 DEF IndexComplete, Present
  <2>1. u # t
    BY <1>1 DEF Present, Status
  <2>2. CASE owner[u] \in indexKeys /\ u \in index[owner[u]]
    BY <1>2, <1>3, <2>1, <2>2
  <2>3. CASE \E v \in Workers : pc[v] = "index" /\ wTask[v] = u
    BY <1>2, <2>3
  <2> QED BY <2>2, <2>3 DEF IndexInv, IndexComplete
<1>6. IndexTidy'
  <2> SUFFICES ASSUME NEW q \in indexKeys
               PROVE  index'[q] # {} \/ \E v \in Workers :
                          pc'[v] \in {"unindex", "dropKey"} /\ owner[wTask'[v]] = q
    BY <1>2 DEF IndexTidy
  <2>1. CASE q = p /\ emptied
    BY <1>2, <2>1
  <2>2. CASE q = p /\ ~emptied
    BY <1>2, <2>2
  <2>3. CASE q # p
    BY <1>2, <1>3, <2>3 DEF IndexInv, IndexTidy
  <2> QED BY <2>1, <2>2, <2>3
<1> QED BY <1>4, <1>5, <1>6 DEF IndexInv

\* The key goes only if no id was pushed under it since.
LEMMA IndexDropKey ==
    ASSUME IndInv, IndexInv, NEW w \in Workers, DropKey(w)
    PROVE  IndexInv'
<1> DEFINE p == owner[wTask[w]]
<1>1. /\ UNCHANGED <<status, owner, index, wPrin>> /\ pc[w] = "dropKey" /\ pc'[w] = "each"
      /\ \A v \in Workers : v # w => pc'[v] = pc[v] /\ wTask'[v] = wTask[v]
      /\ indexKeys' = IF index[p] = {} THEN indexKeys \ {p} ELSE indexKeys
  BY DEF DropKey, IndInv, TypeOK, Goto, taskVars
<1> HIDE DEF p
<1>2. RemovedFirst' /\ ListsOwn'
  BY <1>1 DEF IndexInv, RemovedFirst, ListsOwn
<1>3. IndexComplete'
  <2> SUFFICES ASSUME NEW u \in TaskIds, Present(u)
               PROVE  \/ owner[u] \in indexKeys' /\ u \in index[owner[u]]
                      \/ \E v \in Workers : pc'[v] = "index" /\ wTask'[v] = u
    BY <1>1 DEF IndexComplete, Present
  <2>1. CASE owner[u] \in indexKeys /\ u \in index[owner[u]]
    BY <1>1, <2>1
  <2>2. CASE \E v \in Workers : pc[v] = "index" /\ wTask[v] = u
    BY <1>1, <2>2
  <2> QED BY <2>1, <2>2 DEF IndexInv, IndexComplete
<1>4. IndexTidy'
  <2> SUFFICES ASSUME NEW q \in indexKeys', index[q] = {}
               PROVE  \E v \in Workers : pc'[v] \in {"unindex", "dropKey"} /\ owner[wTask'[v]] = q
    BY <1>1 DEF IndexTidy
  <2>1. q \in indexKeys /\ q # p
    BY <1>1
  <2>2. PICK v \in Workers : pc[v] \in {"unindex", "dropKey"} /\ owner[wTask[v]] = q
    BY <2>1 DEF IndexInv, IndexTidy
  <2>3. v # w
    BY <2>1, <2>2 DEF p
  <2> QED BY <1>1, <2>2, <2>3
<1> QED BY <1>2, <1>3, <1>4 DEF IndexInv

\* Any other step of a worker: it moves no status, and at most itself, between
\* places where nothing is due to the index.
Elsewhere == Labels \ {"index", "unindex", "dropKey"}

\* A worker that is busy elsewhere leaves the index as it is.
LEMMA IndexQuiet ==
    ASSUME IndexInv, NEW w \in Workers, UNCHANGED <<status, owner, index, indexKeys>>,
           pc[w] \in Elsewhere, pc'[w] \in Elsewhere,
           \A v \in Workers : v # w => /\ pc'[v] = pc[v] /\ wTask'[v] = wTask[v]
                                       /\ wPrin'[v] = wPrin[v]
    PROVE  IndexInv'
BY IndexFrame DEF Elsewhere, Labels, Present, IndexInv, RemovedFirst

\* Every step keeps the index sound.
LEMMA IndexStep == IndInv /\ IndexInv /\ [Next]_vars => IndexInv'
<1> SUFFICES ASSUME IndInv, IndexInv, [Next]_vars PROVE IndexInv'
  OBVIOUS
<1> USE DEF taskVars, indexVars, callVars, Elsewhere, Labels
<1>1. ASSUME NEW w \in Workers, NEW t \in TaskIds, NEW s \in TransitionTargets, Transition(w, t, s)
      PROVE  IndexInv'
  BY <1>1, IndexChange DEF Transition, TransitionTargets, Status
<1>2. ASSUME NEW w \in Workers, NEW t \in TaskIds, NEW d \in {"approved", "rejected"},
             RecordApproval(w, t, d)
      PROVE  IndexInv'
  BY <1>2, IndexChange DEF RecordApproval, Status
<1>3. ASSUME NEW w \in Workers, NEW t \in TaskIds, Complete(w, t) \/ Cancel(w, t)
      PROVE  IndexInv'
  BY <1>3, IndexChange DEF Complete, Cancel, Status
<1>4. ASSUME NEW w \in Workers, NEW t \in TaskIds, FailTask(w, t), pc[w] \in {"idle", "each"}
      PROVE  IndexInv'
  BY <1>4, IndexChange DEF FailTask, Status
<1>5. ASSUME NEW w \in Workers, NEW t \in TaskIds, FailRefused(t), UNCHANGED pc,
             pc[w] \in {"idle", "each"}
      PROVE  IndexInv'
  BY <1>5, IndexQuiet DEF FailRefused
<1>6. ASSUME NEW w \in Workers,
             \/ \E t \in TaskIds : HandleExpiredTask(w, t)
             \/ RecordAutoApproveResult(w) \/ AutoApproveUnrecorded(w)
      PROVE  IndexInv'
  <2>1. /\ UNCHANGED <<status, owner, index, indexKeys>>
        /\ pc[w] \in Elsewhere /\ pc'[w] \in Elsewhere
        /\ \A v \in Workers : v # w => /\ pc'[v] = pc[v] /\ wTask'[v] = wTask[v]
                                        /\ wPrin'[v] = wPrin[v]
    BY <1>6 DEF HandleExpiredTask, LeaveExpiredTask, RecordAutoApproveResult,
       AutoApproveUnrecorded, Goto, IndInv, TypeOK
  <2> QED BY <2>1, IndexQuiet
<1>7. ASSUME NEW w \in Workers, NEW t \in TaskIds, ExpireId(w, t)
      PROVE  IndexInv'
  BY <1>7, IndexChange DEF ExpireId, TakeId, Status
<1>8. ASSUME NEW w \in Workers, NEW t \in TaskIds, RemoveId(w, t)
      PROVE  IndexInv'
  <2>1. /\ UNCHANGED <<owner, index, indexKeys, wPrin>>
        /\ status'[t] = "removed" /\ \A u \in TaskIds : u # t => status'[u] = status[u]
        /\ pc[w] = "each" /\ pc'[w] = "unindex" /\ wTask'[w] = t
        /\ \A v \in Workers : v # w => pc'[v] = pc[v] /\ wTask'[v] = wTask[v]
    BY <1>8 DEF RemoveId, TakeId, Goto, IndInv, TypeOK
  <2>2. /\ \A u \in TaskIds : Present(u)' => Present(u)
        /\ \A u \in TaskIds : status[u] = "removed" => status'[u] = "removed"
    BY <2>1 DEF Present, Status
  <2>3. \A v \in Workers : pc'[v] \in {"unindex", "dropKey"} =>
          wTask'[v] \in TaskIds /\ status'[wTask'[v]] = "removed"
    BY <2>1, <2>2 DEF IndexInv, RemovedFirst
  <2> QED BY <2>1, <2>2, <2>3, IndexFrame
<1>9. ASSUME NEW w \in Workers,
             \/ \E p \in Principals, n \in Sizes : ReserveGlobal(w, p, n)
             \/ \E k \in Sweeps : StartSweep(w, k)
             \/ ReservePrincipal(w) \/ (\E t \in TaskIds : NewTask(w, t))
             \/ NewTaskFails(w) \/ BytesExceeded(w) \/ CheckBytes(w) \/ AddBytes(w)
             \/ RollbackGlobal(w)
      PROVE  IndexInv'
  <2>1. UNCHANGED <<status, owner, index, indexKeys>>
    BY <1>9 DEF ReserveGlobal, StartSweep, ReservePrincipal, NewTask, NewTaskFails,
       BytesExceeded, UndoPrincipal, CheckBytes, AddBytes, RollbackGlobal
  <2>2. pc[w] \in Elsewhere /\ pc'[w] \in Elsewhere
    BY <1>9 DEF ReserveGlobal, StartSweep, ReservePrincipal, NewTask, NewTaskFails,
       BytesExceeded, UndoPrincipal, CheckBytes, AddBytes, RollbackGlobal, ReleasePrincipal, Goto,
       IndInv, TypeOK
  <2>3. \A v \in Workers : v # w => pc'[v] = pc[v] /\ wTask'[v] = wTask[v] /\ wPrin'[v] = wPrin[v]
    BY <1>9 DEF ReserveGlobal, StartSweep, ReservePrincipal, NewTask, NewTaskFails,
       BytesExceeded, UndoPrincipal, CheckBytes, AddBytes, RollbackGlobal, ReleasePrincipal, Goto,
       IndInv, TypeOK
  <2> QED BY <2>1, <2>2, <2>3, IndexQuiet
<1>10. ASSUME NEW w \in Workers,
              \/ DecGlobal(w) \/ DecBytes(w) \/ DecPrincipal(w) \/ RemoveIfZero(w)
              \/ \E s \in Shards : Scan(w, s)
              \/ \E t \in TaskIds : SkipId(w, t)
              \/ EndSweep(w)
       PROVE  IndexInv'
  BY <1>10, IndexQuiet DEF DecGlobal, DecBytes, DecPrincipal, RemoveIfZero, ReleaseTask, Caller,
     Scan, SkipId, TakeId, EndSweep, Goto, IndInv, TypeOK
<1>11. ASSUME NEW w \in Workers, Insert(w) \/ AddToIndex(w) \/ Unindex(w) \/ DropKey(w)
       PROVE  IndexInv'
  BY <1>11, IndexInsert, IndexAdd, IndexUnindex, IndexDropKey
<1>12. CASE Clock \/ UNCHANGED vars
  <2>1. UNCHANGED <<status, owner, index, indexKeys, pc, wTask, wPrin>>
    BY <1>12 DEF Clock, TtlPasses, GracePasses, vars
  <2> QED BY <2>1 DEF IndexInv, RemovedFirst, ListsOwn, IndexComplete, IndexTidy, Present
<1>13. ASSUME NEW w \in Workers, NEW t \in TaskIds, Fail(w, t) \/ FailId(w, t)
       PROVE  IndexInv'
  BY <1>4, <1>5, <1>13 DEF Fail, FailId, TakeId
<1> QED
  BY <1>1, <1>2, <1>3, <1>6, <1>7, <1>8, <1>9, <1>10, <1>11, <1>12, <1>13
  DEF Next, Call, Step

\* Every task in the store is listed under its principal or about to be, and
\* by_principal keeps no empty entry, although cleanup_terminal gives up the
\* entry's lock between emptying it and removing it.
THEOREM IndexIsSound == Spec => []IndexSound
<1>1. Init => IndexInv
  BY DEF Init, IndexInv, RemovedFirst, ListsOwn, IndexComplete, IndexTidy, Present, Status
<1>2. IndexInv => IndexSound
  BY DEF IndexInv, IndexSound
<1> QED BY <1>1, <1>2, IndexStep, Inductive, PTL DEF Spec

-----------------------------------------------------------------------------
(* The bytes *)

\* A create that is past entry() holds the shard of its principal's counter.
GuardsHeld ==
    \A w \in Workers : pc[w] \in HoldsPrincipal => principalLock[PShardOf[wPrin[w]]] = w

\* The creates that have passed the check of the byte limit and not added.
Passed == {w \in Workers : pc[w] = "addBytes"}

\* What they will add is within the bound already.
PassedFits ==
    pendingBytes + Cardinality(BytesOf(Passed, wSize))
        <= MaxPendingBytes + (Cardinality(PShards) - 1) * Max(Sizes)

BytesInv == GuardsHeld /\ BytesExact /\ PassedFits

\* The largest size.
LEMMA MaxSize == Max(Sizes) \in Nat /\ \A n \in Sizes \cup {0} : n \in Nat /\ n <= Max(Sizes)
<1>1. PICK m \in Sizes : \A n \in Sizes : m >= n
  BY BoundAssumption
<1>2. Max(Sizes) \in Sizes /\ \A n \in Sizes : Max(Sizes) >= n
  BY <1>1 DEF Max
<1>3. Max(Sizes) \in Nat /\ \A n \in Sizes : n \in Nat /\ n <= Max(Sizes)
  BY <1>2, LimitAssumption
<1> HIDE DEF Max
<1>4. 0 <= Max(Sizes)
  BY <1>3
<1> QED BY <1>3, <1>4

\* Finitely many members of bounded size have finitely many bytes, at most
\* the bound for each.
LEMMA BytesFinite ==
    ASSUME NEW S, IsFiniteSet(S), NEW size, NEW m \in Nat, \A x \in S : size[x] \in 0 .. m
    PROVE  /\ IsFiniteSet(BytesOf(S, size)) /\ Cardinality(BytesOf(S, size)) \in Nat
           /\ Cardinality(BytesOf(S, size)) <= Cardinality(S) * m
<1> DEFINE D == 1 .. m
<1>1. IsFiniteSet(D) /\ Cardinality(D) = m
  BY FS_Interval
<1>2. BytesOf(S, size) \in SUBSET (S \X D)
  BY DEF BytesOf
<1> HIDE DEF D
<1>3. IsFiniteSet(S \X D) /\ Cardinality(S \X D) = Cardinality(S) * m
  BY <1>1, FS_Product
<1>4. /\ IsFiniteSet(BytesOf(S, size))
      /\ Cardinality(BytesOf(S, size)) <= Cardinality(S \X D)
  BY <1>2, <1>3, FS_Subset
<1> QED BY <1>3, <1>4, FS_CardinalityType

\* The bytes of one more member add up.
LEMMA BytesAdded ==
    ASSUME NEW S, NEW size, NEW x, x \notin S, size[x] \in Nat, IsFiniteSet(BytesOf(S, size))
    PROVE  Cardinality(BytesOf(S \cup {x}, size)) = Cardinality(BytesOf(S, size)) + size[x]
<1> DEFINE A == BytesOf(S, size)
           C == {x}
           D == 1 .. size[x]
           B == C \X D
<1>1. BytesOf(S \cup {x}, size) = A \cup B
  BY DEF BytesOf
<1>2. A \cap B = {}
  BY DEF BytesOf
<1>3. /\ IsFiniteSet(C) /\ Cardinality(C) = 1
      /\ IsFiniteSet(D) /\ Cardinality(D) = size[x]
  <2>1. IsFiniteSet(C) /\ Cardinality(C) = 1
    BY FS_Singleton
  <2>2. IsFiniteSet(D) /\ Cardinality(D) = size[x]
    BY FS_Interval
  <2> QED BY <2>1, <2>2
<1>4. IsFiniteSet(A)
  OBVIOUS
<1> HIDE DEF A, C, D
<1>5. IsFiniteSet(B) /\ Cardinality(B) = Cardinality(C) * Cardinality(D)
  BY <1>3, FS_Product
<1>6. Cardinality(B) = size[x]
  BY <1>3, <1>5
<1> HIDE DEF B
<1>7. Cardinality(A \cup B) = Cardinality(A) + Cardinality(B) - Cardinality(A \cap B)
  BY <1>4, <1>5, FS_Union
<1>8. Cardinality(A \cap B) = 0
  BY <1>2, FS_EmptySet
<1>9. Cardinality(A) \in Nat
  BY <1>4, FS_CardinalityType
<1>10. Cardinality(BytesOf(S \cup {x}, size)) = Cardinality(A \cup B)
  BY <1>1, Zenon
<1>11. Cardinality(A \cup B) = Cardinality(A) + size[x]
  BY <1>6, <1>7, <1>8, <1>9
<1> QED BY <1>10, <1>11, Zenon DEF A

\* ... and those of one member less are gone.
LEMMA BytesRemoved ==
    ASSUME NEW S, NEW size, NEW x \in S, size[x] \in Nat, IsFiniteSet(BytesOf(S, size))
    PROVE  Cardinality(BytesOf(S \ {x}, size)) = Cardinality(BytesOf(S, size)) - size[x]
<1> DEFINE T == S \ {x}
<1>1. T \cup {x} = S /\ x \notin T
  OBVIOUS
<1>2. BytesOf(T, size) \in SUBSET BytesOf(S, size)
  BY DEF BytesOf
<1>3. IsFiniteSet(BytesOf(T, size))
  BY <1>2, FS_Subset
<1>4. Cardinality(BytesOf(T, size)) \in Nat
  BY <1>3, FS_CardinalityType
<1> HIDE DEF T
<1>5. Cardinality(BytesOf(T \cup {x}, size)) = Cardinality(BytesOf(T, size)) + size[x]
  BY <1>1, <1>3, BytesAdded
<1>6. Cardinality(BytesOf(S, size)) = Cardinality(BytesOf(T, size)) + size[x]
  BY <1>1, <1>5, Zenon
<1>7. Cardinality(BytesOf(T, size)) = Cardinality(BytesOf(S, size)) - size[x]
  BY <1>4, <1>6
<1> QED BY <1>7, Zenon DEF T

\* Only the sizes of the members matter.
LEMMA BytesSame ==
    ASSUME NEW S, NEW size, NEW other, \A x \in S : other[x] = size[x]
    PROVE  BytesOf(S, other) = BytesOf(S, size)
BY DEF BytesOf

\* The four sets whose bytes are counted, in any state of the invariant.
LEMMA CountedBytes ==
    ASSUME TypeOK, Enders
    PROVE  /\ \A t \in TaskIds : bytes[t] \in Nat
           /\ \A w \in Workers : wSize[w] \in Nat
           /\ \A w \in Refunding : RefundSize[w] = bytes[wTask[w]] /\ RefundSize[w] \in Nat
           /\ \A S \in {Live} : IsFiniteSet(BytesOf(S, bytes)) /\ Cardinality(BytesOf(S, bytes)) \in Nat
           /\ \A S \in {Charged, Passed} :
                 IsFiniteSet(BytesOf(S, wSize)) /\ Cardinality(BytesOf(S, wSize)) \in Nat
           /\ IsFiniteSet(BytesOf(Refunding, RefundSize))
           /\ Cardinality(BytesOf(Refunding, RefundSize)) \in Nat
<1> DEFINE m == Max(Sizes)
<1>1. m \in Nat /\ \A n \in Sizes \cup {0} : n \in 0 .. m
  BY MaxSize
<1>2. /\ IsFiniteSet(Live) /\ IsFiniteSet(Charged) /\ IsFiniteSet(Passed)
      /\ IsFiniteSet(Refunding)
  BY FiniteAssumption, FS_Subset DEF Live, Charged, Passed, Refunding
<1>3. \A t \in TaskIds : bytes[t] \in 0 .. m
  BY <1>1 DEF TypeOK
<1>4. \A w \in Workers : wSize[w] \in 0 .. m
  BY <1>1 DEF TypeOK
<1>5. \A w \in Refunding : RefundSize[w] = bytes[wTask[w]] /\ RefundSize[w] \in 0 .. m
  BY <1>3 DEF Refunding, RefundSize, Enders, HoldsTask, EndSlot
<1>6. \A w \in Charged \cup Passed : wSize[w] \in 0 .. m
  BY <1>4 DEF Charged, Passed
<1>7. \A t \in Live : bytes[t] \in 0 .. m
  BY <1>3 DEF Live
<1> HIDE DEF m
<1>8. IsFiniteSet(BytesOf(Live, bytes)) /\ Cardinality(BytesOf(Live, bytes)) \in Nat
  BY <1>1, <1>2, <1>7, BytesFinite
<1>9. IsFiniteSet(BytesOf(Charged, wSize)) /\ Cardinality(BytesOf(Charged, wSize)) \in Nat
  BY <1>1, <1>2, <1>6, BytesFinite
<1>10. IsFiniteSet(BytesOf(Passed, wSize)) /\ Cardinality(BytesOf(Passed, wSize)) \in Nat
  BY <1>1, <1>2, <1>6, BytesFinite
<1>11. /\ IsFiniteSet(BytesOf(Refunding, RefundSize))
       /\ Cardinality(BytesOf(Refunding, RefundSize)) \in Nat
  BY <1>1, <1>2, <1>5, BytesFinite
<1> QED BY <1>1, <1>3, <1>4, <1>5, <1>8, <1>9, <1>10, <1>11

\* Every step keeps the shard with the create that locked it.
LEMMA GuardStep == IndInv /\ GuardsHeld /\ [Next]_vars => GuardsHeld'
<1> SUFFICES ASSUME IndInv, GuardsHeld, [Next]_vars PROVE GuardsHeld'
  OBVIOUS
<1> USE DEF HoldsPrincipal, CreateSlot
<1>1. ASSUME UNCHANGED <<principalLock, wPrin>>,
             \A w \in Workers : pc'[w] \in HoldsPrincipal => pc[w] \in HoldsPrincipal
      PROVE  GuardsHeld'
  BY <1>1 DEF GuardsHeld
<1>2. ASSUME NEW w \in Workers, NEW p \in Principals, NEW n \in Sizes, ReserveGlobal(w, p, n)
      PROVE  GuardsHeld'
  BY <1>2 DEF ReserveGlobal, lockVars, Goto, GuardsHeld, IndInv, TypeOK
<1>3. ASSUME NEW w \in Workers, ReservePrincipal(w)
      PROVE  GuardsHeld'
  <2>1. wPrin[w] \in Principals /\ PShardOf[wPrin[w]] \in PShards
    BY <1>3, ShardAssumption DEF ReservePrincipal, IndInv, AuxInv, Creators
  <2>2. /\ principalLock' = [principalLock EXCEPT ![PShardOf[wPrin[w]]] = w]
        /\ principalLock[PShardOf[wPrin[w]]] = None
        /\ wPrin' = wPrin /\ \A v \in Workers : v # w => pc'[v] = pc[v]
    BY <1>3 DEF ReservePrincipal, PrincipalFree, callVars, Goto, IndInv, TypeOK
  <2> QED BY <2>1, <2>2, NoneAssumption DEF GuardsHeld, IndInv, TypeOK
<1>4. ASSUME NEW w \in Workers, AddToIndex(w) \/ RollbackGlobal(w)
      PROVE  GuardsHeld'
  <2>1. pc[w] \in HoldsPrincipal /\ ReleasePrincipal(w)
    BY <1>4 DEF AddToIndex, RollbackGlobal
  <2>2. wPrin[w] \in Principals /\ principalLock[PShardOf[wPrin[w]]] = w
    BY <2>1 DEF GuardsHeld, IndInv, AuxInv, Creators
  <2>3. /\ principalLock' = [principalLock EXCEPT ![PShardOf[wPrin[w]]] = None]
        /\ pc'[w] = "idle"
        /\ \A v \in Workers : v # w => pc'[v] = pc[v] /\ wPrin'[v] = wPrin[v]
    BY <2>1 DEF ReleasePrincipal, Goto, IndInv, TypeOK
  <2> QED BY <2>2, <2>3 DEF GuardsHeld, IndInv, TypeOK
<1>5. ASSUME NEW w \in Workers, NEW t \in TaskIds, NEW s \in Status, Change(w, t, s)
      PROVE  GuardsHeld'
  BY <1>1, <1>5 DEF Change, Goto, IndInv, TypeOK
<1>6. ASSUME NEW w \in Workers,
             \/ (\E t \in TaskIds : NewTask(w, t)) \/ NewTaskFails(w) \/ BytesExceeded(w)
             \/ CheckBytes(w) \/ AddBytes(w) \/ Insert(w)
      PROVE  GuardsHeld'
  <2>1. UNCHANGED <<principalLock, wPrin>>
    BY <1>6 DEF NewTask, NewTaskFails, BytesExceeded, UndoPrincipal, CheckBytes, AddBytes,
       Insert, lockVars, callVars
  <2>2. pc[w] \in HoldsPrincipal /\ \A v \in Workers : v # w => pc'[v] = pc[v]
    BY <1>6 DEF NewTask, NewTaskFails, BytesExceeded, UndoPrincipal, CheckBytes, AddBytes,
       Insert, Goto, IndInv, TypeOK
  <2> QED BY <1>1, <2>1, <2>2
<1>7. ASSUME NEW w \in Workers,
             \/ \E k \in Sweeps : StartSweep(w, k)
             \/ DecGlobal(w) \/ DecBytes(w) \/ DecPrincipal(w) \/ RemoveIfZero(w)
             \/ \E s \in Shards : Scan(w, s)
             \/ \E t \in TaskIds : RemoveId(w, t)
             \/ Unindex(w) \/ DropKey(w) \/ EndSweep(w)
             \/ \E t \in TaskIds : HandleExpiredTask(w, t)
             \/ RecordAutoApproveResult(w) \/ AutoApproveUnrecorded(w)
      PROVE  GuardsHeld'
  <2> USE DEF HandleExpiredTask, LeaveExpiredTask, RecordAutoApproveResult, AutoApproveUnrecorded
  <2>1. UNCHANGED <<principalLock, wPrin>>
    BY <1>7 DEF StartSweep, DecGlobal, DecBytes, DecPrincipal, RemoveIfZero, Scan, RemoveId,
       Unindex, DropKey, EndSweep, lockVars, callVars
  <2>2. pc'[w] \notin HoldsPrincipal /\ \A v \in Workers : v # w => pc'[v] = pc[v]
    BY <1>7 DEF StartSweep, DecGlobal, DecBytes, DecPrincipal, RemoveIfZero, ReleaseTask, Caller,
       Scan, RemoveId, Unindex, DropKey, EndSweep, Goto, IndInv, TypeOK
  <2> QED BY <1>1, <2>1, <2>2
<1>8. ASSUME NEW w \in Workers, NEW t \in TaskIds,
             \/ \E s \in TransitionTargets : Transition(w, t, s)
             \/ \E d \in {"approved", "rejected"} : RecordApproval(w, t, d)
             \/ Complete(w, t) \/ Cancel(w, t) \/ FailTask(w, t) \/ ExpireId(w, t)
      PROVE  GuardsHeld'
  <2>1. \E s \in Status : Change(w, t, s)
    BY <1>8 DEF Transition, TransitionTargets, RecordApproval, Complete, Cancel, FailTask,
       ExpireId, Status
  <2> QED BY <1>5, <2>1
<1>9. ASSUME NEW w \in Workers, NEW t \in TaskIds,
             (FailRefused(t) /\ UNCHANGED pc) \/ SkipId(w, t)
      PROVE  GuardsHeld'
  BY <1>1, <1>9 DEF FailRefused, SkipId, lockVars, callVars
<1>10. CASE Clock \/ UNCHANGED vars
  BY <1>1, <1>10 DEF Clock, TtlPasses, GracePasses, vars, lockVars, callVars
<1> QED
  BY <1>2, <1>3, <1>4, <1>6, <1>7, <1>8, <1>9, <1>10 DEF Next, Call, Step, Fail, FailId

\* A step that leaves the counted tasks and calls alone, and their sizes.
LEMMA BytesFrame ==
    ASSUME BytesInv, GuardsHeld', pendingBytes' = pendingBytes,
           Live' = Live, \A t \in Live : bytes'[t] = bytes[t],
           Charged' = Charged, Passed' = Passed, \A w \in Charged \cup Passed : wSize'[w] = wSize[w],
           Refunding' = Refunding, \A w \in Refunding : bytes'[wTask'[w]] = bytes[wTask[w]]
    PROVE  BytesInv'
<1>1. BytesOf(Live', bytes') = BytesOf(Live, bytes)
  BY BytesSame
<1>2. BytesOf(Charged', wSize') = BytesOf(Charged, wSize)
  BY BytesSame
<1>3. BytesOf(Passed', wSize') = BytesOf(Passed, wSize)
  BY BytesSame
<1>4. RefundSize' = RefundSize
  BY DEF RefundSize
<1> QED BY <1>1, <1>2, <1>3, <1>4 DEF BytesInv, BytesExact, PassedFits

\* The end of a task hands its bytes to the call that ended it.
LEMMA ChangeBytes ==
    ASSUME IndInv, IndInv', BytesInv, GuardsHeld', NEW w \in Workers, NEW t \in TaskIds,
           NEW s \in Status, Change(w, t, s), pc[w] \in {"idle", "each"}
    PROVE  BytesInv'
<1>0. /\ bytes[t] \in Nat
      /\ IsFiniteSet(BytesOf(Live, bytes)) /\ IsFiniteSet(BytesOf(Refunding, RefundSize))
      /\ Cardinality(BytesOf(Live, bytes)) \in Nat
      /\ Cardinality(BytesOf(Refunding, RefundSize)) \in Nat
      /\ Cardinality(BytesOf(Charged, wSize)) \in Nat
  BY CountedBytes DEF IndInv, AuxInv
<1> USE DEF IndInv, TypeOK, Change, Goto, CanTransitionTo, Transitions, counterVars
<1> USE DEF Status, Terminal, NonTerminal
<1>1. t \in Live
  BY DEF Live
<1>2. Charged' = Charged /\ Passed' = Passed
  BY DEF Charged, Passed
<1>3. CASE s \notin Terminal
  <2>1. Live' = Live /\ Refunding' = Refunding
    BY <1>1, <1>3 DEF Live, Refunding
  <2> QED BY <1>2, <1>3, <2>1, BytesFrame
<1>4. CASE s \in Terminal
  <2>1. Live' = Live \ {t} /\ bytes' = bytes
    BY <1>1, <1>4 DEF Live
  <2>2. Refunding' = Refunding \cup {w} /\ w \notin Refunding
    BY <1>4 DEF Refunding
  <2>3. RefundSize'[w] = bytes[t] /\ \A v \in Refunding : RefundSize'[v] = RefundSize[v]
    <3>1. wTask'[w] = t /\ (\A v \in Workers : v # w => wTask'[v] = wTask[v]) /\ bytes' = bytes
      BY <1>4
    <3>2. Refunding \subseteq Workers
      BY DEF Refunding
    <3> QED BY <2>2, <3>1, <3>2 DEF RefundSize
  <2>4. Cardinality(BytesOf(Live', bytes')) = Cardinality(BytesOf(Live, bytes)) - bytes[t]
    <3>1. Cardinality(BytesOf(Live \ {t}, bytes)) = Cardinality(BytesOf(Live, bytes)) - bytes[t]
      BY <1>0, <1>1, BytesRemoved
    <3> QED BY <2>1, <3>1
  <2>5. BytesOf(Refunding, RefundSize') = BytesOf(Refunding, RefundSize)
    BY <2>3, BytesSame
  <2>6. Cardinality(BytesOf(Refunding', RefundSize'))
          = Cardinality(BytesOf(Refunding, RefundSize)) + bytes[t]
    <3> DEFINE size == RefundSize'
    <3>1. size[w] \in Nat /\ IsFiniteSet(BytesOf(Refunding, size))
      BY <1>0, <2>3, <2>5
    <3> HIDE DEF size
    <3>2. Cardinality(BytesOf(Refunding \cup {w}, size)) = Cardinality(BytesOf(Refunding, size)) + size[w]
      BY <2>2, <3>1, BytesAdded
    <3> QED BY <2>2, <2>3, <2>5, <3>2 DEF size
  <2>7. wSize' = wSize /\ pendingBytes' = pendingBytes
    OBVIOUS
  <2>8. BytesExact'
    BY <1>0, <1>2, <2>4, <2>6, <2>7 DEF BytesInv, BytesExact
  <2>9. PassedFits'
    BY <1>2, <2>7 DEF BytesInv, PassedFits
  <2> QED BY <2>8, <2>9 DEF BytesInv
<1> QED BY <1>3, <1>4

\* tasks.insert turns the bytes of the call into those of a live task.
LEMMA InsertBytes ==
    ASSUME IndInv, BytesInv, GuardsHeld', NEW w \in Workers, Insert(w)
    PROVE  BytesInv'
<1> DEFINE t == wTask[w]
<1>1. /\ t \in TaskIds /\ status[t] = "absent"
      /\ \A v \in Workers : pc[v] \in {"decGlobal", "decBytes"} => wTask[v] # t
  BY DEF Insert, IndInv, AuxInv, FreshIds, Enders, HoldsTask, EndSlot, Terminal
<1>2. /\ status' = [status EXCEPT ![t] = "Working"] /\ bytes' = [bytes EXCEPT ![t] = wSize[w]]
      /\ pc[w] = "insert" /\ pc'[w] = "index" /\ \A v \in Workers : v # w => pc'[v] = pc[v]
      /\ UNCHANGED <<pendingBytes, wTask, wSize>>
  BY DEF Insert, Goto, counterVars, callVars, IndInv, TypeOK
<1>3. Live' = Live \cup {t} /\ t \notin Live
  BY <1>1, <1>2 DEF Live, NonTerminal, Status, Terminal, IndInv, TypeOK
<1>4. /\ Charged' = Charged \ {w} /\ w \in Charged
      /\ Passed' = Passed /\ Refunding' = Refunding
  BY <1>2 DEF Charged, Passed, Refunding
<1>5. /\ wSize[w] \in Nat
      /\ IsFiniteSet(BytesOf(Live, bytes)) /\ IsFiniteSet(BytesOf(Charged, wSize))
      /\ Cardinality(BytesOf(Live, bytes)) \in Nat
      /\ Cardinality(BytesOf(Charged, wSize)) \in Nat
      /\ Cardinality(BytesOf(Refunding, RefundSize)) \in Nat
  BY CountedBytes DEF IndInv, AuxInv
<1>6. RefundSize' = RefundSize
  <2>1. \A v \in Refunding : bytes'[wTask[v]] = bytes[wTask[v]]
    BY <1>1, <1>2 DEF Refunding, IndInv, TypeOK, AuxInv, Enders, HoldsTask, EndSlot
  <2> QED BY <1>2, <1>4, <2>1 DEF RefundSize
<1>7. Cardinality(BytesOf(Live', bytes')) = Cardinality(BytesOf(Live, bytes)) + wSize[w]
  <2> DEFINE size == bytes'
  <2>1. size[t] = wSize[w] /\ \A u \in Live : size[u] = bytes[u]
    BY <1>1, <1>2, <1>3 DEF IndInv, TypeOK, Live
  <2> HIDE DEF size, t
  <2>2. BytesOf(Live, size) = BytesOf(Live, bytes)
    BY <2>1, BytesSame
  <2>3. Cardinality(BytesOf(Live \cup {t}, size)) = Cardinality(BytesOf(Live, size)) + size[t]
    BY <1>3, <1>5, <2>1, <2>2, BytesAdded
  <2> QED BY <1>3, <2>1, <2>2, <2>3 DEF size
<1>8. Cardinality(BytesOf(Charged', wSize')) = Cardinality(BytesOf(Charged, wSize)) - wSize[w]
  <2>1. Cardinality(BytesOf(Charged \ {w}, wSize)) = Cardinality(BytesOf(Charged, wSize)) - wSize[w]
    BY <1>4, <1>5, BytesRemoved
  <2> QED BY <1>2, <1>4, <2>1
<1>9. BytesExact'
  BY <1>2, <1>4, <1>5, <1>6, <1>7, <1>8 DEF BytesInv, BytesExact
<1>10. PassedFits'
  BY <1>2, <1>4 DEF BytesInv, PassedFits
<1> QED BY <1>9, <1>10 DEF BytesInv

\* The fetch_add: what was within the bound as a promise is so as a fact.
LEMMA AddBytesKeeps ==
    ASSUME IndInv, BytesInv, GuardsHeld', NEW w \in Workers, AddBytes(w)
    PROVE  BytesInv'
<1>1. /\ pendingBytes' = pendingBytes + wSize[w] /\ pendingBytes \in Int
      /\ pc[w] = "addBytes" /\ pc'[w] = "insert" /\ \A v \in Workers : v # w => pc'[v] = pc[v]
      /\ UNCHANGED <<status, bytes, wTask, wSize>>
  BY DEF AddBytes, Goto, taskVars, callVars, IndInv, TypeOK
<1>2. /\ Live' = Live /\ Refunding' = Refunding /\ RefundSize' = RefundSize
      /\ Charged' = Charged \cup {w} /\ w \notin Charged
      /\ Passed' = Passed \ {w} /\ w \in Passed
  BY <1>1 DEF Live, Charged, Passed, Refunding, RefundSize
<1>3. /\ wSize[w] \in Nat
      /\ IsFiniteSet(BytesOf(Charged, wSize)) /\ IsFiniteSet(BytesOf(Passed, wSize))
      /\ Cardinality(BytesOf(Live, bytes)) \in Nat
      /\ Cardinality(BytesOf(Charged, wSize)) \in Nat
      /\ Cardinality(BytesOf(Passed, wSize)) \in Nat
      /\ Cardinality(BytesOf(Refunding, RefundSize)) \in Nat
  BY CountedBytes DEF IndInv, AuxInv
<1>4. Cardinality(BytesOf(Charged \cup {w}, wSize)) = Cardinality(BytesOf(Charged, wSize)) + wSize[w]
  BY <1>2, <1>3, BytesAdded
<1>5. Cardinality(BytesOf(Passed \ {w}, wSize)) = Cardinality(BytesOf(Passed, wSize)) - wSize[w]
  BY <1>2, <1>3, BytesRemoved
<1>6. BytesExact'
  BY <1>1, <1>2, <1>3, <1>4 DEF BytesInv, BytesExact
<1>7. pendingBytes' + Cardinality(BytesOf(Passed', wSize'))
        = pendingBytes + Cardinality(BytesOf(Passed, wSize))
  BY <1>1, <1>2, <1>3, <1>5
<1>8. PassedFits'
  BY <1>7 DEF BytesInv, PassedFits
<1> QED BY <1>6, <1>8 DEF BytesInv

\* The fetch_sub of a call that ended a task.
LEMMA DecBytesKeeps ==
    ASSUME IndInv, BytesInv, GuardsHeld', NEW w \in Workers, DecBytes(w)
    PROVE  BytesInv'
<1>1. /\ pendingBytes' = pendingBytes - bytes[wTask[w]] /\ pendingBytes \in Int
      /\ pc[w] = "decBytes" /\ pc'[w] = "decPrincipal"
      /\ \A v \in Workers : v # w => pc'[v] = pc[v]
      /\ UNCHANGED <<status, bytes, wTask, wSize>>
  BY DEF DecBytes, Goto, taskVars, callVars, IndInv, TypeOK
<1>2. /\ Live' = Live /\ Charged' = Charged /\ Passed' = Passed
      /\ Refunding' = Refunding \ {w} /\ w \in Refunding
  BY <1>1 DEF Live, Charged, Passed, Refunding
<1>3. /\ RefundSize[w] = bytes[wTask[w]] /\ RefundSize[w] \in Nat
      /\ \A v \in Refunding \ {w} : RefundSize'[v] = RefundSize[v]
      /\ IsFiniteSet(BytesOf(Refunding, RefundSize))
      /\ Cardinality(BytesOf(Live, bytes)) \in Nat
      /\ Cardinality(BytesOf(Charged, wSize)) \in Nat
      /\ Cardinality(BytesOf(Passed, wSize)) \in Nat
      /\ Cardinality(BytesOf(Refunding, RefundSize)) \in Nat
  <2>1. \A v \in Refunding \ {w} : RefundSize'[v] = RefundSize[v]
    BY <1>1, <1>2 DEF RefundSize
  <2> QED BY <1>2, <2>1, CountedBytes DEF IndInv, AuxInv
<1>4. BytesOf(Refunding \ {w}, RefundSize') = BytesOf(Refunding \ {w}, RefundSize)
  BY <1>3, BytesSame
<1>5. Cardinality(BytesOf(Refunding \ {w}, RefundSize))
        = Cardinality(BytesOf(Refunding, RefundSize)) - RefundSize[w]
  BY <1>2, <1>3, BytesRemoved
<1>6. Cardinality(BytesOf(Refunding', RefundSize'))
        = Cardinality(BytesOf(Refunding, RefundSize)) - RefundSize[w]
  BY <1>2, <1>4, <1>5
<1>7. BytesExact'
  BY <1>1, <1>2, <1>3, <1>6 DEF BytesInv, BytesExact
<1>8. PassedFits'
  <2>1. pendingBytes' <= pendingBytes
    BY <1>1, <1>3
  <2> DEFINE bound == MaxPendingBytes + (Cardinality(PShards) - 1) * Max(Sizes)
             passed == Cardinality(BytesOf(Passed, wSize))
  <2>2. bound \in Int /\ passed \in Nat /\ pendingBytes + passed <= bound /\ pendingBytes' \in Int
    BY <1>1, <1>3, MaxSize, LimitAssumption, BoundAssumption, FS_CardinalityType
    DEF BytesInv, PassedFits
  <2> HIDE DEF bound, passed
  <2>3. pendingBytes' + passed <= bound
    BY <1>1, <2>1, <2>2
  <2> QED BY <1>1, <1>2, <2>3 DEF PassedFits, bound, passed
<1> QED BY <1>7, <1>8 DEF BytesInv

\* The creates past the check hold a shard each, so that all but one of them
\* together have at most the largest size for every shard but one.
LEMMA OthersFit ==
    ASSUME IndInv, GuardsHeld, NEW w \in Workers, pc[w] = "checkBytes"
    PROVE  Cardinality(BytesOf(Passed, wSize)) <= (Cardinality(PShards) - 1) * Max(Sizes)
<1> DEFINE m == Max(Sizes)
           shard(v) == PShardOf[wPrin[v]]
           C == PShards \ {shard(w)}
           D == 1 .. m
           S == BytesOf(Passed, wSize)
           f == [x \in S |-> <<shard(x[1]), x[2]>>]
<1>1. m \in Nat /\ \A v \in Workers : wSize[v] \in 0 .. m
  BY MaxSize DEF IndInv, TypeOK
<1>2. /\ shard(w) \in PShards /\ principalLock[shard(w)] = w
      /\ \A v \in Passed : v # w /\ shard(v) \in PShards /\ principalLock[shard(v)] = v
  <2>1. \A v \in Workers : pc[v] \in {"checkBytes", "addBytes"} =>
          wPrin[v] \in Principals /\ principalLock[PShardOf[wPrin[v]]] = v
    BY DEF IndInv, AuxInv, Creators, GuardsHeld, HoldsPrincipal, CreateSlot
  <2>2. \A p \in Principals : PShardOf[p] \in PShards
    BY ShardAssumption
  <2> QED BY <2>1, <2>2 DEF Passed
<1>3. /\ \A v \in Passed : shard(v) \in C
      /\ \A u, v \in Passed : shard(u) = shard(v) => u = v
  BY <1>2
<1>4. /\ IsFiniteSet(C) /\ Cardinality(C) = Cardinality(PShards) - 1
      /\ IsFiniteSet(D) /\ Cardinality(D) = m
  <2>1. IsFiniteSet(C) /\ Cardinality(C) = Cardinality(PShards) - 1
    BY <1>2, BoundAssumption, FS_RemoveElement
  <2>2. IsFiniteSet(D) /\ Cardinality(D) = m
    BY <1>1, FS_Interval
  <2> QED BY <2>1, <2>2
<1>5. \A x \in S : x[1] \in Passed /\ x[2] \in D /\ x = <<x[1], x[2]>>
  BY <1>1 DEF BytesOf, Passed
<1> HIDE DEF m, shard, C, D, S
<1>6. f \in Injection(S, C \X D)
  BY <1>3, <1>5 DEF Injection, IsInjective
<1>7. IsFiniteSet(C \X D) /\ Cardinality(C \X D) = Cardinality(C) * Cardinality(D)
  BY <1>4, FS_Product
<1> HIDE DEF f
<1>8. Cardinality(S) <= Cardinality(C \X D)
  BY <1>6, <1>7, FS_Injection
<1> QED BY <1>4, <1>7, <1>8 DEF S, m

\* The check: only the others can have taken what it found free.
LEMMA CheckBytesKeeps ==
    ASSUME IndInv, BytesInv, GuardsHeld', NEW w \in Workers, CheckBytes(w)
    PROVE  BytesInv'
<1>1. /\ pendingBytes + wSize[w] <= MaxPendingBytes /\ pendingBytes \in Int
      /\ pc[w] = "checkBytes" /\ pc'[w] = "addBytes" /\ \A v \in Workers : v # w => pc'[v] = pc[v]
      /\ UNCHANGED <<status, bytes, pendingBytes, wTask, wSize>>
  <2>1. /\ ~(pendingBytes + wSize[w] > MaxPendingBytes) /\ pc[w] = "checkBytes"
        /\ UNCHANGED <<status, bytes, pendingBytes, wTask, wSize>>
    BY DEF CheckBytes, BytesFull, taskVars, counterVars, callVars
  <2>2. pendingBytes \in Int /\ wSize[w] \in Nat /\ MaxPendingBytes \in Nat
    BY LimitAssumption, CountedBytes DEF IndInv, AuxInv, TypeOK
  <2>3. pc'[w] = "addBytes" /\ \A v \in Workers : v # w => pc'[v] = pc[v]
    BY DEF CheckBytes, Goto, IndInv, TypeOK
  <2> QED BY <2>1, <2>2, <2>3
<1>2. /\ Live' = Live /\ Refunding' = Refunding /\ RefundSize' = RefundSize /\ Charged' = Charged
      /\ Passed' = Passed \cup {w} /\ w \notin Passed
  BY <1>1 DEF Live, Charged, Passed, Refunding, RefundSize
<1>3. /\ wSize[w] \in Nat /\ IsFiniteSet(BytesOf(Passed, wSize))
      /\ Cardinality(BytesOf(Passed, wSize)) \in Nat
  BY CountedBytes DEF IndInv, AuxInv
<1>4. Cardinality(BytesOf(Passed \cup {w}, wSize)) = Cardinality(BytesOf(Passed, wSize)) + wSize[w]
  BY <1>2, <1>3, BytesAdded
<1>5. BytesExact'
  BY <1>1, <1>2 DEF BytesInv, BytesExact
<1>6. PassedFits'
  <2> DEFINE over == (Cardinality(PShards) - 1) * Max(Sizes)
             passed == Cardinality(BytesOf(Passed, wSize))
  <2>1. over \in Int /\ passed <= over /\ passed \in Nat /\ MaxPendingBytes \in Nat
    BY <1>1, <1>3, OthersFit, MaxSize, LimitAssumption, BoundAssumption, FS_CardinalityType
    DEF BytesInv
  <2> HIDE DEF over, passed
  <2>2. pendingBytes + (passed + wSize[w]) <= MaxPendingBytes + over
    BY <1>1, <1>3, <2>1
  <2> QED BY <1>1, <1>2, <1>4, <2>2 DEF PassedFits, over, passed
<1> QED BY <1>5, <1>6 DEF BytesInv

\* The labels at which no bytes are counted.
Weightless == Labels \ {"addBytes", "insert", "decGlobal", "decBytes"}

\* A worker that moves between them changes nothing that is counted.
LEMMA BytesQuiet ==
    ASSUME BytesInv, GuardsHeld', NEW w \in Workers, pendingBytes' = pendingBytes, bytes' = bytes,
           Live' = Live, pc[w] \in Weightless, pc'[w] \in Weightless,
           \A v \in Workers : v # w => /\ pc'[v] = pc[v] /\ wTask'[v] = wTask[v]
                                       /\ wSize'[v] = wSize[v]
    PROVE  BytesInv'
<1>1. /\ Charged' = Charged /\ Passed' = Passed /\ Refunding' = Refunding
      /\ w \notin Charged \cup Passed \cup Refunding
      /\ Charged \cup Passed \cup Refunding \subseteq Workers
  BY DEF Charged, Passed, Refunding, Weightless
<1> QED BY <1>1, BytesFrame

\* Every step keeps pending_bytes exact and its overshoot bounded.
LEMMA BytesStep == IndInv /\ IndInv' /\ BytesInv /\ [Next]_vars => BytesInv'
<1> SUFFICES ASSUME IndInv, IndInv', BytesInv, [Next]_vars PROVE BytesInv'
  OBVIOUS
<1>1. GuardsHeld'
  BY GuardStep DEF BytesInv
<1> USE DEF taskVars, counterVars, callVars, Weightless, Labels
<1>2. ASSUME NEW w \in Workers, NEW t \in TaskIds,
             \/ \E s \in TransitionTargets : Transition(w, t, s)
             \/ \E d \in {"approved", "rejected"} : RecordApproval(w, t, d)
             \/ Complete(w, t) \/ Cancel(w, t) \/ ExpireId(w, t)
             \/ FailTask(w, t) /\ pc[w] \in {"idle", "each"}
      PROVE  BytesInv'
  <2>1. (\E s \in Status : Change(w, t, s)) /\ pc[w] \in {"idle", "each"}
    BY <1>2 DEF Transition, TransitionTargets, RecordApproval, Complete, Cancel, FailTask,
       ExpireId, TakeId, Status
  <2> QED BY <1>1, <2>1, ChangeBytes
<1>3. ASSUME NEW w \in Workers, NEW t \in TaskIds,
             \/ FailRefused(t) /\ UNCHANGED pc
             \/ SkipId(w, t)
      PROVE  BytesInv'
  <2>1. UNCHANGED <<status, bytes, pendingBytes, pc, wTask, wSize>>
    BY <1>3 DEF FailRefused, SkipId
  <2> QED BY <1>1, <2>1, BytesFrame DEF Live, Charged, Passed, Refunding
<1>4. ASSUME NEW w \in Workers,
             \/ \E p \in Principals, n \in Sizes : ReserveGlobal(w, p, n)
             \/ \E k \in Sweeps : StartSweep(w, k)
             \/ ReservePrincipal(w) \/ (\E t \in TaskIds : NewTask(w, t))
             \/ NewTaskFails(w) \/ BytesExceeded(w) \/ AddToIndex(w) \/ RollbackGlobal(w)
      PROVE  BytesInv'
  <2>1. UNCHANGED <<status, bytes, pendingBytes>>
    BY <1>4 DEF ReserveGlobal, StartSweep, ReservePrincipal, NewTask, NewTaskFails,
       BytesExceeded, UndoPrincipal, AddToIndex, RollbackGlobal
  <2>2. pc[w] \in Weightless /\ pc'[w] \in Weightless
    BY <1>4 DEF ReserveGlobal, StartSweep, ReservePrincipal, NewTask, NewTaskFails,
       BytesExceeded, UndoPrincipal, AddToIndex, RollbackGlobal, ReleasePrincipal, Goto,
       IndInv, TypeOK
  <2>3. \A v \in Workers : v # w => pc'[v] = pc[v] /\ wTask'[v] = wTask[v] /\ wSize'[v] = wSize[v]
    BY <1>4 DEF ReserveGlobal, StartSweep, ReservePrincipal, NewTask, NewTaskFails,
       BytesExceeded, UndoPrincipal, AddToIndex, RollbackGlobal, ReleasePrincipal, Goto,
       IndInv, TypeOK
  <2>4. Live' = Live
    BY <2>1 DEF Live
  <2> QED BY <1>1, <2>1, <2>2, <2>3, <2>4, BytesQuiet
<1>5. ASSUME NEW w \in Workers,
             \/ DecPrincipal(w) \/ RemoveIfZero(w) \/ (\E s \in Shards : Scan(w, s))
             \/ Unindex(w) \/ DropKey(w) \/ EndSweep(w)
             \/ \E t \in TaskIds : HandleExpiredTask(w, t)
             \/ RecordAutoApproveResult(w) \/ AutoApproveUnrecorded(w)
      PROVE  BytesInv'
  <2> USE DEF HandleExpiredTask, LeaveExpiredTask, RecordAutoApproveResult, AutoApproveUnrecorded
  <2>1. UNCHANGED <<status, bytes, pendingBytes>>
    BY <1>5 DEF DecPrincipal, RemoveIfZero, Scan, Unindex, DropKey, EndSweep
  <2>2. pc[w] \in Weightless /\ pc'[w] \in Weightless
    BY <1>5 DEF DecPrincipal, RemoveIfZero, ReleaseTask, Caller, Scan, Unindex, DropKey,
       EndSweep, Goto, IndInv, TypeOK
  <2>3. \A v \in Workers : v # w => pc'[v] = pc[v] /\ wTask'[v] = wTask[v] /\ wSize'[v] = wSize[v]
    BY <1>5 DEF DecPrincipal, RemoveIfZero, ReleaseTask, Caller, Scan, Unindex, DropKey,
       EndSweep, Goto, IndInv, TypeOK
  <2>4. Live' = Live
    BY <2>1 DEF Live
  <2> QED BY <1>1, <2>1, <2>2, <2>3, <2>4, BytesQuiet
<1>6. ASSUME NEW w \in Workers, NEW t \in TaskIds, RemoveId(w, t)
      PROVE  BytesInv'
  <2>1. status[t] \in Terminal \cup {"removed"} /\ status' = [status EXCEPT ![t] = "removed"]
    BY <1>6 DEF RemoveId, TakeId, IndInv, AuxInv, SweptEnded
  <2>2. Live' = Live
    BY <2>1 DEF Live, NonTerminal, Terminal, Status, IndInv, TypeOK
  <2>3. /\ UNCHANGED <<bytes, pendingBytes, wSize>> /\ pc[w] \in Weightless /\ pc'[w] \in Weightless
        /\ \A v \in Workers : v # w => pc'[v] = pc[v] /\ wTask'[v] = wTask[v]
    BY <1>6 DEF RemoveId, TakeId, Goto, IndInv, TypeOK
  <2> QED BY <1>1, <2>2, <2>3, BytesQuiet
<1>7. ASSUME NEW w \in Workers, DecGlobal(w)
      PROVE  BytesInv'
  <2>1. /\ UNCHANGED <<status, bytes, pendingBytes, wTask, wSize>>
        /\ pc[w] = "decGlobal" /\ pc'[w] = "decBytes" /\ \A v \in Workers : v # w => pc'[v] = pc[v]
    BY <1>7 DEF DecGlobal, Goto, IndInv, TypeOK
  <2>2. Live' = Live /\ Charged' = Charged /\ Passed' = Passed /\ Refunding' = Refunding
    BY <2>1 DEF Live, Charged, Passed, Refunding
  <2> QED BY <1>1, <2>1, <2>2, BytesFrame
<1>8. ASSUME NEW w \in Workers, CheckBytes(w) \/ AddBytes(w) \/ Insert(w) \/ DecBytes(w)
      PROVE  BytesInv'
  BY <1>1, <1>8, CheckBytesKeeps, AddBytesKeeps, InsertBytes, DecBytesKeeps
<1>9. CASE Clock \/ UNCHANGED vars
  <2>1. UNCHANGED <<status, bytes, pendingBytes, pc, wTask, wSize>>
    BY <1>9 DEF Clock, TtlPasses, GracePasses, vars
  <2> QED BY <1>1, <2>1, BytesFrame DEF Live, Charged, Passed, Refunding
<1>10. ASSUME NEW w \in Workers, NEW t \in TaskIds, Fail(w, t) \/ FailId(w, t)
       PROVE  BytesInv'
  BY <1>2, <1>3, <1>10 DEF Fail, FailId, TakeId
<1> QED
  BY <1>2, <1>3, <1>4, <1>5, <1>6, <1>7, <1>8, <1>9, <1>10 DEF Next, Call, Step

\* pending_bytes is what the live tasks and the calls in flight weigh, and
\* exceeds its limit by at most one largest task for every shard of
\* pending_by_principal but one, although the limit is read in one step and
\* charged in another.
THEOREM BytesAreSound == Spec => []BytesSound
<1>1. Init => BytesInv
  <2> SUFFICES ASSUME Init PROVE BytesInv
    OBVIOUS
  <2>1. GuardsHeld
    BY DEF Init, GuardsHeld, HoldsPrincipal, CreateSlot
  <2>2. Live = {} /\ Charged = {} /\ Passed = {} /\ Refunding = {}
    BY DEF Init, Live, Charged, Passed, Refunding, NonTerminal, Status, Terminal
  <2>3. \A size : BytesOf({}, size) = {}
    BY DEF BytesOf
  <2>4. Cardinality({}) = 0
    BY FS_EmptySet
  <2>5. /\ Cardinality(BytesOf(Live, bytes)) = 0 /\ Cardinality(BytesOf(Charged, wSize)) = 0
        /\ Cardinality(BytesOf(Passed, wSize)) = 0
        /\ Cardinality(BytesOf(Refunding, RefundSize)) = 0
    BY <2>2, <2>3, <2>4
  <2>6. BytesExact
    BY <2>5 DEF Init, BytesExact
  <2>7. Cardinality(PShards) \in Nat /\ Cardinality(PShards) >= 1
    BY BoundAssumption, FS_CardinalityType, FS_EmptySet
  <2>8. (Cardinality(PShards) - 1) * Max(Sizes) \in Nat
    BY <2>7, MaxSize
  <2>9. PassedFits
    BY <2>5, <2>8, LimitAssumption DEF Init, PassedFits
  <2> QED BY <2>1, <2>6, <2>9 DEF BytesInv
<1>2. IndInv /\ BytesInv => BytesSound
  <2> SUFFICES ASSUME IndInv, BytesInv PROVE BytesOvershootBounded
    BY DEF BytesInv, BytesSound
  <2>1. Cardinality(BytesOf(Passed, wSize)) \in Nat /\ pendingBytes \in Int
    BY CountedBytes DEF IndInv, AuxInv, TypeOK
  <2>2. (Cardinality(PShards) - 1) * Max(Sizes) \in Int /\ MaxPendingBytes \in Nat
    BY MaxSize, BoundAssumption, FS_CardinalityType, LimitAssumption
  <2> QED BY <2>1, <2>2 DEF BytesInv, PassedFits, BytesOvershootBounded
<1> QED BY <1>1, <1>2, BytesStep, Inductive, PTL DEF Spec
=============================================================================
