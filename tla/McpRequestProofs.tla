-------------------------- MODULE McpRequestProofs --------------------------
(***************************************************************************)
(* Theorems about McpRequest, for any number of requests, any bodies,      *)
(* configurations, policies and limits: the byte counter and the semaphore *)
(* are exact, the upstream receives an item once, and only the gates let a *)
(* governed item through.                                                  *)
(***************************************************************************)
EXTENDS McpRequest, TLAPS, FiniteSetTheorems, WellFoundedInduction

\* The handlers whose bodies are in memory, and the ones that were accepted.
Holding == {"overflow", "parsing", "running", "leaving"}
Accepted == {"parsing", "running", "leaving"}

\* A handler knows its body, starts no item before it runs, and runs only a
\* batch of the permitted size.
Admitted ==
    \A r \in Requests :
        /\ pc[r] # "new" => body[r] \in Bodies
        /\ pc[r] = "running" => Cost(r) <= MaxBatch
        /\ pc[r] \in {"new", "collected", "overflow", "parsing"} =>
            \A i \in 1 .. (MaxBatch + 1) : at[<<r, i>>] = "queued"

\* An item is undelivered while it may still come to be forwarded.
NotYetDelivered ==
    \A s \in Slots :
        /\ delivered[s] <= 1
        /\ at[s] \in {"queued", "principal", "cedar", "forward"} => delivered[s] = 0

\* The gates are asked about items that name something, by the part of the
\* router that the configuration selects.
GatesApply ==
    \A s \in Slots :
        /\ at[s] = "principal" => config.loaded /\ Item(s).name # None
        /\ at[s] = "cedar" => ~config.loaded /\ Item(s).name # None

\* The sets that CapacityHeld counts are finite, whatever Requests is.
Countable ==
    /\ IsFiniteSet(BytesOf(In(Holding)))
    /\ IsFiniteSet(ItemsOf(In({"running"})))

CapacityInv == Countable /\ CapacityHeld
ItemInv == Admitted /\ NotYetDelivered /\ GatesApply
IndInv == TypeOK /\ ItemInv /\ CapacityInv

-----------------------------------------------------------------------------
(* The gates *)

\* A set of rules has a first one.
LEMMA FirstRule ==
    ASSUME NEW S, S \subseteq Nat, S # {}
    PROVE  \E k \in S : \A j \in S : k <= j
<1>1. PICK k \in S : \A j \in S : ~(<<j, k>> \in OpToRel(<, Nat))
  BY NatLessThanWellFounded, WFMin
<1>2. ASSUME NEW j \in S PROVE ~(j < k)
  <2>1. <<j, k>> \in Nat \X Nat /\ <<j, k>> \notin OpToRel(<, Nat)
    BY <1>1
  <2> QED BY <2>1 DEF OpToRel
<1> QED BY <1>2

\* Governance::evaluate returns the action of the rule that no earlier one
\* shadows, and that action only.
LEMMA EvaluateIsAction ==
    ASSUME NEW c, WellTyped(c), NEW n
    PROVE  /\ Evaluate(c, n) \in Actions /\ ActionFor(c, n, Evaluate(c, n))
           /\ \A a : ActionFor(c, n, a) => a = Evaluate(c, n)
<1> DEFINE hits == {k \in DOMAIN c.rules : RuleMatches(c.rules[k], n)}
<1>1. CASE hits = {}
  BY <1>1 DEF Evaluate, WellTyped, ActionFor, FirstMatch
<1>2. CASE hits # {}
  <2> DEFINE first == CHOOSE k \in hits : \A j \in hits : k <= j
  <2>1. hits \subseteq Nat
    BY DEF WellTyped
  <2>2. \E k \in hits : \A j \in hits : k <= j
    BY <1>2, <2>1, FirstRule
  <2>3. first \in hits /\ \A j \in hits : first <= j
    BY <2>2
  <2>4. Evaluate(c, n) = c.rules[first].action
    BY <1>2 DEF Evaluate
  <2> HIDE DEF first
  <2>5. FirstMatch(c, n, first)
    BY <2>3 DEF FirstMatch
  <2>6. ASSUME NEW k, FirstMatch(c, n, k) PROVE k = first
    <3>1. k \in hits /\ k <= first
      BY <2>3, <2>6 DEF FirstMatch
    <3> QED BY <2>1, <2>3, <3>1
  <2>7. \E k \in DOMAIN c.rules : RuleMatches(c.rules[k], n)
    BY <1>2
  <2> QED BY <2>3, <2>4, <2>5, <2>6, <2>7 DEF ActionFor, WellTyped
<1> QED BY <1>1, <1>2

\* evaluate_with_principal forwards only what the gates, taken together, allow.
LEMMA ForwardIsAllowed ==
    ASSUME NEW c, WellTyped(c), NEW P, NEW m, NEW n
    PROVE  /\ EvaluateWithPrincipal(c, P, m, n) \in {"forward", "deny", "approve"}
           /\ EvaluateWithPrincipal(c, P, m, n) = "forward" => MayForward(c, n)
<1> DEFINE action == Evaluate(c, n)
<1>1. /\ action \in {"forward", "deny", "policy", "approve"} /\ ActionFor(c, n, action)
      /\ \A a : ActionFor(c, n, a) => a = action
  BY EvaluateIsAction DEF Actions
<1> HIDE DEF action
<1>2. Exposed(c, n) => n \in FilterByVisibility(c, {n}) /\ c.sources[SourceId].enabled
  BY DEF Exposed, FilterByVisibility
<1>3. CASE ~Exposed(c, n)
  BY <1>3 DEF EvaluateWithPrincipal
<1>4. CASE Exposed(c, n) /\ action \in {"forward", "deny"}
  BY <1>1, <1>2, <1>4 DEF EvaluateWithPrincipal, MayForward, action
<1>5. CASE Exposed(c, n) /\ action = "approve"
  BY <1>1, <1>2, <1>5 DEF EvaluateWithPrincipal, MayForward, StartApproval, action
<1>6. CASE Exposed(c, n) /\ action = "policy"
  BY <1>1, <1>2, <1>6 DEF EvaluateWithPrincipal, MayForward, EvaluateCedar, StartApproval, action
<1> QED BY <1>1, <1>3, <1>4, <1>5, <1>6

-----------------------------------------------------------------------------
(* Counting *)

\* The units of one more request add up.
LEMMA Grows ==
    ASSUME NEW A, IsFiniteSet(A), NEW r, NEW n \in Nat, \A x \in A : x[1] # r
    PROVE  /\ IsFiniteSet(A \cup ({r} \X (1 .. n)))
           /\ Cardinality(A \cup ({r} \X (1 .. n))) = Cardinality(A) + n
<1> DEFINE B == {r} \X (1 .. n)
<1>1. IsFiniteSet({r}) /\ Cardinality({r}) = 1
  BY FS_Singleton
<1>2. IsFiniteSet(1 .. n) /\ Cardinality(1 .. n) = n
  BY FS_Interval
<1>3. IsFiniteSet(B) /\ Cardinality(B) = n
  <2> DEFINE C == {r}
             D == 1 .. n
  <2>1. IsFiniteSet(C) /\ Cardinality(C) = 1 /\ IsFiniteSet(D) /\ Cardinality(D) = n
    BY <1>1, <1>2
  <2> HIDE DEF C, D
  <2>2. IsFiniteSet(C \X D) /\ Cardinality(C \X D) = Cardinality(C) * Cardinality(D)
    BY <2>1, FS_Product
  <2>3. Cardinality(C \X D) = n
    BY <2>1, <2>2
  <2> QED BY <2>2, <2>3 DEF C, D
<1>4. A \cap B = {}
  OBVIOUS
<1>5. Cardinality(A) \in Nat
  BY FS_CardinalityType
<1> HIDE DEF B
<1>6. /\ IsFiniteSet(A \cup B)
      /\ Cardinality(A \cup B) = Cardinality(A) + Cardinality(B) - Cardinality(A \cap B)
  BY <1>3, FS_Union
<1>7. Cardinality(A \cup B) = Cardinality(A) + n
  BY <1>3, <1>4, <1>5, <1>6, FS_EmptySet
<1> QED BY <1>6, <1>7 DEF B

\* One request more or less, for the bytes ...
LEMMA BytesGrow ==
    ASSUME NEW S, NEW r, r \notin S, body[r].size \in Nat, IsFiniteSet(BytesOf(S))
    PROVE  /\ IsFiniteSet(BytesOf(S \cup {r}))
           /\ Cardinality(BytesOf(S \cup {r})) = Cardinality(BytesOf(S)) + body[r].size
<1>1. BytesOf(S \cup {r}) = BytesOf(S) \cup ({r} \X (1 .. body[r].size))
  BY DEF BytesOf
<1>2. \A x \in BytesOf(S) : x[1] # r
  BY DEF BytesOf
<1> DEFINE A == BytesOf(S)
           n == body[r].size
<1>3. IsFiniteSet(A) /\ n \in Nat /\ \A x \in A : x[1] # r
  BY <1>2
<1> HIDE DEF A, n
<1>4. /\ IsFiniteSet(A \cup ({r} \X (1 .. n)))
      /\ Cardinality(A \cup ({r} \X (1 .. n))) = Cardinality(A) + n
  BY <1>3, Grows
<1> QED BY <1>1, <1>4 DEF A, n

\* ... and for the items.
LEMMA ItemsGrow ==
    ASSUME NEW S, NEW r, r \notin S, Cost(r) \in Nat, IsFiniteSet(ItemsOf(S))
    PROVE  /\ IsFiniteSet(ItemsOf(S \cup {r}))
           /\ Cardinality(ItemsOf(S \cup {r})) = Cardinality(ItemsOf(S)) + Cost(r)
<1>1. ItemsOf(S \cup {r}) = ItemsOf(S) \cup ({r} \X (1 .. Cost(r)))
  BY DEF ItemsOf
<1>2. \A x \in ItemsOf(S) : x[1] # r
  BY DEF ItemsOf
<1> DEFINE A == ItemsOf(S)
           n == Cost(r)
<1>3. IsFiniteSet(A) /\ n \in Nat /\ \A x \in A : x[1] # r
  BY <1>2
<1> HIDE DEF A, n
<1>4. /\ IsFiniteSet(A \cup ({r} \X (1 .. n)))
      /\ Cardinality(A \cup ({r} \X (1 .. n))) = Cardinality(A) + n
  BY <1>3, Grows
<1> QED BY <1>1, <1>4 DEF A, n

\* Fewer requests have fewer bytes and items.
LEMMA FewerUnits ==
    ASSUME NEW S, NEW T, S \subseteq T
    PROVE  /\ IsFiniteSet(BytesOf(T)) =>
                IsFiniteSet(BytesOf(S)) /\ Cardinality(BytesOf(S)) <= Cardinality(BytesOf(T))
           /\ IsFiniteSet(ItemsOf(T)) =>
                IsFiniteSet(ItemsOf(S)) /\ Cardinality(ItemsOf(S)) <= Cardinality(ItemsOf(T))
<1>1. BytesOf(S) \in SUBSET BytesOf(T) /\ ItemsOf(S) \in SUBSET ItemsOf(T)
  BY DEF BytesOf, ItemsOf
<1> QED BY <1>1, FS_Subset

\* What a body weighs and costs, once it is known.
LEMMA Weights ==
    ASSUME IndInv, NEW r \in Requests, pc[r] # "new"
    PROVE  body[r] \in Bodies /\ body[r].size \in Nat /\ Cost(r) \in Nat \ {0}
BY LimitsAssumption DEF IndInv, ItemInv, Admitted, Cost

\* The handlers at certain steps, when one of them moves.
LEMMA Moves ==
    ASSUME TypeOK, NEW r \in Requests, NEW l, Goto(r, l), NEW states
    PROVE  In(states)' = IF l \in states THEN In(states) \cup {r} ELSE In(states) \ {r}
BY DEF TypeOK, Goto, In

\* With the bodies, the bytes and items of a set of requests stay.
LEMMA SameBodies ==
    ASSUME NEW states, NEW S, In(states)' = S, \A r \in S : body'[r] = body[r]
    PROVE  BytesOf(In(states))' = BytesOf(S) /\ ItemsOf(In(states))' = ItemsOf(S)
BY DEF BytesOf, ItemsOf, Cost

\* Nothing is admitted and nothing leaves: items, streams, reloads.
LEMMA CapacityFrame ==
    ASSUME IndInv, UNCHANGED <<body, pc, buffered, permits>>
    PROVE  CapacityInv'
BY DEF IndInv, CapacityInv, Countable, CapacityHeld, CapacityExact, AcceptedFits, BytesOf,
   ItemsOf, In, Cost

\* A handler that moves: the bytes and items it takes or gives back are its own.
LEMMA CapacityStep ==
    ASSUME IndInv, NEW r \in Requests,
           (\E b \in Bodies : Arrive(r, b)) \/ HandlerStep(r) \/ DropHandler(r)
    PROVE  CapacityInv'
<1> DEFINE H == In(Holding)
           A == In(Accepted)
           R == In({"running"})
<1>1. MaxAggregate \in Nat /\ MaxConcurrent \in Nat
  BY LimitsAssumption
<1>2. /\ IsFiniteSet(BytesOf(H)) /\ buffered = Cardinality(BytesOf(H)) /\ buffered \in Nat
      /\ IsFiniteSet(ItemsOf(R)) /\ permits + Cardinality(ItemsOf(R)) = MaxConcurrent
      /\ Cardinality(BytesOf(A)) <= MaxAggregate
      /\ permits \in Nat /\ MaxAggregate \in Nat /\ MaxConcurrent \in Nat
  BY <1>1 DEF IndInv, TypeOK, CapacityInv, Countable, CapacityHeld, CapacityExact,
     AcceptedFits, Holding, Accepted
<1>3. TypeOK /\ A \subseteq H /\ R \subseteq Requests
  BY DEF IndInv, In, Holding, Accepted
<1>4. ASSUME IsFiniteSet(BytesOf(In(Holding)))', IsFiniteSet(ItemsOf(In({"running"})))',
             buffered' = Cardinality(BytesOf(In(Holding)))',
             permits' + Cardinality(ItemsOf(In({"running"})))' = MaxConcurrent,
             Cardinality(BytesOf(In(Accepted)))' <= MaxAggregate
      PROVE  CapacityInv'
  BY <1>4 DEF CapacityInv, Countable, CapacityHeld, CapacityExact, AcceptedFits, Holding, Accepted
<1> HIDE DEF H, A, R
<1>5. /\ "done" \notin Holding /\ "done" \notin Accepted
      /\ {"leaving", "running"} \subseteq Holding /\ {"leaving", "running"} \subseteq Accepted
  BY DEF Holding, Accepted
<1>6. ASSUME r \in H, body[r].size \in Nat
      PROVE  /\ IsFiniteSet(BytesOf(H \ {r}))
             /\ Cardinality(BytesOf(H \ {r})) = buffered - body[r].size
  <2>1. IsFiniteSet(BytesOf(H \ {r})) /\ Cardinality(BytesOf(H \ {r})) \in Nat
    BY <1>2, FewerUnits, FS_CardinalityType
  <2>2. (H \ {r}) \cup {r} = H
    BY <1>6
  <2>3. Cardinality(BytesOf(H)) = Cardinality(BytesOf(H \ {r})) + body[r].size
    BY <1>6, <2>1, <2>2, BytesGrow
  <2> QED BY <1>2, <1>6, <2>1, <2>3
<1>7. Cardinality(BytesOf(A \ {r})) <= MaxAggregate
  <2>1. IsFiniteSet(BytesOf(A))
    BY <1>2, <1>3, FewerUnits DEF H, A
  <2>2. /\ Cardinality(BytesOf(A \ {r})) <= Cardinality(BytesOf(A))
        /\ Cardinality(BytesOf(A \ {r})) \in Nat /\ Cardinality(BytesOf(A)) \in Nat
    BY <2>1, FewerUnits, FS_CardinalityType
  <2> QED BY <1>2, <2>2
<1>8. CASE \E b \in Bodies : Arrive(r, b)
  <2>1. PICK l \in {"done", "collected"} : Goto(r, l)
    BY <1>8 DEF Arrive
  <2>2. pc[r] = "new" /\ UNCHANGED <<buffered, permits>> /\ \A q \in Requests \ {r} : body'[q] = body[q]
    BY <1>3, <1>8 DEF Arrive, limitVars, TypeOK
  <2>3. H \subseteq Requests \ {r} /\ A \subseteq Requests \ {r} /\ R \subseteq Requests \ {r}
    BY <2>2 DEF H, A, R, In, Holding, Accepted
  <2>4. In(Holding)' = H /\ In(Accepted)' = A /\ In({"running"})' = R
    <3>1. l \notin Holding /\ l \notin Accepted /\ l \notin {"running"}
      BY DEF Holding, Accepted
    <3>2. \A states : l \notin states => In(states)' = In(states) \ {r}
      BY <1>3, <2>1, Moves
    <3> QED BY <2>3, <3>1, <3>2 DEF H, A, R
  <2>5. /\ BytesOf(In(Holding))' = BytesOf(H) /\ BytesOf(In(Accepted))' = BytesOf(A)
        /\ ItemsOf(In({"running"}))' = ItemsOf(R)
    BY <2>2, <2>3, <2>4, SameBodies
  <2> QED BY <1>2, <1>4, <2>2, <2>5
<1>9. CASE HandlerStep(r) \/ DropHandler(r)
  <2>1. body' = body /\ pc[r] # "new" /\ body[r].size \in Nat /\ Cost(r) \in Nat
    BY <1>9, Weights DEF HandlerStep, Reserve, UndoReserve, Parse, Finish, Leave, DropBufferGuard,
       DropHandler
  <2>2. ASSUME NEW states, NEW S, In(states)' = S
        PROVE  BytesOf(In(states))' = BytesOf(S) /\ ItemsOf(In(states))' = ItemsOf(S)
    BY <2>1, <2>2, SameBodies
  <2>3. CASE Reserve(r)
    <3>1. /\ pc[r] = "collected" /\ buffered' = buffered + body[r].size /\ permits' = permits
          /\ \/ Goto(r, "overflow")
             \/ Goto(r, "parsing") /\ buffered' <= MaxAggregate
      BY <2>3, <1>2, <2>1 DEF Reserve, Overflows
    <3>2. r \notin H /\ r \notin A /\ r \notin R
      BY <3>1 DEF H, A, R, In, Holding, Accepted
    <3>3. In(Holding)' = H \cup {r} /\ In({"running"})' = R
      <4>1. PICK l \in {"overflow", "parsing"} : Goto(r, l)
        BY <3>1
      <4>2. l \in Holding /\ l \notin {"running"}
        BY DEF Holding
      <4>3. R \ {r} = R
        BY <3>2
      <4> QED BY <1>3, <4>1, <4>2, <4>3, Moves DEF H, R
    <3>4. /\ IsFiniteSet(BytesOf(H \cup {r}))
          /\ Cardinality(BytesOf(H \cup {r})) = buffered'
      BY <1>2, <2>1, <3>1, <3>2, BytesGrow
    <3>5. Cardinality(BytesOf(In(Accepted)))' <= MaxAggregate
      <4>1. CASE Goto(r, "overflow")
        <5>1. In(Accepted)' = A
          BY <1>3, <3>2, <4>1, Moves DEF A, Accepted
        <5> QED BY <1>2, <2>2, <5>1
      <4>2. CASE Goto(r, "parsing") /\ buffered' <= MaxAggregate
        <5>1. In(Accepted)' = A \cup {r}
          BY <1>3, <4>2, Moves DEF A, Accepted
        <5>2. A \cup {r} \subseteq H \cup {r}
          BY <1>3 DEF H, A
        <5>3. /\ IsFiniteSet(BytesOf(A \cup {r}))
              /\ Cardinality(BytesOf(A \cup {r})) <= Cardinality(BytesOf(H \cup {r}))
          BY <3>4, <5>2, FewerUnits
        <5>4. Cardinality(BytesOf(A \cup {r})) \in Nat /\ buffered' \in Nat
          BY <1>2, <2>1, <3>1, <5>3, FS_CardinalityType
        <5>5. Cardinality(BytesOf(A \cup {r})) <= MaxAggregate
          BY <1>2, <3>4, <4>2, <5>3, <5>4
        <5> QED BY <2>2, <5>1, <5>5
      <4> QED BY <3>1, <4>1, <4>2
    <3> QED BY <1>2, <1>4, <2>2, <3>1, <3>3, <3>4, <3>5
  <2>4. CASE UndoReserve(r)
    <3>1. pc[r] = "overflow" /\ Goto(r, "done") /\ UNCHANGED permits
          /\ buffered' = buffered - body[r].size
      BY <2>4 DEF UndoReserve
    <3>2. r \in H /\ r \notin A /\ r \notin R
      BY <3>1 DEF H, A, R, In, Holding, Accepted
    <3>3. In(Holding)' = H \ {r} /\ In(Accepted)' = A /\ In({"running"})' = R
      <4>1. A \ {r} = A /\ R \ {r} = R
        BY <3>2
      <4> QED BY <1>3, <1>5, <3>1, <4>1, Moves DEF H, A, R
    <3> QED BY <1>2, <1>4, <1>6, <2>1, <2>2, <3>1, <3>2, <3>3
  <2>5. CASE Leave(r)
    <3>1. pc[r] = "leaving" /\ Goto(r, "done") /\ UNCHANGED permits
          /\ buffered' = buffered - body[r].size
      BY <2>5 DEF Leave, DropBufferGuard
    <3>2. r \in H /\ r \in A /\ r \notin R
      BY <3>1 DEF H, A, R, In, Holding, Accepted
    <3>3. In(Holding)' = H \ {r} /\ In(Accepted)' = A \ {r} /\ In({"running"})' = R
      BY <1>3, <3>1, <3>2, <1>5, Moves DEF H, A, R
    <3>4. Cardinality(BytesOf(A \ {r})) <= MaxAggregate
      BY <1>7
    <3> QED BY <1>2, <1>4, <1>6, <2>1, <2>2, <3>1, <3>2, <3>3, <3>4
  <2>6. CASE Parse(r)
    <3>1. /\ pc[r] = "parsing" /\ UNCHANGED buffered
          /\ \/ Goto(r, "leaving") /\ permits' = permits
             \/ Goto(r, "running") /\ permits' = permits - Cost(r)
      BY <2>6 DEF Parse
    <3>2. r \in H /\ r \in A /\ r \notin R
      BY <3>1 DEF H, A, R, In, Holding, Accepted
    <3>3. In(Holding)' = H /\ In(Accepted)' = A
      <4>1. PICK l \in {"leaving", "running"} : Goto(r, l)
        BY <3>1
      <4>2. H \cup {r} = H /\ A \cup {r} = A
        BY <3>2
      <4> QED BY <1>3, <1>5, <4>1, <4>2, Moves DEF H, A
    <3>4. /\ IsFiniteSet(ItemsOf(In({"running"})))'
          /\ permits' + Cardinality(ItemsOf(In({"running"})))' = MaxConcurrent
      <4>1. CASE Goto(r, "leaving") /\ permits' = permits
        <5>1. In({"running"})' = R
          BY <1>3, <3>2, <4>1, Moves DEF R
        <5> QED BY <1>2, <2>2, <4>1, <5>1
      <4>2. CASE Goto(r, "running") /\ permits' = permits - Cost(r)
        <5>1. In({"running"})' = R \cup {r}
          BY <1>3, <4>2, Moves DEF R
        <5>2. /\ IsFiniteSet(ItemsOf(R \cup {r})) /\ Cardinality(ItemsOf(R)) \in Nat
              /\ Cardinality(ItemsOf(R \cup {r})) = Cardinality(ItemsOf(R)) + Cost(r)
          BY <1>2, <2>1, <3>2, ItemsGrow, FS_CardinalityType
        <5>3. permits' + Cardinality(ItemsOf(R \cup {r})) = MaxConcurrent
          BY <1>2, <2>1, <4>2, <5>2
        <5> QED BY <2>2, <5>1, <5>2, <5>3
      <4> QED BY <3>1, <4>1, <4>2
    <3> QED BY <1>2, <1>4, <2>2, <3>1, <3>3, <3>4
  <2>7. CASE Finish(r) \/ DropHandler(r)
    <3>1. pc[r] = "running" /\ Goto(r, "leaving") /\ UNCHANGED buffered
          /\ permits' = permits + Cost(r)
      BY <2>7 DEF Finish, DropHandler, ReturnPermits
    <3>2. r \in H /\ r \in A /\ r \in R
      BY <3>1 DEF H, A, R, In, Holding, Accepted
    <3>3. In(Holding)' = H /\ In(Accepted)' = A /\ In({"running"})' = R \ {r}
      <4>1. H \cup {r} = H /\ A \cup {r} = A
        BY <3>2
      <4> QED BY <1>3, <1>5, <3>1, <4>1, Moves DEF H, A, R
    <3>4. /\ IsFiniteSet(ItemsOf(R \ {r})) /\ Cardinality(ItemsOf(R \ {r})) \in Nat
      BY <1>2, FewerUnits, FS_CardinalityType
    <3>5. Cardinality(ItemsOf(R)) = Cardinality(ItemsOf(R \ {r})) + Cost(r)
      <4>1. (R \ {r}) \cup {r} = R
        BY <3>2
      <4> QED BY <2>1, <3>4, <4>1, ItemsGrow
    <3>6. permits' + Cardinality(ItemsOf(R \ {r})) = MaxConcurrent
      BY <1>2, <2>1, <3>1, <3>4, <3>5
    <3> QED BY <1>2, <1>4, <2>2, <3>1, <3>3, <3>4, <3>6
  <2> QED BY <1>9, <2>3, <2>4, <2>5, <2>6, <2>7 DEF HandlerStep
<1> QED BY <1>8, <1>9

-----------------------------------------------------------------------------
(* Items *)

\* Where route_request leaves an item.
LEMMA RouteShape ==
    ASSUME NEW m
    PROVE  /\ Route(m) \in {"failed", "owner", "cedar", "principal", "forward"}
           /\ Route(m) = "principal" => config.loaded /\ m.name # None
           /\ Route(m) = "cedar" => ~config.loaded /\ m.name # None
           /\ Route(m) = "forward" => ~MethodRequiresGates(m.method)
<1>1. CASE m.method = "invalid"
  BY <1>1 DEF Route, RoutesToTaskHandler, TaskMethods, MethodRequiresGates, Governed
<1>2. CASE m.method # "invalid" /\ RoutesToTaskHandler(m)
  BY <1>2 DEF Route, RoutesToTaskHandler, TaskMethods, MethodRequiresGates, Governed
<1>3. CASE m.method # "invalid" /\ ~RoutesToTaskHandler(m) /\ MethodRequiresGates(m.method)
  <2>1. CASE m.name = None
    BY <1>3, <2>1 DEF Route
  <2>2. CASE m.name # None /\ ~config.loaded
    BY <1>3, <2>2 DEF Route
  <2>3. CASE m.name # None /\ config.loaded
    BY <1>3, <2>3 DEF Route
  <2> QED BY <2>1, <2>2, <2>3
<1>4. CASE m.method # "invalid" /\ ~RoutesToTaskHandler(m) /\ ~MethodRequiresGates(m.method)
  BY <1>4 DEF Route
<1> QED BY <1>1, <1>2, <1>3, <1>4

\* What a step of one item does to it: where it was and is, and its deliveries.
LEMMA ItemMoves ==
    ASSUME IndInv, NEW s \in Slots, AnyItemStep(s)
    PROVE  /\ UNCHANGED <<config, permitted, reloads, body, pc, buffered, permits, responses, gone>>
           /\ Live(s)
           /\ \A q \in Slots \ {s} : at'[q] = at[q] /\ delivered'[q] = delivered[q]
           /\ at' \in [Slots -> ItemStates] /\ delivered' \in [Slots -> Nat]
           /\ tries' \in [Slots -> 0 .. MaxTransportRetries]
           /\ \/ /\ at[s] = "queued" /\ at'[s] = Route(Item(s)) /\ delivered'[s] = delivered[s]
              \/ /\ at[s] = "principal" /\ delivered'[s] = delivered[s]
                 /\ at'[s] \in {"failed", "approve", "forward"}
                 /\ at'[s] = "forward" => EvaluateWithPrincipal(config, permitted, Item(s).method, Item(s).name) = "forward"
              \/ /\ at[s] = "cedar" /\ delivered'[s] = delivered[s]
                 /\ at'[s] \in {"failed", "forward"}
                 /\ at'[s] = "forward" => CedarResource(Item(s).method, Item(s).name) \in permitted
              \/ /\ at[s] = "forward" /\ at'[s] = "sent" /\ delivered'[s] = delivered[s] + 1
              \/ /\ at[s] = "forward" /\ at'[s] \in {"forward", "failed"} /\ delivered'[s] = delivered[s]
              \/ /\ at'[s] \in Ended \cup {"waiting"} /\ delivered'[s] = delivered[s]
<1>0. MaxTransportRetries \in Nat
  BY LimitsAssumption
<1> USE DEF RestUnchanged, policyVars, limitVars, Move, ItemStates, Ended, TypeOK
<1>1. at \in [Slots -> ItemStates] /\ delivered \in [Slots -> Nat]
      /\ tries \in [Slots -> 0 .. MaxTransportRetries]
  BY DEF IndInv
<1>2. CASE StartItem(s)
  <2>1. Route(Item(s)) \in ItemStates
    BY RouteShape
  <2> QED BY <1>1, <1>2, <2>1 DEF StartItem
<1>3. CASE EvaluateGates(s)
  <2>1. config \in Configs /\ config.loaded
    BY <1>3 DEF EvaluateGates, IndInv, ItemInv, GatesApply
  <2>2. EvaluateWithPrincipal(config, permitted, Item(s).method, Item(s).name) \in {"forward", "deny", "approve"}
    BY <2>1, ConfigsAssumption, ForwardIsAllowed
  <2> QED BY <1>1, <1>3, <2>2 DEF EvaluateGates
<1>4. CASE EvaluateLegacy(s)
  BY <1>1, <1>4 DEF EvaluateLegacy
<1>5. CASE HandleTaskMethod(s) \/ WaitEnds(s)
  BY <1>1, <1>5 DEF HandleTaskMethod, WaitEnds
<1>6. CASE BeginApproval(s)
  BY <1>1, <1>6 DEF BeginApproval
<1>7. CASE Deliver(s)
  BY <1>1, <1>7 DEF Deliver
<1>8. CASE ConnectFails(s)
  BY <1>0, <1>1, <1>8 DEF ConnectFails
<1>9. CASE UpstreamAnswers(s)
  BY <1>1, <1>9 DEF UpstreamAnswers, SendFails
<1> QED BY <1>2, <1>3, <1>4, <1>5, <1>6, <1>7, <1>8, <1>9 DEF AnyItemStep

\* A slot is a request and a place in its batch.
LEMMA SlotIs ==
    ASSUME NEW s \in Slots
    PROVE  s[1] \in Requests /\ s[2] \in 1 .. (MaxBatch + 1) /\ s = <<s[1], s[2]>>
BY DEF Slots

\* A step of one item keeps what is true of items, and the types.
LEMMA ItemSteps ==
    ASSUME IndInv, NEW s \in Slots, AnyItemStep(s)
    PROVE  ItemInv' /\ TypeOK'
<1> USE DEF IndInv, ItemInv
<1>1. TypeOK'
  BY ItemMoves DEF TypeOK
<1>2. Admitted'
  <2>1. \A r \in Requests, i \in 1 .. (MaxBatch + 1) :
            pc[r] \in {"new", "collected", "overflow", "parsing"} => <<r, i>> \in Slots \ {s}
    BY ItemMoves, SlotIs DEF Live, Slots
  <2> QED BY <2>1, ItemMoves DEF Admitted, Cost
<1>3. NotYetDelivered'
  BY ItemMoves, RouteShape DEF NotYetDelivered, TypeOK, Ended
<1>4. GatesApply'
  <2>1. \A q : Item(q)' = Item(q)
    BY ItemMoves DEF Item
  <2> QED BY <2>1, ItemMoves, RouteShape DEF GatesApply, Ended
<1> QED BY <1>1, <1>2, <1>3, <1>4

\* The handler's own steps leave its items where they are.
LEMMA HandlerItems ==
    ASSUME IndInv, NEW r \in Requests,
           (\E b \in Bodies : Arrive(r, b)) \/ HandlerStep(r) \/ DropHandler(r)
    PROVE  ItemInv'
<1> USE DEF IndInv, ItemInv, policyVars, itemVars
<1>1. UNCHANGED <<config, at, delivered>>
  BY DEF HandlerStep, Arrive, Reserve, UndoReserve, Parse, Finish, Leave, DropHandler
<1>2. \/ pc[r] = "new" /\ body'[r] \in Bodies
      \/ pc[r] # "new" /\ body'[r] = body[r]
  BY DEF HandlerStep, Arrive, Reserve, UndoReserve, Parse, Finish, Leave, DropBufferGuard,
     DropHandler, TypeOK
<1>3. \A q \in Requests \ {r} : body'[q] = body[q] /\ pc'[q] = pc[q]
  BY DEF HandlerStep, Arrive, Reserve, UndoReserve, Parse, Finish, Leave, DropBufferGuard,
     ReturnPermits, DropHandler, Goto, TypeOK
<1>4. /\ pc'[r] # "new"
      /\ pc'[r] = "running" => Cost(r)' <= MaxBatch
      /\ pc'[r] \in {"collected", "overflow", "parsing"} => pc[r] \in {"new", "collected"}
  BY DEF HandlerStep, Arrive, Reserve, UndoReserve, Parse, Finish, Leave, DropBufferGuard,
     ReturnPermits, DropHandler, Goto, TypeOK, Cost
<1>5. Admitted'
  <2>1. \A q \in Requests \ {r} : Cost(q)' = Cost(q)
    BY <1>3 DEF Cost
  <2> QED BY <1>1, <1>2, <1>3, <1>4, <2>1 DEF Admitted
<1>6. NotYetDelivered'
  BY <1>1 DEF NotYetDelivered
<1>7. GatesApply'
  <2>1. ASSUME NEW s \in Slots, at[s] \in {"principal", "cedar"} PROVE Item(s)' = Item(s)
    <3>1. s[1] \in Requests /\ pc[s[1]] # "new"
      BY <2>1, SlotIs DEF Admitted
    <3> QED BY <1>2, <1>3, <3>1 DEF Item
  <2> QED BY <1>1, <2>1 DEF GatesApply
<1> QED BY <1>5, <1>6, <1>7

\* A step of a handler keeps the types.
LEMMA HandlerTypes ==
    ASSUME IndInv, CapacityInv', NEW r \in Requests,
           (\E b \in Bodies : Arrive(r, b)) \/ HandlerStep(r) \/ DropHandler(r)
    PROVE  TypeOK'
<1>0. MaxConcurrent \in Nat /\ MaxBatch \in Nat
  BY LimitsAssumption
<1>1. UNCHANGED <<policyVars, itemVars>>
  BY DEF HandlerStep, Arrive, Reserve, UndoReserve, Parse, Finish, Leave, DropHandler
<1>2. /\ body' \in [Requests -> Bodies \cup {None}] /\ pc' \in [Requests -> HandlerStates]
      /\ gone' \subseteq Requests
  BY DEF IndInv, TypeOK, HandlerStep, Arrive, Reserve, UndoReserve, Parse, Finish, Leave,
     DropBufferGuard, ReturnPermits, DropHandler, Goto, HandlerStates
<1>3. responses' \in [Requests -> SUBSET (1 .. (MaxBatch + 1))]
  <2>1. CASE Finish(r)
    <3>1. Cost(r) \in Nat /\ Cost(r) <= MaxBatch
      BY <2>1, Weights DEF Finish, IndInv, ItemInv, Admitted
    <3>2. Answerable(r) \subseteq 1 .. (MaxBatch + 1)
      BY <1>0, <3>1 DEF Answerable, Items
    <3> QED BY <2>1, <3>2 DEF Finish, IndInv, TypeOK
  <2> QED BY <2>1 DEF IndInv, TypeOK, HandlerStep, Arrive, Reserve, UndoReserve, Parse, Leave,
     DropHandler
<1>4. buffered' \in Nat
  BY FS_CardinalityType DEF CapacityInv, Countable, CapacityHeld, CapacityExact, Holding
<1>5. permits' \in 0 .. MaxConcurrent
  <2>1. /\ Cardinality(ItemsOf(In({"running"})))' \in Nat
        /\ permits' + Cardinality(ItemsOf(In({"running"})))' = MaxConcurrent
    BY FS_CardinalityType DEF CapacityInv, Countable, CapacityHeld, CapacityExact
  <2>2. permits' \in Nat
    <3>1. permits \in Nat
      BY <1>0 DEF IndInv, TypeOK
    <3>2. pc[r] # "new" => Cost(r) \in Nat
      BY Weights
    <3> QED BY <3>1, <3>2 DEF HandlerStep, Arrive, Reserve, UndoReserve, Parse, Finish, Leave,
       DropBufferGuard, ReturnPermits, DropHandler, limitVars
  <2> QED BY <1>0, <2>1, <2>2
<1> QED BY <1>1, <1>2, <1>3, <1>4, <1>5 DEF IndInv, TypeOK, policyVars, itemVars

\* Streams and reloads, and steps that change nothing.
LEMMA OtherSteps ==
    ASSUME IndInv,
           \/ \E r \in Requests : StreamEnds(r) \/ StreamAbandoned(r)
           \/ \E p \in Policies : Reload(p)
           \/ UNCHANGED vars
    PROVE  IndInv'
<1> USE DEF policyVars, limitVars, itemVars, vars
<1>0. MaxBatch \in Nat /\ MaxReloads \in Nat
  BY LimitsAssumption
<1>1. UNCHANGED <<config, body, pc, buffered, permits, tries, delivered>>
  BY DEF StreamEnds, StreamAbandoned, Reload
<1>2. CapacityInv'
  BY <1>1, CapacityFrame
<1>3. \/ at' = at
      \/ \E r \in Requests : pc[r] \in {"leaving", "done"} /\
            (at' = [at EXCEPT ![<<r, 1>>] = "ok"] \/ at' = [at EXCEPT ![<<r, 1>>] = "failed"])
  BY DEF StreamEnds, StreamAbandoned, Reload, Streaming
<1>4. TypeOK'
  <2>1. at' \in [Slots -> ItemStates]
    BY <1>3 DEF IndInv, TypeOK, ItemStates, Ended
  <2>2. responses' \in [Requests -> SUBSET (1 .. (MaxBatch + 1))] /\ gone' \subseteq Requests
    <3>1. 1 \in 1 .. (MaxBatch + 1)
      BY <1>0
    <3>2. \/ responses' = responses
          \/ \E r \in Requests : responses' = [responses EXCEPT ![r] = {1}]
      BY DEF StreamEnds, SendFinal, StreamAbandoned, Reload
    <3>3. gone' \subseteq Requests
      BY DEF StreamEnds, StreamAbandoned, Reload, IndInv, TypeOK
    <3> QED BY <3>1, <3>2, <3>3 DEF IndInv, TypeOK
  <2>3. permitted' \in Policies \cup {StartPolicy} /\ reloads' \in 0 .. MaxReloads
    <3>1. permitted \in Policies \cup {StartPolicy} /\ reloads \in 0 .. MaxReloads
      BY DEF IndInv, TypeOK
    <3>2. \/ UNCHANGED <<permitted, reloads>>
          \/ permitted' \in Policies /\ reloads < MaxReloads /\ reloads' = reloads + 1
      BY DEF StreamEnds, StreamAbandoned, Reload
    <3> QED BY <1>0, <3>1, <3>2
  <2> QED BY <1>1, <2>1, <2>2, <2>3 DEF IndInv, TypeOK
<1>5. ItemInv'
  <2>1. \A s \in Slots : at'[s] = at[s] \/ (at'[s] \in {"ok", "failed"} /\ pc[s[1]] \in {"leaving", "done"})
    <3>1. CASE at' = at
      BY <3>1
    <3>2. ASSUME NEW r \in Requests, pc[r] \in {"leaving", "done"}, NEW l \in {"ok", "failed"},
                 at' = [at EXCEPT ![<<r, 1>>] = l], NEW s \in Slots
          PROVE  at'[s] = at[s] \/ (at'[s] \in {"ok", "failed"} /\ pc[s[1]] \in {"leaving", "done"})
      <4>1. CASE s = <<r, 1>>
        <5>1. s[1] = r
          BY <4>1
        <5> QED BY <3>2, <4>1, <5>1 DEF IndInv, TypeOK
      <4>2. CASE s # <<r, 1>>
        BY <3>2, <4>2 DEF IndInv, TypeOK
      <4> QED BY <4>1, <4>2
    <3> QED BY <1>3, <3>1, <3>2
  <2>2. Admitted'
    <3>1. \A r \in Requests, i \in 1 .. (MaxBatch + 1) : <<r, i>> \in Slots /\ <<r, i>>[1] = r
      BY DEF Slots
    <3> QED BY <1>1, <2>1, <3>1 DEF IndInv, ItemInv, Admitted, Cost
  <2>3. NotYetDelivered'
    BY <1>1, <2>1 DEF IndInv, ItemInv, NotYetDelivered
  <2>4. GatesApply'
    BY <1>1, <2>1 DEF IndInv, ItemInv, GatesApply, Item
  <2> QED BY <2>2, <2>3, <2>4 DEF ItemInv
<1> QED BY <1>2, <1>4, <1>5 DEF IndInv

-----------------------------------------------------------------------------
(* Theorems *)

\* The invariant holds at first.
LEMMA InitInd == Init => IndInv
<1> SUFFICES ASSUME Init PROVE IndInv
  OBVIOUS
<1>0. MaxConcurrent \in Nat /\ MaxBatch \in Nat /\ MaxReloads \in Nat /\ MaxAggregate \in Nat
      /\ MaxTransportRetries \in Nat
  BY LimitsAssumption
<1>1. TypeOK
  BY <1>0 DEF Init, TypeOK, HandlerStates, ItemStates, Ended
<1>2. ItemInv
  BY DEF Init, ItemInv, Admitted, NotYetDelivered, GatesApply, Slots
<1>3. In(Holding) = {} /\ In(Accepted) = {} /\ In({"running"}) = {}
  BY DEF Init, In, Holding, Accepted
<1>4. BytesOf({}) = {} /\ ItemsOf({}) = {}
  BY DEF BytesOf, ItemsOf
<1>5. CapacityInv
  BY <1>0, <1>3, <1>4, FS_EmptySet DEF Init, CapacityInv, Countable, CapacityHeld, CapacityExact,
     AcceptedFits, Holding, Accepted
<1> QED BY <1>1, <1>2, <1>5 DEF IndInv

\* The invariant holds in every state of every behaviour.
THEOREM Inductive == Spec => []IndInv
<1>1. ASSUME IndInv, [Next]_vars PROVE IndInv'
  <2>1. ASSUME NEW r \in Requests,
               (\E b \in Bodies : Arrive(r, b)) \/ HandlerStep(r) \/ DropHandler(r)
        PROVE  IndInv'
    BY <1>1, <2>1, CapacityStep, HandlerItems, HandlerTypes DEF IndInv
  <2>2. ASSUME NEW s \in Slots, AnyItemStep(s) PROVE IndInv'
    <3>1. UNCHANGED <<body, pc, buffered, permits>>
      BY <1>1, <2>2, ItemMoves
    <3> QED BY <1>1, <2>2, <3>1, ItemSteps, CapacityFrame DEF IndInv
  <2> QED BY <1>1, <2>1, <2>2, OtherSteps DEF Next
<1> QED BY InitInd, <1>1, PTL DEF Spec

\* The variables keep the types McpRequest declares.
THEOREM TypeCorrect == Spec => []TypeOK
<1>1. IndInv => TypeOK
  BY DEF IndInv
<1> QED BY Inductive, <1>1, PTL

\* The byte counter and the semaphore are exact whichever way requests end, a
\* dropped future included, and the accepted bodies stay within the limit.
THEOREM CapacityIsHeld == Spec => []CapacityHeld
<1>1. IndInv => CapacityHeld
  BY DEF IndInv, CapacityInv
<1> QED BY Inductive, <1>1, PTL

\* However connections fail and are retried, the upstream receives an item at
\* most once.
THEOREM DeliveredAtMostOnce == Spec => []DeliveredOnce
<1>1. IndInv => DeliveredOnce
  BY DEF IndInv, ItemInv, NotYetDelivered, DeliveredOnce
<1> QED BY Inductive, <1>1, PTL

\* An item that names a governed resource comes to be forwarded only when the
\* gates, stated without their order, let it through.
THEOREM OnlyGatesForward == Spec => GatesDecide
<1> DEFINE Step == \A s \in Slots :
            (Live(s) /\ at[s] # "forward" /\ at'[s] = "forward" /\ Item(s).method \in Governed)
            => /\ Item(s).name # None
               /\ IF config.loaded THEN MayForward(config, Item(s).name)
                                   ELSE CedarResource(Item(s).method, Item(s).name) \in permitted
<1>1. ASSUME IndInv, [Next]_vars PROVE Step
  <2> SUFFICES ASSUME NEW s \in Slots, at[s] # "forward", at'[s] = "forward",
                      Item(s).method \in Governed
               PROVE  /\ Item(s).name # None
                      /\ IF config.loaded THEN MayForward(config, Item(s).name)
                                          ELSE CedarResource(Item(s).method, Item(s).name) \in permitted
    OBVIOUS
  <2>1. PICK q \in Slots : AnyItemStep(q)
    <3>1. ASSUME UNCHANGED at PROVE FALSE
      BY <3>1
    <3>2. ASSUME NEW r \in Requests,
                 (\E b \in Bodies : Arrive(r, b)) \/ HandlerStep(r) \/ DropHandler(r)
          PROVE  FALSE
      BY <3>1, <3>2 DEF HandlerStep, Arrive, Reserve, UndoReserve, Parse, Finish, Leave,
         DropHandler, itemVars
    <3>3. ASSUME NEW r \in Requests, StreamEnds(r) PROVE FALSE
      BY <1>1, <3>3 DEF StreamEnds, IndInv, TypeOK
    <3>4. ASSUME NEW r \in Requests, StreamAbandoned(r) PROVE FALSE
      BY <3>1, <3>4 DEF StreamAbandoned, itemVars
    <3>5. ASSUME NEW p \in Policies, Reload(p) PROVE FALSE
      BY <3>1, <3>5 DEF Reload, itemVars
    <3>6. ASSUME UNCHANGED vars PROVE FALSE
      BY <3>1, <3>6 DEF vars, itemVars
    <3> QED BY <1>1, <3>2, <3>3, <3>4, <3>5, <3>6 DEF Next
  <2>2. q = s
    BY <1>1, <2>1, ItemMoves
  <2>3. \/ at[s] = "queued" /\ Route(Item(s)) = "forward"
        \/ /\ at[s] = "principal"
           /\ EvaluateWithPrincipal(config, permitted, Item(s).method, Item(s).name) = "forward"
        \/ at[s] = "cedar" /\ CedarResource(Item(s).method, Item(s).name) \in permitted
    BY <1>1, <2>1, <2>2, ItemMoves DEF Ended
  <2>4. CASE at[s] = "queued" /\ Route(Item(s)) = "forward"
    BY <2>4, RouteShape DEF MethodRequiresGates
  <2>5. CASE /\ at[s] = "principal"
             /\ EvaluateWithPrincipal(config, permitted, Item(s).method, Item(s).name) = "forward"
    <3>1. config.loaded /\ Item(s).name # None /\ config \in Configs
      BY <1>1, <2>5 DEF IndInv, ItemInv, GatesApply, TypeOK
    <3>2. MayForward(config, Item(s).name)
      BY <2>5, <3>1, ConfigsAssumption, ForwardIsAllowed
    <3> QED BY <3>1, <3>2
  <2>6. CASE at[s] = "cedar" /\ CedarResource(Item(s).method, Item(s).name) \in permitted
    BY <1>1, <2>6 DEF IndInv, ItemInv, GatesApply
  <2> QED BY <2>3, <2>4, <2>5, <2>6
<1> QED BY Inductive, <1>1, PTL DEF Spec, GatesDecide
=============================================================================
