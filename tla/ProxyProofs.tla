----------------------------- MODULE ProxyProofs -----------------------------
(***************************************************************************)
(* Theorems about the proxy process, from its start to its exit.           *)
(*                                                                         *)
(* Startup and PolicyEngine, for any environment, files, policies,         *)
(* arguments and number of reloads and evaluations: a proxy serves as it   *)
(* was configured, the policies in force are a whole text of the source    *)
(* that had to give them, and evaluations decide as these say.             *)
(*                                                                         *)
(* Lifecycle, for any number of connections, signal handlers and permits:  *)
(* active_requests and the semaphore are exact, and a drain that ended     *)
(* cleanly is final.                                                       *)
(***************************************************************************)
EXTENDS Startup, Lifecycle, TLAPS, FiniteSetTheorems, SequenceTheorems, WellFoundedInduction

-----------------------------------------------------------------------------
(* The invariant: policies *)

\* The sources, and what is known of a text once a loader has it.
Sources == {"file", "env", "yaml", "embedded"}
HeldType ==
    /\ held = [file |-> held.file, env |-> held.env, embedded |-> held.embedded, yaml |-> held.yaml]
    /\ policyFile \in held.file /\ policyEnv \in held.env /\ Embedded \in held.embedded
    /\ policyEnv # Hidden
    /\ ReadAll(yaml) # Blank => ReadAll(yaml) \in held.yaml \ {None, Hidden}
LoadType ==
    /\ DOMAIN load = Loaders
    /\ \A w \in Loaders :
          /\ DOMAIN load[w] = {"step", "text", "source", "found", "retried"}
          /\ load[w].step \in {"idle", "check", "open", "parse", "apply", "done", "failed"}
          /\ load[w].found \in BOOLEAN

\* A loader that looks for the file has not found it yet; one that has a text has
\* one that its source held, and past parsing one that parsed.
LoadsGenuine ==
    \A w \in Loaders :
        /\ load[w].step = "check" => ~load[w].found
        /\ load[w].step \in {"parse", "apply", "done"} =>
              /\ load[w].source \in Sources /\ load[w].text \in held[load[w].source] \ NoText
              /\ load[w].found => load[w].source = "file"
        /\ load[w].step \in {"apply", "done"} => load[w].text # Broken

SnapshotsGenuine ==
    \A snap \in engine : snap.source \in Sources
PolicyInv == HeldType /\ LoadType /\ LoadsGenuine /\ SnapshotsGenuine /\ InForceWasWritten

\* An evaluator is at one evaluation at most, of a request that was made.
Counting == {e \in Evaluators : \E x \in eval[e] : x.req.api = "v2"}
EvalType ==
    /\ DOMAIN eval = Evaluators
    /\ \A e \in Evaluators : \A x \in eval[e] : x.req \in Requests /\ \A y \in eval[e] : x = y
    /\ stats \in [evaluations : Nat, permits : Nat, forbids : Nat]
EvalInv == EvalType /\ StatsExact /\ DecisionsSound

-----------------------------------------------------------------------------
(* The invariant: the start *)

ServingPhases == {"service", "verify", "deadline", "ready"}
Loaded == {"telemetry", "upstream", "schema", "components", "cedar"} \cup ServingPhases
Found == {"load"} \cup Loaded
Timed == {"bind", "find"} \cup Found
Profiled == {"lifecycle"} \cup Timed
Checked == {"profile"} \cup Profiled
Phases == {"defaults", "ports", "environment", "refused"} \cup Checked

BootType ==
    /\ DOMAIN boot = {"phase", "path", "config", "drain", "shutdown", "adapter", "limits", "permits", "existed"}
    /\ boot.phase \in Phases
    /\ boot.path \in {None} \cup Paths /\ boot.existed \subseteq Paths
    /\ boot.adapter \in {None, "none", "mock", "slack"}
    /\ boot.permits \in {None} \cup 1 .. MostRequests
    /\ boot.limits # None => boot.limits.requests \in 1 .. MostRequests /\ boot.limits.batch \in 1 .. MostBatched
    /\ ready \in BOOLEAN
    /\ ready => boot.phase = "ready"
FilesType ==
    /\ DOMAIN files = Paths
    /\ \A p \in Paths : files[p] \notin {None} \cup Unusable => G!WellTyped(files[p])
EnvironType ==
    /\ \A f \in {"shutdown", "drain", "streams", "requests", "batch"} : environ[f] \in Nat \cup {None, Garbage}
    /\ environ.profile \in {"production", "development"}

\* What every check that was passed has left behind.
Workflows(cfg) ==
    \A k \in DOMAIN cfg.rules : LET r == cfg.rules[k] IN
        r.action = "approve" /\ r.approval # None => r.approval \in DOMAIN cfg.workflows
StartInv ==
    /\ boot.phase \in Checked => EnvironmentValid
    /\ boot.phase \in Profiled => ProfileValid
    /\ boot.adapter = "mock" => environ.adapter = "mock"
    /\ boot.phase \in Timed =>
          /\ boot.shutdown \in Nat
          /\ boot.shutdown >= 2 => boot.drain >= 1 /\ boot.drain < boot.shutdown
    /\ boot.phase \in Found => (boot.path = None => boot.existed = {} /\ ~environ.given)
    /\ boot.phase = "load" => boot.path # None
    /\ boot.phase \notin Loaded \cup {"refused"} => boot.config = None
    /\ boot.phase \in Loaded =>
          /\ boot.config = None => boot.path = None
          /\ boot.config # None => G!WellTyped(boot.config) /\ Workflows(boot.config)
    /\ load["boot"].step = "done" => engine # {}
    /\ boot.phase \in ServingPhases /\ boot.config # None =>
          /\ engine # {}
          /\ RequiresApprovalEngine(boot.config) => boot.adapter \in {"mock", "slack"}

Bounded == changes \in 0 .. MaxChanges /\ calls \in 0 .. MaxCalls /\ edits \in 0 .. MaxEdits
BootInv == BootType /\ FilesType /\ EnvironType /\ StartInv
IndInv == Bounded /\ PolicyInv /\ EvalInv /\ BootInv

-----------------------------------------------------------------------------
(* Arguments *)

\* A set of numbers has a least one.
LEMMA LeastOf ==
    ASSUME NEW S, S \subseteq Nat, S # {}
    PROVE  \E k \in S : \A j \in S : k <= j
<1>1. PICK k \in S : \A j \in S : ~(<<j, k>> \in OpToRel(<, Nat))
  BY NatLessThanWellFounded, WFMin
<1>2. ASSUME NEW j \in S PROVE k <= j
  <2>1. <<j, k>> \in Nat \X Nat /\ <<j, k>> \notin OpToRel(<, Nat)
    BY <1>1
  <2> QED BY <2>1 DEF OpToRel
<1> QED BY <1>2

\* One level of the conversion, and one of what is inside.
ConvertLevel(prev, left) ==
    [v \in JsonValues |->
        IF left = 0 THEN Err
        ELSE LET Expr(w) == prev[w] IN
             CASE v.kind = "null" -> [type |-> "record", value |-> <<>>]
               [] v.kind \in {"int", "big", "float"} -> NumberToCedar(v)
               [] v.kind \in {"string", "bool"} -> [type |-> v.kind, value |-> v.value]
               [] v.kind = "array" ->
                    LET items == {Expr(v.value[k]) : k \in DOMAIN v.value} IN
                    IF Err \in items THEN Err ELSE [type |-> "set", value |-> items]
               [] v.kind = "object" ->
                    LET fields == [k \in DOMAIN v.value |-> Expr(v.value[k])] IN
                    IF Err \in Range(fields) THEN Err ELSE [type |-> "record", value |-> fields]]
InsideLevel(prev, n) ==
    [v \in JsonValues |-> IF n = 0 THEN {v} ELSE UNION {prev[w] : w \in Parts(v)}]

\* The conversion does what its definition says, level by level: functions that
\* follow it as far as any level exist.
LEMMA ConvertDefined ==
    JsonToCedarExprDepth = [n \in 0 .. MaxJsonDepth + 1 |-> ConvertLevel(JsonToCedarExprDepth[n - 1], n)]
<1> DEFINE Follows(f, m) == f = [n \in 0 .. m |-> ConvertLevel(f[n - 1], n)]
           Bad == {m \in Nat : ~ \E f : Follows(f, m)}
<1>1. \A a, b : ConvertLevel(a, 0) = ConvertLevel(b, 0)
  BY DEF ConvertLevel
<1>2. ASSUME Bad # {} PROVE FALSE
  <2> HIDE DEF Bad
  <2>1. PICK m \in Bad : \A j \in Bad : m <= j
    <3>1. Bad \subseteq Nat
      BY DEF Bad
    <3> QED BY <1>2, <3>1, LeastOf
  <2>2. m \in Nat /\ ~ \E f : Follows(f, m)
    BY <2>1 DEF Bad
  <2>3. ASSUME m = 0 PROVE FALSE
    <3> DEFINE one == [n \in 0 .. 0 |-> ConvertLevel(Err, 0)]
    <3>1. \A n \in 0 .. 0 : one[n] = ConvertLevel(one[n - 1], n)
      BY <1>1
    <3>2. Follows(one, 0)
      BY <3>1
    <3> QED BY <2>2, <2>3, <3>2
  <2>4. m - 1 \in Nat /\ m - 1 \notin Bad
    BY <2>1, <2>2, <2>3
  <2>5. PICK f : Follows(f, m - 1)
    BY <2>4 DEF Bad
  <2> DEFINE g == [n \in 0 .. m |-> IF n = m THEN ConvertLevel(f[m - 1], m) ELSE f[n]]
  <2>6. \A n \in 0 .. m - 1 : f[n] = ConvertLevel(f[n - 1], n) /\ g[n] = f[n]
    BY <2>2, <2>5
  <2>7. ASSUME NEW n \in 0 .. m PROVE g[n] = ConvertLevel(g[n - 1], n)
    <3>1. CASE n = m
      <4>1. g[m] = ConvertLevel(f[m - 1], m) /\ g[m - 1] = f[m - 1]
        BY <2>2, <2>4, <2>6
      <4> QED BY <3>1, <4>1
    <3>2. CASE n = 0
      <4>1. 0 \in 0 .. m - 1
        BY <2>2, <2>4
      <4>2. f[0] = ConvertLevel(f[0 - 1], 0) /\ g[0] = f[0]
        BY <2>6, <4>1
      <4>3. g[0] = ConvertLevel(g[0 - 1], 0)
        BY <1>1, <4>2
      <4> QED BY <3>2, <4>3
    <3>3. CASE n # m /\ n # 0
      <4>1. n \in 0 .. m - 1 /\ n - 1 \in 0 .. m - 1
        BY <2>2, <3>3
      <4> QED BY <2>6, <4>1
    <3> QED BY <3>1, <3>2, <3>3
  <2>8. g = [n \in 0 .. m |-> g[n]]
    OBVIOUS
  <2> HIDE DEF g
  <2>9. Follows(g, m)
    BY <2>7, <2>8
  <2> QED BY <2>2, <2>9
<1>3. \E f : Follows(f, MaxJsonDepth + 1)
  <2> HIDE DEF Follows
  <2>1. Bad = {} /\ MaxJsonDepth + 1 \in Nat
    BY <1>2, PolicyAssumption
  <2> QED BY <2>1
<1>4. JsonToCedarExprDepth = CHOOSE f : Follows(f, MaxJsonDepth + 1)
  BY Zenon DEF JsonToCedarExprDepth, ConvertLevel
<1> QED BY <1>3, <1>4

\* So does what is inside.
LEMMA InsideDefined ==
    Inside = [n \in 0 .. MaxJsonDepth + 1 |-> InsideLevel(Inside[n - 1], n)]
<1> DEFINE Follows(f, m) == f = [n \in 0 .. m |-> InsideLevel(f[n - 1], n)]
           Bad == {m \in Nat : ~ \E f : Follows(f, m)}
<1>1. \A a, b : InsideLevel(a, 0) = InsideLevel(b, 0)
  BY DEF InsideLevel
<1>2. ASSUME Bad # {} PROVE FALSE
  <2> HIDE DEF Bad
  <2>1. PICK m \in Bad : \A j \in Bad : m <= j
    <3>1. Bad \subseteq Nat
      BY DEF Bad
    <3> QED BY <1>2, <3>1, LeastOf
  <2>2. m \in Nat /\ ~ \E f : Follows(f, m)
    BY <2>1 DEF Bad
  <2>3. ASSUME m = 0 PROVE FALSE
    <3> DEFINE one == [n \in 0 .. 0 |-> InsideLevel(Err, 0)]
    <3>1. \A n \in 0 .. 0 : one[n] = InsideLevel(one[n - 1], n)
      BY <1>1
    <3>2. Follows(one, 0)
      BY <3>1
    <3> QED BY <2>2, <2>3, <3>2
  <2>4. m - 1 \in Nat /\ m - 1 \notin Bad
    BY <2>1, <2>2, <2>3
  <2>5. PICK f : Follows(f, m - 1)
    BY <2>4 DEF Bad
  <2> DEFINE g == [n \in 0 .. m |-> IF n = m THEN InsideLevel(f[m - 1], m) ELSE f[n]]
  <2>6. \A n \in 0 .. m - 1 : f[n] = InsideLevel(f[n - 1], n) /\ g[n] = f[n]
    BY <2>2, <2>5
  <2>7. ASSUME NEW n \in 0 .. m PROVE g[n] = InsideLevel(g[n - 1], n)
    <3>1. CASE n = m
      <4>1. g[m] = InsideLevel(f[m - 1], m) /\ g[m - 1] = f[m - 1]
        BY <2>2, <2>4, <2>6
      <4> QED BY <3>1, <4>1
    <3>2. CASE n = 0
      <4>1. 0 \in 0 .. m - 1
        BY <2>2, <2>4
      <4>2. f[0] = InsideLevel(f[0 - 1], 0) /\ g[0] = f[0]
        BY <2>6, <4>1
      <4>3. g[0] = InsideLevel(g[0 - 1], 0)
        BY <1>1, <4>2
      <4> QED BY <3>2, <4>3
    <3>3. CASE n # m /\ n # 0
      <4>1. n \in 0 .. m - 1 /\ n - 1 \in 0 .. m - 1
        BY <2>2, <3>3
      <4> QED BY <2>6, <4>1
    <3> QED BY <3>1, <3>2, <3>3
  <2>8. g = [n \in 0 .. m |-> g[n]]
    OBVIOUS
  <2> HIDE DEF g
  <2>9. Follows(g, m)
    BY <2>7, <2>8
  <2> QED BY <2>2, <2>9
<1>3. \E f : Follows(f, MaxJsonDepth + 1)
  <2> HIDE DEF Follows
  <2>1. Bad = {} /\ MaxJsonDepth + 1 \in Nat
    BY <1>2, PolicyAssumption
  <2> QED BY <2>1
<1>4. Inside = CHOOSE f : Follows(f, MaxJsonDepth + 1)
  BY Zenon DEF Inside, InsideLevel
<1> QED BY <1>3, <1>4

Levels == 0 .. MaxJsonDepth + 1

\* A float has a Cedar form unless it has a fraction or is out of range; the form
\* is the integer it is, or i64::MAX for the double above that.
LEMMA FloatsToCedar ==
    ASSUME NEW v, v.kind = "float", v.value \in Int \ {MaxLong}
    PROVE  /\ NumberToCedar(v) = Err <=> NoLong(v)
           /\ NumberToCedar(v) # Err => NumberToCedar(v) = Long(IF v.value > MaxLong THEN MaxLong ELSE v.value)
<1>1. MaxLong \in Nat
  BY PolicyAssumption
<1> DEFINE rounded == Saturate(v.value)
<1>2. NumberToCedar(v) = IF v.rest = "fraction" \/ AsFloat(rounded) # v.value THEN Err ELSE Long(rounded)
  BY DEF NumberToCedar
<1>3. AsFloat(rounded) # v.value <=> v.value \notin -MaxLong - 1 .. MaxLong + 1
  BY <1>1 DEF AsFloat, Saturate
<1>4. v.value \in -MaxLong - 1 .. MaxLong + 1 => rounded = IF v.value > MaxLong THEN MaxLong ELSE v.value
  BY <1>1 DEF Saturate
<1> HIDE DEF rounded
<1>5. Long(rounded) # Err
  BY DEF Long, Err
<1> QED BY <1>2, <1>3, <1>4, <1>5 DEF NoLong

\* One step of each: without a level left nothing is converted, else a value is
\* unless it is a fraction or holds one that is not.
LEMMA ConvertStep ==
    ASSUME NEW v \in JsonValues, NEW n \in Levels
    PROVE  /\ n = 0 => JsonToCedarExprDepth[n][v] = Err
           /\ n # 0 => /\ n - 1 \in Levels
                       /\ JsonToCedarExprDepth[n][v] = Err <=>
                             NoLong(v) \/ \E w \in Parts(v) : JsonToCedarExprDepth[n - 1][w] = Err
<1>1. JsonToCedarExprDepth[n] = ConvertLevel(JsonToCedarExprDepth[n - 1], n)
  BY ConvertDefined DEF Levels
<1> DEFINE prev == JsonToCedarExprDepth[n - 1]
           x == JsonToCedarExprDepth[n][v]
<1>2. x = ConvertLevel(prev, n)[v]
  BY <1>1
<1> HIDE DEF prev, x
<1>3. /\ v.kind \in Scalars \cup {"array", "object"}
      /\ v.kind = "float" => v.value \in Int \ {MaxLong} /\ v.rest \in {"none", "tiny", "fraction"}
  BY JsonAssumption
<1>4. CASE n = 0
  BY <1>2, <1>4 DEF ConvertLevel, x
<1>5. CASE n # 0
  <2>1. n - 1 \in Levels
    BY <1>5, PolicyAssumption DEF Levels
  <2>2. CASE v.kind \in Scalars
    <3>1. Parts(v) = {}
      BY <2>2 DEF Parts
    <3>2. CASE v.kind = "float"
      <4>1. x = NumberToCedar(v)
        BY <1>2, <1>5, <3>2 DEF ConvertLevel
      <4>2. x = Err <=> NoLong(v)
        BY <1>3, <3>2, <4>1, FloatsToCedar
      <4> QED BY <1>5, <2>1, <3>1, <4>2 DEF x
    <3>3. CASE v.kind # "float"
      <4>1. x # Err
        BY <1>2, <1>5, <2>2, <3>3 DEF ConvertLevel, Scalars, NumberToCedar, Long, Err
      <4>2. ~NoLong(v)
        BY <3>3 DEF NoLong
      <4> QED BY <1>5, <2>1, <3>1, <4>1, <4>2 DEF x
    <3> QED BY <3>2, <3>3
  <2>3. CASE v.kind = "array"
    <3>1. Parts(v) = {v.value[k] : k \in DOMAIN v.value} /\ ~NoLong(v)
      BY <2>3 DEF Parts, Scalars, NoLong
    <3> DEFINE items == {prev[v.value[k]] : k \in DOMAIN v.value}
    <3>2. x = IF Err \in items THEN Err ELSE [type |-> "set", value |-> items]
      BY <1>2, <1>5, <2>3 DEF ConvertLevel
    <3>3. Err \in items <=> \E w \in Parts(v) : prev[w] = Err
      BY <3>1
    <3> HIDE DEF items
    <3>4. x = Err <=> Err \in items
      BY <3>2 DEF Err
    <3> QED BY <1>5, <2>1, <3>1, <3>3, <3>4 DEF x, prev
  <2>4. CASE v.kind = "object"
    <3>1. Parts(v) = {v.value[k] : k \in DOMAIN v.value} /\ ~NoLong(v)
      BY <2>4 DEF Parts, Scalars, NoLong
    <3> DEFINE fields == [k \in DOMAIN v.value |-> prev[v.value[k]]]
    <3>2. x = IF Err \in Range(fields) THEN Err ELSE [type |-> "record", value |-> fields]
      BY <1>2, <1>5, <2>4 DEF ConvertLevel
    <3>3. Err \in Range(fields) <=> \E w \in Parts(v) : prev[w] = Err
      BY <3>1 DEF Range
    <3> HIDE DEF fields
    <3>4. x = Err <=> Err \in Range(fields)
      BY <3>2 DEF Err
    <3> QED BY <1>5, <2>1, <3>1, <3>3, <3>4 DEF x, prev
  <2> QED BY <1>3, <2>2, <2>3, <2>4
<1> QED BY <1>4, <1>5

LEMMA InsideStep ==
    ASSUME NEW v \in JsonValues, NEW n \in Levels
    PROVE  /\ n = 0 => Inside[n][v] = {v}
           /\ n # 0 => Inside[n][v] = UNION {Inside[n - 1][w] : w \in Parts(v)}
<1>1. Inside[n] = InsideLevel(Inside[n - 1], n)
  BY InsideDefined DEF Levels
<1> QED BY <1>1 DEF InsideLevel

\* With n levels left a value converts unless it is nested n levels deep or holds
\* a fraction above that.
TooDeep(n, v) == Inside[n][v] # {} \/ \E k \in 0 .. n - 1 : \E w \in Inside[k][v] : NoLong(w)

LEMMA TooDeepStep ==
    ASSUME NEW v \in JsonValues, NEW n \in Levels, n # 0
    PROVE  TooDeep(n, v) <=> NoLong(v) \/ \E w \in Parts(v) : TooDeep(n - 1, w)
<1>1. Inside[n][v] # {} <=> \E w \in Parts(v) : Inside[n - 1][w] # {}
  BY InsideStep
<1>2. ASSUME NEW k \in 0 .. n - 1, k # 0
      PROVE  /\ k - 1 \in 0 .. (n - 1) - 1
             /\ \A x : x \in Inside[k][v] <=> \E w \in Parts(v) : x \in Inside[k - 1][w]
  <2>1. k \in Levels /\ k - 1 \in 0 .. (n - 1) - 1
    BY <1>2, PolicyAssumption DEF Levels
  <2> QED BY <1>2, <2>1, InsideStep
<1>3. 0 \in 0 .. n - 1 /\ Inside[0][v] = {v}
  BY InsideStep, PolicyAssumption DEF Levels
<1>4. ASSUME TooDeep(n, v)
      PROVE  NoLong(v) \/ \E w \in Parts(v) : TooDeep(n - 1, w)
  <2>1. CASE Inside[n][v] # {}
    BY <1>1, <2>1 DEF TooDeep
  <2>2. CASE \E k \in 0 .. n - 1 : \E x \in Inside[k][v] : NoLong(x)
    <3>1. PICK k \in 0 .. n - 1 : \E x \in Inside[k][v] : NoLong(x)
      BY <2>2
    <3>2. CASE k = 0
      BY <1>3, <3>1, <3>2
    <3>3. CASE k # 0
      <4>1. PICK x \in Inside[k][v] : NoLong(x)
        BY <3>1
      <4>2. PICK w \in Parts(v) : x \in Inside[k - 1][w]
        BY <1>2, <3>3, <4>1
      <4>3. k - 1 \in 0 .. (n - 1) - 1
        BY <1>2, <3>3
      <4>4. TooDeep(n - 1, w)
        BY <4>1, <4>2, <4>3 DEF TooDeep
      <4> QED BY <4>4
    <3> QED BY <3>2, <3>3
  <2> QED BY <1>4, <2>1, <2>2 DEF TooDeep
<1>5. ASSUME NoLong(v) PROVE TooDeep(n, v)
  BY <1>3, <1>5 DEF TooDeep
<1>6. ASSUME NEW w \in Parts(v), TooDeep(n - 1, w) PROVE TooDeep(n, v)
  <2>1. CASE Inside[n - 1][w] # {}
    BY <1>1, <2>1 DEF TooDeep
  <2>2. CASE \E j \in 0 .. (n - 1) - 1 : \E x \in Inside[j][w] : NoLong(x)
    <3>1. PICK j \in 0 .. (n - 1) - 1 : \E x \in Inside[j][w] : NoLong(x)
      BY <2>2
    <3>2. j + 1 \in 0 .. n - 1 /\ j + 1 # 0 /\ (j + 1) - 1 = j
      BY PolicyAssumption DEF Levels
    <3>3. \A x : x \in Inside[j][w] => x \in Inside[j + 1][v]
      BY <1>2, <3>2
    <3> QED BY <3>1, <3>2, <3>3 DEF TooDeep
  <2> QED BY <1>6, <2>1, <2>2 DEF TooDeep
<1> QED BY <1>4, <1>5, <1>6

LEMMA ConvertsUnlessTooDeep ==
    ASSUME NEW n \in Levels, NEW v \in JsonValues
    PROVE  JsonToCedarExprDepth[n][v] = Err <=> TooDeep(n, v)
<1> DEFINE Bad == {m \in Levels : \E u \in JsonValues : ~(JsonToCedarExprDepth[m][u] = Err <=> TooDeep(m, u))}
<1>1. ASSUME Bad # {} PROVE FALSE
  <2>1. Bad \subseteq Nat
    BY DEF Levels
  <2> HIDE DEF Bad
  <2>2. PICK m \in Bad : \A j \in Bad : m <= j
    BY <1>1, <2>1, LeastOf
  <2>3. m \in Levels
    BY DEF Bad
  <2>4. PICK u \in JsonValues : ~(JsonToCedarExprDepth[m][u] = Err <=> TooDeep(m, u))
    BY DEF Bad
  <2>5. CASE m = 0
    <3>1. JsonToCedarExprDepth[m][u] = Err
      BY <2>3, <2>5, ConvertStep
    <3>2. Inside[m][u] = {u}
      BY <2>3, <2>5, InsideStep
    <3> QED BY <2>4, <3>1, <3>2 DEF TooDeep
  <2>6. CASE m # 0
    <3>1. m - 1 \in Levels
      BY <2>3, <2>6, ConvertStep
    <3>2. m - 1 \notin Bad
      BY <2>2, <2>3 DEF Levels
    <3>3. \A w \in Parts(u) : JsonToCedarExprDepth[m - 1][w] = Err <=> TooDeep(m - 1, w)
      BY <3>1, <3>2, JsonAssumption DEF Bad
    <3>4. JsonToCedarExprDepth[m][u] = Err <=>
             NoLong(u) \/ \E w \in Parts(u) : JsonToCedarExprDepth[m - 1][w] = Err
      BY <2>3, <2>6, ConvertStep
    <3> QED BY <2>3, <2>4, <2>6, <3>3, <3>4, TooDeepStep
  <2> QED BY <2>5, <2>6
<1> QED BY <1>1

\* Exactly the values that can be represented have a Cedar form.
LEMMA ConvertsTheRepresentable ==
    ASSUME NEW v \in JsonValues
    PROVE  JsonToCedarExpr(v) = Err <=> ~Representable(v)
<1>1. MaxJsonDepth + 1 \in Levels /\ 0 .. (MaxJsonDepth + 1) - 1 = 0 .. MaxJsonDepth
  BY PolicyAssumption DEF Levels
<1> QED BY <1>1, ConvertsUnlessTooDeep DEF JsonToCedarExpr, Representable, TooDeep

\* A condition on a converted argument is one on the argument.
LEMMA LimitsAreOfArguments ==
    ASSUME NEW v \in JsonValues, NEW limit, JsonToCedarExpr(v) # Err
    PROVE  LimitExceeded(limit, JsonToCedarExpr(v)) <=> Exceeds(v, limit)
<1> DEFINE top == MaxJsonDepth + 1
           prev == JsonToCedarExprDepth[top - 1]
           x == JsonToCedarExpr(v)
<1>1. top \in Levels /\ top # 0 /\ top - 1 \in Levels
  BY PolicyAssumption DEF Levels
<1>2. x = ConvertLevel(prev, top)[v]
  BY <1>1, ConvertDefined DEF JsonToCedarExpr, Levels
<1>3. v.kind \in Scalars \cup {"array", "object"} /\ Parts(v) \subseteq JsonValues
  BY JsonAssumption
<1>4. x # Err
  OBVIOUS
<1>5. ASSUME NEW w \in JsonValues, prev[w] # Err
      PROVE  /\ prev[w].type = "long" <=> Measured(w) # {}
             /\ Measured(w) # {} => Measured(w) = {prev[w].value}
  <2> DEFINE low == JsonToCedarExprDepth[(top - 1) - 1]
             y == prev[w]
  <2>1. y = ConvertLevel(low, top - 1)[w]
    BY <1>1, ConvertDefined DEF Levels
  <2>2. /\ w.kind \in Scalars \cup {"array", "object"}
        /\ w.kind = "float" => w.value \in Int \ {MaxLong}
    BY JsonAssumption
  <2>3. y # Err
    BY <1>5
  <2>4. top - 1 # 0
    BY <1>1, <1>5, ConvertStep
  <2> HIDE DEF top, y, low, prev
  <2>5. CASE w.kind \in Scalars
    <3>1. CASE w.kind = "float"
      <4>1. y = NumberToCedar(w)
        BY <2>1, <2>4, <3>1 DEF ConvertLevel
      <4>2. y = Long(IF w.value > MaxLong THEN MaxLong ELSE w.value)
        BY <2>2, <2>3, <3>1, <4>1, FloatsToCedar
      <4> QED BY <3>1, <4>2 DEF Long, Measured, y
    <3>2. CASE w.kind = "int"
      <4>1. y = Long(w.value)
        BY <2>1, <2>4, <3>2 DEF ConvertLevel, NumberToCedar
      <4> QED BY <3>2, <4>1 DEF Long, Measured, y
    <3>3. CASE w.kind \notin {"int", "float"}
      <4>1. y.type # "long"
        BY <2>1, <2>4, <2>5, <3>3 DEF ConvertLevel, Scalars, NumberToCedar
      <4> QED BY <3>3, <4>1 DEF Measured, y
    <3> QED BY <3>1, <3>2, <3>3
  <2>6. CASE w.kind = "array"
    <3>1. \E s : y = [type |-> "set", value |-> s]
      BY <2>1, <2>3, <2>4, <2>6 DEF ConvertLevel
    <3> QED BY <2>6, <3>1 DEF Measured, y
  <2>7. CASE w.kind = "object"
    <3>1. \E s : y = [type |-> "record", value |-> s]
      BY <2>1, <2>3, <2>4, <2>7 DEF ConvertLevel
    <3> QED BY <2>7, <3>1 DEF Measured, y
  <2> QED BY <2>2, <2>5, <2>6, <2>7
<1>6. CASE v.kind \in Scalars
  <2> HIDE DEF top, prev, x
  <2>1. x.type # "record" \/ x = [type |-> "record", value |-> <<>>]
    BY <1>1, <1>2, <1>4, <1>6 DEF ConvertLevel, Scalars, NumberToCedar, Long
  <2>2. ~LimitExceeded(limit, x)
    BY <2>1 DEF LimitExceeded
  <2>3. ~Exceeds(v, limit)
    BY <1>6 DEF Exceeds, Scalars
  <2> QED BY <2>2, <2>3 DEF x
<1>7. CASE v.kind = "array"
  <2> HIDE DEF top, prev, x
  <2>1. \E s : x = [type |-> "set", value |-> s]
    BY <1>1, <1>2, <1>4, <1>7 DEF ConvertLevel
  <2> QED BY <1>7, <2>1 DEF LimitExceeded, Exceeds, x
<1>8. CASE v.kind = "object"
  <2> DEFINE fields == [k \in DOMAIN v.value |-> prev[v.value[k]]]
  <2> HIDE DEF top, prev, x
  <2>1. Err \notin Range(fields) /\ x = [type |-> "record", value |-> fields]
    BY <1>1, <1>2, <1>4, <1>8 DEF ConvertLevel
  <2>2. ASSUME NEW k \in DOMAIN v.value
        PROVE  /\ prev[v.value[k]].type = "long" <=> Measured(v.value[k]) # {}
               /\ Measured(v.value[k]) # {} => Measured(v.value[k]) = {prev[v.value[k]].value}
    <3>1. v.value[k] \in JsonValues
      BY <1>3, <1>8 DEF Parts, Scalars
    <3>2. prev[v.value[k]] # Err
      BY <2>1 DEF Range
    <3> QED BY <1>5, <3>1, <3>2
  <2>3. x.type = "record" /\ DOMAIN x.value = DOMAIN v.value
        /\ \A k \in DOMAIN v.value : x.value[k] = prev[v.value[k]]
    BY <2>1
  <2>4. LimitExceeded(limit, x) <=> Exceeds(v, limit)
    BY <1>8, <2>2, <2>3 DEF LimitExceeded, Exceeds
  <2> QED BY <2>4 DEF x
<1> QED BY <1>3, <1>6, <1>7, <1>8

-----------------------------------------------------------------------------
(* Evaluations *)

CanDecide(req) == req.method = "tools/call" => Representable(req.arguments)
Behind(policies, req, effect) == {p \in policies : p.effect = effect /\ Concerns(p, req)}

\* A policy applies to a request exactly when it concerns the call.
LEMMA AppliesWhenConcerned ==
    ASSUME NEW req \in Requests, NEW p, BuildEntities(req) # Err
    PROVE  Applies(p, BuildCedarRequest(req, ActionName(req), BuildContext(req)), BuildEntities(req))
              <=> Concerns(p, req)
<1> DEFINE args == IF req.method = "tools/call" THEN JsonToCedarExpr(req.arguments)
                   ELSE [type |-> "record", value |-> <<>>]
           query == BuildCedarRequest(req, ActionName(req), BuildContext(req))
           entities == BuildEntities(req)
<1>1. req.arguments \in JsonValues
  BY JsonAssumption
<1>2. entities = [type |-> "entities", roles |-> req.roles, args |-> args] /\ args # Err
  BY DEF BuildEntities
<1>3. LimitExceeded(p.limit, args) <=> req.method = "tools/call" /\ Exceeds(req.arguments, p.limit)
  <2>1. CASE req.method = "tools/call"
    BY <1>1, <1>2, <2>1, LimitsAreOfArguments
  <2>2. CASE req.method # "tools/call"
    BY <2>2 DEF LimitExceeded
  <2> QED BY <2>1, <2>2
<1> HIDE DEF args
<1>4. entities.roles = req.roles /\ entities.args = args
  BY <1>2
<1> HIDE DEF entities
<1>5. query.resource = ResourceOf(req) /\ query.action = ActionName(req) /\ query.policyId = req.policyId
  BY DEF BuildCedarRequest, BuildContext
<1> HIDE DEF query
<1>6. ActionName(req) \in p.actions <=>
         \/ req.method = "tools/call" /\ "tools/call" \in p.actions
         \/ req.method # "tools/call" /\ "mcp/method" \in p.actions
  BY DEF ActionName
<1>7. Applies(p, query, entities) <=> Concerns(p, req)
  BY <1>3, <1>4, <1>5, <1>6 DEF Applies, Concerns, Scope
<1> QED BY <1>7 DEF query, entities

\* evaluate_v2 decides as the policies say.
LEMMA EvaluateV2Sound ==
    ASSUME NEW req \in Requests, NEW policies
    PROVE  LET d == EvaluateV2(policies, req) IN
           /\ d.outcome \in {"permit", "forbid"}
           /\ (d.outcome = "permit") =
                 (CanDecide(req) /\ Behind(policies, req, "permit") # {} /\ Behind(policies, req, "forbid") = {})
           /\ CanDecide(req) => d.ids = {p.id : p \in Behind(policies, req, d.outcome)}
<1> DEFINE query == BuildCedarRequest(req, ActionName(req), BuildContext(req))
           entities == BuildEntities(req)
           d == EvaluateV2(policies, req)
<1>1. req.arguments \in JsonValues
  BY JsonAssumption
<1>2. entities = Err <=> ~CanDecide(req)
  <2>1. CASE req.method = "tools/call"
    <3>1. JsonToCedarExpr(req.arguments) = Err => entities = Err
      BY <2>1 DEF BuildEntities
    <3>2. JsonToCedarExpr(req.arguments) # Err => entities.type = "entities"
      BY <2>1 DEF BuildEntities
    <3>3. Err.type # "entities"
      BY DEF Err
    <3> QED BY <1>1, <2>1, <3>1, <3>2, <3>3, ConvertsTheRepresentable DEF CanDecide
  <2>2. CASE req.method # "tools/call"
    BY <2>2 DEF BuildEntities, CanDecide, Err
  <2> QED BY <2>1, <2>2
<1>3. CASE entities = Err
  <2>1. d = DefaultForbid
    BY <1>3 DEF EvaluateV2
  <2> QED BY <1>2, <1>3, <2>1 DEF DefaultForbid
<1>4. CASE entities # Err
  <2>1. ASSUME NEW effect PROVE Determining(policies, query, entities, effect) = Behind(policies, req, effect)
    BY <1>4, AppliesWhenConcerned DEF Determining, Behind
  <2> DEFINE outcome == IF IsAuthorized(policies, query, entities) THEN "permit" ELSE "forbid"
  <2>2. d = CedarDecision(policies, query, entities, outcome)
    BY <1>4 DEF EvaluateV2
  <2>3. IsAuthorized(policies, query, entities) <=>
           Behind(policies, req, "permit") # {} /\ Behind(policies, req, "forbid") = {}
    BY <2>1 DEF IsAuthorized
  <2>4. outcome \in {"permit", "forbid"} /\ (outcome = "permit" <=> IsAuthorized(policies, query, entities))
    BY <2>3
  <2> HIDE DEF outcome, query, entities
  <2>5. d.outcome = outcome /\ d.ids = {p.id : p \in Behind(policies, req, outcome)}
    BY <2>1, <2>2 DEF CedarDecision
  <2> HIDE DEF d
  <2>6. (d.outcome = "permit") =
           (CanDecide(req) /\ Behind(policies, req, "permit") # {} /\ Behind(policies, req, "forbid") = {})
    BY <1>2, <1>4, <2>3, <2>4, <2>5
  <2>7. d.outcome \in {"permit", "forbid"} /\ d.ids = {p.id : p \in Behind(policies, req, d.outcome)}
    BY <2>4, <2>5
  <2>8. /\ d.outcome \in {"permit", "forbid"}
        /\ (d.outcome = "permit") =
              (CanDecide(req) /\ Behind(policies, req, "permit") # {} /\ Behind(policies, req, "forbid") = {})
        /\ CanDecide(req) => d.ids = {p.id : p \in Behind(policies, req, d.outcome)}
    BY <2>6, <2>7
  <2> QED BY <2>8 DEF d
<1> QED BY <1>3, <1>4

\* So every decision made of a request and a snapshot is sound.
LEMMA DecidedIsSound ==
    ASSUME NEW x, x.req \in Requests, x.req.api = "v2",
           decided' = Decided(x, EvaluateV2(x.snap.policies, x.req))
    PROVE  DecisionsSound'
<1> DEFINE dec == EvaluateV2(x.snap.policies, x.req)
           one == [req |-> x.req, policies |-> x.snap.policies, decision |-> dec]
<1>1. decided' = {one}
  BY DEF Decided
<1>2. /\ (dec.outcome = "permit") =
            (CanDecide(x.req) /\ Behind(x.snap.policies, x.req, "permit") # {}
                              /\ Behind(x.snap.policies, x.req, "forbid") = {})
      /\ CanDecide(x.req) => dec.ids = {p.id : p \in Behind(x.snap.policies, x.req, dec.outcome)}
  BY EvaluateV2Sound
<1> HIDE DEF dec
<1>3. one.req = x.req /\ one.policies = x.snap.policies /\ one.decision = dec
  OBVIOUS
<1> HIDE DEF one
<1>4. DecisionV2Sound(one)
  BY <1>2, <1>3, Zenon DEF DecisionV2Sound, Behind, CanDecide
<1> QED BY <1>1, <1>3, <1>4 DEF DecisionsSound

\* Without entities only policies that ask for nothing of the caller, the rule or
\* the arguments apply.
LEMMA AppliesWithoutEntities ==
    ASSUME NEW req, NEW p, NEW action
    PROVE  Applies(p, BuildCedarRequest(req, action, None), NoEntities)
              <=> Unconditional(p) /\ ResourceOf(req) \in p.resources /\ action \in p.actions
<1> DEFINE query == BuildCedarRequest(req, action, None)
<1>1. query.resource = ResourceOf(req) /\ query.action = action /\ query.policyId = None
  BY DEF BuildCedarRequest
<1>2. NoEntities.roles = {} /\ NoEntities.args.type = "error"
  BY DEF NoEntities, Err
<1> HIDE DEF query
<1>3. ~LimitExceeded(p.limit, NoEntities.args)
  BY <1>2 DEF LimitExceeded
<1>4. Applies(p, query, NoEntities)
         <=> Unconditional(p) /\ ResourceOf(req) \in p.resources /\ action \in p.actions
  BY <1>1, <1>2, <1>3 DEF Applies, Unconditional
<1> QED BY <1>4 DEF query

\* evaluate of version 0.1 decides as the unconditional policies say.
Unconditionally(policies, req, action, effect) ==
    {p \in policies : /\ p.effect = effect /\ Unconditional(p)
                      /\ ResourceOf(req) \in p.resources /\ action \in p.actions}
AllowedBy(policies, req, action) ==
    Unconditionally(policies, req, action, "permit") # {} /\ Unconditionally(policies, req, action, "forbid") = {}

LEMMA EvaluateV1Sound ==
    ASSUME NEW req, NEW policies
    PROVE  (EvaluateV1(policies, req)).outcome =
              IF AllowedBy(policies, req, "Forward") THEN "forward"
              ELSE IF AllowedBy(policies, req, "Approve") THEN "approve" ELSE "reject"
<1>1. ASSUME NEW action
      PROVE  IsActionPermitted(policies, req, action) <=> AllowedBy(policies, req, action)
  <2>1. ASSUME NEW effect
        PROVE  Determining(policies, BuildCedarRequest(req, action, None), NoEntities, effect)
                  = Unconditionally(policies, req, action, effect)
    BY AppliesWithoutEntities DEF Determining, Unconditionally
  <2> QED BY <2>1 DEF IsActionPermitted, IsAuthorized, AllowedBy
<1> QED BY <1>1 DEF EvaluateV1

LEMMA DecidedIsSoundV1 ==
    ASSUME NEW x, x.req.api = "v1", decided' = Decided(x, EvaluateV1(x.snap.policies, x.req))
    PROVE  DecisionsSound'
<1> DEFINE dec == EvaluateV1(x.snap.policies, x.req)
           one == [req |-> x.req, policies |-> x.snap.policies, decision |-> dec]
<1>1. decided' = {one}
  BY DEF Decided
<1>2. dec.outcome = IF AllowedBy(x.snap.policies, x.req, "Forward") THEN "forward"
                    ELSE IF AllowedBy(x.snap.policies, x.req, "Approve") THEN "approve" ELSE "reject"
  BY EvaluateV1Sound
<1> HIDE DEF dec
<1>3. one.req = x.req /\ one.policies = x.snap.policies /\ one.decision = dec
  OBVIOUS
<1> HIDE DEF one
<1> DEFINE forward == AllowedBy(one.policies, one.req, "Forward")
           approve == AllowedBy(one.policies, one.req, "Approve")
<1>4. /\ (one.decision.outcome = "forward") = forward
      /\ (one.decision.outcome = "approve") = (~forward /\ approve)
      /\ one.decision.outcome \in {"forward", "approve", "reject"}
  BY <1>2, <1>3 DEF AllowedBy
<1>5. DecisionV1Sound(one)
  BY <1>4, Zenon DEF DecisionV1Sound, AllowedBy, Unconditionally
<1> QED BY <1>1, <1>3, <1>5 DEF DecisionsSound

\* How many evaluations are under way is a number.
LEMMA CountingFinite ==
    /\ IsFiniteSet(Counting) /\ Cardinality(Counting) \in Nat
    /\ \A e \in Counting : Cardinality(Counting \ {e}) = Cardinality(Counting) - 1
    /\ \A e : e \notin Counting => Cardinality(Counting \cup {e}) = Cardinality(Counting) + 1
<1>1. IsFiniteSet(Counting)
  BY PolicyAssumption, FS_Subset DEF Counting
<1> QED BY <1>1, FS_CardinalityType, FS_AddElement, FS_RemoveElement

LEMMA LoadSnapshotCounts ==
    ASSUME EvalInv, NEW e \in Evaluators, NEW req \in Requests, LoadSnapshot(e, req)
    PROVE  EvalInv'
<1> USE DEF EvalInv
<1>1. PICK snap \in engine : eval' = [eval EXCEPT ![e] = {[req |-> req, snap |-> snap]}]
  BY DEF LoadSnapshot
<1> DEFINE one == [req |-> req, snap |-> snap]
<1>2. /\ DOMAIN eval' = Evaluators /\ eval'[e] = {one} /\ one.req = req
      /\ \A f \in Evaluators : f # e => eval'[f] = eval[f]
  BY <1>1 DEF EvalType
<1> HIDE DEF one
<1>3. eval[e] = {} /\ e \notin Counting
  BY DEF LoadSnapshot, Counting
<1>4. /\ req.api = "v2" => stats' = [stats EXCEPT !.evaluations = @ + 1]
      /\ req.api # "v2" => stats' = stats
      /\ decided' = decided
  BY DEF LoadSnapshot
<1>5. EvalType'
  <2>1. stats' \in [evaluations : Nat, permits : Nat, forbids : Nat]
    BY <1>4 DEF EvalType
  <2>2. ASSUME NEW f \in Evaluators PROVE \A x \in eval'[f] : x.req \in Requests /\ \A y \in eval'[f] : x = y
    BY <1>2 DEF EvalType
  <2> QED BY <1>2, <2>1, <2>2 DEF EvalType
<1>6. DecisionsSound'
  BY <1>4 DEF DecisionsSound
<1>7. stats.evaluations = stats.permits + stats.forbids + Cardinality(Counting)
  BY DEF StatsExact, Counting
<1>8. stats'.evaluations = stats'.permits + stats'.forbids + Cardinality(Counting')
  <2>1. CASE req.api = "v2"
    <3>1. Counting' = Counting \cup {e}
      BY <1>2, <2>1 DEF Counting
    <3>2. Cardinality(Counting') = Cardinality(Counting) + 1 /\ Cardinality(Counting) \in Nat
      BY <1>3, <3>1, CountingFinite
    <3> QED BY <1>4, <1>7, <2>1, <3>2 DEF EvalType
  <2>2. CASE req.api # "v2"
    <3>1. Counting' = Counting
      BY <1>2, <1>3, <2>2 DEF Counting
    <3> QED BY <1>4, <1>7, <2>2, <3>1
  <2> QED BY <2>1, <2>2
<1> QED BY <1>5, <1>6, <1>8 DEF StatsExact, Counting

LEMMA DecidedCounts ==
    ASSUME EvalInv, NEW e \in Evaluators, DecideV2(e) \/ DecideV1(e)
    PROVE  EvalInv'
<1> USE DEF EvalInv
<1>1. PICK x \in eval[e] : \/ /\ x.req.api = "v2"
                              /\ decided' = Decided(x, EvaluateV2(x.snap.policies, x.req))
                              /\ stats' = CountDecision(EvaluateV2(x.snap.policies, x.req).outcome)
                           \/ /\ x.req.api = "v1"
                              /\ decided' = Decided(x, EvaluateV1(x.snap.policies, x.req))
                              /\ stats' = stats
  BY DEF DecideV2, DecideV1
<1>2. x.req \in Requests /\ \A y \in eval[e] : y = x
  BY DEF EvalType
<1>3. /\ DOMAIN eval' = Evaluators /\ eval'[e] = {}
      /\ \A f \in Evaluators : f # e => eval'[f] = eval[f]
  BY DEF DecideV2, DecideV1, EvalType
<1>4. stats.evaluations = stats.permits + stats.forbids + Cardinality(Counting)
  BY DEF StatsExact, Counting
<1>5. \A f \in Evaluators : \A y \in eval'[f] : y.req \in Requests /\ \A z \in eval'[f] : y = z
  BY <1>3 DEF EvalType
<1>6. CASE /\ x.req.api = "v2"
           /\ decided' = Decided(x, EvaluateV2(x.snap.policies, x.req))
           /\ stats' = CountDecision(EvaluateV2(x.snap.policies, x.req).outcome)
  <2>1. DecisionsSound'
    BY <1>2, <1>6, DecidedIsSound
  <2>2. \/ stats' = [stats EXCEPT !.permits = @ + 1]
        \/ stats' = [stats EXCEPT !.forbids = @ + 1]
    BY <1>6 DEF CountDecision
  <2>3. Counting' = Counting \ {e} /\ e \in Counting
    BY <1>3, <1>6 DEF Counting
  <2>4. Cardinality(Counting') = Cardinality(Counting) - 1 /\ Cardinality(Counting) \in Nat
    BY <2>3, CountingFinite
  <2>5. /\ stats' \in [evaluations : Nat, permits : Nat, forbids : Nat]
        /\ stats'.evaluations = stats.evaluations
        /\ stats'.permits + stats'.forbids = stats.permits + stats.forbids + 1
    BY <2>2 DEF EvalType
  <2>6. stats'.evaluations = stats'.permits + stats'.forbids + Cardinality(Counting')
    BY <1>4, <2>4, <2>5 DEF EvalType
  <2> QED BY <1>3, <1>5, <2>1, <2>5, <2>6 DEF EvalType, StatsExact, Counting
<1>7. CASE /\ x.req.api = "v1" /\ decided' = Decided(x, EvaluateV1(x.snap.policies, x.req))
           /\ stats' = stats
  <2>2. DecisionsSound'
    BY <1>7, DecidedIsSoundV1
  <2>3. Counting' = Counting
    BY <1>2, <1>3, <1>7 DEF Counting
  <2>4. stats'.evaluations = stats'.permits + stats'.forbids + Cardinality(Counting')
    BY <1>4, <1>7, <2>3
  <2> QED BY <1>3, <1>5, <1>7, <2>2, <2>4 DEF EvalType, StatsExact, Counting
<1> QED BY <1>1, <1>6, <1>7

-----------------------------------------------------------------------------
(* Policy steps *)

\* What is asked of one loader.
LoadOk(r) ==
    /\ DOMAIN r = {"step", "text", "source", "found", "retried"}
    /\ r.step \in {"idle", "check", "open", "parse", "apply", "done", "failed"}
    /\ r.found \in BOOLEAN
    /\ r.step = "check" => ~r.found
    /\ r.step \in {"parse", "apply", "done"} =>
          /\ r.source \in Sources /\ r.text \in held[r.source] \ NoText
          /\ r.found => r.source = "file"
    /\ r.step \in {"apply", "done"} => r.text # Broken

LEMMA LoadsAreOk == LoadType /\ LoadsGenuine <=> DOMAIN load = Loaders /\ \A w \in Loaders : LoadOk(load[w])
BY DEF LoadType, LoadsGenuine, LoadOk

\* No files are files without a character.
LEMMA NoFiles == ReadAll(<<>>) = Blank
<1>1. DOMAIN <<>> = {} /\ Range(<<>>) = {}
  BY DEF Range
<1> QED BY <1>1 DEF ReadAll

\* A loader that goes on by itself changes nothing else.
LEMMA PutKeeps ==
    ASSUME PolicyInv, NEW w \in Loaders, NEW r, LoadOk(r), Put(w, r),
           UNCHANGED <<policyFile, policyEnv, held>>, yaml' \in {yaml, <<>>},
           engine' = engine \/ \E snap : /\ engine' = {snap} /\ snap.source \in Sources
                                         /\ \E t \in held[snap.source] \ ({Broken} \cup NoText) :
                                               snap.policies = PoliciesOf(t)
                                         /\ snap.annotations = ParseAnnotations(snap.policies)
    PROVE  PolicyInv' /\ load' = [load EXCEPT ![w] = r] /\ load'[w] = r
<1>1. load' = [load EXCEPT ![w] = r] /\ DOMAIN load = Loaders /\ \A u \in Loaders : LoadOk(load[u])
  BY LoadsAreOk DEF Put, PolicyInv
<1>2. DOMAIN load' = Loaders /\ \A u \in Loaders : LoadOk(load'[u])
  BY <1>1
<1>3. LoadType'
  BY <1>2 DEF LoadType, LoadOk
<1>4. LoadsGenuine'
  BY <1>2 DEF LoadsGenuine, LoadOk
<1>5. HeldType'
  <2>1. CASE yaml' = yaml
    BY <2>1 DEF PolicyInv, HeldType
  <2>2. CASE yaml' = <<>>
    <3>1. ReadAll(yaml') = Blank
      BY <2>2, NoFiles
    <3> QED BY <3>1 DEF PolicyInv, HeldType
  <2> QED BY <2>1, <2>2
<1>6. (SnapshotsGenuine /\ InForceWasWritten)'
  <2>1. CASE engine' = engine
    BY <2>1 DEF PolicyInv, SnapshotsGenuine, InForceWasWritten
  <2>2. CASE engine' # engine
    BY <2>2 DEF SnapshotsGenuine, InForceWasWritten
  <2> QED BY <2>1, <2>2
<1> QED BY <1>1, <1>3, <1>4, <1>5, <1>6 DEF PolicyInv

\* A tier gives a text of its source.
LEMMA LowerTierGenuine ==
    ASSUME PolicyInv, NEW w
    PROVE  LET t == LowerTier(w) IN t.source \in Sources \ {"file"} /\ t.text \in held[t.source] \ {None, Hidden}
<1> DEFINE t == LowerTier(w)
<1>1. CASE policyEnv # None
  <2>1. t = Tier(policyEnv, "env")
    BY <1>1 DEF LowerTier
  <2> QED BY <1>1, <2>1 DEF Tier, PolicyInv, HeldType, Sources
<1>2. CASE policyEnv = None /\ YamlTier(w)
  <2>1. t = Tier(ReadAll(yaml), "yaml") /\ ReadAll(yaml) # Blank
    BY <1>2 DEF LowerTier, YamlTier
  <2>2. ReadAll(yaml) \in held.yaml \ {None, Hidden}
    BY <2>1 DEF PolicyInv, HeldType
  <2> HIDE DEF t
  <2>3. t.text = ReadAll(yaml) /\ t.source = "yaml"
    BY <2>1 DEF Tier
  <2> QED BY <2>2, <2>3 DEF Sources, t
<1>3. CASE policyEnv = None /\ ~YamlTier(w)
  <2>1. t = Tier(Embedded, "embedded")
    BY <1>3 DEF LowerTier
  <2> QED BY <2>1, PolicyAssumption DEF Tier, PolicyInv, HeldType, Sources
<1> QED BY <1>1, <1>2, <1>3

LEMMA LoadStepKeeps ==
    ASSUME PolicyInv, NEW w \in Loaders, LoadStep(w)
    PROVE  /\ PolicyInv'
           /\ DOMAIN load' = Loaders /\ \A u \in Loaders : u # w => load'[u] = load[u]
           /\ engine # {} => engine' # {}
           /\ load[w].step # "done" /\ (load'[w].step = "done" => engine' # {})
           /\ UNCHANGED <<policyFile, policyEnv, yaml, held, eval, decided, stats, changes, calls>>
<1> DEFINE r == load[w]
<1>1. LoadOk(r) /\ DOMAIN load = Loaders
  BY LoadsAreOk DEF PolicyInv
<1>2. UNCHANGED <<policyFile, policyEnv, yaml, held, eval, decided, stats, changes, calls>>
  BY DEF LoadStep, CheckFile, ReadFile, ParsePolicies, ApplyReload, LoadRest
<1>3. ASSUME NEW s, LoadOk(s), Put(w, s), s.step # "done", engine' = engine, r.step # "done" PROVE
         /\ PolicyInv'
         /\ DOMAIN load' = Loaders /\ \A u \in Loaders : u # w => load'[u] = load[u]
         /\ engine # {} => engine' # {}
         /\ load[w].step # "done" /\ (load'[w].step = "done" => engine' # {})
  <2>1. PolicyInv' /\ load' = [load EXCEPT ![w] = s] /\ load'[w] = s
    BY <1>2, <1>3, PutKeeps
  <2> QED BY <1>1, <1>3, <2>1
<1> HIDE DEF r
<1>4. CASE CheckFile(w)
  <2>1. CASE Exists(policyFile)
    <3> DEFINE s == [r EXCEPT !.step = "open", !.found = TRUE]
    <3>1. Put(w, s) /\ engine' = engine /\ r.step = "check"
      BY <1>4, <2>1 DEF CheckFile, r
    <3>2. DOMAIN s = DOMAIN r /\ s.step = "open" /\ s.found = TRUE
      BY <1>1 DEF LoadOk
    <3> HIDE DEF s
    <3>3. LoadOk(s) /\ s.step # "done"
      BY <1>1, <3>2 DEF LoadOk
    <3> QED BY <1>2, <1>3, <3>1, <3>3
  <2>2. CASE ~Exists(policyFile)
    <3> DEFINE t == LowerTier(w)
               s == [r EXCEPT !.step = IF t.text = Unreadable THEN "failed" ELSE "parse",
                              !.text = t.text, !.source = t.source]
    <3>1. Put(w, s) /\ engine' = engine /\ r.step = "check"
      BY <1>4, <2>2 DEF CheckFile, r
    <3>2. t.source \in Sources \ {"file"} /\ t.text \in held[t.source] \ {None, Hidden}
      BY LowerTierGenuine
    <3> HIDE DEF t
    <3>3. /\ DOMAIN s = DOMAIN r /\ s.step = (IF t.text = Unreadable THEN "failed" ELSE "parse")
          /\ s.text = t.text /\ s.source = t.source /\ s.found = r.found
      BY <1>1 DEF LoadOk
    <3> HIDE DEF s
    <3>4. LoadOk(s) /\ s.step # "done"
      BY <1>1, <3>1, <3>2, <3>3 DEF LoadOk, NoText
    <3> QED BY <1>2, <1>3, <3>1, <3>4
  <2> QED BY <2>1, <2>2
<1>5. CASE ReadFile(w)
  <2>1. CASE policyFile \in NoText
    <3> DEFINE s == [r EXCEPT !.step = "failed"]
    <3>1. Put(w, s) /\ engine' = engine /\ r.step = "open"
      BY <1>5, <2>1 DEF ReadFile, ReadFails, r
    <3>2. LoadOk(s) /\ s.step # "done"
      BY <1>1 DEF LoadOk
    <3> HIDE DEF s
    <3> QED BY <1>2, <1>3, <3>1, <3>2
  <2>2. CASE policyFile \notin NoText
    <3> DEFINE s == [r EXCEPT !.step = "parse", !.text = policyFile, !.source = "file"]
    <3>1. Put(w, s) /\ engine' = engine /\ r.step = "open"
      BY <1>5, <2>2 DEF ReadFile, r
    <3>2. policyFile \in held.file
      BY DEF PolicyInv, HeldType
    <3>3. /\ DOMAIN s = DOMAIN r /\ s.step = "parse" /\ s.text = policyFile /\ s.source = "file"
          /\ s.found = r.found
      BY <1>1 DEF LoadOk
    <3> HIDE DEF s
    <3>4. LoadOk(s) /\ s.step # "done"
      BY <1>1, <2>2, <3>2, <3>3 DEF LoadOk, Sources
    <3> QED BY <1>2, <1>3, <3>1, <3>4
  <2> QED BY <2>1, <2>2
<1>6. CASE ParsePolicies(w)
  <2>1. r.step = "parse" /\ engine' = engine
    BY <1>6 DEF ParsePolicies, r
  <2>2. \/ r.text # Broken /\ Put(w, [r EXCEPT !.step = "apply"])
        \/ Put(w, [r EXCEPT !.step = "check", !.retried = TRUE, !.found = FALSE])
        \/ Put(w, [r EXCEPT !.step = "failed"])
    BY <1>6 DEF ParsePolicies, Parses, r
  <2>3. PICK s : /\ Put(w, s)
                 /\ \/ r.text # Broken /\ s = [r EXCEPT !.step = "apply"]
                    \/ s = [r EXCEPT !.step = "check", !.retried = TRUE, !.found = FALSE]
                    \/ s = [r EXCEPT !.step = "failed"]
    BY <2>2
  <2>4. LoadOk(s) /\ s.step # "done"
    BY <1>1, <2>1, <2>3 DEF LoadOk
  <2> QED BY <1>2, <1>3, <2>1, <2>3, <2>4
<1>7. CASE ApplyReload(w)
  <2> DEFINE s == [r EXCEPT !.step = "done"]
             snap == [policies |-> PoliciesOf(r.text), source |-> r.source,
                      annotations |-> ParseAnnotations(PoliciesOf(r.text))]
  <2>1. Put(w, s) /\ engine' = {snap} /\ r.step = "apply"
    BY <1>7 DEF ApplyReload, r
  <2>2. LoadOk(s)
    BY <1>1, <2>1 DEF LoadOk
  <2>3. /\ snap.source \in Sources
        /\ \E t \in held[snap.source] \ ({Broken} \cup NoText) : snap.policies = PoliciesOf(t)
        /\ snap.annotations = ParseAnnotations(snap.policies)
    BY <1>1, <2>1 DEF LoadOk
  <2> HIDE DEF s, snap
  <2>4. PolicyInv' /\ load' = [load EXCEPT ![w] = s]
    BY <1>2, <2>1, <2>2, <2>3, PutKeeps
  <2> QED BY <1>1, <1>2, <2>1, <2>4 DEF r
<1> QED BY <1>4, <1>5, <1>6, <1>7 DEF LoadStep

LEMMA ReloadKeeps ==
    ASSUME PolicyInv, NEW w \in Loaders, NEW r, r = [Idle EXCEPT !.step = "check"], Put(w, r),
           UNCHANGED <<policyFile, policyEnv, held, engine>>, yaml' \in {yaml, <<>>}
    PROVE  PolicyInv' /\ load' = [load EXCEPT ![w] = r] /\ DOMAIN load = Loaders
<1>1. LoadOk(r)
  BY DEF LoadOk, Idle
<1> QED BY <1>1, PutKeeps DEF PolicyInv, LoadType

LEMMA FileChangesKeeps ==
    ASSUME PolicyInv, NEW t, FileChanges(t)
    PROVE  PolicyInv' /\ UNCHANGED <<engine, load, eval, decided, stats, calls>>
<1>1. /\ policyFile' = t /\ held' = [held EXCEPT !.file = @ \cup {t}]
      /\ UNCHANGED <<policyEnv, yaml, engine, load, eval, decided, stats, calls>>
  BY DEF FileChanges
<1>2. HeldType'
  <2>1. /\ held'.file = held.file \cup {t} /\ held'.env = held.env /\ held'.embedded = held.embedded
        /\ held'.yaml = held.yaml
        /\ held' = [file |-> held'.file, env |-> held'.env, embedded |-> held'.embedded, yaml |-> held'.yaml]
    BY <1>1 DEF PolicyInv, HeldType
  <2> QED BY <1>1, <2>1 DEF PolicyInv, HeldType
<1>3. \A s \in Sources : held[s] \subseteq held'[s]
  BY <1>1 DEF PolicyInv, HeldType, Sources
<1>4. (LoadType /\ LoadsGenuine)'
  <2>1. LoadType' /\ \A w \in Loaders : LoadOk(load[w])
    BY <1>1, LoadsAreOk DEF PolicyInv, LoadType
  <2>2. ASSUME NEW w \in Loaders
        PROVE  /\ load'[w].step = "check" => ~load'[w].found
               /\ load'[w].step \in {"parse", "apply", "done"} =>
                     /\ load'[w].source \in Sources /\ load'[w].text \in held'[load'[w].source] \ NoText
                     /\ load'[w].found => load'[w].source = "file"
               /\ load'[w].step \in {"apply", "done"} => load'[w].text # Broken
    BY <1>1, <1>3, <2>1 DEF LoadOk
  <2> QED BY <2>1, <2>2 DEF LoadsGenuine
<1>5. (SnapshotsGenuine /\ InForceWasWritten)'
  BY <1>1, <1>3 DEF PolicyInv, SnapshotsGenuine, InForceWasWritten
<1> QED BY <1>1, <1>2, <1>4, <1>5 DEF PolicyInv

-----------------------------------------------------------------------------
(* Boot steps *)

\* What main knows while it rests, as long as the engine keeps its snapshot.
LEMMA StartFrame ==
    ASSUME StartInv, UNCHANGED <<environ, boot>>, engine # {} => engine' # {},
           load'["boot"].step = "done" => engine' # {}
    PROVE  StartInv'
<1>1. (EnvironmentValid' <=> EnvironmentValid) /\ (ProfileValid' <=> ProfileValid)
  BY DEF EnvironmentValid, ProfileValid, IsProduction
<1>2. boot' = boot /\ environ' = environ
  OBVIOUS
<1>3. Workflows(boot.config)' <=> Workflows(boot.config)
  BY DEF Workflows
<1>4. RequiresApprovalEngine(boot.config)' <=> RequiresApprovalEngine(boot.config)
  BY DEF RequiresApprovalEngine
<1>5. G!WellTyped(boot.config)' <=> G!WellTyped(boot.config)
  BY DEF G!WellTyped
<1> QED BY <1>1, <1>2, <1>3, <1>4, <1>5 DEF StartInv

\* A step of the policy engine alone: it never loses its snapshot.
LEMMA BootRests ==
    ASSUME BootInv, UNCHANGED <<environ, files, boot, ready>>, engine # {} => engine' # {},
           load'["boot"].step = "done" => engine' # {}
    PROVE  BootInv'
<1>1. BootType' /\ FilesType' /\ EnvironType'
  BY DEF BootInv, BootType, FilesType, EnvironType
<1>2. StartInv'
  BY StartFrame DEF BootInv
<1> QED BY <1>1, <1>2 DEF BootInv

\* A step of main that only goes to another phase: what the phases it enters stand
\* for holds already or was checked.
LEMMA GoKeeps ==
    ASSUME BootInv, NEW q \in Phases, Go(q), UNCHANGED <<environ, files, engine>>,
           load'["boot"].step = "done" => engine # {},
           ready' \in BOOLEAN, ready' => q = "ready",
           q # "load", boot.phase \notin {"refused", "ready"},
           q \in Checked => boot.phase \in Checked \/ EnvironmentValid,
           q \in Profiled => boot.phase \in Profiled \/ ProfileValid,
           q \in Timed => boot.phase \in Timed,
           q \in Found => boot.phase \in Found,
           q # "refused" => (q \in Loaded <=> boot.phase \in Loaded),
           q \in ServingPhases /\ boot.config # None => boot.phase \in ServingPhases
    PROVE  BootInv'
<1>1. /\ DOMAIN boot' = DOMAIN boot /\ boot'.phase = q /\ boot'.path = boot.path /\ boot'.config = boot.config
      /\ boot'.drain = boot.drain /\ boot'.shutdown = boot.shutdown /\ boot'.adapter = boot.adapter
      /\ boot'.limits = boot.limits /\ boot'.permits = boot.permits /\ boot'.existed = boot.existed
  BY DEF Go, BootInv, BootType
<1>2. BootType' /\ FilesType' /\ EnvironType'
  BY <1>1 DEF BootInv, BootType, FilesType, EnvironType
<1>3. (EnvironmentValid' <=> EnvironmentValid) /\ (ProfileValid' <=> ProfileValid)
  BY DEF EnvironmentValid, ProfileValid, IsProduction
<1>4. StartInv'
  <2>1. /\ q \in Checked => EnvironmentValid
        /\ q \in Profiled => ProfileValid
    BY DEF BootInv, StartInv
  <2>2. q \in Timed => /\ boot.shutdown \in Nat
                       /\ boot.shutdown >= 2 => boot.drain >= 1 /\ boot.drain < boot.shutdown
    BY DEF BootInv, StartInv
  <2>3. q \in Found => (boot.path = None => boot.existed = {} /\ ~environ.given)
    BY DEF BootInv, StartInv
  <2>4. q \in Loaded => /\ boot.config = None => boot.path = None
                        /\ boot.config # None => G!WellTyped(boot.config) /\ Workflows(boot.config)
    <3>1. q \in Loaded => boot.phase \in Loaded
      BY DEF Loaded, ServingPhases
    <3> QED BY <3>1 DEF BootInv, StartInv
  <2>5. q \notin Loaded \cup {"refused"} => boot.config = None
    BY DEF BootInv, StartInv
  <2>6. q \in ServingPhases /\ boot.config # None =>
           engine # {} /\ (RequiresApprovalEngine(boot.config) => boot.adapter \in {"mock", "slack"})
    BY DEF BootInv, StartInv
  <2>7. boot.adapter = "mock" => environ.adapter = "mock"
    BY DEF BootInv, StartInv
  <2> QED BY <1>1, <1>3, <2>1, <2>2, <2>3, <2>4, <2>5, <2>6, <2>7
          DEF StartInv, Workflows, RequiresApprovalEngine
<1> QED BY <1>2, <1>4 DEF BootInv

\* Every check of main.
LEMMA ChecksKeep ==
    ASSUME BootInv,
           \/ CheckDefaults \/ CheckPorts \/ CheckEnvironment \/ CheckProfile \/ Bind \/ InitTelemetry
           \/ CheckUpstreamConfig \/ CheckSchema \/ VerifyConnectivity
    PROVE  BootInv' /\ BootRest
<1>1. load["boot"].step = "done" => engine # {}
  BY DEF BootInv, StartInv
<1>2. ready \in BOOLEAN /\ (ready => boot.phase = "ready")
  BY DEF BootInv, BootType
<1>3. PICK p, ok, q : /\ Check(p, ok, q)
                      /\ \/ p = "defaults" /\ q = "ports"
                         \/ p = "ports" /\ q = "environment"
                         \/ p = "environment" /\ q = "profile" /\ (ok => EnvironmentValid)
                         \/ p = "profile" /\ q = "lifecycle" /\ (ok => ProfileValid)
                         \/ p = "bind" /\ q = "find"
                         \/ p = "telemetry" /\ q = "service" /\ boot.config = None
                         \/ p = "telemetry" /\ q = "upstream"
                         \/ p = "upstream" /\ q = "schema"
                         \/ p = "schema" /\ q = "components"
                         \/ p = "verify" /\ q = "deadline"
  <2>1. CASE CheckDefaults
    BY <2>1 DEF CheckDefaults
  <2>2. CASE CheckPorts
    BY <2>2 DEF CheckPorts
  <2>3. CASE CheckEnvironment
    BY <2>3 DEF CheckEnvironment
  <2>4. CASE CheckProfile
    BY <2>4 DEF CheckProfile
  <2>5. CASE Bind
    BY <2>5 DEF Bind
  <2>6. CASE InitTelemetry
    <3>1. CASE boot.config = None
      BY <2>6, <3>1 DEF InitTelemetry
    <3>2. CASE boot.config # None
      BY <2>6, <3>2 DEF InitTelemetry
    <3> QED BY <3>1, <3>2
  <2>7. CASE CheckUpstreamConfig
    BY <2>7 DEF CheckUpstreamConfig
  <2>8. CASE CheckSchema
    BY <2>8 DEF CheckSchema
  <2>9. CASE VerifyConnectivity
    BY <2>9 DEF VerifyConnectivity
  <2> QED BY <2>1, <2>2, <2>3, <2>4, <2>5, <2>6, <2>7, <2>8, <2>9
<1>4. boot.phase = p /\ BootRest /\ ready' = ready /\ UNCHANGED <<environ, files, engine, load>>
  BY <1>3 DEF Check, At, BootRest, policyVars
<1>5. ready' = FALSE
  BY <1>2, <1>3, <1>4
<1>6. CASE ok /\ Go(q)
  BY <1>1, <1>3, <1>4, <1>5, <1>6, GoKeeps
     DEF Phases, Checked, Profiled, Timed, Found, Loaded, ServingPhases
<1>7. CASE Go("refused")
  BY <1>1, <1>3, <1>4, <1>5, <1>7, GoKeeps
     DEF Phases, Checked, Profiled, Timed, Found, Loaded, ServingPhases
<1> QED BY <1>3, <1>4, <1>6, <1>7 DEF Check

LEMMA Parsed ==
    ASSUME NEW v \in Nat \cup {None, Garbage}, NEW default \in Nat
    PROVE  ParseEnvWarn(v, default) \in Nat /\ ParseDurationEnv(v, default) \in Nat
BY DEF ParseEnvWarn, ParseDurationEnv

\* LifecycleConfig::from_env leaves time to shut down after the drain.
LEMMA DrainAdjusted ==
    ASSUME NEW s \in Nat, NEW d \in Nat, s >= 2
    PROVE  AdjustDrain(s, d) >= 1 /\ AdjustDrain(s, d) < s
<1> DEFINE q == (s * 4) \div 5
<1>1. q \in Int
  OBVIOUS
<1> HIDE DEF q
<1>2. AdjustDrain(s, d) = LET maxDrain == s - 1
                              AtLeastOne(n) == IF n < 1 THEN 1 ELSE n
                              Least(a, b) == IF a < b THEN a ELSE b IN
                          IF d >= s THEN AtLeastOne(Least(q, maxDrain))
                          ELSE IF d > maxDrain THEN AtLeastOne(maxDrain) ELSE AtLeastOne(d)
  BY DEF AdjustDrain, q
<1> QED BY <1>1, <1>2

LEMMA InitLifecycleKeeps ==
    ASSUME BootInv, InitLifecycle
    PROVE  BootInv' /\ BootRest
<1> DEFINE s == ParseDurationEnv(environ.shutdown, 30)
           d == ParseDurationEnv(environ.drain, 25)
           a == AdjustDrain(s, d)
<1>1. s \in Nat /\ d \in Nat
  BY Parsed DEF BootInv, EnvironType
<1>2. s >= 2 => a >= 1 /\ a < s
  BY <1>1, DrainAdjusted
<1>3. /\ boot' = [boot EXCEPT !.phase = "bind", !.shutdown = s, !.drain = a] /\ boot.phase = "lifecycle"
      /\ BootRest /\ ready' = ready /\ UNCHANGED <<environ, files, engine, load>>
  BY DEF InitLifecycle, At, BootRest, policyVars
<1> HIDE DEF s, d, a
<1>4. /\ DOMAIN boot' = DOMAIN boot /\ boot'.phase = "bind" /\ boot'.path = boot.path
      /\ boot'.config = boot.config /\ boot'.drain = a /\ boot'.shutdown = s /\ boot'.adapter = boot.adapter
      /\ boot'.limits = boot.limits /\ boot'.permits = boot.permits /\ boot'.existed = boot.existed
  BY <1>3 DEF BootInv, BootType
<1>5. BootType' /\ FilesType' /\ EnvironType'
  BY <1>3, <1>4 DEF BootInv, BootType, FilesType, EnvironType, Phases, Checked, Profiled, Timed
<1>6. EnvironmentValid' /\ ProfileValid' /\ boot.config = None
  BY <1>3 DEF BootInv, StartInv, EnvironmentValid, ProfileValid, IsProduction, Checked, Profiled,
              Timed, Found, Loaded, ServingPhases
<1>7. StartInv'
  BY <1>1, <1>2, <1>3, <1>4, <1>6 DEF BootInv, StartInv, Found, Loaded, ServingPhases
<1> QED BY <1>3, <1>5, <1>7 DEF BootInv

LEMMA FindConfigKeeps ==
    ASSUME BootInv, FindConfig
    PROVE  BootInv' /\ BootRest
<1> DEFINE found == {k \in DOMAIN DefaultConfigPaths : Exists(files[DefaultConfigPaths[k]])}
           path == IF environ.given THEN "given" ELSE FindConfigFile
           there == {p \in Paths : Exists(files[p]) /\ (p = "given" <=> environ.given)}
           q == IF path = None THEN "telemetry" ELSE "load"
<1>1. \/ FindConfigFile \in {"etc", "local"}
      \/ FindConfigFile = None /\ ~Exists(files["etc"]) /\ ~Exists(files["local"])
  <2>1. DOMAIN DefaultConfigPaths = {1, 2} /\ DefaultConfigPaths[1] = "etc" /\ DefaultConfigPaths[2] = "local"
    BY DEF DefaultConfigPaths
  <2>2. CASE found = {}
    <3>1. FindConfigFile = None
      BY <2>2 DEF FindConfigFile
    <3> QED BY <2>1, <2>2, <3>1
  <2>3. CASE found # {}
    <3>1. found \subseteq {1, 2}
      BY <2>1
    <3>2. \E k \in found : \A j \in found : k <= j
      BY <2>3, <3>1, LeastOf
    <3> DEFINE least == CHOOSE k \in found : \A j \in found : k <= j
    <3>3. least \in {1, 2}
      BY <3>1, <3>2
    <3>4. FindConfigFile = DefaultConfigPaths[least]
      BY <2>3 DEF FindConfigFile
    <3> HIDE DEF least
    <3>5. least = 1 \/ least = 2
      BY <3>3
    <3>6. FindConfigFile = "etc" \/ FindConfigFile = "local"
      BY <2>1, <3>4, <3>5
    <3> QED BY <3>6
  <2> QED BY <2>2, <2>3
<1>2. /\ boot' = [boot EXCEPT !.path = path, !.existed = there, !.phase = q] /\ boot.phase = "find"
      /\ BootRest /\ ready' = ready /\ UNCHANGED <<environ, files, engine, load>>
  BY DEF FindConfig, At, BootRest, policyVars
<1>3. None \notin {"given", "etc", "local"}
  BY WorldsAssumption DEF Paths
<1>4. /\ path \in {None} \cup Paths /\ there \subseteq Paths
      /\ path = None => there = {} /\ ~environ.given
  BY <1>1, <1>3 DEF Paths
<1>5. q \in {"telemetry", "load"} /\ (q = "telemetry" <=> path = None)
  OBVIOUS
<1> HIDE DEF path, there, q
<1>6. /\ DOMAIN boot' = DOMAIN boot /\ boot'.phase = q /\ boot'.path = path
      /\ boot'.config = boot.config /\ boot'.drain = boot.drain /\ boot'.shutdown = boot.shutdown
      /\ boot'.adapter = boot.adapter /\ boot'.limits = boot.limits /\ boot'.permits = boot.permits
      /\ boot'.existed = there
  BY <1>2 DEF BootInv, BootType
<1>7. ready = FALSE
  BY <1>2 DEF BootInv, BootType
<1>8. BootType' /\ FilesType' /\ EnvironType'
  BY <1>2, <1>4, <1>5, <1>6, <1>7
     DEF BootInv, BootType, FilesType, EnvironType, Phases, Checked, Profiled, Timed, Found, Loaded
<1>9. /\ EnvironmentValid' /\ ProfileValid' /\ boot.config = None
      /\ boot.shutdown \in Nat
      /\ boot.shutdown >= 2 => boot.drain >= 1 /\ boot.drain < boot.shutdown
  BY <1>2 DEF BootInv, StartInv, EnvironmentValid, ProfileValid, IsProduction, Checked, Profiled,
              Timed, Found, Loaded, ServingPhases
<1>10. StartInv'
  BY <1>2, <1>4, <1>5, <1>6, <1>9 DEF BootInv, StartInv, Loaded, ServingPhases
<1> QED BY <1>2, <1>8, <1>10 DEF BootInv

\* What every step that refuses does.
LEMMA RefuseKeeps ==
    ASSUME BootInv, Go("refused"), boot.phase \notin {"refused", "ready"}, ready' = ready,
           UNCHANGED <<environ, files, engine, load>>
    PROVE  BootInv'
<1>1. ready' = FALSE
  BY DEF BootInv, BootType
<1>2. load'["boot"].step = "done" => engine # {}
  BY DEF BootInv, StartInv
<1> QED BY <1>1, <1>2, GoKeeps DEF Phases, Checked, Profiled, Timed, Found, Loaded, ServingPhases

LEMMA LoadAndValidateKeeps ==
    ASSUME BootInv, LoadAndValidate
    PROVE  BootInv' /\ BootRest
<1>1. boot.phase = "load" /\ BootRest /\ ready' = ready /\ UNCHANGED <<environ, files, engine, load>>
  BY DEF LoadAndValidate, At, BootRest, policyVars
<1>2. CASE Go("refused")
  BY <1>1, <1>2, RefuseKeeps
<1>3. CASE /\ LoadAndValidateOk(boot.path)
           /\ boot' = [boot EXCEPT !.phase = "telemetry", !.config = files[boot.path]]
  <2> DEFINE cfg == files[boot.path]
  <2>1. boot.path \in Paths
    BY <1>1 DEF BootInv, BootType, StartInv
  <2>2. cfg # None /\ G!WellTyped(cfg)
    BY <1>3, <2>1 DEF LoadAndValidateOk, LoadConfig, BootInv, FilesType
  <2>3. Workflows(cfg)
    BY <1>3 DEF LoadAndValidateOk, Validate, ValidateRule, Workflows
  <2> HIDE DEF cfg
  <2>4. /\ DOMAIN boot' = DOMAIN boot /\ boot'.phase = "telemetry" /\ boot'.path = boot.path
        /\ boot'.config = cfg /\ boot'.drain = boot.drain /\ boot'.shutdown = boot.shutdown
        /\ boot'.adapter = boot.adapter /\ boot'.limits = boot.limits /\ boot'.permits = boot.permits
        /\ boot'.existed = boot.existed
    BY <1>3 DEF BootInv, BootType, cfg
  <2>5. ready = FALSE
    BY <1>1 DEF BootInv, BootType
  <2>6. BootType' /\ FilesType' /\ EnvironType'
    BY <1>1, <2>4, <2>5
       DEF BootInv, BootType, FilesType, EnvironType, Phases, Checked, Profiled, Timed, Found, Loaded
  <2>7. /\ EnvironmentValid' /\ ProfileValid' /\ boot.path # None
        /\ boot.shutdown \in Nat
        /\ boot.shutdown >= 2 => boot.drain >= 1 /\ boot.drain < boot.shutdown
    BY <1>1 DEF BootInv, StartInv, EnvironmentValid, ProfileValid, IsProduction, Checked, Profiled,
                Timed, Found
  <2>8. G!WellTyped(boot'.config) /\ Workflows(boot'.config)
    BY <2>2, <2>3, <2>4
  <2>9. StartInv'
    BY <1>1, <2>2, <2>4, <2>7, <2>8 DEF BootInv, StartInv, Loaded, ServingPhases, Workflows
  <2> QED BY <1>1, <2>6, <2>9 DEF BootInv
<1> QED BY <1>1, <1>2, <1>3 DEF LoadAndValidate

\* create_governance_components begins: nothing the engine has is lost.
LEMMA StartCedarKeeps ==
    ASSUME BootInv, PolicyInv, StartCedar
    PROVE  BootInv' /\ PolicyInv' /\ UNCHANGED <<eval, decided, stats, changes, calls, edits>>
<1> DEFINE r == [Idle EXCEPT !.step = "check"]
<1>1. /\ boot.phase = "components" /\ Go("cedar") /\ Put("boot", r) /\ yaml' \in {yaml, <<>>}
      /\ UNCHANGED <<policyFile, policyEnv, engine, held, eval, decided, stats, changes, calls>>
      /\ UNCHANGED <<environ, files, ready, edits>>
  BY DEF StartCedar, At, Put
<1>2. r.step = "check" /\ "boot" \in Loaders
  BY DEF Idle, Loaders
<1>3. PolicyInv' /\ load' = [load EXCEPT !["boot"] = r] /\ DOMAIN load = Loaders
  BY <1>1, <1>2, ReloadKeeps
<1> HIDE DEF r
<1>4. load'["boot"].step # "done"
  BY <1>2, <1>3
<1>5. ready' = FALSE
  BY <1>1 DEF BootInv, BootType
<1>6. BootInv'
  BY <1>1, <1>4, <1>5, GoKeeps DEF Phases, Checked, Profiled, Timed, Found, Loaded, ServingPhases
<1> QED BY <1>1, <1>3, <1>6

\* The approval engine is built when the configuration needs one.
LEMMA CreateComponentsKeeps ==
    ASSUME BootInv, CreateComponents
    PROVE  BootInv' /\ BootRest
<1>1. boot.phase = "cedar" /\ BootRest /\ ready' = ready /\ UNCHANGED <<environ, files, engine, load>>
  BY DEF CreateComponents, At, BootRest, policyVars
<1>2. CASE Go("refused")
  BY <1>1, <1>2, RefuseKeeps
<1>3. CASE /\ load["boot"].step = "done" /\ ApprovalAdapter # "missing"
           /\ boot' = [boot EXCEPT !.phase = "service", !.adapter = ApprovalAdapter, !.limits = HandlerLimits]
  <2> DEFINE a == ApprovalAdapter
             l == HandlerLimits
  <2>1. /\ a \in {"none", "mock", "slack"} /\ (a = "mock" => environ.adapter = "mock")
        /\ RequiresApprovalEngine(boot.config) => a \in {"mock", "slack"}
    BY <1>3 DEF ApprovalAdapter
  <2>2. l.requests \in 1 .. MostRequests /\ l.batch \in 1 .. MostBatched
    <3>1. MostRequests \in Nat /\ 1 <= MostRequests /\ MostBatched \in Nat /\ 1 <= MostBatched
      BY DEF MostRequests, MostBatched
    <3>2. environ.requests \in Nat \cup {None, Garbage} /\ environ.batch \in Nat \cup {None, Garbage}
      BY DEF BootInv, EnvironType
    <3>3. Clamp(ParseEnvWarn(environ.requests, 10000), 1, MostRequests) \in 1 .. MostRequests
      BY <3>1, <3>2 DEF Clamp, ParseEnvWarn
    <3>4. Clamp(ParseEnvWarn(environ.batch, 100), 1, MostBatched) \in 1 .. MostBatched
      BY <3>1, <3>2 DEF Clamp, ParseEnvWarn
    <3> QED BY <3>3, <3>4 DEF HandlerLimits
  <2> HIDE DEF a, l
  <2>3. /\ DOMAIN boot' = DOMAIN boot /\ boot'.phase = "service" /\ boot'.path = boot.path
        /\ boot'.config = boot.config /\ boot'.drain = boot.drain /\ boot'.shutdown = boot.shutdown
        /\ boot'.adapter = a /\ boot'.limits = l /\ boot'.permits = boot.permits
        /\ boot'.existed = boot.existed
    BY <1>3 DEF BootInv, BootType, a, l
  <2>4. ready = FALSE
    BY <1>1 DEF BootInv, BootType
  <2>5. BootType' /\ FilesType' /\ EnvironType'
    BY <1>1, <2>1, <2>2, <2>3, <2>4 DEF BootInv, BootType, FilesType, EnvironType, Phases, Checked,
                                        Profiled, Timed, Found, Loaded, ServingPhases
  <2>6. /\ EnvironmentValid' /\ ProfileValid'
        /\ boot.shutdown \in Nat
        /\ boot.shutdown >= 2 => boot.drain >= 1 /\ boot.drain < boot.shutdown
    BY <1>1 DEF BootInv, StartInv, EnvironmentValid, ProfileValid, IsProduction, Checked, Profiled,
                Timed, Found, Loaded
  <2>7. /\ boot.path = None => boot.existed = {} /\ ~environ.given
        /\ boot.config = None => boot.path = None
        /\ boot.config # None => G!WellTyped(boot.config) /\ Workflows(boot.config)
        /\ engine # {}
    BY <1>1, <1>3 DEF BootInv, StartInv, Found, Loaded
  <2>8. /\ boot'.config # None => G!WellTyped(boot'.config) /\ Workflows(boot'.config)
        /\ RequiresApprovalEngine(boot'.config) => boot'.adapter \in {"mock", "slack"}
    BY <2>1, <2>3, <2>7
  <2>9. StartInv'
    BY <1>1, <2>1, <2>3, <2>6, <2>7, <2>8
       DEF StartInv, Loaded, ServingPhases, Workflows, RequiresApprovalEngine
  <2> QED BY <1>1, <2>5, <2>9 DEF BootInv
<1> QED BY <1>1, <1>2, <1>3 DEF CreateComponents

LEMMA CreateServiceKeeps ==
    ASSUME BootInv, CreateService
    PROVE  BootInv' /\ BootRest
<1>1. boot.phase = "service" /\ BootRest /\ ready' = ready /\ UNCHANGED <<environ, files, engine, load>>
  BY DEF CreateService, At, BootRest, policyVars
<1>2. CASE Go("refused")
  BY <1>1, <1>2, RefuseKeeps
<1>3. CASE boot' = [boot EXCEPT !.phase = "verify", !.permits = StreamPermits]
  <2> DEFINE m == StreamPermits
  <2>1. m \in 1 .. MostRequests
    <3>1. MostRequests \in Nat /\ 1 <= MostRequests
      BY DEF MostRequests
    <3>2. environ.streams \in Nat \cup {None, Garbage}
      BY DEF BootInv, EnvironType
    <3>3. Clamp(ParseEnvWarn(environ.streams, 10000), 1, MostRequests) \in 1 .. MostRequests
      BY <3>1, <3>2 DEF Clamp, ParseEnvWarn
    <3> QED BY <3>3 DEF StreamPermits
  <2> HIDE DEF m
  <2>2. /\ DOMAIN boot' = DOMAIN boot /\ boot'.phase = "verify" /\ boot'.path = boot.path
        /\ boot'.config = boot.config /\ boot'.drain = boot.drain /\ boot'.shutdown = boot.shutdown
        /\ boot'.adapter = boot.adapter /\ boot'.limits = boot.limits /\ boot'.permits = m
        /\ boot'.existed = boot.existed
    BY <1>3 DEF BootInv, BootType, m
  <2>3. ready = FALSE
    BY <1>1 DEF BootInv, BootType
  <2>4. BootType' /\ FilesType' /\ EnvironType'
    BY <1>1, <2>1, <2>2, <2>3 DEF BootInv, BootType, FilesType, EnvironType, Phases, Checked,
                                  Profiled, Timed, Found, Loaded, ServingPhases
  <2>5. /\ EnvironmentValid' /\ ProfileValid'
        /\ boot.shutdown \in Nat
        /\ boot.shutdown >= 2 => boot.drain >= 1 /\ boot.drain < boot.shutdown
    BY <1>1 DEF BootInv, StartInv, EnvironmentValid, ProfileValid, IsProduction, Checked, Profiled,
                Timed, Found, Loaded, ServingPhases
  <2>6. /\ boot.path = None => boot.existed = {} /\ ~environ.given
        /\ boot.config = None => boot.path = None
        /\ boot.config # None => G!WellTyped(boot.config) /\ Workflows(boot.config)
        /\ boot.config # None => engine # {} /\ (RequiresApprovalEngine(boot.config) => boot.adapter \in {"mock", "slack"})
        /\ boot.adapter = "mock" => environ.adapter = "mock"
        /\ load["boot"].step = "done" => engine # {}
    BY <1>1 DEF BootInv, StartInv, Found, Loaded, ServingPhases
  <2>7. StartInv'
    BY <1>1, <2>2, <2>5, <2>6 DEF StartInv, Loaded, ServingPhases, Workflows, RequiresApprovalEngine
  <2> QED BY <1>1, <2>4, <2>7 DEF BootInv
<1> QED BY <1>1, <1>2, <1>3 DEF CreateService

LEMMA StartupDeadlineKeeps ==
    ASSUME BootInv, StartupDeadline
    PROVE  BootInv' /\ BootRest
<1>1. boot.phase = "deadline" /\ BootRest /\ UNCHANGED <<environ, files, engine, load>>
  BY DEF StartupDeadline, At, BootRest, policyVars
<1>2. CASE Go("refused") /\ ready' = ready
  BY <1>1, <1>2, RefuseKeeps
<1>3. CASE Go("ready") /\ ready' = TRUE
  <2>1. load'["boot"].step = "done" => engine # {}
    BY <1>1 DEF BootInv, StartInv
  <2>2. ready' \in BOOLEAN
    BY <1>3
  <2>3. BootInv'
    BY <1>1, <1>3, <2>1, <2>2, GoKeeps DEF Phases, Checked, Profiled, Timed, Found, Loaded, ServingPhases
  <2> QED BY <1>1, <2>3
<1> QED BY <1>2, <1>3 DEF StartupDeadline

LEMMA EditConfigKeeps ==
    ASSUME BootInv, NEW p \in Paths, NEW t \in ConfigTexts, EditConfig(p, t)
    PROVE  BootInv' /\ UNCHANGED policyVars
<1>1. /\ files' = [files EXCEPT ![p] = t]
      /\ UNCHANGED <<environ, boot, ready>> /\ UNCHANGED policyVars /\ engine' = engine /\ load' = load
  BY DEF EditConfig, policyVars
<1>2. FilesType'
  BY <1>1, WorldsAssumption DEF BootInv, FilesType
<1>3. BootType' /\ EnvironType'
  BY <1>1 DEF BootInv, BootType, EnvironType
<1>4. load["boot"].step = "done" => engine # {}
  BY DEF BootInv, StartInv
<1>5. StartInv'
  BY <1>1, <1>4, StartFrame DEF BootInv
<1> QED BY <1>1, <1>2, <1>3, <1>5 DEF BootInv

-----------------------------------------------------------------------------
(* Theorems *)

LEMMA InitInd == Init => IndInv
<1> SUFFICES ASSUME Init PROVE IndInv
  OBVIOUS
<1>1. PICK w \in Worlds :
        /\ environ = w.environ /\ files = w.files
        /\ PolicyInit(w.policyFile, w.policyEnv, w.yaml, w.settled)
        /\ boot = [phase |-> "defaults", path |-> None, config |-> None, drain |-> None,
                   shutdown |-> None, adapter |-> None, limits |-> None, permits |-> None, existed |-> {}]
        /\ ready = FALSE /\ edits = (IF w.edited THEN 0 ELSE MaxEdits)
  BY DEF Init
<1>2. /\ engine = {} /\ load = [u \in Loaders |-> Idle]
      /\ eval = [e \in Evaluators |-> {}] /\ decided = {}
      /\ stats = [evaluations |-> 0, permits |-> 0, forbids |-> 0]
      /\ policyFile = w.policyFile /\ policyEnv = w.policyEnv /\ yaml = w.yaml
      /\ held = [file |-> {policyFile}, env |-> {policyEnv}, embedded |-> {Embedded}, yaml |-> {ReadAll(yaml)}]
      /\ changes = (IF w.settled THEN MaxChanges ELSE 0) /\ calls = (IF w.settled THEN MaxCalls ELSE 0)
  BY <1>1 DEF PolicyInit
<1>3. Bounded
  BY <1>1, <1>2, PolicyAssumption, StartupAssumption DEF Bounded
<1>4. PolicyInv
  <2>1. HeldType
    <3>1. policyEnv # Hidden /\ ReadAll(yaml) \notin {None, Hidden}
      BY <1>2, WorldsAssumption
    <3> QED BY <1>2, <3>1 DEF HeldType
  <2>2. LoadType /\ LoadsGenuine
    BY <1>2 DEF LoadType, LoadsGenuine, Idle
  <2>3. SnapshotsGenuine /\ InForceWasWritten
    BY <1>2 DEF SnapshotsGenuine, InForceWasWritten
  <2> QED BY <2>1, <2>2, <2>3 DEF PolicyInv
<1>5. EvalInv
  <2>1. EvalType /\ DecisionsSound
    BY <1>2 DEF EvalType, DecisionsSound
  <2>2. {e \in Evaluators : \E x \in eval[e] : x.req.api = "v2"} = {}
    BY <1>2
  <2>3. Cardinality({e \in Evaluators : \E x \in eval[e] : x.req.api = "v2"}) = 0
    BY <2>2, FS_EmptySet
  <2>4. stats.evaluations = 0 /\ stats.permits = 0 /\ stats.forbids = 0
    BY <1>2
  <2>5. StatsExact
    BY <2>3, <2>4 DEF StatsExact
  <2> QED BY <2>1, <2>5 DEF EvalInv
<1>6. BootInv
  <2>1. /\ DOMAIN boot = {"phase", "path", "config", "drain", "shutdown", "adapter", "limits", "permits", "existed"}
        /\ boot.phase = "defaults" /\ boot.path = None /\ boot.config = None /\ boot.adapter = None
        /\ boot.limits = None /\ boot.permits = None /\ boot.existed = {}
    BY <1>1
  <2>2. BootType
    BY <1>1, <2>1 DEF BootType, Phases
  <2>3. FilesType /\ EnvironType
    BY <1>1, WorldsAssumption DEF FilesType, EnvironType
  <2>4. load["boot"].step # "done" /\ boot.adapter # "mock"
    <3>1. load["boot"] = Idle
      BY <1>2 DEF Loaders
    <3> QED BY <2>1, <3>1, WorldsAssumption DEF Idle
  <2>5. StartInv
    BY <2>1, <2>4 DEF StartInv, Checked, Profiled, Timed, Found, Loaded, ServingPhases
  <2> QED BY <2>2, <2>3, <2>5 DEF BootInv
<1> QED BY <1>3, <1>4, <1>5, <1>6 DEF IndInv

\* What leaves the engine's variables alone keeps what is said of them.
LEMMA PolicyFrame ==
    ASSUME PolicyInv, UNCHANGED <<policyFile, policyEnv, yaml, engine, load, held>>
    PROVE  PolicyInv'
BY DEF PolicyInv, HeldType, LoadType, LoadsGenuine, SnapshotsGenuine, InForceWasWritten

LEMMA EvalFrame ==
    ASSUME EvalInv, UNCHANGED <<eval, decided, stats>>
    PROVE  EvalInv'
<1>1. EvalType' /\ DecisionsSound' /\ StatsExact'
  BY DEF EvalInv, EvalType, DecisionsSound, StatsExact
<1> QED BY <1>1 DEF EvalInv

\* A step of main.
LEMMA BootStepInd ==
    ASSUME IndInv, BootStep
    PROVE  IndInv'
<1>1. ASSUME BootRest, BootInv' PROVE IndInv'
  <2>1. UNCHANGED <<policyFile, policyEnv, yaml, engine, load, held, eval, decided, stats, changes, calls, edits>>
    BY <1>1 DEF BootRest, policyVars
  <2>2. PolicyInv' /\ EvalInv'
    BY <2>1, PolicyFrame, EvalFrame DEF IndInv
  <2>3. Bounded'
    BY <2>1 DEF IndInv, Bounded
  <2> QED BY <1>1, <2>2, <2>3 DEF IndInv
<1>2. CASE \/ CheckDefaults \/ CheckPorts \/ CheckEnvironment \/ CheckProfile \/ Bind \/ InitTelemetry
           \/ CheckUpstreamConfig \/ CheckSchema \/ VerifyConnectivity
  BY <1>1, <1>2, ChecksKeep DEF IndInv
<1>3. CASE InitLifecycle
  BY <1>1, <1>3, InitLifecycleKeeps DEF IndInv
<1>4. CASE FindConfig
  BY <1>1, <1>4, FindConfigKeeps DEF IndInv
<1>5. CASE LoadAndValidate
  BY <1>1, <1>5, LoadAndValidateKeeps DEF IndInv
<1>6. CASE StartCedar
  <2>1. BootInv' /\ PolicyInv' /\ UNCHANGED <<eval, decided, stats, changes, calls, edits>>
    BY <1>6, StartCedarKeeps DEF IndInv
  <2>2. EvalInv' /\ Bounded'
    BY <2>1, EvalFrame DEF IndInv, Bounded
  <2> QED BY <2>1, <2>2 DEF IndInv
<1>7. CASE BootLoads
  <2>1. LoadStep("boot") /\ UNCHANGED <<environ, files, boot, ready, edits>> /\ "boot" \in Loaders
    BY <1>7 DEF BootLoads, startupVars, Loaders
  <2>2. /\ PolicyInv' /\ (engine # {} => engine' # {}) /\ (load'["boot"].step = "done" => engine' # {})
        /\ UNCHANGED <<eval, decided, stats, changes, calls>>
    BY <2>1, LoadStepKeeps DEF IndInv
  <2>3. BootInv'
    BY <2>1, <2>2, BootRests DEF IndInv
  <2>4. EvalInv' /\ Bounded'
    BY <2>1, <2>2, EvalFrame DEF IndInv, Bounded
  <2> QED BY <2>2, <2>3, <2>4 DEF IndInv
<1>8. CASE CreateComponents
  BY <1>1, <1>8, CreateComponentsKeeps DEF IndInv
<1>9. CASE CreateService
  BY <1>1, <1>9, CreateServiceKeeps DEF IndInv
<1>10. CASE StartupDeadline
  BY <1>1, <1>10, StartupDeadlineKeeps DEF IndInv
<1> QED BY <1>2, <1>3, <1>4, <1>5, <1>6, <1>7, <1>8, <1>9, <1>10 DEF BootStep

\* A step of the engine beside main.
LEMMA PolicyStepInd ==
    ASSUME IndInv, PolicyNext, UNCHANGED startupVars
    PROVE  IndInv'
<1>1. UNCHANGED <<environ, files, boot, ready, edits>>
  BY DEF startupVars
<1>2. load["boot"].step = "done" => engine # {}
  BY DEF IndInv, BootInv, StartInv
<1>3. "boot" \in Loaders /\ "boot" \notin Reloaders /\ Reloaders \subseteq Loaders
  BY StartupAssumption DEF Loaders
<1>4. ASSUME NEW w \in Reloaders, LoadStep(w) PROVE IndInv'
  <2>1. /\ PolicyInv' /\ (engine # {} => engine' # {}) /\ load'["boot"] = load["boot"]
        /\ UNCHANGED <<eval, decided, stats, changes, calls>>
    BY <1>3, <1>4, LoadStepKeeps DEF IndInv
  <2>2. BootInv'
    BY <1>1, <1>2, <2>1, BootRests DEF IndInv
  <2>3. EvalInv' /\ Bounded'
    BY <1>1, <2>1, EvalFrame DEF IndInv, Bounded
  <2> QED BY <2>1, <2>2, <2>3 DEF IndInv
<1>5. ASSUME NEW w \in Reloaders, Reload(w) PROVE IndInv'
  <2>1. /\ Put(w, [Idle EXCEPT !.step = "check"]) /\ calls < MaxCalls /\ calls' = calls + 1
        /\ UNCHANGED <<policyFile, policyEnv, yaml, engine, held, eval, decided, stats, changes>>
    BY <1>5 DEF Reload
  <2>2. PolicyInv' /\ load' = [load EXCEPT ![w] = [Idle EXCEPT !.step = "check"]] /\ DOMAIN load = Loaders
    BY <1>3, <2>1, ReloadKeeps DEF IndInv
  <2>3. load'["boot"] = load["boot"]
    BY <1>3, <2>2
  <2>4. BootInv'
    BY <1>1, <1>2, <2>1, <2>3, BootRests DEF IndInv
  <2>5. EvalInv' /\ Bounded'
    BY <1>1, <2>1, EvalFrame, PolicyAssumption DEF IndInv, Bounded
  <2> QED BY <2>2, <2>4, <2>5 DEF IndInv
<1>6. ASSUME NEW e \in Evaluators, DecideV2(e) \/ DecideV1(e) PROVE IndInv'
  <2>1. UNCHANGED <<policyFile, policyEnv, yaml, engine, load, held, changes, calls>>
    BY <1>6 DEF DecideV2, DecideV1
  <2>2. EvalInv'
    BY <1>6, DecidedCounts DEF IndInv
  <2>3. PolicyInv' /\ BootInv' /\ Bounded'
    BY <1>1, <1>2, <2>1, PolicyFrame, BootRests DEF IndInv, Bounded
  <2> QED BY <2>2, <2>3 DEF IndInv
<1>7. ASSUME NEW e \in Evaluators, NEW req \in Requests, LoadSnapshot(e, req) PROVE IndInv'
  <2>1. /\ UNCHANGED <<policyFile, policyEnv, yaml, engine, load, held, changes>>
        /\ calls < MaxCalls /\ calls' = calls + 1
    BY <1>7 DEF LoadSnapshot
  <2>2. EvalInv'
    BY <1>7, LoadSnapshotCounts DEF IndInv
  <2>3. PolicyInv' /\ BootInv'
    BY <1>1, <1>2, <2>1, PolicyFrame, BootRests DEF IndInv
  <2>4. Bounded'
    BY <1>1, <2>1, PolicyAssumption DEF IndInv, Bounded
  <2> QED BY <2>2, <2>3, <2>4 DEF IndInv
<1>8. ASSUME NEW t, FileChanges(t) PROVE IndInv'
  <2>1. PolicyInv' /\ UNCHANGED <<engine, load, eval, decided, stats, calls>>
    BY <1>8, FileChangesKeeps DEF IndInv
  <2>2. changes < MaxChanges /\ changes' = changes + 1
    BY <1>8 DEF FileChanges
  <2>3. BootInv' /\ EvalInv'
    BY <1>1, <1>2, <2>1, BootRests, EvalFrame DEF IndInv
  <2>4. Bounded'
    BY <1>1, <2>1, <2>2, PolicyAssumption DEF IndInv, Bounded
  <2> QED BY <2>1, <2>3, <2>4 DEF IndInv
<1> QED BY <1>4, <1>5, <1>6, <1>7, <1>8 DEF PolicyNext

\* Every step of main, of the policy engine and of those who edit the files keeps
\* the invariant.
THEOREM Inductive == Spec => []IndInv
<1>1. IndInv /\ [Next]_vars => IndInv'
  <2> SUFFICES ASSUME IndInv, [Next]_vars PROVE IndInv'
    OBVIOUS
  <2>1. CASE BootStep
    BY <2>1, BootStepInd
  <2>2. CASE PolicyNext /\ UNCHANGED startupVars
    BY <2>2, PolicyStepInd
  <2>3. ASSUME NEW p \in Paths, NEW t \in ConfigTexts, EditConfig(p, t) PROVE IndInv'
    <3>1. BootInv' /\ UNCHANGED policyVars
      BY <2>3, EditConfigKeeps DEF IndInv
    <3>2. PolicyInv' /\ EvalInv'
      BY <3>1, PolicyFrame, EvalFrame DEF IndInv, policyVars
    <3>3. Bounded'
      BY <2>3, <3>1, StartupAssumption DEF IndInv, Bounded, policyVars, EditConfig
    <3> QED BY <3>1, <3>2, <3>3 DEF IndInv
  <2>4. CASE UNCHANGED vars
    <3>1. UNCHANGED policyVars /\ UNCHANGED <<environ, files, boot, ready, edits>>
      BY <2>4 DEF vars, startupVars
    <3>2. PolicyInv' /\ EvalInv'
      BY <3>1, PolicyFrame, EvalFrame DEF IndInv, policyVars
    <3>3. load["boot"].step = "done" => engine # {}
      BY DEF IndInv, BootInv, StartInv
    <3>4. BootInv' /\ Bounded'
      BY <3>1, <3>3, BootRests DEF IndInv, Bounded, policyVars
    <3> QED BY <3>2, <3>4 DEF IndInv
  <2> QED BY <2>1, <2>2, <2>3, <2>4 DEF Next
<1> QED BY <1>1, InitInd, PTL DEF Spec

\* Type correctness: the start is at one of its phases with what it built so
\* far, and the limits that the environment sets are in their ranges.
THEOREM TypeCorrect == Spec => []TypeOK
<1>1. IndInv => TypeOK
  BY DEF IndInv, Bounded, PolicyInv, LoadType, BootInv, BootType, TypeOK
<1> QED BY <1>1, Inductive, PTL

\* The rule that answers for a name, or the default, needs the approval engine
\* only when the configuration as a whole says so.
LEMMA EvaluateRequires ==
    ASSUME NEW cfg, NEW n, G!WellTyped(cfg), G!Evaluate(cfg, n) \in {"approve", "policy"}
    PROVE  RequiresApprovalEngine(cfg)
<1> DEFINE hits == {k \in DOMAIN cfg.rules : G!RuleMatches(cfg.rules[k], n)}
<1>1. CASE hits = {}
  BY <1>1 DEF G!Evaluate, RequiresApprovalEngine
<1>2. CASE hits # {}
  <2> DEFINE first == CHOOSE k \in hits : \A j \in hits : k <= j
  <2>1. hits \subseteq Nat
    BY DEF G!WellTyped
  <2>2. \E k \in hits : \A j \in hits : k <= j
    BY <1>2, <2>1, LeastOf
  <2>3. first \in hits
    BY <2>2
  <2>4. G!Evaluate(cfg, n) = cfg.rules[first].action
    BY <1>2 DEF G!Evaluate
  <2> HIDE DEF first
  <2> QED BY <2>3, <2>4 DEF RequiresApprovalEngine
<1> QED BY <1>1, <1>2

\* A proxy that serves does so as it was configured: a configuration that was
\* there is in force, whatever name is called finds the gates it needs, nothing
\* that bypasses governance is active in production, the drain ends in time.
THEOREM ServesAsConfiguredAlways == Spec => []ServesAsConfigured
<1>1. ASSUME IndInv PROVE ServesAsConfigured
  <2> SUFFICES ASSUME ready PROVE ServesAsConfigured
    BY DEF ServesAsConfigured, ConfigHonoured, GatesBuilt, ProductionStrict, DrainFits
  <2>1. boot.phase = "ready"
    BY <1>1 DEF IndInv, BootInv, BootType
  <2>2. /\ EnvironmentValid /\ ProfileValid /\ (boot.adapter = "mock" => environ.adapter = "mock")
        /\ boot.shutdown >= 2 => boot.drain >= 1 /\ boot.drain < boot.shutdown
        /\ boot.path = None => boot.existed = {} /\ ~environ.given
        /\ boot.config = None => boot.path = None
        /\ boot.config # None => G!WellTyped(boot.config) /\ Workflows(boot.config) /\ engine # {}
        /\ boot.config # None /\ RequiresApprovalEngine(boot.config) => boot.adapter \in {"mock", "slack"}
    BY <1>1, <2>1 DEF IndInv, BootInv, StartInv, Checked, Profiled, Timed, Found, Loaded, ServingPhases
  <2>3. ConfigHonoured /\ DrainFits
    BY <2>2 DEF ConfigHonoured, DrainFits
  <2>4. ProductionStrict
    BY <1>1, <2>2 DEF ProductionStrict, EnvironmentValid, ProfileValid, IndInv, BootInv, EnvironType
  <2>5. GatesBuilt
    <3>1. ASSUME boot.config # None, NEW n \in Names, G!Evaluate(boot.config, n) \in {"approve", "policy"}
          PROVE  boot.adapter \in {"mock", "slack"}
      BY <2>2, <3>1, EvaluateRequires
    <3> QED BY <2>2, <3>1 DEF GatesBuilt, Workflows
  <2> QED BY <2>3, <2>4, <2>5 DEF ServesAsConfigured
<1> QED BY <1>1, Inductive, PTL

\* The policies in force are a whole text that their source held and that
\* parsed, whatever the writer of the file did between a loader's steps, and a
\* loader that found the file never ends with the policies of a lower tier.
THEOREM PoliciesAreGenuine == Spec => []PoliciesGenuine
<1>1. IndInv => PoliciesGenuine
  BY DEF IndInv, PolicyInv, LoadsGenuine, PoliciesGenuine, NoFallThrough
<1> QED BY <1>1, Inductive, PTL

\* Every decision is the one that the policies of its snapshot give for the JSON
\* arguments, however deep these are and whatever numbers they hold, and every
\* evaluation that has ended is counted once.
THEOREM EvaluationsAreSound == Spec => []EvaluationsSound
<1>1. IndInv => EvaluationsSound
  BY DEF IndInv, EvalInv, EvaluationsSound
<1> QED BY <1>1, Inductive, PTL

-----------------------------------------------------------------------------
(* Lifecycle: the invariant *)

\* The connection in the accept loop's hands is still one nobody serves.
InHand ==
    main \in {"tracking", "counting", "admitting"} =>
        current \in Conns /\ conn[current] = "backlog"

\* Only the end of drain_requests reports a clean drain.
CleanIsLate == clean => main \in {"drained", "exited"}

LifecycleInd ==
    /\ LifecycleTypeOK
    /\ InHand
    /\ CleanIsLate
    /\ AdmissionExact
    /\ CleanDrainIsFinal

-----------------------------------------------------------------------------
(* Counting *)

\* The sets the two counters count are finite, and there is somebody in them
\* whenever a connection is there to be ended.
LEMMA HeldFinite ==
    /\ IsFiniteSet(Serving) /\ IsFiniteSet(Holding)
    /\ Cardinality(Serving) \in Nat /\ Cardinality(Holding) \in Nat
BY LifecycleAssumption, FS_Subset, FS_CardinalityType DEF Serving, Holding

\* Adding one element adds one, removing one removes one.
LEMMA CardStep ==
    ASSUME NEW S, IsFiniteSet(S), NEW x
    PROVE  /\ x \notin S => Cardinality(S \cup {x}) = Cardinality(S) + 1
           /\ x \in S => Cardinality(S \ {x}) = Cardinality(S) - 1 /\ Cardinality(S) >= 1
<1>1. x \notin S => Cardinality(S \cup {x}) = Cardinality(S) + 1
  BY FS_AddElement
<1>2. ASSUME x \in S
      PROVE  Cardinality(S \ {x}) = Cardinality(S) - 1 /\ Cardinality(S) >= 1
  <2>1. IsFiniteSet(S \ {x}) /\ Cardinality(S \ {x}) = Cardinality(S) - 1
    BY <1>2, FS_RemoveElement
  <2>2. Cardinality(S) \in Nat /\ Cardinality(S \ {x}) \in Nat
    BY <2>1, FS_CardinalityType
  <2> QED BY <2>1, <2>2
<1> QED BY <1>1, <1>2

\* A connection that is neither served nor ending changes no count by moving
\* to another place of that kind.
LEMMA CountsKept ==
    ASSUME LifecycleTypeOK, NEW c \in Conns, conn[c] \notin {"serving", "ending"},
           NEW s, s \notin {"serving", "ending"}, conn' = [conn EXCEPT ![c] = s]
    PROVE  Serving' = Serving /\ Holding' = Holding
BY DEF LifecycleTypeOK, Serving, Holding

-----------------------------------------------------------------------------
(* The inductive invariant *)

\* Nothing is served and every permit is free when the process starts.
LEMMA LifecycleInitInd == LifecycleInit => LifecycleInd
<1> SUFFICES ASSUME LifecycleInit PROVE LifecycleInd
  OBVIOUS
<1>1. LifecycleTypeOK
  <2>1. active \in Nat /\ permits \in 0..MaxConcurrentStreams
    BY LifecycleAssumption DEF LifecycleInit
  <2> QED BY <2>1, Zenon DEF LifecycleInit, LifecycleTypeOK
<1>2. Serving = {} /\ Holding = {}
  BY DEF LifecycleInit, Serving, Holding
<1>3. AdmissionExact
  BY <1>2, FS_EmptySet, LifecycleAssumption DEF LifecycleInit, AdmissionExact
<1>4. InHand /\ CleanIsLate /\ CleanDrainIsFinal
  BY DEF LifecycleInit, InHand, CleanIsLate, CleanDrainIsFinal
<1> QED BY <1>1, <1>3, <1>4 DEF LifecycleInd

\* A step that moves no connection, leaves both counters alone, and neither
\* begins nor ends the admission of one keeps the invariant.
LEMMA QuietStep ==
    ASSUME LifecycleInd, LifecycleTypeOK', UNCHANGED <<active, permits, clean, conn>>,
           \/ UNCHANGED <<main, current>>
           \/ main' = "exited"
           \/ /\ main \in {"starting", "verified", "accepting"}
              /\ main' \in {"verified", "accepting", "draining"}
              /\ current' = current
    PROVE  LifecycleInd'
<1>1. Serving' = Serving /\ Holding' = Holding
  BY DEF Serving, Holding
<1>2. AdmissionExact'
  BY <1>1 DEF LifecycleInd, AdmissionExact, Running
<1>3. InHand' /\ CleanIsLate' /\ CleanDrainIsFinal'
  BY <1>1 DEF LifecycleInd, InHand, CleanIsLate, CleanDrainIsFinal
<1> QED BY <1>2, <1>3 DEF LifecycleInd

\* Startup and shutdown touch neither connections nor counters.
LEMMA MainQuiet ==
    ASSUME LifecycleInd, VerifyUpstream \/ StartupFails \/ MarkReady \/ StopAccepting \/ MarkStopped
                   \/ Quit
    PROVE  LifecycleInd'
<1> USE DEF probeVars
<1>1. CASE VerifyUpstream
  <2>1. LifecycleTypeOK'
    BY <1>1 DEF LifecycleInd, LifecycleTypeOK, VerifyUpstream
  <2> QED BY <1>1, <2>1, QuietStep DEF VerifyUpstream
<1>2. CASE StartupFails
  <2>1. LifecycleTypeOK'
    BY <1>2 DEF LifecycleInd, LifecycleTypeOK, StartupFails
  <2> QED BY <1>2, <2>1, QuietStep DEF StartupFails
<1>3. CASE MarkReady
  <2>1. LifecycleTypeOK'
    BY <1>3 DEF LifecycleInd, LifecycleTypeOK, MarkReady
  <2> QED BY <1>3, <2>1, QuietStep DEF MarkReady
<1>4. CASE StopAccepting
  <2>1. LifecycleTypeOK'
    BY <1>4 DEF LifecycleInd, LifecycleTypeOK, StopAccepting
  <2> QED BY <1>4, <2>1, QuietStep DEF StopAccepting
<1>5. CASE MarkStopped
  <2>1. LifecycleTypeOK'
    BY <1>5 DEF LifecycleInd, LifecycleTypeOK, MarkStopped
  <2> QED BY <1>5, <2>1, QuietStep DEF MarkStopped
<1>6. CASE Quit
  <2>1. LifecycleTypeOK'
    BY <1>6 DEF LifecycleInd, LifecycleTypeOK, Quit
  <2> QED BY <1>6, <2>1, QuietStep DEF Quit
<1> QED BY <1>1, <1>2, <1>3, <1>4, <1>5, <1>6

\* Neither do the signal handlers and the health checker.
LEMMA OthersQuiet ==
    ASSUME LifecycleInd,
           \/ StopChecker \/ \E b \in BOOLEAN : CheckUpstream(b)
           \/ \E h \in Signals : BeginShutdown(h) \/ CancelToken(h)
    PROVE  LifecycleInd'
<1> USE DEF probeVars
<1>1. CASE StopChecker
  <2>1. LifecycleTypeOK'
    BY <1>1 DEF LifecycleInd, LifecycleTypeOK, StopChecker
  <2> QED BY <1>1, <2>1, QuietStep DEF StopChecker
<1>2. ASSUME NEW b \in BOOLEAN, CheckUpstream(b)
      PROVE  LifecycleInd'
  <2>1. LifecycleTypeOK'
    BY <1>2 DEF LifecycleInd, LifecycleTypeOK, CheckUpstream
  <2> QED BY <1>2, <2>1, QuietStep DEF CheckUpstream
<1>3. ASSUME NEW h \in Signals, BeginShutdown(h)
      PROVE  LifecycleInd'
  <2>1. LifecycleTypeOK'
    BY <1>3 DEF LifecycleInd, LifecycleTypeOK, BeginShutdown
  <2> QED BY <1>3, <2>1, QuietStep DEF BeginShutdown
<1>4. ASSUME NEW h \in Signals, CancelToken(h)
      PROVE  LifecycleInd'
  <2>1. LifecycleTypeOK'
    BY <1>4 DEF LifecycleInd, LifecycleTypeOK, CancelToken
  <2> QED BY <1>4, <2>1, QuietStep DEF CancelToken
<1> QED BY <1>1, <1>2, <1>3, <1>4

\* A connection is taken from the backlog and counted: the counter runs one
\* ahead of the connections served until the loop has disposed of it.
LEMMA AcceptStep ==
    ASSUME LifecycleInd, (\E c \in Conns : Accept(c)) \/ TrackCheck \/ TrackCount
    PROVE  LifecycleInd'
<1> USE DEF probeVars
<1>1. ASSUME NEW c \in Conns, Accept(c)
      PROVE  LifecycleInd'
  <2>1. LifecycleTypeOK'
    BY <1>1 DEF LifecycleInd, LifecycleTypeOK, Accept
  <2>2. Serving' = Serving /\ Holding' = Holding
    BY <1>1 DEF Accept, Serving, Holding
  <2>3. AdmissionExact' /\ InHand' /\ CleanIsLate' /\ CleanDrainIsFinal'
    BY <1>1, <2>2 DEF LifecycleInd, Accept, AdmissionExact, Running, InHand, CleanIsLate, CleanDrainIsFinal
  <2> QED BY <2>1, <2>3 DEF LifecycleInd
<1>2. CASE TrackCheck
  <2>1. current \in Conns /\ conn[current] = "backlog"
    BY <1>2 DEF LifecycleInd, InHand, TrackCheck
  <2>2. LifecycleTypeOK'
    BY <1>2, <2>1 DEF LifecycleInd, LifecycleTypeOK, TrackCheck, Turn
  <2>3. Serving' = Serving /\ Holding' = Holding
    <3>1. CASE IsShuttingDown
      BY <1>2, <2>1, <3>1, CountsKept DEF LifecycleInd, TrackCheck, Turn
    <3>2. CASE ~IsShuttingDown
      BY <1>2, <3>2 DEF TrackCheck, Serving, Holding
    <3> QED BY <3>1, <3>2
  <2>4. AdmissionExact' /\ InHand' /\ CleanIsLate' /\ CleanDrainIsFinal'
    BY <1>2, <2>3 DEF LifecycleInd, TrackCheck, Turn, AdmissionExact, Running, InHand, CleanIsLate,
                      CleanDrainIsFinal
  <2> QED BY <2>2, <2>4 DEF LifecycleInd
<1>3. CASE TrackCount
  <2>1. LifecycleTypeOK'
    BY <1>3 DEF LifecycleInd, LifecycleTypeOK, TrackCount
  <2>2. Serving' = Serving /\ Holding' = Holding
    BY <1>3 DEF TrackCount, Serving, Holding
  <2>3. AdmissionExact' /\ InHand' /\ CleanIsLate' /\ CleanDrainIsFinal'
    BY <1>3, <2>2, HeldFinite DEF LifecycleInd, TrackCount, AdmissionExact, Running, InHand, CleanIsLate,
                                  CleanDrainIsFinal
  <2> QED BY <2>1, <2>3 DEF LifecycleInd
<1> QED BY <1>1, <1>2, <1>3

\* Every refusal of a counted connection gives its count back.
LEMMA RefuseStep ==
    ASSUME LifecycleInd, RateLimited \/ StreamsExhausted
    PROVE  LifecycleInd'
<1>1. main = "admitting" /\ Refuse
  BY DEF RateLimited, StreamsExhausted
<1>2. current \in Conns /\ conn[current] = "backlog"
  BY <1>1 DEF LifecycleInd, InHand
<1>3. active = Cardinality(Serving) + 1
  BY <1>1 DEF LifecycleInd, AdmissionExact, Running
<1>4. Serving' = Serving /\ Holding' = Holding
  BY <1>1, <1>2, CountsKept DEF LifecycleInd, Refuse, Turn
<1>5. LifecycleTypeOK'
  BY <1>1, <1>2, <1>3, HeldFinite DEF LifecycleInd, LifecycleTypeOK, Refuse, Turn, probeVars
<1>6. AdmissionExact' /\ InHand' /\ CleanIsLate' /\ CleanDrainIsFinal'
  BY <1>1, <1>3, <1>4, HeldFinite DEF LifecycleInd, Refuse, Turn, AdmissionExact, Running, InHand,
                                      CleanIsLate, CleanDrainIsFinal
<1> QED BY <1>5, <1>6 DEF LifecycleInd

\* Spawning passes the count on to the connection's task and takes a permit.
LEMMA SpawnStep ==
    ASSUME LifecycleInd, Spawn
    PROVE  LifecycleInd'
<1>1. current \in Conns /\ conn[current] = "backlog"
  BY DEF LifecycleInd, InHand, Spawn
<1>2. LifecycleTypeOK'
  BY <1>1, LifecycleAssumption DEF LifecycleInd, LifecycleTypeOK, Spawn, NoPermit, Turn, probeVars
<1>3. Serving' = Serving \cup {current} /\ Holding' = Holding \cup {current}
  BY <1>1 DEF LifecycleInd, LifecycleTypeOK, Spawn, Turn, Serving, Holding
<1>4. current \notin Serving /\ current \notin Holding
  BY <1>1 DEF Serving, Holding
<1>5. /\ Cardinality(Serving') = Cardinality(Serving) + 1
      /\ Cardinality(Holding') = Cardinality(Holding) + 1
  BY <1>3, <1>4, HeldFinite, CardStep
<1>6. AdmissionExact'
  BY <1>5, HeldFinite, LifecycleAssumption DEF LifecycleInd, LifecycleTypeOK, Spawn, Turn, AdmissionExact, Running
<1>7. InHand' /\ CleanIsLate' /\ CleanDrainIsFinal'
  BY DEF LifecycleInd, Spawn, Turn, InHand, CleanIsLate, CleanDrainIsFinal
<1> QED BY <1>2, <1>6, <1>7 DEF LifecycleInd

\* A drain is reported clean only when the counter, and so the set of the
\* connections served, is empty.
LEMMA DrainStep ==
    ASSUME LifecycleInd, Drain
    PROVE  LifecycleInd'
<1>1. LifecycleTypeOK'
  BY DEF LifecycleInd, LifecycleTypeOK, Drain, Drained, probeVars
<1>2. Serving' = Serving /\ Holding' = Holding
  BY DEF Drain, Serving, Holding
<1>3. AdmissionExact' /\ InHand' /\ CleanIsLate'
  BY <1>2 DEF LifecycleInd, Drain, AdmissionExact, Running, InHand, CleanIsLate
<1>4. ASSUME Drained PROVE Serving = {}
  <2>1. Cardinality(Serving) = 0
    BY <1>4, HeldFinite DEF LifecycleInd, Drain, Drained, AdmissionExact, Running
  <2> QED BY <2>1, HeldFinite, FS_EmptySet
<1>5. CleanDrainIsFinal'
  BY <1>2, <1>4 DEF Drain, CleanDrainIsFinal
<1> QED BY <1>1, <1>3, <1>5 DEF LifecycleInd

\* A connection arrives, gives its count back and then its permit.
LEMMA ConnStep ==
    ASSUME LifecycleInd, NEW c \in Conns, Arrive(c) \/ DropGuard(c) \/ DropPermit(c)
    PROVE  LifecycleInd'
<1> USE DEF probeVars
<1>1. CASE Arrive(c)
  <2>1. LifecycleTypeOK'
    BY <1>1 DEF LifecycleInd, LifecycleTypeOK, Arrive
  <2>2. Serving' = Serving /\ Holding' = Holding
    BY <1>1, CountsKept DEF LifecycleInd, Arrive
  <2>3. AdmissionExact' /\ InHand' /\ CleanIsLate' /\ CleanDrainIsFinal'
    BY <1>1, <2>2 DEF LifecycleInd, LifecycleTypeOK, Arrive, AdmissionExact, Running, InHand, CleanIsLate,
                      CleanDrainIsFinal
  <2> QED BY <2>1, <2>3 DEF LifecycleInd
<1>2. CASE DropGuard(c)
  <2>1. c \in Serving /\ Serving' = Serving \ {c} /\ Holding' = Holding
    BY <1>2 DEF LifecycleInd, LifecycleTypeOK, DropGuard, Serving, Holding
  <2>2. Cardinality(Serving') = Cardinality(Serving) - 1 /\ Cardinality(Serving) >= 1
    BY <2>1, HeldFinite, CardStep
  <2>3. LifecycleTypeOK'
    BY <1>2, <2>2, HeldFinite DEF LifecycleInd, LifecycleTypeOK, DropGuard, AdmissionExact
  <2>4. AdmissionExact'
    BY <1>2, <2>1, <2>2, HeldFinite DEF LifecycleInd, DropGuard, AdmissionExact, Running
  <2>5. InHand' /\ CleanIsLate' /\ CleanDrainIsFinal'
    BY <1>2, <2>1 DEF LifecycleInd, LifecycleTypeOK, DropGuard, InHand, CleanIsLate, CleanDrainIsFinal
  <2> QED BY <2>3, <2>4, <2>5 DEF LifecycleInd
<1>3. CASE DropPermit(c)
  <2>1. Serving' = Serving /\ c \in Holding /\ Holding' = Holding \ {c}
    BY <1>3 DEF LifecycleInd, LifecycleTypeOK, DropPermit, Serving, Holding
  <2>2. Cardinality(Holding') = Cardinality(Holding) - 1 /\ Cardinality(Holding) >= 1
    BY <2>1, HeldFinite, CardStep
  <2>3. LifecycleTypeOK'
    BY <1>3, <2>2, HeldFinite, LifecycleAssumption DEF LifecycleInd, LifecycleTypeOK, DropPermit, AdmissionExact
  <2>4. AdmissionExact'
    BY <1>3, <2>1, <2>2, HeldFinite, LifecycleAssumption
    DEF LifecycleInd, DropPermit, AdmissionExact, Running
  <2>5. InHand' /\ CleanIsLate' /\ CleanDrainIsFinal'
    BY <1>3, <2>1 DEF LifecycleInd, LifecycleTypeOK, DropPermit, InHand, CleanIsLate, CleanDrainIsFinal
  <2> QED BY <2>3, <2>4, <2>5 DEF LifecycleInd
<1> QED BY <1>1, <1>2, <1>3

-----------------------------------------------------------------------------
(* Theorems *)

\* The invariant is inductive: every step of the main task, of a connection,
\* of a signal handler and of the health checker keeps it.
THEOREM LifecycleInductive == LifecycleSpec => []LifecycleInd
<1>1. LifecycleInd /\ [LifecycleNext]_lifecycleVars => LifecycleInd'
  <2> SUFFICES ASSUME LifecycleInd, [LifecycleNext]_lifecycleVars PROVE LifecycleInd'
    OBVIOUS
  <2>1. CASE UNCHANGED lifecycleVars
    BY <2>1 DEF lifecycleVars, probeVars, LifecycleInd, LifecycleTypeOK, InHand, CleanIsLate, AdmissionExact,
                CleanDrainIsFinal, Running, Serving, Holding
  <2>2. CASE MainStep
    BY <2>2, MainQuiet, AcceptStep, RefuseStep, SpawnStep, DrainStep DEF MainStep
  <2> QED BY <2>1, <2>2, MainQuiet, OthersQuiet, ConnStep DEF LifecycleNext
<1> QED BY <1>1, LifecycleInitInd, PTL DEF LifecycleSpec

\* Type correctness: active_requests never wraps below zero and the semaphore
\* never holds more permits than THOUGHTGATE_MAX_CONCURRENT_STREAMS.
THEOREM LifecycleTypeCorrect == LifecycleSpec => []LifecycleTypeOK
<1>1. LifecycleInd => LifecycleTypeOK
  BY DEF LifecycleInd
<1> QED BY <1>1, LifecycleInductive, PTL

\* active_requests counts exactly the connections served and the one being
\* admitted, and every permit is free or held by an open connection, whichever
\* way connections are refused, served and ended.
THEOREM AdmissionIsExact == LifecycleSpec => []AdmissionExact
<1>1. LifecycleInd => AdmissionExact
  BY DEF LifecycleInd
<1> QED BY <1>1, LifecycleInductive, PTL

\* When drain_requests reports Complete no connection is being served, and
\* none is until the process exits, although signals, clients and the accept
\* loop interleave freely with the drain.
THEOREM CleanDrainStaysFinal == LifecycleSpec => []CleanDrainIsFinal
<1>1. LifecycleInd => CleanDrainIsFinal
  BY DEF LifecycleInd
<1> QED BY <1>1, LifecycleInductive, PTL
=============================================================================
