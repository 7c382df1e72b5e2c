---------------------------- MODULE PolicyEngine ----------------------------
(***************************************************************************)
(* CedarEngine (policy/engine.rs) over the tiers it loads from             *)
(* (policy/loader.rs): the policies in force, reloads of them, and the     *)
(* evaluations that run meanwhile.                                         *)
(*                                                                         *)
(* The text of a policy file is a set of policies (none when it only has   *)
(* comments), Blank when it has no characters, or Broken when it does not  *)
(* parse or does not fit the schema, as while it is being written.  A file *)
(* that is there may be Unreadable, or Hidden when not even its metadata   *)
(* can be had, as in a directory without search permission.  A policy has  *)
(* an effect, the resources it is about, perhaps a limit that one argument *)
(* of the call must exceed, and perhaps an approval workflow.              *)
(*                                                                         *)
(* Arguments are JSON values; Cedar sees what json_to_cedar_expr makes of  *)
(* them.  A number is an int when it fits i64, big when it only fits u64,  *)
(* else a float: the integer it rounds to, and how far it is from that.    *)
(***************************************************************************)
EXTENDS Integers, Sequences, FiniteSets, SequencesExt

CONSTANTS None,
          Broken,          \* a text that does not parse
          Blank,           \* the text of no characters
          Unreadable,      \* a file that exists and cannot be read
          Hidden,          \* a file that exists and cannot be seen: stat fails
          Embedded,        \* the policies compiled into the program
          Texts,           \* the other policy texts that occur
          Reloaders,       \* callers of reload
          Evaluators,      \* callers of evaluate_v2 and evaluate
          Requests,        \* requests they make
          JsonValues,      \* JSON values: their arguments, and all that is in them
          MaxJsonDepth,    \* MAX_JSON_DEPTH (64 in the source)
          MaxLong,         \* i64::MAX
          MaxChanges,      \* bound: changes of the policy file
          MaxCalls         \* bound: reloads and evaluations begun

ASSUME PolicyAssumption ==
    /\ MaxJsonDepth \in Nat /\ MaxLong \in Nat /\ MaxChanges \in Nat /\ MaxCalls \in Nat
    /\ IsFiniteSet(Evaluators) /\ Embedded \notin {None, Broken, Blank, Unreadable, Hidden}

Scalars == {"null", "bool", "int", "big", "float", "string"}
Parts(v) == IF v.kind \in Scalars THEN {} ELSE {v.value[k] : k \in DOMAIN v.value}

\* i64::MAX is no double; a distance that f64::EPSILON does not notice is tiny.
ASSUME JsonAssumption ==
    /\ \A v \in JsonValues :
          /\ v.kind \in Scalars \cup {"array", "object"}
          /\ v.kind = "int" => v.value \in -MaxLong - 1 .. MaxLong
          /\ v.kind = "big" => v.value \in Int /\ v.value > MaxLong
          /\ v.kind = "float" => /\ v.value \in Int \ {MaxLong}
                                 /\ v.rest \in {"none", "tiny", "fraction"}
          /\ Parts(v) \subseteq JsonValues
    /\ \A req \in Requests : req.arguments \in JsonValues

VARIABLES policyFile,      \* the ConfigMap file: None, Unreadable, Hidden or its text
          policyEnv,       \* THOUGHTGATE_POLICIES: None or a text
          yaml,            \* the files of cedar.policies[]
          engine,          \* the snapshot, once the engine exists (a set of at most one)
          load,            \* what each loader is doing
          held,            \* the texts each source has held (history)
          eval,            \* the evaluation each evaluator is at, if any
          decided,         \* the last decision made (history)
          stats,           \* StatsV2: evaluations, permits, forbids
          changes, calls

policyVars == <<policyFile, policyEnv, yaml, engine, load, held, eval, decided, stats, changes, calls>>

Loaders == Reloaders \cup {"boot"}
Idle == [step |-> "idle", text |-> None, source |-> None, found |-> FALSE, retried |-> FALSE]

\* Path::exists: no file, and a file whose metadata cannot be had, look the same.
Exists(file) == file \notin {None, Hidden}
NoText == {None, Unreadable, Hidden}

\* The policies of a text that parses.
PoliciesOf(text) == IF text = Blank THEN {} ELSE text

\* The files cedar.policies[] names, read one after the other: what they hold
\* together, or Unreadable when one of them cannot be read.
ReadAll(files) ==
    IF \E k \in DOMAIN files : files[k] \in NoText THEN Unreadable
    ELSE IF Broken \in Range(files) THEN Broken
    ELSE IF Range(files) \subseteq {Blank} THEN Blank
    ELSE UNION {PoliciesOf(t) : t \in Range(files)}

\* In a settled world nobody touches the files and nobody asks.
PolicyInit(file, env, files, settled) ==
    /\ policyFile = file /\ policyEnv = env /\ yaml = files
    /\ engine = {}
    /\ load = [w \in Loaders |-> Idle]
    /\ held = [file |-> {file}, env |-> {env}, embedded |-> {Embedded}, yaml |-> {ReadAll(files)}]
    /\ eval = [e \in Evaluators |-> {}] /\ decided = {}
    /\ stats = [evaluations |-> 0, permits |-> 0, forbids |-> 0]
    /\ changes = (IF settled THEN MaxChanges ELSE 0) /\ calls = (IF settled THEN MaxCalls ELSE 0)

----------------------------------------------------------------------------
(* Arguments: json_to_cedar_expr.                                          *)

Long(n) == [type |-> "long", value |-> n]
Err == [type |-> "error"]

\* The casts f.round() as i64, which saturates, and rounded as f64: the double
\* next to i64::MAX is the one above it.
Saturate(n) == IF n > MaxLong THEN MaxLong ELSE IF n < -MaxLong - 1 THEN -MaxLong - 1 ELSE n
AsFloat(n) == IF n = MaxLong THEN MaxLong + 1 ELSE n

\* A JSON number that is no i64: one that only fits u64 becomes its decimal
\* string; a float must be as good as the integer it was cast to.
RoundsFractions(v) ==
    IF v.kind = "big" THEN [type |-> "string", value |-> v.value]
    ELSE Long(Saturate(v.value))
NumberToCedar(v) ==
    CASE v.kind = "int"   -> Long(v.value)
      [] v.kind = "big"   -> [type |-> "string", value |-> v.value]
      [] v.kind = "float" ->
           LET rounded == Saturate(v.value) IN
           IF v.rest = "fraction" \/ AsFloat(rounded) # v.value THEN Err ELSE Long(rounded)

\* By the levels that are left: MAX_JSON_DEPTH + 1 - depth.
JsonToCedarExprDepth[left \in 0 .. MaxJsonDepth + 1] ==
    [v \in JsonValues |->
        IF left = 0 THEN Err
        ELSE LET Expr(w) == JsonToCedarExprDepth[left - 1][w] IN
             CASE v.kind = "null" -> [type |-> "record", value |-> <<>>]
               [] v.kind \in {"int", "big", "float"} -> NumberToCedar(v)
               [] v.kind \in {"string", "bool"} -> [type |-> v.kind, value |-> v.value]
               [] v.kind = "array" ->
                    LET items == {Expr(v.value[k]) : k \in DOMAIN v.value} IN
                    IF Err \in items THEN Err ELSE [type |-> "set", value |-> items]
               [] v.kind = "object" ->
                    LET fields == [k \in DOMAIN v.value |-> Expr(v.value[k])] IN
                    IF Err \in Range(fields) THEN Err ELSE [type |-> "record", value |-> fields]]

JsonToCedarExpr(v) == JsonToCedarExprDepth[MaxJsonDepth + 1][v]

----------------------------------------------------------------------------
(* Decisions.                                                              *)

\* evaluate_v2 names the action after the kind of resource.
ActionName(req) == IF req.method = "tools/call" THEN "tools/call" ELSE "mcp/method"

\* build_cedar_request_v2 and build_context_v2: who asks for what, and the
\* policy_id of the rule that led here.  The resource of a call is the tool, that
\* of any other request its method.
ResourceOf(req) ==
    IF req.method = "tools/call" THEN <<"ToolCall", req.name>> ELSE <<"McpMethod", req.method>>
BuildContext(req) == req.policyId
BuildCedarRequest(req, action, context) ==
    [resource |-> ResourceOf(req), action |-> action, policyId |-> context]

\* build_entities_v2: the caller's roles, and the arguments as an attribute of
\* a tool call's entity; Err when the arguments have no Cedar form.
BuildEntities(req) ==
    LET args == IF req.method = "tools/call" THEN JsonToCedarExpr(req.arguments)
                ELSE [type |-> "record", value |-> <<>>] IN
    IF args = Err THEN Err ELSE [type |-> "entities", roles |-> req.roles, args |-> args]

\* No entity store (version 0.1): no roles, and a condition on arguments errs.
NoEntities == [type |-> "entities", roles |-> {}, args |-> Err]

\* Cedar: a policy applies when its scope and its condition hold; one whose
\* condition cannot be evaluated does not apply.
LimitExceeded(limit, args) ==
    /\ args.type = "record" /\ limit.key \in DOMAIN args.value
    /\ args.value[limit.key].type = "long" /\ args.value[limit.key].value > limit.above
Applies(p, query, entities) ==
    /\ query.resource \in p.resources /\ query.action \in p.actions
    /\ p.role # None => p.role \in entities.roles
    /\ p.policyId # None => p.policyId = query.policyId
    /\ p.limit # None => LimitExceeded(p.limit, entities.args)

\* Authorizer::is_authorized, with the policies that determine the answer.
Determining(policies, query, entities, effect) ==
    {p \in policies : p.effect = effect /\ Applies(p, query, entities)}
IsAuthorized(policies, query, entities) ==
    /\ Determining(policies, query, entities, "permit") # {}
    /\ Determining(policies, query, entities, "forbid") = {}

\* CedarDecision: the outcome and the ids of the policies behind it.
CedarDecision(policies, query, entities, outcome) ==
    [outcome |-> outcome, ids |-> {p.id : p \in Determining(policies, query, entities, outcome)}]
DefaultForbid == [outcome |-> "forbid", ids |-> {}]

\* evaluate_v2
EvaluateV2(policies, req) ==
    LET query == BuildCedarRequest(req, ActionName(req), BuildContext(req))
        entities == BuildEntities(req) IN
    IF entities = Err THEN DefaultForbid
    ELSE CedarDecision(policies, query, entities,
                       IF IsAuthorized(policies, query, entities) THEN "permit" ELSE "forbid")

\* is_action_permitted of version 0.1, whose context has no policy_id.
IsActionPermitted(policies, req, action) ==
    IsAuthorized(policies, BuildCedarRequest(req, action, None), NoEntities)

\* evaluate, the API of version 0.1.
EvaluateV1(policies, req) ==
    [outcome |-> IF IsActionPermitted(policies, req, "Forward") THEN "forward"
                 ELSE IF IsActionPermitted(policies, req, "Approve") THEN "approve" ELSE "reject",
     ids |-> {}]

\* parse_annotations
ParseAnnotations(policies) == {<<p.id, p.workflow>> : p \in {q \in policies : q.workflow # None}}

----------------------------------------------------------------------------
(* load_policies_with_config and parse_policies, by whoever loads.         *)

LoadRest == UNCHANGED <<policyFile, policyEnv, yaml, held, eval, decided, stats, changes, calls>>
Put(w, r) == load' = [load EXCEPT ![w] = r]

\* The tiers under the file.  reload passes no configuration, so it never looks
\* at the files of cedar.policies[]; files without a character count as none,
\* files that only have comments do not.
Tier(text, source) == [text |-> text, source |-> source]
YamlTier(w) == w = "boot" /\ ReadAll(yaml) # Blank
LowerTier(w) ==
    IF policyEnv # None THEN Tier(policyEnv, "env")
    ELSE IF YamlTier(w) THEN Tier(ReadAll(yaml), "yaml")
    ELSE Tier(Embedded, "embedded")

\* The tiers under the file when it is not there, or cannot be seen.
CheckFile(w) ==
    /\ load[w].step = "check"
    /\ \/ /\ Exists(policyFile)
          /\ Put(w, [load[w] EXCEPT !.step = "open", !.found = TRUE])
       \/ /\ ~Exists(policyFile)
          /\ LET t == LowerTier(w) IN
             Put(w, [load[w] EXCEPT !.step = IF t.text = Unreadable THEN "failed" ELSE "parse",
                                    !.text = t.text, !.source = t.source])
    /\ LoadRest /\ UNCHANGED engine

\* read_to_string: a file that cannot be read, or has gone since, is an error.
ReadFallsThrough(w) == [load[w] EXCEPT !.step = "parse", !.text = LowerTier(w).text,
                                       !.source = LowerTier(w).source]
ReadFails(w) == [load[w] EXCEPT !.step = "failed"]

ReadFile(w) ==
    /\ load[w].step = "open"
    /\ \/ policyFile \in NoText /\ Put(w, ReadFails(w))
       \/ /\ policyFile \notin NoText
          /\ Put(w, [load[w] EXCEPT !.step = "parse", !.text = policyFile, !.source = "file"])
    /\ LoadRest /\ UNCHANGED engine

\* parse_policies and parse_annotations; reload tries a text that does not
\* parse once more from the start.
Parses(w) == load[w].text # Broken

ParsePolicies(w) ==
    /\ load[w].step = "parse"
    /\ \/ Parses(w) /\ Put(w, [load[w] EXCEPT !.step = "apply"])
       \/ /\ ~Parses(w) /\ w \in Reloaders /\ ~load[w].retried
          /\ Put(w, [load[w] EXCEPT !.step = "check", !.retried = TRUE, !.found = FALSE])
       \/ ~Parses(w) /\ (w = "boot" \/ load[w].retried) /\ Put(w, [load[w] EXCEPT !.step = "failed"])
    /\ LoadRest /\ UNCHANGED engine

\* The snapshot is one pointer: policies, annotations and source change together.
ApplyReload(w) ==
    /\ load[w].step = "apply"
    /\ LET policies == PoliciesOf(load[w].text) IN
       engine' = {[policies |-> policies, source |-> load[w].source,
                   annotations |-> ParseAnnotations(policies)]}
    /\ Put(w, [load[w] EXCEPT !.step = "done"])
    /\ LoadRest

\* A reload begins.
Reload(w) ==
    /\ engine # {} /\ load[w].step \in {"idle", "done", "failed"} /\ calls < MaxCalls
    /\ Put(w, [Idle EXCEPT !.step = "check"]) /\ calls' = calls + 1
    /\ UNCHANGED <<policyFile, policyEnv, yaml, engine, held, eval, decided, stats, changes>>

----------------------------------------------------------------------------
(* Evaluations, and the writer of the policy file.                         *)

\* An evaluation counts itself and keeps the snapshot it loaded.
LoadSnapshot(e, req) ==
    /\ eval[e] = {} /\ calls < MaxCalls
    /\ \E snap \in engine : eval' = [eval EXCEPT ![e] = {[req |-> req, snap |-> snap]}]
    /\ calls' = calls + 1
    /\ stats' = IF req.api = "v2" THEN [stats EXCEPT !.evaluations = @ + 1] ELSE stats
    /\ UNCHANGED <<policyFile, policyEnv, yaml, engine, load, held, decided, changes>>

CountDecision(outcome) ==
    IF outcome = "permit" THEN [stats EXCEPT !.permits = @ + 1]
    ELSE [stats EXCEPT !.forbids = @ + 1]

Decided(x, decision) == {[req |-> x.req, policies |-> x.snap.policies, decision |-> decision]}
DecideV2(e) ==
    /\ \E x \in eval[e] :
          /\ x.req.api = "v2"
          /\ LET d == EvaluateV2(x.snap.policies, x.req) IN
             decided' = Decided(x, d) /\ stats' = CountDecision(d.outcome)
    /\ eval' = [eval EXCEPT ![e] = {}]
    /\ UNCHANGED <<policyFile, policyEnv, yaml, engine, load, held, changes, calls>>

DecideV1(e) ==
    /\ \E x \in eval[e] :
          x.req.api = "v1" /\ decided' = Decided(x, EvaluateV1(x.snap.policies, x.req))
    /\ eval' = [eval EXCEPT ![e] = {}]
    /\ UNCHANGED <<policyFile, policyEnv, yaml, engine, load, held, stats, changes, calls>>

\* The file is replaced, removed, truncated, caught half written, or made
\* unreadable, itself or its directory.
FileChanges(t) ==
    /\ changes < MaxChanges /\ t # policyFile
    /\ policyFile' = t /\ changes' = changes + 1
    /\ held' = [held EXCEPT !.file = @ \cup {t}]
    /\ UNCHANGED <<policyEnv, yaml, engine, load, eval, decided, stats, calls>>

LoadStep(w) == CheckFile(w) \/ ReadFile(w) \/ ParsePolicies(w) \/ ApplyReload(w)

PolicyNext ==
    \/ \E w \in Reloaders : LoadStep(w) \/ Reload(w)
    \/ \E e \in Evaluators : DecideV2(e) \/ DecideV1(e) \/ \E req \in Requests : LoadSnapshot(e, req)
    \/ \E t \in Texts \cup {None, Broken, Blank, Unreadable, Hidden} : FileChanges(t)

----------------------------------------------------------------------------
(* Properties.                                                             *)

\* The policies in force are a whole text that their source has held and that
\* parsed, whatever the writer did to the file between the loader's steps; the
\* annotations are those of the same text.
InForceWasWritten ==
    \A snap \in engine :
        /\ \E t \in held[snap.source] \ ({Broken} \cup NoText) : snap.policies = PoliciesOf(t)
        /\ snap.annotations = ParseAnnotations(snap.policies)

\* A loader that has seen the ConfigMap file ends with its text or with an error,
\* also when the file becomes unreadable or disappears under it: it never falls
\* through to the permit-all policies of the program.
NoFallThrough ==
    \A w \in Loaders :
        load[w].found /\ load[w].step \in {"parse", "apply", "done"} => load[w].source = "file"

\* The policies in force are those of the source that had to give them.
PoliciesGenuine == InForceWasWritten /\ NoFallThrough

\* policy/loader.rs:71-73 says of the ConfigMap file that "A transient permissions
\* error must NOT silently fall through to embedded permit-all policies".  When
\* the error is of the directory it does: Path::exists is false.
PermissionErrorsFailClosed ==
    [][\A w \in Loaders :
          CheckFile(w) /\ policyFile \in {Unreadable, Hidden} => load'[w].source # "embedded"]_policyVars

\* What is n levels inside a value; whether Cedar can have it: it is nowhere
\* nested deeper than the limit, and no float in it has a fraction or is farther
\* out of the range of i64 than its nearest double.
Inside[n \in 0 .. MaxJsonDepth + 1] ==
    [v \in JsonValues |-> IF n = 0 THEN {v} ELSE UNION {Inside[n - 1][w] : w \in Parts(v)}]
NoLong(v) == v.kind = "float" /\ (v.rest = "fraction" \/ v.value \notin -MaxLong - 1 .. MaxLong + 1)
Representable(v) ==
    /\ Inside[MaxJsonDepth + 1][v] = {}
    /\ \A n \in 0 .. MaxJsonDepth : \A w \in Inside[n][v] : ~NoLong(w)

\* The number Cedar compares with a limit, if any, said of the JSON value: a
\* number that only fits u64 is a string to Cedar, and exceeds no limit.
Measured(v) ==
    IF v.kind = "int" THEN {v.value}
    ELSE IF v.kind = "float" THEN {IF v.value > MaxLong THEN MaxLong ELSE v.value}
    ELSE {}
Exceeds(v, limit) ==
    /\ v.kind = "object" /\ limit.key \in DOMAIN v.value
    /\ \E n \in Measured(v.value[limit.key]) : n > limit.above

\* A policy is about a request, whatever the arguments; and with them.
Scope(p, req) ==
    /\ ResourceOf(req) \in p.resources
    /\ (req.method = "tools/call" /\ "tools/call" \in p.actions) \/
       (req.method # "tools/call" /\ "mcp/method" \in p.actions)
    /\ p.role = None \/ p.role \in req.roles
    /\ p.policyId \in {None, req.policyId}
Concerns(p, req) ==
    /\ Scope(p, req)
    /\ p.limit = None \/ (req.method = "tools/call" /\ Exceeds(req.arguments, p.limit))

\* A decision of version 0.2, said without Cedar: permit exactly when the
\* arguments can be represented, some permit concerns the call and no forbid
\* does; the policies it names are those.  Arguments nested too deep and floats
\* that are no integer are refused, whole floats count as integers.
DecisionV2Sound(d) ==
    LET Behind(effect) == {p \in d.policies : p.effect = effect /\ Concerns(p, d.req)}
        representable == d.req.method = "tools/call" => Representable(d.req.arguments) IN
    /\ (d.decision.outcome = "permit") =
          (representable /\ Behind("permit") # {} /\ Behind("forbid") = {})
    /\ representable => d.decision.ids = {p.id : p \in Behind(d.decision.outcome)}

\* A decision of version 0.1: Forward, else Approve, when a policy permits it and
\* none forbids it; a policy that asks for a role, a policy_id or an argument
\* never has a say.
Unconditional(p) == p.role = None /\ p.policyId = None /\ p.limit = None
DecisionV1Sound(d) ==
    LET Behind(action, effect) ==
            {p \in d.policies : /\ p.effect = effect /\ Unconditional(p)
                                /\ ResourceOf(d.req) \in p.resources /\ action \in p.actions}
        Allows(action) == Behind(action, "permit") # {} /\ Behind(action, "forbid") = {} IN
    /\ (d.decision.outcome = "forward") = Allows("Forward")
    /\ (d.decision.outcome = "approve") = (~Allows("Forward") /\ Allows("Approve"))
    /\ d.decision.outcome \in {"forward", "approve", "reject"}

\* Every decision, by either interface, is the one that the policies in force when
\* the evaluation began give, whatever is reloaded meanwhile.
DecisionsSound ==
    \A d \in decided :
        /\ d.req.api = "v2" => DecisionV2Sound(d)
        /\ d.req.api = "v1" => DecisionV1Sound(d)

\* engine.rs:659-660 says that a number above i64::MAX is converted "to string for
\* safe policy comparison": no call is permitted whose argument is above the limit
\* of a forbid about it.  A condition that errs, as the comparison of a string
\* with a Long does, makes the forbid not apply.
LimitsBind ==
    \A d \in decided : d.req.api = "v2" /\ d.decision.outcome = "permit" =>
        \A p \in d.policies : p.effect = "forbid" /\ Scope(p, d.req) /\ p.limit # None =>
            LET args == d.req.arguments IN
            ~ /\ d.req.method = "tools/call" /\ args.kind = "object" /\ p.limit.key \in DOMAIN args.value
              /\ LET a == args.value[p.limit.key] IN
                 a.kind \in {"int", "big", "float"} /\ a.value > p.limit.above

\* Every evaluation of version 0.2 is counted once as a permit or a forbid when
\* it has ended, however it ended.
StatsExact ==
    stats.evaluations = stats.permits + stats.forbids +
        Cardinality({e \in Evaluators : \E x \in eval[e] : x.req.api = "v2"})

\* Evaluations decide as the policies say, and each is counted.
EvaluationsSound == DecisionsSound /\ StatsExact

=============================================================================
