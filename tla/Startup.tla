------------------------------ MODULE Startup ------------------------------
(***************************************************************************)
(* The start of the proxy (main of thoughtgate-proxy): every check it      *)
(* makes before it serves, in order, over an environment that is fixed and *)
(* files that somebody may be changing; then the policy engine it built,   *)
(* with its reloads and evaluations (PolicyEngine).                        *)
(*                                                                         *)
(* An environment variable that is a number is None when unset and Garbage *)
(* when it does not parse.  A configuration file is None, Unreadable,      *)
(* Hidden, Broken (empty, or no YAML of this schema), or a record: the     *)
(* variables it refers to, and the fields that validate and the gates look *)
(* at.  Glob patterns are the sets of names they match.                    *)
(***************************************************************************)
EXTENDS PolicyEngine

CONSTANTS Garbage,         \* a value that does not parse
          SourceId,        \* the source the proxy names
          Names,           \* tool names
          Worlds,          \* environments and files the process may start with
          ConfigTexts,     \* what a configuration file may be changed to
          MaxEdits         \* bound: changes of the configuration file

ASSUME StartupAssumption == MaxEdits \in Nat /\ "boot" \notin Reloaders

VARIABLES environ,         \* the environment and the command line
          files,           \* the configuration files by path
          boot,            \* what main is doing, and what it has built
          ready,           \* the listener is bound; the proxy serves
          edits            \* bound: changes made

startupVars == <<environ, files, boot, ready, edits>>
vars == <<policyVars, startupVars>>

G == INSTANCE Gates

Paths == {"given", "etc", "local"}
Unusable == {Unreadable, Broken, Hidden}

\* What the types of the code make sure of: numbers, the two profiles, rules in
\* order; None is no text, no path and no adapter.
ASSUME WorldsAssumption ==
    /\ None \notin Paths \cup {"mock"}
    /\ \A w \in Worlds :
          /\ \A f \in {"shutdown", "drain", "streams", "requests", "batch"} : w.environ[f] \in Nat \cup {None, Garbage}
          /\ w.environ.profile \in {"production", "development"}
          /\ w.settled \in BOOLEAN /\ w.edited \in BOOLEAN
          /\ w.policyEnv # Hidden /\ ReadAll(w.yaml) \notin {None, Hidden}
          /\ DOMAIN w.files = Paths
          /\ \A p \in Paths : w.files[p] \notin {None} \cup Unusable => G!WellTyped(w.files[p])
    /\ \A t \in ConfigTexts : t \notin {None} \cup Unusable => G!WellTyped(t)

Init ==
    \E w \in Worlds :
        /\ environ = w.environ /\ files = w.files
        /\ PolicyInit(w.policyFile, w.policyEnv, w.yaml, w.settled)
        /\ boot = [phase |-> "defaults", path |-> None, config |-> None, drain |-> None,
                   shutdown |-> None, adapter |-> None, limits |-> None, permits |-> None, existed |-> {}]
        /\ ready = FALSE /\ edits = (IF w.edited THEN 0 ELSE MaxEdits)

----------------------------------------------------------------------------
(* The environment.                                                        *)

ParseEnvWarn(v, default) == IF v \in {None, Garbage} THEN default ELSE v
ParseDurationEnv(v, default) == IF v \in {None, Garbage} THEN default ELSE v

\* ThoughtGateDefaults::from_env; seconds.
Defaults ==
    [shutdown |-> ParseEnvWarn(environ.shutdown, 30), drain |-> ParseEnvWarn(environ.drain, 25),
     poll |-> ParseEnvWarn(environ.poll, 5), pollMax |-> ParseEnvWarn(environ.pollMax, 30),
     ttl |-> ParseEnvWarn(environ.ttl, 600), ttlMax |-> ParseEnvWarn(environ.ttlMax, 86400)]

\* ThoughtGateDefaults::validate
DefaultsValid(d) == d.drain < d.shutdown /\ d.poll < d.pollMax /\ d.ttl <= d.ttlMax

OutboundPort == ParseEnvWarn(environ.outbound, 7467)
AdminPort == ParseEnvWarn(environ.admin, 7469)
PortsValid == OutboundPort # AdminPort

IsProduction == environ.environment \in {None, "production", "prod", ""}

\* validate_environment
EnvironmentValid == IsProduction => ~environ.devMode /\ environ.adapter # "mock"

\* main: --profile development is for environments that are not production.
ProfileValid == environ.profile = "development" => ~IsProduction

\* LifecycleConfig::from_env: the drain is shorter than the shutdown by a
\* second, and at least a second.
AdjustDrain(shutdown, drain) ==
    LET maxDrain == IF shutdown = 0 THEN 0 ELSE shutdown - 1
        AtLeastOne(n) == IF n < 1 THEN 1 ELSE n
        Least(a, b) == IF a < b THEN a ELSE b IN
    IF drain >= shutdown THEN AtLeastOne(Least((shutdown * 4) \div 5, maxDrain))
    ELSE IF drain > maxDrain THEN AtLeastOne(maxDrain)
    ELSE AtLeastOne(drain)

\* clamp_env_warn and clamp_warn: limits stay in their range.
Clamp(v, min, max) == IF v < min THEN min ELSE IF v > max THEN max ELSE v
MostRequests == 100000
MostBatched == 10000
StreamPermits == Clamp(ParseEnvWarn(environ.streams, 10000), 1, MostRequests)
HandlerLimits ==
    [requests |-> Clamp(ParseEnvWarn(environ.requests, 10000), 1, MostRequests),
     batch |-> Clamp(ParseEnvWarn(environ.batch, 100), 1, MostBatched)]

\* UpstreamConfig::from_env, which does not forgive a number that does not parse.
UpstreamConfigured == environ.upstream /\ environ.upstreamTimeout # Garbage

----------------------------------------------------------------------------
(* The configuration file.                                                 *)

\* find_config_file: the first default path that can be seen to exist.
DefaultConfigPaths == <<"etc", "local">>
FindConfigFile ==
    LET found == {k \in DOMAIN DefaultConfigPaths : Exists(files[DefaultConfigPaths[k]])} IN
    IF found = {} THEN None
    ELSE DefaultConfigPaths[CHOOSE k \in found : \A j \in found : k <= j]

\* substitute_env_vars: every variable without a default has to be set.
SubstituteEnvVars(cfg) == \A v \in cfg.refers : v.set \/ v.default

\* load_config: a file that is gone, cannot be read, is empty, or does not parse.
LoadConfig(path) ==
    /\ files[path] \notin {None} \cup Unusable
    /\ SubstituteEnvVars(files[path])

\* validate, V-001 to V-003, V-008, V-010 to V-012, V-016 and the schema version.
ValidateSources(cfg) ==
    /\ cfg.schema = 1
    /\ \E s \in DOMAIN cfg.sources : DOMAIN cfg.sources = {s}
    /\ cfg.idsValid /\ cfg.urlsValid

\* V-004 to V-007 and V-009.
ValidateRule(cfg, rule) ==
    /\ rule.action = "policy" => rule.policyId # None
    /\ rule.action = "approve" =>
          IF rule.approval # None THEN rule.approval \in DOMAIN cfg.workflows
          ELSE Cardinality(DOMAIN cfg.workflows) = 1
    /\ rule.match # Garbage
    /\ rule.source # None => rule.source \subseteq DOMAIN cfg.sources

\* V-014.
ValidateExpose(cfg) == \A s \in DOMAIN cfg.sources : cfg.sources[s].tools # Garbage

\* V-015; both timeouts may be absent.
ValidateWorkflow(w) == \A t \in {w.timeout, w.blocking} \ {None} : t >= 5

\* V-013: the files exist (they are read later).
ValidateCedar(cfg) == cfg.cedar => \A k \in DOMAIN yaml : Exists(yaml[k])

\* V-TEL-001 to V-TEL-008; the sample rate in percent.
ValidateTelemetry(t) ==
    t # None =>
        /\ t.rate \in 0 .. 100 /\ t.strategy \in {"head", "tail"}
        /\ t.endpointValid /\ t.protocol \in {"http/protobuf", "grpc"}
        /\ t.queue > 0 /\ t.delay >= 100 /\ t.exportTimeout >= 100
        /\ t.batch > 0 /\ t.batch <= t.queue

Validate(cfg) ==
    /\ ValidateSources(cfg)
    /\ \A k \in DOMAIN cfg.rules : ValidateRule(cfg, cfg.rules[k])
    /\ ValidateExpose(cfg) /\ ValidateCedar(cfg) /\ ValidateTelemetry(cfg.telemetry)
    /\ \A w \in DOMAIN cfg.workflows : ValidateWorkflow(cfg.workflows[w])

\* Config::compile_patterns, after validation: rules, then exposed tools.
CompilePatterns(cfg) ==
    /\ \A k \in DOMAIN cfg.rules : cfg.rules[k].match # Garbage
    /\ \A s \in DOMAIN cfg.sources : cfg.sources[s].tools # Garbage

\* load_and_validate
LoadAndValidateOk(path) == LoadConfig(path) /\ Validate(files[path]) /\ CompilePatterns(files[path])

\* TelemetryConfig::from_yaml_config: the endpoint of the environment, which
\* nobody validates, goes before the one of the file.
TelemetryConfig(cfg) ==
    LET t == IF cfg = None THEN None ELSE cfg.telemetry IN
    [enabled |-> t # None /\ t.enabled,
     endpointValid |-> IF environ.otlp # None THEN environ.otlp # Garbage
                       ELSE t = None \/ t.endpointValid]

\* load_schema_with_config: a schema file that is seen has to be read and parsed;
\* else the embedded schema is used.
LoadSchema == Exists(environ.schema) => environ.schema \notin Unusable

\* Config::requires_approval_engine
RequiresApprovalEngine(cfg) ==
    \/ cfg.default \in {"approve", "policy"}
    \/ \E k \in DOMAIN cfg.rules : cfg.rules[k].action \in {"approve", "policy"}

----------------------------------------------------------------------------
(* main, one check after the other.                                        *)

BootRest == UNCHANGED <<policyVars, environ, files, edits>>
At(phase) == boot.phase = phase
Go(next) == boot' = [boot EXCEPT !.phase = next]

\* A check that lets the process go on, or ends it.
Check(phase, ok, next) ==
    /\ At(phase)
    /\ (ok /\ Go(next)) \/ (~ok /\ Go("refused"))
    /\ BootRest /\ UNCHANGED ready

CheckDefaults == Check("defaults", DefaultsValid(Defaults), "ports")
CheckPorts == Check("ports", PortsValid, "environment")
CheckEnvironment == Check("environment", EnvironmentValid, "profile")
CheckProfile == Check("profile", ProfileValid, "lifecycle")

InitLifecycle ==
    /\ At("lifecycle")
    /\ LET s == ParseDurationEnv(environ.shutdown, 30) IN
       boot' = [boot EXCEPT !.phase = "bind", !.shutdown = s,
                            !.drain = AdjustDrain(s, ParseDurationEnv(environ.drain, 25))]
    /\ BootRest /\ UNCHANGED ready

\* TcpListener::bind
Bind == Check("bind", environ.portFree, "find")

\* A path from the command line or THOUGHTGATE_CONFIG is taken as it is; else
\* the default paths are searched, and without a file the proxy passes through.
FindConfig ==
    /\ At("find")
    /\ LET path == IF environ.given THEN "given" ELSE FindConfigFile
           there == {p \in Paths : Exists(files[p]) /\ (p = "given" <=> environ.given)} IN
       boot' = [boot EXCEPT !.path = path, !.existed = there,
                            !.phase = IF path = None THEN "telemetry" ELSE "load"]
    /\ BootRest /\ UNCHANGED ready

IgnoresBadConfig ==
    /\ At("load")
    /\ boot' = [boot EXCEPT !.phase = "telemetry",
                            !.config = IF LoadAndValidateOk(boot.path) THEN files[boot.path] ELSE None]
    /\ BootRest /\ UNCHANGED ready
LoadAndValidate ==
    /\ At("load")
    /\ \/ /\ LoadAndValidateOk(boot.path)
          /\ boot' = [boot EXCEPT !.phase = "telemetry", !.config = files[boot.path]]
       \/ ~LoadAndValidateOk(boot.path) /\ Go("refused")
    /\ BootRest /\ UNCHANGED ready

\* init_telemetry: building the exporter may fail; without a configuration the
\* proxy then passes everything through.
InitTelemetry ==
    Check("telemetry", TelemetryConfig(boot.config).enabled => TelemetryConfig(boot.config).endpointValid,
          IF boot.config = None THEN "service" ELSE "upstream")

CheckUpstreamConfig == Check("upstream", UpstreamConfigured, "schema")
CheckSchema == Check("schema", LoadSchema, "components")

\* create_governance_components: the engine loads its policies (LoadStep) ...
StartCedar ==
    /\ At("components")
    /\ Go("cedar")
    /\ load' = [load EXCEPT !["boot"] = [Idle EXCEPT !.step = "check"]]
    /\ yaml' = IF boot.config.cedar THEN yaml ELSE <<>>
    /\ UNCHANGED <<policyFile, policyEnv, engine, held, eval, decided, stats, changes, calls>>
    /\ UNCHANGED <<environ, files, ready, edits>>

BootLoads ==
    /\ At("cedar") /\ LoadStep("boot")
    /\ UNCHANGED startupVars

\* ... and then the approval engine is built, when the configuration needs one.
ApprovalAdapter ==
    IF ~RequiresApprovalEngine(boot.config) THEN "none"
    ELSE IF environ.adapter = "mock" THEN "mock"
    ELSE IF environ.slackToken THEN "slack" ELSE "missing"

CreateComponents ==
    /\ At("cedar") /\ load["boot"].step \in {"done", "failed"}
    /\ \/ /\ load["boot"].step = "done" /\ ApprovalAdapter # "missing"
          /\ boot' = [boot EXCEPT !.phase = "service", !.adapter = ApprovalAdapter,
                               !.limits = HandlerLimits]
       \/ /\ load["boot"].step = "failed" \/ ApprovalAdapter = "missing"
          /\ Go("refused")
    /\ BootRest /\ UNCHANGED ready

\* ProxyService::new_with_config, and the limits it and the handler get.
CreateService ==
    /\ At("service")
    /\ \/ environ.tlsRoots /\ boot' = [boot EXCEPT !.phase = "verify", !.permits = StreamPermits]
       \/ ~environ.tlsRoots /\ Go("refused")
    /\ BootRest /\ UNCHANGED ready

\* verify_upstream_connectivity: asked only when it is required.
VerifyConnectivity ==
    Check("verify", environ.requireUpstream /\ environ.upstreamUrl => environ.upstreamUp, "deadline")

\* The startup deadline, and mark_ready.
StartupDeadline ==
    /\ At("deadline")
    /\ \/ Go("ready") /\ ready' = TRUE
       \/ Go("refused") /\ UNCHANGED ready
    /\ BootRest

\* Somebody edits the configuration while the process starts or runs.
EditConfig(p, t) ==
    /\ edits < MaxEdits /\ t # files[p]
    /\ files' = [files EXCEPT ![p] = t] /\ edits' = edits + 1
    /\ UNCHANGED <<policyVars, environ, boot, ready>>

BootStep ==
    \/ CheckDefaults \/ CheckPorts \/ CheckEnvironment \/ CheckProfile \/ InitLifecycle \/ Bind
    \/ FindConfig \/ LoadAndValidate \/ InitTelemetry \/ CheckUpstreamConfig \/ CheckSchema
    \/ StartCedar \/ BootLoads
    \/ CreateComponents \/ CreateService \/ VerifyConnectivity \/ StartupDeadline

Next ==
    \/ BootStep
    \/ PolicyNext /\ UNCHANGED startupVars
    \/ \E p \in Paths, t \in ConfigTexts : EditConfig(p, t)

Spec == Init /\ [][Next]_vars


----------------------------------------------------------------------------
(* Properties.                                                             *)

TypeOK ==
    /\ boot.path \in {None} \cup Paths /\ boot.existed \subseteq Paths
    /\ boot.adapter \in {None, "none", "mock", "slack"}
    /\ boot.permits \in {None} \cup 1 .. MostRequests
    /\ boot.limits # None => boot.limits.requests \in 1 .. MostRequests /\ boot.limits.batch \in 1 .. MostBatched
    /\ \A w \in Loaders : load[w].step \in {"idle", "check", "open", "parse", "apply", "done", "failed"}
    /\ changes \in 0 .. MaxChanges /\ calls \in 0 .. MaxCalls /\ edits \in 0 .. MaxEdits

\* A proxy that serves without governance saw no configuration file when it
\* looked: a file that could be seen, however broken, and whatever was done to it
\* meanwhile, is honoured or ends the start.
ConfigHonoured ==
    ready /\ boot.config = None => boot.existed = {} /\ ~environ.given

\* A configuration in force never sends a call to a gate that was not built:
\* whatever name is called, a rule or default that asks Cedar or a human finds
\* an approval engine; every workflow a rule names exists; the policies the
\* engine answers with were loaded.
GatesBuilt ==
    ready /\ boot.config # None =>
        /\ engine # {}
        /\ \A n \in Names :
              G!Evaluate(boot.config, n) \in {"approve", "policy"} => boot.adapter \in {"mock", "slack"}
        /\ \A k \in DOMAIN boot.config.rules : LET r == boot.config.rules[k] IN
              r.action = "approve" /\ r.approval # None => r.approval \in DOMAIN boot.config.workflows

\* Nothing that bypasses governance is active in production: no development
\* identity, no profile that ignores denials, no adapter that approves by itself.
ProductionStrict ==
    ready /\ IsProduction =>
        ~environ.devMode /\ environ.profile = "production" /\ boot.adapter # "mock"

\* A process that serves ends its drain before its shutdown, when the shutdown
\* has two seconds or more.
DrainFits ==
    ready /\ boot.shutdown >= 2 => boot.drain >= 1 /\ boot.drain < boot.shutdown

\* A proxy that serves does so as it was configured, with every gate it needs,
\* and in production strictly.
ServesAsConfigured == ConfigHonoured /\ GatesBuilt /\ ProductionStrict /\ DrainFits

=============================================================================
