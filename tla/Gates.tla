------------------------------- MODULE Gates -------------------------------
(***************************************************************************)
(* The four gates as functions of the configuration (config/schema.rs,     *)
(* governance/evaluator.rs, governance/list_filtering.rs).                 *)
(*                                                                         *)
(* A configuration is a record: the sources by id, each enabled or not and *)
(* with an exposure mode and patterns; the governance rules in file order; *)
(* the default action; whether a YAML file was loaded at all; the profile; *)
(* and whether an approval engine was built.  A glob pattern is the set of *)
(* names it matches.  A Cedar policy is the set of resources it permits,   *)
(* tool names and method names; a process without a Cedar engine behaves   *)
(* like one that permits nothing.                                          *)
(***************************************************************************)
EXTENDS Naturals, Sequences

CONSTANTS None,        \* no value: a missing name, a rule without source filter
          SourceId     \* the source the transport names ("upstream" in the proxy)

\* The methods that name one governable resource.
Governed == {"tools/call", "resources/read", "resources/subscribe", "prompts/get"}

ForgetsSubscribe(m) == m \in Governed \ {"resources/subscribe"}
MethodRequiresGates(m) == m \in Governed

\* ExposeConfig::is_visible.
IsVisible(source, n) ==
    CASE source.mode = "all"       -> TRUE
      [] source.mode = "allowlist" -> n \in source.tools
      [] source.mode = "blocklist" -> n \notin source.tools

\* A rule applies when its source filter, if any, and its pattern match.
RuleMatches(rule, n) ==
    /\ rule.source = None \/ SourceId \in rule.source
    /\ n \in rule.match

\* Action, and what deserialization makes sure of: rules in order, each with
\* one of the four actions.
Actions == {"forward", "deny", "policy", "approve"}
WellTyped(cfg) ==
    /\ DOMAIN cfg.rules \subseteq Nat /\ cfg.default \in Actions
    /\ \A k \in DOMAIN cfg.rules : cfg.rules[k].action \in Actions

\* Governance::evaluate: the first rule that matches, else the default.
Evaluate(cfg, n) ==
    LET hits == {k \in DOMAIN cfg.rules : RuleMatches(cfg.rules[k], n)} IN
    IF hits = {}
      THEN cfg.default
      ELSE cfg.rules[CHOOSE k \in hits : \A j \in hits : k <= j].action

\* Gate 1 for a call: a source that is unknown or disabled exposes nothing.
Exposed(cfg, n) ==
    /\ SourceId \in DOMAIN cfg.sources
    /\ cfg.sources[SourceId].enabled
    /\ IsVisible(cfg.sources[SourceId], n)

\* Gate 1 for a list answer: what of names is left in it.
FilterByVisibility(cfg, names) ==
    {n \in names : /\ SourceId \in DOMAIN cfg.sources
                   /\ IsVisible(cfg.sources[SourceId], n)}

\* Gate 4: development mode only logs that approval would be needed.
StartApproval(cfg) == IF cfg.dev THEN "forward" ELSE "approve"

\* What Cedar is asked about: the tool by its name; for any other method the
\* method alone, whatever resource or prompt it names.
CedarResource(method, n) == IF method = "tools/call" THEN n ELSE method

\* Gate 3: permit leads on to Gate 4, forbid denies except in development.
EvaluateCedar(cfg, permitted, method, n) ==
    IF CedarResource(method, n) \in permitted THEN StartApproval(cfg)
    ELSE IF cfg.dev THEN "forward"
    ELSE "deny"

\* GovernanceEvaluator::evaluate_with_principal for a governed method.
EvaluateWithPrincipal(cfg, permitted, method, n) ==
    LET action == Evaluate(cfg, n) IN
    CASE ~Exposed(cfg, n)                        -> "deny"
      [] Exposed(cfg, n) /\ action = "forward"   -> "forward"
      [] Exposed(cfg, n) /\ action = "deny"      -> "deny"
      [] Exposed(cfg, n) /\ action = "policy"    -> EvaluateCedar(cfg, permitted, method, n)
      [] Exposed(cfg, n) /\ action = "approve"   -> StartApproval(cfg)

\* The part of config validation the gates rely on: exactly one source, and
\* rules that only name it.
Validate(cfg) ==
    /\ \E s \in DOMAIN cfg.sources : DOMAIN cfg.sources = {s}
    /\ \A k \in DOMAIN cfg.rules :
          cfg.rules[k].source # None => cfg.rules[k].source \subseteq DOMAIN cfg.sources

----------------------------------------------------------------------------
\* What the gates promise, without their order of evaluation: a call may go
\* to the upstream only when a list answer would show the name, and the rule
\* that no earlier rule shadows (or the default) forwards it; in development
\* everything that rule does not deny goes through.
FirstMatch(cfg, n, k) ==
    /\ k \in DOMAIN cfg.rules /\ RuleMatches(cfg.rules[k], n)
    /\ \A j \in DOMAIN cfg.rules : RuleMatches(cfg.rules[j], n) => k <= j

ActionFor(cfg, n, a) ==
    \/ \E k \in DOMAIN cfg.rules : FirstMatch(cfg, n, k) /\ cfg.rules[k].action = a
    \/ /\ \A k \in DOMAIN cfg.rules : ~RuleMatches(cfg.rules[k], n)
       /\ cfg.default = a

MayForward(cfg, n) ==
    /\ n \in FilterByVisibility(cfg, {n})
    /\ cfg.sources[SourceId].enabled
    /\ ActionFor(cfg, n, "forward") \/ (cfg.dev /\ ~ActionFor(cfg, n, "deny"))
============================================================================
