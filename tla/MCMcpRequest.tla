--------------------------- MODULE MCMcpRequest ---------------------------
(* Instances of McpRequest for TLC: the bodies and configurations that      *)
(* reach every route, limit and gate.                                       *)
EXTENDS McpRequest, TLC

CONSTANTS r1, r2, mine, other, read, write, tg

Call(n) == [method |-> "tools/call", name |-> n, id |-> TRUE, task |-> FALSE]
WithTask(m) == [m EXCEPT !.task = TRUE]
Notification(m) == [m EXCEPT !.id = FALSE]
Other(method, n) == [method |-> method, name |-> n, id |-> TRUE, task |-> FALSE]

Single(m) == [kind |-> "single", size |-> 1, items |-> <<m>>]
Batch(ms) == [kind |-> "batch", size |-> 2, items |-> ms]

Singles ==
    {Single(Call(write)), Single(WithTask(Call(write))),
     Single(Other("resources/subscribe", write)), Single(Other("tasks/get", tg)),
     Single(Other("tools/list", None)), Single(Notification(Call(write)))}
Batches ==
    {Batch(<<Call(read), Notification(Call(write))>>),
     Batch(<<Other("invalid", None), Call(None)>>),
     Batch(<<Call(read), Call(read), Call(read)>>)}
Refused ==
    {[kind |-> "bad", size |-> 2, items |-> <<Call(read)>>],
     [kind |-> "single", size |-> 4, items |-> <<Call(read)>>]}
AllBodies == Singles \cup Batches \cup Refused

Source(enabled, mode, tools) == [enabled |-> enabled, mode |-> mode, tools |-> tools]
Rule(match, source, action) == [match |-> match, source |-> source, action |-> action]

Yaml(source, rules, default) ==
    [loaded |-> TRUE, dev |-> FALSE, engine |-> TRUE, sources |-> mine :> source,
     rules |-> rules, default |-> default]
Dev(cfg) == [cfg EXCEPT !.dev = TRUE]
NoEngine(cfg) == [cfg EXCEPT !.engine = FALSE]

Shadowing == <<Rule({read}, None, "forward"), Rule({read, write}, {mine}, "approve"),
               Rule({write}, None, "forward")>>
Denying == <<Rule({write}, None, "deny"), Rule({write, read}, None, "policy")>>

Plain == Yaml(Source(TRUE, "all", {}), Shadowing, "deny")
AllConfigs ==
    {Plain,
     Dev(Yaml(Source(TRUE, "blocklist", {read}), Denying, "forward")),
     Yaml(Source(TRUE, "allowlist", {read}), Denying, "forward"),
     Yaml(Source(FALSE, "all", {}), <<>>, "forward"),
     NoEngine([Plain EXCEPT !.sources = other :> Source(TRUE, "all", {}),
                            !.rules = <<Rule({write}, {other}, "approve")>>]),
     [Plain EXCEPT !.loaded = FALSE]}

===========================================================================
