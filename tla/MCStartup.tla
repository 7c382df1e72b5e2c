----------------------------- MODULE MCStartup -----------------------------
(* Instances of Startup for TLC: a plain start and one variation of it for   *)
(* every check, and the policy sources in every combination that matters.   *)
EXTENDS Startup, TLC

CONSTANTS r1, e1, src, read, write, admin, wf

ReadTool == <<"ToolCall", read>>
WriteTool == <<"ToolCall", write>>
Reading == <<"McpMethod", "resources/read">>
Policy(id, effect, resources, limit, role, binding) ==
    [id |-> id, effect |-> effect, resources |-> resources, actions |-> {"tools/call", "mcp/method", "Forward"},
     limit |-> limit, role |-> role, policyId |-> binding, workflow |-> None]

PermitAll == {Policy("all", "permit", {ReadTool, WriteTool, Reading}, None, None, None)}
Strict ==
    {[Policy("p1", "permit", {ReadTool, WriteTool}, None, None, "rule") EXCEPT !.workflow = "finance"],
     Policy("p2", "forbid", {WriteTool}, [key |-> "amount", above |-> 10], None, None),
     Policy("p3", "permit", {WriteTool}, None, admin, None)}
Other ==
    {[Policy("p4", "permit", {ReadTool}, None, None, None) EXCEPT !.actions = {"Approve"}],
     Policy("p5", "permit", {Reading}, None, None, None)}
OnlyComments == {}

Num(n) == [kind |-> "int", value |-> n]
Float(n, rest) == [kind |-> "float", value |-> n, rest |-> rest]
Obj(v) == [kind |-> "object", value |-> [amount |-> v]]
Request(name, args, roles) ==
    [api |-> "v2", method |-> "tools/call", name |-> name, arguments |-> args, roles |-> roles,
     policyId |-> "rule"]
AllRequests ==
    {Request(write, Obj(Num(20)), {}), Request(write, Obj(Num(5)), {}),
     Request(write, Obj(Float(20, "none")), {}), Request(write, Obj(Float(5, "fraction")), {admin}),
     Request(write, Obj(Float(0, "tiny")), {}),
     Request(write, Obj(Float(MaxLong + 1, "none")), {}), Request(write, Obj(Float(MaxLong + 2, "none")), {}),
     Request(write, Obj(Float(-MaxLong - 2, "none")), {}),
     Request(write, Obj([kind |-> "big", value |-> 99]), {}),
     Request(read, Obj([kind |-> "array", value |-> <<Num(1), [kind |-> "null"], [kind |-> "bool", value |-> TRUE]>>]), {}),
     Request(read, Obj([kind |-> "array", value |-> <<Obj([kind |-> "string", value |-> "x"])>>]), {}),
     [Request(write, Num(1), {admin}) EXCEPT !.policyId = "other"],
     [Request(read, Num(1), {}) EXCEPT !.method = "resources/read"],
     [Request(read, Num(1), {}) EXCEPT !.api = "v1"]}

\* The arguments and all that is in them, three levels down.
Within(S) == S \cup UNION {Parts(v) : v \in S}
AllValues == Within(Within(Within({req.arguments : req \in AllRequests})))

Plain ==
    [environment |-> None, devMode |-> FALSE, adapter |-> None, profile |-> "production",
     shutdown |-> None, drain |-> None, poll |-> None, pollMax |-> None, ttl |-> None,
     ttlMax |-> None, outbound |-> None, admin |-> None, streams |-> None, requests |-> None,
     batch |-> None, upstream |-> TRUE, upstreamTimeout |-> None, portFree |-> TRUE, given |-> FALSE,
     tlsRoots |-> TRUE, slackToken |-> TRUE, requireUpstream |-> FALSE, upstreamUrl |-> TRUE,
     upstreamUp |-> TRUE, otlp |-> None, schema |-> None]

Environs ==
    {Plain} \cup
    {[Plain EXCEPT !.environment = e, !.devMode = d, !.adapter = a, !.profile = p] :
        e \in {None, "prod", "development"}, d \in BOOLEAN, a \in {None, "mock"},
        p \in {"production", "development"}} \cup
    {[Plain EXCEPT !.shutdown = s, !.drain = d] :
        s \in {Garbage, 0, 1, 2, 5, 40}, d \in {None, Garbage, 0, 1, 4, 5}} \cup
    {[Plain EXCEPT !.poll = 30], [Plain EXCEPT !.ttlMax = 1],
     [Plain EXCEPT !.outbound = 7469], [Plain EXCEPT !.streams = 0, !.requests = 200000, !.batch = 0],
     [Plain EXCEPT !.upstream = FALSE], [Plain EXCEPT !.upstreamTimeout = Garbage],
     [Plain EXCEPT !.portFree = FALSE], [Plain EXCEPT !.tlsRoots = FALSE],
     [Plain EXCEPT !.slackToken = FALSE], [Plain EXCEPT !.slackToken = FALSE, !.environment = "test"],
     [Plain EXCEPT !.requireUpstream = TRUE, !.upstreamUp = FALSE], [Plain EXCEPT !.given = TRUE],
     [Plain EXCEPT !.otlp = Garbage], [Plain EXCEPT !.schema = Broken], [Plain EXCEPT !.schema = Hidden]}

Rule(match, action, policyId, approval) ==
    [match |-> match, source |-> None, action |-> action, policyId |-> policyId, approval |-> approval]
Telemetry ==
    [enabled |-> TRUE, rate |-> 100, strategy |-> "head", endpointValid |-> TRUE, protocol |-> "grpc", queue |-> 2,
     delay |-> 100, exportTimeout |-> 100, batch |-> 2]
Good ==
    [schema |-> 1, sources |-> src :> [enabled |-> TRUE, mode |-> "all", tools |-> {}],
     idsValid |-> TRUE, urlsValid |-> TRUE, refers |-> {[set |-> FALSE, default |-> TRUE]},
     rules |-> <<Rule({write}, "policy", "rule", None), Rule({read}, "approve", None, wf)>>,
     default |-> "forward", workflows |-> wf :> [timeout |-> 5, blocking |-> None],
     cedar |-> TRUE, telemetry |-> Telemetry]
Configs ==
    {Good, [Good EXCEPT !.cedar = FALSE, !.rules = <<>>],
     [Good EXCEPT !.rules = <<Rule({write}, "policy", "rule", None)>>],
     [Good EXCEPT !.rules = <<>>, !.default = "approve", !.workflows = <<>>],
     [Good EXCEPT !.schema = 2], [Good EXCEPT !.refers = {[set |-> FALSE, default |-> FALSE]}],
     [Good EXCEPT !.rules[1].policyId = None], [Good EXCEPT !.rules[2].approval = "gone"],
     [Good EXCEPT !.rules[2].approval = None, !.workflows = <<>>], [Good EXCEPT !.rules[1].match = Garbage],
     [Good EXCEPT !.workflows[wf].timeout = 4], [Good EXCEPT !.telemetry.batch = 3],
     [Good EXCEPT !.sources[src].tools = Garbage]}
Files(f, g) == [given |-> IF g THEN f ELSE None, etc |-> IF g THEN None ELSE f, local |-> None]

World(e, f, p, v, y) ==
    [environ |-> e, files |-> f, policyFile |-> p, policyEnv |-> v, yaml |-> y, settled |-> TRUE,
     edited |-> FALSE]
Edited(w) == [w EXCEPT !.edited = TRUE]
Busy(w) == [w EXCEPT !.settled = FALSE]
AllWorlds ==
    {World(e, Files(Good, e.given), Strict, None, <<>>) : e \in Environs} \cup
    {Edited(World(Plain, Files(c, FALSE), None, None, <<Strict, Other>>)) : c \in Configs \cup {None, Broken, Hidden}} \cup
    {Edited(World([Plain EXCEPT !.given = TRUE], Files(c, TRUE), None, None, <<>>)) :
        c \in {None, Good, Unreadable, Hidden}} \cup
    {World(Plain, Files(Good, FALSE), p, None, y) :
        p \in {None, Unreadable, Hidden, Broken, Strict},
        y \in {<<>>, <<Blank, Blank>>, <<OnlyComments, Blank>>, <<Strict, Unreadable>>, <<None>>, <<Hidden>>,
              <<Broken>>, <<Strict, Other>>}} \cup
    {Busy(World(Plain, Files(Good, FALSE), Strict, None, <<>>)),
     Busy(World(Plain, Files(Good, FALSE), None, Strict, <<Other>>)),
     Busy(World(Plain, Files(Good, FALSE), None, None, <<Strict, Other>>))}
SomeTexts == {Other}
Edits == {None, Broken, Hidden, Good}
=============================================================================
