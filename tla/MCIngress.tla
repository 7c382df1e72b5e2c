------------------------------ MODULE MCIngress ------------------------------
(***************************************************************************)
(* Requests for Ingress: the ways to spell the endpoints and what is close  *)
(* to them, traffic that is not MCP, and bodies of every kind.            *)
(***************************************************************************)
EXTENDS Ingress

MCAddrOf == [c \in Conns |-> CHOOSE a \in Addrs : TRUE]

\* Elements: well formed ones with ids of every kind, with and without a task,
\* and every way to be malformed.
Element(form, version, method, id, task) ==
    [form |-> form, version |-> version, method |-> method, id |-> id, task |-> task]
Call(id) == Element("object", "2.0", TRUE, id, None)
Elements ==
    {Call(id) : id \in IdKinds}
      \cup {Element("object", "2.0", TRUE, "number", [ttl |-> t]) : t \in {None, 1, MaxTtl + 1}}
      \cup {Element("object", "1.0", TRUE, "string", None), Element("object", "2.0", FALSE, "number", None),
            Element("object", "2.0", FALSE, "absent", None), Element("tuple", "2.0", TRUE, "number", None),
            Element("other", None, FALSE, "absent", None)}
InBatch == {Call(id) : id \in {"number", "string", "absent", "float"}}
             \cup {Element("object", "1.0", TRUE, "string", None), Element("tuple", "2.0", TRUE, "number", None),
                   Element("other", None, FALSE, "absent", None)}
Body(shape, items) == [shape |-> shape, items |-> items]
MCBodies ==
    {Body("broken", <<>>), Body("scalar", <<>>), Body("array", <<>>)}
      \cup {Body("object", <<e>>) : e \in {x \in Elements : x.form = "object"}}
      \cup {Body("array", <<e>>) : e \in Elements}
      \cup {Body("array", <<e, f>>) : e, f \in InBatch}

Request(method, contentType, path) ==
    [method |-> method, contentType |-> contentType, path |-> path, absolute |-> FALSE, host |-> "valid", parses |-> TRUE,
     headers |-> [h \in {"accept"} |-> h]]
Json == "application/json"
Endpoint == <<"/", "mcp", "/", "v1">>
Paths == {<<"/">>, <<"/", "/">>, <<"/", "/", "/">>, Endpoint, Endpoint \o <<"/">>, Endpoint \o <<"/", "/">>,
          <<"/">> \o Endpoint, <<"/", "mcp", "/", "/", "v1">>, <<"/", "mcpv1">>, <<"/", "mcp">>, <<"/", "v1">>,
          <<"/", "v1", "/", "mcp">>, Endpoint \o <<"/", "x">>}

MCRequests ==
    {Request("POST", Json, p) : p \in Paths}
      \cup {Request("POST", "application/json; charset=utf-8", Endpoint)}
      \cup {Request(m, t, Endpoint) : m \in {"GET", "POST"}, t \in {None, Json, "text/plain"}}
      \cup {[Request("GET", None, <<"/", "v1">>) EXCEPT !.absolute = a, !.host = h,
                 !.parses = p, !.headers = [n \in HopByHop \cup {"accept"} |-> n]] :
               a \in BOOLEAN, h \in {None, "valid", "invalid"}, p \in BOOLEAN}

MCDeployments ==
    {[handler |-> TRUE, upstream |-> TRUE, forward |-> FALSE],
     [handler |-> TRUE, upstream |-> FALSE, forward |-> TRUE],
     [handler |-> FALSE, upstream |-> FALSE, forward |-> FALSE]}
=============================================================================
