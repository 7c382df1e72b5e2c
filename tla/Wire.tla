-------------------------------- MODULE Wire --------------------------------
(***************************************************************************)
(* What comes over the wire: HTTP requests as discriminate_traffic         *)
(* (traffic.rs) and extract_target_uri (proxy_service.rs) read them, and   *)
(* JSON-RPC bodies as parse_jsonrpc (transport/jsonrpc.rs) does.  No state.*)
(*                                                                         *)
(* A path is a sequence of slashes and names.  A JSON-RPC element has the  *)
(* fields the parser looks at; its id is the kind of value it holds.  A    *)
(* body is a single element, a batch of elements, other JSON, or no JSON.  *)
(***************************************************************************)
EXTENDS Integers, Sequences, FiniteSets, SequencesExt

CONSTANTS None, MaxTtl

Slash == "/"

----------------------------------------------------------------------------
(* Requests.                                                               *)

\* normalize_path: one slash for several, and none at the end.  What the loop
\* has pushed after each character; it skips a slash after a slash.
TrimTrailing(result) ==
    IF Len(result) > 1 /\ result[Len(result)] = Slash THEN Front(result) ELSE result
KeepsDoubleSlashes(path) == TrimTrailing(path)
Skips(path, k) == path[k] = Slash /\ k > 1 /\ path[k - 1] = Slash
Pushed(path) ==
    LET result[k \in 0 .. Len(path)] ==
            IF k = 0 THEN <<>>
            ELSE IF Skips(path, k) THEN result[k - 1] ELSE Append(result[k - 1], path[k])
    IN result
NormalizePath(path) == TrimTrailing(Pushed(path)[Len(path)])

McpEndpoints == {<<Slash>>, <<Slash, "mcp", Slash, "v1">>}

\* discriminate_traffic; contentType is the header, lower case as it is compared.
ContainsJson(contentType) == contentType \in {"application/json", "application/json; charset=utf-8"}
DiscriminateTraffic(r) ==
    IF r.method = "POST" /\ ContainsJson(r.contentType) /\ NormalizePath(r.path) \in McpEndpoints
      THEN "mcp" ELSE "http"

\* extract_target_uri: the configured upstream; else, when forward proxying was
\* asked for, the absolute URI or the Host header of the request.  A URI that is
\* put together with the request's path may fail to parse (too long, say).
ExtractTargetUri(r, d) ==
    IF d.upstream THEN (IF r.parses THEN "upstream" ELSE None)
    ELSE IF ~d.forward THEN None
    ELSE IF r.absolute THEN "named"
    ELSE IF r.host = "valid" /\ r.parses THEN "named"
    ELSE None

\* is_hop_by_hop_header, and the copy of the others: the first value of each.
HopByHop == {"keep-alive", "proxy-authenticate", "proxy-authorization", "te", "trailers"}
ForwardedHeaders(r) == {h \in DOMAIN r.headers : h \notin HopByHop}

\* map_hyper_error, which goes by words of the message, and what the client is
\* told of each error.
MapHyperError(kind) ==
    CASE kind = "timeout" -> "Timeout" [] kind = "reset" -> "ClientDisconnect" [] OTHER -> "Connection"
ToResponse(error) ==
    CASE error = "Timeout" -> 504 [] error \in {"InvalidUri", "ClientDisconnect"} -> 400 [] OTHER -> 502

----------------------------------------------------------------------------
(* JSON-RPC.                                                               *)

\* Deserialize for JsonRpcId: an absent id stays apart from a null one.
IdKinds == {"absent", "null", "number", "string", "float", "bool"}
IdValid(id) == id \notin {"float", "bool"}

\* extract_task_metadata: a ttl of more than a day is cut to a day.
ExtractTaskMetadata(e) ==
    IF e.task = None THEN None
    ELSE [ttl |-> IF e.task.ttl = None THEN None ELSE IF e.task.ttl < MaxTtl THEN e.task.ttl ELSE MaxTtl]

\* parse_single_from_raw, and the deserialization before it, which also reads a
\* list of the four fields (a tuple) as a request.
Valid(e) == [valid |-> TRUE, id |-> e.id, task |-> ExtractTaskMetadata(e)]
Invalid(id) == [valid |-> FALSE, id |-> id, task |-> None]
ParseSingleFromRaw(e) == e.form # "other" /\ IdValid(e.id) /\ e.version = "2.0" /\ e.method

\* The id of a batch element that may turn out invalid.
ExtractId(e) == IF e.form = "object" /\ IdValid(e.id) THEN e.id ELSE "absent"

\* parse_jsonrpc: -32700 for what is no JSON, -32600 for what is no request; the
\* elements of a batch fail one by one.
BatchFailsWhole(body) ==
    LET items == [k \in DOMAIN body.items |->
                    IF ParseSingleFromRaw(body.items[k]) THEN Valid(body.items[k]) ELSE Invalid("absent")] IN
    IF \E k \in DOMAIN items : ~items[k].valid THEN [kind |-> "error", code |-> -32600]
    ELSE [kind |-> "batch", items |-> items]
ParseBatch(body) ==
    [kind |-> "batch",
     items |-> [k \in DOMAIN body.items |->
                  IF ParseSingleFromRaw(body.items[k]) THEN Valid(body.items[k])
                  ELSE Invalid(ExtractId(body.items[k]))]]
ParseJsonRpc(body) ==
    CASE body.shape = "broken" -> [kind |-> "error", code |-> -32700]
      [] body.shape = "scalar" -> [kind |-> "error", code |-> -32600]
      [] body.shape = "object" ->
           IF ParseSingleFromRaw(body.items[1]) THEN [kind |-> "single", items |-> <<Valid(body.items[1])>>]
           ELSE [kind |-> "error", code |-> -32600]
      [] body.shape = "array" ->
           IF body.items = <<>> THEN [kind |-> "error", code |-> -32600] ELSE ParseBatch(body)

\* The ids of the responses to what was parsed, which buffer_unordered gathers in
\* any order: notifications have none, an element whose id is not known is
\* answered with null.
ResponseId(item) == IF item.id = "absent" THEN "null" ELSE item.id
ResponseIds(parsed) ==
    IF parsed.kind = "error" THEN <<"null">>
    ELSE [k \in {j \in DOMAIN parsed.items : ~parsed.items[j].valid \/ parsed.items[j].id # "absent"} |->
             ResponseId(parsed.items[k])]

\* The stream of an approval that is waited for answers what it was opened for,
\* a notification too: handle_single_request_bytes has returned by then.
StreamIds(parsed) == <<ResponseId(parsed.items[1])>>

\* A body that is refused whole, for its size, the size of its batch or want of
\* permits, gets one answer that names no id.
RefusalIds == <<"null">>

----------------------------------------------------------------------------
(* The same, said of the wire.                                             *)

\* The names on a path, in order, whatever slashes are between, before and after
\* them; two names without a slash between them are one other name.
Reads(path, names) ==
    \E place \in [DOMAIN names -> DOMAIN path] :
        /\ \A n \in DOMAIN names : path[place[n]] = names[n]
        /\ \A k \in DOMAIN path : path[k] = Slash \/ \E n \in DOMAIN names : k = place[n]
        /\ \A m, n \in DOMAIN names : m < n => place[m] + 1 < place[n]
IsMcp(r) ==
    /\ r.method = "POST" /\ ContainsJson(r.contentType)
    /\ Reads(r.path, <<>>) \/ Reads(r.path, <<"mcp", "v1">>)

\* How many responses of each id a body deserves by JSON-RPC 2.0, where a tuple
\* that is well formed counts as a request.
WellFormed(e) == e.form # "other" /\ e.version = "2.0" /\ e.method /\ e.id \in {"absent", "null", "number", "string"}
Deserved(body, id) ==
    CASE body.shape \in {"broken", "scalar"} -> IF id = "null" THEN 1 ELSE 0
      [] body.shape = "object" ->
           IF ~WellFormed(body.items[1]) THEN (IF id = "null" THEN 1 ELSE 0)
           ELSE IF body.items[1].id = id THEN 1 ELSE 0
      [] body.shape = "array" /\ body.items = <<>> -> IF id = "null" THEN 1 ELSE 0
      [] OTHER ->
           Cardinality({k \in DOMAIN body.items : LET e == body.items[k] IN
               \/ (WellFormed(e) \/ e.form = "object") /\ e.id = id
               \/ ~WellFormed(e) /\ id = "null" /\ (e.form # "object" \/ e.id \in {"absent", "float", "bool"})})

\* The same with the two exceptions of this program: a refusal of the whole body,
\* and the answer to a notification for which a stream was opened.
LoneNotification(body) == body.shape = "object" /\ WellFormed(body.items[1]) /\ body.items[1].id = "absent"
Due(body, via, id) ==
    IF via = "refusal" \/ (via = "stream" /\ LoneNotification(body))
      THEN (IF id = "null" THEN 1 ELSE 0)
      ELSE Deserved(body, id)
=============================================================================
