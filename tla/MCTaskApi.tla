------------------------------ MODULE MCTaskApi -----------------------------
(***************************************************************************)
(* An environment whose mounts come and go, and upstreams for TaskApi.     *)
(***************************************************************************)
EXTENDS TaskApi, TLC

\* The token unreadable, and the namespace.
MCEnvironments ==
    {[dev |-> FALSE, hostname |-> "pod", namespace |-> n, token |-> k] : n \in {"ns"}, k \in {"agent", None}}
      \cup {[dev |-> FALSE, hostname |-> "pod", namespace |-> None, token |-> "agent"]}
MCDefaultPrincipal == [app |-> "thoughtgate", namespace |-> "default", account |-> "default"]

\* Capabilities alone; one task and every method; two tasks and their listing.
MCWorkloads ==
    {[methods |-> {"initialize"}, ids |-> {}, statuses |-> {}, environments |-> {}, engine |-> TRUE],
     [methods |-> {"call", "list"}, ids |-> 1..2, statuses |-> {"Working", "Failed"},
      environments |-> {e \in MCEnvironments : e.token # None}, engine |-> TRUE]}
      \cup {[methods |-> {"call", "get", "result", "cancel"}, ids |-> {1}, statuses |-> Status,
             environments |-> MCEnvironments, engine |-> b] : b \in BOOLEAN}

MCFields == ToSet(TasksCall) \cup ToSet(SseStatus) \cup {"tools", "list", "other", "x"}
Objects(paths) == [p \in paths |-> "object"]
Cap == <<"capabilities">>
Plain == Objects({<<>>, Cap}) @@ (Cap \o <<"tools">> :> "other")
MCResults ==
    {Objects({<<>>}),
     <<>> :> "other",
     Objects({<<>>}) @@ (Cap :> "other"),
     Plain @@ (Cap \o <<"tasks">> :> "true"),
     Plain @@ Objects({SubSeq(TasksCall, 1, n) : n \in 1..4}) @@ (TasksCall \o <<"x">> :> "other")
           @@ Objects({SubSeq(SseStatus, 1, n) : n \in 1..3}) @@ (SseStatus :> "true"),
     Plain @@ Objects({SubSeq(TasksCall, 1, 2)}) @@ (SubSeq(TasksCall, 1, 2) \o <<"list">> :> "true")
           @@ Objects({SubSeq(SseStatus, 1, n) : n \in 1..4}) @@ (SseStatus \o <<"x">> :> "true")
           @@ (SubSeq(SseStatus, 1, 2) \o <<"other">> :> "true")}
=============================================================================
