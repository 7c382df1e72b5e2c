------------------------------- MODULE MCShim -------------------------------
(* Instances of Shim for TLC: lines of each kind the pump tells apart, and   *)
(* configurations with an approval rule, an allowlist and development mode.  *)
EXTENDS Shim, TLC

CONSTANTS mine, read_, write_

L(method, id, name) == [framing |-> "ok", method |-> method, id |-> id, name |-> name]

CallRead == L("tools/call", 1, read_)
CallWrite == L("tools/call", 1, write_)
ListTools == L("tools/list", 1, None)
Note == L("tools/call", None, write_)
Ping == L("ping", 2, None)
Long == [CallRead EXCEPT !.framing = "long"]

\* One line of each kind the pump takes apart.
AllLines == {CallRead, CallWrite, Note, Ping, Long, ListTools}

Rule(match, action) == [match |-> match, source |-> None, action |-> action]
Config(mode, tools, rules, dev) ==
    [loaded |-> TRUE, dev |-> dev, engine |-> TRUE,
     sources |-> mine :> [enabled |-> TRUE, mode |-> mode, tools |-> tools],
     rules |-> rules, default |-> "forward"]

Approving == Config("blocklist", {read_}, <<Rule({write_}, "approve")>>, FALSE)
AllConfigs == {Approving, Config("all", {}, <<Rule({write_}, "deny")>>, TRUE)}
=============================================================================
