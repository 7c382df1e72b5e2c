------------------------------- MODULE MCWrap -------------------------------
(* Instances of Wrap for TLC: two processes over the layouts that make the   *)
(* adapters differ.                                                          *)
EXTENDS Wrap, TLC

CONSTANTS a, b, s1, s2, p1, p2

E(id, transport, in, enabled, env) ==
    [id |-> id, transport |-> transport, project |-> in, enabled |-> enabled,
     vars |-> env, approved |-> TRUE]
Stdio(id, in) == E(id, "stdio", in, TRUE, "defined")
L(adapter, config, beside) ==
    [adapter |-> adapter, entries |-> [config |-> config, project |-> beside]]

PassLayouts ==
    {L(ClaudeDesktop, {Stdio(s1, p1), Stdio(s2, p1)}, {}),
     L(ClaudeDesktop, {Stdio(s1, p1), E(s2, "http", p1, TRUE, "defined")}, {}),
     L(ClaudeCode, {Stdio(s1, p1), Stdio(s2, p2)}, {Stdio(s1, p1)}),
     L(ClaudeCode, {E(s1, "stdio", p1, FALSE, "defined")}, {}),
     L(Cursor, {Stdio(s1, p1)}, {Stdio(s1, p1), Stdio(s2, p1)}),
     L(VsCode, {Stdio(s1, p1), E(s2, "http", p1, TRUE, "defined")}, {}),
     L(Windsurf, {E(s1, "stdio", p1, TRUE, "undefined")}, {})}

=============================================================================
