---------------------------- MODULE TaskRegistry ----------------------------
(***************************************************************************)
(* What the task store promises its callers, with no threads, locks or     *)
(* counters: a bounded registry of tasks, each of which is created at most *)
(* once, moves only along the documented lifecycle, and disappears only    *)
(* after it has ended.  TaskStore implements this specification.           *)
(***************************************************************************)
EXTENDS TaskStatus, Integers, FiniteSets

CONSTANTS TaskIds, Principals, MaxPendingGlobal, MaxPendingPerPrincipal,
          None       \* no principal

VARIABLES status,    \* status[t]: "absent", a Status, or "removed"
          owner      \* owner[t]: principal (rate_limit_key) of t once it exists

vars == <<status, owner>>

\* Tasks that occupy a pending slot.
Live == {t \in TaskIds : status[t] \in NonTerminal}
LiveOf(p) == {t \in Live : owner[t] = p}

Init ==
    /\ status = [t \in TaskIds |-> "absent"]
    /\ owner = [t \in TaskIds |-> None]

Create(t, p) ==
    /\ status[t] = "absent"
    /\ Cardinality(Live) < MaxPendingGlobal
    /\ Cardinality(LiveOf(p)) < MaxPendingPerPrincipal
    /\ status' = [status EXCEPT ![t] = "Working"]
    /\ owner' = [owner EXCEPT ![t] = p]

Move(t, s) ==
    /\ CanTransitionTo(status[t], s)
    /\ status' = [status EXCEPT ![t] = s]
    /\ UNCHANGED owner

Remove(t) ==
    /\ status[t] \in Terminal
    /\ status' = [status EXCEPT ![t] = "removed"]
    /\ UNCHANGED owner

Next ==
    \E t \in TaskIds :
        \/ \E p \in Principals : Create(t, p)
        \/ \E s \in Status : Move(t, s)
        \/ Remove(t)

Spec == Init /\ [][Next]_vars
=============================================================================
