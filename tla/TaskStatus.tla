----------------------------- MODULE TaskStatus -----------------------------
(***************************************************************************)
(* The lifecycle status of an approval task and its transition relation    *)
(* (thoughtgate-core/src/governance/task/status.rs).  Pure definitions,    *)
(* shared by every module that speaks of tasks.                            *)
(***************************************************************************)

Status == {"Working", "InputRequired", "Executing",
           "Completed", "Failed", "Rejected", "Cancelled", "Expired"}

\* TaskStatus::is_terminal
Terminal == {"Completed", "Failed", "Rejected", "Cancelled", "Expired"}

\* The statuses that hold a pending slot.
NonTerminal == Status \ Terminal

\* TaskStatus::can_transition_to, as the set of its pairs.
Transitions ==
    {<<"Working", "InputRequired">>, <<"Working", "Failed">>, <<"Working", "Expired">>,
     <<"InputRequired", "Executing">>, <<"InputRequired", "Rejected">>,
     <<"InputRequired", "Cancelled">>, <<"InputRequired", "Expired">>,
     <<"Executing", "Completed">>, <<"Executing", "Failed">>}

CanTransitionTo(from, to) == <<from, to>> \in Transitions
=============================================================================
