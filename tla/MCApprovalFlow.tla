--------------------------- MODULE MCApprovalFlow ---------------------------
(* Instances of ApprovalFlow for TLC.                                      *)
EXTENDS ApprovalFlow, TLC

CONSTANTS t1, t2, c1, c2, plain, risky

\* Inspectors that leave one request alone and may or may not mask the other.
Masking == plain :> {plain} @@ risky :> {plain, risky}
\* As ApprovalEngine::new builds the pipeline.
NoInspectors == [r \in Requests |-> {r}]

TaskSymmetry == Permutations(TaskIds)
CallerSymmetry == Permutations(Callers)
Symmetry == TaskSymmetry \cup CallerSymmetry
=============================================================================
