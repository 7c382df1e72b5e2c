----------------------------- MODULE MCTaskStore -----------------------------
(* Instances of TaskStore for TLC. *)
EXTENDS TaskStore, TLC

CONSTANTS w1, w2, w3, t1, t2, t3, alice, bob

\* Every task in one shard: all orders of lock acquisition, deadlocks included.
OneShard == [t \in TaskIds |-> 1]
OnePShard == [p \in Principals |-> 1]
PShardEach == alice :> 1 @@ bob :> 2
Symmetry == Permutations(Workers) \cup Permutations(TaskIds) \cup Permutations(Principals)
TaskSymmetry == Permutations(Workers) \cup Permutations(TaskIds)
=============================================================================
