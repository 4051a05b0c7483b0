----------------------------- MODULE MCTaskPool -----------------------------
(* Small instances of TaskPool for TLC. *)
EXTENDS TaskPool, TLC

TaskSymmetry == Permutations(Tasks) \cup Permutations(Screens)

OnePool == {"pool_one"}
TargetOne == [p \in Pools |-> 1]
TargetTwo == [p \in Pools |-> 2]
=============================================================================
