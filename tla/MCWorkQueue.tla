----------------------------- MODULE MCWorkQueue -----------------------------
(* Small instances of WorkQueue for TLC. *)
EXTENDS WorkQueue, TLC

CommitSymmetry == Permutations(Commits) \cup Permutations(Describers)

OnePool == {1}
TwoPools == {1, 2}
TargetOne == [p \in Pools |-> 1]
=============================================================================
