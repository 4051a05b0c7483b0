---------------------------- MODULE PoolAdmission ----------------------------
(***************************************************************************)
(* What the task pools promise the duel: a pool of the reigning king grows *)
(* one task at a time up to exactly its target, an admitted task is never  *)
(* withdrawn, and a king is succeeded only when all his pools are full, so *)
(* that the pools of a past king never change again.                       *)
(***************************************************************************)
EXTENDS Integers, FiniteSets

CONSTANTS Kings, Pools, Tasks, Target

VARIABLES
  king,      \* the reigning king
  reigned,   \* every king so far
  admitted   \* admitted[k][p]: the tasks of pool p of king k

Init ==
  /\ king \in Kings
  /\ reigned = {king}
  /\ admitted = [k \in Kings |-> [p \in Pools |-> {}]]

Admit(p, t) ==
  /\ \A k \in Kings, q \in Pools : t \notin admitted[k][q]
  /\ Cardinality(admitted[king][p]) < Target[p]
  /\ admitted' = [admitted EXCEPT ![king][p] = @ \cup {t}]
  /\ UNCHANGED <<king, reigned>>

Succeed(k) ==
  /\ k \notin reigned
  /\ \A p \in Pools : Cardinality(admitted[king][p]) = Target[p]
  /\ king' = k
  /\ reigned' = reigned \cup {k}
  /\ UNCHANGED admitted

Next ==
  \/ \E p \in Pools, t \in Tasks : Admit(p, t)
  \/ \E k \in Kings : Succeed(k)

Spec == Init /\ [][Next]_<<king, reigned, admitted>>
=============================================================================
