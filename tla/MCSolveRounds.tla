--------------------------- MODULE MCSolveRounds ---------------------------
(***************************************************************************)
(* Small instances of SolveRounds: two tasks of pool one, or one of each.  *)
(***************************************************************************)
EXTENDS SolveRounds, TLC

MCPoolOf == [t \in Tasks |-> IF t = 1 THEN 1 ELSE IF t = 2 THEN 1 ELSE 2]
MCKingFirst == {<<1, 1>>}
MCFullPool == [n \in {1, 2} |-> 1]

\* Two tasks of pool one, the second still to be qualified, or one task of each pool;
\* the third has been disqualified.
MCStatuses ==
  {(1 :> "qualified" @@ 2 :> "candidate" @@ 3 :> "disqualified"),
   (1 :> "qualified" @@ 2 :> "disqualified" @@ 3 :> "qualified")}

MCInit ==
  /\ king = Founder
  /\ challenge = [c \in Challengers |-> Absent]
  /\ status \in MCStatuses
  /\ solutions = {}
  /\ verdict = [p \in Pairs |-> "none"]
  /\ running = {} /\ done = {} /\ cooldown = {} /\ poll = Idle
  /\ judging = [p \in Pairs |-> "no"] /\ pending = NotRead

MCFairSpec == MCInit /\ [][Next]_vars /\ Fairness
=============================================================================
