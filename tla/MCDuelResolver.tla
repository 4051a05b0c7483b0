---------------------------- MODULE MCDuelResolver ----------------------------
(***************************************************************************)
(* Small instances of DuelResolver.  Submissions are numbered in the order *)
(* of their commitment blocks, so the oldest waiting one is the smallest.  *)
(***************************************************************************)
EXTENDS DuelResolver, TLC

MCBlock == [s \in Submissions |-> s]

\* Pool one is a best of two, pool two a single round.
MCTarget == [p \in Pools |-> IF p = "pool_one" THEN 2 ELSE 1]

\* Both pools are single rounds.
MCTargetOne == [p \in Pools |-> 1]

\* One side wins each round.
MCDecisive ==
  {[winner |-> "challenger", delta |-> 0], [winner |-> "king", delta |-> 0]}

\* Resolver processes are interchangeable.
MCSymmetry == Permutations(Resolvers)

\* Scored rounds: the score delta does not follow the declared winner.
MCScored ==
  {[winner |-> "challenger", delta |-> 2], [winner |-> "challenger", delta |-> -1],
   [winner |-> "tie", delta |-> 0]}

\* A later start, of submissions that are registered: the states reached by
\* SeedKing, SubmissionEligible and RegistrationChanges alone.
MCLaterInit(reigning, qualifiedOnes) ==
  /\ kings = reigning
  /\ eligible = qualifiedOnes
  /\ status = [s \in Submissions |-> "none"]
  /\ against = [s \in Submissions |-> NoOne]
  /\ outcome = [s \in Submissions |-> [p \in Pools |-> "none"]]
  /\ recorded = [s \in Submissions |-> [p \in Pools |-> NoRecord]]
  /\ registration = [s \in Submissions |-> "current"]
  /\ qualified = [s \in Submissions |-> [p \in Pools |-> 0]]
  /\ tally = [s \in Submissions |-> [p \in Pools |-> NoTally]]
  /\ published = {}
  /\ pc = [r \in Resolvers |-> "idle"]
  /\ snap = [r \in Resolvers |-> NoSnapshot]
  /\ paused = [r \in Resolvers |-> FALSE]
  /\ drained = [r \in Resolvers |-> FALSE]
  /\ failures = 0

\* No king yet, every submission is eligible.
MCEarlyFairSpec == MCLaterInit(<<>>, Submissions) /\ [][Next]_vars /\ Fairness

\* The first king reigns and the next submission qualifies later.
MCCrownedSpec == MCLaterInit(<<1>>, {1}) /\ [][Next]_vars
=============================================================================
