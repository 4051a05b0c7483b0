------------------------------ MODULE DuelRounds ------------------------------
(***************************************************************************)
(* What the solver and the judge promise the resolver, with no sandbox     *)
(* slots, no polling, no cool-downs and no judgments in flight: the two    *)
(* solves of a round are taken up while the round is open and none of them *)
(* twice at a time, a solve that is saved is never taken up again, and a   *)
(* round whose two solves are saved gets one verdict.  On verdicts alone   *)
(* the resolver clears a challenger for pool two and crowns it.            *)
(***************************************************************************)
EXTENDS Integers

CONSTANTS
  Tasks, Challengers, Founder, Verdicts,
  PoolOf,      \* the pool of a task, 1 or 2
  SidesOf      \* the two solves that the verdict of a round rests on

VARIABLES
  king,        \* the reigning king
  challenge,   \* the pool a challenger duels in, or Absent or Closed
  qualified,   \* the tasks a round may be fought over
  underway,    \* the solves taken up and not ended
  solved,      \* the solves on record
  verdict      \* the verdict of each round, or "none"

vars == <<king, challenge, qualified, underway, solved, verdict>>

Rounds == Tasks \X Challengers

Absent == -1
Closed == 0
Active == {1, 2}

Judged(c, n) == \E t \in Tasks : PoolOf[t] = n /\ verdict[<<t, c>>] # "none"

OpenRounds == {p \in Rounds : p[1] \in qualified /\ challenge[p[2]] = PoolOf[p[1]]}

Init ==
  /\ king = Founder
  /\ challenge = [c \in Challengers |-> Absent]
  /\ qualified \in SUBSET Tasks
  /\ underway = {} /\ solved = {}
  /\ verdict = [p \in Rounds |-> "none"]

Qualify(t) ==
  /\ qualified' = qualified \cup {t}
  /\ UNCHANGED <<king, challenge, underway, solved, verdict>>

Moves(c, pool) ==
  /\ challenge' = [challenge EXCEPT ![c] = pool]
  /\ UNCHANGED <<qualified, underway, solved, verdict>>

Open(c) ==
  /\ challenge[c] = Absent /\ king = Founder
  /\ \A d \in Challengers : challenge[d] \notin Active
  /\ Moves(c, 1) /\ UNCHANGED king

Clear(c) ==
  /\ challenge[c] = 1 /\ Judged(c, 1)
  /\ Moves(c, 2) /\ UNCHANGED king

Fall(c) ==
  /\ challenge[c] \in Active
  /\ Moves(c, Closed) /\ UNCHANGED king

Crown(c) ==
  /\ challenge[c] = 2 /\ Judged(c, 2)
  /\ Moves(c, Closed) /\ king' = c

\* The solves of open rounds that are neither at work nor on record.
Waiting == (UNION {SidesOf[p] : p \in OpenRounds}) \ (underway \cup solved)

TakeUp(S) ==
  /\ underway' = underway \cup S
  /\ UNCHANGED <<king, challenge, qualified, solved, verdict>>

Drop(S) ==
  /\ underway' = underway \ S
  /\ UNCHANGED <<king, challenge, qualified, solved, verdict>>

Save(s) ==
  /\ underway' = underway \ {s}
  /\ solved' = solved \cup {s}
  /\ UNCHANGED <<king, challenge, qualified, verdict>>

Judge(p, v) ==
  /\ verdict[p] = "none" /\ SidesOf[p] \subseteq solved
  /\ verdict' = [verdict EXCEPT ![p] = v]
  /\ UNCHANGED <<king, challenge, qualified, underway, solved>>

Next ==
  \/ \E t \in Tasks : Qualify(t)
  \/ \E c \in Challengers : Open(c) \/ Clear(c) \/ Fall(c) \/ Crown(c)
  \/ \E S \in SUBSET Waiting : TakeUp(S)
  \/ \E S \in SUBSET underway : Drop(S)
  \/ \E s \in underway : Save(s)
  \/ \E p \in Rounds, v \in Verdicts : Judge(p, v)

Spec == Init /\ [][Next]_vars

-----------------------------------------------------------------------------
\* No solve of pool two is at work or on record before its challenger has a
\* verdict in pool one, and no verdict of pool two either.
PoolTwoWaits ==
  \A p \in Rounds :
    PoolOf[p[1]] = 2 /\ (SidesOf[p] \cap (underway \cup solved) # {} \/ verdict[p] # "none")
      => Judged(p[2], 1)

\* A crown that was won rests on a verdict in each pool, and those on both solves.
CrownRestsOnRounds ==
  king # Founder =>
    \A n \in {1, 2} : \E t \in Tasks :
      PoolOf[t] = n /\ verdict[<<t, king>>] # "none" /\ SidesOf[<<t, king>>] \subseteq solved
=============================================================================
