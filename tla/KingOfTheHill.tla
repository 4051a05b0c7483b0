----------------------------- MODULE KingOfTheHill -----------------------------
(***************************************************************************)
(* What the arena promises, with no database, no polling and no failures:  *)
(* one submission is the king, at most one challenger duels it at a time,  *)
(* first in pool one and then in pool two, a challenger that clears both   *)
(* pools takes the crown in the same step that ends its duel, and nobody   *)
(* challenges twice.                                                       *)
(***************************************************************************)
CONSTANTS Submissions, NoOne

VARIABLES
  king,     \* the reigning king, NoOne before the first is crowned
  duel,     \* the duel in progress: [challenger, pool], or NoDuel
  spent     \* submissions that have reigned or have had their one challenge

NoDuel == [challenger |-> NoOne, pool |-> "none"]

Init ==
  /\ king = NoOne
  /\ duel = NoDuel
  /\ spent = {}

Found(s) ==
  /\ king = NoOne
  /\ king' = s
  /\ spent' = spent \cup {s}
  /\ UNCHANGED duel

Challenge(c) ==
  /\ king # NoOne
  /\ duel = NoDuel
  /\ c \notin spent
  /\ duel' = [challenger |-> c, pool |-> "pool_one"]
  /\ spent' = spent \cup {c}
  /\ UNCHANGED king

ClearPoolOne ==
  /\ duel.pool = "pool_one"
  /\ duel' = [duel EXCEPT !.pool = "pool_two"]
  /\ UNCHANGED <<king, spent>>

TakeCrown ==
  /\ duel.pool = "pool_two"
  /\ king' = duel.challenger
  /\ duel' = NoDuel
  /\ UNCHANGED spent

Fall ==
  /\ duel # NoDuel
  /\ duel' = NoDuel
  /\ UNCHANGED <<king, spent>>

Next ==
  \/ \E s \in Submissions : Found(s) \/ Challenge(s)
  \/ ClearPoolOne \/ TakeCrown \/ Fall

Spec == Init /\ [][Next]_<<king, duel, spent>>
=============================================================================
