-------------------------------- MODULE Lists --------------------------------
(***************************************************************************)
(* Ordering and filtering, by means that the proofs can look into: SortSeq *)
(* and SelectSeq are built into the prover without their definitions.      *)
(***************************************************************************)
EXTENDS Integers, FiniteSets, Sequences

\* The elements of S, ordered by the relation before.
InOrder(S, before) ==
  [i \in 1 .. Cardinality(S) |-> CHOOSE x \in S : Cardinality({y \in S : <<y, x>> \in before}) = i - 1]

\* The elements of seq that are not in T, in their order.
Without(seq, T) ==
  LET kept[i \in 0 .. Len(seq)] ==
        IF i = 0 THEN <<>>
        ELSE IF seq[i] \in T THEN kept[i - 1] ELSE Append(kept[i - 1], seq[i])
  IN kept[Len(seq)]
=============================================================================
