-------------------------------- MODULE Loops ---------------------------------
(***************************************************************************)
(* The loops of the code, and the orders in which queries and sorts give   *)
(* what they go over.                                                      *)
(***************************************************************************)
EXTENDS Integers, Sequences, FiniteSets, SequencesExt

\* A set of numbers in order of weight, and of the numbers where weights are equal
Sorted(S, weight) ==
  LET before(x) == {y \in S : \/ weight[y] < weight[x]
                              \/ weight[y] = weight[x] /\ y < x}
  IN [i \in 1 .. Cardinality(S) |-> CHOOSE x \in S : Cardinality(before(x)) = i - 1]

ById(S) == Sorted(S, [x \in S |-> 0])

\* A loop over items, each taking the state that step says.
Through(step, items, start) ==
  FoldLeft(LAMBDA acc, item : step[item][acc], start, items)
=============================================================================
