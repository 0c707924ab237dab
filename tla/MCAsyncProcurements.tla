-------------------------- MODULE MCAsyncProcurements --------------------------
(* Instances of AsyncProcurements for TLC. *)
EXTENDS AsyncProcurements, TLC
CONSTANTS m1, m2

\* All moves are those of procurement 1.
MCOneProc == [m \in Moves |-> 1]

\* One move for each of two procurements.
MCOwnMove == [m \in Moves |-> IF m = m1 THEN 1 ELSE 2]

\* Moves of one procurement are interchangeable.
MCMoveSymmetry == Permutations(Moves)

\* Nothing reads the row of a job that is over, but its end if a row bears its uuid.
MCView ==
  LET gone == {j \in Free : Over(j)}
      row(j) == IF Live(j) THEN <<jstate[j], kind[j], args[j], retry[j]>>
                ELSE IF Over(j) /\ j \notin gone THEN <<"over">> ELSE <<"none">>
  IN <<procVars, moveVars, [j \in Jobs |-> row(j)], stale, drifted, misconfirmed>>
=============================================================================
