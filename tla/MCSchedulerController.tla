------------------------- MODULE MCSchedulerController -------------------------
(* Instances of SchedulerController for TLC. *)
EXTENDS SchedulerController
CONSTANTS o1, o2, c1, c2

\* All orderpoints are of one company; users may be of another.
MCCompanyOf == [o \in Orderpoints |-> c1]

\* o1's location has two sequences, o2's only the second one.
MCSeqsOf == [o \in Orderpoints |-> IF o = o1 THEN {1, 2} ELSE {2}]

\* o1's location has two sequences, o2's only the first one.
MCSeqsOfFirst == [o \in Orderpoints |-> IF o = o1 THEN {1, 2} ELSE {1}]
=============================================================================
