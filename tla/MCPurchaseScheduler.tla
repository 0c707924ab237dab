-------------------------- MODULE MCPurchaseScheduler --------------------------
(* Instances of PurchaseScheduler for TLC. *)
EXTENDS PurchaseScheduler

\* The larger need is raised for the later date, or for the same one.
TwoNeeds == <<[date |-> 2, qty |-> 2], [date |-> 1, qty |-> 1]>>
=============================================================================
