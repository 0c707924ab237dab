----------------------------- MODULE MCOrderpoint -----------------------------
(* Instances of Orderpoint for TLC. *)
EXTENDS Orderpoint
CONSTANTS p1, p2
=============================================================================
