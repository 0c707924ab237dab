------------------------------- MODULE MCBusSync -------------------------------
(* Instances of BusSync for TLC. *)
EXTENDS BusSync
CONSTANTS order, line, partner, bank, product

\* An order of a partner with a bank account; its lines refer to products.
OrderRecords == {order, line, partner, bank, product}
OrderModel == [r \in OrderRecords |-> ToString(r)]
OrderDeps == order :> {partner} @@ line :> {order, product} @@ bank :> {partner}
               @@ partner :> {} @@ product :> {}
OrderPosts == order :> {line} @@ partner :> {bank} @@ line :> {} @@ bank :> {} @@ product :> {}
OrderModels == {OrderModel[r] : r \in OrderRecords}
=============================================================================
