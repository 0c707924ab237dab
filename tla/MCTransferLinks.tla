--------------------------- MODULE MCTransferLinks ---------------------------
(* Instances of TransferLinks for TLC: two moves, three quants, a box on a    *)
(* pallet.                                                                    *)
EXTENDS TransferLinks

CONSTANTS box, pallet, lot1, line1, line2

MCParent == (box :> pallet) @@ (pallet :> None)

MCMove(n, line, forced) == [qty |-> n, line |-> line, forced |-> forced]

\* Without sale lines, with two lines, and with one move that has none
MCPickings ==
  {<<MCMove(3, None, FALSE), MCMove(2, None, forced)>> : forced \in BOOLEAN}
    \cup {<<MCMove(3, line1, FALSE), MCMove(2, line, FALSE)>> :
            line \in {line2, None}}

MCQuant(n, pack, lot) == [qty |-> n, pack |-> pack, lot |-> lot]

MCStocks ==
  {<<MCQuant(1, box, lot1), MCQuant(1, box, None),
     MCQuant(2, pallet, None), MCQuant(2, None, None)>>,
   <<MCQuant(1, None, lot1), MCQuant(2, box, lot1), MCQuant(2, None, None)>>}
=============================================================================
