---------------------------- MODULE TransferLinks ----------------------------
(***************************************************************************)
(* The pack operations of a picking and their links to its stock moves, as *)
(* stock_performance_improved prepares and computes them and as            *)
(* sale_expedition_by_order_line overrides them for operations that carry  *)
(* a sale order line.                                                      *)
(*                                                                         *)
(* A picking has moves; quants, in packages or not, are reserved for them. *)
(* do_prepare_partial turns the reservations into operations, users and    *)
(* scanners change the operations, and before each transfer                *)
(* recompute_remaining_qty links operations to moves from scratch: first   *)
(* through the reserved quants that fit, then, for what is left, through   *)
(* any move.  It returns need_rereserve and all_op_processed, on which the *)
(* transfer decides whether to reserve again and to create extra moves.    *)
(*                                                                         *)
(* The picking is of one product, in one unit, of one owner, with one      *)
(* destination.  Moves and quants are numbered in the order in which the   *)
(* database lists them.                                                    *)
(***************************************************************************)
EXTENDS Loops

CONSTANTS
  Pickings,   \* the moves of a picking: sequences of [qty, line, forced]
  Stocks,     \* the quants: sequences of [qty, pack, lot]
  Parent,     \* parent_id of the packages
  Lines,      \* order lines of the sale order, with the product
  None,       \* the null of every many2one
  Other,      \* a move of another picking
  EditQtys,   \* quantities users give to operations
  MaxEdits    \* bound: changes made by users

Packs == DOMAIN Parent
Lots == UNION {{stock[i].lot : i \in DOMAIN stock} : stock \in Stocks} \ {None}

ASSUME TransferAssumption ==
  /\ Pickings \subseteq Seq([qty : Nat \ {0}, line : Lines \cup {None},
                            forced : BOOLEAN])
  /\ Stocks \subseteq Seq([qty : Nat \ {0}, pack : Packs \cup {None},
                          lot : Lots \cup {None}])
  /\ IsFiniteSet(Packs)
  /\ \A p \in Packs : Parent[p] \in (Packs \ {p}) \cup {None}
  /\ EditQtys \subseteq Nat \ {0}
  /\ MaxEdits \in Nat
  /\ None \notin Lines \cup Packs \cup Nat \cup {Other}
  /\ Other \notin Nat

VARIABLES
  moves,           \* the moves of the picking, with state forced by force_assign
  quants,          \* the quants
  reservation,     \* reservation_id of each quant
  ops,             \* pack_operation_ids
  prepared,        \* the operations are those of do_prepare_partial
  edits,           \* changes made by users
  pc,              \* "idle", "start", "quants" and "rest" (the two parts), "done"
  todo,            \* operations still to process in the first part
  links,           \* stock.move.operation.link
  left,            \* remaining_qty in prod2move_ids; 0: not in the table
  packDone,        \* quants_in_package_done
  still_to_do,     \* what the first part leaves: [op, qty]
  need_rereserve,
  all_op_processed

vars == <<moves, quants, reservation, ops, prepared, edits, pc, todo, links,
          left, packDone, still_to_do, need_rereserve, all_op_processed>>

given == <<moves, quants, reservation>>
recomputed == <<links, left, packDone, still_to_do, need_rereserve,
                all_op_processed>>

Moves == DOMAIN moves
Quants == DOMAIN quants

QuantsQty(S) == SumFunctionOnSet([q \in Quants |-> quants[q].qty], S)

-----------------------------------------------------------------------------
(* Packages, reservations and the moves' states                            *)

\* child_of: p is q, its parent, the parent's parent...
Within(q, p) ==
  /\ q # None
  /\ \A above \in SUBSET Packs :
       /\ q \in above
       /\ \A r \in above : Parent[r] \in above \cup {None}
       => p \in above

\* get_content: the quants of a package and of the packages in it.
Content(p) == {q \in Quants : Within(quants[q].pack, p)}

ReservedFor(m) == {q \in Quants : reservation[q] = m}
ReservedQty(m) == QuantsQty(ReservedFor(m))

PickingQuants == {q \in Quants : reservation[q] \in Moves}

Assigned(m) == moves[m].forced \/ ReservedQty(m) = moves[m].qty
PartiallyAvailable(m) == ReservedQty(m) \in 1 .. moves[m].qty - 1

\* forced_qties of recalculate_forced_qties_with_uom
ForcedQty ==
  SumFunctionOnSet([m \in Moves |-> moves[m].qty - ReservedQty(m)],
                   {m \in Moves : Assigned(m)})

HasLine(m) == moves[m].line # None

-----------------------------------------------------------------------------
(* do_prepare_partial: from reservations to operations                     *)

\* An operation on a whole package has no product, hence no quantity in it.
WholePackage(p) == [whole |-> TRUE, pack |-> p, lot |-> None, line |-> None,
                    qty |-> 1]

MovedWhole(p) == Content(p) # {} /\ Content(p) \subseteq PickingQuants

\* Mutant of TopLevelPackages: packages in packages that are moved too.
MovedWholePackages == {p \in Packs : MovedWhole(p)}

\* _get_top_level_packages climbs from the package of each quant for as long
\* as everything in the package is moved.
TopLevelPackages ==
  {p \in Packs : MovedWhole(p) /\ (Parent[p] # None => ~MovedWhole(Parent[p]))}

LooseQuants == PickingQuants \ UNION {Content(p) : p \in TopLevelPackages}

\* The keys of qtys_grouped, and the quantities
Groups ==
  {[pack |-> quants[q].pack, lot |-> quants[q].lot] : q \in LooseQuants}
    \cup (IF ForcedQty > 0 THEN {[pack |-> None, lot |-> None]} ELSE {})

GroupQty(g) ==
  QuantsQty({q \in LooseQuants : quants[q].pack = g.pack /\ quants[q].lot = g.lot})
    + (IF g.pack = None /\ g.lot = None THEN ForcedQty ELSE 0)

PreparedOp(g) == [whole |-> FALSE, pack |-> g.pack, lot |-> g.lot,
                  line |-> None, qty |-> GroupQty(g)]

Operations ==
  [whole : BOOLEAN, pack : Packs \cup {None}, lot : Lots \cup {None},
   line : Lines \cup {None}, qty : Nat]

\* The sale module takes the quantity reserved for a line off the groups.  What
\* it takes off a group is capped by the quantity of the line, not by what is
\* still to take.
TakeOff(lineQty) ==
  [item \in Operations |->
     [acc \in [toRemove : Int, items : Seq(Operations)] |->
        LET taken == IF acc.toRemove # 0
                     THEN IF item.qty < lineQty THEN item.qty ELSE lineQty
                     ELSE 0
        IN [toRemove |-> acc.toRemove - taken,
            items |-> Append(acc.items, [item EXCEPT !.qty = @ - taken])]]]

\* One turn of the loop over the moves that have a line: the line gets an
\* operation copied from the first group.
AddLine ==
  [line \in Lines |-> [acc \in [items : Seq(Operations), vals : Seq(Operations)] |->
     LET lineQty == SumFunctionOnSet([m \in Moves |-> ReservedQty(m)],
                                     {m \in Moves : moves[m].line = line})
         items == Through(TakeOff(lineQty), acc.items,
                          [toRemove |-> lineQty, items |-> <<>>]).items
     IN IF lineQty = 0 THEN acc
        ELSE [items |-> items,
              vals |-> IF items = <<>> THEN acc.vals
                       ELSE Append(acc.vals, [items[1] EXCEPT !.line = line,
                                                              !.qty = lineQty])]]]

\* What the lines leave of a group, for the moves without one
AddRest ==
  [item \in Operations |-> [vals \in Seq(Operations) |->
     IF item.qty = 0 THEN vals ELSE Append(vals, item)]]

\* The order lines of the picking, in the order of its moves
LinesInOrder ==
  LET first == ById({m \in Moves : /\ HasLine(m)
                                   /\ \A n \in 1 .. m - 1 :
                                        moves[n].line # moves[m].line})
  IN [i \in DOMAIN first |-> moves[first[i]].line]

\* add_packop_values
AddPackopValues(vals, prevals) ==
  IF \A m \in Moves : ~HasLine(m) THEN vals \o prevals
  ELSE LET acc == Through(AddLine, LinesInOrder,
                          [items |-> prevals, vals |-> vals])
       IN IF \E m \in Moves : ~HasLine(m)
          THEN Through(AddRest, acc.items, acc.vals)
          ELSE acc.vals

-----------------------------------------------------------------------------
(* recompute_remaining_qty: from operations to links                       *)

\* The moves that _create_prod2move_ids puts in the table: as soon as a move
\* of the picking has a sale line, only those that have one.
InTable == IF \E m \in Moves : HasLine(m) THEN {m \in Moves : HasLine(m)}
           ELSE Moves

Weight(m) == (IF Assigned(m) THEN -2 ELSE 0)
               + (IF PartiallyAvailable(m) THEN -1 ELSE 0)

\* ORDER BY poids, then by the order of moves
MoveOrder == Sorted(InTable, [m \in InTable |-> Weight(m)])

\* get_list_operations_to_process, and sort_operations_for_transfer in each:
\* operations with a sale line, whole packages, a lot in a package, a package,
\* a lot.
OpWeight(o) == (IF ops[o].line # None THEN -16 ELSE 0)
                 + (IF ops[o].whole THEN -4 ELSE 0)
                 + (IF ops[o].pack # None THEN -2 ELSE 0)
                 + (IF ops[o].lot # None THEN -1 ELSE 0)

OpOrder == Sorted(DOMAIN ops, [o \in DOMAIN ops |-> OpWeight(o)])

\* The state of the algorithm while it processes one operation: the table, the
\* links, the quantity of the operation that no link covers yet, and what it
\* defers.
Links == [move : Moves, op : Nat \ {0}, qty : Nat \ {0}, quant : Quants \cup {None}]

Progress == [left : [Moves -> Nat], links : Seq(Links), need : Nat,
             rest : Seq([op : Nat, qty : Nat \ {0}])]

Linking(need) == [left |-> left, links |-> links, need |-> need, rest |-> <<>>]

\* _create_link_for_index: a link for at most qty, for as much as the move has
\* left.  A move with nothing left has gone from the table.
LinkMove(acc, o, m, qty, quant) ==
  LET linked == IF acc.left[m] < qty THEN acc.left[m] ELSE qty
  IN IF linked = 0 THEN acc
     ELSE [acc EXCEPT !.left[m] = @ - linked,
                      !.links = Append(@, [move |-> m, op |-> o, qty |-> linked,
                                           quant |-> quant]),
                      !.need = @ - linked]

\* _create_link_for_quant: on the move the quant is reserved for, if this move
\* is in the table.
LinkQuant(acc, o, q, qty) ==
  IF reservation[q] \in Moves THEN LinkMove(acc, o, reservation[q], qty, q)
  ELSE acc

\* The quant fits the details of the operation.  For an operation in a package
\* any package will do: the search for packages does not look at the quant's.
Fits(o, q) ==
  /\ (ops[o].pack # None) <=> (quants[q].pack # None)
  /\ ops[o].lot \in {None, quants[q].lot}

\* _get_move_data_from_prod2move_ids: an operation with a sale line finds no
\* move here, as the sale line is looked up one level above where it is kept.
MoveData(o) == IF ops[o].line = None THEN MoveOrder ELSE <<>>

\* An operation on products: the reserved quants of each move, by id
LinkFitting(o) ==
  [q \in Quants |-> [acc \in Progress |->
     IF q \in packDone \/ ~Fits(o, q) THEN acc
     ELSE LinkQuant(acc, o, q, IF quants[q].qty < acc.need THEN quants[q].qty
                               ELSE acc.need)]]

LinkProductOp(o) ==
  Through([m \in Moves |-> [acc \in Progress |->
             Through(LinkFitting(o), ById(ReservedFor(m)), acc)]],
          MoveData(o), Linking(ops[o].qty))

\* An operation on a whole package: each of its quants by id, with what is left
\* of the quant deferred on its own.
LinkWhole(o) ==
  [q \in Quants |-> [acc \in Progress |->
     LET next == LinkQuant(acc, o, q, quants[q].qty)
         rest == quants[q].qty - (acc.need - next.need)
     IN [next EXCEPT !.rest = IF rest = 0 THEN @
                              ELSE Append(@, [op |-> o, qty |-> rest])]]]

LinkPackageOp(o) ==
  Through(LinkWhole(o), ById(Content(ops[o].pack)),
          Linking(QuantsQty(Content(ops[o].pack))))

\* The moves that _create_link_for_product may take for an operation: all, for
\* an operation with a sale line those of the line.
Suits(o, m) == ops[o].line \in {None, moves[m].line}

\* Mutant of LinkAnyMove: the sale lines of operations are ignored.
LinkFirstMove(o, qty) ==
  Through([m \in Moves |-> [acc \in Progress |->
             LinkMove(acc, o, m, acc.need, None)]],
          MoveOrder, Linking(qty))

\* _create_link_for_product: the first moves of the table until qty is linked.
LinkAnyMove(o, qty) ==
  Through([m \in Moves |-> [acc \in Progress |->
             IF Suits(o, m) THEN LinkMove(acc, o, m, acc.need, None) ELSE acc]],
          MoveOrder, Linking(qty))

-----------------------------------------------------------------------------
Init ==
  /\ moves \in Pickings
  /\ quants \in Stocks
  /\ reservation \in [DOMAIN quants -> (DOMAIN moves) \cup {None, Other}]
  /\ \A m \in Moves : ReservedQty(m) <= moves[m].qty
  /\ ops = <<>>
  /\ prepared = FALSE
  /\ edits = 0
  /\ pc = "idle"
  /\ todo = <<>>
  /\ links = <<>>
  /\ left = [m \in Moves |-> 0]
  /\ packDone = {}
  /\ still_to_do = <<>>
  /\ need_rereserve = FALSE
  /\ all_op_processed = TRUE

\* do_prepare_partial replaces the operations by those of _prepare_pack_ops,
\* whose dictionaries come out in any order, and recomputes the links.
Prepare ==
  /\ pc \in {"idle", "done"}
  /\ ~prepared
  /\ PickingQuants # {} \/ ForcedQty > 0
  /\ \E packs \in SetToSeqs(TopLevelPackages), groups \in SetToSeqs(Groups) :
       ops' = AddPackopValues([i \in DOMAIN packs |-> WholePackage(packs[i])],
                              [i \in DOMAIN groups |-> PreparedOp(groups[i])])
  /\ prepared' = TRUE
  /\ pc' = IF ops' = <<>> THEN "idle" ELSE "start"
  /\ UNCHANGED <<given, edits, todo, recomputed>>

\* Users and scanners change the operations while nothing is computed.
Edit(newOps) ==
  /\ pc \in {"idle", "done"}
  /\ edits < MaxEdits
  /\ ops' = newOps
  /\ edits' = edits + 1
  /\ prepared' = FALSE
  /\ pc' = "idle"
  /\ UNCHANGED <<given, todo, recomputed>>

ChangeQty ==
  \E o \in DOMAIN ops, n \in EditQtys :
    /\ ~ops[o].whole
    /\ n # ops[o].qty
    /\ Edit([ops EXCEPT ![o].qty = n])

\* The lines offered are those of the order that the picking delivers.
AddProductOp ==
  \E p \in Packs \cup {None}, l \in Lots \cup {None}, n \in EditQtys,
     line \in {None} \cup (IF \E m \in Moves : HasLine(m) THEN Lines ELSE {}) :
    Edit(Append(ops, [whole |-> FALSE, pack |-> p, lot |-> l, line |-> line,
                      qty |-> n]))

AddPackageOp ==
  \E p \in Packs :
    /\ Content(p) # {}
    /\ \A o \in DOMAIN ops :
         ops[o].whole => ~Within(p, ops[o].pack) /\ ~Within(ops[o].pack, p)
    /\ Edit(Append(ops, WholePackage(p)))

\* recompute_remaining_qty starts again from scratch.
Recompute ==
  /\ pc \in {"idle", "start"}
  /\ ops # <<>>
  /\ pc' = "quants"
  /\ todo' = OpOrder
  /\ links' = <<>>
  /\ left' = [m \in Moves |-> IF m \in InTable THEN moves[m].qty ELSE 0]
  /\ packDone' = {}
  /\ still_to_do' = <<>>
  /\ need_rereserve' = FALSE
  /\ all_op_processed' = TRUE
  /\ UNCHANGED <<given, ops, prepared, edits>>

\* One turn of the loop of process_operations_for_transfer
Defer(rest) ==
  /\ still_to_do' = still_to_do \o rest
  /\ need_rereserve' = (need_rereserve \/ rest # <<>>)

ProcessPackage(o) ==
  LET acc == LinkPackageOp(o)
  IN /\ ops[o].whole
     /\ left' = acc.left
     /\ links' = acc.links
     /\ packDone' = packDone \cup {q \in Content(ops[o].pack) :
                                    reservation[q] # None}
     /\ Defer(acc.rest)

\* Mutant of ProcessProduct: deferred with nothing left to link, too.
ProcessProductDeferred(o) ==
  LET acc == LinkProductOp(o)
  IN /\ ~ops[o].whole
     /\ left' = acc.left
     /\ links' = acc.links
     /\ Defer(<<[op |-> o, qty |-> acc.need]>>)
     /\ UNCHANGED packDone

ProcessProduct(o) ==
  LET acc == LinkProductOp(o)
  IN /\ ~ops[o].whole
     /\ left' = acc.left
     /\ links' = acc.links
     /\ Defer(IF acc.need = 0 THEN <<>> ELSE <<[op |-> o, qty |-> acc.need]>>)
     /\ UNCHANGED packDone

ProcessOperation ==
  /\ pc = "quants"
  /\ todo # <<>>
  /\ ProcessPackage(Head(todo)) \/ ProcessProduct(Head(todo))
  /\ todo' = Tail(todo)
  /\ UNCHANGED <<given, ops, prepared, edits, pc, all_op_processed>>

\* "then, process the remaining part"
StartRest ==
  /\ pc = "quants"
  /\ todo = <<>>
  /\ pc' = "rest"
  /\ UNCHANGED <<given, ops, prepared, edits, todo, recomputed>>

\* Mutant of ProcessRest: only the last operation counts.
ProcessRestAlone ==
  /\ pc = "rest"
  /\ still_to_do # <<>>
  /\ LET acc == LinkAnyMove(Head(still_to_do).op, Head(still_to_do).qty)
     IN /\ left' = acc.left
        /\ links' = acc.links
        /\ all_op_processed' = (acc.need = 0)
  /\ still_to_do' = Tail(still_to_do)
  /\ UNCHANGED <<given, ops, prepared, edits, pc, todo, packDone,
                 need_rereserve>>

ProcessRest ==
  /\ pc = "rest"
  /\ still_to_do # <<>>
  /\ LET acc == LinkAnyMove(Head(still_to_do).op, Head(still_to_do).qty)
     IN /\ left' = acc.left
        /\ links' = acc.links
        /\ all_op_processed' = (all_op_processed /\ acc.need = 0)
  /\ still_to_do' = Tail(still_to_do)
  /\ UNCHANGED <<given, ops, prepared, edits, pc, todo, packDone,
                 need_rereserve>>

Return ==
  /\ pc = "rest"
  /\ still_to_do = <<>>
  /\ pc' = "done"
  /\ UNCHANGED <<given, ops, prepared, edits, todo, recomputed>>

Next == \/ Prepare \/ ChangeQty \/ AddProductOp \/ AddPackageOp
        \/ Recompute \/ ProcessOperation \/ StartRest \/ ProcessRest \/ Return

Spec == Init /\ [][Next]_vars

-----------------------------------------------------------------------------
(* What the stored fields compute from the links                           *)

LinkedQty(S) == SumFunctionOnSet([i \in DOMAIN links |-> links[i].qty], S)

\* remaining_qty of a move: _get_remaining_qty
RemainingQty(m) ==
  moves[m].qty - LinkedQty({i \in DOMAIN links : links[i].move = m})

\* What an operation still has to be linked: _get_remaining_prod_quantities
OpQty(o) == IF ops[o].whole
            THEN QuantsQty(Content(ops[o].pack))
            ELSE ops[o].qty

OpRemaining(o) == OpQty(o) - LinkedQty({i \in DOMAIN links : links[i].op = o})

-----------------------------------------------------------------------------
\* The variables have the types of the fields and of the algorithm's tables.
TypeOK ==
  /\ ops \in Seq(Operations)
  /\ \A o \in DOMAIN ops : ops[o].whole => ops[o].pack \in Packs
  /\ prepared \in BOOLEAN
  /\ edits \in 0 .. MaxEdits
  /\ pc \in {"idle", "start", "quants", "rest", "done"}
  /\ todo \in Seq(DOMAIN ops)
  /\ links \in Seq(Links)
  /\ left \in [Moves -> Nat]
  /\ packDone \subseteq Quants
  /\ still_to_do \in Seq([op : DOMAIN ops, qty : Nat \ {0}])
  /\ {need_rereserve, all_op_processed} \subseteq BOOLEAN

\* At every point of the computation the links stay within what there is to
\* link: no move and no operation is linked for more than its quantity, what
\* the algorithm keeps as left of a move is what remaining_qty computes from
\* the links, a link through a quant is on the move that reserved it, a quant
\* in an operation on a whole package is in no other operation, and an
\* operation with a sale line takes from the moves of this line only.
LinksFit ==
  pc \in {"quants", "rest", "done"} =>
    /\ \A m \in Moves : RemainingQty(m) >= 0
    /\ \A m \in InTable : left[m] = RemainingQty(m)
    /\ \A o \in DOMAIN ops : OpRemaining(o) >= 0
    /\ \A i \in DOMAIN links :
         LET link == links[i]
         IN /\ link.quant # None =>
                 /\ reservation[link.quant] = link.move
                 /\ \A j \in DOMAIN links :
                      ops[link.op].whole /\ links[j].quant = link.quant => j = i
            /\ ~ops[link.op].whole => Suits(link.op, link.move)

\* The two results of recompute_remaining_qty are true: all_op_processed says
\* whether nothing of any operation is without a link, need_rereserve whether
\* something is not linked through a reserved quant; and an operation is only
\* left short, for which the transfer creates an extra move, when no move of
\* the table that suits it has anything left.
VerdictIsTrue ==
  pc = "done" =>
    /\ all_op_processed <=> \A o \in DOMAIN ops : OpRemaining(o) = 0
    /\ need_rereserve <=> \/ ~all_op_processed
                          \/ \E i \in DOMAIN links : links[i].quant = None
    /\ \A o \in DOMAIN ops :
         OpRemaining(o) > 0 =>
           \A m \in InTable :
             ops[o].whole \/ Suits(o, m) => RemainingQty(m) = 0

\* The operations that do_prepare_partial proposes for a picking without sale
\* lines carry what is reserved or forced, no more and no less, and can be
\* transferred as they are: every one is linked in full, and with no need to
\* reserve again when nothing was forced and no package is opened.  (With an
\* opened package a quant may serve two operations, and another lacks its own.)
PreparedIsReserved ==
  pc = "done" /\ prepared /\ (\A m \in Moves : ~HasLine(m)) =>
    /\ SumFunction([o \in DOMAIN ops |-> OpQty(o)]) = QuantsQty(PickingQuants) + ForcedQty
    /\ all_op_processed
    /\ ForcedQty = 0 /\ (\A q \in LooseQuants : quants[q].pack = None) =>
         ~need_rereserve
=============================================================================
