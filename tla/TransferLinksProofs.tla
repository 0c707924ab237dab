------------------------- MODULE TransferLinksProofs -------------------------
(***************************************************************************)
(* The links of a picking stay within what there is to link and the two    *)
(* results of recompute_remaining_qty are true, for every picking, stock,  *)
(* tree of packages and reservations, and whatever users make of the       *)
(* operations: LinksStayWithin and VerdictsAreTrue.  And the operations    *)
(* that do_prepare_partial proposes carry what is reserved and are linked  *)
(* in full: PreparedAsReserved, at the end.                                *)
(*                                                                         *)
(* The first two follow from one invariant, Inv, which weighs at every     *)
(* turn of the two loops what is linked against what is left: per move the *)
(* table and the links, per operation the links and what is deferred.  The *)
(* turns are loops themselves, over moves and quants, that lemmas on       *)
(* Through reduce to their steps.                                          *)
(*                                                                         *)
(* The last one takes two invariants more: the operations are those        *)
(* prepared, each once (PreparedInv), and what the quants of the           *)
(* operations that wait are to find stays left on their moves (DirectInv). *)
(* Nothing is short then as the operations together ask for no more than   *)
(* the moves have.                                                         *)
(***************************************************************************)
EXTENDS TransferLinks, FoldLemmas, TLAPS

-----------------------------------------------------------------------------
(* The inductive invariant *)

\* The quantity that a row of links puts on a move, and of an operation
OfMove(row, m) == QtyOf(row, {i \in DOMAIN row : row[i].move = m})
OfOp(row, o) == QtyOf(row, {i \in DOMAIN row : row[i].op = o})

Waiting(o) == \E i \in DOMAIN todo : todo[i] = o

\* What of an operation is linked or deferred
Covered(o) == OfOp(links, o) + OfOp(still_to_do, o)

Table == [m \in Moves |-> IF m \in InTable THEN moves[m].qty ELSE 0]

\* The picking, its quants and its reservations are those of the initial states.
GivenInv ==
  /\ moves \in Pickings
  /\ quants \in Stocks
  /\ reservation \in [Quants -> Moves \cup {None, Other}]
  /\ \A m \in Moves : ReservedQty(m) <= moves[m].qty

\* Operations on whole packages carry no line and have nothing in common.
WholeInv ==
  \A o \in DOMAIN ops : ops[o].whole =>
    /\ ops[o].line = None
    /\ \A n \in DOMAIN ops \ {o} : ops[n].whole =>
         Content(ops[o].pack) \cap Content(ops[n].pack) = {}

\* Operations wait in the first part only, once and in their order.
TodoInv ==
  /\ pc # "quants" => todo = <<>>
  /\ pc \in {"idle", "start", "done"} => still_to_do = <<>>
  /\ \A i, j \in DOMAIN todo :
       i < j => todo[i] # todo[j] /\ OpWeight(todo[i]) <= OpWeight(todo[j])

\* The table has what the links leave of the moves in it.
TableInv ==
  pc \in {"quants", "rest", "done"} =>
    \A m \in Moves : left[m] + OfMove(links, m) = Table[m]

\* In the first part an operation is covered when it has been processed and not
\* at all before; afterwards it is short of cover only when the moves that suit
\* it are used up, and then the verdict is negative.
CoverInv ==
  /\ pc = "quants" =>
       /\ all_op_processed
       /\ \A o \in DOMAIN ops : Covered(o) = IF Waiting(o) THEN 0 ELSE OpQty(o)
  /\ pc \in {"rest", "done"} =>
       /\ \A o \in DOMAIN ops : Covered(o) <= OpQty(o)
       /\ all_op_processed <=> \A o \in DOMAIN ops : Covered(o) = OpQty(o)
       /\ \A o \in DOMAIN ops : Covered(o) < OpQty(o) =>
            \A m \in InTable : Suits(o, m) => left[m] = 0

\* Links through quants are on the move that reserved the quant, and those of an
\* operation on a package have its quants for themselves; operations on products
\* come after them, and only take quants they leave alone.
LinkInv ==
  pc \in {"quants", "rest", "done"} =>
    \A i \in DOMAIN links :
      LET link == links[i]
      IN /\ link.op \in DOMAIN ops
         /\ ~ops[link.op].whole => Suits(link.op, link.move)
         /\ link.quant # None =>
              /\ reservation[link.quant] = link.move
              /\ ops[link.op].whole =>
                   /\ link.quant \in Content(ops[link.op].pack)
                   /\ \A j \in DOMAIN links : links[j].quant = link.quant => j = i
              /\ ~ops[link.op].whole => \A k \in DOMAIN todo : ~ops[todo[k]].whole

PackDoneInv ==
  pc = "quants" =>
    \A o \in DOMAIN ops : ops[o].whole /\ ~Waiting(o) =>
      \A q \in Content(ops[o].pack) : reservation[q] # None => q \in packDone

\* To reserve again is asked for exactly when something is deferred, and what is
\* deferred ends as a link through no quant or as a shortage.
RereserveInv ==
  /\ pc = "quants" =>
       /\ need_rereserve <=> still_to_do # <<>>
       /\ \A i \in DOMAIN links : links[i].quant # None
  /\ pc \in {"rest", "done"} =>
       (need_rereserve <=> \/ ~all_op_processed
                           \/ still_to_do # <<>>
                           \/ \E i \in DOMAIN links : links[i].quant = None)

Inv == /\ TypeOK
       /\ GivenInv
       /\ WholeInv
       /\ TodoInv
       /\ TableInv
       /\ CoverInv
       /\ LinkInv
       /\ PackDoneInv
       /\ RereserveInv

-----------------------------------------------------------------------------
(* Quantities by move and by operation *)

\* The quantity at some places of a row is a natural number, and at least that of each of them.
LEMMA QtyNat ==
  ASSUME NEW R, \A r \in R : r.qty \in Nat, NEW row \in Seq(R), NEW S \in SUBSET DOMAIN row
  PROVE  QtyOf(row, S) \in Nat /\ \A i \in S : row[i].qty <= QtyOf(row, S)
<1> DEFINE w == [i \in DOMAIN row |-> row[i].qty]
<1>1. IsFiniteSet(S)
  <2>1. Len(row) \in Nat /\ DOMAIN row = 1 .. Len(row)
    OBVIOUS
  <2>2. IsFiniteSet(1 .. Len(row))
    BY <2>1, FS_Interval
  <2> QED BY <2>1, <2>2, FS_Subset
<1>2. \A i \in S : w[i] = row[i].qty /\ w[i] \in Nat
  <2> TAKE i \in S
  <2>1. row[i] \in R /\ i \in DOMAIN row
    OBVIOUS
  <2> QED BY <2>1
<1> HIDE DEF w
<1>3. SumFunctionOnSet(w, S) \in Nat /\ \A i \in S : w[i] <= SumFunctionOnSet(w, S)
  BY <1>1, <1>2, SumNat
<1>4. QtyOf(row, S) = SumFunctionOnSet(w, S)
  BY DEF QtyOf, w
<1> QED BY <1>2, <1>3, <1>4

\* ... an integer when those are.
LEMMA QtyInt ==
  ASSUME NEW R, \A r \in R : r.qty \in Int, NEW row \in Seq(R), NEW S \in SUBSET DOMAIN row
  PROVE  QtyOf(row, S) \in Int
<1> DEFINE w == [i \in DOMAIN row |-> row[i].qty]
<1>1. IsFiniteSet(S)
  <2>1. Len(row) \in Nat /\ DOMAIN row = 1 .. Len(row)
    OBVIOUS
  <2>2. IsFiniteSet(1 .. Len(row))
    BY <2>1, FS_Interval
  <2> QED BY <2>1, <2>2, FS_Subset
<1>2. \A i \in S : w[i] \in Int
  <2> TAKE i \in S
  <2>1. row[i] \in R /\ i \in DOMAIN row
    OBVIOUS
  <2> QED BY <2>1
<1> HIDE DEF w
<1>3. SumFunctionOnSet(w, S) \in Int
  BY <1>1, <1>2, SumType
<1> QED BY <1>3 DEF QtyOf, w

LEMMA OfNat ==
  ASSUME NEW R, \A r \in R : r.qty \in Nat, NEW row \in Seq(R), NEW o
  PROVE  /\ OfOp(row, o) \in Nat
         /\ OfMove(row, o) \in Nat
         /\ \A i \in DOMAIN row : row[i].op = o => row[i].qty <= OfOp(row, o)
<1> DEFINE S == {i \in DOMAIN row : row[i].op = o}
           T == {i \in DOMAIN row : row[i].move = o}
<1>1. S \in SUBSET DOMAIN row /\ T \in SUBSET DOMAIN row
  OBVIOUS
<1>2. OfOp(row, o) = QtyOf(row, S) /\ OfMove(row, o) = QtyOf(row, T)
  BY DEF OfOp, OfMove
<1>3. \A i \in DOMAIN row : row[i].op = o => i \in S
  OBVIOUS
<1> HIDE DEF S, T
<1>4. QtyOf(row, S) \in Nat /\ \A i \in S : row[i].qty <= QtyOf(row, S)
  BY <1>1, QtyNat
<1>5. QtyOf(row, T) \in Nat
  BY <1>1, QtyNat
<1> QED BY <1>2, <1>3, <1>4, <1>5

\* Nothing has no quantity, and one thing more adds its own.
LEMMA OfEmpty ==
  ASSUME NEW o PROVE OfOp(<<>>, o) = 0 /\ OfMove(<<>>, o) = 0
<1>1. {i \in DOMAIN <<>> : (<<>>)[i].op = o} = {} /\ {i \in DOMAIN <<>> : (<<>>)[i].move = o} = {}
  OBVIOUS
<1>2. \A w : SumFunctionOnSet(w, {}) = 0
  BY SumEmpty
<1>3. QtyOf(<<>>, {}) = 0
  BY <1>2 DEF QtyOf
<1>4. OfOp(<<>>, o) = QtyOf(<<>>, {}) /\ OfMove(<<>>, o) = QtyOf(<<>>, {})
  BY <1>1, Zenon DEF OfOp, OfMove
<1> QED BY <1>3, <1>4

LEMMA OfAppend ==
  ASSUME NEW R, \A r \in R : r.qty \in Int, NEW row \in Seq(R), NEW x \in R, NEW o
  PROVE  /\ OfOp(Append(row, x), o) = OfOp(row, o) + IF x.op = o THEN x.qty ELSE 0
         /\ OfMove(Append(row, x), o) = OfMove(row, o) + IF x.move = o THEN x.qty ELSE 0
<1> DEFINE n == Len(row)
           next == Append(row, x)
           S == {i \in DOMAIN row : row[i].op = o}
           T == {i \in DOMAIN row : row[i].move = o}
           S1 == {i \in DOMAIN next : next[i].op = o}
           T1 == {i \in DOMAIN next : next[i].move = o}
<1>1. /\ n \in Nat /\ DOMAIN row = 1 .. n /\ DOMAIN next = 1 .. n + 1 /\ next[n + 1] = x
      /\ \A i \in 1 .. n : next[i] = row[i]
  OBVIOUS
<1>2. S1 = (IF x.op = o THEN S \cup {n + 1} ELSE S)
  <2> HIDE DEF n, next
  <2> QED BY <1>1
<1>3. T1 = (IF x.move = o THEN T \cup {n + 1} ELSE T)
  <2> HIDE DEF n, next
  <2> QED BY <1>1
<1>4. S \in SUBSET DOMAIN row /\ T \in SUBSET DOMAIN row
  OBVIOUS
<1>5. /\ OfOp(next, o) = QtyOf(next, S1) /\ OfOp(row, o) = QtyOf(row, S)
      /\ OfMove(next, o) = QtyOf(next, T1) /\ OfMove(row, o) = QtyOf(row, T)
  BY DEF OfOp, OfMove
<1> HIDE DEF S, T, S1, T1
<1>6. /\ QtyOf(next, S) = QtyOf(row, S)
      /\ QtyOf(next, S \cup {n + 1}) = QtyOf(row, S) + x.qty
  BY <1>4, QtyAppend
<1>7. /\ QtyOf(next, T) = QtyOf(row, T)
      /\ QtyOf(next, T \cup {n + 1}) = QtyOf(row, T) + x.qty
  BY <1>4, QtyAppend
<1>8. QtyOf(row, S) \in Int /\ QtyOf(row, T) \in Int
  BY <1>4, QtyInt
<1> HIDE DEF n, next
<1>9. QtyOf(next, S1) = QtyOf(row, S) + IF x.op = o THEN x.qty ELSE 0
  BY <1>2, <1>6, <1>8
<1>10. QtyOf(next, T1) = QtyOf(row, T) + IF x.move = o THEN x.qty ELSE 0
  BY <1>3, <1>7, <1>8
<1> QED BY <1>5, <1>9, <1>10 DEF next

LEMMA OfConcat ==
  ASSUME NEW R, \A r \in R : r.qty \in Int, NEW row \in Seq(R), NEW more \in Seq(R), NEW o
  PROVE  OfOp(row \o more, o) = OfOp(row, o) + OfOp(more, o)
<1> DEFINE n == Len(row)
           next == row \o more
           S == {i \in DOMAIN row : row[i].op = o}
           U == {i \in DOMAIN more : more[i].op = o}
           S1 == {i \in DOMAIN next : next[i].op = o}
<1>1. /\ n \in Nat /\ DOMAIN row = 1 .. n /\ Len(more) \in Nat /\ DOMAIN more = 1 .. Len(more)
      /\ DOMAIN next = 1 .. n + Len(more)
      /\ \A i \in 1 .. n : next[i] = row[i]
      /\ \A i \in 1 .. Len(more) : next[n + i] = more[i]
  OBVIOUS
<1>2. S1 = S \cup {n + i : i \in U}
  <2> HIDE DEF n, next
  <2>1. \A i \in 1 .. n + Len(more) : i \in 1 .. n \/ i - n \in 1 .. Len(more)
    BY <1>1
  <2>2. \A i \in 1 .. n + Len(more) : i = n + (i - n)
    BY <1>1
  <2>3. \A i \in S1 : i \in S \/ \E j \in U : i = n + j
    <3> TAKE i \in S1
    <3>1. CASE i \in 1 .. n
      BY <1>1, <3>1
    <3>2. CASE i - n \in 1 .. Len(more)
      <4> DEFINE j == i - n
      <4>1. next[n + j] = more[j] /\ i = n + j /\ next[i].op = o
        BY <1>1, <2>2, <3>2
      <4>2. j \in U
        BY <1>1, <3>2, <4>1
      <4> QED BY <4>1, <4>2
    <3> QED BY <1>1, <2>1, <3>1, <3>2
  <2>4. \A i \in S : i \in S1
    BY <1>1
  <2>5. \A j \in U : n + j \in S1
    <3> TAKE j \in U
    <3>1. j \in 1 .. Len(more) /\ more[j].op = o
      BY <1>1
    <3> HIDE DEF U
    <3>2. n + j \in 1 .. n + Len(more)
      BY <1>1, <3>1
    <3>3. next[n + j] = more[j]
      BY <1>1, <3>1
    <3> QED BY <1>1, <3>1, <3>2, <3>3
  <2> HIDE DEF S, U, S1
  <2> QED BY <2>3, <2>4, <2>5
<1>3. S \in SUBSET DOMAIN row /\ U \in SUBSET DOMAIN more
  OBVIOUS
<1>4. OfOp(next, o) = QtyOf(next, S1) /\ OfOp(row, o) = QtyOf(row, S) /\ OfOp(more, o) = QtyOf(more, U)
  BY DEF OfOp
<1> HIDE DEF S, U, S1
<1>5. QtyOf(next, S \cup {n + i : i \in U}) = QtyOf(row, S) + QtyOf(more, U)
  BY <1>3, QtyConcat
<1>6. QtyOf(next, S1) = QtyOf(next, S \cup {n + i : i \in U})
  BY <1>2, Zenon
<1> QED BY <1>4, <1>5, <1>6

-----------------------------------------------------------------------------
(* What is given *)

LEMMA GivenFacts ==
  ASSUME GivenInv
  PROVE  /\ IsFiniteSet(Moves) /\ Moves \subseteq Nat \ {0}
         /\ \A m \in Moves : /\ moves[m].qty \in Nat \ {0}
                             /\ moves[m].line \in Lines \cup {None}
                             /\ moves[m].forced \in BOOLEAN
         /\ IsFiniteSet(Quants) /\ Quants \subseteq Nat \ {0}
         /\ \A q \in Quants : /\ quants[q].qty \in Nat \ {0}
                              /\ quants[q].pack \in Packs \cup {None}
                              /\ quants[q].lot \in Lots \cup {None}
         /\ None \notin Moves /\ None \notin Quants
         /\ None \notin Lines /\ None \notin Packs
<1>1. moves \in Seq([qty : Nat \ {0}, line : Lines \cup {None}, forced : BOOLEAN])
  BY TransferAssumption DEF GivenInv
<1>2. quants \in Seq([qty : Nat \ {0}, pack : Packs \cup {None}, lot : Lots \cup {None}])
  BY TransferAssumption DEF GivenInv
<1>3. Moves = 1 .. Len(moves) /\ Len(moves) \in Nat /\ Quants = 1 .. Len(quants) /\ Len(quants) \in Nat
  BY <1>1, <1>2 DEF Moves, Quants
<1>4. IsFiniteSet(Moves) /\ IsFiniteSet(Quants)
  BY <1>3, FS_Interval
<1>5. Moves \subseteq Nat \ {0} /\ Quants \subseteq Nat \ {0}
  BY <1>3
<1>6. \A m \in Moves : /\ moves[m].qty \in Nat \ {0}
                       /\ moves[m].line \in Lines \cup {None}
                       /\ moves[m].forced \in BOOLEAN
  <2> TAKE m \in Moves
  <2> DEFINE R == [qty : Nat \ {0}, line : Lines \cup {None}, forced : BOOLEAN]
  <2>1. moves[m] \in R
    <3>1. moves \in Seq(R)
      BY <1>1
    <3> HIDE DEF R
    <3> QED BY <1>3, <3>1
  <2> QED BY <2>1
<1>7. \A q \in Quants : /\ quants[q].qty \in Nat \ {0}
                        /\ quants[q].pack \in Packs \cup {None}
                        /\ quants[q].lot \in Lots \cup {None}
  <2> TAKE q \in Quants
  <2> DEFINE R == [qty : Nat \ {0}, pack : Packs \cup {None}, lot : Lots \cup {None}]
  <2>1. quants[q] \in R
    <3>1. quants \in Seq(R)
      BY <1>2
    <3> HIDE DEF R
    <3> QED BY <1>3, <3>1
  <2> QED BY <2>1
<1>8. None \notin Nat /\ None \notin Lines /\ None \notin Packs
  BY TransferAssumption
<1> QED BY <1>4, <1>5, <1>6, <1>7, <1>8

\* Quants have a quantity, and so have the sets of them.
LEMMA QuantsNat ==
  ASSUME GivenInv, NEW S \in SUBSET Quants
  PROVE  IsFiniteSet(S) /\ QuantsQty(S) \in Nat
<1> DEFINE w == [q \in Quants |-> quants[q].qty]
<1>1. IsFiniteSet(S) /\ \A q \in S : w[q] \in Nat
  BY GivenFacts, FS_Subset
<1> HIDE DEF w
<1>2. SumFunctionOnSet(w, S) \in Nat
  BY <1>1, SumNat
<1> QED BY <1>1, <1>2 DEF QuantsQty, w

LEMMA QuantsRemove ==
  ASSUME GivenInv, NEW S \in SUBSET Quants, NEW q \in S
  PROVE  QuantsQty(S) = quants[q].qty + QuantsQty(S \ {q})
<1> DEFINE w == [x \in Quants |-> quants[x].qty]
<1>1. IsFiniteSet(S) /\ \A x \in S : w[x] \in Int
  BY GivenFacts, FS_Subset
<1>2. w[q] = quants[q].qty
  OBVIOUS
<1> HIDE DEF w
<1>3. SumFunctionOnSet(w, S) = w[q] + SumFunctionOnSet(w, S \ {q})
  BY <1>1, SumRemove
<1> QED BY <1>2, <1>3 DEF QuantsQty, w

LEMMA QuantsNone == QuantsQty({}) = 0
BY SumEmpty DEF QuantsQty

\* The moves of the table, and the quants of a set, in a row
LEMMA OrderFacts ==
  ASSUME GivenInv
  PROVE  /\ MoveOrder \in Seq(InTable) /\ InTable \subseteq Moves
         /\ \A m \in InTable : \E i \in DOMAIN MoveOrder : MoveOrder[i] = m
         /\ \A S \in SUBSET Quants :
              /\ ById(S) \in Seq(S)
              /\ \A q \in S : \E i \in DOMAIN ById(S) : ById(S)[i] = q
              /\ \A i, j \in DOMAIN ById(S) : i < j => ById(S)[i] # ById(S)[j]
<1>1. InTable \subseteq Moves
  BY DEF InTable
<1>2. InTable \in SUBSET Nat /\ IsFiniteSet(InTable)
  BY <1>1, GivenFacts, FS_Subset
<1>3. /\ MoveOrder \in Seq(InTable)
      /\ \A m \in InTable : \E i \in DOMAIN MoveOrder : MoveOrder[i] = m
  <2> DEFINE w == [m \in InTable |-> Weight(m)]
  <2>1. \A m \in InTable : w[m] \in Int
    BY DEF Weight
  <2>2. MoveOrder = Sorted(InTable, w)
    BY DEF MoveOrder
  <2> HIDE DEF w
  <2>3. /\ Sorted(InTable, w) \in Seq(InTable)
        /\ \A m \in InTable : \E i \in DOMAIN Sorted(InTable, w) : Sorted(InTable, w)[i] = m
    BY <1>2, <2>1, SortedSeq
  <2> QED BY <2>2, <2>3
<1>4. ASSUME NEW S \in SUBSET Quants
      PROVE  /\ ById(S) \in Seq(S)
             /\ \A q \in S : \E i \in DOMAIN ById(S) : ById(S)[i] = q
             /\ \A i, j \in DOMAIN ById(S) : i < j => ById(S)[i] # ById(S)[j]
  <2> DEFINE w == [x \in S |-> 0]
  <2>1. S \in SUBSET Nat /\ IsFiniteSet(S) /\ \A x \in S : w[x] \in Int
    BY GivenFacts, FS_Subset
  <2>2. ById(S) = Sorted(S, w)
    BY DEF ById
  <2> HIDE DEF w
  <2>3. /\ Sorted(S, w) \in Seq(S)
        /\ \A q \in S : \E i \in DOMAIN Sorted(S, w) : Sorted(S, w)[i] = q
        /\ \A i, j \in DOMAIN Sorted(S, w) : i < j => Sorted(S, w)[i] # Sorted(S, w)[j]
    BY <2>1, SortedSeq
  <2> QED BY <2>2, <2>3
<1> QED BY <1>1, <1>3, <1>4

-----------------------------------------------------------------------------
(* One link *)

\* next is acc with a link for quantity d, if there is any.
LinkedBy(acc, next, o, m, qty, quant, d) ==
  /\ d = IF acc.left[m] < qty THEN acc.left[m] ELSE qty
  /\ next \in Progress
  /\ next.need = acc.need - d
  /\ next.rest = acc.rest
  /\ next.left[m] = acc.left[m] - d
  /\ \A n \in Moves \ {m} : next.left[n] = acc.left[n]
  /\ d = 0 => next.links = acc.links
  /\ d # 0 => \E link \in Links :
                /\ link = [move |-> m, op |-> o, qty |-> d, quant |-> quant]
                /\ next.links = Append(acc.links, link)

LEMMA LinkMoveFacts ==
  ASSUME NEW acc \in Progress, NEW o \in Nat \ {0}, NEW m \in Moves, NEW qty \in Nat,
         qty <= acc.need, NEW quant \in Quants \cup {None}
  PROVE  \E d \in Nat : LinkedBy(acc, LinkMove(acc, o, m, qty, quant), o, m, qty, quant, d)
<1> DEFINE d == IF acc.left[m] < qty THEN acc.left[m] ELSE qty
           next == LinkMove(acc, o, m, qty, quant)
           link == [move |-> m, op |-> o, qty |-> d, quant |-> quant]
<1>1. /\ acc.left \in [Moves -> Nat] /\ acc.links \in Seq(Links) /\ acc.need \in Nat
      /\ acc.rest \in Seq([op : Nat, qty : Nat \ {0}])
      /\ acc = [left |-> acc.left, links |-> acc.links, need |-> acc.need, rest |-> acc.rest]
  BY DEF Progress
<1>2. d \in Nat /\ d <= acc.left[m] /\ d <= acc.need
  BY <1>1
<1>3. CASE d = 0
  <2>1. next = acc
    BY <1>3 DEF LinkMove
  <2>2. next.left[m] = acc.left[m] - d /\ next.need = acc.need - d
    BY <1>1, <1>3, <2>1
  <2> USE <1>2
  <2> WITNESS d \in Nat
  <2> HIDE DEF d, next
  <2> QED BY <1>3, <2>1, <2>2 DEF LinkedBy, d, next
<1>4. CASE d # 0
  <2> DEFINE L == [acc.left EXCEPT ![m] = @ - d]
  <2>1. next = [left |-> L, links |-> Append(acc.links, link), need |-> acc.need - d, rest |-> acc.rest]
    <3>1. next = [acc EXCEPT !.left[m] = @ - d, !.links = Append(@, link), !.need = @ - d]
      BY <1>4 DEF LinkMove
    <3> HIDE DEF d, link, next
    <3> QED BY <1>1, <3>1
  <2>2. L \in [Moves -> Nat] /\ L[m] = acc.left[m] - d /\ \A n \in Moves \ {m} : L[n] = acc.left[n]
    <3> HIDE DEF d
    <3> QED BY <1>1, <1>2
  <2>3. link \in Links
    <3> HIDE DEF d
    <3> QED BY <1>2, <1>4 DEF Links
  <2>4. Append(acc.links, link) \in Seq(Links) /\ acc.need - d \in Nat
    <3> HIDE DEF d, link
    <3> QED BY <1>1, <1>2, <2>3
  <2>5. next \in Progress
    <3> HIDE DEF d, link, next, L
    <3> QED BY <1>1, <2>1, <2>2, <2>4 DEF Progress
  <2>6. /\ next.need = acc.need - d /\ next.rest = acc.rest /\ next.left = L
        /\ next.links = Append(acc.links, link)
    <3> HIDE DEF d, link, next, L
    <3> QED BY <2>1
  <2> USE <1>2
  <2> WITNESS d \in Nat
  <2> HIDE DEF d, next, L, link
  <2> QED BY <1>2, <1>4, <2>2, <2>3, <2>5, <2>6 DEF LinkedBy, d, next, link
<1> QED BY <1>3, <1>4

-----------------------------------------------------------------------------
(* The work on one operation *)

\* What every link that is made for operation o keeps: links are only added, for o
\* and of the kind C; what a link takes off a move it takes off the quantity n of
\* the operation too; the other operations keep what they have.
Work(o, n, C) ==
  {acc \in Progress :
     /\ \A m \in Moves : /\ acc.left[m] + OfMove(acc.links, m) = left[m] + OfMove(links, m)
                         /\ acc.left[m] <= left[m]
     /\ Len(links) <= Len(acc.links)
     /\ \A i \in DOMAIN links : acc.links[i] = links[i]
     /\ \A i \in DOMAIN acc.links \ DOMAIN links :
          acc.links[i].op = o /\ <<acc.links[i].move, acc.links[i].quant>> \in C
     /\ OfOp(acc.links, o) + acc.need = OfOp(links, o) + n
     /\ \A u \in Nat \ {o} : OfOp(acc.links, u) = OfOp(links, u)}

LEMMA WorkStarts ==
  ASSUME links \in Seq(Links), left \in [Moves -> Nat], NEW o, NEW n \in Nat, NEW C
  PROVE  Linking(n) \in Work(o, n, C)
<1>1. Linking(n) = [left |-> left, links |-> links, need |-> n, rest |-> <<>>]
  BY DEF Linking
<1>2. Linking(n) \in Progress
  BY <1>1 DEF Progress
<1>3. \A m \in Moves : left[m] \in Int
  OBVIOUS
<1>4. Len(links) \in Nat
  OBVIOUS
<1> QED BY <1>1, <1>2, <1>3, <1>4 DEF Work

LEMMA WorkGoesOn ==
  ASSUME links \in Seq(Links), left \in [Moves -> Nat], NEW o \in Nat \ {0}, NEW n \in Nat,
         NEW C, NEW acc \in Work(o, n, C), NEW m \in Moves, NEW qty \in Nat, qty <= acc.need,
         NEW quant \in Quants \cup {None}, <<m, quant>> \in C
  PROVE  LinkMove(acc, o, m, qty, quant) \in Work(o, n, C)
<1> DEFINE next == LinkMove(acc, o, m, qty, quant)
<1>1. acc \in Progress
  BY DEF Work
<1>2. PICK d \in Nat : LinkedBy(acc, next, o, m, qty, quant, d)
  BY <1>1, LinkMoveFacts
<1> HIDE DEF next
<1>3. /\ acc.left \in [Moves -> Nat] /\ acc.links \in Seq(Links) /\ acc.need \in Nat
      /\ next.left \in [Moves -> Nat] /\ next.links \in Seq(Links) /\ next.need \in Nat
  BY <1>1, <1>2 DEF Progress, LinkedBy
<1>4. \A r \in Links : r.qty \in Int /\ r.qty \in Nat
  BY DEF Links
<1>5. /\ \A u \in Moves : OfMove(acc.links, u) \in Nat /\ OfMove(links, u) \in Nat
      /\ \A u : OfOp(acc.links, u) \in Nat /\ OfOp(links, u) \in Nat
  BY <1>3, <1>4, OfNat
<1>6. ASSUME d = 0 PROVE next \in Work(o, n, C)
  <2>1. next.links = acc.links /\ next.need = acc.need
    BY <1>2, <1>3, <1>6 DEF LinkedBy
  <2>2. \A u \in Moves : next.left[u] = acc.left[u]
    BY <1>2, <1>3, <1>6 DEF LinkedBy
  <2>3. next \in Progress
    BY <1>2 DEF LinkedBy
  <2> QED BY <2>1, <2>2, <2>3 DEF Work
<1>7. ASSUME d # 0 PROVE next \in Work(o, n, C)
  <2>1. PICK link \in Links : /\ link = [move |-> m, op |-> o, qty |-> d, quant |-> quant]
                              /\ next.links = Append(acc.links, link)
    BY <1>2, <1>7 DEF LinkedBy
  <2>2. link.move = m /\ link.op = o /\ link.qty = d /\ link.quant = quant
    BY <2>1
  <2>3. \A u : /\ OfOp(next.links, u) = OfOp(acc.links, u) + IF link.op = u THEN link.qty ELSE 0
               /\ OfMove(next.links, u) = OfMove(acc.links, u) + IF link.move = u THEN link.qty ELSE 0
    <3> TAKE u
    <3>1. PICK row \in Seq(Links) : row = acc.links
      BY <1>3
    <3>2. /\ OfOp(Append(row, link), u) = OfOp(row, u) + IF link.op = u THEN link.qty ELSE 0
          /\ OfMove(Append(row, link), u) = OfMove(row, u) + IF link.move = u THEN link.qty ELSE 0
      BY <1>4, OfAppend
    <3> QED BY <2>1, <3>1, <3>2
  <2>4. \A u \in Moves : /\ next.left[u] + OfMove(next.links, u) = left[u] + OfMove(links, u)
                         /\ next.left[u] <= left[u]
    <3> TAKE u \in Moves
    <3>1. /\ acc.left[u] + OfMove(acc.links, u) = left[u] + OfMove(links, u)
          /\ acc.left[u] <= left[u]
      BY DEF Work
    <3>2. acc.left[u] \in Nat /\ left[u] \in Nat /\ OfMove(acc.links, u) \in Nat
      BY <1>3, <1>5
    <3>3. CASE u = m
      <4>1. next.left[u] = acc.left[u] - d /\ OfMove(next.links, u) = OfMove(acc.links, u) + d
        BY <1>2, <2>2, <2>3, <3>3 DEF LinkedBy
      <4> QED BY <3>1, <3>2, <4>1
    <3>4. CASE u # m
      <4>1. next.left[u] = acc.left[u] /\ OfMove(next.links, u) = OfMove(acc.links, u)
        BY <1>2, <2>2, <2>3, <3>2, <3>4 DEF LinkedBy
      <4> QED BY <3>1, <4>1
    <3> QED BY <3>3, <3>4
  <2>5. OfOp(next.links, o) + next.need = OfOp(links, o) + n
    <3>1. OfOp(acc.links, o) + acc.need = OfOp(links, o) + n
      BY DEF Work
    <3>2. OfOp(next.links, o) = OfOp(acc.links, o) + d
      BY <2>2, <2>3
    <3>3. OfOp(acc.links, o) \in Nat
      BY <1>5
    <3>4. next.need = acc.need - d /\ acc.need \in Nat
      BY <1>2, <1>3 DEF LinkedBy
    <3> QED BY <3>1, <3>2, <3>3, <3>4
  <2>6. \A u \in Nat \ {o} : OfOp(next.links, u) = OfOp(links, u)
    <3> TAKE u \in Nat \ {o}
    <3>1. OfOp(next.links, u) = OfOp(acc.links, u)
      <4>1. OfOp(next.links, u) = OfOp(acc.links, u) + 0
        BY <2>2, <2>3
      <4>2. OfOp(acc.links, u) \in Nat
        BY <1>5
      <4> QED BY <4>1, <4>2
    <3> QED BY <3>1 DEF Work
  <2>7. /\ Len(links) <= Len(acc.links) /\ Len(links) \in Nat /\ Len(acc.links) \in Nat
        /\ DOMAIN links = 1 .. Len(links) /\ DOMAIN acc.links = 1 .. Len(acc.links)
        /\ Len(next.links) = Len(acc.links) + 1
        /\ DOMAIN next.links = 1 .. Len(acc.links) + 1
        /\ next.links[Len(acc.links) + 1] = link
        /\ \A i \in DOMAIN acc.links : next.links[i] = acc.links[i]
    <3>1. PICK row \in Seq(Links) : row = acc.links
      BY <1>3
    <3>2. /\ Len(row) \in Nat /\ DOMAIN row = 1 .. Len(row)
          /\ Len(Append(row, link)) = Len(row) + 1
          /\ DOMAIN Append(row, link) = 1 .. Len(row) + 1
          /\ Append(row, link)[Len(row) + 1] = link
          /\ \A i \in DOMAIN row : Append(row, link)[i] = row[i]
      OBVIOUS
    <3>3. Len(links) \in Nat /\ DOMAIN links = 1 .. Len(links)
      OBVIOUS
    <3>4. Len(links) <= Len(acc.links)
      BY DEF Work
    <3> QED BY <2>1, <3>1, <3>2, <3>3, <3>4
  <2>8. \A i \in DOMAIN links : next.links[i] = links[i]
    <3> TAKE i \in DOMAIN links
    <3>1. acc.links[i] = links[i]
      BY DEF Work
    <3>2. i \in DOMAIN acc.links
      BY <2>7
    <3> QED BY <2>7, <3>1, <3>2
  <2>9. \A i \in DOMAIN next.links \ DOMAIN links :
          next.links[i].op = o /\ <<next.links[i].move, next.links[i].quant>> \in C
    <3> TAKE i \in DOMAIN next.links \ DOMAIN links
    <3>1. CASE i = Len(acc.links) + 1
      BY <2>2, <2>7, <3>1
    <3>2. CASE i \in DOMAIN acc.links
      BY <2>7, <3>2 DEF Work
    <3>3. i = Len(acc.links) + 1 \/ i \in 1 .. Len(acc.links)
      <4>1. i \in 1 .. Len(acc.links) + 1 /\ Len(acc.links) \in Nat
        BY <2>7
      <4> QED BY <4>1
    <3>4. 1 .. Len(acc.links) = DOMAIN acc.links
      BY <2>7
    <3> QED BY <3>1, <3>2, <3>3, <3>4
  <2>10. Len(links) <= Len(next.links)
    BY <2>7
  <2>11. next \in Progress
    BY <1>2 DEF LinkedBy
  <2> QED BY <2>4, <2>5, <2>6, <2>8, <2>9, <2>10, <2>11 DEF Work
<1>8. next \in Work(o, n, C)
  BY <1>6, <1>7
<1> QED BY <1>8 DEF next

-----------------------------------------------------------------------------
\* The second part: an operation gets links to moves that suit it, and is only left
\* short when these have nothing left.
AnyLinks(o) == {<<m, None>> : m \in {n \in Moves : Suits(o, n)}}

LEMMA LinkAnyMoveWorks ==
  ASSUME GivenInv, links \in Seq(Links), left \in [Moves -> Nat],
         NEW o \in Nat \ {0}, NEW n \in Nat
  PROVE  LET acc == LinkAnyMove(o, n)
         IN /\ acc \in Work(o, n, AnyLinks(o))
            /\ acc.need = 0 \/ \A m \in InTable : Suits(o, m) => acc.left[m] = 0
<1> DEFINE K == 0 .. Len(MoveOrder)
           step == [m \in Moves |-> [acc \in Progress |->
                      IF Suits(o, m) THEN LinkMove(acc, o, m, acc.need, None) ELSE acc]]
           A == [k \in K |-> {acc \in Work(o, n, AnyLinks(o)) :
                   acc.need = 0 \/ \A j \in 1 .. k : Suits(o, MoveOrder[j]) => acc.left[MoveOrder[j]] = 0}]
<1>1. /\ MoveOrder \in Seq(InTable) /\ InTable \subseteq Moves
      /\ \A m \in InTable : \E i \in DOMAIN MoveOrder : MoveOrder[i] = m
  BY OrderFacts
<1>2. /\ Len(MoveOrder) \in Nat /\ DOMAIN MoveOrder = 1 .. Len(MoveOrder)
      /\ \A k \in 1 .. Len(MoveOrder) : MoveOrder[k] \in InTable /\ MoveOrder[k] \in Moves
  BY <1>1
<1>3. Linking(n) \in A[0]
  <2>1. 0 \in K /\ 1 .. 0 = {}
    BY <1>2
  <2>2. Linking(n) \in Work(o, n, AnyLinks(o))
    BY WorkStarts
  <2> QED BY <2>1, <2>2
<1>4. ASSUME NEW k \in 1 .. Len(MoveOrder), NEW acc \in A[k - 1]
      PROVE  step[MoveOrder[k]][acc] \in A[k]
  <2>1. k \in K /\ k - 1 \in K
    BY <1>2
  <2>2. /\ acc \in Work(o, n, AnyLinks(o))
        /\ acc.need = 0 \/ \A j \in 1 .. k - 1 : Suits(o, MoveOrder[j]) => acc.left[MoveOrder[j]] = 0
    BY <2>1
  <2>3. PICK m \in Moves : m = MoveOrder[k]
    BY <1>2
  <2>4. acc \in Progress
    BY <2>2 DEF Work
  <2>5. step[m][acc] = IF Suits(o, m) THEN LinkMove(acc, o, m, acc.need, None) ELSE acc
    BY <2>4
  <2>6. \A j \in 1 .. k : j = k \/ j \in 1 .. k - 1
    OBVIOUS
  <2>7. ASSUME NEW next \in Work(o, n, AnyLinks(o)),
               next.need = 0 \/ \A j \in 1 .. k : Suits(o, MoveOrder[j]) => next.left[MoveOrder[j]] = 0
        PROVE  next \in A[k]
    BY <2>1, <2>7
  <2> HIDE DEF K, step, A
  <2>8. CASE ~ Suits(o, m)
    BY <2>2, <2>3, <2>5, <2>6, <2>7, <2>8
  <2>9. CASE Suits(o, m)
    <3> DEFINE next == LinkMove(acc, o, m, acc.need, None)
    <3>1. acc.need \in Nat /\ acc.need <= acc.need /\ acc.left \in [Moves -> Nat]
      BY <2>4 DEF Progress
    <3>2. <<m, None>> \in AnyLinks(o)
      BY <2>9 DEF AnyLinks
    <3>3. None \in Quants \cup {None}
      OBVIOUS
    <3>4. next \in Work(o, n, AnyLinks(o))
      BY <2>2, <3>1, <3>2, <3>3, WorkGoesOn
    <3>5. PICK d \in Nat : LinkedBy(acc, next, o, m, acc.need, None, d)
      BY <2>4, <3>1, <3>3, LinkMoveFacts
    <3> HIDE DEF next
    <3>6. next.need = 0 \/ \A j \in 1 .. k : Suits(o, MoveOrder[j]) => next.left[MoveOrder[j]] = 0
      <4>1. CASE acc.left[m] < acc.need
        <5>1. next.left[m] = 0 /\ \A u \in Moves \ {m} : next.left[u] = acc.left[u]
          BY <3>1, <3>5, <4>1 DEF LinkedBy
        <5>2. \A j \in 1 .. k - 1 : Suits(o, MoveOrder[j]) => acc.left[MoveOrder[j]] = 0
          BY <2>2, <3>1, <4>1
        <5>3. \A j \in 1 .. k : MoveOrder[j] \in Moves
          BY <1>2
        <5> QED BY <2>3, <2>6, <5>1, <5>2, <5>3
      <4>2. CASE ~ (acc.left[m] < acc.need)
        BY <3>1, <3>5, <4>2 DEF LinkedBy
      <4> QED BY <4>1, <4>2
    <3> QED BY <2>3, <2>5, <2>7, <2>9, <3>4, <3>6 DEF next
  <2> QED BY <2>8, <2>9
<1>5. Through(step, MoveOrder, Linking(n)) \in A[Len(MoveOrder)]
  <2> HIDE DEF step, A
  <2>1. \A k \in 1 .. Len(MoveOrder) : \A acc \in A[k - 1] : step[MoveOrder[k]][acc] \in A[k]
    BY <1>4
  <2> QED BY <1>1, <1>3, <2>1, ThroughKeeps
<1>6. LinkAnyMove(o, n) = Through(step, MoveOrder, Linking(n))
  BY DEF LinkAnyMove
<1>7. PICK acc : acc = LinkAnyMove(o, n) /\ acc \in A[Len(MoveOrder)]
  BY <1>5, <1>6
<1>8. /\ acc \in Work(o, n, AnyLinks(o))
      /\ acc.need = 0 \/ \A j \in 1 .. Len(MoveOrder) : Suits(o, MoveOrder[j]) => acc.left[MoveOrder[j]] = 0
  BY <1>2, <1>7
<1> HIDE DEF step, A
<1>9. acc.need = 0 \/ \A m \in InTable : Suits(o, m) => acc.left[m] = 0
  BY <1>1, <1>2, <1>8
<1> QED BY <1>7, <1>8, <1>9

-----------------------------------------------------------------------------
\* The first part, for products: through quants of no package that is done with
ProductLinks(o) ==
  {c \in Moves \X Quants : /\ ops[o].line = None
                           /\ reservation[c[2]] = c[1]
                           /\ c[2] \notin packDone}

LEMMA LinkProductWorks ==
  ASSUME GivenInv, links \in Seq(Links), left \in [Moves -> Nat],
         NEW o \in Nat \ {0}, ops[o].qty \in Nat
  PROVE  LinkProductOp(o) \in Work(o, ops[o].qty, ProductLinks(o))
<1> DEFINE n == ops[o].qty
           W == Work(o, n, ProductLinks(o))
           turn == [m \in Moves |-> [acc \in Progress |->
                      Through(LinkFitting(o), ById(ReservedFor(m)), acc)]]
<1>1. Linking(n) \in W
  BY WorkStarts
<1>2. W \subseteq Progress
  BY DEF Work
<1>3. ASSUME NEW m \in Moves, NEW acc \in W, ops[o].line = None
      PROVE  turn[m][acc] \in W
  <2> DEFINE items == ById(ReservedFor(m))
             A == [k \in 0 .. Len(items) |-> W]
  <2>1. ReservedFor(m) \in SUBSET Quants
    BY DEF ReservedFor
  <2>2. items \in Seq(ReservedFor(m))
    BY <2>1, OrderFacts
  <2>3. Len(items) \in Nat
    BY <2>2
  <2>4. ASSUME NEW q \in ReservedFor(m), NEW b \in W
        PROVE  LinkFitting(o)[q][b] \in W
    <3>1. q \in Quants /\ reservation[q] = m /\ b \in Progress
      BY <1>2 DEF ReservedFor
    <3> DEFINE qty == IF quants[q].qty < b.need THEN quants[q].qty ELSE b.need
    <3>2. LinkFitting(o)[q][b] = IF q \in packDone \/ ~Fits(o, q) THEN b ELSE LinkQuant(b, o, q, qty)
      BY <3>1 DEF LinkFitting
    <3>3. qty \in Nat /\ qty <= b.need
      <4>1. b.need \in Nat /\ quants[q].qty \in Nat
        BY <3>1, GivenFacts DEF Progress
      <4> QED BY <4>1
    <3> HIDE DEF qty
    <3>4. LinkQuant(b, o, q, qty) = LinkMove(b, o, m, qty, q)
      BY <3>1 DEF LinkQuant
    <3>5. CASE q \in packDone \/ ~Fits(o, q)
      BY <3>2, <3>5
    <3>6. CASE ~ (q \in packDone \/ ~Fits(o, q))
      <4>1. <<m, q>> \in ProductLinks(o) /\ q \in Quants \cup {None}
        BY <1>3, <3>1, <3>6 DEF ProductLinks
      <4>2. LinkMove(b, o, m, qty, q) \in W
        BY <3>3, <4>1, WorkGoesOn
      <4> QED BY <3>2, <3>4, <3>6, <4>2
    <3> QED BY <3>5, <3>6
  <2>5. Through(LinkFitting(o), items, acc) \in A[Len(items)]
    <3>1. acc \in A[0]
      BY <2>3
    <3>2. ASSUME NEW k \in 1 .. Len(items), NEW b \in A[k - 1]
          PROVE  LinkFitting(o)[items[k]][b] \in A[k]
      <4>1. items[k] \in ReservedFor(m)
        <5> HIDE DEF items
        <5> QED BY <2>2
      <4>2. k \in 0 .. Len(items) /\ k - 1 \in 0 .. Len(items)
        BY <2>3
      <4> HIDE DEF W, items
      <4>3. b \in W
        BY <4>2
      <4>4. LinkFitting(o)[items[k]][b] \in W
        BY <2>4, <4>1, <4>3
      <4> QED BY <4>2, <4>4
    <3> HIDE DEF W, A, items
    <3>3. \A k \in 1 .. Len(items) : \A b \in A[k - 1] : LinkFitting(o)[items[k]][b] \in A[k]
      BY <3>2
    <3> QED BY <2>2, <3>1, <3>3, ThroughKeeps
  <2>6. turn[m][acc] = Through(LinkFitting(o), items, acc)
    BY <1>2
  <2> QED BY <2>3, <2>5, <2>6
<1> DEFINE A == [k \in 0 .. Len(MoveData(o)) |-> W]
<1>4. MoveData(o) \in Seq(Moves) /\ (ops[o].line # None => MoveData(o) = <<>>)
  BY OrderFacts DEF MoveData
<1>5. Len(MoveData(o)) \in Nat
  BY <1>4
<1>6. Linking(n) \in A[0]
  BY <1>1, <1>5
<1>7. ASSUME NEW k \in 1 .. Len(MoveData(o)), NEW acc \in A[k - 1]
      PROVE  turn[MoveData(o)[k]][acc] \in A[k]
  <2>1. MoveData(o)[k] \in Moves /\ ops[o].line = None
    BY <1>4, <1>5
  <2>2. k \in 0 .. Len(MoveData(o)) /\ k - 1 \in 0 .. Len(MoveData(o))
    BY <1>5
  <2> HIDE DEF W, turn
  <2> QED BY <1>3, <2>1, <2>2
<1>8. Through(turn, MoveData(o), Linking(n)) \in A[Len(MoveData(o))]
  <2> HIDE DEF W, A, turn
  <2>1. \A k \in 1 .. Len(MoveData(o)) : \A acc \in A[k - 1] : turn[MoveData(o)[k]][acc] \in A[k]
    BY <1>7
  <2> QED BY <1>4, <1>6, <2>1, ThroughKeeps
<1>9. LinkProductOp(o) = Through(turn, MoveData(o), Linking(n))
  BY DEF LinkProductOp
<1> HIDE DEF turn
<1> QED BY <1>5, <1>8, <1>9

-----------------------------------------------------------------------------
\* The first part, for packages: through their quants, each at most once; what is not
\* linked of a quant is deferred.
WholeLinks(o) ==
  {c \in Moves \X Quants : reservation[c[2]] = c[1] /\ c[2] \in Content(ops[o].pack)}

\* After the quants but those of U
WholeWork(o, U) ==
  {acc \in Work(o, QuantsQty(Content(ops[o].pack)), WholeLinks(o)) :
     /\ acc.need = QuantsQty(U) + OfOp(acc.rest, o)
     /\ \A i \in DOMAIN acc.rest : acc.rest[i].op = o
     /\ \A i \in DOMAIN acc.links \ DOMAIN links :
          /\ acc.links[i].quant \notin U
          /\ \A j \in DOMAIN acc.links \ DOMAIN links :
               acc.links[j].quant = acc.links[i].quant => j = i}

Rests == [op : Nat, qty : Nat \ {0}]

LEMMA RestFacts ==
  ASSUME NEW rest \in Seq(Rests), NEW x \in Rests
  PROVE  /\ OfOp(rest, x.op) \in Nat
         /\ OfOp(Append(rest, x), x.op) = OfOp(rest, x.op) + x.qty
         /\ Append(rest, x) \in Seq(Rests)
         /\ \A i \in DOMAIN Append(rest, x) : \/ i \in DOMAIN rest /\ Append(rest, x)[i] = rest[i]
                                              \/ Append(rest, x)[i] = x
<1>1. \A r \in Rests : r.qty \in Nat /\ r.qty \in Int
  BY DEF Rests
<1>2. OfOp(rest, x.op) \in Nat
  BY <1>1, OfNat
<1>3. OfOp(Append(rest, x), x.op) = OfOp(rest, x.op) + IF x.op = x.op THEN x.qty ELSE 0
  BY <1>1, OfAppend
<1> QED BY <1>2, <1>3

\* One quant, linked as far as the move has something left
QuantLinkedBy(acc, next, o, q, d) ==
  /\ next \in Work(o, QuantsQty(Content(ops[o].pack)), WholeLinks(o))
  /\ d <= quants[q].qty /\ next.need = acc.need - d /\ next.rest = acc.rest
  /\ \A i \in DOMAIN next.links :
       \/ i \in DOMAIN acc.links /\ next.links[i] = acc.links[i]
       \/ i = Len(acc.links) + 1 /\ next.links[i].quant = q

LEMMA LinkQuantFacts ==
  ASSUME GivenInv, links \in Seq(Links), left \in [Moves -> Nat],
         reservation \in [Quants -> Moves \cup {None, Other}], NEW o \in Nat \ {0},
         NEW U \in SUBSET Quants, NEW q \in Content(ops[o].pack), q \notin U,
         NEW acc \in WholeWork(o, U \cup {q})
  PROVE  \E d \in Nat : QuantLinkedBy(acc, LinkQuant(acc, o, q, quants[q].qty), o, q, d)
<1> DEFINE next == LinkQuant(acc, o, q, quants[q].qty)
           n == QuantsQty(Content(ops[o].pack))
<1>1. Content(ops[o].pack) \in SUBSET Quants /\ q \in Quants
  BY DEF Content
<1>2. n \in Nat /\ quants[q].qty \in Nat
  BY <1>1, QuantsNat, GivenFacts
<1>3. acc \in Work(o, n, WholeLinks(o)) /\ acc \in Progress
  BY DEF WholeWork, Work
<1>4. /\ acc.need \in Nat /\ acc.rest \in Seq(Rests) /\ acc.links \in Seq(Links)
      /\ acc.left \in [Moves -> Nat]
  BY <1>3 DEF Progress, Rests
<1>5. quants[q].qty <= acc.need
  <2>1. acc.need = QuantsQty(U \cup {q}) + OfOp(acc.rest, o)
    BY DEF WholeWork
  <2>2. OfOp(acc.rest, o) \in Nat
    <3>1. \A r \in Rests : r.qty \in Nat
      BY DEF Rests
    <3> QED BY <1>4, <3>1, OfNat
  <2>3. PICK V \in SUBSET Quants : V = U \cup {q}
    BY <1>1
  <2>4. QuantsQty(V) = quants[q].qty + QuantsQty(V \ {q}) /\ QuantsQty(V \ {q}) \in Nat
    BY <2>3, QuantsRemove, QuantsNat
  <2> QED BY <1>2, <2>1, <2>2, <2>3, <2>4
<1>6. CASE reservation[q] \notin Moves
  <2>1. next = acc
    BY <1>6 DEF LinkQuant
  <2>2. acc.need = acc.need - 0 /\ 0 <= quants[q].qty
    BY <1>2, <1>4
  <2>3. 0 \in Nat
    OBVIOUS
  <2> HIDE DEF next
  <2> QED BY <1>3, <2>1, <2>2, <2>3 DEF QuantLinkedBy, next
<1>7. CASE reservation[q] \in Moves
  <2>1. PICK m \in Moves : m = reservation[q]
    BY <1>7
  <2>2. next = LinkMove(acc, o, m, quants[q].qty, q)
    BY <2>1 DEF LinkQuant
  <2>3. <<m, q>> \in WholeLinks(o) /\ q \in Quants \cup {None}
    BY <1>1, <2>1 DEF WholeLinks
  <2>4. LinkMove(acc, o, m, quants[q].qty, q) \in Work(o, n, WholeLinks(o))
    <3> HIDE DEF next, n
    <3> QED BY <1>2, <1>3, <1>5, <2>3, WorkGoesOn
  <2>5. PICK d \in Nat : LinkedBy(acc, LinkMove(acc, o, m, quants[q].qty, q), o, m, quants[q].qty, q, d)
    BY <1>2, <1>3, <1>5, <2>3, LinkMoveFacts
  <2> HIDE DEF next
  <2>6. d <= quants[q].qty /\ next.need = acc.need - d /\ next.rest = acc.rest
    BY <1>2, <1>4, <2>2, <2>5 DEF LinkedBy
  <2>7. \A i \in DOMAIN next.links :
          \/ i \in DOMAIN acc.links /\ next.links[i] = acc.links[i]
          \/ i = Len(acc.links) + 1 /\ next.links[i].quant = q
    <3>1. CASE next.links = acc.links
      BY <3>1
    <3>2. ASSUME NEW link \in Links, link.quant = q, next.links = Append(acc.links, link)
          PROVE  \A i \in DOMAIN next.links :
                   \/ i \in DOMAIN acc.links /\ next.links[i] = acc.links[i]
                   \/ i = Len(acc.links) + 1 /\ next.links[i].quant = q
      <4>1. PICK row \in Seq(Links) : row = acc.links
        BY <1>4
      <4>2. \A i \in DOMAIN Append(row, link) :
              \/ i \in DOMAIN row /\ Append(row, link)[i] = row[i]
              \/ i = Len(row) + 1 /\ Append(row, link)[i] = link
        OBVIOUS
      <4> QED BY <3>2, <4>1, <4>2
    <3> QED BY <2>2, <2>5, <3>1, <3>2 DEF LinkedBy
  <2> QED BY <2>2, <2>4, <2>6, <2>7 DEF QuantLinkedBy, next
<1> QED BY <1>6, <1>7

-----------------------------------------------------------------------------

LEMMA LinkWholeStep ==
  ASSUME GivenInv, links \in Seq(Links), left \in [Moves -> Nat],
         NEW o \in Nat \ {0},
         NEW U \in SUBSET Quants, NEW q \in Content(ops[o].pack), q \notin U,
         NEW acc \in WholeWork(o, U \cup {q})
  PROVE  LinkWhole(o)[q][acc] \in WholeWork(o, U)
<1> DEFINE N == QuantsQty(Content(ops[o].pack))
<1>1. Content(ops[o].pack) \in SUBSET Quants /\ q \in Quants
  BY DEF Content
<1>2. N \in Nat /\ quants[q].qty \in Nat
  BY <1>1, QuantsNat, GivenFacts
<1>3. acc \in Work(o, N, WholeLinks(o)) /\ acc \in Progress
  BY DEF WholeWork, Work
<1>4. /\ acc.need \in Nat /\ acc.rest \in Seq(Rests) /\ acc.links \in Seq(Links)
  BY <1>3 DEF Progress, Rests
<1>5. PICK next : next = LinkQuant(acc, o, q, quants[q].qty)
  OBVIOUS
<1>6. PICK d \in Nat :
        /\ next \in Work(o, N, WholeLinks(o))
        /\ d <= quants[q].qty /\ next.need = acc.need - d /\ next.rest = acc.rest
        /\ \A i \in DOMAIN next.links :
             \/ i \in DOMAIN acc.links /\ next.links[i] = acc.links[i]
             \/ i = Len(acc.links) + 1 /\ next.links[i].quant = q
  <2>1. reservation \in [Quants -> Moves \cup {None, Other}]
    BY DEF GivenInv
  <2>2. \E d \in Nat : QuantLinkedBy(acc, LinkQuant(acc, o, q, quants[q].qty), o, q, d)
    BY <2>1, LinkQuantFacts
  <2> QED BY <1>5, <2>2 DEF QuantLinkedBy
<1>7. PICK r \in Nat : r = quants[q].qty - d
  BY <1>2, <1>6
<1>8. PICK more : more = IF r = 0 THEN acc.rest ELSE Append(acc.rest, [op |-> o, qty |-> r])
  OBVIOUS
<1>9. PICK res : res = [next EXCEPT !.rest = more]
  OBVIOUS
<1>10. LinkWhole(o)[q][acc] = res
  <2>1. r = quants[q].qty - (acc.need - next.need)
    <3>1. next.need = acc.need - d
      BY <1>6
    <3>2. acc.need - next.need = d
      BY <1>4, <3>1
    <3> QED BY <1>7, <3>2
  <2>2. LinkWhole(o)[q][acc] =
          [next EXCEPT !.rest = IF quants[q].qty - (acc.need - next.need) = 0 THEN next.rest
                                ELSE Append(next.rest, [op |-> o, qty |-> quants[q].qty - (acc.need - next.need)])]
    BY <1>1, <1>3, <1>5 DEF LinkWhole
  <2>3. next.rest = acc.rest
    BY <1>6
  <2> QED BY <1>8, <1>9, <2>1, <2>2, <2>3
<1>11. /\ more \in Seq(Rests) /\ OfOp(acc.rest, o) \in Nat /\ OfOp(more, o) = OfOp(acc.rest, o) + r
       /\ \A i \in DOMAIN more : more[i].op = o
  <2>1. \A i \in DOMAIN acc.rest : acc.rest[i].op = o
    BY DEF WholeWork
  <2>2. \A x \in Rests : x.qty \in Nat
    BY DEF Rests
  <2>3. OfOp(acc.rest, o) \in Nat
    BY <1>4, <2>2, OfNat
  <2>4. CASE r = 0
    BY <1>4, <1>8, <2>1, <2>3, <2>4
  <2>5. CASE r # 0
    <3>1. PICK x \in Rests : x = [op |-> o, qty |-> r]
      BY <1>7, <2>5 DEF Rests
    <3>2. PICK row \in Seq(Rests) : row = acc.rest
      BY <1>4
    <3>3. x.op = o /\ x.qty = r
      BY <3>1
    <3>4. /\ OfOp(Append(row, x), o) = OfOp(row, o) + r
          /\ Append(row, x) \in Seq(Rests)
          /\ \A i \in DOMAIN Append(row, x) : \/ i \in DOMAIN row /\ Append(row, x)[i] = row[i]
                                              \/ Append(row, x)[i] = x
      BY <3>3, RestFacts
    <3>5. more = Append(row, x)
      BY <1>8, <2>5, <3>1, <3>2
    <3> QED BY <2>1, <2>3, <3>2, <3>3, <3>4, <3>5
  <2> QED BY <2>4, <2>5
<1>12. /\ next \in Progress
       /\ next = [left |-> next.left, links |-> next.links, need |-> next.need, rest |-> next.rest]
  BY <1>6 DEF Work, Progress
<1>13. /\ res = [left |-> next.left, links |-> next.links, need |-> next.need, rest |-> more]
       /\ res.left = next.left /\ res.links = next.links /\ res.need = next.need /\ res.rest = more
  BY <1>9, <1>12
<1>14. res \in Progress
  <2>1. next.left \in [Moves -> Nat] /\ next.links \in Seq(Links) /\ next.need \in Nat
    BY <1>12 DEF Progress
  <2>2. more \in Seq([op : Nat, qty : Nat \ {0}])
    BY <1>11 DEF Rests
  <2> QED BY <1>13, <2>1, <2>2 DEF Progress
<1>15. res \in Work(o, N, WholeLinks(o))
  <2>1. next \in Work(o, N, WholeLinks(o))
    BY <1>6
  <2> HIDE DEF N
  <2> QED BY <1>13, <1>14, <2>1 DEF Work
<1>16. res.need = QuantsQty(U) + OfOp(res.rest, o)
  <2>1. acc.need = QuantsQty(U \cup {q}) + OfOp(acc.rest, o)
    BY DEF WholeWork
  <2>2. PICK V \in SUBSET Quants : V = U \cup {q}
    BY <1>1
  <2>3. QuantsQty(V) = quants[q].qty + QuantsQty(V \ {q})
    BY <2>2, QuantsRemove
  <2>4. V \ {q} = U
    BY <2>2
  <2>5. QuantsQty(V) = quants[q].qty + QuantsQty(U)
    <3>1. QuantsQty(V \ {q}) = QuantsQty(U)
      BY <2>4, Zenon
    <3> QED BY <2>3, <3>1
  <2>6. QuantsQty(U) \in Nat
    BY QuantsNat
  <2>7. acc.need = quants[q].qty + QuantsQty(U) + OfOp(acc.rest, o)
    BY <2>1, <2>2, <2>5
  <2>8. res.need = acc.need - d
    BY <1>6, <1>13
  <2>9. OfOp(res.rest, o) = OfOp(acc.rest, o) + r
    BY <1>11, <1>13
  <2>10. PICK a \in Nat, b \in Nat, c \in Nat :
           a = QuantsQty(U) /\ b = OfOp(acc.rest, o) /\ c = quants[q].qty
    BY <1>2, <1>11, <2>6
  <2>11. acc.need = c + a + b /\ r = c - d
    BY <1>7, <2>7, <2>10
  <2>12. acc.need - d = a + (b + r)
    BY <2>11
  <2> QED BY <2>8, <2>9, <2>10, <2>12
<1>17. \A i \in DOMAIN res.links \ DOMAIN links :
         /\ res.links[i].quant \notin U
         /\ \A j \in DOMAIN res.links \ DOMAIN links :
              res.links[j].quant = res.links[i].quant => j = i
  <2>1. \A i \in DOMAIN acc.links \ DOMAIN links :
          /\ acc.links[i].quant \notin U /\ acc.links[i].quant # q
          /\ \A j \in DOMAIN acc.links \ DOMAIN links :
               acc.links[j].quant = acc.links[i].quant => j = i
    BY DEF WholeWork
  <2>2. \A i \in DOMAIN res.links :
             \/ i \in DOMAIN acc.links /\ res.links[i] = acc.links[i]
             \/ i = Len(acc.links) + 1 /\ res.links[i].quant = q
    BY <1>6, <1>13
  <2>3. q \notin U
    OBVIOUS
  <2> QED BY <2>1, <2>2, <2>3
<1> QED BY <1>10, <1>11, <1>13, <1>15, <1>16, <1>17 DEF WholeWork

LEMMA LinkPackageWorks ==
  ASSUME GivenInv, links \in Seq(Links), left \in [Moves -> Nat], NEW o \in Nat \ {0}
  PROVE  LinkPackageOp(o) \in WholeWork(o, {})
<1> DEFINE S == Content(ops[o].pack)
           items == ById(S)
           U == [k \in 0 .. Len(items) |-> {q \in S : \A j \in 1 .. k : items[j] # q}]
           A == [k \in 0 .. Len(items) |-> WholeWork(o, U[k])]
           start == Linking(QuantsQty(S))
<1>1. S \in SUBSET Quants
  BY DEF Content
<1>2. /\ items \in Seq(S)
      /\ \A q \in S : \E i \in DOMAIN items : items[i] = q
      /\ \A i, j \in DOMAIN items : i < j => items[i] # items[j]
  <2> HIDE DEF S
  <2> QED BY <1>1, OrderFacts
<1>3. Len(items) \in Nat /\ DOMAIN items = 1 .. Len(items)
  <2> HIDE DEF items
  <2> QED BY <1>2
<1> HIDE DEF items
<1>4. \A k \in 0 .. Len(items) : U[k] = {q \in S : \A j \in 1 .. k : items[j] # q}
  OBVIOUS
<1>5. U[0] = S /\ U[Len(items)] = {}
  <2>1. 0 \in 0 .. Len(items) /\ Len(items) \in 0 .. Len(items) /\ 1 .. 0 = {}
    BY <1>3
  <2>2. U[0] = S
    BY <1>4, <2>1
  <2>3. U[Len(items)] = {}
    <3> HIDE DEF U, S
    <3> QED BY <1>2, <1>3, <1>4, <2>1
  <2> QED BY <2>2, <2>3
<1>6. ASSUME NEW k \in 1 .. Len(items)
      PROVE  /\ items[k] \in S /\ items[k] \notin U[k]
             /\ U[k - 1] = U[k] \cup {items[k]} /\ U[k] \in SUBSET Quants
  <2>1. k \in 0 .. Len(items) /\ k - 1 \in 0 .. Len(items) /\ k \in 1 .. k /\ k \in DOMAIN items
    BY <1>3
  <2>2. /\ U[k] = {q \in S : \A j \in 1 .. k : items[j] # q}
        /\ U[k - 1] = {q \in S : \A j \in 1 .. k - 1 : items[j] # q}
    <3> HIDE DEF U
    <3> QED BY <1>4, <2>1
  <2>3. items[k] \in S
    <3> HIDE DEF S
    <3> QED BY <1>2, <2>1
  <2>4. \A j \in 1 .. k - 1 : items[j] # items[k]
    <3> TAKE j \in 1 .. k - 1
    <3>1. j \in DOMAIN items /\ j < k
      BY <1>3
    <3> QED BY <1>2, <2>1, <3>1
  <2>5. \A j \in 1 .. k : j = k \/ j \in 1 .. k - 1
    OBVIOUS
  <2>6. \A j \in 1 .. k - 1 : j \in 1 .. k
    OBVIOUS
  <2> HIDE DEF S, U
  <2> QED BY <1>1, <2>1, <2>2, <2>3, <2>4, <2>5, <2>6
<1>7. start \in WholeWork(o, S)
  <2>1. QuantsQty(S) \in Nat
    BY <1>1, QuantsNat
  <2>2. start \in Work(o, QuantsQty(S), WholeLinks(o))
    BY <2>1, WorkStarts
  <2>3. start.need = QuantsQty(S) /\ start.rest = <<>> /\ start.links = links
    BY DEF Linking
  <2>4. OfOp(<<>>, o) = 0
    BY OfEmpty
  <2>5. start.need = QuantsQty(S) + OfOp(start.rest, o)
    BY <2>1, <2>3, <2>4
  <2>6. DOMAIN start.rest = {} /\ DOMAIN start.links \ DOMAIN links = {}
    BY <2>3
  <2> HIDE DEF start
  <2> QED BY <2>2, <2>5, <2>6 DEF WholeWork
<1>8. start \in A[0]
  <2>1. 0 \in 0 .. Len(items)
    BY <1>3
  <2>2. A[0] = WholeWork(o, U[0])
    BY <2>1
  <2> HIDE DEF A, U, S, start
  <2> QED BY <1>5, <1>7, <2>2
<1>9. ASSUME NEW k \in 1 .. Len(items), NEW acc \in A[k - 1]
      PROVE  LinkWhole(o)[items[k]][acc] \in A[k]
  <2>1. k \in 0 .. Len(items) /\ k - 1 \in 0 .. Len(items)
    BY <1>3
  <2>2. A[k] = WholeWork(o, U[k]) /\ A[k - 1] = WholeWork(o, U[k - 1])
    <3> HIDE DEF U
    <3> QED BY <2>1
  <2>3. PICK V \in SUBSET Quants : V = U[k]
    BY <1>6
  <2>4. PICK q \in Content(ops[o].pack) : q = items[k] /\ q \notin V
    BY <1>6, <2>3
  <2>5. U[k - 1] = V \cup {q}
    BY <1>6, <2>3, <2>4
  <2>6. acc \in WholeWork(o, V \cup {q})
    <3> HIDE DEF A, U, S
    <3> QED BY <2>2, <2>5
  <2>7. LinkWhole(o)[q][acc] \in WholeWork(o, V)
    BY <2>4, <2>6, LinkWholeStep
  <2> HIDE DEF A, U, S
  <2> QED BY <2>2, <2>3, <2>4, <2>7
<1>10. Through(LinkWhole(o), items, start) \in A[Len(items)]
  <2> HIDE DEF S, U, A, start
  <2>1. \A k \in 1 .. Len(items) : \A acc \in A[k - 1] : LinkWhole(o)[items[k]][acc] \in A[k]
    BY <1>9
  <2> QED BY <1>2, <1>8, <2>1, ThroughKeeps
<1>11. A[Len(items)] = WholeWork(o, {})
  <2>1. Len(items) \in 0 .. Len(items)
    BY <1>3
  <2>2. A[Len(items)] = WholeWork(o, U[Len(items)])
    BY <2>1
  <2> HIDE DEF A, U
  <2> QED BY <1>5, <2>2
<1>12. LinkPackageOp(o) = Through(LinkWhole(o), items, start)
  BY DEF LinkPackageOp, items
<1> HIDE DEF A, start
<1> QED BY <1>10, <1>11, <1>12

-----------------------------------------------------------------------------
(* Packages in packages *)

LEMMA WithinFacts ==
  ASSUME NEW p \in Packs
  PROVE  /\ Within(p, p)
         /\ Parent[p] # None => Parent[p] \in Packs /\ Within(p, Parent[p])
         /\ \A q, r : Within(r, p) /\ Within(p, q) => Within(r, q)
<1>1. p # None /\ Parent[p] \in Packs \cup {None}
  BY TransferAssumption
<1> QED BY <1>1 DEF Within

\* Who is in a package and is not the package has a parent there.
LEMMA Climb ==
  ASSUME NEW r \in Packs, NEW p \in Packs, Within(r, p), r # p
  PROVE  Parent[r] \in Packs /\ Within(Parent[r], p)
<1>1. Parent[r] \in Packs \cup {None} /\ None \notin Packs
  BY TransferAssumption
<1>2. Parent[r] # None
  <2>1. ASSUME Parent[r] = None PROVE FALSE
    <3>1. {r} \in SUBSET Packs /\ r \in {r} /\ \A x \in {r} : Parent[x] \in {r} \cup {None}
      BY <2>1
    <3>2. p \in {r}
      BY <3>1 DEF Within
    <3> QED BY <3>2
  <2> QED BY <2>1
<1>3. ASSUME NEW above \in SUBSET Packs, Parent[r] \in above,
             \A x \in above : Parent[x] \in above \cup {None}
      PROVE  p \in above
  <2> DEFINE more == above \cup {r}
  <2>1. more \in SUBSET Packs /\ r \in more /\ \A x \in more : Parent[x] \in more \cup {None}
    BY <1>3
  <2>2. p \in more
    <3> HIDE DEF more
    <3> QED BY <2>1 DEF Within
  <2> QED BY <2>2
<1> QED BY <1>1, <1>2, <1>3 DEF Within

\* Of two packages around a third one, one is in the other.
LEMMA WithinOneWay ==
  ASSUME NEW r \in Packs, NEW p \in Packs, NEW q \in Packs, Within(r, p), Within(r, q)
  PROVE  Within(p, q) \/ Within(q, p)
<1> SUFFICES ASSUME ~ Within(p, q), ~ Within(q, p) PROVE FALSE
  OBVIOUS
<1> DEFINE U == {x \in Packs : Within(x, p) /\ Within(x, q)}
<1>1. \A x \in U : Parent[x] \in U
  <2> TAKE x \in U
  <2>1. x # p /\ x # q
    OBVIOUS
  <2>2. Parent[x] \in Packs /\ Within(Parent[x], p) /\ Within(Parent[x], q)
    BY <2>1, Climb
  <2> QED BY <2>2
<1>2. U \in SUBSET Packs /\ r \in U
  OBVIOUS
<1>3. p \in U
  <2> HIDE DEF U
  <2> QED BY <1>1, <1>2 DEF Within
<1> QED BY <1>3

LEMMA ContentsApart ==
  ASSUME GivenInv, NEW p \in Packs, NEW q \in Packs, ~ Within(p, q), ~ Within(q, p)
  PROVE  Content(p) \cap Content(q) = {}
<1> SUFFICES ASSUME NEW x \in Quants, x \in Content(p), x \in Content(q) PROVE FALSE
  BY DEF Content
<1>1. Within(quants[x].pack, p) /\ Within(quants[x].pack, q)
  BY DEF Content
<1>2. quants[x].pack \in Packs
  BY <1>1, GivenFacts DEF Within
<1> QED BY <1>1, <1>2, WithinOneWay

LEMMA TopLevelApart ==
  ASSUME GivenInv, NEW p \in TopLevelPackages, NEW q \in TopLevelPackages, p # q
  PROVE  Content(p) \cap Content(q) = {}
<1>1. ASSUME NEW r \in TopLevelPackages, NEW s \in TopLevelPackages, r # s, Within(r, s)
      PROVE  FALSE
  <2>1. r \in Packs /\ s \in Packs /\ MovedWhole(r) /\ MovedWhole(s)
    BY DEF TopLevelPackages
  <2>2. PICK t \in Packs : t = Parent[r] /\ Within(t, s) /\ Within(r, t)
    <3>1. Parent[r] \in Packs /\ Within(Parent[r], s)
      BY <1>1, <2>1, Climb
    <3>2. Parent[r] # None
      BY <3>1, TransferAssumption
    <3> QED BY <2>1, <3>1, <3>2, WithinFacts
  <2>3. Content(r) \subseteq Content(t) /\ Content(t) \subseteq Content(s)
    <3>1. \A x : Within(x, r) => Within(x, t)
      BY <2>1, <2>2, WithinFacts
    <3>2. \A x : Within(x, t) => Within(x, s)
      BY <2>2, WithinFacts
    <3> QED BY <3>1, <3>2 DEF Content
  <2>4. MovedWhole(t)
    BY <2>1, <2>3 DEF MovedWhole
  <2>5. t # None
    BY TransferAssumption
  <2>6. Parent[r] # None => ~ MovedWhole(Parent[r])
    BY DEF TopLevelPackages
  <2> QED BY <2>2, <2>4, <2>5, <2>6
<1>2. ~ Within(p, q) /\ ~ Within(q, p)
  BY <1>1
<1>3. p \in Packs /\ q \in Packs
  BY DEF TopLevelPackages
<1> QED BY <1>2, <1>3, ContentsApart

-----------------------------------------------------------------------------
(* The operations that are prepared *)

\* Operations on products, and rows of operations with packages that are apart
ProductOps == {op \in Operations : ~ op.whole}

Sound ==
  {row \in Seq(Operations) :
     \A o \in DOMAIN row : row[o].whole =>
       /\ row[o].pack \in Packs
       /\ row[o].line = None
       /\ \A n \in DOMAIN row \ {o} : row[n].whole =>
            Content(row[o].pack) \cap Content(row[n].pack) = {}}

LEMMA SoundAppend ==
  ASSUME NEW row \in Sound, NEW op \in ProductOps
  PROVE  Append(row, op) \in Sound
<1>1. row \in Seq(Operations) /\ op \in Operations /\ ~ op.whole
  BY DEF Sound, ProductOps
<1>2. PICK next : next = Append(row, op)
  OBVIOUS
<1>3. next \in Seq(Operations)
  BY <1>1, <1>2
<1>4. \A i \in DOMAIN next : next[i].whole => i \in DOMAIN row /\ next[i] = row[i]
  BY <1>1, <1>2
<1>5. next \in Sound
  BY <1>3, <1>4 DEF Sound
<1> QED BY <1>2, <1>5

LEMMA SoundConcat ==
  ASSUME NEW row \in Sound, NEW more \in Seq(ProductOps)
  PROVE  row \o more \in Sound
<1>1. row \in Seq(Operations)
  BY DEF Sound
<1>2. PICK next : next = row \o more
  OBVIOUS
<1>3. \A i \in DOMAIN more : more[i] \in Operations /\ ~ more[i].whole
  <2> TAKE i \in DOMAIN more
  <2>1. more[i] \in ProductOps
    OBVIOUS
  <2> QED BY <2>1 DEF ProductOps
<1>4. more \in Seq(Operations)
  BY <1>3
<1>5. next \in Seq(Operations)
  BY <1>1, <1>2, <1>4
<1>6. \A i \in DOMAIN next : next[i].whole => i \in DOMAIN row /\ next[i] = row[i]
  <2> TAKE i \in DOMAIN next
  <2>1. /\ Len(row) \in Nat /\ DOMAIN row = 1 .. Len(row)
        /\ Len(more) \in Nat /\ DOMAIN more = 1 .. Len(more)
        /\ DOMAIN next = 1 .. Len(row) + Len(more)
    BY <1>1, <1>2
  <2>2. CASE i \in DOMAIN row
    BY <1>1, <1>2, <2>2
  <2>3. CASE i \notin DOMAIN row
    <3>1. i - Len(row) \in DOMAIN more
      BY <2>1, <2>3
    <3>2. next[i] = more[i - Len(row)]
      BY <1>1, <1>2, <2>1, <2>3
    <3> QED BY <1>3, <3>1, <3>2
  <2> QED BY <2>2, <2>3
<1>7. next \in Sound
  BY <1>5, <1>6 DEF Sound
<1> QED BY <1>2, <1>7

-----------------------------------------------------------------------------

LEMMA ReservedNat ==
  ASSUME GivenInv
  PROVE  /\ \A m : ReservedFor(m) \in SUBSET Quants /\ ReservedQty(m) \in Nat
         /\ ForcedQty \in Nat
<1>1. \A m : ReservedFor(m) \in SUBSET Quants /\ ReservedQty(m) \in Nat
  <2> TAKE m
  <2>1. ReservedFor(m) \in SUBSET Quants
    BY DEF ReservedFor
  <2> QED BY <2>1, QuantsNat DEF ReservedQty
<1>2. ForcedQty \in Nat
  <2> DEFINE w == [m \in Moves |-> moves[m].qty - ReservedQty(m)]
             S == {m \in Moves : Assigned(m)}
  <2>1. IsFiniteSet(S)
    <3>1. S \in SUBSET Moves
      OBVIOUS
    <3> HIDE DEF S
    <3> QED BY <3>1, GivenFacts, FS_Subset
  <2>2. \A m \in S : w[m] \in Nat
    <3> TAKE m \in S
    <3>1. m \in Moves /\ moves[m].qty \in Nat /\ ReservedQty(m) <= moves[m].qty
      BY GivenFacts DEF GivenInv
    <3> QED BY <1>1, <3>1
  <2>3. ForcedQty = SumFunctionOnSet(w, S)
    BY DEF ForcedQty
  <2> HIDE DEF w, S
  <2> QED BY <2>1, <2>2, <2>3, SumNat
<1> QED BY <1>1, <1>2

LEMMA PreparedOpsTyped ==
  ASSUME GivenInv, NEW g \in Groups
  PROVE  PreparedOp(g) \in ProductOps
<1>1. LooseQuants \in SUBSET Quants
  BY DEF LooseQuants, PickingQuants
<1>2. g.pack \in Packs \cup {None} /\ g.lot \in Lots \cup {None}
  <2>1. CASE g \in {[pack |-> quants[q].pack, lot |-> quants[q].lot] : q \in LooseQuants}
    <3>1. PICK q \in Quants : g.pack = quants[q].pack /\ g.lot = quants[q].lot
      BY <1>1, <2>1
    <3> QED BY <3>1, GivenFacts
  <2>2. CASE g = [pack |-> None, lot |-> None]
    BY <2>2
  <2> QED BY <2>1, <2>2 DEF Groups
<1>3. GroupQty(g) \in Nat
  <2> DEFINE S == {q \in LooseQuants : quants[q].pack = g.pack /\ quants[q].lot = g.lot}
  <2>1. S \in SUBSET Quants
    BY <1>1
  <2> HIDE DEF S
  <2>2. QuantsQty(S) \in Nat /\ ForcedQty \in Nat
    BY <2>1, QuantsNat, ReservedNat
  <2> QED BY <2>2 DEF GroupQty, S
<1> QED BY <1>2, <1>3 DEF PreparedOp, ProductOps, Operations

LEMMA PackagesSound ==
  ASSUME GivenInv, NEW packs \in SetToSeqs(TopLevelPackages)
  PROVE  [i \in DOMAIN packs |-> WholePackage(packs[i])] \in Sound
<1> DEFINE T == TopLevelPackages
           row == [i \in DOMAIN packs |-> WholePackage(packs[i])]
<1>1. /\ packs \in [1 .. Cardinality(T) -> T]
      /\ \A i, j \in 1 .. Cardinality(T) : i # j => packs[i] # packs[j]
  BY DEF SetToSeqs
<1>2. T \subseteq Packs
  BY DEF TopLevelPackages
<1>3. Cardinality(T) \in Nat
  <2>1. IsFiniteSet(T)
    BY <1>2, TransferAssumption, FS_Subset
  <2> QED BY <2>1, FS_CardinalityType
<1>4. DOMAIN packs = 1 .. Cardinality(T) /\ \A i \in DOMAIN packs : packs[i] \in T
  BY <1>1
<1> HIDE DEF T
<1>5. \A i \in DOMAIN packs :
        /\ row[i] = [whole |-> TRUE, pack |-> packs[i], lot |-> None, line |-> None, qty |-> 1]
        /\ row[i] \in Operations
  BY <1>2, <1>4 DEF WholePackage, Operations
<1>6. DOMAIN row = DOMAIN packs
  OBVIOUS
<1>7. row \in Seq(Operations)
  BY <1>3, <1>4, <1>5
<1> HIDE DEF row
<1>8. ASSUME NEW i \in DOMAIN row, NEW j \in DOMAIN row \ {i}
      PROVE  Content(row[i].pack) \cap Content(row[j].pack) = {}
  <2>1. packs[i] # packs[j] /\ packs[i] \in TopLevelPackages /\ packs[j] \in TopLevelPackages
    BY <1>1, <1>4, <1>6 DEF T
  <2>2. row[i].pack = packs[i] /\ row[j].pack = packs[j]
    BY <1>5, <1>6
  <2> QED BY <2>1, <2>2, TopLevelApart
<1>9. \A i \in DOMAIN row : row[i].pack \in Packs /\ row[i].line = None
  BY <1>2, <1>4, <1>5, <1>6
<1>10. row \in Sound
  BY <1>7, <1>8, <1>9 DEF Sound
<1> QED BY <1>10 DEF row

LEMMA GroupsFinite == ASSUME GivenInv PROVE IsFiniteSet(Groups)
<1> DEFINE f == [q \in LooseQuants |-> [pack |-> quants[q].pack, lot |-> quants[q].lot]]
           G == {[pack |-> quants[q].pack, lot |-> quants[q].lot] : q \in LooseQuants}
           F == {[pack |-> None, lot |-> None]}
<1>1. IsFiniteSet(LooseQuants)
  <2>1. LooseQuants \in SUBSET Quants
    BY DEF LooseQuants, PickingQuants
  <2> QED BY <2>1, QuantsNat
<1>2. f \in Surjection(LooseQuants, G)
  BY DEF Surjection
<1>3. Groups \subseteq G \cup F
  BY DEF Groups
<1>4. IsFiniteSet(F)
  BY FS_Singleton
<1> HIDE DEF f, G, F
<1>5. IsFiniteSet(G \cup F)
  BY <1>1, <1>2, <1>4, FS_Surjection, FS_Union
<1> QED BY <1>3, <1>5, FS_Subset

LEMMA GroupsTyped ==
  ASSUME GivenInv, NEW groups \in SetToSeqs(Groups)
  PROVE  [i \in DOMAIN groups |-> PreparedOp(groups[i])] \in Seq(ProductOps)
<1>1. groups \in [1 .. Cardinality(Groups) -> Groups]
  BY DEF SetToSeqs
<1>2. IsFiniteSet(Groups)
  BY GroupsFinite
<1>3. Cardinality(Groups) \in Nat
  BY <1>2, FS_CardinalityType
<1>4. \A i \in DOMAIN groups : PreparedOp(groups[i]) \in ProductOps
  <2> TAKE i \in DOMAIN groups
  <2>1. groups[i] \in Groups
    BY <1>1
  <2> QED BY <2>1, PreparedOpsTyped
<1>5. DOMAIN groups = 1 .. Cardinality(Groups)
  BY <1>1
<1> QED BY <1>3, <1>4, <1>5

-----------------------------------------------------------------------------
LEMMA LinesTyped ==
  ASSUME GivenInv
  PROVE  LinesInOrder \in Seq(Lines)
<1> DEFINE S == {m \in Moves : /\ HasLine(m)
                               /\ \A n \in 1 .. m - 1 : moves[n].line # moves[m].line}
           w == [x \in S |-> 0]
           first == Sorted(S, w)
<1>1. S \in SUBSET Nat /\ IsFiniteSet(S) /\ \A x \in S : w[x] \in Int
  <2>1. S \in SUBSET Moves
    OBVIOUS
  <2>2. S \in SUBSET Nat
    BY GivenFacts
  <2>3. IsFiniteSet(S)
    <3> HIDE DEF S
    <3> QED BY <2>1, GivenFacts, FS_Subset
  <2> QED BY <2>2, <2>3
<1>2. first \in Seq(S)
  <2> HIDE DEF S, w
  <2> QED BY <1>1, SortedSeq
<1>3. LinesInOrder = [i \in DOMAIN first |-> moves[first[i]].line]
  BY DEF LinesInOrder, ById
<1>4. \A m \in S : moves[m].line \in Lines
  BY GivenFacts DEF HasLine
<1> HIDE DEF S, first
<1>5. Len(first) \in Nat /\ DOMAIN first = 1 .. Len(first) /\ \A i \in DOMAIN first : first[i] \in S
  BY <1>2
<1> QED BY <1>3, <1>4, <1>5

-----------------------------------------------------------------------------
\* A loop that every turn keeps in a set ends in it.
LEMMA ThroughStays ==
  ASSUME NEW B, NEW items \in Seq(B), NEW step, NEW W, NEW start \in W,
         \A item \in B : \A acc \in W : step[item][acc] \in W
  PROVE  Through(step, items, start) \in W
<1> DEFINE A == [k \in 0 .. Len(items) |-> W]
<1>1. Len(items) \in Nat
  OBVIOUS
<1>2. start \in A[0] /\ A[Len(items)] = W
  BY <1>1
<1>3. \A k \in 1 .. Len(items) : \A acc \in A[k - 1] : step[items[k]][acc] \in A[k]
  <2> TAKE k \in 1 .. Len(items)
  <2>1. k \in 0 .. Len(items) /\ k - 1 \in 0 .. Len(items) /\ items[k] \in B
    BY <1>1
  <2> QED BY <2>1
<1> HIDE DEF A
<1>4. Through(step, items, start) \in A[Len(items)]
  BY <1>2, <1>3, ThroughKeeps
<1> QED BY <1>2, <1>4

LEMMA ProductOpsFacts ==
  /\ ProductOps \subseteq Operations
  /\ Seq(ProductOps) \subseteq Seq(Operations)
  /\ \A op \in ProductOps : \A n \in Nat : [op EXCEPT !.qty = n] \in ProductOps
  /\ \A op \in ProductOps : \A l \in Lines, n \in Nat :
       [op EXCEPT !.line = l, !.qty = n] \in ProductOps
<1>1. ProductOps \subseteq Operations
  BY DEF ProductOps
<1>2. Seq(ProductOps) \subseteq Seq(Operations)
  BY <1>1
<1>3. \A op \in ProductOps : \A n \in Nat : [op EXCEPT !.qty = n] \in ProductOps
  BY DEF ProductOps, Operations
<1>4. \A op \in ProductOps : \A l \in Lines, n \in Nat :
       [op EXCEPT !.line = l, !.qty = n] \in ProductOps
  BY DEF ProductOps, Operations
<1> QED BY <1>1, <1>2, <1>3, <1>4

LEMMA TakeOffTyped ==
  ASSUME NEW lineQty \in Nat, NEW row \in Seq(ProductOps)
  PROVE  Through(TakeOff(lineQty), row, [toRemove |-> lineQty, items |-> <<>>]).items
           \in Seq(ProductOps)
<1> DEFINE W == [toRemove : Int, items : Seq(ProductOps)]
<1>1. [toRemove |-> lineQty, items |-> <<>>] \in W
  OBVIOUS
<1>2. ASSUME NEW op \in ProductOps, NEW acc \in W
      PROVE  TakeOff(lineQty)[op][acc] \in W
  <2> DEFINE taken == IF acc.toRemove # 0
                      THEN IF op.qty < lineQty THEN op.qty ELSE lineQty
                      ELSE 0
  <2>1. op \in Operations /\ op.qty \in Nat
    BY DEF ProductOps, Operations
  <2>2. acc \in [toRemove : Int, items : Seq(Operations)] /\ acc.toRemove \in Int /\ acc.items \in Seq(ProductOps)
    BY ProductOpsFacts
  <2>3. TakeOff(lineQty)[op][acc] =
          [toRemove |-> acc.toRemove - taken, items |-> Append(acc.items, [op EXCEPT !.qty = @ - taken])]
    BY <2>1, <2>2 DEF TakeOff
  <2>4. taken \in Nat /\ op.qty - taken \in Nat
    BY <2>1, <2>2
  <2> HIDE DEF taken
  <2>5. [op EXCEPT !.qty = @ - taken] \in ProductOps
    BY <2>4, ProductOpsFacts
  <2> QED BY <2>2, <2>3, <2>4, <2>5
<1> HIDE DEF W
<1>3. Through(TakeOff(lineQty), row, [toRemove |-> lineQty, items |-> <<>>]) \in W
  BY <1>1, <1>2, ThroughStays
<1> QED BY <1>3 DEF W

LEMMA AddLineTyped ==
  ASSUME GivenInv, NEW row \in Seq(ProductOps), NEW vals \in Sound
  PROVE  LET acc == Through(AddLine, LinesInOrder, [items |-> row, vals |-> vals])
         IN acc.items \in Seq(ProductOps) /\ acc.vals \in Sound
<1> DEFINE W == [items : Seq(ProductOps), vals : Sound]
<1>1. [items |-> row, vals |-> vals] \in W
  OBVIOUS
<1>2. ASSUME NEW line \in Lines, NEW acc \in W
      PROVE  AddLine[line][acc] \in W
  <2> DEFINE w == [m \in Moves |-> ReservedQty(m)]
             S == {m \in Moves : moves[m].line = line}
  <2>1. PICK n : n = SumFunctionOnSet(w, S)
    OBVIOUS
  <2>2. n \in Nat
    <3>1. IsFiniteSet(S)
      <4>1. S \in SUBSET Moves
        OBVIOUS
      <4> HIDE DEF S
      <4> QED BY <4>1, GivenFacts, FS_Subset
    <3>2. \A m \in S : w[m] \in Nat
      BY ReservedNat
    <3> HIDE DEF w, S
    <3> QED BY <2>1, <3>1, <3>2, SumNat
  <2>3. PICK items : items = Through(TakeOff(n), acc.items, [toRemove |-> n, items |-> <<>>]).items
    OBVIOUS
  <2>4. acc.items \in Seq(ProductOps) /\ acc.vals \in Sound
    OBVIOUS
  <2>5. items \in Seq(ProductOps)
    <3> HIDE DEF W
    <3> QED BY <2>2, <2>3, <2>4, TakeOffTyped
  <2>6. acc \in [items : Seq(Operations), vals : Seq(Operations)]
    <3>1. Sound \subseteq Seq(Operations)
      BY DEF Sound
    <3> QED BY <2>4, <3>1, ProductOpsFacts
  <2>7. AddLine[line][acc] =
          IF n = 0 THEN acc
          ELSE [items |-> items,
                vals |-> IF items = <<>> THEN acc.vals
                         ELSE Append(acc.vals, [items[1] EXCEPT !.line = line, !.qty = n])]
    <3> HIDE DEF W
    <3> QED BY <2>1, <2>3, <2>6 DEF AddLine
  <2>8. items # <<>> => Append(acc.vals, [items[1] EXCEPT !.line = line, !.qty = n]) \in Sound
    <3> HAVE items # <<>>
    <3>1. items[1] \in ProductOps
      BY <2>5
    <3>2. PICK op \in ProductOps : op = [items[1] EXCEPT !.line = line, !.qty = n]
      BY <2>2, <3>1, ProductOpsFacts
    <3> HIDE DEF W
    <3>3. Append(acc.vals, op) \in Sound
      BY <2>4, SoundAppend
    <3> QED BY <3>2, <3>3
  <2> QED BY <2>4, <2>5, <2>7, <2>8
<1> HIDE DEF W
<1>3. LinesInOrder \in Seq(Lines)
  BY LinesTyped
<1>4. Through(AddLine, LinesInOrder, [items |-> row, vals |-> vals]) \in W
  BY <1>1, <1>2, <1>3, ThroughStays
<1> QED BY <1>4 DEF W

LEMMA AddRestTyped ==
  ASSUME NEW row \in Seq(ProductOps), NEW vals \in Sound
  PROVE  Through(AddRest, row, vals) \in Sound
<1>1. ASSUME NEW op \in ProductOps, NEW acc \in Sound
      PROVE  AddRest[op][acc] \in Sound
  <2>1. op \in Operations /\ acc \in Seq(Operations)
    BY DEF ProductOps, Sound
  <2>2. AddRest[op][acc] = IF op.qty = 0 THEN acc ELSE Append(acc, op)
    BY <2>1 DEF AddRest
  <2>3. Append(acc, op) \in Sound
    BY SoundAppend
  <2> QED BY <2>2, <2>3
<1> QED BY <1>1, ThroughStays

LEMMA AddPackopValuesSound ==
  ASSUME GivenInv, NEW vals \in Sound, NEW prevals \in Seq(ProductOps)
  PROVE  AddPackopValues(vals, prevals) \in Sound
<1>1. CASE \A m \in Moves : ~HasLine(m)
  <2>1. AddPackopValues(vals, prevals) = vals \o prevals
    BY <1>1 DEF AddPackopValues
  <2> QED BY <2>1, SoundConcat
<1>2. CASE ~ \A m \in Moves : ~HasLine(m)
  <2>1. PICK acc : acc = Through(AddLine, LinesInOrder, [items |-> prevals, vals |-> vals])
    OBVIOUS
  <2>2. acc.items \in Seq(ProductOps) /\ acc.vals \in Sound
    BY <2>1, AddLineTyped
  <2>3. Through(AddRest, acc.items, acc.vals) \in Sound
    BY <2>2, AddRestTyped
  <2>4. AddPackopValues(vals, prevals) =
          IF \E m \in Moves : ~HasLine(m) THEN Through(AddRest, acc.items, acc.vals) ELSE acc.vals
    BY <1>2, <2>1 DEF AddPackopValues
  <2> QED BY <2>2, <2>3, <2>4
<1> QED BY <1>1, <1>2

-----------------------------------------------------------------------------
(* The invariant holds initially, and before every computation *)

LEMMA GivenKept ==
  ASSUME UNCHANGED given
  PROVE  /\ Moves' = Moves /\ Quants' = Quants /\ InTable' = InTable /\ Links' = Links
         /\ Table' = Table
         /\ \A p : Content(p)' = Content(p)
         /\ \A S : QuantsQty(S)' = QuantsQty(S)
         /\ GivenInv <=> GivenInv'
<1>1. moves' = moves /\ quants' = quants /\ reservation' = reservation
  BY DEF given
<1>2. Moves' = Moves /\ Quants' = Quants
  BY <1>1 DEF Moves, Quants
<1>3. InTable' = InTable
  BY <1>1, <1>2 DEF InTable, HasLine
<1>4. Links' = Links
  BY <1>2 DEF Links
<1>5. Table' = Table
  BY <1>1, <1>2, <1>3 DEF Table
<1>6. \A p : Content(p)' = Content(p)
  BY <1>1, <1>2 DEF Content
<1>7. \A S : QuantsQty(S)' = QuantsQty(S)
  BY <1>1, <1>2 DEF QuantsQty
<1>8. GivenInv <=> GivenInv'
  BY <1>1 DEF GivenInv, Moves, Quants, ReservedQty, ReservedFor, QuantsQty
<1> QED BY <1>2, <1>3, <1>4, <1>5, <1>6, <1>7, <1>8

LEMMA InitInv == ASSUME Init PROVE Inv
<1>1. GivenInv
  BY DEF Init, GivenInv, Moves, Quants
<1>2. TypeOK
  <2>1. left \in [Moves -> Nat]
    BY DEF Init
  <2>2. edits \in 0 .. MaxEdits
    BY TransferAssumption DEF Init
  <2>3. /\ ops \in Seq(Operations) /\ \A o \in DOMAIN ops : ops[o].whole => ops[o].pack \in Packs
        /\ todo \in Seq(DOMAIN ops) /\ links \in Seq(Links)
        /\ still_to_do \in Seq([op : DOMAIN ops, qty : Nat \ {0}])
    BY DEF Init
  <2>4. /\ prepared \in BOOLEAN /\ pc \in {"idle", "start", "quants", "rest", "done"}
        /\ packDone \subseteq Quants /\ {need_rereserve, all_op_processed} \subseteq BOOLEAN
    BY DEF Init
  <2> QED BY <2>1, <2>2, <2>3, <2>4 DEF TypeOK
<1>3. WholeInv /\ TodoInv /\ TableInv /\ CoverInv /\ LinkInv /\ PackDoneInv /\ RereserveInv
  BY DEF Init, WholeInv, TodoInv, TableInv, CoverInv, LinkInv, PackDoneInv, RereserveInv
<1> QED BY <1>1, <1>2, <1>3 DEF Inv

\* Other operations, before they are computed
LEMMA OtherOpsInv ==
  ASSUME Inv, pc \in {"idle", "done"}, UNCHANGED <<given, todo, recomputed>>,
         ops' \in Sound, pc' \in {"idle", "start"}, prepared' \in BOOLEAN,
         edits' \in 0 .. MaxEdits
  PROVE  Inv'
<1>1. UNCHANGED given /\ UNCHANGED todo /\ UNCHANGED recomputed
  OBVIOUS
<1>2. /\ todo = <<>> /\ still_to_do = <<>> /\ todo' = <<>> /\ still_to_do' = <<>>
      /\ links' = links /\ left' = left /\ packDone' = packDone
      /\ need_rereserve' = need_rereserve /\ all_op_processed' = all_op_processed
  BY <1>1 DEF Inv, TodoInv, recomputed
<1>3. GivenInv' /\ Moves' = Moves /\ Quants' = Quants /\ Links' = Links /\ \A p : Content(p)' = Content(p)
  BY <1>1, GivenKept DEF Inv
<1>4. TypeOK'
  <2>1. ops' \in Seq(Operations) /\ \A o \in DOMAIN ops' : ops'[o].whole => ops'[o].pack \in Packs
    BY DEF Sound
  <2>2. /\ links' \in Seq(Links') /\ left' \in [Moves' -> Nat] /\ packDone' \subseteq Quants'
        /\ {need_rereserve', all_op_processed'} \subseteq BOOLEAN
    BY <1>2, <1>3 DEF Inv, TypeOK
  <2>3. todo' \in Seq(DOMAIN ops') /\ still_to_do' \in Seq([op : DOMAIN ops', qty : Nat \ {0}])
    BY <1>2
  <2> QED BY <2>1, <2>2, <2>3 DEF TypeOK
<1>5. WholeInv'
  BY <1>3 DEF WholeInv, Sound
<1>6. TodoInv' /\ TableInv' /\ CoverInv' /\ LinkInv' /\ PackDoneInv' /\ RereserveInv'
  BY <1>2 DEF TodoInv, TableInv, CoverInv, LinkInv, PackDoneInv, RereserveInv
<1> QED BY <1>3, <1>4, <1>5, <1>6 DEF Inv

LEMMA PrepareInv == ASSUME Inv, Prepare PROVE Inv'
<1>1. GivenInv
  BY DEF Inv
<1>2. PICK packs \in SetToSeqs(TopLevelPackages), groups \in SetToSeqs(Groups) :
        ops' = AddPackopValues([i \in DOMAIN packs |-> WholePackage(packs[i])],
                               [i \in DOMAIN groups |-> PreparedOp(groups[i])])
  BY DEF Prepare
<1>3. /\ [i \in DOMAIN packs |-> WholePackage(packs[i])] \in Sound
      /\ [i \in DOMAIN groups |-> PreparedOp(groups[i])] \in Seq(ProductOps)
  BY <1>1, PackagesSound, GroupsTyped
<1>4. ops' \in Sound
  BY <1>1, <1>2, <1>3, AddPackopValuesSound
<1>5. /\ pc \in {"idle", "done"} /\ pc' \in {"idle", "start"} /\ prepared' \in BOOLEAN
      /\ UNCHANGED <<given, todo, recomputed>> /\ edits' \in 0 .. MaxEdits
  BY DEF Prepare, Inv, TypeOK
<1> QED BY <1>4, <1>5, OtherOpsInv

LEMMA EditInv ==
  ASSUME Inv, NEW new \in Sound, Edit(new)
  PROVE  Inv'
<1>1. edits' \in 0 .. MaxEdits
  BY TransferAssumption DEF Inv, TypeOK, Edit
<1> QED BY <1>1, OtherOpsInv DEF Edit

\* The operations of a state
LEMMA OpsSound ==
  ASSUME Inv
  PROVE  /\ ops \in Sound /\ GivenInv
         /\ Len(ops) \in Nat /\ DOMAIN ops = 1 .. Len(ops)
         /\ \A o \in DOMAIN ops : ops[o] \in Operations /\ o \in Nat \ {0}
<1>1. ops \in Seq(Operations) /\ GivenInv
  BY DEF Inv, TypeOK
<1>2. Len(ops) \in Nat /\ DOMAIN ops = 1 .. Len(ops) /\ \A o \in DOMAIN ops : ops[o] \in Operations
  BY <1>1
<1>3. \A o \in DOMAIN ops : o \in Nat \ {0}
  BY <1>2
<1>4. \A o \in DOMAIN ops : ops[o].whole => ops[o].pack \in Packs
  BY DEF Inv, TypeOK
<1>5. WholeInv
  BY DEF Inv
<1>6. ops \in Sound
  BY <1>1, <1>4, <1>5 DEF WholeInv, Sound
<1> QED BY <1>1, <1>2, <1>3, <1>6

LEMMA ChangeQtyInv == ASSUME Inv, ChangeQty PROVE Inv'
<1>1. PICK o \in DOMAIN ops, n \in EditQtys : ~ops[o].whole /\ Edit([ops EXCEPT ![o].qty = n])
  BY DEF ChangeQty
<1>2. n \in Nat
  BY TransferAssumption
<1>3. PICK new : new = [ops EXCEPT ![o].qty = n]
  OBVIOUS
<1>4. /\ DOMAIN new = DOMAIN ops
      /\ \A u \in DOMAIN ops : u # o => new[u] = ops[u]
      /\ new[o] = [ops[o] EXCEPT !.qty = n]
  BY <1>3
<1>5. new[o] \in Operations /\ ~ new[o].whole
  <2>1. ops[o] \in Operations /\ ~ ops[o].whole
    BY <1>1, OpsSound
  <2> QED BY <1>2, <1>4, <2>1 DEF Operations
<1>6. new \in Seq(Operations)
  <2>1. Len(ops) \in Nat /\ DOMAIN ops = 1 .. Len(ops) /\ \A u \in DOMAIN ops : ops[u] \in Operations
    BY OpsSound
  <2>2. \A u \in DOMAIN ops : new[u] \in Operations
    BY <1>4, <1>5, <2>1
  <2>3. new = [u \in 1 .. Len(ops) |-> new[u]]
    BY <1>3, <2>1
  <2> HIDE DEF Operations
  <2> QED BY <2>1, <2>2, <2>3
<1>7. new \in Sound
  <2>1. ops \in Sound
    BY OpsSound
  <2>2. \A u \in DOMAIN new : new[u].whole => u \in DOMAIN ops /\ new[u] = ops[u]
    BY <1>4, <1>5
  <2> QED BY <1>6, <2>1, <2>2 DEF Sound
<1> QED BY <1>1, <1>3, <1>7, EditInv

LEMMA AddProductOpInv == ASSUME Inv, AddProductOp PROVE Inv'
<1>1. PICK p \in Packs \cup {None}, l \in Lots \cup {None}, n \in EditQtys, line \in Lines \cup {None} :
        Edit(Append(ops, [whole |-> FALSE, pack |-> p, lot |-> l, line |-> line, qty |-> n]))
  BY DEF AddProductOp
<1>2. PICK op \in ProductOps : op = [whole |-> FALSE, pack |-> p, lot |-> l, line |-> line, qty |-> n]
  BY TransferAssumption DEF ProductOps, Operations
<1>3. Append(ops, op) \in Sound
  BY OpsSound, SoundAppend
<1> QED BY <1>1, <1>2, <1>3, EditInv

LEMMA AddPackageOpInv == ASSUME Inv, AddPackageOp PROVE Inv'
<1>1. PICK p \in Packs : /\ \A o \in DOMAIN ops :
                             ops[o].whole => ~Within(p, ops[o].pack) /\ ~Within(ops[o].pack, p)
                         /\ Edit(Append(ops, WholePackage(p)))
  BY DEF AddPackageOp
<1>2. PICK op \in Operations : op = WholePackage(p) /\ op.whole /\ op.pack = p /\ op.line = None
  <2>1. WholePackage(p) = [whole |-> TRUE, pack |-> p, lot |-> None, line |-> None, qty |-> 1]
    BY DEF WholePackage
  <2>2. WholePackage(p) \in Operations
    BY <2>1 DEF Operations
  <2> QED BY <2>1, <2>2
<1>3. PICK new : new = Append(ops, op)
  OBVIOUS
<1>4. /\ ops \in Sound /\ ops \in Seq(Operations) /\ GivenInv
  BY OpsSound DEF Sound
<1>5. /\ new \in Seq(Operations)
      /\ \A o \in DOMAIN new : \/ o \in DOMAIN ops /\ new[o] = ops[o]
                               \/ o = Len(ops) + 1 /\ new[o] = op
  BY <1>3, <1>4
<1>6. \A o \in DOMAIN ops : ops[o].whole =>
        /\ Content(ops[o].pack) \cap Content(p) = {}
        /\ Content(p) \cap Content(ops[o].pack) = {}
  <2> TAKE o \in DOMAIN ops
  <2> HAVE ops[o].whole
  <2>1. ops[o].pack \in Packs
    BY <1>4 DEF Sound
  <2>2. Content(p) \cap Content(ops[o].pack) = {}
    BY <1>1, <1>4, <2>1, ContentsApart
  <2> QED BY <2>2
<1>7. new \in Sound
  BY <1>2, <1>4, <1>5, <1>6 DEF Sound
<1> QED BY <1>1, <1>2, <1>3, <1>7, EditInv

-----------------------------------------------------------------------------
(* Recompute keeps the invariant *)

LEMMA OpOrderFacts ==
  ASSUME Inv
  PROVE  /\ OpOrder \in Seq(DOMAIN ops)
         /\ \A o \in DOMAIN ops : \E i \in DOMAIN OpOrder : OpOrder[i] = o
         /\ \A i, j \in DOMAIN OpOrder :
              i < j => OpOrder[i] # OpOrder[j] /\ OpWeight(OpOrder[i]) <= OpWeight(OpOrder[j])
<1> DEFINE w == [o \in DOMAIN ops |-> OpWeight(o)]
<1>1. DOMAIN ops \in SUBSET Nat /\ IsFiniteSet(DOMAIN ops)
  BY OpsSound, FS_Interval
<1>2. \A o \in DOMAIN ops : w[o] = OpWeight(o) /\ w[o] \in Int
  BY DEF OpWeight
<1>3. OpOrder = Sorted(DOMAIN ops, w)
  BY DEF OpOrder
<1> HIDE DEF w
<1>4. PICK S : S = DOMAIN ops
  OBVIOUS
<1>5. PICK row : row = Sorted(S, w)
  OBVIOUS
<1>6. /\ row \in Seq(S)
      /\ \A x \in S : \E i \in DOMAIN row : row[i] = x
      /\ \A i, j \in DOMAIN row : i < j => row[i] # row[j] /\ w[row[i]] <= w[row[j]]
  <2>1. S \in SUBSET Nat /\ IsFiniteSet(S) /\ \A x \in S : w[x] \in Int
    BY <1>1, <1>2, <1>4
  <2>2. /\ Sorted(S, w) \in Seq(S)
        /\ \A x \in S : \E i \in DOMAIN Sorted(S, w) : Sorted(S, w)[i] = x
        /\ \A i, j \in DOMAIN Sorted(S, w) :
             i < j => Sorted(S, w)[i] # Sorted(S, w)[j] /\ w[Sorted(S, w)[i]] <= w[Sorted(S, w)[j]]
    BY <2>1, SortedSeq
  <2> QED BY <1>5, <2>2
<1>7. OpOrder = row
  BY <1>3, <1>4, <1>5
<1>8. \A i \in DOMAIN row : row[i] \in DOMAIN ops
  BY <1>4, <1>6
<1> QED BY <1>2, <1>4, <1>6, <1>7, <1>8

LEMMA RecomputeInv == ASSUME Inv, Recompute PROVE Inv'
<1>1. UNCHANGED given /\ ops' = ops /\ prepared' = prepared /\ edits' = edits /\ pc' = "quants"
  BY DEF Recompute
<1>2. /\ GivenInv' /\ Moves' = Moves /\ Quants' = Quants /\ InTable' = InTable /\ Table' = Table
      /\ Links' = Links /\ \A p : Content(p)' = Content(p)
  BY <1>1, GivenKept DEF Inv
<1>3. /\ todo' = OpOrder /\ links' = <<>> /\ still_to_do' = <<>> /\ packDone' = {}
      /\ need_rereserve' = FALSE /\ all_op_processed' = TRUE /\ left' = Table
  BY DEF Recompute, Table
<1>4. PICK row : row = OpOrder /\ todo' = row
  BY <1>3
<1>a. /\ row \in Seq(DOMAIN ops)
      /\ \A o \in DOMAIN ops : \E i \in DOMAIN row : row[i] = o
      /\ \A i, j \in DOMAIN row : i < j => row[i] # row[j] /\ OpWeight(row[i]) <= OpWeight(row[j])
  BY <1>4, OpOrderFacts
<1>5. TypeOK'
  <2>1. ops' \in Seq(Operations) /\ \A o \in DOMAIN ops' : ops'[o].whole => ops'[o].pack \in Packs
    BY <1>1 DEF Inv, TypeOK
  <2>2. prepared' \in BOOLEAN /\ edits' \in 0 .. MaxEdits
    BY <1>1 DEF Inv, TypeOK
  <2>3. Table \in [Moves -> Nat]
    <3>1. \A m \in Moves : moves[m].qty \in Nat
      BY GivenFacts DEF Inv
    <3> QED BY <3>1 DEF Table
  <2>4. /\ links' \in Seq(Links') /\ left' \in [Moves' -> Nat] /\ packDone' \subseteq Quants'
        /\ {need_rereserve', all_op_processed'} \subseteq BOOLEAN
    <3>1. \A S : <<>> \in Seq(S)
      OBVIOUS
    <3>2. links' \in Seq(Links')
      BY <1>3, <3>1
    <3> QED BY <1>2, <1>3, <2>3, <3>2
  <2>5. still_to_do' \in Seq([op : DOMAIN ops', qty : Nat \ {0}])
    BY <1>3
  <2>6. todo' \in Seq(DOMAIN ops')
    BY <1>1, <1>4, <1>a
  <2> QED BY <1>1, <2>1, <2>2, <2>4, <2>5, <2>6 DEF TypeOK
<1>6. WholeInv'
  BY <1>1, <1>2 DEF Inv, WholeInv
<1>7. TodoInv'
  <2>1. \A i, j \in DOMAIN todo' :
          i < j => /\ todo'[i] # todo'[j]
                   /\ OpWeight(row[i])' <= OpWeight(row[j])'
    BY <1>1, <1>4, <1>a DEF OpWeight
  <2> QED BY <1>1, <1>3, <1>4, <2>1 DEF TodoInv, OpWeight
<1>8. TableInv'
  <2>1. \A m : OfMove(<<>>, m) = 0
    BY OfEmpty
  <2>2. \A m \in Moves : Table[m] \in Int
    <3>1. \A m \in Moves : moves[m].qty \in Nat
      BY GivenFacts DEF Inv
    <3> QED BY <3>1 DEF Table
  <2>3. \A m \in Moves' : left'[m] + OfMove(links', m) = Table'[m]
    BY <1>2, <1>3, <2>1, <2>2
  <2> QED BY <2>3 DEF TableInv
<1>9. CoverInv'
  <2>1. \A o : OfOp(<<>>, o) = 0
    BY OfEmpty
  <2>2. \A o : Covered(o)' = 0
    BY <1>3, <2>1 DEF Covered
  <2>3. \A o \in DOMAIN ops' : Waiting(o)'
    BY <1>1, <1>4, <1>a DEF Waiting
  <2> QED BY <1>1, <1>3, <2>2, <2>3 DEF CoverInv
<1>10. LinkInv'
  BY <1>3 DEF LinkInv
<1>11. PackDoneInv'
  <2>1. \A o \in DOMAIN ops' : Waiting(o)'
    BY <1>1, <1>4, <1>a DEF Waiting
  <2> QED BY <2>1 DEF PackDoneInv
<1>12. RereserveInv'
  BY <1>1, <1>3 DEF RereserveInv
<1> QED BY <1>2, <1>5, <1>6, <1>7, <1>8, <1>9, <1>10, <1>11, <1>12 DEF Inv

LEMMA OpQtyNat ==
  ASSUME Inv, NEW o \in DOMAIN ops
  PROVE  OpQty(o) \in Nat
<1>1. ops[o] \in Operations /\ GivenInv
  BY OpsSound
<1>2. ops[o].qty \in Nat
  BY <1>1 DEF Operations
<1>3. \A p : QuantsQty(Content(p)) \in Nat
  <2> TAKE p
  <2>1. Content(p) \in SUBSET Quants
    BY DEF Content
  <2> QED BY <1>1, <2>1, QuantsNat
<1> QED BY <1>2, <1>3 DEF OpQty

LEMMA StartRestInv == ASSUME Inv, StartRest PROVE Inv'
<1>1. /\ UNCHANGED given /\ ops' = ops /\ prepared' = prepared /\ edits' = edits
      /\ pc = "quants" /\ pc' = "rest" /\ todo = <<>> /\ todo' = todo /\ links' = links /\ left' = left
      /\ packDone' = packDone /\ still_to_do' = still_to_do
      /\ need_rereserve' = need_rereserve /\ all_op_processed' = all_op_processed
  BY DEF StartRest, recomputed
<1>2. /\ GivenInv' /\ Moves' = Moves /\ Quants' = Quants /\ InTable' = InTable /\ Table' = Table
      /\ Links' = Links /\ \A p : Content(p)' = Content(p) /\ \A S : QuantsQty(S)' = QuantsQty(S)
      /\ moves' = moves /\ reservation' = reservation
  BY <1>1, GivenKept DEF Inv, given
<1>3. TypeOK'
  BY <1>1, <1>2 DEF Inv, TypeOK
<1>4. WholeInv' /\ TodoInv' /\ TableInv' /\ PackDoneInv'
  BY <1>1, <1>2 DEF Inv, WholeInv, TodoInv, TableInv, PackDoneInv
<1>5. \A o \in DOMAIN ops : Covered(o) = OpQty(o) /\ OpQty(o) \in Int
  <2> TAKE o \in DOMAIN ops
  <2>1. ~ Waiting(o)
    BY <1>1 DEF Waiting
  <2>2. Covered(o) = OpQty(o)
    BY <1>1, <2>1 DEF Inv, CoverInv
  <2> QED BY <2>2, OpQtyNat
<1>6. CoverInv'
  <2>1. \A o \in DOMAIN ops' : Covered(o)' = OpQty(o)' /\ OpQty(o)' \in Int
    BY <1>1, <1>2, <1>5 DEF Covered, OpQty
  <2>2. all_op_processed'
    BY <1>1 DEF Inv, CoverInv
  <2> QED BY <1>1, <2>1, <2>2 DEF CoverInv
<1>7. LinkInv'
  BY <1>1, <1>2 DEF Inv, LinkInv, Suits
<1>8. RereserveInv'
  BY <1>1 DEF Inv, RereserveInv, CoverInv
<1> QED BY <1>2, <1>3, <1>4, <1>6, <1>7, <1>8 DEF Inv

LEMMA ReturnInv == ASSUME Inv, Return PROVE Inv'
<1>1. /\ UNCHANGED given /\ ops' = ops /\ prepared' = prepared /\ edits' = edits
      /\ pc = "rest" /\ pc' = "done" /\ todo' = todo /\ links' = links /\ left' = left
      /\ packDone' = packDone /\ still_to_do = <<>> /\ still_to_do' = still_to_do
      /\ need_rereserve' = need_rereserve /\ all_op_processed' = all_op_processed
  BY DEF Return, recomputed
<1>2. /\ GivenInv' /\ Moves' = Moves /\ Quants' = Quants /\ InTable' = InTable /\ Table' = Table
      /\ Links' = Links /\ \A p : Content(p)' = Content(p) /\ \A S : QuantsQty(S)' = QuantsQty(S)
      /\ moves' = moves /\ reservation' = reservation
  BY <1>1, GivenKept DEF Inv, given
<1>3. TypeOK'
  BY <1>1, <1>2 DEF Inv, TypeOK
<1>4. WholeInv' /\ TodoInv' /\ TableInv' /\ PackDoneInv'
  BY <1>1, <1>2 DEF Inv, WholeInv, TodoInv, TableInv, PackDoneInv
<1>6. CoverInv'
  <2>1. \A o : Covered(o)' = Covered(o) /\ OpQty(o)' = OpQty(o) /\ \A m : Suits(o, m)' = Suits(o, m)
    BY <1>1, <1>2 DEF Covered, OpQty, Suits
  <2> QED BY <1>1, <1>2, <2>1 DEF Inv, CoverInv
<1>7. LinkInv'
  BY <1>1, <1>2 DEF Inv, LinkInv, Suits
<1>8. RereserveInv'
  BY <1>1 DEF Inv, RereserveInv
<1> QED BY <1>2, <1>3, <1>4, <1>6, <1>7, <1>8 DEF Inv

LEMMA StutterInv == ASSUME Inv, UNCHANGED vars PROVE Inv'
<1>1. /\ UNCHANGED given /\ ops' = ops /\ prepared' = prepared /\ edits' = edits
      /\ pc' = pc /\ todo' = todo /\ links' = links /\ left' = left
      /\ packDone' = packDone /\ still_to_do' = still_to_do
      /\ need_rereserve' = need_rereserve /\ all_op_processed' = all_op_processed
  BY DEF vars, given
<1>2. /\ GivenInv' /\ Moves' = Moves /\ Quants' = Quants /\ InTable' = InTable /\ Table' = Table
      /\ Links' = Links /\ \A p : Content(p)' = Content(p) /\ \A S : QuantsQty(S)' = QuantsQty(S)
      /\ moves' = moves /\ reservation' = reservation
  BY <1>1, GivenKept DEF Inv, given
<1>3. TypeOK'
  BY <1>1, <1>2 DEF Inv, TypeOK
<1>4. WholeInv' /\ TodoInv' /\ TableInv' /\ PackDoneInv'
  <2>1. \A o : OpWeight(o)' = OpWeight(o) /\ Waiting(o)' = Waiting(o)
    BY <1>1 DEF OpWeight, Waiting
  <2> QED BY <1>1, <1>2, <2>1 DEF Inv, WholeInv, TodoInv, TableInv, PackDoneInv
<1>6. CoverInv'
  <2>1. \A o : /\ Covered(o)' = Covered(o) /\ OpQty(o)' = OpQty(o) /\ Waiting(o)' = Waiting(o)
               /\ \A m : Suits(o, m)' = Suits(o, m)
    BY <1>1, <1>2 DEF Covered, OpQty, Suits, Waiting
  <2> QED BY <1>1, <1>2, <2>1 DEF Inv, CoverInv
<1>7. LinkInv'
  BY <1>1, <1>2 DEF Inv, LinkInv, Suits
<1>8. RereserveInv'
  BY <1>1 DEF Inv, RereserveInv
<1> QED BY <1>2, <1>3, <1>4, <1>6, <1>7, <1>8 DEF Inv

-----------------------------------------------------------------------------
(* One operation of the first part *)

\* Things of other operations are no part of an operation.
LEMMA OfNone ==
  ASSUME NEW row, NEW o, \A i \in DOMAIN row : row[i].op # o
  PROVE  OfOp(row, o) = 0
<1>1. {i \in DOMAIN row : row[i].op = o} = {}
  OBVIOUS
<1>2. SumFunctionOnSet([i \in DOMAIN row |-> row[i].qty], {}) = 0
  BY SumEmpty
<1> QED BY <1>1, <1>2 DEF OfOp, QtyOf

\* The types that the invariant has for the computation, in short
LEMMA ComputationTyped ==
  ASSUME Inv
  PROVE  /\ links \in Seq(Links) /\ left \in [Moves -> Nat]
         /\ still_to_do \in Seq([op : DOMAIN ops, qty : Nat \ {0}])
         /\ \A o : OfOp(links, o) \in Nat /\ OfOp(still_to_do, o) \in Nat /\ OfMove(links, o) \in Nat
         /\ \A i \in DOMAIN links : /\ links[i].op \in Nat \ {0} /\ links[i].qty \in Nat \ {0}
                                    /\ links[i].move \in Moves
                                    /\ links[i].quant \in Quants \cup {None}
         /\ \A i \in DOMAIN still_to_do : /\ still_to_do[i].op \in DOMAIN ops
                                          /\ still_to_do[i].qty \in Nat \ {0}
<1> DEFINE R == [op : DOMAIN ops, qty : Nat \ {0}]
<1>1. links \in Seq(Links) /\ left \in [Moves -> Nat] /\ still_to_do \in Seq(R)
  BY DEF Inv, TypeOK
<1>2. \A r \in Links : r.qty \in Nat
  BY DEF Links
<1>3. \A r \in R : r.qty \in Nat
  OBVIOUS
<1>4. \A i \in DOMAIN links : links[i] \in Links
  BY <1>1
<1>5. \A i \in DOMAIN links : /\ links[i].op \in Nat \ {0} /\ links[i].qty \in Nat \ {0}
                              /\ links[i].move \in Moves
                              /\ links[i].quant \in Quants \cup {None}
  BY <1>4 DEF Links
<1> HIDE DEF R
<1>6. \A i \in DOMAIN still_to_do : still_to_do[i] \in R
  BY <1>1
<1>7. \A i \in DOMAIN still_to_do : still_to_do[i].op \in DOMAIN ops /\ still_to_do[i].qty \in Nat \ {0}
  BY <1>6 DEF R
<1>8. \A o : OfOp(links, o) \in Nat /\ OfMove(links, o) \in Nat
  BY <1>1, <1>2, OfNat
<1>9. \A o : OfOp(still_to_do, o) \in Nat
  BY <1>1, <1>3, OfNat
<1> QED BY <1>1, <1>5, <1>7, <1>8, <1>9 DEF R

\* An operation without links or deferred parts has none in the rows.
LEMMA Untouched ==
  ASSUME Inv, NEW o, Covered(o) = 0
  PROVE  /\ OfOp(links, o) = 0 /\ OfOp(still_to_do, o) = 0
         /\ \A i \in DOMAIN links : links[i].op # o
<1>1. OfOp(links, o) = 0 /\ OfOp(still_to_do, o) = 0
  BY ComputationTyped DEF Covered
<1>2. links \in Seq(Links) /\ \A r \in Links : r.qty \in Nat
  BY ComputationTyped DEF Links
<1>3. \A i \in DOMAIN links : links[i].op = o => links[i].qty <= OfOp(links, o)
  BY <1>2, OfNat
<1>4. \A i \in DOMAIN links : links[i].qty \in Nat \ {0}
  BY ComputationTyped
<1> QED BY <1>1, <1>3, <1>4

\* The operation whose turn it is, and those that wait after it
LEMMA HeadFacts ==
  ASSUME Inv, pc = "quants", todo # <<>>
  PROVE  LET o == Head(todo)
         IN /\ o \in DOMAIN ops /\ Waiting(o)
            /\ OfOp(links, o) = 0 /\ OfOp(still_to_do, o) = 0
            /\ \A i \in DOMAIN links : links[i].op # o
            /\ Tail(todo) \in Seq(DOMAIN ops)
            /\ \A k \in DOMAIN todo : OpWeight(o) <= OpWeight(todo[k])
            /\ \A k \in DOMAIN Tail(todo) : k + 1 \in DOMAIN todo /\ Tail(todo)[k] = todo[k + 1]
            /\ \A u : (\E k \in DOMAIN Tail(todo) : Tail(todo)[k] = u) <=> (Waiting(u) /\ u # o)
<1>1. todo \in Seq(DOMAIN ops)
  BY DEF Inv, TypeOK
<1>2. PICK n \in Nat : n = Len(todo) /\ n >= 1 /\ DOMAIN todo = 1 .. n
  BY <1>1
<1>3. PICK o : o = Head(todo) /\ o = todo[1]
  BY <1>1
<1>4. PICK rest : rest = Tail(todo)
  OBVIOUS
<1>5. /\ rest \in Seq(DOMAIN ops) /\ DOMAIN rest = 1 .. n - 1
      /\ \A k \in 1 .. n - 1 : rest[k] = todo[k + 1]
  BY <1>1, <1>2, <1>4
<1>6. o \in DOMAIN ops /\ Waiting(o) /\ 1 \in DOMAIN todo
  BY <1>1, <1>2, <1>3 DEF Waiting
<1>7. \A i, j \in DOMAIN todo : i < j => todo[i] # todo[j] /\ OpWeight(todo[i]) <= OpWeight(todo[j])
  BY DEF Inv, TodoInv
<1>8. \A k \in DOMAIN todo : k = 1 \/ (1 < k /\ k - 1 \in DOMAIN rest /\ (k - 1) + 1 = k)
  BY <1>2, <1>5
<1>9. \A k \in DOMAIN rest : k + 1 \in DOMAIN todo /\ 1 < k + 1 /\ rest[k] = todo[k + 1]
  BY <1>2, <1>5
<1>10. \A k \in DOMAIN todo : OpWeight(o) <= OpWeight(todo[k])
  <2> TAKE k \in DOMAIN todo
  <2>1. CASE k = 1
    <3>1. OpWeight(o) \in Int
      BY DEF OpWeight
    <3> QED BY <1>3, <2>1, <3>1
  <2>2. CASE 1 < k
    BY <1>3, <1>6, <1>7, <2>2
  <2> QED BY <1>8, <2>1, <2>2
<1>11. \A u : (\E k \in DOMAIN rest : rest[k] = u) <=> (Waiting(u) /\ u # o)
  <2> TAKE u
  <2>1. ASSUME NEW k \in DOMAIN rest, rest[k] = u PROVE Waiting(u) /\ u # o
    BY <1>3, <1>6, <1>7, <1>9, <2>1 DEF Waiting
  <2>2. ASSUME Waiting(u), u # o PROVE \E k \in DOMAIN rest : rest[k] = u
    <3>1. PICK k \in DOMAIN todo : todo[k] = u
      BY <2>2 DEF Waiting
    <3>2. k # 1
      BY <1>3, <2>2, <3>1
    <3>3. k - 1 \in DOMAIN rest /\ rest[k - 1] = todo[k]
      BY <1>8, <1>9, <3>2
    <3> QED BY <3>1, <3>3
  <2> QED BY <2>1, <2>2
<1>12. Covered(o) = 0
  BY <1>6 DEF Inv, CoverInv
<1>13. /\ OfOp(links, o) = 0 /\ OfOp(still_to_do, o) = 0
       /\ \A i \in DOMAIN links : links[i].op # o
  BY <1>12, Untouched
<1> QED BY <1>3, <1>4, <1>5, <1>6, <1>9, <1>10, <1>11, <1>13

-----------------------------------------------------------------------------
Unfinished == [op : DOMAIN ops, qty : Nat \ {0}]

\* What one turn of the first part does with operation o
Turn(o, C, acc, more) ==
  /\ pc = "quants" /\ todo # <<>> /\ o = Head(todo) /\ todo' = Tail(todo)
  /\ acc \in Work(o, OpQty(o), C) /\ left' = acc.left /\ links' = acc.links
  /\ more \in Seq(Unfinished) /\ \A i \in DOMAIN more : more[i].op = o
  /\ OfOp(more, o) = acc.need
  /\ Defer(more)
  /\ packDone \subseteq packDone' /\ packDone' \subseteq Quants
  /\ UNCHANGED <<given, ops, prepared, edits, pc, all_op_processed>>

LEMMA TurnTyped ==
  ASSUME Inv, NEW o, NEW C, NEW acc, NEW more, Turn(o, C, acc, more)
  PROVE  TypeOK' /\ GivenInv' /\ WholeInv'
<1>1. UNCHANGED given /\ ops' = ops /\ prepared' = prepared /\ edits' = edits /\ pc' = pc
      /\ all_op_processed' = all_op_processed
  BY DEF Turn
<1>2. /\ GivenInv' /\ Moves' = Moves /\ Quants' = Quants /\ Links' = Links
      /\ \A p : Content(p)' = Content(p)
  BY <1>1, GivenKept DEF Inv
<1>3. /\ ops' \in Seq(Operations) /\ \A u \in DOMAIN ops' : ops'[u].whole => ops'[u].pack \in Packs
      /\ prepared' \in BOOLEAN /\ edits' \in 0 .. MaxEdits
      /\ pc' \in {"idle", "start", "quants", "rest", "done"} /\ all_op_processed' \in BOOLEAN
  BY <1>1 DEF Inv, TypeOK
<1>4. todo' \in Seq(DOMAIN ops')
  BY <1>1, HeadFacts DEF Turn
<1>5. links' \in Seq(Links') /\ left' \in [Moves' -> Nat] /\ packDone' \subseteq Quants'
  BY <1>2 DEF Turn, Work, Progress
<1>6. still_to_do' \in Seq(Unfinished)
  <2>1. still_to_do \in Seq(Unfinished) /\ more \in Seq(Unfinished)
    BY ComputationTyped DEF Turn, Unfinished
  <2>2. still_to_do' = still_to_do \o more
    BY DEF Turn, Defer
  <2> QED BY <2>1, <2>2
<1>7. need_rereserve' \in BOOLEAN
  BY DEF Turn, Defer, Inv, TypeOK
<1>8. TypeOK'
  BY <1>1, <1>3, <1>4, <1>5, <1>6, <1>7 DEF TypeOK, Unfinished
<1>9. WholeInv'
  BY <1>1, <1>2 DEF Inv, WholeInv
<1> QED BY <1>2, <1>8, <1>9

LEMMA TurnTodo ==
  ASSUME Inv, NEW o, NEW C, NEW acc, NEW more, Turn(o, C, acc, more)
  PROVE  TodoInv' /\ \A u : Waiting(u)' <=> Waiting(u) /\ u # o
<1>1. pc = "quants" /\ pc' = "quants" /\ ops' = ops /\ todo # <<>> /\ o = Head(todo)
  BY DEF Turn
<1>2. PICK rest : rest = Tail(todo) /\ todo' = rest
  BY DEF Turn
<1>3. /\ rest \in Seq(DOMAIN ops)
      /\ \A k \in DOMAIN rest : k + 1 \in DOMAIN todo /\ rest[k] = todo[k + 1]
      /\ \A u : (\E k \in DOMAIN rest : rest[k] = u) <=> (Waiting(u) /\ u # o)
  BY <1>1, <1>2, HeadFacts
<1>4. \A i, j \in DOMAIN rest : i < j =>
        rest[i] # rest[j] /\ OpWeight(rest[i]) <= OpWeight(rest[j])
  <2> TAKE i, j \in DOMAIN rest
  <2> HAVE i < j
  <2>1. i + 1 < j + 1 /\ i + 1 \in DOMAIN todo /\ j + 1 \in DOMAIN todo
    BY <1>3
  <2> QED BY <1>3, <2>1 DEF Inv, TodoInv
<1>5. \A i, j \in DOMAIN todo' : i < j =>
        todo'[i] # todo'[j] /\ OpWeight(rest[i])' <= OpWeight(rest[j])'
  BY <1>1, <1>2, <1>4 DEF OpWeight
<1>6. TodoInv'
  BY <1>1, <1>2, <1>5 DEF TodoInv, OpWeight
<1>7. \A u : Waiting(u)' <=> Waiting(u) /\ u # o
  BY <1>2, <1>3 DEF Waiting
<1> QED BY <1>6, <1>7

LEMMA TurnCovers ==
  ASSUME Inv, NEW o, NEW C, NEW acc, NEW more, Turn(o, C, acc, more)
  PROVE  TableInv' /\ CoverInv'
<1>1. /\ pc = "quants" /\ pc' = "quants" /\ ops' = ops /\ UNCHANGED given
      /\ all_op_processed' = all_op_processed /\ left' = acc.left /\ links' = acc.links
      /\ still_to_do' = still_to_do \o more
  BY DEF Turn, Defer
<1>2. /\ Moves' = Moves /\ InTable' = InTable /\ Table' = Table
      /\ \A p : Content(p)' = Content(p) /\ \A S : QuantsQty(S)' = QuantsQty(S)
  BY <1>1, GivenKept
<1>3. /\ o \in DOMAIN ops /\ Waiting(o) /\ OfOp(links, o) = 0 /\ OfOp(still_to_do, o) = 0
  BY HeadFacts DEF Turn
<1>4. \A u : Waiting(u)' <=> Waiting(u) /\ u # o
  BY TurnTodo
<1>5. TableInv'
  <2>1. \A m \in Moves : acc.left[m] + OfMove(acc.links, m) = left[m] + OfMove(links, m)
    BY DEF Turn, Work
  <2>2. \A m \in Moves : left[m] + OfMove(links, m) = Table[m]
    BY <1>1 DEF Inv, TableInv
  <2> QED BY <1>1, <1>2, <2>1, <2>2 DEF TableInv
<1>6. \A u \in DOMAIN ops : OpQty(u) \in Nat /\ OpQty(u)' = OpQty(u) /\ u \in Nat
  BY <1>1, <1>2, OpQtyNat, OpsSound DEF OpQty
<1>7. \A u \in DOMAIN ops :
        OfOp(still_to_do', u) = OfOp(still_to_do, u) + OfOp(more, u)
  <2> TAKE u \in DOMAIN ops
  <2>1. PICK row \in Seq(Unfinished) : row = still_to_do
    BY ComputationTyped DEF Unfinished
  <2>2. more \in Seq(Unfinished)
    BY DEF Turn
  <2>3. \A r \in Unfinished : r.qty \in Int
    BY DEF Unfinished
  <2>4. OfOp(row \o more, u) = OfOp(row, u) + OfOp(more, u)
    BY <2>2, <2>3, OfConcat
  <2> QED BY <1>1, <2>1, <2>4
<1>8. acc.need \in Nat /\ OfOp(acc.links, o) + acc.need = OfOp(links, o) + OpQty(o)
      /\ OfOp(more, o) = acc.need /\ acc.links \in Seq(Links)
  BY DEF Turn, Work, Progress
<1>9. OfOp(acc.links, o) \in Nat
  <2>1. \A r \in Links : r.qty \in Nat
    BY DEF Links
  <2> QED BY <1>8, <2>1, OfNat
<1>10. OfOp(links', o) + OfOp(still_to_do', o) = OpQty(o)
  BY <1>1, <1>3, <1>6, <1>7, <1>8, <1>9
<1>11. ASSUME NEW u \in DOMAIN ops, u # o
       PROVE  OfOp(links', u) + OfOp(still_to_do', u) = OfOp(links, u) + OfOp(still_to_do, u)
  <2>1. OfOp(links', u) = OfOp(links, u)
    BY <1>1, <1>6, <1>11 DEF Turn, Work
  <2>2. OfOp(more, u) = 0
    BY <1>11, OfNone DEF Turn
  <2>3. OfOp(links, u) \in Nat /\ OfOp(still_to_do, u) \in Nat
    BY ComputationTyped
  <2> QED BY <1>7, <2>1, <2>2, <2>3
<1>12. \A u \in DOMAIN ops : Covered(u)' = IF Waiting(u)' THEN 0 ELSE OpQty(u)'
  <2> TAKE u \in DOMAIN ops
  <2>1. Covered(u)' = OfOp(links', u) + OfOp(still_to_do', u)
    BY DEF Covered
  <2>2. CASE u = o
    BY <1>4, <1>6, <1>10, <2>1, <2>2
  <2>3. CASE u # o
    <3>1. Covered(u) = IF Waiting(u) THEN 0 ELSE OpQty(u)
      BY <1>1 DEF Inv, CoverInv
    <3>2. Covered(u)' = Covered(u)
      BY <1>11, <2>1, <2>3 DEF Covered
    <3> QED BY <1>4, <1>6, <2>3, <3>1, <3>2
  <2> QED BY <2>2, <2>3
<1>13. CoverInv'
  <2>1. all_op_processed'
    BY <1>1 DEF Inv, CoverInv
  <2> QED BY <1>1, <1>12, <2>1 DEF CoverInv
<1> QED BY <1>5, <1>13

-----------------------------------------------------------------------------
LEMMA TurnLinks ==
  ASSUME Inv, NEW o, NEW C \in SUBSET (Moves \X Quants), NEW acc, NEW more, Turn(o, C, acc, more)
  PROVE  /\ DOMAIN links \subseteq DOMAIN links'
         /\ \A i \in DOMAIN links : /\ links'[i] = links[i] /\ links[i].op # o /\ links[i].quant \in Quants
                                    /\ ~ Waiting(links[i].op)
         /\ \A i \in DOMAIN links' \ DOMAIN links :
              /\ links'[i].op = o /\ links'[i].move \in Moves /\ links'[i].quant \in Quants
              /\ <<links'[i].move, links'[i].quant>> \in C
         /\ RereserveInv'
<1>1. pc = "quants" /\ pc' = "quants" /\ links' = acc.links /\ todo # <<>> /\ o = Head(todo)
  BY DEF Turn
<1>2. /\ acc.links \in Seq(Links) /\ Len(links) <= Len(acc.links)
      /\ \A i \in DOMAIN links : acc.links[i] = links[i]
      /\ \A i \in DOMAIN acc.links \ DOMAIN links :
           acc.links[i].op = o /\ <<acc.links[i].move, acc.links[i].quant>> \in C
  BY DEF Turn, Work, Progress
<1>3. DOMAIN links \subseteq DOMAIN acc.links
  <2>1. links \in Seq(Links)
    BY ComputationTyped
  <2>2. Len(links) \in Nat /\ Len(acc.links) \in Nat /\ DOMAIN links = 1 .. Len(links)
        /\ DOMAIN acc.links = 1 .. Len(acc.links)
    BY <1>2, <2>1
  <2> QED BY <1>2, <2>2
<1>4. ASSUME NEW i \in DOMAIN links
      PROVE  links[i].op # o /\ links[i].quant \in Quants /\ ~ Waiting(links[i].op)
  <2>1. links[i].op # o
    BY <1>1, HeadFacts
  <2>2. links[i].quant \in Quants
    BY <1>1, ComputationTyped DEF Inv, RereserveInv
  <2>3. links[i].op \in DOMAIN ops
    BY <1>1 DEF Inv, LinkInv
  <2>4. ASSUME Waiting(links[i].op) PROVE FALSE
    <3>1. Covered(links[i].op) = 0
      BY <1>1, <2>3, <2>4 DEF Inv, CoverInv
    <3> QED BY <3>1, Untouched
  <2> QED BY <2>1, <2>2, <2>4
<1>5. ASSUME NEW i \in DOMAIN acc.links \ DOMAIN links
      PROVE  acc.links[i].move \in Moves /\ acc.links[i].quant \in Quants
  <2>1. <<acc.links[i].move, acc.links[i].quant>> \in Moves \X Quants
    BY <1>2
  <2> QED BY <2>1
<1>6. RereserveInv'
  <2>1. \A i \in DOMAIN links' : links'[i].quant # None
    <3>1. None \notin Quants
      BY GivenFacts DEF Inv
    <3> QED BY <1>1, <1>2, <1>3, <1>4, <1>5, <3>1
  <2>2. need_rereserve' <=> still_to_do' # <<>>
    <3>1. /\ need_rereserve' = (need_rereserve \/ more # <<>>)
          /\ still_to_do' = still_to_do \o more
          /\ need_rereserve <=> still_to_do # <<>>
      BY <1>1 DEF Turn, Defer, Inv, RereserveInv
    <3>2. still_to_do \in Seq(Unfinished) /\ more \in Seq(Unfinished)
      BY ComputationTyped DEF Turn, Unfinished
    <3>3. still_to_do \o more = <<>> <=> still_to_do = <<>> /\ more = <<>>
      BY <3>2
    <3> QED BY <3>1, <3>3
  <2> QED BY <1>1, <2>1, <2>2 DEF RereserveInv
<1> QED BY <1>1, <1>2, <1>3, <1>4, <1>5, <1>6

LEMMA PackageTurnInv ==
  ASSUME Inv, NEW o, NEW acc, NEW more, Turn(o, WholeLinks(o), acc, more),
         ops[o].whole, acc \in WholeWork(o, {}),
         packDone' = packDone \cup {q \in Content(ops[o].pack) : reservation[q] # None}
  PROVE  Inv'
<1>1. /\ pc = "quants" /\ pc' = "quants" /\ ops' = ops /\ UNCHANGED given /\ links' = acc.links
      /\ o \in DOMAIN ops /\ Waiting(o) /\ moves' = moves /\ reservation' = reservation
  BY HeadFacts DEF Turn, given
<1>2. \A p : Content(p)' = Content(p)
  BY <1>1, GivenKept
<1>3. /\ DOMAIN links \subseteq DOMAIN links'
      /\ \A i \in DOMAIN links : /\ links'[i] = links[i] /\ links[i].op # o /\ links[i].quant \in Quants
                                 /\ ~ Waiting(links[i].op)
      /\ \A i \in DOMAIN links' \ DOMAIN links :
           /\ links'[i].op = o /\ links'[i].move \in Moves /\ links'[i].quant \in Quants
           /\ <<links'[i].move, links'[i].quant>> \in WholeLinks(o)
      /\ RereserveInv'
  <2>1. WholeLinks(o) \in SUBSET (Moves \X Quants)
    BY DEF WholeLinks
  <2> QED BY <2>1, TurnLinks
<1>4. None \notin Quants
  BY GivenFacts DEF Inv
<1>5. ASSUME NEW i \in DOMAIN links
      PROVE  /\ links[i].op \in DOMAIN ops /\ ops[links[i].op].whole
             /\ reservation[links[i].quant] = links[i].move
             /\ links[i].quant \in Content(ops[links[i].op].pack)
             /\ \A j \in DOMAIN links : links[j].quant = links[i].quant => j = i
             /\ links[i].quant \notin Content(ops[o].pack)
  <2>1. /\ links[i].op \in DOMAIN ops
        /\ reservation[links[i].quant] = links[i].move
        /\ ops[links[i].op].whole =>
             /\ links[i].quant \in Content(ops[links[i].op].pack)
             /\ \A j \in DOMAIN links : links[j].quant = links[i].quant => j = i
        /\ ~ops[links[i].op].whole => \A k \in DOMAIN todo : ~ops[todo[k]].whole
    BY <1>1, <1>3, <1>4 DEF Inv, LinkInv
  <2>2. ops[links[i].op].whole
    BY <1>1, <2>1 DEF Waiting
  <2>3. Content(ops[o].pack) \cap Content(ops[links[i].op].pack) = {}
    BY <1>1, <1>3, <2>1, <2>2 DEF Inv, WholeInv
  <2> QED BY <2>1, <2>2, <2>3
<1>6. \A i \in DOMAIN links' \ DOMAIN links :
        /\ reservation[links'[i].quant] = links'[i].move
        /\ links'[i].quant \in Content(ops[o].pack)
        /\ \A j \in DOMAIN links' \ DOMAIN links : links'[j].quant = links'[i].quant => j = i
  <2>1. \A i \in DOMAIN links' \ DOMAIN links :
          \A j \in DOMAIN links' \ DOMAIN links : links'[j].quant = links'[i].quant => j = i
    BY <1>1 DEF WholeWork
  <2> QED BY <1>3, <2>1 DEF WholeLinks
<1>7. LinkInv'
  <2> SUFFICES ASSUME NEW i \in DOMAIN links'
               PROVE  /\ links'[i].op \in DOMAIN ops
                      /\ ops[links'[i].op].whole
                      /\ reservation[links'[i].quant] = links'[i].move
                      /\ links'[i].quant \in Content(ops[links'[i].op].pack)
                      /\ \A j \in DOMAIN links' : links'[j].quant = links'[i].quant => j = i
    BY <1>1, <1>2 DEF LinkInv
  <2>1. CASE i \in DOMAIN links
    BY <1>3, <1>5, <1>6, <2>1
  <2>2. CASE i \notin DOMAIN links
    <3>1. \A j \in DOMAIN links : links'[j].quant # links'[i].quant
      BY <1>3, <1>5, <1>6, <2>2
    <3>2. \A j \in DOMAIN links' : links'[j].quant = links'[i].quant => j = i
      BY <1>6, <2>2, <3>1
    <3>3. links'[i].op = o
      BY <1>3, <2>2
    <3> QED BY <1>1, <1>6, <2>2, <3>2, <3>3
  <2> QED BY <2>1, <2>2
<1>8. PackDoneInv'
  <2>1. \A u : Waiting(u)' <=> Waiting(u) /\ u # o
    BY TurnTodo
  <2> QED BY <1>1, <1>2, <2>1 DEF Inv, PackDoneInv
<1> QED BY <1>3, <1>7, <1>8, TurnTyped, TurnTodo, TurnCovers DEF Inv

LEMMA ProductTurnInv ==
  ASSUME Inv, NEW o, NEW acc, NEW more, Turn(o, ProductLinks(o), acc, more),
         ~ ops[o].whole, packDone' = packDone
  PROVE  Inv'
<1>1. /\ pc = "quants" /\ pc' = "quants" /\ ops' = ops /\ UNCHANGED given /\ links' = acc.links
      /\ todo # <<>> /\ o = Head(todo) /\ todo' = Tail(todo)
      /\ o \in DOMAIN ops /\ Waiting(o) /\ moves' = moves /\ reservation' = reservation
  BY HeadFacts DEF Turn, given
<1>2. \A p : Content(p)' = Content(p)
  BY <1>1, GivenKept
<1>3. /\ DOMAIN links \subseteq DOMAIN links'
      /\ \A i \in DOMAIN links : /\ links'[i] = links[i] /\ links[i].op # o /\ links[i].quant \in Quants
                                 /\ ~ Waiting(links[i].op)
      /\ \A i \in DOMAIN links' \ DOMAIN links :
           /\ links'[i].op = o /\ links'[i].move \in Moves /\ links'[i].quant \in Quants
           /\ <<links'[i].move, links'[i].quant>> \in ProductLinks(o)
      /\ RereserveInv'
  <2>1. ProductLinks(o) \in SUBSET (Moves \X Quants)
    BY DEF ProductLinks
  <2> QED BY <2>1, TurnLinks
<1>4. None \notin Quants /\ None \notin Moves
  BY GivenFacts DEF Inv
<1>5. \A k \in DOMAIN todo' : \E j \in DOMAIN todo : todo'[k] = todo[j] /\ OpWeight(o) <= OpWeight(todo[j])
                              /\ todo[j] \in DOMAIN ops
  <2>1. \A k \in DOMAIN todo : todo[k] \in DOMAIN ops
    <3>1. todo \in Seq(DOMAIN ops)
      BY DEF Inv, TypeOK
    <3> QED BY <3>1
  <2> QED BY <1>1, <2>1, HeadFacts
<1>6. ASSUME NEW i \in DOMAIN links
      PROVE  /\ links[i].op \in DOMAIN ops
             /\ ~ops[links[i].op].whole => /\ Suits(links[i].op, links[i].move)
                                           /\ \A k \in DOMAIN todo' : ~ops[todo'[k]].whole
             /\ reservation[links[i].quant] = links[i].move
             /\ ops[links[i].op].whole =>
                  /\ links[i].quant \in Content(ops[links[i].op].pack)
                  /\ \A j \in DOMAIN links : links[j].quant = links[i].quant => j = i
                  /\ reservation[links[i].quant] # None => links[i].quant \in packDone
  <2>1. /\ links[i].op \in DOMAIN ops
        /\ ~ops[links[i].op].whole => Suits(links[i].op, links[i].move)
        /\ reservation[links[i].quant] = links[i].move
        /\ ops[links[i].op].whole =>
             /\ links[i].quant \in Content(ops[links[i].op].pack)
             /\ \A j \in DOMAIN links : links[j].quant = links[i].quant => j = i
        /\ ~ops[links[i].op].whole => \A k \in DOMAIN todo : ~ops[todo[k]].whole
    BY <1>1, <1>3, <1>4 DEF Inv, LinkInv
  <2>2. ~ Waiting(links[i].op)
    BY <1>3
  <2>3. ops[links[i].op].whole /\ reservation[links[i].quant] # None => links[i].quant \in packDone
    BY <1>1, <2>1, <2>2 DEF Inv, PackDoneInv
  <2> QED BY <1>5, <2>1, <2>3
<1>7. ASSUME NEW i \in DOMAIN links' \ DOMAIN links
      PROVE  /\ reservation[links'[i].quant] = links'[i].move
             /\ reservation[links'[i].quant] # None
             /\ links'[i].quant \notin packDone
             /\ Suits(o, links'[i].move)
             /\ \A k \in DOMAIN todo' : ~ops[todo'[k]].whole
  <2>1. /\ reservation[links'[i].quant] = links'[i].move /\ links'[i].move \in Moves
        /\ links'[i].quant \notin packDone /\ ops[o].line = None
    BY <1>3 DEF ProductLinks
  <2>2. ASSUME NEW k \in DOMAIN todo', ops[todo'[k]].whole PROVE FALSE
    <3>1. PICK u \in DOMAIN ops : u = todo'[k] /\ OpWeight(o) <= OpWeight(u)
      BY <1>5
    <3>2. ops[u].whole /\ ops[u].pack \in Packs /\ ops[u].pack # None
      BY <2>2, <3>1, OpsSound, TransferAssumption DEF Sound
    <3>3. OpWeight(u) <= -6
      BY <3>2 DEF OpWeight
    <3>4. OpWeight(o) >= -3
      BY <2>1 DEF OpWeight
    <3>5. OpWeight(u) \in Int /\ OpWeight(o) \in Int
      BY DEF OpWeight
    <3> QED BY <3>1, <3>3, <3>4, <3>5
  <2> QED BY <1>4, <2>1, <2>2 DEF Suits
<1>8. LinkInv'
  <2> SUFFICES ASSUME NEW i \in DOMAIN links'
               PROVE  /\ links'[i].op \in DOMAIN ops
                      /\ ~ops[links'[i].op].whole => /\ Suits(links'[i].op, links'[i].move)
                                                     /\ \A k \in DOMAIN todo' : ~ops[todo'[k]].whole
                      /\ reservation[links'[i].quant] = links'[i].move
                      /\ ops[links'[i].op].whole =>
                           /\ links'[i].quant \in Content(ops[links'[i].op].pack)
                           /\ \A j \in DOMAIN links' : links'[j].quant = links'[i].quant => j = i
    BY <1>1, <1>2 DEF LinkInv, Suits
  <2>1. CASE i \in DOMAIN links
    <3>1. \A j \in DOMAIN links' \ DOMAIN links :
            ops[links[i].op].whole => links'[j].quant # links[i].quant
      BY <1>6, <1>7, <2>1
    <3> QED BY <1>3, <1>6, <2>1, <3>1
  <2>2. CASE i \notin DOMAIN links
    BY <1>1, <1>3, <1>7, <2>2
  <2> QED BY <2>1, <2>2
<1>9. PackDoneInv'
  <2>1. \A u : Waiting(u)' <=> Waiting(u) /\ u # o
    BY TurnTodo
  <2> QED BY <1>1, <1>2, <2>1 DEF Inv, PackDoneInv
<1> QED BY <1>3, <1>8, <1>9, TurnTyped, TurnTodo, TurnCovers DEF Inv

-----------------------------------------------------------------------------
\* A row of one thing, or of none
LEMMA OfOne ==
  ASSUME NEW R, \A r \in R : r.qty \in Int, NEW x \in R, NEW o
  PROVE  OfOp(<<x>>, o) = IF x.op = o THEN x.qty ELSE 0
<1>0. <<>> \in Seq(R)
  OBVIOUS
<1>1. PICK none \in Seq(R) : none = <<>>
  BY <1>0
<1>2. Append(none, x) = <<x>>
  BY <1>1
<1>3. OfOp(Append(none, x), o) = OfOp(none, o) + IF x.op = o THEN x.qty ELSE 0
  <2>1. \A r \in R : r.qty \in Int
    OBVIOUS
  <2> QED BY <2>1, OfAppend
<1>4. OfOp(none, o) = 0
  BY <1>1, OfEmpty
<1>5. x.qty \in Int
  OBVIOUS
<1>6. OfOp(<<x>>, o) = 0 + IF x.op = o THEN x.qty ELSE 0
  BY <1>2, <1>3, <1>4
<1> QED BY <1>5, <1>6

LEMMA ProcessPackageInv ==
  ASSUME Inv, pc = "quants", todo # <<>>, NEW o, o = Head(todo), ProcessPackage(o),
         todo' = Tail(todo), UNCHANGED <<given, ops, prepared, edits, pc, all_op_processed>>
  PROVE  Inv'
<1>1. PICK acc : acc = LinkPackageOp(o)
  OBVIOUS
<1>2. /\ ops[o].whole /\ left' = acc.left /\ links' = acc.links /\ Defer(acc.rest)
      /\ packDone' = packDone \cup {q \in Content(ops[o].pack) : reservation[q] # None}
  BY <1>1 DEF ProcessPackage
<1>3. o \in DOMAIN ops /\ o \in Nat \ {0} /\ GivenInv
  BY HeadFacts, OpsSound
<1>4. acc \in WholeWork(o, {})
  BY <1>1, <1>3, ComputationTyped, LinkPackageWorks
<1>5. OpQty(o) = QuantsQty(Content(ops[o].pack))
  BY <1>2 DEF OpQty
<1>6. /\ acc \in Work(o, OpQty(o), WholeLinks(o)) /\ acc.rest \in Seq(Rests)
      /\ \A i \in DOMAIN acc.rest : acc.rest[i].op = o
      /\ acc.need = QuantsQty({}) + OfOp(acc.rest, o)
  BY <1>4, <1>5 DEF WholeWork, Work, Progress, Rests
<1>7. OfOp(acc.rest, o) = acc.need
  <2>1. \A r \in Rests : r.qty \in Nat
    BY DEF Rests
  <2>2. OfOp(acc.rest, o) \in Nat
    BY <1>6, <2>1, OfNat
  <2> QED BY <1>6, <2>2, QuantsNone
<1>8. acc.rest \in Seq(Unfinished)
  <2>1. PICK row \in Seq(Rests) : row = acc.rest
    BY <1>6
  <2>2. \A i \in DOMAIN row : row[i] \in Unfinished
    <3> TAKE i \in DOMAIN row
    <3>1. row[i] \in Rests /\ row[i].op = o
      BY <1>6, <2>1
    <3> QED BY <1>3, <3>1 DEF Rests, Unfinished
  <2>3. row \in Seq(Unfinished)
    <3>1. Len(row) \in Nat /\ DOMAIN row = 1 .. Len(row) /\ row = [i \in 1 .. Len(row) |-> row[i]]
      OBVIOUS
    <3> QED BY <2>2, <3>1
  <2> QED BY <2>1, <2>3
<1>9. packDone \subseteq packDone' /\ packDone' \subseteq Quants
  BY <1>2 DEF Inv, TypeOK, Content
<1>10. Turn(o, WholeLinks(o), acc, acc.rest)
  BY <1>2, <1>6, <1>7, <1>8, <1>9 DEF Turn
<1> QED BY <1>2, <1>4, <1>10, PackageTurnInv

LEMMA ProcessProductInv ==
  ASSUME Inv, pc = "quants", todo # <<>>, NEW o, o = Head(todo), ProcessProduct(o),
         todo' = Tail(todo), UNCHANGED <<given, ops, prepared, edits, pc, all_op_processed>>
  PROVE  Inv'
<1>1. PICK acc : acc = LinkProductOp(o)
  OBVIOUS
<1>2. PICK more : more = IF acc.need = 0 THEN <<>> ELSE <<[op |-> o, qty |-> acc.need]>>
  OBVIOUS
<1>3. /\ ~ ops[o].whole /\ left' = acc.left /\ links' = acc.links /\ Defer(more)
      /\ packDone' = packDone
  BY <1>1, <1>2 DEF ProcessProduct
<1>4. o \in DOMAIN ops /\ o \in Nat \ {0} /\ GivenInv /\ ops[o].qty \in Nat
  BY HeadFacts, OpsSound DEF Operations
<1>5. acc \in Work(o, OpQty(o), ProductLinks(o))
  <2>1. OpQty(o) = ops[o].qty
    BY <1>3 DEF OpQty
  <2> QED BY <1>1, <1>4, <2>1, ComputationTyped, LinkProductWorks
<1>6. acc.need \in Nat
  BY <1>5 DEF Work, Progress
<1>7. more \in Seq(Unfinished) /\ (\A i \in DOMAIN more : more[i].op = o) /\ OfOp(more, o) = acc.need
  <2>1. CASE acc.need = 0
    BY <1>2, <2>1, OfEmpty
  <2>2. CASE acc.need # 0
    <3>1. PICK x \in Unfinished : x = [op |-> o, qty |-> acc.need]
      BY <1>4, <1>6, <2>2 DEF Unfinished
    <3>2. more = <<x>> /\ x.op = o /\ x.qty = acc.need
      BY <1>2, <2>2, <3>1
    <3>3. \A r \in Unfinished : r.qty \in Int
      BY DEF Unfinished
    <3>4. OfOp(<<x>>, o) = IF x.op = o THEN x.qty ELSE 0
      BY <3>3, OfOne
    <3> QED BY <3>2, <3>4
  <2> QED BY <2>1, <2>2
<1>8. packDone \subseteq packDone' /\ packDone' \subseteq Quants
  BY <1>3 DEF Inv, TypeOK
<1>9. Turn(o, ProductLinks(o), acc, more)
  BY <1>3, <1>5, <1>7, <1>8 DEF Turn
<1> QED BY <1>3, <1>9, ProductTurnInv

LEMMA ProcessOperationInv == ASSUME Inv, ProcessOperation PROVE Inv'
BY ProcessPackageInv, ProcessProductInv DEF ProcessOperation

-----------------------------------------------------------------------------
(* One operation of the second part *)

LEMMA ProcessRestInv == ASSUME Inv, ProcessRest PROVE Inv'
<1> DEFINE R == Unfinished
<1>1. PICK x : x = Head(still_to_do)
  OBVIOUS
<1>2. PICK tail : tail = Tail(still_to_do)
  OBVIOUS
<1>3. PICK acc : acc = LinkAnyMove(x.op, x.qty)
  OBVIOUS
<1>4. /\ pc = "rest" /\ pc' = "rest" /\ still_to_do # <<>> /\ still_to_do' = tail
      /\ left' = acc.left /\ links' = acc.links /\ todo' = todo /\ ops' = ops /\ UNCHANGED given
      /\ all_op_processed' = (all_op_processed /\ acc.need = 0)
      /\ prepared' = prepared /\ edits' = edits /\ packDone' = packDone
      /\ need_rereserve' = need_rereserve /\ moves' = moves /\ reservation' = reservation
  BY <1>1, <1>2, <1>3 DEF ProcessRest, given
<1>5. still_to_do \in Seq(R) /\ x \in R /\ tail \in Seq(R) /\ still_to_do = <<x>> \o tail
  <2>1. still_to_do \in Seq(R)
    BY ComputationTyped DEF Unfinished
  <2> HIDE DEF R
  <2> QED BY <1>1, <1>2, <1>4, <2>1
<1>6. PICK o \in DOMAIN ops, n \in Nat \ {0} : o = x.op /\ n = x.qty
  BY <1>5 DEF Unfinished
<1>7. GivenInv /\ o \in Nat \ {0}
  BY OpsSound
<1>8. /\ acc \in Work(o, n, AnyLinks(o))
      /\ acc.need = 0 \/ \A m \in InTable : Suits(o, m) => acc.left[m] = 0
  BY <1>3, <1>6, <1>7, ComputationTyped, LinkAnyMoveWorks
<1>9. /\ GivenInv' /\ Moves' = Moves /\ Quants' = Quants /\ InTable' = InTable /\ Table' = Table
      /\ Links' = Links /\ (\A p : Content(p)' = Content(p)) /\ (\A S : QuantsQty(S)' = QuantsQty(S))
  BY <1>4, GivenKept DEF Inv
<1>10. /\ acc.left \in [Moves -> Nat] /\ acc.links \in Seq(Links) /\ acc.need \in Nat
  BY <1>8 DEF Work, Progress
<1>11. TypeOK'
  <2>1. /\ ops' \in Seq(Operations) /\ \A u \in DOMAIN ops' : ops'[u].whole => ops'[u].pack \in Packs
        /\ prepared' \in BOOLEAN /\ edits' \in 0 .. MaxEdits
        /\ pc' \in {"idle", "start", "quants", "rest", "done"} /\ todo' \in Seq(DOMAIN ops')
        /\ packDone' \subseteq Quants' /\ {need_rereserve', all_op_processed'} \subseteq BOOLEAN
    BY <1>4, <1>9 DEF Inv, TypeOK
  <2>2. links' \in Seq(Links') /\ left' \in [Moves' -> Nat]
    BY <1>4, <1>9, <1>10
  <2>3. still_to_do' \in Seq([op : DOMAIN ops', qty : Nat \ {0}])
    BY <1>4, <1>5 DEF Unfinished
  <2> QED BY <2>1, <2>2, <2>3 DEF TypeOK
<1>12. WholeInv' /\ PackDoneInv'
  BY <1>4, <1>9 DEF Inv, WholeInv, PackDoneInv
<1>13. TodoInv'
  BY <1>4 DEF Inv, TodoInv
<1>14. TableInv'
  <2>1. \A m \in Moves : acc.left[m] + OfMove(acc.links, m) = left[m] + OfMove(links, m)
    BY <1>8 DEF Work
  <2>2. \A m \in Moves : left[m] + OfMove(links, m) = Table[m]
    BY <1>4 DEF Inv, TableInv
  <2> QED BY <1>4, <1>9, <2>1, <2>2 DEF TableInv
<1>15. \A u \in DOMAIN ops : /\ OfOp(still_to_do, u) = (IF u = o THEN n ELSE 0) + OfOp(tail, u)
                            /\ OfOp(tail, u) \in Nat
  <2> TAKE u \in DOMAIN ops
  <2>1. \A r \in R : r.qty \in Int /\ r.qty \in Nat
    BY DEF Unfinished
  <2>2. <<x>> \in Seq(R)
    <3> HIDE DEF R
    <3> QED BY <1>5
  <2> HIDE DEF R
  <2>3. OfOp(<<x>> \o tail, u) = OfOp(<<x>>, u) + OfOp(tail, u)
    <3>1. PICK one \in Seq(R) : one = <<x>>
      BY <2>2
    <3>2. OfOp(one \o tail, u) = OfOp(one, u) + OfOp(tail, u)
      BY <1>5, <2>1, OfConcat
    <3> QED BY <3>1, <3>2
  <2>4. OfOp(<<x>>, u) = IF x.op = u THEN x.qty ELSE 0
    BY <1>5, <2>1, OfOne
  <2>5. OfOp(tail, u) \in Nat
    BY <1>5, <2>1, OfNat
  <2> QED BY <1>5, <1>6, <2>3, <2>4, <2>5
<1>16. \A u \in DOMAIN ops : /\ OpQty(u) \in Nat /\ OpQty(u)' = OpQty(u) /\ u \in Nat
                            /\ OfOp(links, u) \in Nat /\ OfOp(acc.links, u) \in Nat
                            /\ \A m : Suits(u, m)' = Suits(u, m)
  <2>1. \A r \in Links : r.qty \in Nat
    BY DEF Links
  <2>2. \A u : OfOp(acc.links, u) \in Nat
    BY <1>10, <2>1, OfNat
  <2> QED BY <1>4, <1>9, <2>2, OpQtyNat, OpsSound, ComputationTyped DEF OpQty, Suits
<1>17. \A u \in DOMAIN ops : Covered(u) \in Nat /\ Covered(u)' = Covered(u) - IF u = o THEN acc.need ELSE 0
  <2> TAKE u \in DOMAIN ops
  <2>1. Covered(u)' = OfOp(acc.links, u) + OfOp(tail, u)
    BY <1>4 DEF Covered
  <2>2. Covered(u) = OfOp(links, u) + OfOp(still_to_do, u)
    BY DEF Covered
  <2>3. CASE u = o
    <3>1. OfOp(acc.links, o) + acc.need = OfOp(links, o) + n
      BY <1>8 DEF Work
    <3> QED BY <1>10, <1>15, <1>16, <2>1, <2>2, <2>3, <3>1
  <2>4. CASE u # o
    <3>1. OfOp(acc.links, u) = OfOp(links, u)
      BY <1>8, <1>16, <2>4 DEF Work
    <3> QED BY <1>15, <1>16, <2>1, <2>2, <2>4, <3>1
  <2> QED BY <2>3, <2>4
<1>18. CoverInv'
  <2>1. /\ \A u \in DOMAIN ops : Covered(u) <= OpQty(u)
        /\ all_op_processed <=> \A u \in DOMAIN ops : Covered(u) = OpQty(u)
        /\ \A u \in DOMAIN ops : Covered(u) < OpQty(u) =>
             \A m \in InTable : Suits(u, m) => left[m] = 0
    BY <1>4 DEF Inv, CoverInv
  <2>2. \A u \in DOMAIN ops : Covered(u)' <= Covered(u) /\ Covered(u)' \in Int
    BY <1>10, <1>17
  <2>3. \A u \in DOMAIN ops : Covered(u)' <= OpQty(u)
    BY <1>16, <1>17, <2>1, <2>2
  <2>4. all_op_processed' <=> \A u \in DOMAIN ops : Covered(u)' = OpQty(u)
    <3>1. CASE acc.need = 0
      <4>1. \A u \in DOMAIN ops : Covered(u)' = Covered(u)
        BY <1>17, <3>1
      <4> QED BY <1>4, <2>1, <3>1, <4>1
    <3>2. CASE acc.need # 0
      <4>1. Covered(o)' < OpQty(o)
        BY <1>10, <1>16, <1>17, <2>1, <3>2
      <4>2. ~ all_op_processed'
        BY <1>4, <3>2
      <4>3. Covered(o)' # OpQty(o)
        BY <1>16, <2>2, <4>1
      <4> QED BY <4>2, <4>3
    <3> QED BY <3>1, <3>2
  <2>5. \A m \in InTable : left[m] = 0 => acc.left[m] = 0
    <3> TAKE m \in InTable
    <3>1. m \in Moves
      BY DEF InTable
    <3>2. acc.left[m] <= left[m] /\ acc.left[m] \in Nat
      BY <1>8, <1>10, <3>1 DEF Work
    <3> QED BY <3>2
  <2>6. ASSUME NEW u \in DOMAIN ops, Covered(u)' < OpQty(u), NEW m \in InTable, Suits(u, m)
        PROVE  acc.left[m] = 0
    <3>1. CASE u = o /\ acc.need # 0
      BY <1>8, <2>6, <3>1
    <3>2. CASE ~ (u = o /\ acc.need # 0)
      <4>1. Covered(u)' = Covered(u)
        BY <1>17, <3>2
      <4>2. Covered(u) < OpQty(u)
        BY <2>6, <4>1
      <4> QED BY <2>1, <2>5, <2>6, <4>2
    <3> QED BY <3>1, <3>2
  <2>7. all_op_processed' <=> \A u \in DOMAIN ops' : Covered(u)' = OpQty(u)'
    BY <1>4, <1>16, <2>4
  <2>8. pc' \in {"quants", "rest", "done"} /\ pc' # "quants"
    BY <1>4
  <2>9. \A u \in DOMAIN ops' : Covered(u)' <= OpQty(u)'
    BY <1>4, <1>16, <2>3
  <2>10. \A u \in DOMAIN ops' : Covered(u)' < OpQty(u)' =>
           \A m \in InTable' : Suits(u, m)' => left'[m] = 0
    BY <1>4, <1>9, <1>16, <2>6
  <2> QED BY <2>7, <2>8, <2>9, <2>10, ZenonT(60) DEF CoverInv
<1>19. /\ DOMAIN links \subseteq DOMAIN acc.links
       /\ \A i \in DOMAIN links : acc.links[i] = links[i]
       /\ \A i \in DOMAIN acc.links \ DOMAIN links :
            /\ acc.links[i].op = o /\ acc.links[i].quant = None
            /\ Suits(o, acc.links[i].move)
  <2>1. /\ Len(links) <= Len(acc.links)
        /\ \A i \in DOMAIN links : acc.links[i] = links[i]
        /\ \A i \in DOMAIN acc.links \ DOMAIN links :
             acc.links[i].op = o /\ <<acc.links[i].move, acc.links[i].quant>> \in AnyLinks(o)
    BY <1>8 DEF Work
  <2>2. links \in Seq(Links)
    BY ComputationTyped
  <2>3. Len(links) \in Nat /\ Len(acc.links) \in Nat /\ DOMAIN links = 1 .. Len(links)
        /\ DOMAIN acc.links = 1 .. Len(acc.links)
    BY <1>10, <2>2
  <2>4. DOMAIN links \subseteq DOMAIN acc.links
    BY <2>1, <2>3
  <2> QED BY <2>1, <2>4 DEF AnyLinks
<1>20. LinkInv'
  <2>1. todo = <<>>
    BY <1>4 DEF Inv, TodoInv
  <2> SUFFICES ASSUME NEW i \in DOMAIN acc.links
               PROVE  /\ acc.links[i].op \in DOMAIN ops
                      /\ ~ops[acc.links[i].op].whole => Suits(acc.links[i].op, acc.links[i].move)
                      /\ acc.links[i].quant # None =>
                           /\ reservation[acc.links[i].quant] = acc.links[i].move
                           /\ ops[acc.links[i].op].whole =>
                                /\ acc.links[i].quant \in Content(ops[acc.links[i].op].pack)
                                /\ \A j \in DOMAIN acc.links :
                                     acc.links[j].quant = acc.links[i].quant => j = i
    BY <1>4, <1>9, <2>1 DEF LinkInv, Suits
  <2>2. CASE i \in DOMAIN links
    <3>1. /\ links[i].op \in DOMAIN ops
          /\ ~ops[links[i].op].whole => Suits(links[i].op, links[i].move)
          /\ links[i].quant # None =>
               /\ reservation[links[i].quant] = links[i].move
               /\ ops[links[i].op].whole =>
                    /\ links[i].quant \in Content(ops[links[i].op].pack)
                    /\ \A j \in DOMAIN links : links[j].quant = links[i].quant => j = i
      BY <1>4, <2>2 DEF Inv, LinkInv
    <3> QED BY <1>19, <2>2, <3>1
  <2>3. CASE i \notin DOMAIN links
    BY <1>6, <1>19, <2>3
  <2> QED BY <2>2, <2>3
<1>21. RereserveInv'
  <2>1. need_rereserve
    BY <1>4 DEF Inv, RereserveInv
  <2>2. ~ all_op_processed' \/ \E i \in DOMAIN acc.links : acc.links[i].quant = None
    <3>1. CASE acc.need # 0
      BY <1>4, <3>1
    <3>2. CASE acc.need = 0
      <4>1. OfOp(acc.links, o) + acc.need = OfOp(links, o) + n
        BY <1>8 DEF Work
      <4>2. acc.links # links
        <5>1. OfOp(acc.links, o) # OfOp(links, o)
          BY <1>16, <3>2, <4>1
        <5> QED BY <5>1
      <4>3. DOMAIN acc.links # DOMAIN links
        <5>1. links \in Seq(Links)
          BY ComputationTyped
        <5> QED BY <1>10, <1>19, <4>2, <5>1
      <4> QED BY <1>19, <4>3
    <3> QED BY <3>1, <3>2
  <2> QED BY <1>4, <2>1, <2>2 DEF RereserveInv
<1> QED BY <1>9, <1>11, <1>12, <1>13, <1>14, <1>18, <1>20, <1>21 DEF Inv

-----------------------------------------------------------------------------
(* Every step keeps the invariant, and what follows from it *)

LEMMA NextInv == ASSUME Inv, [Next]_vars PROVE Inv'
<1>1. CASE Prepare
  BY <1>1, PrepareInv
<1>2. CASE ChangeQty
  BY <1>2, ChangeQtyInv
<1>3. CASE AddProductOp
  BY <1>3, AddProductOpInv
<1>4. CASE AddPackageOp
  BY <1>4, AddPackageOpInv
<1>5. CASE Recompute
  BY <1>5, RecomputeInv
<1>6. CASE ProcessOperation
  BY <1>6, ProcessOperationInv
<1>7. CASE StartRest
  BY <1>7, StartRestInv
<1>8. CASE ProcessRest
  BY <1>8, ProcessRestInv
<1>9. CASE Return
  BY <1>9, ReturnInv
<1>10. CASE UNCHANGED vars
  BY <1>10, StutterInv
<1> QED BY <1>1, <1>2, <1>3, <1>4, <1>5, <1>6, <1>7, <1>8, <1>9, <1>10 DEF Next

\* Inv holds in every state, whatever the picking, the stock, the packages and
\* the reservations, and however long the users change the operations.
THEOREM Invariant == Spec => []Inv
BY InitInv, NextInv, PTL DEF Spec

\* The variables always have the types of the fields and of the tables of
\* recompute_remaining_qty: what is left of a move is never negative, a link and
\* a deferred part are never of quantity zero.
THEOREM TypeCorrect == Spec => []TypeOK
<1>1. Inv => TypeOK
  BY DEF Inv
<1> QED BY <1>1, Invariant, PTL

\* The stored quantities are those of the invariant.
LEMMA StoredQuantities ==
  ASSUME Inv
  PROVE  /\ \A m \in Moves : /\ RemainingQty(m) = moves[m].qty - OfMove(links, m)
                             /\ moves[m].qty \in Nat
                             /\ OfMove(links, m) \in Nat
         /\ \A o \in DOMAIN ops : /\ OpRemaining(o) = OpQty(o) - OfOp(links, o)
                                  /\ OpQty(o) \in Nat
                                  /\ OfOp(links, o) \in Nat
                                  /\ OfOp(still_to_do, o) \in Nat
                                  /\ Covered(o) = OfOp(links, o) + OfOp(still_to_do, o)
<1>1. \A S : LinkedQty(S) = QtyOf(links, S)
  BY DEF LinkedQty, QtyOf
<1>2. \A x : OfMove(links, x) \in Nat /\ OfOp(links, x) \in Nat /\ OfOp(still_to_do, x) \in Nat
  BY ComputationTyped
<1>3. \A m \in Moves : moves[m].qty \in Nat
  <2>1. GivenInv
    BY DEF Inv
  <2> QED BY <2>1, GivenFacts
<1>4. \A m \in Moves : RemainingQty(m) = moves[m].qty - OfMove(links, m)
  BY <1>1 DEF RemainingQty, OfMove
<1>5. \A o \in DOMAIN ops : OpRemaining(o) = OpQty(o) - OfOp(links, o)
  BY <1>1 DEF OpRemaining, OfOp
<1> QED BY <1>2, <1>3, <1>4, <1>5, OpQtyNat DEF Covered

\* During and after the computation the links stay within what there is to link:
\* no move and no operation is linked for more than its quantity, the table agrees
\* with the remaining_qty that is computed from the links, quants serve the move that
\* reserved them, those of a whole package serve one operation, and an operation
\* with a sale line takes from the moves of its line only.
THEOREM LinksStayWithin == Spec => []LinksFit
<1>1. Inv => LinksFit
  <2> SUFFICES ASSUME Inv, pc \in {"quants", "rest", "done"} PROVE LinksFit
    BY DEF LinksFit
  <2>1. \A m \in Moves : left[m] \in Nat /\ left[m] + OfMove(links, m) = Table[m]
    BY DEF Inv, TypeOK, TableInv
  <2>2. \A m \in InTable : left[m] = RemainingQty(m)
    <3> TAKE m \in InTable
    <3>1. m \in Moves /\ Table[m] = moves[m].qty
      BY DEF InTable, Table
    <3> QED BY <2>1, <3>1, StoredQuantities
  <2>3. \A m \in Moves : RemainingQty(m) >= 0
    <3> TAKE m \in Moves
    <3>1. CASE m \in InTable
      BY <2>1, <2>2, <3>1
    <3>2. CASE m \notin InTable
      <4>1. Table[m] = 0
        BY <3>2 DEF Table
      <4> QED BY <2>1, <4>1, StoredQuantities
    <3> QED BY <3>1, <3>2
  <2>4. \A o \in DOMAIN ops : OpRemaining(o) >= 0
    <3> TAKE o \in DOMAIN ops
    <3>1. Covered(o) <= OpQty(o)
      <4>1. OpQty(o) \in Nat
        BY StoredQuantities
      <4> QED BY <4>1 DEF Inv, CoverInv
    <3> QED BY <3>1, StoredQuantities
  <2>5. \A i \in DOMAIN links :
          LET link == links[i]
          IN /\ link.quant # None =>
                  /\ reservation[link.quant] = link.move
                  /\ \A j \in DOMAIN links :
                       ops[link.op].whole /\ links[j].quant = link.quant => j = i
             /\ ~ops[link.op].whole => Suits(link.op, link.move)
    BY DEF Inv, LinkInv
  <2> QED BY <2>2, <2>3, <2>4, <2>5 DEF LinksFit
<1> QED BY <1>1, Invariant, PTL

\* The two results of recompute_remaining_qty are true when it returns, and an
\* operation is short, for which the transfer creates an extra move, only when the
\* moves of the table that suit it have nothing left.
THEOREM VerdictsAreTrue == Spec => []VerdictIsTrue
<1>1. Inv => VerdictIsTrue
  <2> SUFFICES ASSUME Inv, pc = "done" PROVE VerdictIsTrue
    BY DEF VerdictIsTrue
  <2>1. still_to_do = <<>>
    BY DEF Inv, TodoInv
  <2>2. \A o \in DOMAIN ops : Covered(o) = OfOp(links, o)
    <3>1. PICK row : row = still_to_do
      OBVIOUS
    <3>2. \A o : OfOp(row, o) = 0
      BY <2>1, <3>1, OfEmpty
    <3> QED BY <3>1, <3>2, StoredQuantities
  <2>3. all_op_processed <=> \A o \in DOMAIN ops : Covered(o) = OpQty(o)
    BY DEF Inv, CoverInv
  <2>4. \A o \in DOMAIN ops : OpRemaining(o) = 0 <=> Covered(o) = OpQty(o)
    BY <2>2, StoredQuantities
  <2>5. all_op_processed <=> \A o \in DOMAIN ops : OpRemaining(o) = 0
    BY <2>3, <2>4, Zenon
  <2>6. need_rereserve <=> \/ ~all_op_processed
                           \/ \E i \in DOMAIN links : links[i].quant = None
    BY <2>1 DEF Inv, RereserveInv
  <2>7. ASSUME NEW o \in DOMAIN ops, OpRemaining(o) > 0,
               NEW m \in InTable, ops[o].whole \/ Suits(o, m)
        PROVE  RemainingQty(m) = 0
    <3>1. Suits(o, m)
      BY <2>7 DEF Inv, WholeInv, Suits
    <3>2. left[m] = 0
      <4>1. Covered(o) < OpQty(o)
        BY <2>2, <2>7, StoredQuantities
      <4> QED BY <2>7, <3>1, <4>1 DEF Inv, CoverInv
    <3>3. m \in Moves /\ Table[m] = moves[m].qty
      BY DEF InTable, Table
    <3>4. left[m] + OfMove(links, m) = Table[m]
      BY <3>3 DEF Inv, TableInv
    <3> QED BY <3>2, <3>3, <3>4, StoredQuantities
  <2> QED BY <2>5, <2>6, <2>7 DEF VerdictIsTrue
<1> QED BY <1>1, Invariant, PTL

-----------------------------------------------------------------------------
(* The operations that are prepared for a picking without order lines *)

NoLine == \A m \in Moves : ~HasLine(m)

PreparedOps ==
  {WholePackage(p) : p \in TopLevelPackages} \cup {PreparedOp(g) : g \in Groups}

\* The reserved quants that an operation stands for, and what it carries besides
ServedBy(op) ==
  IF op.whole THEN Content(op.pack)
  ELSE {q \in LooseQuants : quants[q].pack = op.pack /\ quants[q].lot = op.lot}

Extra(op) == IF ~op.whole /\ op.pack = None /\ op.lot = None THEN ForcedQty ELSE 0

\* Each of the operations once
PreparedRow(row) ==
  /\ \A o \in DOMAIN row : row[o] \in PreparedOps
  /\ \A o, n \in DOMAIN row : row[o] = row[n] => o = n
  /\ \A op \in PreparedOps : \E o \in DOMAIN row : row[o] = op

LEMMA PreparedFacts ==
  ASSUME GivenInv, NEW op \in PreparedOps
  PROVE  /\ op.line = None /\ op.whole \in BOOLEAN
         /\ op.whole => op.pack \in TopLevelPackages /\ op = WholePackage(op.pack)
         /\ ~op.whole => /\ op = PreparedOp([pack |-> op.pack, lot |-> op.lot])
                         /\ [pack |-> op.pack, lot |-> op.lot] \in Groups
                         /\ op.qty = QuantsQty(ServedBy(op)) + Extra(op)
         /\ ServedBy(op) \subseteq PickingQuants
<1>1. LooseQuants \subseteq PickingQuants
  BY DEF LooseQuants
<1>2. CASE op \in {WholePackage(p) : p \in TopLevelPackages}
  <2>1. PICK p \in TopLevelPackages : op = WholePackage(p)
    BY <1>2
  <2>2. op.line = None /\ op.whole /\ op.pack = p
    BY <2>1 DEF WholePackage
  <2>3. ServedBy(op) \subseteq PickingQuants
    BY <2>2 DEF ServedBy, TopLevelPackages, MovedWhole
  <2> QED BY <2>1, <2>2, <2>3
<1>3. CASE op \in {PreparedOp(g) : g \in Groups}
  <2>1. PICK g \in Groups : op = PreparedOp(g)
    BY <1>3
  <2>2. /\ op.line = None /\ op.whole = FALSE /\ op.pack = g.pack /\ op.lot = g.lot
        /\ op.qty = GroupQty(g)
    BY <2>1 DEF PreparedOp
  <2>3. g = [pack |-> g.pack, lot |-> g.lot]
    BY DEF Groups
  <2>4. op.qty = QuantsQty(ServedBy(op)) + Extra(op)
    BY <2>2 DEF ServedBy, Extra, GroupQty
  <2>5. ServedBy(op) \subseteq PickingQuants
    BY <1>1, <2>2 DEF ServedBy
  <2>6. [pack |-> op.pack, lot |-> op.lot] = g
    BY <2>2, <2>3
  <2> QED BY <2>1, <2>2, <2>4, <2>5, <2>6
<1> QED BY <1>2, <1>3 DEF PreparedOps

\* Each reserved quant is in one of them.
LEMMA ServedApart ==
  ASSUME GivenInv, NEW op \in PreparedOps, NEW other \in PreparedOps, op # other
  PROVE  ServedBy(op) \cap ServedBy(other) = {}
<1>1. \A p \in TopLevelPackages : Content(p) \cap LooseQuants = {}
  BY DEF LooseQuants
<1>2. CASE op.whole /\ other.whole
  <2>1. op.pack \in TopLevelPackages /\ other.pack \in TopLevelPackages /\ op.pack # other.pack
    BY <1>2, PreparedFacts
  <2>2. Content(op.pack) \cap Content(other.pack) = {}
    BY <2>1, TopLevelApart
  <2> QED BY <1>2, <2>2 DEF ServedBy
<1>3. CASE op.whole /\ ~other.whole
  <2>1. op.pack \in TopLevelPackages
    BY <1>3, PreparedFacts
  <2> QED BY <1>1, <1>3, <2>1 DEF ServedBy
<1>4. CASE ~op.whole /\ other.whole
  <2>1. other.pack \in TopLevelPackages
    BY <1>4, PreparedFacts
  <2> QED BY <1>1, <1>4, <2>1 DEF ServedBy
<1>5. CASE ~op.whole /\ ~other.whole
  <2>1. ~ (op.pack = other.pack /\ op.lot = other.lot)
    BY <1>5, PreparedFacts
  <2> QED BY <1>5, <2>1 DEF ServedBy
<1> QED BY <1>2, <1>3, <1>4, <1>5

LEMMA ServedAll ==
  ASSUME GivenInv
  PROVE  UNION {ServedBy(op) : op \in PreparedOps} = PickingQuants
<1>1. ASSUME NEW q \in PickingQuants
      PROVE  \E op \in PreparedOps : q \in ServedBy(op)
  <2>1. CASE q \in LooseQuants
    <3> DEFINE g == [pack |-> quants[q].pack, lot |-> quants[q].lot]
    <3>1. g \in Groups
      BY <2>1 DEF Groups
    <3>2. PreparedOp(g) \in PreparedOps
      <4> HIDE DEF g
      <4> QED BY <3>1 DEF PreparedOps
    <3>3. q \in ServedBy(PreparedOp(g))
      BY <2>1 DEF ServedBy, PreparedOp
    <3> QED BY <3>2, <3>3
  <2>2. CASE q \notin LooseQuants
    <3>1. PICK p \in TopLevelPackages : q \in Content(p)
      BY <2>2 DEF LooseQuants
    <3>2. WholePackage(p) \in PreparedOps
      BY DEF PreparedOps
    <3>3. q \in ServedBy(WholePackage(p))
      BY <3>1 DEF ServedBy, WholePackage
    <3> QED BY <3>2, <3>3
  <2> QED BY <2>1, <2>2
<1>2. \A op \in PreparedOps : ServedBy(op) \subseteq PickingQuants
  BY PreparedFacts
<1> QED BY <1>1, <1>2

LEMMA RowPrepared ==
  ASSUME GivenInv, NoLine, NEW packs \in SetToSeqs(TopLevelPackages),
         NEW groups \in SetToSeqs(Groups)
  PROVE  PreparedRow(AddPackopValues([i \in DOMAIN packs |-> WholePackage(packs[i])],
                                     [i \in DOMAIN groups |-> PreparedOp(groups[i])]))
<1>1. IsFiniteSet(TopLevelPackages)
  <2>1. TopLevelPackages \in SUBSET Packs
    BY DEF TopLevelPackages
  <2> QED BY <2>1, TransferAssumption, FS_Subset
<1>2. /\ packs \in Seq(TopLevelPackages)
      /\ \A i, j \in DOMAIN packs : packs[i] = packs[j] => i = j
      /\ \A x \in TopLevelPackages : \E i \in DOMAIN packs : packs[i] = x
  BY <1>1, RowOfSet
<1>3. /\ groups \in Seq(Groups)
      /\ \A i, j \in DOMAIN groups : groups[i] = groups[j] => i = j
      /\ \A x \in Groups : \E i \in DOMAIN groups : groups[i] = x
  BY GroupsFinite, RowOfSet
<1>4. PICK a, b, row : /\ a = [i \in DOMAIN packs |-> WholePackage(packs[i])]
                       /\ b = [i \in DOMAIN groups |-> PreparedOp(groups[i])]
                       /\ row = AddPackopValues(a, b)
  OBVIOUS
<1>5. row = a \o b
  BY <1>4 DEF AddPackopValues, NoLine
<1>6. PICK n \in Nat, k \in Nat : /\ DOMAIN packs = 1 .. n /\ DOMAIN groups = 1 .. k
                                 /\ n = Len(packs) /\ k = Len(groups)
  BY <1>2, <1>3
<1>7. a \in Seq(PreparedOps) /\ b \in Seq(PreparedOps) /\ Len(a) = n /\ Len(b) = k
  <2>1. \A i \in 1 .. n : packs[i] \in TopLevelPackages
    BY <1>2, <1>6
  <2>2. \A i \in 1 .. n : WholePackage(packs[i]) \in PreparedOps
    BY <2>1 DEF PreparedOps
  <2>3. \A i \in 1 .. k : groups[i] \in Groups
    BY <1>3, <1>6
  <2>4. \A i \in 1 .. k : PreparedOp(groups[i]) \in PreparedOps
    BY <2>3 DEF PreparedOps
  <2> QED BY <1>4, <1>6, <2>2, <2>4
<1>8. /\ DOMAIN row = 1 .. n + k
      /\ \A i \in 1 .. n : row[i] = WholePackage(packs[i])
      /\ \A i \in 1 .. k : row[n + i] = PreparedOp(groups[i])
      /\ \A i \in 1 .. n + k : i \in 1 .. n \/ (i - n \in 1 .. k /\ i = n + (i - n))
  <2>1. DOMAIN row = 1 .. n + k /\ \A i \in 1 .. n + k : i \in 1 .. n \/ (i - n \in 1 .. k /\ i = n + (i - n))
    BY <1>5, <1>6, <1>7
  <2>2. \A i \in 1 .. n : row[i] = a[i]
    BY <1>5, <1>6, <1>7
  <2>3. \A i \in 1 .. k : row[n + i] = b[i]
    BY <1>5, <1>6, <1>7
  <2> QED BY <1>4, <1>6, <2>1, <2>2, <2>3
<1>9. ASSUME NEW o \in DOMAIN row
      PROVE  \/ o \in 1 .. n /\ row[o] = WholePackage(packs[o]) /\ packs[o] \in TopLevelPackages
             \/ \E i \in 1 .. k : o = n + i /\ row[o] = PreparedOp(groups[i]) /\ groups[i] \in Groups
  <2>1. CASE o \in 1 .. n
    BY <1>2, <1>6, <1>8, <2>1
  <2>2. CASE o \notin 1 .. n
    <3>1. PICK i \in 1 .. k : o = n + i
      BY <1>8, <2>2
    <3>2. groups[i] \in Groups
      BY <1>3, <1>6
    <3> QED BY <1>8, <3>1, <3>2
  <2> QED BY <2>1, <2>2
<1>10. \A o \in DOMAIN row : row[o] \in PreparedOps
  BY <1>9 DEF PreparedOps
<1>11. \A p, q : WholePackage(p) = WholePackage(q) => p = q
  BY DEF WholePackage
<1>12. \A g, h \in Groups : PreparedOp(g) = PreparedOp(h) => g = h
  <2> TAKE g, h \in Groups
  <2>1. g = [pack |-> g.pack, lot |-> g.lot] /\ h = [pack |-> h.pack, lot |-> h.lot]
    BY DEF Groups
  <2> QED BY <2>1 DEF PreparedOp
<1>13. \A p, g : WholePackage(p) # PreparedOp(g)
  BY DEF WholePackage, PreparedOp
<1>14. ASSUME NEW o \in DOMAIN row, NEW u \in DOMAIN row, row[o] = row[u]
       PROVE  o = u
  <2>1. CASE o \in 1 .. n /\ row[o] = WholePackage(packs[o])
    <3>1. u \in 1 .. n /\ row[u] = WholePackage(packs[u])
      BY <1>9, <1>13, <1>14, <2>1
    <3> QED BY <1>2, <1>6, <1>11, <1>14, <2>1, <3>1
  <2>2. ASSUME NEW i \in 1 .. k, o = n + i, row[o] = PreparedOp(groups[i]), groups[i] \in Groups
        PROVE  o = u
    <3>1. PICK j \in 1 .. k : u = n + j /\ row[u] = PreparedOp(groups[j]) /\ groups[j] \in Groups
      BY <1>9, <1>13, <1>14, <2>2
    <3>2. groups[i] = groups[j]
      BY <1>12, <1>14, <2>2, <3>1
    <3>3. i = j
      BY <1>3, <1>6, <3>2
    <3> QED BY <2>2, <3>1, <3>3
  <2> QED BY <1>9, <2>1, <2>2
<1>15. ASSUME NEW op \in PreparedOps
       PROVE  \E o \in DOMAIN row : row[o] = op
  <2>1. CASE op \in {WholePackage(p) : p \in TopLevelPackages}
    <3>1. PICK p \in TopLevelPackages : op = WholePackage(p)
      BY <2>1
    <3>2. PICK i \in 1 .. n : packs[i] = p
      BY <1>2, <1>6
    <3>3. i \in DOMAIN row
      BY <1>8
    <3> QED BY <1>8, <3>1, <3>2, <3>3
  <2>2. CASE op \in {PreparedOp(g) : g \in Groups}
    <3>1. PICK g \in Groups : op = PreparedOp(g)
      BY <2>2
    <3>2. PICK i \in 1 .. k : groups[i] = g
      BY <1>3, <1>6
    <3>3. n + i \in DOMAIN row
      BY <1>8
    <3> QED BY <1>8, <3>1, <3>2, <3>3
  <2> QED BY <2>1, <2>2 DEF PreparedOps
<1>16. PreparedRow(row)
  BY <1>10, <1>14, <1>15 DEF PreparedRow
<1> QED BY <1>4, <1>16

\* The sums over the parts of the picked quants, however they are numbered
LEMMA QuantsParted ==
  ASSUME GivenInv, NEW I, IsFiniteSet(I), NEW F, \A i \in I : F[i] \subseteq Quants,
         \A i, j \in I : i # j => F[i] \cap F[j] = {},
         UNION {F[i] : i \in I} = PickingQuants
  PROVE  /\ SumFunctionOnSet([i \in I |-> QuantsQty(F[i])], I) = QuantsQty(PickingQuants)
         /\ QuantsQty(PickingQuants) \in Nat
<1> DEFINE w == [q \in Quants |-> quants[q].qty]
<1>1. IsFiniteSet(Quants) /\ \A q \in Quants : w[q] \in Int
  BY GivenFacts
<1>2. \A S : QuantsQty(S) = SumFunctionOnSet(w, S)
  BY DEF QuantsQty
<1>3. QuantsQty(PickingQuants) \in Nat
  <2>1. PickingQuants \in SUBSET Quants
    BY DEF PickingQuants
  <2> QED BY <2>1, QuantsNat
<1> HIDE DEF w
<1>4. SumFunctionOnSet([i \in I |-> SumFunctionOnSet(w, F[i])], I)
        = SumFunctionOnSet(w, UNION {F[i] : i \in I})
  BY <1>1, SumPartition
<1>5. SumFunctionOnSet(w, UNION {F[i] : i \in I}) = QuantsQty(PickingQuants)
  BY <1>2
<1>6. [i \in I |-> QuantsQty(F[i])] = [i \in I |-> SumFunctionOnSet(w, F[i])]
  BY <1>2
<1> QED BY <1>3, <1>4, <1>5, <1>6, Zenon

\* The operations carry what is reserved and what is forced.
LEMMA PreparedTotal ==
  ASSUME Inv, PreparedRow(ops)
  PROVE  SumFunctionOnSet([o \in DOMAIN ops |-> OpQty(o)], DOMAIN ops)
           = QuantsQty(PickingQuants) + ForcedQty
<1> DEFINE I == DOMAIN ops
           F == [o \in I |-> ServedBy(ops[o])]
           a == [o \in I |-> QuantsQty(F[o])]
           b == [o \in Nat |-> IF o \in I THEN Extra(ops[o]) ELSE 0]
           c == [o \in I |-> OpQty(o)]
<1>1. /\ GivenInv /\ IsFiniteSet(I) /\ I \in SUBSET (Nat \ {0})
      /\ \A o \in I : ops[o] \in PreparedOps
  BY OpsSound, FS_Interval DEF PreparedRow
<1>2. \A o \in I : F[o] \subseteq Quants /\ QuantsQty(F[o]) \in Nat
  <2> TAKE o \in I
  <2>1. F[o] = ServedBy(ops[o]) /\ ServedBy(ops[o]) \in SUBSET Quants
    BY <1>1, PreparedFacts DEF PickingQuants
  <2> HIDE DEF F
  <2> QED BY <1>1, <2>1, QuantsNat
<1>3. \A o, n \in I : o # n => F[o] \cap F[n] = {}
  <2> TAKE o, n \in I
  <2> HAVE o # n
  <2>1. ops[o] # ops[n] /\ ops[o] \in PreparedOps /\ ops[n] \in PreparedOps
    BY <1>1 DEF PreparedRow
  <2> QED BY <1>1, <2>1, ServedApart
<1>4. UNION {F[o] : o \in I} = PickingQuants
  <2>1. UNION {ServedBy(op) : op \in PreparedOps} = PickingQuants
    BY <1>1, ServedAll
  <2>2. \A op \in PreparedOps : \E o \in I : ops[o] = op
    BY DEF PreparedRow
  <2>3. \A o \in I : F[o] = ServedBy(ops[o])
    OBVIOUS
  <2> HIDE DEF F
  <2> QED BY <1>1, <2>1, <2>2, <2>3
<1>5. \A o \in I : OpQty(o) = QuantsQty(F[o]) + Extra(ops[o]) /\ Extra(ops[o]) \in Nat
  <2> TAKE o \in I
  <2>1. Extra(ops[o]) \in Nat
    BY <1>1, ReservedNat DEF Extra
  <2>2. CASE ops[o].whole
    <3>1. OpQty(o) = QuantsQty(F[o]) /\ Extra(ops[o]) = 0
      BY <2>2 DEF OpQty, ServedBy, Extra
    <3> HIDE DEF F
    <3> QED BY <1>2, <2>1, <3>1
  <2>3. CASE ~ops[o].whole
    <3>1. ops[o].qty = QuantsQty(ServedBy(ops[o])) + Extra(ops[o])
      BY <1>1, <2>3, PreparedFacts
    <3> QED BY <2>1, <2>3, <3>1 DEF OpQty
  <2> QED BY <2>2, <2>3
<1>6. SumFunctionOnSet(b, I) = ForcedQty
  <2>1. ForcedQty \in Nat
    BY <1>1, ReservedNat
  <2>2. \A o \in Nat : b[o] \in Nat /\ (o \in I => b[o] = Extra(ops[o])) /\ (o \notin I => b[o] = 0)
    BY <1>1, <1>5
  <2>3. CASE ForcedQty = 0
    <3>1. \A o \in I \ {0} : b[o] = 0
      BY <1>1, <2>2, <2>3 DEF Extra
    <3>2. b[0] \in Int /\ 0 \notin I
      BY <1>1, <2>2
    <3> HIDE DEF b, I
    <3> QED BY <1>1, <2>3, <3>1, <3>2, SumOne
  <2>4. CASE ForcedQty # 0
    <3>1. [pack |-> None, lot |-> None] \in Groups
      BY <2>1, <2>4 DEF Groups
    <3>2. PICK op \in PreparedOps : op = PreparedOp([pack |-> None, lot |-> None])
      BY <3>1 DEF PreparedOps
    <3>3. PICK z \in I : ops[z] = op
      BY DEF PreparedRow
    <3>4. b[z] = ForcedQty
      BY <1>1, <2>2, <3>2, <3>3 DEF PreparedOp, Extra
    <3>5. ASSUME NEW o \in I \ {z}
          PROVE  b[o] = 0
      <4>1. ops[o] # op /\ ops[o] \in PreparedOps
        BY <1>1, <3>3 DEF PreparedRow
      <4>2. ~ (~ops[o].whole /\ ops[o].pack = None /\ ops[o].lot = None)
        <5>1. ASSUME ~ops[o].whole, ops[o].pack = None, ops[o].lot = None
              PROVE  FALSE
          <6>1. ops[o] = PreparedOp([pack |-> ops[o].pack, lot |-> ops[o].lot])
            BY <1>1, <4>1, <5>1, PreparedFacts
          <6> QED BY <3>2, <4>1, <5>1, <6>1
        <5> QED BY <5>1
      <4> QED BY <1>1, <2>2, <4>2 DEF Extra
    <3>6. b[z] \in Int /\ z \in I
      BY <2>1, <3>4
    <3> HIDE DEF b, I
    <3> QED BY <1>1, <3>4, <3>5, <3>6, SumOne
  <2> QED BY <2>3, <2>4
<1>7. SumFunctionOnSet([o \in I |-> a[o] + b[o]], I) = SumFunctionOnSet(a, I) + SumFunctionOnSet(b, I)
  <2>1. \A o \in I : a[o] \in Int /\ b[o] \in Int
    BY <1>1, <1>2, <1>5
  <2> HIDE DEF a, b, I
  <2> QED BY <1>1, <2>1, SumPlus
<1>8. c = [o \in I |-> a[o] + b[o]]
  BY <1>1, <1>5
<1>9. SumFunctionOnSet(a, I) = QuantsQty(PickingQuants)
  <2>1. \A o \in I : F[o] \subseteq Quants
    BY <1>2
  <2> HIDE DEF F, I
  <2> QED BY <1>1, <1>3, <1>4, <2>1, QuantsParted DEF a
<1> HIDE DEF a, b, c
<1>10. SumFunctionOnSet(c, I) = QuantsQty(PickingQuants) + ForcedQty
  BY <1>6, <1>7, <1>8, <1>9
<1> QED BY <1>10 DEF c

\* The moves need what is reserved and what is forced, or more.
LEMMA MovesTotal ==
  ASSUME GivenInv
  PROVE  /\ SumFunctionOnSet([m \in Moves |-> moves[m].qty], Moves) \in Nat
         /\ QuantsQty(PickingQuants) + ForcedQty
              <= SumFunctionOnSet([m \in Moves |-> moves[m].qty], Moves)
<1> DEFINE F == [m \in Moves |-> ReservedFor(m)]
           a == [m \in Moves |-> QuantsQty(F[m])]
           b == [m \in Moves |-> moves[m].qty - ReservedQty(m)]
           c == [m \in Moves |-> moves[m].qty]
           T == {m \in Moves : Assigned(m)}
<1>1. IsFiniteSet(Moves) /\ IsFiniteSet(Quants)
  BY GivenFacts
<1>2. \A m \in Moves : /\ a[m] = ReservedQty(m) /\ a[m] \in Nat /\ b[m] \in Nat /\ c[m] \in Nat
                       /\ c[m] = a[m] + b[m]
  <2> TAKE m \in Moves
  <2>1. moves[m].qty \in Nat /\ ReservedQty(m) \in Nat /\ ReservedQty(m) <= moves[m].qty
    BY GivenFacts, ReservedNat DEF GivenInv
  <2>2. a[m] = ReservedQty(m)
    BY DEF ReservedQty
  <2>3. b[m] = moves[m].qty - ReservedQty(m) /\ c[m] = moves[m].qty
    OBVIOUS
  <2> HIDE DEF a, b, c
  <2> QED BY <2>1, <2>2, <2>3
<1>3. SumFunctionOnSet(a, Moves) = QuantsQty(PickingQuants) /\ QuantsQty(PickingQuants) \in Nat
  <2>1. \A m \in Moves : F[m] \subseteq Quants
    BY DEF ReservedFor
  <2>2. \A m, n \in Moves : m # n => F[m] \cap F[n] = {}
    BY DEF ReservedFor
  <2>3. UNION {F[m] : m \in Moves} = PickingQuants
    BY DEF ReservedFor, PickingQuants
  <2> HIDE DEF F
  <2> QED BY <1>1, <2>1, <2>2, <2>3, QuantsParted DEF a
<1>4. ForcedQty = SumFunctionOnSet(b, T)
  BY DEF ForcedQty
<1>5. c = [m \in Moves |-> a[m] + b[m]]
  <2>1. \A m \in Moves : c[m] = a[m] + b[m]
    BY <1>2
  <2>2. c = [m \in Moves |-> c[m]]
    OBVIOUS
  <2> HIDE DEF a, b, c
  <2> QED BY <2>1, <2>2
<1>6. T \in SUBSET Moves
  OBVIOUS
<1> HIDE DEF a, b, c, T, F
<1>7. SumFunctionOnSet([m \in Moves |-> a[m] + b[m]], Moves)
        = SumFunctionOnSet(a, Moves) + SumFunctionOnSet(b, Moves)
  <2>1. \A m \in Moves : a[m] \in Int /\ b[m] \in Int
    BY <1>2
  <2> QED BY <1>1, <2>1, SumPlus
<1>8. /\ SumFunctionOnSet(b, T) \in Nat
      /\ SumFunctionOnSet(b, Moves) = SumFunctionOnSet(b, T) + SumFunctionOnSet(b, Moves \ T)
  <2>1. \A m \in Moves : b[m] \in Nat
    BY <1>2
  <2> QED BY <1>1, <1>6, <2>1, SumPart
<1>9. SumFunctionOnSet(b, Moves \ T) \in Nat
  <2>1. IsFiniteSet(Moves \ T) /\ \A m \in Moves \ T : b[m] \in Nat
    BY <1>1, <1>2, FS_Subset
  <2> QED BY <2>1, SumNat
<1>10. SumFunctionOnSet(c, Moves) = SumFunctionOnSet(a, Moves) + SumFunctionOnSet(b, Moves)
  BY <1>5, <1>7
<1>11. PICK x \in Nat, y \in Nat, z \in Nat :
         /\ x = QuantsQty(PickingQuants) /\ y = ForcedQty /\ z = SumFunctionOnSet(b, Moves \ T)
         /\ SumFunctionOnSet(c, Moves) = x + (y + z)
  BY <1>3, <1>4, <1>8, <1>9, <1>10
<1>12. SumFunctionOnSet(c, Moves) \in Nat /\ QuantsQty(PickingQuants) + ForcedQty <= SumFunctionOnSet(c, Moves)
  BY <1>11
<1> QED BY <1>12 DEF c

\* What the links put on moves is what they put on operations.
LEMMA LinksTotal ==
  ASSUME Inv, pc = "done"
  PROVE  SumFunctionOnSet([m \in Moves |-> OfMove(links, m)], Moves)
           = SumFunctionOnSet([o \in DOMAIN ops |-> OfOp(links, o)], DOMAIN ops)
<1> DEFINE D == DOMAIN links
           I == DOMAIN ops
           w == [i \in D |-> links[i].qty]
           F == [m \in Moves |-> {i \in D : links[i].move = m}]
           G == [o \in I |-> {i \in D : links[i].op = o}]
           a == [m \in Moves |-> OfMove(links, m)]
           b == [o \in I |-> OfOp(links, o)]
<1>1. IsFiniteSet(Moves) /\ IsFiniteSet(I)
  BY GivenFacts, OpsSound, FS_Interval
<1>2. IsFiniteSet(D)
  <2>1. links \in Seq(Links)
    BY ComputationTyped
  <2>2. D = 1 .. Len(links) /\ Len(links) \in Nat
    BY <2>1
  <2> QED BY <2>2, FS_Interval
<1>3. \A i \in D : w[i] \in Int /\ links[i].move \in Moves /\ links[i].op \in I
  <2> TAKE i \in D
  <2>1. links[i].qty \in Nat \ {0} /\ links[i].move \in Moves
    BY ComputationTyped
  <2>2. links[i].op \in DOMAIN ops
    BY DEF Inv, LinkInv
  <2> QED BY <2>1, <2>2
<1>4. \A S : QtyOf(links, S) = SumFunctionOnSet(w, S)
  BY DEF QtyOf
<1>5. a = [m \in Moves |-> SumFunctionOnSet(w, F[m])]
  <2>1. \A m \in Moves : OfMove(links, m) = SumFunctionOnSet(w, F[m])
    BY <1>4 DEF OfMove
  <2> HIDE DEF F, w
  <2> QED BY <2>1
<1>6. b = [o \in I |-> SumFunctionOnSet(w, G[o])]
  <2>1. \A o \in I : OfOp(links, o) = SumFunctionOnSet(w, G[o])
    BY <1>4 DEF OfOp
  <2> HIDE DEF G, w
  <2> QED BY <2>1
<1>7. /\ \A m \in Moves : F[m] \subseteq D
      /\ \A m, n \in Moves : m # n => F[m] \cap F[n] = {}
      /\ UNION {F[m] : m \in Moves} = D
  <2>1. \A m \in Moves : F[m] = {i \in D : links[i].move = m}
    OBVIOUS
  <2>2. \A i \in D : links[i].move \in Moves
    BY <1>3
  <2> HIDE DEF F
  <2> QED BY <2>1, <2>2
<1>8. /\ \A o \in I : G[o] \subseteq D
      /\ \A o, n \in I : o # n => G[o] \cap G[n] = {}
      /\ UNION {G[o] : o \in I} = D
  <2>1. \A o \in I : G[o] = {i \in D : links[i].op = o}
    OBVIOUS
  <2>2. \A i \in D : links[i].op \in I
    BY <1>3
  <2> HIDE DEF a, b, w, F, G, D, I
  <2>3. \A i \in D : \E o \in I : i \in G[o]
    BY <2>1, <2>2
  <2>4. \A o \in I : G[o] \subseteq D
    BY <2>1
  <2>5. UNION {G[o] : o \in I} = D
    BY <2>3, <2>4
  <2>6. \A o, n \in I : o # n => G[o] \cap G[n] = {}
    BY <2>1
  <2> QED BY <2>4, <2>5, <2>6
<1>9. \A i \in D : w[i] \in Int
  BY <1>3
<1> HIDE DEF a, b, w, F, G, D, I
<1>10. SumFunctionOnSet([m \in Moves |-> SumFunctionOnSet(w, F[m])], Moves)
         = SumFunctionOnSet(w, UNION {F[m] : m \in Moves})
  BY <1>1, <1>2, <1>7, <1>9, SumPartition
<1>11. SumFunctionOnSet([o \in I |-> SumFunctionOnSet(w, G[o])], I)
         = SumFunctionOnSet(w, UNION {G[o] : o \in I})
  BY <1>1, <1>2, <1>8, <1>9, SumPartition
<1>12. SumFunctionOnSet(a, Moves) = SumFunctionOnSet(b, I)
  BY <1>5, <1>6, <1>7, <1>8, <1>10, <1>11
<1> QED BY <1>12 DEF a, b, I

\* The operations that are prepared find moves enough.
LEMMA PreparedProcessed ==
  ASSUME Inv, NoLine, PreparedRow(ops), pc = "done"
  PROVE  all_op_processed
<1> SUFFICES ASSUME ~all_op_processed PROVE FALSE
  OBVIOUS
<1> DEFINE I == DOMAIN ops
           a == [m \in Moves |-> OfMove(links, m)]
           b == [o \in I |-> OfOp(links, o)]
           c == [o \in I |-> OpQty(o)]
           d == [m \in Moves |-> moves[m].qty]
<1>1. /\ GivenInv /\ IsFiniteSet(Moves) /\ IsFiniteSet(I)
      /\ \A m \in Moves : moves[m].qty \in Nat
  BY GivenFacts, OpsSound, FS_Interval
<1>2. /\ \A o \in I : b[o] \in Nat /\ c[o] \in Nat /\ b[o] <= c[o]
      /\ \E o \in I : b[o] < c[o]
      /\ \A o \in I : b[o] < c[o] => \A m \in InTable : Suits(o, m) => left[m] = 0
  <2>1. still_to_do = <<>>
    BY DEF Inv, TodoInv
  <2>2. \A o \in I : Covered(o) = OfOp(links, o)
    <3>1. PICK row : row = still_to_do
      OBVIOUS
    <3>2. \A o : OfOp(row, o) = 0
      BY <2>1, <3>1, OfEmpty
    <3> QED BY <3>1, <3>2, StoredQuantities
  <2>3. /\ \A o \in I : Covered(o) <= OpQty(o)
        /\ all_op_processed <=> \A o \in I : Covered(o) = OpQty(o)
        /\ \A o \in I : Covered(o) < OpQty(o) => \A m \in InTable : Suits(o, m) => left[m] = 0
    BY DEF Inv, CoverInv
  <2>4. \A o \in I : b[o] = OfOp(links, o) /\ c[o] = OpQty(o) /\ b[o] \in Nat /\ c[o] \in Nat
    BY StoredQuantities
  <2> HIDE DEF b, c
  <2>5. \A o \in I : b[o] <= c[o] /\ Covered(o) = b[o]
    BY <2>2, <2>3, <2>4
  <2>6. PICK o \in I : b[o] # c[o]
    BY <2>2, <2>3, <2>4
  <2>7. b[o] < c[o]
    BY <2>4, <2>5, <2>6
  <2>8. \A u \in I : b[u] < c[u] => \A m \in InTable : Suits(u, m) => left[m] = 0
    BY <2>2, <2>3, <2>4
  <2> QED BY <2>4, <2>5, <2>7, <2>8
<1>3. \A m \in Moves : left[m] = 0 /\ m \in InTable
  <2>1. PICK o \in I : b[o] < c[o]
    BY <1>2
  <2>2. ops[o].line = None
    BY <1>1, PreparedFacts DEF PreparedRow
  <2>3. InTable = Moves
    BY DEF InTable, NoLine
  <2>4. \A m : Suits(o, m)
    BY <2>2 DEF Suits
  <2> HIDE DEF b, c
  <2> QED BY <1>2, <2>1, <2>3, <2>4
<1>4. a = d
  <2>1. \A m \in Moves : OfMove(links, m) = moves[m].qty
    <3> TAKE m \in Moves
    <3>1. left[m] + OfMove(links, m) = Table[m]
      BY DEF Inv, TableInv
    <3>2. Table[m] = moves[m].qty /\ OfMove(links, m) \in Nat
      BY <1>3, ComputationTyped DEF Table
    <3> QED BY <1>3, <3>1, <3>2
  <2> QED BY <2>1
<1>5. SumFunctionOnSet(a, Moves) = SumFunctionOnSet(b, I)
  BY LinksTotal
<1>6. SumFunctionOnSet(c, I) = QuantsQty(PickingQuants) + ForcedQty
  BY PreparedTotal
<1>7. /\ SumFunctionOnSet(d, Moves) \in Nat
      /\ QuantsQty(PickingQuants) + ForcedQty <= SumFunctionOnSet(d, Moves)
  BY <1>1, MovesTotal
<1> HIDE DEF a, b, c, d, I
<1>8. SumFunctionOnSet(b, I) < SumFunctionOnSet(c, I)
  <2>1. /\ \A o \in I : b[o] \in Int /\ c[o] \in Int
        /\ \A o \in I : b[o] <= c[o]
    BY <1>2
  <2>2. (\E o \in I : b[o] < c[o]) => SumFunctionOnSet(b, I) < SumFunctionOnSet(c, I)
    BY <1>1, <2>1, SumBelow
  <2> QED BY <1>2, <2>2
<1>9. SumFunctionOnSet(c, I) \in Int
  <2>1. \A o \in I : c[o] \in Int
    BY <1>2
  <2> QED BY <1>1, <2>1, SumType
<1> QED BY <1>4, <1>5, <1>6, <1>7, <1>8, <1>9

-----------------------------------------------------------------------------
(* Operations that find all they serve *)

\* The moves have enough left for the quants of U.
Ample(table, U) == \A m \in Moves : QuantsQty(ReservedFor(m) \cap U) <= table[m]

\* Fewer quants have no more quantity.
LEMMA QuantsBelow ==
  ASSUME GivenInv, NEW S \in SUBSET Quants, NEW T \in SUBSET S
  PROVE  QuantsQty(T) <= QuantsQty(S) /\ QuantsQty(T) \in Nat /\ QuantsQty(S) \in Nat
<1> DEFINE w == [q \in Quants |-> quants[q].qty]
<1>1. IsFiniteSet(S) /\ \A q \in S : w[q] \in Nat
  BY GivenFacts, QuantsNat
<1>2. QuantsQty(T) \in Nat /\ QuantsQty(S) \in Nat /\ QuantsQty(S \ T) \in Nat
  BY QuantsNat
<1>3. \A U : QuantsQty(U) = SumFunctionOnSet(w, U)
  BY DEF QuantsQty
<1> HIDE DEF w
<1>4. SumFunctionOnSet(w, S) = SumFunctionOnSet(w, T) + SumFunctionOnSet(w, S \ T)
  BY <1>1, SumPart
<1>5. QuantsQty(S) = QuantsQty(T) + QuantsQty(S \ T)
  BY <1>3, <1>4
<1> QED BY <1>2, <1>5

\* A link for one quant of U, for all it has or less
AmplyLinked(acc, next, qty, U, q) ==
  /\ next \in Progress
  /\ next.need = acc.need - qty
  /\ next.rest = acc.rest
  /\ Ample(next.left, U \ {q})

LEMMA AmpleLink ==
  ASSUME GivenInv, NEW acc \in Progress, NEW o \in Nat \ {0}, NEW U \in SUBSET Quants,
         NEW q \in U, reservation[q] \in Moves, NEW qty \in Nat, qty <= quants[q].qty,
         qty <= acc.need, Ample(acc.left, U)
  PROVE  AmplyLinked(acc, LinkQuant(acc, o, q, qty), qty, U, q)
<1>1. PICK m \in Moves : m = reservation[q]
  OBVIOUS
<1>2. PICK next : next = LinkMove(acc, o, m, qty, q)
  OBVIOUS
<1>3. PICK d \in Nat : LinkedBy(acc, next, o, m, qty, q, d)
  BY <1>2, LinkMoveFacts
<1>4. quants[q].qty \in Nat /\ acc.left \in [Moves -> Nat] /\ acc.need \in Nat
  BY GivenFacts DEF Progress
<1>5. PICK V \in SUBSET Quants : V = ReservedFor(m) \cap U /\ q \in V
  BY <1>1 DEF ReservedFor
<1>6. QuantsQty(V) = quants[q].qty + QuantsQty(V \ {q}) /\ QuantsQty(V \ {q}) \in Nat
  BY <1>5, QuantsRemove, QuantsNat
<1>7. QuantsQty(V) <= acc.left[m]
  BY <1>5 DEF Ample
<1>8. d = qty
  BY <1>3, <1>4, <1>6, <1>7 DEF LinkedBy
<1>9. /\ next \in Progress /\ next.need = acc.need - qty /\ next.rest = acc.rest
      /\ next.left[m] = acc.left[m] - qty
      /\ \A n \in Moves \ {m} : next.left[n] = acc.left[n]
  BY <1>3, <1>8 DEF LinkedBy
<1>10. ASSUME NEW n \in Moves
       PROVE  QuantsQty(ReservedFor(n) \cap (U \ {q})) <= next.left[n]
  <2>1. CASE n = m
    <3>1. ReservedFor(n) \cap (U \ {q}) = V \ {q}
      BY <1>5, <2>1
    <3>2. QuantsQty(ReservedFor(n) \cap (U \ {q})) = QuantsQty(V \ {q})
      BY <3>1, Zenon
    <3>3. QuantsQty(V \ {q}) <= acc.left[m] - qty
      BY <1>4, <1>6, <1>7
    <3> QED BY <1>9, <2>1, <3>2, <3>3
  <2>2. CASE n # m
    <3>1. ReservedFor(n) \cap (U \ {q}) = ReservedFor(n) \cap U
      BY <1>1, <2>2 DEF ReservedFor
    <3>2. QuantsQty(ReservedFor(n) \cap (U \ {q})) = QuantsQty(ReservedFor(n) \cap U)
      BY <3>1, Zenon
    <3>3. QuantsQty(ReservedFor(n) \cap U) <= acc.left[n]
      BY DEF Ample
    <3> QED BY <1>9, <2>2, <3>2, <3>3
  <2> QED BY <2>1, <2>2
<1>11. Ample(next.left, U \ {q})
  BY <1>10 DEF Ample
<1>12. LinkQuant(acc, o, q, qty) = next
  BY <1>1, <1>2 DEF LinkQuant
<1> QED BY <1>9, <1>11, <1>12 DEF AmplyLinked

\* A package whose quants are all reserved for the picking is linked in full.
LEMMA WholeAmple ==
  ASSUME GivenInv, left \in [Moves -> Nat], links \in Seq(Links), NEW o \in Nat \ {0},
         NEW S, S = Content(ops[o].pack), S \subseteq PickingQuants,
         NEW L \in SUBSET Quants, L \cap S = {}, Ample(left, S \cup L)
  PROVE  LinkPackageOp(o).rest = <<>> /\ Ample(LinkPackageOp(o).left, L)
<1> DEFINE A == [U \in SUBSET S |->
                   {acc \in Progress : /\ acc.rest = <<>> /\ acc.need = QuantsQty(U)
                                       /\ Ample(acc.left, U \cup L)}]
           w == [q \in S |-> 0]
           start == Linking(QuantsQty(S))
<1>1. S \in SUBSET Quants /\ \A q \in S : q \in Quants /\ reservation[q] \in Moves
  BY DEF PickingQuants
<1>2. S \in SUBSET Nat /\ IsFiniteSet(S)
  BY <1>1, GivenFacts, QuantsNat
<1>3. start \in A[S]
  <2>1. QuantsQty(S) \in Nat
    BY <1>1, QuantsNat
  <2>2. start \in Progress /\ start.rest = <<>> /\ start.need = QuantsQty(S) /\ start.left = left
    BY <2>1 DEF Linking, Progress
  <2> HIDE DEF start
  <2> QED BY <2>2
<1>4. ASSUME NEW T \in SUBSET S, NEW q \in S \ T, NEW acc \in A[T \cup {q}]
      PROVE  LinkWhole(o)[q][acc] \in A[T]
  <2>1. T \cup {q} \in SUBSET S
    OBVIOUS
  <2>2. /\ acc \in Progress /\ acc.rest = <<>> /\ acc.need = QuantsQty(T \cup {q})
        /\ Ample(acc.left, T \cup {q} \cup L)
    BY <2>1
  <2> HIDE DEF A
  <2>3. PICK U \in SUBSET Quants : U = T \cup {q} \cup L
    BY <1>1
  <2>4. QuantsQty(T \cup {q}) = quants[q].qty + QuantsQty(T) /\ QuantsQty(T) \in Nat
    <3>1. PICK V \in SUBSET Quants : V = T \cup {q}
      BY <1>1
    <3>2. QuantsQty(V) = quants[q].qty + QuantsQty(V \ {q}) /\ QuantsQty(V \ {q}) \in Nat
      BY <3>1, QuantsRemove, QuantsNat
    <3>3. V \ {q} = T
      BY <3>1
    <3>4. QuantsQty(V \ {q}) = QuantsQty(T)
      BY <3>3, Zenon
    <3> QED BY <3>1, <3>2, <3>4
  <2>5. quants[q].qty \in Nat /\ quants[q].qty <= acc.need /\ quants[q].qty <= quants[q].qty
    <3>1. quants[q].qty \in Nat
      BY <1>1, GivenFacts
    <3> QED BY <2>2, <2>4, <3>1
  <2>6. PICK next : next = LinkQuant(acc, o, q, quants[q].qty)
    OBVIOUS
  <2>7. AmplyLinked(acc, next, quants[q].qty, U, q)
    <3>1. q \in U /\ reservation[q] \in Moves /\ Ample(acc.left, U)
      BY <1>1, <2>2, <2>3
    <3> QED BY <2>2, <2>5, <2>6, <3>1, AmpleLink
  <2>8. /\ next \in Progress /\ next.need = QuantsQty(T) /\ next.rest = <<>>
        /\ acc.need - next.need = quants[q].qty
    <3>1. next.need = acc.need - quants[q].qty /\ acc.need = quants[q].qty + QuantsQty(T)
      BY <2>2, <2>4, <2>7 DEF AmplyLinked
    <3>2. next.need = QuantsQty(T) /\ acc.need - next.need = quants[q].qty
      BY <2>4, <2>5, <3>1
    <3> QED BY <2>2, <2>7, <3>2 DEF AmplyLinked
  <2>9. U \ {q} = T \cup L
    BY <2>3
  <2>10. Ample(next.left, T \cup L)
    BY <2>7, <2>9, Zenon DEF AmplyLinked
  <2>11. LinkWhole(o)[q][acc] = next
    <3>1. quants[q].qty - (acc.need - next.need) = 0
      BY <2>5, <2>8
    <3>2. LinkWhole(o)[q][acc] = [next EXCEPT !.rest = next.rest]
      BY <1>1, <2>2, <2>6, <3>1 DEF LinkWhole
    <3>3. next = [next EXCEPT !.rest = next.rest]
      BY <2>8 DEF Progress
    <3> QED BY <3>2, <3>3
  <2> QED BY <2>8, <2>10, <2>11 DEF A
<1>5. LinkPackageOp(o) = Through(LinkWhole(o), Sorted(S, w), start)
  BY DEF LinkPackageOp, ById
<1>6. \A q \in S : w[q] \in Int
  OBVIOUS
<1> HIDE DEF A, w, start
<1>7. Through(LinkWhole(o), Sorted(S, w), start) \in A[{}]
  BY <1>2, <1>3, <1>4, <1>6, ThroughEach
<1>8. {} \cup L = L
  OBVIOUS
<1>9. LinkPackageOp(o).rest = <<>> /\ Ample(LinkPackageOp(o).left, {} \cup L)
  BY <1>5, <1>7 DEF A
<1> QED BY <1>8, <1>9, Zenon

\* What an operation on products needs is in the quants V, and these and those of L find
\* their moves with enough left.
Ready(V, L) ==
  {acc \in Progress : acc.need <= QuantsQty(V) /\ Ample(acc.left, V \cup L)}

\* The part of S that is reserved for the moves M
OnMoves(S, M) == {q \in S : reservation[q] \in M}

\* The turn of LinkProductOp on a move
MoveTurn(o) ==
  [m \in Moves |-> [acc \in Progress |->
     Through(LinkFitting(o), ById(ReservedFor(m)), acc)]]

\* The loop over the moves, from what is kept on the moves M and the quants T of the
\* move m to what is kept on M
LEMMA MovesLoop ==
  ASSUME GivenInv, left \in [Moves -> Nat], links \in Seq(Links), NEW o, NEW A,
         InTable = Moves, ops[o].line = None, Linking(ops[o].qty) \in A[Moves],
         \A M \in SUBSET Moves : \A m \in Moves \ M : \A acc \in A[M \cup {m}] :
           MoveTurn(o)[m][acc] \in A[M]
  PROVE  LinkProductOp(o) \in A[{}]
<1> DEFINE w == [m \in Moves |-> Weight(m)]
<1>1. Moves \in SUBSET Nat /\ IsFiniteSet(Moves)
  BY GivenFacts
<1>2. \A m \in Moves : w[m] \in Int
  BY DEF Weight
<1>3. MoveOrder = Sorted(Moves, w)
  BY DEF MoveOrder
<1>4. LinkProductOp(o) = Through(MoveTurn(o), Sorted(Moves, w), Linking(ops[o].qty))
  BY <1>3 DEF LinkProductOp, MoveData, MoveTurn
<1> HIDE DEF w
<1>5. Through(MoveTurn(o), Sorted(Moves, w), Linking(ops[o].qty)) \in A[{}]
  BY <1>1, <1>2, ThroughEach
<1> QED BY <1>4, <1>5

LEMMA QuantsLoop ==
  ASSUME GivenInv, NEW o, NEW m \in Moves, NEW B, NEW acc \in Progress,
         acc \in B[ReservedFor(m)],
         \A T \in SUBSET ReservedFor(m) : \A q \in ReservedFor(m) \ T : \A b \in B[T \cup {q}] :
           LinkFitting(o)[q][b] \in B[T]
  PROVE  MoveTurn(o)[m][acc] \in B[{}]
<1> DEFINE R == ReservedFor(m)
           w == [q \in R |-> 0]
<1>1. R \in SUBSET Quants
  BY DEF ReservedFor
<1>2. R \in SUBSET Nat /\ IsFiniteSet(R)
  BY <1>1, GivenFacts, QuantsNat
<1>3. \A q \in R : w[q] \in Int
  OBVIOUS
<1>4. MoveTurn(o)[m][acc] = Through(LinkFitting(o), Sorted(R, w), acc)
  BY DEF MoveTurn, ById
<1>5. /\ acc \in B[R]
      /\ \A T \in SUBSET R : \A q \in R \ T : \A b \in B[T \cup {q}] : LinkFitting(o)[q][b] \in B[T]
  OBVIOUS
<1> HIDE DEF R, w
<1>6. Through(LinkFitting(o), Sorted(R, w), acc) \in B[{}]
  BY <1>2, <1>3, <1>5, ThroughEach
<1> QED BY <1>4, <1>6

LEMMA ReadyStarts ==
  ASSUME GivenInv, left \in [Moves -> Nat], links \in Seq(Links), NEW n \in Nat,
         NEW V \in SUBSET Quants, NEW L \in SUBSET Quants,
         n <= QuantsQty(V), Ample(left, V \cup L)
  PROVE  Linking(n) \in Ready(V, L)
<1>1. Linking(n) \in Progress /\ Linking(n).need = n /\ Linking(n).left = left
  BY DEF Linking, Progress
<1> QED BY <1>1 DEF Ready

\* An operation that fits the quants it serves and no others leaves the moves ample for
\* the operations that come after it.
LEMMA LotAmple ==
  ASSUME GivenInv, left \in [Moves -> Nat], links \in Seq(Links), NEW o \in Nat \ {0},
         InTable = Moves, ops[o].line = None,
         NEW S \in SUBSET PickingQuants, ops[o].qty = QuantsQty(S),
         \A q \in PickingQuants : (q \notin packDone /\ Fits(o, q)) <=> q \in S,
         NEW L \in SUBSET Quants, L \cap S = {}, Ample(left, S \cup L)
  PROVE  LinkProductOp(o).need = 0 /\ Ample(LinkProductOp(o).left, L)
<1> DEFINE A == [M \in SUBSET Moves |-> Ready(OnMoves(S, M), L)]
<1>1. S \in SUBSET Quants /\ \A q \in S : q \in Quants /\ reservation[q] \in Moves
  BY DEF PickingQuants
<1>2. Linking(ops[o].qty) \in A[Moves]
  <2>1. OnMoves(S, Moves) = S
    BY <1>1 DEF OnMoves
  <2>2. QuantsQty(S) \in Nat /\ QuantsQty(S) <= QuantsQty(S)
    BY <1>1, QuantsBelow
  <2>3. Linking(ops[o].qty) \in Ready(S, L)
    BY <1>1, <2>2, ReadyStarts
  <2>4. A[Moves] = Ready(S, L)
    BY <2>1
  <2> QED BY <2>3, <2>4
<1>3. ASSUME NEW M \in SUBSET Moves, NEW m \in Moves \ M, NEW acc \in A[M \cup {m}]
      PROVE  MoveTurn(o)[m][acc] \in A[M]
  <2> DEFINE R == ReservedFor(m)
             V == OnMoves(S, M)
             B == [T \in SUBSET R |-> Ready(V \cup (S \cap T), L)]
  <2>1. R \in SUBSET Quants /\ R \subseteq PickingQuants /\ \A q \in R : reservation[q] = m
    BY DEF ReservedFor, PickingQuants
  <2>2. V \in SUBSET S /\ \A q \in R : q \notin V
    BY <2>1 DEF OnMoves
  <2>3. A[M \cup {m}] = B[R]
    <3>1. V \cup (S \cap R) = OnMoves(S, M \cup {m})
      BY <1>1 DEF OnMoves, ReservedFor
    <3>2. M \cup {m} \in SUBSET Moves /\ R \in SUBSET R
      OBVIOUS
    <3>3. A[M \cup {m}] = Ready(OnMoves(S, M \cup {m}), L) /\ B[R] = Ready(V \cup (S \cap R), L)
      BY <3>2
    <3> HIDE DEF A, B, V, R
    <3> QED BY <3>1, <3>3
  <2>4. A[M] = B[{}]
    <3>1. V \cup (S \cap {}) = V /\ {} \in SUBSET R
      OBVIOUS
    <3>2. A[M] = Ready(V, L) /\ B[{}] = Ready(V \cup (S \cap {}), L)
      BY <3>1
    <3> HIDE DEF A, B, V, R
    <3> QED BY <3>1, <3>2
  <2>5. acc \in Progress
    <3>1. M \cup {m} \in SUBSET Moves
      OBVIOUS
    <3> QED BY <3>1 DEF Ready
  <2>6. ASSUME NEW T \in SUBSET R, NEW q \in R \ T, NEW b \in B[T \cup {q}]
        PROVE  LinkFitting(o)[q][b] \in B[T]
    <3>1. T \cup {q} \in SUBSET R
      OBVIOUS
    <3>2. /\ b \in Progress /\ b.need <= QuantsQty(V \cup (S \cap (T \cup {q})))
          /\ Ample(b.left, V \cup (S \cap (T \cup {q})) \cup L)
      BY <3>1 DEF Ready
    <3>3. B[T] = Ready(V \cup (S \cap T), L)
      OBVIOUS
    <3>4. q \in Quants /\ q \in PickingQuants /\ reservation[q] \in Moves /\ q \notin V /\ q \notin T
      BY <2>1, <2>2
    <3> HIDE DEF A, B, V
    <3>5. CASE q \notin S
      <4>1. LinkFitting(o)[q][b] = b
        BY <3>2, <3>4, <3>5 DEF LinkFitting
      <4>2. V \cup (S \cap (T \cup {q})) = V \cup (S \cap T)
        BY <3>5
      <4>3. b \in Ready(V \cup (S \cap T), L)
        BY <3>2, <4>2 DEF Ready
      <4> QED BY <3>3, <4>1, <4>3
    <3>6. CASE q \in S
      <4>1. PICK U \in SUBSET Quants, W \in SUBSET Quants :
              /\ U = V \cup (S \cap (T \cup {q})) \cup L
              /\ W = V \cup (S \cap (T \cup {q}))
        BY <1>1, <2>2
      <4>2. W \ {q} = V \cup (S \cap T) /\ U \ {q} = (V \cup (S \cap T)) \cup L /\ q \in W /\ q \in U
        BY <3>4, <3>6, <4>1
      <4>3. /\ QuantsQty(W) = quants[q].qty + QuantsQty(W \ {q}) /\ QuantsQty(W \ {q}) \in Nat
            /\ quants[q].qty \in Nat /\ b.need \in Nat
        BY <3>2, <3>4, <4>2, QuantsRemove, QuantsNat, GivenFacts DEF Progress
      <4>4. PICK qty \in Nat : /\ qty = IF quants[q].qty < b.need THEN quants[q].qty ELSE b.need
                               /\ qty <= quants[q].qty /\ qty <= b.need
        BY <4>3
      <4>5. PICK next : next = LinkQuant(b, o, q, qty)
        OBVIOUS
      <4>6. AmplyLinked(b, next, qty, U, q)
        <5>1. Ample(b.left, U)
          BY <3>2, <4>1
        <5> QED BY <3>2, <3>4, <4>2, <4>4, <4>5, <5>1, AmpleLink
      <4>7. LinkFitting(o)[q][b] = next
        <5>1. q \notin packDone /\ Fits(o, q)
          BY <3>4, <3>6
        <5> QED BY <3>2, <3>4, <4>4, <4>5, <5>1 DEF LinkFitting
      <4>8. next.need <= QuantsQty(W \ {q})
        <5>1. b.need <= QuantsQty(W)
          BY <3>2, <4>1
        <5>2. next.need = b.need - qty
          BY <4>6 DEF AmplyLinked
        <5> QED BY <4>3, <4>4, <5>1, <5>2
      <4>9. next \in Progress /\ Ample(next.left, U \ {q})
        BY <4>6 DEF AmplyLinked
      <4>10. next \in Ready(V \cup (S \cap T), L)
        BY <4>2, <4>8, <4>9 DEF Ready
      <4> QED BY <3>3, <4>7, <4>10
    <3> QED BY <3>5, <3>6
  <2>7. acc \in B[R]
    <3> HIDE DEF A, B
    <3> QED BY <2>3
  <2>8. MoveTurn(o)[m][acc] \in B[{}]
    <3> HIDE DEF A, B, V
    <3> QED BY <2>5, <2>6, <2>7, QuantsLoop
  <2> HIDE DEF A, B
  <2> QED BY <2>4, <2>8
<1>4. LinkProductOp(o) \in A[{}]
  <2> HIDE DEF A
  <2> QED BY <1>2, <1>3, MovesLoop
<1>5. A[{}] = Ready(OnMoves(S, {}), L) /\ OnMoves(S, {}) = {}
  BY DEF OnMoves
<1> HIDE DEF A
<1>6. LinkProductOp(o) \in Ready({}, L) /\ {} \cup L = L
  BY <1>4, <1>5
<1>7. LinkProductOp(o).need <= 0 /\ LinkProductOp(o).need \in Nat /\ Ample(LinkProductOp(o).left, L)
  BY <1>6, QuantsNone DEF Ready, Progress
<1> QED BY <1>7

\* On the move m: what is needed beyond the quants V, its quants T have and it has left.
Going(V, W, m) ==
  {acc \in Progress : /\ acc.need <= QuantsQty(V) + QuantsQty(W)
                      /\ acc.need <= QuantsQty(V) + acc.left[m]
                      /\ Ample(acc.left, V)}

\* Sets apart have the quantities of both.
LEMMA QuantsApart ==
  ASSUME GivenInv, NEW S \in SUBSET Quants, NEW T \in SUBSET Quants, S \cap T = {}
  PROVE  QuantsQty(S \cup T) = QuantsQty(S) + QuantsQty(T)
<1> DEFINE w == [q \in Quants |-> quants[q].qty]
<1>1. IsFiniteSet(S) /\ IsFiniteSet(T) /\ \A q \in S \cup T : w[q] \in Int
  BY GivenFacts, QuantsNat
<1>2. \A U : QuantsQty(U) = SumFunctionOnSet(w, U)
  BY DEF QuantsQty
<1> HIDE DEF w
<1>3. SumFunctionOnSet(w, S \cup T) = SumFunctionOnSet(w, S) + SumFunctionOnSet(w, T)
  BY <1>1, SumUnion
<1> QED BY <1>2, <1>3

LEMMA GoingOn ==
  ASSUME GivenInv, NEW o \in Nat \ {0}, NEW m \in Moves, NEW V \in SUBSET Quants,
         NEW W \in SUBSET Quants, NEW q \in Quants, reservation[q] = m,
         \A x \in V : reservation[x] # m,
         NEW acc \in Going(V, W, m), q \in W => q \notin packDone /\ Fits(o, q)
  PROVE  LinkFitting(o)[q][acc] \in Going(V, W \ {q}, m)
<1>1. /\ acc \in Progress /\ acc.need <= QuantsQty(V) + QuantsQty(W)
      /\ acc.need <= QuantsQty(V) + acc.left[m] /\ Ample(acc.left, V)
  BY DEF Going
<1>2. /\ acc.need \in Nat /\ acc.left \in [Moves -> Nat] /\ quants[q].qty \in Nat
      /\ QuantsQty(V) \in Nat /\ QuantsQty(W) \in Nat /\ QuantsQty(W \ {q}) \in Nat
  BY <1>1, GivenFacts, QuantsNat DEF Progress
<1>3. IF q \in W THEN QuantsQty(W) = quants[q].qty + QuantsQty(W \ {q})
      ELSE QuantsQty(W) = QuantsQty(W \ {q})
  <2>1. CASE q \in W
    BY <2>1, QuantsRemove
  <2>2. CASE q \notin W
    <3>1. W \ {q} = W
      BY <2>2
    <3>2. QuantsQty(W \ {q}) = QuantsQty(W)
      BY <3>1, Zenon
    <3> QED BY <2>2, <3>2
  <2> QED BY <2>1, <2>2
<1>4. CASE q \in packDone \/ ~Fits(o, q)
  <2>1. LinkFitting(o)[q][acc] = acc
    BY <1>1, <1>4 DEF LinkFitting
  <2>2. QuantsQty(W) = QuantsQty(W \ {q})
    BY <1>3, <1>4
  <2> QED BY <1>1, <2>1, <2>2 DEF Going
<1>5. CASE ~ (q \in packDone \/ ~Fits(o, q))
  <2>1. PICK qty \in Nat : /\ qty = IF quants[q].qty < acc.need THEN quants[q].qty ELSE acc.need
                           /\ qty <= acc.need
    BY <1>2
  <2>2. PICK next : next = LinkMove(acc, o, m, qty, q)
    OBVIOUS
  <2>3. LinkFitting(o)[q][acc] = next
    BY <1>1, <1>5, <2>1, <2>2 DEF LinkFitting, LinkQuant
  <2>4. PICK d \in Nat : LinkedBy(acc, next, o, m, qty, q, d)
    BY <1>1, <2>1, <2>2, LinkMoveFacts
  <2>5. /\ d = IF acc.left[m] < qty THEN acc.left[m] ELSE qty
        /\ next \in Progress /\ next.need = acc.need - d /\ next.left[m] = acc.left[m] - d
        /\ \A n \in Moves \ {m} : next.left[n] = acc.left[n]
    BY <2>4 DEF LinkedBy
  <2>6. PICK v \in Nat, a \in Nat, n \in Nat, l \in Nat, x \in Nat :
          /\ v = QuantsQty(V) /\ a = QuantsQty(W \ {q}) /\ n = acc.need /\ l = acc.left[m]
          /\ x = quants[q].qty
    BY <1>2
  <2>7. n <= v + (x + a) /\ n <= v + l
    <3>1. QuantsQty(W) <= x + a
      BY <1>2, <1>3, <2>6
    <3> QED BY <1>1, <1>2, <2>6, <3>1
  <2>8. qty = (IF x < n THEN x ELSE n) /\ d = (IF l < qty THEN l ELSE qty)
    BY <2>1, <2>5, <2>6
  <2>9. n - d <= v + a /\ n - d <= v + (l - d)
    BY <2>7, <2>8
  <2>10. /\ next.need <= QuantsQty(V) + QuantsQty(W \ {q})
         /\ next.need <= QuantsQty(V) + next.left[m]
    BY <2>5, <2>6, <2>9
  <2>11. Ample(next.left, V)
    <3>1. ReservedFor(m) \cap V = {}
      BY DEF ReservedFor
    <3>2. QuantsQty(ReservedFor(m) \cap V) = 0
      BY <3>1, QuantsNone
    <3>3. next.left[m] \in Nat
      BY <2>5 DEF Progress
    <3> QED BY <1>1, <2>5, <3>2, <3>3 DEF Ample
  <2> QED BY <2>3, <2>5, <2>10, <2>11 DEF Going
<1> QED BY <1>4, <1>5

\* An operation that comes last finds enough for the quants it serves, even if it
\* fits others too.
LEMMA LastAmple ==
  ASSUME GivenInv, left \in [Moves -> Nat], links \in Seq(Links), NEW o \in Nat \ {0},
         InTable = Moves, ops[o].line = None,
         NEW S \in SUBSET PickingQuants, ops[o].qty = QuantsQty(S),
         \A q \in S : q \notin packDone /\ Fits(o, q), Ample(left, S)
  PROVE  LinkProductOp(o).need = 0
<1> DEFINE A == [M \in SUBSET Moves |-> Ready(OnMoves(S, M), {})]
<1>1. S \in SUBSET Quants /\ \A q \in S : q \in Quants /\ reservation[q] \in Moves
  BY DEF PickingQuants
<1>2. Linking(ops[o].qty) \in A[Moves]
  <2>1. OnMoves(S, Moves) = S /\ S \cup {} = S
    BY <1>1 DEF OnMoves
  <2>2. QuantsQty(S) \in Nat /\ QuantsQty(S) <= QuantsQty(S)
    BY <1>1, QuantsBelow
  <2>3. Ample(left, S \cup {}) /\ {} \in SUBSET Quants
    BY <2>1, Zenon
  <2>4. Linking(ops[o].qty) \in Ready(S, {})
    BY <1>1, <2>2, <2>3, ReadyStarts
  <2>5. A[Moves] = Ready(S, {})
    BY <2>1
  <2> QED BY <2>4, <2>5
<1>3. ASSUME NEW M \in SUBSET Moves, NEW m \in Moves \ M, NEW acc \in A[M \cup {m}]
      PROVE  MoveTurn(o)[m][acc] \in A[M]
  <2> DEFINE R == ReservedFor(m)
             V == OnMoves(S, M)
             B == [T \in SUBSET R |-> Going(V, S \cap T, m)]
  <2>1. R \in SUBSET Quants /\ \A q \in R : reservation[q] = m
    BY DEF ReservedFor
  <2>2. V \in SUBSET Quants /\ \A x \in V : reservation[x] # m
    BY <1>1 DEF OnMoves
  <2>3. /\ acc \in Progress /\ acc.need <= QuantsQty(OnMoves(S, M \cup {m}))
        /\ Ample(acc.left, OnMoves(S, M \cup {m}) \cup {})
    <3>1. M \cup {m} \in SUBSET Moves
      OBVIOUS
    <3> QED BY <3>1 DEF Ready
  <2> HIDE DEF A
  <2>4. PICK W \in SUBSET Quants, U \in SUBSET Quants :
          W = S \cap R /\ U = OnMoves(S, M \cup {m}) /\ U = V \cup W /\ V \cap W = {}
    <3>1. PICK W \in SUBSET Quants : W = S \cap R
      BY <1>1
    <3>2. PICK U \in SUBSET Quants : U = OnMoves(S, M \cup {m})
      BY <1>1 DEF OnMoves
    <3>3. \A q \in S : q \in R <=> reservation[q] = m
      BY <1>1 DEF ReservedFor
    <3>4. /\ \A q : q \in U <=> (q \in S /\ (reservation[q] \in M \/ reservation[q] = m))
          /\ \A q : q \in V <=> (q \in S /\ reservation[q] \in M)
          /\ \A q : q \in W <=> (q \in S /\ reservation[q] = m)
      BY <3>1, <3>2, <3>3 DEF OnMoves
    <3> HIDE DEF V, R
    <3>5. U = V \cup W
      BY <3>4
    <3>6. V \cap W = {}
      BY <3>4
    <3> QED BY <3>1, <3>2, <3>5, <3>6
  <2>5. /\ QuantsQty(U) = QuantsQty(V) + QuantsQty(W) /\ QuantsQty(V) \in Nat /\ QuantsQty(W) \in Nat
    <3>1. QuantsQty(V \cup W) = QuantsQty(V) + QuantsQty(W)
      <4> HIDE DEF V
      <4> QED BY <2>2, <2>4, QuantsApart
    <3> QED BY <2>2, <2>4, <3>1, QuantsNat
  <2>6. Ample(acc.left, U)
    <3>1. OnMoves(S, M \cup {m}) \cup {} = U
      BY <2>4
    <3> QED BY <2>3, <3>1, Zenon
  <2>7. acc \in B[R]
    <3>1. QuantsQty(W) <= acc.left[m]
      <4>1. R \cap U = W
        BY <2>1, <2>2, <2>4
      <4>2. QuantsQty(R \cap U) <= acc.left[m]
        BY <2>6 DEF Ample
      <4>3. QuantsQty(R \cap U) = QuantsQty(W)
        BY <4>1, Zenon
      <4> QED BY <4>2, <4>3
    <3>2. Ample(acc.left, V)
      <4>1. ASSUME NEW n \in Moves
            PROVE  QuantsQty(ReservedFor(n) \cap V) <= acc.left[n]
        <5>1. PICK X \in SUBSET Quants : X = ReservedFor(n) \cap U
          OBVIOUS
        <5>a. PICK Y \in SUBSET X : Y = ReservedFor(n) \cap V
          <6> HIDE DEF V
          <6> QED BY <2>4, <5>1
        <5>2. QuantsQty(Y) <= QuantsQty(X) /\ QuantsQty(X) \in Nat /\ QuantsQty(Y) \in Nat
          BY QuantsBelow
        <5>3. QuantsQty(X) <= acc.left[n]
          BY <2>6, <5>1 DEF Ample
        <5>4. acc.left[n] \in Nat
          BY <2>3 DEF Progress
        <5> QED BY <5>a, <5>2, <5>3, <5>4
      <4> QED BY <4>1 DEF Ample
    <3>3. acc.left[m] \in Nat /\ acc.need \in Nat
      BY <2>3 DEF Progress
    <3>4. acc.need <= QuantsQty(V) + QuantsQty(W) /\ acc.need <= QuantsQty(V) + acc.left[m]
      <4>1. acc.need <= QuantsQty(U)
        BY <2>3, <2>4
      <4> HIDE DEF V
      <4> QED BY <2>5, <3>1, <3>3, <4>1
    <3>5. acc \in Going(V, W, m)
      BY <2>3, <3>2, <3>4 DEF Going
    <3> QED BY <2>4, <3>5
  <2>8. ASSUME NEW T \in SUBSET R, NEW q \in R \ T, NEW b \in B[T \cup {q}]
        PROVE  LinkFitting(o)[q][b] \in B[T]
    <3>1. T \cup {q} \in SUBSET R
      OBVIOUS
    <3>2. PICK X \in SUBSET Quants : X = S \cap (T \cup {q})
      BY <1>1
    <3>3. b \in Going(V, X, m)
      BY <3>1, <3>2
    <3>4. X \ {q} = S \cap T
      BY <3>2
    <3>5. B[T] = Going(V, S \cap T, m)
      OBVIOUS
    <3>6. q \in Quants /\ reservation[q] = m
      BY <2>1
    <3>7. q \in X => q \notin packDone /\ Fits(o, q)
      BY <3>2
    <3> HIDE DEF B, V
    <3>8. LinkFitting(o)[q][b] \in Going(V, X \ {q}, m)
      BY <2>2, <3>3, <3>6, <3>7, GoingOn
    <3> QED BY <3>4, <3>5, <3>8
  <2>9. MoveTurn(o)[m][acc] \in B[{}]
    <3> HIDE DEF B, V
    <3> QED BY <2>3, <2>7, <2>8, QuantsLoop
  <2>10. MoveTurn(o)[m][acc] \in Going(V, {}, m)
    <3>1. S \cap {} = {} /\ {} \in SUBSET R
      OBVIOUS
    <3> QED BY <2>9, <3>1
  <2>11. MoveTurn(o)[m][acc] \in Ready(V, {})
    <3>1. V \cup {} = V
      OBVIOUS
    <3>2. QuantsQty(V) + QuantsQty({}) = QuantsQty(V)
      BY <2>5, QuantsNone
    <3> HIDE DEF V, B
    <3> QED BY <2>10, <3>1, <3>2 DEF Going, Ready
  <2>12. A[M] = Ready(V, {})
    BY DEF A
  <2> QED BY <2>11, <2>12
<1>4. LinkProductOp(o) \in A[{}]
  <2> HIDE DEF A
  <2> QED BY <1>2, <1>3, MovesLoop
<1>5. A[{}] = Ready(OnMoves(S, {}), {}) /\ OnMoves(S, {}) = {}
  BY DEF OnMoves
<1> HIDE DEF A
<1>6. LinkProductOp(o) \in Ready({}, {})
  BY <1>4, <1>5
<1>7. LinkProductOp(o).need <= 0 /\ LinkProductOp(o).need \in Nat
  BY <1>6, QuantsNone DEF Ready, Progress
<1> QED BY <1>7

-----------------------------------------------------------------------------
(* The computation on the operations that are prepared *)

PreparedInv == prepared /\ NoLine => PreparedRow(ops)

\* Nothing is forced and no package is opened.
Direct == /\ prepared /\ NoLine
          /\ ForcedQty = 0
          /\ \A q \in LooseQuants : quants[q].pack = None

\* The quants of the operations that wait
Awaited == UNION {ServedBy(ops[todo[i]]) : i \in DOMAIN todo}

\* Nothing is deferred, as the moves keep what the operations that wait are to find.
DirectInv ==
  Direct =>
    /\ pc = "quants" => /\ \A q \in packDone : quants[q].pack # None
                        /\ Ample(left, Awaited)
    /\ pc \in {"quants", "rest", "done"} => still_to_do = <<>> /\ ~need_rereserve

LEMMA PreparedKept ==
  ASSUME UNCHANGED given
  PROVE  /\ (NoLine <=> NoLine') /\ ForcedQty' = ForcedQty /\ LooseQuants' = LooseQuants
         /\ \A op : ServedBy(op)' = ServedBy(op)
         /\ PreparedOps' = PreparedOps
<1>1. moves' = moves /\ quants' = quants /\ reservation' = reservation
  BY DEF given
<1>2. Moves' = Moves /\ Quants' = Quants
  BY <1>1 DEF Moves, Quants
<1>3. NoLine <=> NoLine'
  BY <1>1, <1>2 DEF NoLine, HasLine
<1>4. PickingQuants' = PickingQuants /\ (\A p : Content(p)' = Content(p))
  BY <1>1, <1>2 DEF PickingQuants, Content
<1>5. \A p : MovedWhole(p) <=> MovedWhole(p)'
  BY <1>4 DEF MovedWhole
<1>6. TopLevelPackages' = TopLevelPackages
  BY <1>5 DEF TopLevelPackages
<1>7. LooseQuants' = LooseQuants
  BY <1>4, <1>6 DEF LooseQuants
<1>8. \A m : ReservedQty(m)' = ReservedQty(m)
  BY <1>1, <1>2 DEF ReservedQty, ReservedFor, QuantsQty
<1>9. \A m : Assigned(m) <=> Assigned(m)'
  BY <1>1, <1>8 DEF Assigned
<1>10. ForcedQty' = ForcedQty
  BY <1>1, <1>2, <1>8, <1>9 DEF ForcedQty
<1>11. \A op : ServedBy(op)' = ServedBy(op)
  BY <1>1, <1>4, <1>7 DEF ServedBy
<1>12. Groups' = Groups
  BY <1>1, <1>7, <1>10 DEF Groups
<1>13. \A g : GroupQty(g)' = GroupQty(g)
  BY <1>1, <1>2, <1>7, <1>10 DEF GroupQty, QuantsQty
<1>14. \A g : PreparedOp(g)' = PreparedOp(g)
  BY <1>13 DEF PreparedOp
<1>15. PreparedOps' = PreparedOps
  BY <1>6, <1>12, <1>14 DEF PreparedOps, WholePackage
<1> QED BY <1>3, <1>7, <1>10, <1>11, <1>15

LEMMA DirectKept ==
  ASSUME UNCHANGED given, prepared' = prepared
  PROVE  Direct <=> Direct'
<1>1. quants' = quants
  BY DEF given
<1> QED BY <1>1, PreparedKept DEF Direct

LEMMA AmpleKept ==
  ASSUME UNCHANGED given, NEW table, left' = table, NEW L, Awaited' = L, Ample(table, L)
  PROVE  Ample(left, Awaited)'
<1>1. moves' = moves /\ quants' = quants /\ reservation' = reservation
  BY DEF given
<1>2. Moves' = Moves /\ Quants' = Quants
  BY <1>1 DEF Moves, Quants
<1>3. \A m : ReservedFor(m)' = ReservedFor(m)
  BY <1>1, <1>2 DEF ReservedFor
<1>4. \A S : QuantsQty(S)' = QuantsQty(S)
  BY <1>1, <1>2 DEF QuantsQty
<1>5. \A m \in Moves : QuantsQty(ReservedFor(m) \cap L) <= table[m]
  BY DEF Ample
<1>6. \A m \in Moves' : QuantsQty(ReservedFor(m) \cap Awaited)' <= left'[m]
  <2> SUFFICES ASSUME NEW m \in Moves PROVE QuantsQty(ReservedFor(m) \cap Awaited)' <= left'[m]
    BY <1>2
  <2>1. PICK S : S = ReservedFor(m) \cap L
    OBVIOUS
  <2>2. (ReservedFor(m) \cap Awaited)' = S
    BY <1>3, <2>1
  <2>3. QuantsQty(ReservedFor(m) \cap Awaited)' = QuantsQty(S)
    BY <1>1, <1>2, <2>2 DEF QuantsQty
  <2> QED BY <1>5, <2>1, <2>3
<1> QED BY <1>6 DEF Ample

LEMMA PreparedRowKept ==
  ASSUME UNCHANGED given, UNCHANGED ops, UNCHANGED prepared, PreparedInv
  PROVE  PreparedInv'
<1>1. PreparedOps' = PreparedOps /\ (NoLine <=> NoLine')
  BY PreparedKept
<1>2. ops' = ops /\ prepared' = prepared
  OBVIOUS
<1>3. PreparedRow(ops) => PreparedRow(ops)'
  BY <1>1, <1>2 DEF PreparedRow
<1> QED BY <1>1, <1>2, <1>3 DEF PreparedInv

LEMMA PreparedPrime ==
  ASSUME UNCHANGED given, NoLine, NEW row, ops' = row, PreparedRow(row)
  PROVE  PreparedInv'
<1>1. PreparedOps' = PreparedOps
  BY PreparedKept
<1>2. PreparedRow(ops)'
  BY <1>1 DEF PreparedRow
<1> QED BY <1>2 DEF PreparedInv

\* The operations that wait after the first one serve others' quants.
LEMMA AwaitedFacts ==
  ASSUME Inv, PreparedRow(ops), pc = "quants", todo # <<>>, NEW o, o = Head(todo),
         NEW L, L = UNION {ServedBy(ops[Tail(todo)[i]]) : i \in DOMAIN Tail(todo)}
  PROVE  /\ o \in DOMAIN ops /\ ops[o] \in PreparedOps
         /\ Awaited = ServedBy(ops[o]) \cup L
         /\ L \in SUBSET Quants
         /\ L \cap ServedBy(ops[o]) = {}
         /\ (\A n \in DOMAIN ops \ {o} : OpWeight(n) < OpWeight(o)) => L = {}
<1> DEFINE rest == Tail(todo)
<1>1. /\ GivenInv /\ o \in DOMAIN ops /\ \A n \in DOMAIN ops : ops[n] \in PreparedOps
      /\ Waiting(o) /\ rest \in Seq(DOMAIN ops)
      /\ \A k \in DOMAIN todo : OpWeight(o) <= OpWeight(todo[k])
      /\ \A u : (\E k \in DOMAIN rest : rest[k] = u) <=> (Waiting(u) /\ u # o)
  BY HeadFacts, OpsSound DEF PreparedRow
<1>2. todo \in Seq(DOMAIN ops)
  BY DEF Inv, TypeOK
<1>3. \A k \in DOMAIN todo : todo[k] \in DOMAIN ops
  BY <1>2
<1> HIDE DEF rest
<1>4. \A q : q \in L <=> \E k \in DOMAIN rest : q \in ServedBy(ops[rest[k]])
  BY DEF rest
<1>5. \A q : q \in Awaited <=> \E k \in DOMAIN todo : q \in ServedBy(ops[todo[k]])
  BY DEF Awaited
<1>6. \A k \in DOMAIN rest : rest[k] \in DOMAIN ops /\ rest[k] # o
  BY <1>1
<1>7. \A n \in DOMAIN ops \ {o} : ServedBy(ops[n]) \cap ServedBy(ops[o]) = {}
  <2> TAKE n \in DOMAIN ops \ {o}
  <2>1. ops[n] # ops[o]
    BY <1>1 DEF PreparedRow
  <2> QED BY <1>1, <2>1, ServedApart
<1>8. \A n \in DOMAIN ops : ServedBy(ops[n]) \subseteq Quants
  BY <1>1, PreparedFacts DEF PickingQuants
<1>9. L \in SUBSET Quants /\ L \cap ServedBy(ops[o]) = {}
  BY <1>4, <1>6, <1>7, <1>8
<1>10. Awaited = ServedBy(ops[o]) \cup L
  <2>1. ASSUME NEW q \in Awaited PROVE q \in ServedBy(ops[o]) \cup L
    <3>1. PICK k \in DOMAIN todo : q \in ServedBy(ops[todo[k]])
      BY <1>5
    <3>2. CASE todo[k] = o
      BY <3>1, <3>2
    <3>3. CASE todo[k] # o
      <4>1. Waiting(todo[k])
        BY DEF Waiting
      <4>2. \E j \in DOMAIN rest : rest[j] = todo[k]
        BY <1>1, <3>3, <4>1
      <4> QED BY <1>4, <3>1, <4>2
    <3> QED BY <3>2, <3>3
  <2>2. ASSUME NEW q \in ServedBy(ops[o]) PROVE q \in Awaited
    BY <1>1, <1>5 DEF Waiting
  <2>3. ASSUME NEW q \in L PROVE q \in Awaited
    <3>1. PICK k \in DOMAIN rest : q \in ServedBy(ops[rest[k]])
      BY <1>4
    <3>2. Waiting(rest[k])
      BY <1>1
    <3> QED BY <1>5, <3>1, <3>2 DEF Waiting
  <2> QED BY <2>1, <2>2, <2>3
<1>11. ASSUME \A n \in DOMAIN ops \ {o} : OpWeight(n) < OpWeight(o), NEW q \in L
       PROVE  FALSE
  <2>1. PICK k \in DOMAIN rest : q \in ServedBy(ops[rest[k]])
    BY <1>4
  <2>2. PICK j \in DOMAIN todo : todo[j] = rest[k]
    BY <1>1 DEF Waiting
  <2>3. OpWeight(o) <= OpWeight(rest[k]) /\ OpWeight(rest[k]) < OpWeight(o)
    BY <1>1, <1>6, <1>11, <2>2
  <2>4. OpWeight(o) \in Int /\ OpWeight(rest[k]) \in Int
    BY DEF OpWeight
  <2> QED BY <2>3, <2>4
<1> QED BY <1>1, <1>9, <1>10, <1>11

\* Whom an operation on products serves when nothing is forced and no package is opened
LEMMA DirectOp ==
  ASSUME Inv, Direct, DirectInv, pc = "quants", PreparedRow(ops),
         NEW o \in DOMAIN ops, ~ops[o].whole
  PROVE  /\ ops[o].line = None /\ ops[o].pack = None
         /\ ServedBy(ops[o]) \in SUBSET PickingQuants
         /\ ops[o].qty = QuantsQty(ServedBy(ops[o]))
         /\ \A q \in ServedBy(ops[o]) : q \notin packDone /\ Fits(o, q)
         /\ ops[o].lot # None =>
              \A q \in PickingQuants : (q \notin packDone /\ Fits(o, q)) <=> q \in ServedBy(ops[o])
         /\ ops[o].lot = None => \A n \in DOMAIN ops \ {o} : OpWeight(n) < OpWeight(o)
<1> DEFINE S == ServedBy(ops[o])
<1>1. GivenInv /\ ops[o] \in PreparedOps
  BY OpsSound DEF PreparedRow
<1>2. /\ ops[o].line = None
      /\ ops[o] = PreparedOp([pack |-> ops[o].pack, lot |-> ops[o].lot])
      /\ [pack |-> ops[o].pack, lot |-> ops[o].lot] \in Groups
      /\ ops[o].qty = QuantsQty(ServedBy(ops[o])) + Extra(ops[o])
      /\ ServedBy(ops[o]) \subseteq PickingQuants
  BY <1>1, PreparedFacts
<1>3. ops[o].pack = None
  <2>1. PICK g : g = [pack |-> ops[o].pack, lot |-> ops[o].lot]
    OBVIOUS
  <2>2. g \in Groups /\ ~ (ForcedQty > 0)
    BY <1>2, <2>1 DEF Direct
  <2>3. g \in {[pack |-> quants[q].pack, lot |-> quants[q].lot] : q \in LooseQuants}
    BY <2>2 DEF Groups
  <2>4. PICK q \in LooseQuants : g = [pack |-> quants[q].pack, lot |-> quants[q].lot]
    BY <2>3
  <2>5. ops[o].pack = quants[q].pack
    <3>1. g.pack = ops[o].pack
      BY <2>1
    <3>2. g.pack = quants[q].pack
      BY <2>4
    <3> QED BY <3>1, <3>2
  <2> QED BY <2>5 DEF Direct
<1>4. ops[o].qty = QuantsQty(S)
  <2>1. Extra(ops[o]) = 0
    BY DEF Extra, Direct
  <2>2. QuantsQty(S) \in Nat
    <3>1. S \in SUBSET Quants
      BY <1>2 DEF PickingQuants
    <3> HIDE DEF S
    <3> QED BY <1>1, <3>1, QuantsNat
  <2> QED BY <1>2, <2>1, <2>2
<1>5. S = {q \in LooseQuants : quants[q].pack = None /\ quants[q].lot = ops[o].lot}
  BY <1>3 DEF ServedBy
<1>6. \A q \in packDone : quants[q].pack # None
  BY DEF DirectInv
<1>7. \A q \in S : q \notin packDone /\ Fits(o, q)
  <2> HIDE DEF S
  <2> QED BY <1>3, <1>5, <1>6 DEF Fits
<1>8. ASSUME NEW q \in PickingQuants, quants[q].pack = None
      PROVE  q \in LooseQuants
  <2>1. \A p : q \notin Content(p)
    BY <1>8 DEF Content, Within
  <2> QED BY <2>1 DEF LooseQuants
<1>9. ASSUME ops[o].lot # None, NEW q \in PickingQuants, q \notin packDone, Fits(o, q)
      PROVE  q \in S
  <2>1. quants[q].pack = None /\ quants[q].lot = ops[o].lot
    BY <1>3, <1>9 DEF Fits
  <2> HIDE DEF S
  <2> QED BY <1>5, <1>8, <2>1
<1>10. ASSUME ops[o].lot = None, NEW n \in DOMAIN ops \ {o}
       PROVE  OpWeight(n) < OpWeight(o)
  <2>1. OpWeight(o) = 0
    BY <1>2, <1>3, <1>10 DEF OpWeight
  <2>2. ops[n] # ops[o] /\ ops[n] \in PreparedOps
    BY DEF PreparedRow
  <2>3. ops[n].whole \/ ops[n].pack # None \/ ops[n].lot # None
    <3>1. ASSUME ~ops[n].whole, ops[n].pack = None, ops[n].lot = None
          PROVE  FALSE
      <4>1. ops[n] = PreparedOp([pack |-> ops[n].pack, lot |-> ops[n].lot])
        BY <1>1, <2>2, <3>1, PreparedFacts
      <4> QED BY <1>2, <1>3, <1>10, <2>2, <3>1, <4>1
    <3> QED BY <3>1
  <2>4. OpWeight(n) < 0
    BY <2>3 DEF OpWeight
  <2> QED BY <2>1, <2>4
<1> QED BY <1>2, <1>3, <1>4, <1>7, <1>9, <1>10

LEMMA DirectTurn ==
  ASSUME Inv, PreparedInv, DirectInv, ProcessOperation
  PROVE  DirectInv'
<1> SUFFICES ASSUME Direct' PROVE DirectInv'
  BY DEF DirectInv
<1>1. /\ pc = "quants" /\ todo # <<>> /\ todo' = Tail(todo)
      /\ UNCHANGED given /\ ops' = ops /\ prepared' = prepared /\ pc' = pc
  BY DEF ProcessOperation, given
<1>2. Direct
  BY <1>1, DirectKept
<1>3. /\ GivenInv /\ PreparedRow(ops) /\ InTable = Moves /\ Ample(left, Awaited)
      /\ still_to_do = <<>> /\ ~need_rereserve /\ \A q \in packDone : quants[q].pack # None
  BY <1>1, <1>2 DEF Inv, PreparedInv, DirectInv, Direct, InTable, NoLine
<1>4. PICK o : o = Head(todo)
  OBVIOUS
<1>5. PICK L : L = UNION {ServedBy(ops[Tail(todo)[i]]) : i \in DOMAIN Tail(todo)}
  OBVIOUS
<1>6. PICK S : S = ServedBy(ops[o])
  OBVIOUS
<1>7. /\ o \in DOMAIN ops /\ ops[o] \in PreparedOps
      /\ Awaited = S \cup L /\ L \in SUBSET Quants /\ L \cap S = {}
      /\ (\A n \in DOMAIN ops \ {o} : OpWeight(n) < OpWeight(o)) => L = {}
  BY <1>1, <1>3, <1>4, <1>5, <1>6, AwaitedFacts
<1>8. Ample(left, S \cup L)
  BY <1>3, <1>7, Zenon
<1>9. Awaited' = L
  <2>1. LooseQuants' = LooseQuants /\ (\A p : Content(p)' = Content(p)) /\ quants' = quants
    BY <1>1, GivenKept, PreparedKept DEF given
  <2> QED BY <1>1, <1>5, <2>1 DEF Awaited, ServedBy
<1>10. /\ left \in [Moves -> Nat] /\ links \in Seq(Links) /\ o \in Nat \ {0}
  BY <1>7, ComputationTyped, OpsSound
<1>11. quants' = quants
  BY <1>1 DEF given
<1>12. ASSUME NEW table, left' = table, Ample(table, L), Defer(<<>>),
              \A q \in packDone' : quants[q].pack # None
       PROVE  DirectInv'
  <2>1. Ample(left, Awaited)'
    BY <1>1, <1>9, <1>12, AmpleKept
  <2>2. still_to_do' = <<>> /\ ~need_rereserve'
    <3>1. still_to_do' = <<>> \o <<>>
      BY <1>3, <1>12 DEF Defer
    <3>2. <<>> \o <<>> = <<>>
      OBVIOUS
    <3>3. ~need_rereserve'
      BY <1>3, <1>12, Zenon DEF Defer
    <3> QED BY <3>1, <3>2, <3>3
  <2> QED BY <1>11, <1>12, <2>1, <2>2 DEF DirectInv
<1>13. CASE ProcessPackage(o)
  <2>1. PICK acc : acc = LinkPackageOp(o)
    OBVIOUS
  <2>2. /\ ops[o].whole /\ left' = acc.left /\ Defer(acc.rest)
        /\ packDone' = packDone \cup {q \in Content(ops[o].pack) : reservation[q] # None}
    BY <1>13, <2>1 DEF ProcessPackage
  <2>3. S = Content(ops[o].pack) /\ S \subseteq PickingQuants
    BY <1>3, <1>6, <1>7, <2>2, PreparedFacts DEF ServedBy
  <2>4. acc.rest = <<>> /\ Ample(acc.left, L)
    BY <1>3, <1>7, <1>8, <1>10, <2>1, <2>3, WholeAmple
  <2>5. \A q \in packDone' : quants[q].pack # None
    BY <1>3, <2>2 DEF Content, Within
  <2> QED BY <1>12, <2>2, <2>4, <2>5
<1>14. CASE ProcessProduct(o)
  <2>1. PICK acc : acc = LinkProductOp(o)
    OBVIOUS
  <2>2. /\ ~ops[o].whole /\ left' = acc.left /\ packDone' = packDone
        /\ acc.need = 0 => Defer(<<>>)
    BY <1>14, <2>1 DEF ProcessProduct
  <2>3. /\ ops[o].line = None
        /\ S \in SUBSET PickingQuants
        /\ ops[o].qty = QuantsQty(S)
        /\ \A q \in S : q \notin packDone /\ Fits(o, q)
        /\ ops[o].lot # None =>
             \A q \in PickingQuants : (q \notin packDone /\ Fits(o, q)) <=> q \in S
        /\ ops[o].lot = None => \A n \in DOMAIN ops \ {o} : OpWeight(n) < OpWeight(o)
    BY <1>1, <1>2, <1>3, <1>6, <1>7, <2>2, DirectOp
  <2>4. acc.need = 0 /\ Ample(acc.left, L)
    <3>1. CASE ops[o].lot # None
      <4>1. \A q \in PickingQuants : (q \notin packDone /\ Fits(o, q)) <=> q \in S
        BY <2>3, <3>1
      <4> QED BY <1>3, <1>7, <1>8, <1>10, <2>1, <2>3, <4>1, LotAmple
    <3>2. CASE ops[o].lot = None
      <4>1. L = {}
        BY <1>7, <2>3, <3>2
      <4>2. Ample(left, S)
        <5>1. S \cup L = S
          BY <4>1
        <5> QED BY <1>8, <5>1, Zenon
      <4>3. acc.need = 0
        BY <1>3, <1>7, <1>10, <2>1, <2>3, <4>2, LastAmple
      <4>4. Ample(acc.left, {})
        <5>1. acc.left \in [Moves -> Nat]
          <6>1. ops[o].qty \in Nat
            BY <1>7, OpsSound DEF Operations
          <6>2. acc \in Work(o, ops[o].qty, ProductLinks(o))
            BY <1>3, <1>10, <2>1, <6>1, LinkProductWorks
          <6> QED BY <6>2 DEF Work, Progress
        <5>2. \A m : QuantsQty(ReservedFor(m) \cap {}) = 0
          <6>1. \A m : ReservedFor(m) \cap {} = {}
            OBVIOUS
          <6> QED BY <6>1, QuantsNone
        <5> QED BY <5>1, <5>2 DEF Ample
      <4> QED BY <4>1, <4>3, <4>4
    <3> QED BY <3>1, <3>2
  <2>5. \A q \in packDone' : quants[q].pack # None
    BY <1>3, <2>2
  <2> QED BY <1>12, <2>2, <2>4, <2>5
<1> QED BY <1>4, <1>13, <1>14 DEF ProcessOperation

LEMMA DirectRecompute ==
  ASSUME Inv, PreparedInv, Recompute
  PROVE  DirectInv'
<1> SUFFICES ASSUME Direct' PROVE DirectInv'
  BY DEF DirectInv
<1>1. /\ UNCHANGED given /\ prepared' = prepared /\ ops' = ops /\ pc' = "quants"
      /\ packDone' = {} /\ still_to_do' = <<>> /\ need_rereserve' = FALSE
      /\ left' = [m \in Moves |-> IF m \in InTable THEN moves[m].qty ELSE 0]
      /\ todo' = OpOrder
  BY DEF Recompute, given
<1>2. Direct /\ GivenInv
  BY <1>1, DirectKept DEF Inv
<1>3. PICK table : table = left'
  OBVIOUS
<1>4. \A m \in Moves : table[m] = moves[m].qty
  BY <1>1, <1>2, <1>3 DEF Direct, InTable, NoLine
<1>5. PICK L : L = Awaited'
  OBVIOUS
<1>6. Ample(table, L)
  <2>1. ASSUME NEW m \in Moves
        PROVE  QuantsQty(ReservedFor(m) \cap L) <= table[m]
    <3>1. PICK R \in SUBSET Quants : R = ReservedFor(m)
      BY DEF ReservedFor
    <3>2. R \cap L \in SUBSET R
      OBVIOUS
    <3>3. PICK T \in SUBSET R : T = R \cap L
      BY <3>2
    <3>4. QuantsQty(T) <= QuantsQty(R) /\ QuantsQty(R) \in Nat /\ QuantsQty(T) \in Nat
      BY <1>2, QuantsBelow
    <3>5. QuantsQty(R) <= moves[m].qty /\ moves[m].qty \in Nat
      BY <1>2, <3>1, GivenFacts DEF GivenInv, ReservedQty
    <3>6. QuantsQty(T) <= moves[m].qty
      BY <3>4, <3>5
    <3> QED BY <1>4, <3>1, <3>3, <3>6
  <2> QED BY <2>1 DEF Ample
<1>7. Ample(left, Awaited)'
  BY <1>1, <1>3, <1>5, <1>6, AmpleKept
<1> QED BY <1>1, <1>7 DEF DirectInv

LEMMA PreparedNext ==
  ASSUME Inv, PreparedInv, DirectInv, [Next]_vars
  PROVE  PreparedInv' /\ DirectInv'
<1>1. CASE Prepare
  <2>1. UNCHANGED given /\ pc' \in {"idle", "start"} /\ GivenInv
    BY <1>1 DEF Prepare, Inv, given
  <2>2. PreparedInv'
    <3>1. CASE NoLine
      <4>1. PICK packs \in SetToSeqs(TopLevelPackages), groups \in SetToSeqs(Groups) :
              ops' = AddPackopValues([i \in DOMAIN packs |-> WholePackage(packs[i])],
                                     [i \in DOMAIN groups |-> PreparedOp(groups[i])])
        BY <1>1 DEF Prepare
      <4>2. PICK row : row = AddPackopValues([i \in DOMAIN packs |-> WholePackage(packs[i])],
                                             [i \in DOMAIN groups |-> PreparedOp(groups[i])])
        OBVIOUS
      <4>3. PreparedRow(row)
        BY <2>1, <3>1, <4>2, RowPrepared
      <4> QED BY <2>1, <3>1, <4>1, <4>2, <4>3, PreparedPrime
    <3>2. CASE ~NoLine
      BY <2>1, <3>2, PreparedKept DEF PreparedInv
    <3> QED BY <3>1, <3>2
  <2> QED BY <2>1, <2>2 DEF DirectInv
<1>2. CASE ChangeQty \/ AddProductOp \/ AddPackageOp
  <2>1. prepared' = FALSE
    BY <1>2 DEF ChangeQty, AddProductOp, AddPackageOp, Edit
  <2> QED BY <2>1 DEF PreparedInv, DirectInv, Direct
<1>3. CASE Recompute
  <2>1. UNCHANGED given /\ UNCHANGED ops /\ UNCHANGED prepared
    BY <1>3 DEF Recompute
  <2> QED BY <1>3, <2>1, PreparedRowKept, DirectRecompute
<1>4. CASE ProcessOperation
  <2>1. UNCHANGED given /\ UNCHANGED ops /\ UNCHANGED prepared
    BY <1>4 DEF ProcessOperation
  <2> QED BY <1>4, <2>1, PreparedRowKept, DirectTurn
<1>5. CASE StartRest \/ Return
  <2>1. /\ UNCHANGED given /\ UNCHANGED ops /\ UNCHANGED prepared
        /\ pc \in {"quants", "rest"} /\ pc' \in {"rest", "done"}
        /\ still_to_do' = still_to_do /\ need_rereserve' = need_rereserve
    BY <1>5 DEF StartRest, Return, recomputed
  <2>2. Direct' => Direct
    BY <2>1, DirectKept
  <2> QED BY <2>1, <2>2, PreparedRowKept DEF DirectInv
<1>6. CASE ProcessRest
  <2>1. /\ UNCHANGED given /\ UNCHANGED ops /\ UNCHANGED prepared
        /\ pc = "rest" /\ still_to_do # <<>>
    BY <1>6 DEF ProcessRest
  <2>2. ~Direct'
    BY <2>1, DirectKept DEF DirectInv
  <2> QED BY <2>1, <2>2, PreparedRowKept DEF DirectInv
<1>7. CASE UNCHANGED vars
  <2>1. /\ UNCHANGED given /\ UNCHANGED ops /\ UNCHANGED prepared
        /\ pc' = pc /\ still_to_do' = still_to_do /\ need_rereserve' = need_rereserve
        /\ packDone' = packDone /\ left' = left /\ todo' = todo /\ quants' = quants
    BY <1>7 DEF vars, given
  <2>2. Direct' => Direct
    BY <2>1, DirectKept
  <2>3. ASSUME Ample(left, Awaited) PROVE Ample(left, Awaited)'
    <3>1. LooseQuants' = LooseQuants /\ (\A p : Content(p)' = Content(p))
      BY <2>1, GivenKept, PreparedKept
    <3>2. Awaited' = Awaited
      BY <2>1, <3>1 DEF Awaited, ServedBy
    <3>3. PICK table, L : table = left /\ L = Awaited
      OBVIOUS
    <3> QED BY <2>1, <2>3, <3>2, <3>3, AmpleKept
  <2> QED BY <2>1, <2>2, <2>3, PreparedRowKept DEF DirectInv
<1> QED BY <1>1, <1>2, <1>3, <1>4, <1>5, <1>6, <1>7 DEF Next

\* The operations that do_prepare_partial proposes for a picking without sale lines
\* carry what is reserved or forced and are linked in full, whatever the packages and
\* the lots and in whatever order they come; and there is no need to reserve again when
\* nothing is forced and no package is opened.
THEOREM PreparedAsReserved == Spec => []PreparedIsReserved
<1>1. Init => PreparedInv /\ DirectInv
  BY DEF Init, PreparedInv, DirectInv, Direct
<1>2. Inv /\ PreparedInv /\ DirectInv /\ [Next]_vars => (PreparedInv /\ DirectInv)'
  BY PreparedNext
<1>3. Inv /\ PreparedInv /\ DirectInv => PreparedIsReserved
  <2> SUFFICES ASSUME Inv, PreparedInv, DirectInv, pc = "done", prepared,
                      \A m \in Moves : ~HasLine(m)
               PROVE  /\ SumFunction([o \in DOMAIN ops |-> OpQty(o)])
                           = QuantsQty(PickingQuants) + ForcedQty
                      /\ all_op_processed
                      /\ ForcedQty = 0 /\ (\A q \in LooseQuants : quants[q].pack = None) =>
                           ~need_rereserve
    BY DEF PreparedIsReserved
  <2>1. NoLine /\ PreparedRow(ops)
    BY DEF NoLine, PreparedInv
  <2>2. SumFunction([o \in DOMAIN ops |-> OpQty(o)]) = QuantsQty(PickingQuants) + ForcedQty
    BY <2>1, PreparedTotal DEF SumFunction
  <2>3. all_op_processed
    BY <2>1, PreparedProcessed
  <2>4. ForcedQty = 0 /\ (\A q \in LooseQuants : quants[q].pack = None) => ~need_rereserve
    BY <2>1 DEF DirectInv, Direct
  <2> QED BY <2>2, <2>3, <2>4
<1> QED BY <1>1, <1>2, <1>3, Invariant, PTL DEF Spec
=============================================================================
