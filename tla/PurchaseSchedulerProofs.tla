----------------------- MODULE PurchaseSchedulerProofs ------------------------
(***************************************************************************)
(* Proofs about PurchaseScheduler, for all needs, packagings, minimums and *)
(* numbers of launches, receptions and changes: types, running             *)
(* procurements are on lines, and splits lose no quantity.  Also what the  *)
(* fold over the lines, compute_which_procs_for_lines, makes of the open   *)
(* procurements; and then, what a launch achieves that nothing disturbs.   *)
(***************************************************************************)
EXTENDS PurchaseScheduler, FoldLemmas

-----------------------------------------------------------------------------
(* Tables of procurements *)

\* Procurements are finitely many ...
LEMMA FiniteProcs == IsFiniteSet(Procs) /\ \A S \in SUBSET Procs : IsFiniteSet(S)
<1>1. 1 \in Int /\ NProcs \in Int
  BY PurchaseAssumption
<1>2. IsFiniteSet(Procs)
  BY <1>1, FS_Interval DEF Procs
<1> QED BY <1>2, FS_Subset

\* ... and so are launches, hence orders and lines.
LEMMA FiniteLaunches == IsFiniteSet(Launches) /\ \A S \in SUBSET Launches : IsFiniteSet(S)
<1>1. 1 \in Int /\ MaxLaunches \in Int
  BY PurchaseAssumption
<1>2. IsFiniteSet(Launches)
  BY <1>1, FS_Interval DEF Launches
<1> QED BY <1>2, FS_Subset

Table == [Procs -> SomeProc]

\* What is in a table of procurements.
LEMMA TableValue ==
  ASSUME NEW t \in Table, NEW p \in Procs
  PROVE  /\ t[p].state \in ProcStates
         /\ t[p].qty \in Int
         /\ t[p].need \in 0 .. Len(Needs)
         /\ t[p].line \in Launches \union {NoLine}
         /\ t[p].forced \in BOOLEAN
         /\ t[p] \in SomeProc
  BY DEF Table, SomeProc

\* The total of procurements is an integer ...
LEMMA TotalType ==
  ASSUME NEW t \in Table, NEW S \in SUBSET Procs
  PROVE  Total(t, S) \in Int
<1> DEFINE w == [p \in Procs |-> t[p].qty]
<1>1. \A p \in S : w[p] \in Int
  BY TableValue
<1>2. SumFunctionOnSet(w, S) \in Int
  <2> HIDE DEF w
  <2> QED BY <1>1, FiniteProcs, SumType
<1> QED BY <1>2 DEF Total

\* Tables that agree on the quantities of S have the same total on it.
LEMMA TotalSame ==
  ASSUME NEW t \in Table, NEW u, NEW S \in SUBSET Procs,
         \A p \in S : u[p].qty = t[p].qty
  PROVE  Total(u, S) = Total(t, S)
<1> DEFINE w == [p \in Procs |-> t[p].qty]
           v == [p \in Procs |-> u[p].qty]
<1>1. \A p \in S : w[p] \in Int /\ v[p] = w[p]
  BY TableValue
<1>2. SumFunctionOnSet(v, S) = SumFunctionOnSet(w, S)
  <2> HIDE DEF v, w
  <2> QED BY <1>1, FiniteProcs, SumSame
<1> QED BY <1>2 DEF Total

\* ... to which a procurement adds its quantity ...
LEMMA TotalAdd ==
  ASSUME NEW t \in Table, NEW S \in SUBSET Procs, NEW p \in Procs, p \notin S
  PROVE  Total(t, S \union {p}) = Total(t, S) + t[p].qty
<1> DEFINE w == [q \in Procs |-> t[q].qty]
<1>1. \A q \in S \cup {p} : w[q] \in Int
  BY TableValue
<1>2. w[p] = t[p].qty
  OBVIOUS
<1>3. SumFunctionOnSet(w, S \cup {p}) = SumFunctionOnSet(w, S) + w[p]
  <2> HIDE DEF w
  <2> QED BY <1>1, FiniteProcs, SumAdd
<1> QED BY <1>2, <1>3 DEF Total

\* ... or from which it takes it.
LEMMA TotalRemove ==
  ASSUME NEW t \in Table, NEW S \in SUBSET Procs, NEW p \in S
  PROVE  Total(t, S) = t[p].qty + Total(t, S \ {p})
<1> DEFINE w == [q \in Procs |-> t[q].qty]
<1>1. \A q \in S : w[q] \in Int
  BY TableValue
<1>2. w[p] = t[p].qty
  OBVIOUS
<1>3. SumFunctionOnSet(w, S) = w[p] + SumFunctionOnSet(w, S \ {p})
  <2> HIDE DEF w
  <2> QED BY <1>1, FiniteProcs, SumRemove
<1> QED BY <1>2, <1>3 DEF Total

\* No procurement has no quantity.
LEMMA TotalNone == ASSUME NEW t PROVE Total(t, {}) = 0
  BY SumEmpty DEF Total

-----------------------------------------------------------------------------
(* What every table of procurements satisfies *)

Known(t, p) == t[p].state # "none"
Parts(t, d) == {p \in Procs : t[p].need = d}

\* Numbers that are not used are blank, and the others are of some need.
Sound(t) ==
  /\ t \in Table
  /\ \A p \in Procs : IF Known(t, p) THEN t[p].need \in DOMAIN Needs ELSE t[p] = NoProc

\* RunningOnLine, of a table
Placed(t) ==
  \A p \in Procs : /\ t[p].state = "running" => StateOf(t[p].line) # "none"
                   /\ t[p].state = "buy_to_run" => t[p].line = NoLine

\* QuantityConserved, of a table
Conserved(t) ==
  \A d \in DOMAIN Needs : Parts(t, d) # {} => Total(t, Parts(t, d)) = Needs[d].qty

\* Needs are numbered from 1.
LEMMA NeedsDomain == DOMAIN Needs = 1 .. Len(Needs) /\ Len(Needs) \in Nat
  BY PurchaseAssumption

\* A number is free when one is.
LEMMA FreshFact ==
  ASSUME NEW t, \E p \in Procs : ~Known(t, p)
  PROVE  Fresh(t) \in Procs /\ ~Known(t, Fresh(t))
<1> DEFINE S == {p \in Procs : t[p].state = "none"}
<1>1. S \in SUBSET Nat /\ S # {}
  BY PurchaseAssumption DEF Known, Procs
<1>2. PICK n \in S : \A m \in S : n <= m
  <2> HIDE DEF S
  <2> QED BY <1>1, SmallestNumber
<1>3. Min(S) \in S
  <2> HIDE DEF S
  <2> QED BY <1>2 DEF Min
<1> QED BY <1>3 DEF Fresh, Known

\* The two parts of a split
IsSplit(t, u, p, f, qty, state) ==
  /\ u \in Table
  /\ u[f].qty = qty /\ u[f].state = state
  /\ u[f].need = t[p].need /\ u[f].line = t[p].line
  /\ u[p].qty = t[p].qty - qty /\ u[p].state = t[p].state
  /\ u[p].need = t[p].need /\ u[p].line = t[p].line
  /\ \A q \in Procs \ {p, f} : u[q] = t[q]

\* What split does: a new part on a free number, the rest on the old one.
LEMMA SplitFacts ==
  ASSUME NEW t, Sound(t), NEW p \in Procs, Known(t, p), NEW qty \in Int,
         NEW state \in ProcStates, \E q \in Procs : ~Known(t, q)
  PROVE  /\ Fresh(t) \in Procs /\ ~Known(t, Fresh(t)) /\ Fresh(t) # p
         /\ IsSplit(t, Split(t, p, qty, state), p, Fresh(t), qty, state)
<1> DEFINE f == Fresh(t)
           u == Split(t, p, qty, state)
<1>1. f \in Procs /\ ~Known(t, f) /\ f # p
  BY FreshFact DEF Known
<1> HIDE DEF f
<1>2. t \in Table /\ t[p] \in SomeProc
  BY TableValue DEF Sound
<1>3. [t[p] EXCEPT !.qty = qty, !.state = state] \in SomeProc
  BY <1>2 DEF SomeProc
<1>4. [t[p] EXCEPT !.qty = @ - qty] \in SomeProc
  BY <1>2 DEF SomeProc
<1>5. u \in Table /\ \A q \in Procs \ {p, f} : u[q] = t[q]
  BY <1>1, <1>2, <1>3, <1>4 DEF Split, Table, f
<1>6. u[f] = [t[p] EXCEPT !.qty = qty, !.state = state]
  BY <1>1, <1>2 DEF Split, Table, f, SomeProc
<1>7. u[p] = [t[p] EXCEPT !.qty = @ - qty]
  BY <1>1, <1>2 DEF Split, Table, f, SomeProc
<1>8. /\ u[f].qty = qty /\ u[f].state = state
      /\ u[f].need = t[p].need /\ u[f].line = t[p].line
  BY <1>2, <1>6 DEF SomeProc
<1>9. /\ u[p].qty = t[p].qty - qty /\ u[p].state = t[p].state
      /\ u[p].need = t[p].need /\ u[p].line = t[p].line
  BY <1>2, <1>7 DEF SomeProc
<1> HIDE DEF u
<1>10. IsSplit(t, u, p, f, qty, state)
  BY <1>5, <1>8, <1>9 DEF IsSplit
<1> QED BY <1>1, <1>10 DEF f, u

\* A split leaves a sound table.
LEMMA SplitSound ==
  ASSUME NEW t, Sound(t), NEW p \in Procs, Known(t, p), NEW qty \in Int,
         NEW state \in ProcStates \ {"none"}, \E q \in Procs : ~Known(t, q)
  PROVE  Sound(Split(t, p, qty, state))
<1> DEFINE u == Split(t, p, qty, state)
           f == Fresh(t)
<1>1. /\ f \in Procs /\ ~Known(t, f) /\ f # p
      /\ IsSplit(t, u, p, f, qty, state)
  BY SplitFacts
<1> HIDE DEF u, f
<1>2. t[p].need \in DOMAIN Needs
  BY DEF Sound
<1>3. Known(u, f) /\ u[f].need \in DOMAIN Needs
  BY <1>1, <1>2 DEF Known, IsSplit
<1>4. Known(u, p) /\ u[p].need \in DOMAIN Needs
  BY <1>1, <1>2 DEF Known, IsSplit
<1>5. ASSUME NEW q \in Procs \ {p, f}
      PROVE  IF Known(u, q) THEN u[q].need \in DOMAIN Needs ELSE u[q] = NoProc
  <2>1. u[q] = t[q]
    BY <1>1, <1>5 DEF IsSplit
  <2> QED BY <2>1 DEF Sound, Known
<1>6. u \in Table
  BY <1>1 DEF IsSplit
<1>7. Sound(u)
  BY <1>3, <1>4, <1>5, <1>6 DEF Sound
<1> QED BY <1>7 DEF u

\* The part split off is on the same line.
LEMMA SplitPlaced ==
  ASSUME NEW t, Sound(t), Placed(t), NEW p \in Procs, Known(t, p), NEW qty \in Int,
         NEW state \in ProcStates \ {"none"}, \E q \in Procs : ~Known(t, q),
         \/ state = t[p].state
         \/ state = "running" /\ StateOf(t[p].line) # "none"
  PROVE  Placed(Split(t, p, qty, state))
<1> DEFINE u == Split(t, p, qty, state)
           f == Fresh(t)
<1>1. /\ f \in Procs /\ ~Known(t, f) /\ f # p
      /\ IsSplit(t, u, p, f, qty, state)
  BY SplitFacts
<1> HIDE DEF u, f
<1>2. ASSUME NEW q \in Procs
      PROVE  /\ u[q].state = "running" => StateOf(u[q].line) # "none"
             /\ u[q].state = "buy_to_run" => u[q].line = NoLine
  <2>1. CASE q = f
    BY <1>1, <2>1 DEF IsSplit, Placed
  <2>2. CASE q = p
    BY <1>1, <2>2 DEF IsSplit, Placed
  <2>3. CASE q \notin {p, f}
    BY <1>1, <2>3 DEF IsSplit, Placed
  <2> QED BY <2>1, <2>2, <2>3
<1>3. Placed(u)
  BY <1>2 DEF Placed
<1> QED BY <1>3 DEF u

\* A split moves quantity between two parts of one need.
LEMMA SplitConserved ==
  ASSUME NEW t, Sound(t), Conserved(t), NEW p \in Procs, Known(t, p), NEW qty \in Int,
         NEW state \in ProcStates \ {"none"}, \E q \in Procs : ~Known(t, q)
  PROVE  Conserved(Split(t, p, qty, state))
<1> DEFINE u == Split(t, p, qty, state)
           f == Fresh(t)
<1>1. /\ f \in Procs /\ ~Known(t, f) /\ f # p
      /\ IsSplit(t, u, p, f, qty, state)
  BY SplitFacts
<1> HIDE DEF u, f
<1>2. t \in Table /\ u \in Table /\ t[p].need \in DOMAIN Needs
  BY <1>1 DEF Sound, IsSplit
<1>3. u[f].qty = qty /\ u[f].need = t[p].need
  BY <1>1 DEF IsSplit
<1>4. u[p].qty = t[p].qty - qty /\ u[p].need = t[p].need
  BY <1>1 DEF IsSplit
<1>8. \A q \in Procs \ {p, f} : u[q].need = t[q].need /\ u[q].qty = t[q].qty
  BY <1>1 DEF IsSplit
<1>5. t[f].need = 0
  BY <1>1 DEF Sound, NoProc
<1>6. ASSUME NEW d \in DOMAIN Needs, Parts(u, d) # {}
      PROVE  Total(u, Parts(u, d)) = Needs[d].qty
  <2>1. 0 # d
    BY NeedsDomain
  <2>2. CASE d # t[p].need
    <3>1. Parts(u, d) = Parts(t, d)
      BY <1>3, <1>4, <1>5, <1>8, <2>1, <2>2 DEF Parts
    <3>2. \A q \in Parts(t, d) : u[q].qty = t[q].qty
      BY <1>5, <1>8, <2>1, <2>2 DEF Parts
    <3>3. Total(u, Parts(t, d)) = Total(t, Parts(t, d))
      BY <1>2, <3>2, TotalSame DEF Parts
    <3>4. Total(t, Parts(t, d)) = Needs[d].qty
      BY <1>6, <3>1 DEF Conserved
    <3> QED BY <3>1, <3>3, <3>4
  <2>3. CASE d = t[p].need
    <3> DEFINE R == Parts(t, d) \ {p}
    <3>1. R \in SUBSET Procs /\ p \notin R /\ Parts(t, d) = R \union {p}
      BY <2>3 DEF Parts
    <3>9. f \notin R \union {p}
      BY <1>1, <1>5, <2>1 DEF Parts
    <3>10. Parts(u, d) = (R \union {p}) \union {f}
      BY <1>1, <1>3, <1>4, <1>8, <2>3 DEF Parts
    <3> HIDE DEF R
    <3>2. Total(u, (R \union {p}) \union {f}) = Total(u, R) + u[p].qty + u[f].qty
      <4>1. Total(u, R \union {p}) = Total(u, R) + u[p].qty
        BY <1>2, <3>1, TotalAdd
      <4>2. R \union {p} \in SUBSET Procs
        BY <3>1
      <4>3. Total(u, (R \union {p}) \union {f}) = Total(u, R \union {p}) + u[f].qty
        BY <1>1, <1>2, <3>9, <4>2, TotalAdd
      <4> QED BY <4>1, <4>3
    <3>3. Total(t, R \union {p}) = Total(t, R) + t[p].qty
      BY <1>2, <3>1, TotalAdd
    <3>4. Total(u, R) = Total(t, R)
      <4>1. \A q \in R : u[q].qty = t[q].qty
        BY <1>8, <3>1, <3>9
      <4> QED BY <1>2, <3>1, <4>1, TotalSame
    <3>5. Total(t, R) \in Int /\ t[p].qty \in Int
      BY <1>2, <3>1, TotalType, TableValue
    <3>6. Total(t, Parts(t, d)) = Needs[d].qty
      BY <3>1 DEF Conserved
    <3>7. Total(t, Parts(t, d)) = Total(t, R) + t[p].qty
      BY <3>1, <3>3
    <3>8. Total(u, Parts(u, d)) = Total(u, R) + u[p].qty + u[f].qty
      BY <3>10, <3>2
    <3> QED BY <1>3, <1>4, <3>4, <3>5, <3>6, <3>7, <3>8
  <2> QED BY <2>2, <2>3
<1>7. Conserved(u)
  BY <1>6 DEF Conserved
<1> QED BY <1>7 DEF u

\* Lines and states do not matter to the parts of a need.
LEMMA RelabelConserved ==
  ASSUME NEW t, Sound(t), Conserved(t), NEW u,
         \A p \in Procs : u[p].need = t[p].need /\ u[p].qty = t[p].qty
  PROVE  Conserved(u)
<1>1. ASSUME NEW d \in DOMAIN Needs, Parts(u, d) # {}
      PROVE  Total(u, Parts(u, d)) = Needs[d].qty
  <2>1. Parts(u, d) = Parts(t, d)
    BY DEF Parts
  <2>2. Total(u, Parts(t, d)) = Total(t, Parts(t, d))
    BY TotalSame DEF Sound, Parts
  <2> QED BY <1>1, <2>1, <2>2 DEF Conserved
<1> QED BY <1>1 DEF Conserved

Grows(t, u) == \A p \in Procs : Known(t, p) => Known(u, p)

\* All that holds of a table of procurements between two transactions.
Fine(t) == Sound(t) /\ Placed(t) /\ Conserved(t)

\* u moves procurements of t to other lines and states.
Relabels(t, u) ==
  /\ u \in Table
  /\ \A p \in Procs : /\ u[p].need = t[p].need /\ u[p].qty = t[p].qty
                      /\ Known(t, p) => Known(u, p)
                      /\ ~Known(t, p) => u[p] = t[p]

\* Moving procurements to other lines loses none, and no quantity.
LEMMA RelabelsFact ==
  ASSUME NEW t, Sound(t), Conserved(t), NEW u, Relabels(t, u)
  PROVE  Sound(u) /\ Conserved(u) /\ Grows(t, u)
<1>1. Conserved(u)
  BY RelabelConserved DEF Relabels
<1>2. Grows(t, u)
  BY DEF Relabels, Grows
<1>3. Sound(u)
  <2>1. ASSUME NEW p \in Procs
        PROVE  IF Known(u, p) THEN u[p].need \in DOMAIN Needs ELSE u[p] = NoProc
    <3>1. CASE Known(t, p)
      BY <3>1 DEF Relabels, Sound
    <3>2. CASE ~Known(t, p)
      BY <3>2 DEF Relabels, Sound, Known
    <3> QED BY <3>1, <3>2
  <2> QED BY <2>1 DEF Relabels, Sound
<1> QED BY <1>1, <1>2, <1>3

\* What RemoveProcsFromLines does to one procurement.
LEMMA RemoveFacts ==
  ASSUME NEW t \in Table, NEW S
  PROVE  LET u == RemoveProcsFromLines(t, S)
         IN  /\ u \in Table
             /\ \A p \in Procs :
                  /\ u[p].need = t[p].need /\ u[p].qty = t[p].qty
                  /\ u[p].forced = t[p].forced
                  /\ p \notin S => u[p] = t[p]
                  /\ p \in S => /\ u[p].line = NoLine
                                /\ t[p].state = "running" => u[p].state = "buy_to_run"
                                /\ t[p].state # "running" => u[p].state = t[p].state
<1> DEFINE u == RemoveProcsFromLines(t, S)
           v(p) == [t[p] EXCEPT !.line = NoLine,
                                !.state = IF @ = "running" THEN "buy_to_run" ELSE @]
<1>1. \A p \in Procs : u[p] = IF p \in S THEN v(p) ELSE t[p]
  BY DEF RemoveProcsFromLines
<1>2. ASSUME NEW p \in Procs
      PROVE  /\ v(p) \in SomeProc
             /\ v(p).need = t[p].need /\ v(p).qty = t[p].qty
             /\ v(p).forced = t[p].forced /\ v(p).line = NoLine
             /\ v(p).state = IF t[p].state = "running" THEN "buy_to_run" ELSE t[p].state
  <2>1. t[p] \in SomeProc
    BY TableValue
  <2> QED BY <2>1 DEF SomeProc, ProcStates
<1>3. u = [p \in Procs |-> u[p]]
  BY DEF RemoveProcsFromLines
<1> HIDE DEF u, v
<1>4. \A p \in Procs : u[p] \in SomeProc
  BY <1>1, <1>2, TableValue
<1>5. u \in Table
  BY <1>3, <1>4 DEF Table
<1>6. \A p \in Procs :
         /\ u[p].need = t[p].need /\ u[p].qty = t[p].qty
         /\ u[p].forced = t[p].forced
         /\ p \notin S => u[p] = t[p]
         /\ p \in S => /\ u[p].line = NoLine
                       /\ t[p].state = "running" => u[p].state = "buy_to_run"
                       /\ t[p].state # "running" => u[p].state = t[p].state
  BY <1>1, <1>2
<1> QED BY <1>5, <1>6 DEF u

\* remove_procs_from_lines only moves procurements ...
LEMMA RemoveRelabels ==
  ASSUME NEW t, Sound(t), NEW S, \A p \in S : Known(t, p)
  PROVE  Relabels(t, RemoveProcsFromLines(t, S))
<1> DEFINE u == RemoveProcsFromLines(t, S)
<1>0. t \in Table
  BY DEF Sound
<1>1. /\ u \in Table
      /\ \A p \in Procs :
           /\ u[p].need = t[p].need /\ u[p].qty = t[p].qty
           /\ p \notin S => u[p] = t[p]
           /\ p \in S => /\ t[p].state = "running" => u[p].state = "buy_to_run"
                         /\ t[p].state # "running" => u[p].state = t[p].state
  BY <1>0, RemoveFacts
<1> HIDE DEF u
<1>2. Relabels(t, u)
  BY <1>1 DEF Relabels, Known
<1> QED BY <1>2 DEF u

\* ... and leaves those that it takes off a line without a state that wants one.
LEMMA RemoveFine ==
  ASSUME NEW t, Fine(t), NEW S, \A p \in S : Known(t, p)
  PROVE  Fine(RemoveProcsFromLines(t, S)) /\ Grows(t, RemoveProcsFromLines(t, S))
<1> DEFINE u == RemoveProcsFromLines(t, S)
<1>0. t \in Table
  BY DEF Fine, Sound
<1>1. \A p \in Procs :
         /\ p \notin S => u[p] = t[p]
         /\ p \in S => /\ u[p].line = NoLine
                       /\ t[p].state = "running" => u[p].state = "buy_to_run"
                       /\ t[p].state # "running" => u[p].state = t[p].state
  BY <1>0, RemoveFacts
<1>2. Relabels(t, u)
  BY RemoveRelabels DEF Fine
<1> HIDE DEF u
<1>3. Sound(u) /\ Conserved(u) /\ Grows(t, u)
  BY <1>2, RelabelsFact DEF Fine
<1>4. Placed(u)
  BY <1>1 DEF Fine, Placed
<1> QED BY <1>3, <1>4 DEF Fine, u

\* What AddProcsToLine does to one procurement.
LEMMA AddFacts ==
  ASSUME NEW t \in Table, NEW S, NEW l \in Launches
  PROVE  LET u == AddProcsToLine(t, S, l)
         IN  /\ u \in Table
             /\ \A p \in Procs :
                  /\ u[p].need = t[p].need /\ u[p].qty = t[p].qty
                  /\ p \notin S => u[p] = t[p]
                  /\ p \in S => u[p].line = l /\ u[p].state = "running"
<1> DEFINE u == AddProcsToLine(t, S, l)
           v(p) == [t[p] EXCEPT !.line = l, !.state = "running"]
<1>1. \A p \in Procs : u[p] = IF p \in S THEN v(p) ELSE t[p]
  BY DEF AddProcsToLine
<1>2. ASSUME NEW p \in Procs
      PROVE  /\ v(p) \in SomeProc
             /\ v(p).need = t[p].need /\ v(p).qty = t[p].qty
             /\ v(p).line = l /\ v(p).state = "running"
  <2>1. t[p] \in SomeProc
    BY TableValue
  <2> QED BY <2>1 DEF SomeProc, ProcStates
<1>3. u = [p \in Procs |-> u[p]]
  BY DEF AddProcsToLine
<1> HIDE DEF u, v
<1>4. \A p \in Procs : u[p] \in SomeProc
  BY <1>1, <1>2, TableValue
<1>5. u \in Table
  BY <1>3, <1>4 DEF Table
<1>6. \A p \in Procs :
         /\ u[p].need = t[p].need /\ u[p].qty = t[p].qty
         /\ p \notin S => u[p] = t[p]
         /\ p \in S => u[p].line = l /\ u[p].state = "running"
  BY <1>1, <1>2
<1> QED BY <1>5, <1>6 DEF u

\* add_proc_to_line only moves procurements.
LEMMA AddRelabels ==
  ASSUME NEW t, Sound(t), NEW S, \A p \in S : Known(t, p), NEW l \in Launches
  PROVE  Relabels(t, AddProcsToLine(t, S, l))
<1> DEFINE u == AddProcsToLine(t, S, l)
<1>0. t \in Table
  BY DEF Sound
<1>1. /\ u \in Table
      /\ \A p \in Procs :
           /\ u[p].need = t[p].need /\ u[p].qty = t[p].qty
           /\ p \notin S => u[p] = t[p]
           /\ p \in S => u[p].state = "running"
  BY <1>0, AddFacts
<1> HIDE DEF u
<1>2. Relabels(t, u)
  BY <1>1 DEF Relabels, Known
<1> QED BY <1>2 DEF u

\* What Redistributed does to one procurement.
Targets(p, plan, lines) == {l \in lines : StateOf(l) # "none" /\ p \in plan[l]}

\* The last of some lines is one of them.
LEMMA LastTarget ==
  ASSUME NEW S \in SUBSET Launches, S # {}
  PROVE  Max(S) \in S
<1>1. S \in SUBSET Int
  BY DEF Launches
<1>2. IsFiniteSet(S)
  BY FiniteLaunches
<1> DEFINE R == {ss \in S \X S : ss[1] > ss[2]}
<1>3. \A x, y \in S : <<x, y>> \in R <=> x > y
  OBVIOUS
<1>4. \E x \in S : \A y \in S \ {x} : <<x, y>> \in R
  <2>1. \A x, y, z \in S : <<x, y>> \in R /\ <<y, z>> \in R => <<x, z>> \in R
    <3> HIDE DEF R
    <3> QED BY <1>1, <1>3
  <2>2. \A x \in S : <<x, x>> \notin R
    <3> HIDE DEF R
    <3> QED BY <1>1, <1>3
  <2>3. ASSUME NEW x \in S, NEW y \in S
        PROVE  x = y \/ <<x, y>> \in R \/ <<y, x>> \in R
    <3>1. x = y \/ x > y \/ y > x
      BY <1>1
    <3> HIDE DEF R
    <3> QED BY <1>3, <3>1
  <2> HIDE DEF R
  <2> QED BY <1>2, <2>1, <2>2, <2>3, FirstMember
<1>5. PICK x \in S : \A y \in S : x >= y
  <2>1. PICK x \in S : \A y \in S \ {x} : <<x, y>> \in R
    BY <1>4
  <2> HIDE DEF R
  <2>2. ASSUME NEW y \in S PROVE x >= y
    <3>1. CASE y = x
      BY <1>1, <3>1
    <3>2. CASE y # x
      <4>1. <<x, y>> \in R
        BY <2>1, <3>2
      <4>2. x > y
        BY <1>3, <4>1
      <4> QED BY <1>1, <4>2
    <3> QED BY <3>1, <3>2
  <2> QED BY <2>2
<1> QED BY <1>5 DEF Max

\* Redistributed moves a procurement to one of the lines that are to get it.
LEMMA RedistributedFacts ==
  ASSUME NEW t \in Table, NEW plan, NEW lines \in SUBSET Launches
  PROVE  LET u == Redistributed(t, plan, lines)
         IN  /\ u \in Table
             /\ \A p \in Procs :
                  LET to == Targets(p, plan, lines)
                  IN  /\ u[p].need = t[p].need /\ u[p].qty = t[p].qty
                      /\ to \subseteq {t[p].line} => u[p] = t[p]
                      /\ ~(to \subseteq {t[p].line}) =>
                            u[p].line \in to /\ u[p].state = "running"
<1> DEFINE u == Redistributed(t, plan, lines)
           v(p) == [t[p] EXCEPT !.line = Max(Targets(p, plan, lines)), !.state = "running"]
<1>1. \A p \in Procs : u[p] = IF Targets(p, plan, lines) \subseteq {t[p].line} THEN t[p] ELSE v(p)
  BY DEF Redistributed, Targets
<1>2. ASSUME NEW p \in Procs, ~(Targets(p, plan, lines) \subseteq {t[p].line})
      PROVE  /\ v(p) \in SomeProc
             /\ v(p).need = t[p].need /\ v(p).qty = t[p].qty
             /\ v(p).line \in Targets(p, plan, lines) /\ v(p).state = "running"
  <2>1. t[p] \in SomeProc
    BY TableValue
  <2>2. /\ Max(Targets(p, plan, lines)) \in Targets(p, plan, lines)
        /\ Max(Targets(p, plan, lines)) \in Launches
    <3> DEFINE to == Targets(p, plan, lines)
    <3>1. to \in SUBSET Launches /\ \E l \in to : TRUE
      BY <1>2 DEF Targets
    <3> HIDE DEF to
    <3>2. Max(to) \in to
      BY <3>1, LastTarget
    <3> QED BY <3>1, <3>2 DEF to
  <2> QED BY <2>1, <2>2 DEF SomeProc, ProcStates
<1>3. u = [p \in Procs |-> u[p]]
  BY DEF Redistributed
<1> HIDE DEF u, v
<1>4. \A p \in Procs : u[p] \in SomeProc
  BY <1>1, <1>2, TableValue
<1>5. u \in Table
  BY <1>3, <1>4 DEF Table
<1>6. \A p \in Procs :
          /\ u[p].need = t[p].need /\ u[p].qty = t[p].qty
          /\ Targets(p, plan, lines) \subseteq {t[p].line} => u[p] = t[p]
          /\ ~(Targets(p, plan, lines) \subseteq {t[p].line}) =>
                u[p].line \in Targets(p, plan, lines) /\ u[p].state = "running"
  BY <1>1, <1>2
<1> QED BY <1>5, <1>6 DEF u

\* ... which exists, so that what is running is still on a line.
LEMMA RedistributedFine ==
  ASSUME NEW t, Fine(t), NEW plan, NEW lines \in SUBSET Launches,
         \A l \in lines : \A p \in plan[l] : Known(t, p)
  PROVE  Fine(Redistributed(t, plan, lines)) /\ Grows(t, Redistributed(t, plan, lines))
<1> DEFINE u == Redistributed(t, plan, lines)
<1>0. t \in Table
  BY DEF Fine, Sound
<1>1. /\ u \in Table
      /\ \A p \in Procs :
            /\ u[p].need = t[p].need /\ u[p].qty = t[p].qty
            /\ Targets(p, plan, lines) \subseteq {t[p].line} => u[p] = t[p]
            /\ ~(Targets(p, plan, lines) \subseteq {t[p].line}) =>
                  u[p].line \in Targets(p, plan, lines) /\ u[p].state = "running"
  BY <1>0, RedistributedFacts
<1> HIDE DEF u
<1>2. Relabels(t, u)
  <2>1. ASSUME NEW p \in Procs
        PROVE  /\ Known(t, p) => Known(u, p)
               /\ ~Known(t, p) => u[p] = t[p]
    BY <1>1 DEF Known, Targets
  <2> QED BY <1>1, <2>1 DEF Relabels
<1>3. Sound(u) /\ Conserved(u) /\ Grows(t, u)
  BY <1>2, RelabelsFact DEF Fine
<1>4. Placed(u)
  <2>1. ASSUME NEW p \in Procs
        PROVE  /\ u[p].state = "running" => StateOf(u[p].line) # "none"
               /\ u[p].state = "buy_to_run" => u[p].line = NoLine
    <3>1. CASE Targets(p, plan, lines) \subseteq {t[p].line}
      BY <1>1, <3>1 DEF Fine, Placed
    <3>2. CASE ~(Targets(p, plan, lines) \subseteq {t[p].line})
      BY <1>1, <3>2 DEF Targets
    <3> QED BY <3>1, <3>2
  <2> QED BY <2>1 DEF Placed
<1> QED BY <1>3, <1>4 DEF Fine, u

-----------------------------------------------------------------------------
(* First procurements *)

\* Every procurement has the date of its need.
LEMMA DateType ==
  ASSUME NEW t, Sound(t), NEW p \in Procs, Known(t, p)
  PROVE  DateOf(t, p) \in Nat
<1>1. t[p].need \in DOMAIN Needs
  BY DEF Sound
<1>2. \A d \in DOMAIN Needs : Needs[d] \in [date : Nat, qty : Nat \ {0}]
  <2> DEFINE D == [date : Nat, qty : Nat \ {0}]
  <2>1. Needs \in Seq(D)
    BY PurchaseAssumption
  <2> HIDE DEF D
  <2>2. \A d \in DOMAIN Needs : Needs[d] \in D
    BY <2>1
  <2> QED BY <2>2 DEF D
<1>3. Needs[t[p].need].date \in Nat
  BY <1>1, <1>2
<1> QED BY <1>3 DEF DateOf

\* By date, then by id: the order of receptions.
Sooner(t, p, q) ==
  \/ DateOf(t, p) < DateOf(t, q)
  \/ DateOf(t, p) = DateOf(t, q) /\ p < q

\* Some procurement comes before the others in a reception.
LEMMA FirstSooner ==
  ASSUME NEW t, Sound(t), NEW S \in SUBSET Procs, S # {}, \A p \in S : Known(t, p)
  PROVE  \E p \in S : \A q \in S \ {p} : Sooner(t, p, q)
<1> DEFINE R == {ss \in S \X S : Sooner(t, ss[1], ss[2])}
<1>1. \A p \in S : p \in Int /\ DateOf(t, p) \in Int
  BY DateType DEF Procs
<1>2. \A p, q \in S : <<p, q>> \in R <=> Sooner(t, p, q)
  OBVIOUS
<1> HIDE DEF R
<1>3. \A p, q, r \in S : <<p, q>> \in R /\ <<q, r>> \in R => <<p, r>> \in R
  BY <1>1, <1>2 DEF Sooner
<1>4. \A p \in S : <<p, p>> \notin R
  BY <1>1, <1>2 DEF Sooner
<1>5. ASSUME NEW p \in S, NEW q \in S
      PROVE  p = q \/ <<p, q>> \in R \/ <<q, p>> \in R
  <2>1. p = q \/ Sooner(t, p, q) \/ Sooner(t, q, p)
    BY <1>1 DEF Sooner
  <2> QED BY <1>2, <2>1
<1>6. \E p \in S : \A q \in S \ {p} : <<p, q>> \in R
  BY <1>3, <1>4, <1>5, FiniteProcs, FirstMember
<1>7. PICK p \in S : \A q \in S \ {p} : <<p, q>> \in R
  BY <1>6
<1>8. ASSUME NEW q \in S \ {p} PROVE Sooner(t, p, q)
  <2>1. <<p, q>> \in R
    BY <1>7
  <2> QED BY <1>2, <2>1
<1> QED BY <1>8

\* The order in which procurements wait for a line.
LEMMA FirstBefore ==
  ASSUME NEW t, Sound(t), NEW S \in SUBSET Procs, S # {}, \A p \in S : Known(t, p)
  PROVE  \E p \in S : \A q \in S \ {p} : ProcBefore(t, p, q)
<1> DEFINE R == {ss \in S \X S : ProcBefore(t, ss[1], ss[2])}
<1>1. \A p \in S : p \in Int /\ DateOf(t, p) \in Int /\ t[p].qty \in Int
  BY DateType, TableValue DEF Procs, Sound
<1>2. \A p, q \in S : <<p, q>> \in R <=> ProcBefore(t, p, q)
  OBVIOUS
<1> HIDE DEF R
<1>3. \A p, q, r \in S : <<p, q>> \in R /\ <<q, r>> \in R => <<p, r>> \in R
  BY <1>1, <1>2 DEF ProcBefore
<1>4. \A p \in S : <<p, p>> \notin R
  BY <1>1, <1>2 DEF ProcBefore
<1>5. ASSUME NEW p \in S, NEW q \in S
      PROVE  p = q \/ <<p, q>> \in R \/ <<q, p>> \in R
  <2>1. p = q \/ ProcBefore(t, p, q) \/ ProcBefore(t, q, p)
    BY <1>1 DEF ProcBefore
  <2> QED BY <1>2, <2>1
<1>6. \E p \in S : \A q \in S \ {p} : <<p, q>> \in R
  BY <1>3, <1>4, <1>5, FiniteProcs, FirstMember
<1>7. PICK p \in S : \A q \in S \ {p} : <<p, q>> \in R
  BY <1>6
<1>8. ASSUME NEW q \in S \ {p} PROVE ProcBefore(t, p, q)
  <2>1. <<p, q>> \in R
    BY <1>7
  <2> QED BY <1>2, <2>1
<1> QED BY <1>8

\* ... and the last of them.
LEMMA LastBefore ==
  ASSUME NEW t, Sound(t), NEW S \in SUBSET Procs, S # {}, \A p \in S : Known(t, p)
  PROVE  \E p \in S : \A q \in S \ {p} : ProcBefore(t, q, p)
<1> DEFINE R == {ss \in S \X S : ProcBefore(t, ss[2], ss[1])}
<1>1. \A p \in S : p \in Int /\ DateOf(t, p) \in Int /\ t[p].qty \in Int
  BY DateType, TableValue DEF Procs, Sound
<1>2. \A p, q \in S : <<p, q>> \in R <=> ProcBefore(t, q, p)
  OBVIOUS
<1> HIDE DEF R
<1>3. \A p, q, r \in S : <<p, q>> \in R /\ <<q, r>> \in R => <<p, r>> \in R
  BY <1>1, <1>2 DEF ProcBefore
<1>4. \A p \in S : <<p, p>> \notin R
  BY <1>1, <1>2 DEF ProcBefore
<1>5. ASSUME NEW p \in S, NEW q \in S
      PROVE  p = q \/ <<p, q>> \in R \/ <<q, p>> \in R
  <2>1. p = q \/ ProcBefore(t, p, q) \/ ProcBefore(t, q, p)
    BY <1>1 DEF ProcBefore
  <2> QED BY <1>2, <2>1
<1>6. \E p \in S : \A q \in S \ {p} : <<p, q>> \in R
  BY <1>3, <1>4, <1>5, FiniteProcs, FirstMember
<1>7. PICK p \in S : \A q \in S \ {p} : <<p, q>> \in R
  BY <1>6
<1>8. ASSUME NEW q \in S \ {p} PROVE ProcBefore(t, q, p)
  <2>1. <<p, q>> \in R
    BY <1>7
  <2> QED BY <1>2, <2>1
<1> QED BY <1>8

\* A reception leaves a fine table: the split keeps the quantities, what is done may be anywhere.
LEMMA ReceivedFine ==
  ASSUME NEW t, Fine(t), NEW l \in Launches, StateOf(l) # "none", NEW qty \in Int,
         \E p \in Procs : ~Known(t, p)
  PROVE  Fine(ReceivedProcs(t, l, qty)) /\ Grows(t, ReceivedProcs(t, l, qty))
<1> DEFINE left(p) == qty - Total(t, {q \in On(t, l) : Sooner(t, q, p)})
           larger == {p \in On(t, l) : left(p) # 0 /\ t[p].qty > left(p)}
           last == CHOOSE x \in larger : \A y \in larger \ {x} : Sooner(t, x, y)
           reached == {p \in On(t, l) : larger = {} \/ p = last \/ Sooner(t, p, last)}
           table == IF larger = {} THEN t
                    ELSE Split(t, last, t[last].qty - left(last), "running")
           u == [p \in Procs |->
                   IF p \in reached THEN [table[p] EXCEPT !.forced = TRUE, !.state = "done"]
                   ELSE table[p]]
<1>1. u = ReceivedProcs(t, l, qty)
  BY DEF ReceivedProcs, Sooner, First
<1>2. Sound(t) /\ t \in Table
  BY DEF Fine, Sound
<1>3. \A p \in On(t, l) : p \in Procs /\ Known(t, p) /\ t[p].line = l
  BY DEF On, Known
<1>4. Fine(table) /\ Grows(t, table)
  <2>1. CASE larger = {}
    BY <2>1 DEF Grows
  <2>2. CASE larger # {}
    <3>1. larger \in SUBSET Procs /\ \A p \in larger : Known(t, p)
      BY <1>3
    <3>2. last \in larger
      <4> HIDE DEF larger
      <4>1. \E x \in larger : \A y \in larger \ {x} : Sooner(t, x, y)
        BY <1>2, <2>2, <3>1, FirstSooner
      <4> QED BY <4>1
    <3>3. left(last) \in Int
      <4>1. {q \in On(t, l) : Sooner(t, q, last)} \in SUBSET Procs
        BY DEF On
      <4>2. Total(t, {q \in On(t, l) : Sooner(t, q, last)}) \in Int
        BY <1>2, <4>1, TotalType
      <4> QED BY <4>2
    <3>4. last \in Procs /\ Known(t, last) /\ t[last].line = l
      BY <1>3, <3>2
    <3> HIDE DEF larger, last, left
    <3>5. t[last].qty - left(last) \in Int
      BY <1>2, <3>3, <3>4, TableValue
    <3> DEFINE part == t[last].qty - left(last)
               v == Split(t, last, part, "running")
    <3>6. part \in Int
      BY <3>5
    <3> HIDE DEF part
    <3>7. "running" \in ProcStates \ {"none"}
      BY DEF ProcStates
    <3>8. Sound(v) /\ Placed(v) /\ Conserved(v)
      BY <3>4, <3>6, <3>7, SplitSound, SplitPlaced, SplitConserved DEF Fine
    <3>9. /\ Fresh(t) # last
          /\ IsSplit(t, v, last, Fresh(t), part, "running")
      BY <1>2, <3>4, <3>6, <3>7, SplitFacts
    <3>10. Grows(t, v)
      BY <3>9 DEF IsSplit, Grows, Known
    <3>11. table = v
      BY <2>2 DEF part
    <3> HIDE DEF v, table
    <3> QED BY <3>8, <3>10, <3>11 DEF Fine
  <2> HIDE DEF larger, last, left
  <2> QED BY <2>1, <2>2
<1>5. \A p \in reached : p \in Procs /\ Known(table, p)
  <2>1. \A p \in reached : p \in Procs /\ Known(t, p)
    BY <1>3
  <2> HIDE DEF reached, table
  <2> QED BY <1>4, <2>1 DEF Grows
<1>6. table \in Table
  <2> HIDE DEF table
  <2> QED BY <1>4 DEF Fine, Sound
<1> HIDE DEF reached, table
<1>7. ASSUME NEW p \in Procs
      PROVE  /\ u[p] \in SomeProc
             /\ u[p].need = table[p].need /\ u[p].qty = table[p].qty
             /\ u[p].line = table[p].line
             /\ p \in reached => u[p].state = "done"
             /\ p \notin reached => u[p] = table[p]
  <2>1. table[p] \in SomeProc
    BY <1>6, TableValue
  <2> QED BY <2>1 DEF SomeProc, ProcStates
<1>8. u = [p \in Procs |-> u[p]]
  OBVIOUS
<1> HIDE DEF u
<1>9. u \in Table
  BY <1>7, <1>8 DEF Table
<1>10. Relabels(table, u)
  BY <1>5, <1>7, <1>9 DEF Relabels, Known
<1>11. Sound(u) /\ Conserved(u) /\ Grows(table, u)
  BY <1>4, <1>10, RelabelsFact DEF Fine
<1>12. Placed(u)
  <2>1. Placed(table)
    BY <1>4 DEF Fine
  <2> QED BY <1>7, <2>1 DEF Placed
<1>13. Grows(t, u)
  BY <1>4, <1>11 DEF Grows
<1> QED BY <1>1, <1>11, <1>12, <1>13 DEF Fine

-----------------------------------------------------------------------------
(* compute_procs_for_first_line_found *)

Unknown(t) == {p \in Procs : ~Known(t, p)}

\* Between two turns of the loop over the lines, for procurements ids.
Carried(f, ids) ==
  /\ f \in Progress
  /\ Fine(f.proc)
  /\ Grows(proc, f.proc)
  /\ f.waiting \subseteq ids
  /\ f.lines \subseteq LinesToFill
  /\ \A l \in Launches : \A p \in f.plan[l] : Known(f.proc, p)
  /\ \A l \in Launches : l \notin f.lines => f.plan[l] = {}
  /\ \A p \in Procs : Known(proc, p) => /\ f.proc[p].need = proc[p].need
                                        /\ f.proc[p].state = proc[p].state
                                        /\ f.proc[p].line = proc[p].line

ClosedOn(t, l) == {p \in On(t, l) : Closed(t, p)}

\* fit is the head of those waiting, as far as the line l can take it.
Fits(f, l, fit) ==
  /\ fit \subseteq f.waiting
  /\ \A p \in fit : \A q \in f.waiting \ fit : ProcBefore(proc, p, q)
  /\ Total(f.proc, fit) <= Remaining(l)

\* The line l takes fit, and nothing else is to be taken ...
Whole(g) == g = [proc |-> g.proc, waiting |-> g.waiting, lines |-> g.lines, plan |-> g.plan]

TakesAll(f, g, l, fit) ==
  /\ Whole(g)
  /\ fit = f.waiting \/ Total(f.proc, fit) = Remaining(l)
  /\ g.proc = f.proc
  /\ g.waiting = f.waiting \ (ClosedOn(f.proc, l) \union fit)
  /\ g.lines = f.lines \union {l}
  /\ g.plan = [f.plan EXCEPT ![l] = ClosedOn(f.proc, l) \union fit]

\* ... or it takes fit and a part of the next one, large.
TakesPart(f, g, l, fit, large) ==
  LET t == f.proc
      rest == Remaining(l) - Total(t, fit)
  IN /\ Whole(g)
     /\ large \in f.waiting \ fit
     /\ \A q \in (f.waiting \ fit) \ {large} : ProcBefore(proc, large, q)
     /\ rest > 0
     /\ g.proc = Split(t, large, rest, t[large].state)
     /\ g.waiting = f.waiting \ (ClosedOn(t, l) \union fit \union {Fresh(t)})
     /\ g.lines = f.lines \union {l}
     /\ g.plan = [f.plan EXCEPT ![l] = ClosedOn(t, l) \union fit \union {Fresh(t)}]

\* What a line to receive or to order holds.
LEMMA LineTypes ==
  ASSUME TypeOK, NEW l \in Launches
  PROVE  /\ line[l].qty \in Nat /\ line[l].received \in Nat /\ line[l].date \in Nat
         /\ line[l].order \in Launches \union {0}
         /\ Remaining(l) \in Nat
<1>1. line[l] \in [order : Launches \union {0}, qty : Nat, received : Nat, date : Nat]
  BY DEF TypeOK
<1>2. line[l].received <= line[l].qty
  BY DEF TypeOK
<1> QED BY <1>1, <1>2 DEF Remaining

\* A line carries the number of a launch.
LEMMA LinesToFillAreLaunches == LinesToFill \in SUBSET Launches
  BY DEF LinesToFill

\* compute_procs_for_first_line_found, from its code: the line takes a head of the queue that
\* fits, and either nothing else is to be taken or the next procurement is split.
LEMMA LineTakes ==
  ASSUME TypeOK, Sound(proc), NEW ids \in SUBSET Procs, \A p \in ids : Known(proc, p),
         NEW f, Carried(f, ids), NEW l \in LinesToFill, f.waiting # {}
  PROVE  \E fit \in SUBSET f.waiting :
            /\ Fits(f, l, fit)
            /\ \/ TakesAll(f, FirstLineFound[l][f], l, fit)
               \/ \E large \in f.waiting : TakesPart(f, FirstLineFound[l][f], l, fit, large)
<1> DEFINE t == f.proc
           W == f.waiting
           upTo(p) == {q \in W : q = p \/ ProcBefore(proc, q, p)}
           fit == {p \in W : \A q \in upTo(p) : Total(t, upTo(q)) <= Remaining(l)}
           large == CHOOSE x \in W \ fit : \A y \in (W \ fit) \ {x} : ProcBefore(proc, x, y)
           rest == Remaining(l) - Total(t, fit)
           splits == fit # W /\ rest > 0
           kept == ClosedOn(t, l) \union fit \union IF splits THEN {Fresh(t)} ELSE {}
           g == FirstLineFound[l][f]
<1>1. l \in Launches /\ Remaining(l) \in Nat
  BY LinesToFillAreLaunches, LineTypes
<1>2. /\ f \in Progress /\ t \in Table /\ W \in SUBSET Procs
      /\ \A p \in W : Known(proc, p)
      /\ f = [proc |-> t, waiting |-> W, lines |-> f.lines, plan |-> f.plan]
  BY DEF Carried, Progress, Table
<1>3. g = [proc |-> IF splits THEN Split(t, large, rest, t[large].state) ELSE t,
           waiting |-> W \ kept,
           lines |-> f.lines \union {l},
           plan |-> [f.plan EXCEPT ![l] = kept]]
  BY <1>1, <1>2 DEF FirstLineFound, First, ClosedOn
<1>13. Whole(g)
  <2> HIDE DEF kept, splits, fit, large, rest, g
  <2> QED BY <1>3 DEF Whole
<1>4. fit \in SUBSET W /\ fit \in SUBSET Procs
  BY <1>2
\* Nobody waiting comes before himself, and the order is transitive and total.
<1>5. \A p \in W : p \in Int /\ DateOf(proc, p) \in Int /\ proc[p].qty \in Int
  BY <1>2, DateType, TableValue DEF Procs, Sound
<1>6. \A p, q \in W : p = q \/ ProcBefore(proc, p, q) \/ ProcBefore(proc, q, p)
  BY <1>5 DEF ProcBefore
<1>7. \A p, q, r \in W : ProcBefore(proc, p, q) /\ ProcBefore(proc, q, r) => ProcBefore(proc, p, r)
  BY <1>5 DEF ProcBefore
<1>8. \A p \in fit : \A q \in W \ fit : ProcBefore(proc, p, q)
  <2> SUFFICES ASSUME NEW p \in fit, NEW q \in W, ~ProcBefore(proc, p, q)
               PROVE  q \in fit
    OBVIOUS
  <2>1. upTo(q) \subseteq upTo(p)
    <3>1. q = p \/ ProcBefore(proc, q, p)
      BY <1>4, <1>6
    <3>2. p \in W
      OBVIOUS
    <3> QED BY <1>7, <3>1, <3>2
  <2> QED BY <2>1
<1>9. Total(t, fit) \in Int /\ Total(t, fit) <= Remaining(l)
  <2>1. Total(t, fit) \in Int
    BY <1>2, <1>4, TotalType
  <2>2. CASE fit = {}
    <3>1. Total(t, fit) = 0
      BY <2>2, TotalNone
    <3> QED BY <1>1, <3>1
  <2>3. CASE fit # {}
    <3>1. PICK p \in fit : \A q \in fit \ {p} : ProcBefore(proc, q, p)
      <4>1. \A q \in fit : Known(proc, q)
        BY <1>2, <1>4
      <4> HIDE DEF fit
      <4> QED BY <1>4, <2>3, <4>1, LastBefore
    <3>2. upTo(p) \subseteq fit
      <4> SUFFICES ASSUME NEW q \in upTo(p) PROVE q \in fit
        OBVIOUS
      <4>1. upTo(q) \subseteq upTo(p)
        BY <1>7
      <4> QED BY <4>1
    <3>3. fit = upTo(p)
      BY <1>4, <3>1, <3>2
    <3>4. Total(t, upTo(p)) <= Remaining(l)
      OBVIOUS
    <3> QED BY <2>1, <3>3, <3>4
  <2> QED BY <2>1, <2>2, <2>3
<1>10. Fits(f, l, fit)
  BY <1>4, <1>8, <1>9 DEF Fits
<1>11. CASE ~splits
  <2>1. fit = W \/ Total(t, fit) = Remaining(l)
    <3> HIDE DEF fit
    <3> QED BY <1>1, <1>9, <1>11
  <2>2. kept = ClosedOn(t, l) \union fit
    BY <1>11
  <2> HIDE DEF kept, splits, fit, large, g
  <2>3. TakesAll(f, g, l, fit)
    BY <1>3, <1>11, <1>13, <2>1, <2>2 DEF TakesAll
  <2> QED BY <1>4, <1>10, <2>3 DEF g
<1>12. CASE splits
  <2>1. large \in W \ fit /\ \A y \in (W \ fit) \ {large} : ProcBefore(proc, large, y)
    <3> DEFINE others == W \ fit
    <3>1. others # {} /\ others \in SUBSET Procs /\ \A p \in others : Known(proc, p)
      BY <1>2, <1>4, <1>12
    <3> HIDE DEF others
    <3>2. \E x \in others : \A y \in others \ {x} : ProcBefore(proc, x, y)
      BY <3>1, FirstBefore
    <3> QED BY <3>2 DEF others
  <2>2. rest > 0
    BY <1>12
  <2>3. kept = ClosedOn(t, l) \union fit \union {Fresh(t)}
    BY <1>12
  <2> HIDE DEF kept, splits, fit, large, g
  <2>4. TakesPart(f, g, l, fit, large)
    BY <1>3, <1>12, <1>13, <2>1, <2>2, <2>3 DEF TakesPart
  <2> QED BY <1>4, <1>10, <2>1, <2>4 DEF g
<1> QED BY <1>11, <1>12

\* A table in which one number was used has one fewer.
LEMMA UnknownLeft ==
  ASSUME NEW t, NEW u, NEW q \in Procs, Unknown(t) \subseteq Unknown(u) \union {q}
  PROVE  Cardinality(Unknown(t)) <= Cardinality(Unknown(u)) + 1
<1>1. /\ Unknown(t) \in SUBSET Procs /\ Unknown(u) \in SUBSET Procs
      /\ Unknown(u) \union {q} \in SUBSET Procs
  BY DEF Unknown
<1>2. /\ IsFiniteSet(Unknown(t)) /\ IsFiniteSet(Unknown(u))
      /\ IsFiniteSet(Unknown(u) \union {q})
  BY <1>1, FiniteProcs
<1>3. Cardinality(Unknown(t)) <= Cardinality(Unknown(u) \union {q})
  BY <1>2, FS_Subset
<1>4. \/ Cardinality(Unknown(u) \union {q}) = Cardinality(Unknown(u))
      \/ Cardinality(Unknown(u) \union {q}) = Cardinality(Unknown(u)) + 1
  BY <1>2, FS_AddElement
<1>5. /\ Cardinality(Unknown(t)) \in Nat /\ Cardinality(Unknown(u)) \in Nat
      /\ Cardinality(Unknown(u) \union {q}) \in Nat
  BY <1>2, FS_CardinalityType
<1> QED BY <1>3, <1>4, <1>5

\* A line takes what it can, and the table stays fine; a split uses one number.
LEMMA LineCarries ==
  ASSUME TypeOK, Fine(proc), NEW ids \in SUBSET Procs, \A p \in ids : Known(proc, p),
         NEW f, Carried(f, ids), NEW l \in LinesToFill, Unknown(f.proc) # {}
  PROVE  LET g == FirstLineFound[l][f]
         IN  /\ Carried(g, ids)
             /\ Cardinality(Unknown(f.proc)) <= Cardinality(Unknown(g.proc)) + 1
<1> DEFINE g == FirstLineFound[l][f]
           t == f.proc
<1>1. /\ l \in Launches /\ f \in Progress /\ t \in Table /\ f.plan \in SomePlan
      /\ f.waiting \in SUBSET Procs /\ f.lines \in SUBSET Launches
  BY LinesToFillAreLaunches DEF Carried, Progress, Table
<1>2. \E p \in Procs : ~Known(t, p)
  BY DEF Unknown
<1>3. CASE f.waiting = {}
  <2>1. g = f
    BY <1>1, <1>3 DEF FirstLineFound
  <2> HIDE DEF g
  <2>2. 1 \in Procs
    BY <1>2, PurchaseAssumption DEF Procs
  <2>3. Cardinality(Unknown(t)) <= Cardinality(Unknown(g.proc)) + 1
    BY <2>1, <2>2, UnknownLeft
  <2> QED BY <2>1, <2>3 DEF g
<1>4. CASE f.waiting # {}
  <2>1. PICK fit \in SUBSET f.waiting :
            /\ Fits(f, l, fit)
            /\ \/ TakesAll(f, g, l, fit)
               \/ \E large \in f.waiting : TakesPart(f, g, l, fit, large)
    BY <1>4, LineTakes DEF Fine
  <2> HIDE DEF g
  <2>2. /\ ClosedOn(t, l) \in SUBSET Procs
        /\ \A p \in ClosedOn(t, l) : Known(t, p)
    BY DEF ClosedOn, On, Known
  <2>3. /\ fit \in SUBSET Procs
        /\ \A p \in fit : Known(t, p)
    BY <1>1 DEF Carried, Grows
  <2>4. CASE TakesAll(f, g, l, fit)
    <3> DEFINE kept == ClosedOn(t, l) \union fit
    <3>1. kept \in SUBSET Procs /\ \A p \in kept : Known(t, p)
      BY <2>2, <2>3
    <3> HIDE DEF kept
    <3>2. /\ g.proc = t /\ g.waiting \subseteq f.waiting
          /\ g.lines = f.lines \union {l}
          /\ g.plan = [f.plan EXCEPT ![l] = kept]
          /\ Whole(g)
      BY <2>4 DEF TakesAll, kept
    <3>3. g.plan \in SomePlan
      BY <1>1, <3>1, <3>2 DEF SomePlan
    <3>4. g \in Progress
      BY <1>1, <3>2, <3>3 DEF Whole, Progress, Table
    <3>5. \A m \in Launches : \A p \in g.plan[m] : Known(t, p)
      BY <1>1, <3>1, <3>2 DEF Carried, SomePlan
    <3>6. \A m \in Launches : m \notin g.lines => g.plan[m] = {}
      BY <1>1, <3>2 DEF Carried, SomePlan
    <3>7. Carried(g, ids)
      BY <3>2, <3>4, <3>5, <3>6 DEF Carried
    <3>8. 1 \in Procs
      BY <1>2, PurchaseAssumption DEF Procs
    <3>9. Cardinality(Unknown(t)) <= Cardinality(Unknown(g.proc)) + 1
      BY <3>2, <3>8, UnknownLeft
    <3> QED BY <3>7, <3>9 DEF g
  <2>5. ASSUME NEW large \in f.waiting, TakesPart(f, g, l, fit, large)
        PROVE  /\ Carried(g, ids)
               /\ Cardinality(Unknown(t)) <= Cardinality(Unknown(g.proc)) + 1
    <3> DEFINE fresh == Fresh(t)
               rest == Remaining(l) - Total(t, fit)
               u == Split(t, large, rest, t[large].state)
               kept == ClosedOn(t, l) \union fit \union {fresh}
    <3>1. large \in Procs /\ Known(t, large)
      BY <1>1 DEF Carried, Grows
    <3>2. rest \in Int
      BY <1>1, <2>3, TotalType, LineTypes
    <3>3. t[large].state \in ProcStates \ {"none"}
      BY <1>1, <3>1, TableValue DEF Known
    <3>4. Fine(t)
      BY DEF Carried
    <3>5. /\ g.proc = u /\ g.waiting \subseteq f.waiting
          /\ g.lines = f.lines \union {l}
          /\ g.plan = [f.plan EXCEPT ![l] = kept]
          /\ Whole(g)
      BY <2>5 DEF TakesPart
    <3> HIDE DEF rest, fresh
    <3>6. Sound(u) /\ Placed(u) /\ Conserved(u)
      BY <1>2, <3>1, <3>2, <3>3, <3>4, SplitSound, SplitPlaced, SplitConserved DEF Fine
    <3>7. /\ fresh \in Procs /\ ~Known(t, fresh) /\ fresh # large
          /\ IsSplit(t, u, large, fresh, rest, t[large].state)
      BY <1>2, <3>1, <3>2, <3>3, <3>4, SplitFacts DEF Fine, fresh
    <3>8. Grows(t, u) /\ Known(u, fresh)
      BY <3>3, <3>7 DEF IsSplit, Grows, Known
    <3>9. kept \in SUBSET Procs /\ \A p \in kept : Known(u, p)
      BY <2>2, <2>3, <3>7, <3>8 DEF Grows
    <3> HIDE DEF kept, u
    <3>10. g.plan \in SomePlan
      BY <1>1, <3>5, <3>9 DEF SomePlan
    <3>11. u \in Table
      BY <3>6 DEF Sound
    <3>12. g \in Progress
      BY <1>1, <3>5, <3>10, <3>11 DEF Whole, Progress, Table
    <3>13. \A m \in Launches : \A p \in g.plan[m] : Known(u, p)
      BY <1>1, <3>5, <3>8, <3>9 DEF Carried, SomePlan, Grows
    <3>14. \A m \in Launches : m \notin g.lines => g.plan[m] = {}
      BY <1>1, <3>5 DEF Carried, SomePlan
    <3>15. Grows(proc, u)
      BY <3>8 DEF Carried, Grows
    <3>16. ASSUME NEW p \in Procs, Known(proc, p)
           PROVE  /\ u[p].need = proc[p].need
                  /\ u[p].state = proc[p].state
                  /\ u[p].line = proc[p].line
      <4>1. /\ t[p].need = proc[p].need
            /\ t[p].state = proc[p].state
            /\ t[p].line = proc[p].line
        BY <3>16 DEF Carried
      <4>2. p # fresh
        BY <3>7, <3>16 DEF Carried, Grows
      <4> QED BY <3>7, <4>1, <4>2 DEF IsSplit
    <3>17. Carried(g, ids)
      BY <3>5, <3>6, <3>12, <3>13, <3>14, <3>15, <3>16 DEF Carried, Fine
    <3>18. Unknown(t) \subseteq Unknown(u) \union {fresh}
      BY <3>1, <3>7 DEF Unknown, IsSplit, Known
    <3>19. Cardinality(Unknown(t)) <= Cardinality(Unknown(u)) + 1
      BY <3>7, <3>18, UnknownLeft
    <3> QED BY <3>5, <3>17, <3>19
  <2> QED BY <2>1, <2>4, <2>5 DEF g
<1> QED BY <1>3, <1>4

-----------------------------------------------------------------------------
(* How open procurements are shared among the lines *)

OpenIn(t, S) == {p \in S : Open(t, p)}

\* Every open procurement waits or is planned for one line; a line is planned for
\* no more than it brings, and for no less while procurements wait, which are not
\* earlier than those planned.
Shares(f, seen) ==
  LET t == f.proc
  IN /\ f.lines \subseteq seen
     /\ \A p \in f.waiting : Open(t, p)
     /\ \A p \in Procs : Open(t, p) => p \in f.waiting \/ \E l \in f.lines : p \in f.plan[l]
     /\ \A l \in Launches : \A p \in f.plan[l] : p \notin f.waiting
     /\ \A l, m \in Launches : l # m => \A p \in f.plan[l] : p \notin f.plan[m]
     /\ \A l \in Launches : \A p \in f.plan[l] : Closed(t, p) => t[p].line = l
     /\ \A l \in f.lines : ClosedOn(t, l) \subseteq f.plan[l]
     /\ \A l \in seen : Total(t, OpenIn(t, f.plan[l])) <= Remaining(l)
     /\ f.waiting # {} =>
          /\ f.lines = seen
          /\ \A l \in seen : Total(t, OpenIn(t, f.plan[l])) = Remaining(l)
     /\ \A l \in Launches : \A p \in OpenIn(t, f.plan[l]) : \A q \in f.waiting :
          DateOf(t, p) <= DateOf(t, q)

\* A procurement that exists is open or closed, not both.
LEMMA KnownStates ==
  ASSUME NEW t \in Table, NEW p \in Procs
  PROVE  /\ Known(t, p) <=> Open(t, p) \/ Closed(t, p)
         /\ ~(Open(t, p) /\ Closed(t, p))
<1>1. t[p].state \in ProcStates
  BY TableValue
<1> QED BY <1>1 DEF ProcStates, Known, Open, Closed

\* Who comes first in the queue has no later date, after splits too.
LEMMA BeforeDates ==
  ASSUME Sound(proc), NEW p \in Procs, NEW q \in Procs, Known(proc, p), Known(proc, q),
         ProcBefore(proc, p, q), NEW t,
         t[p].need = proc[p].need, t[q].need = proc[q].need
  PROVE  DateOf(t, p) <= DateOf(t, q)
<1>1. DateOf(proc, p) \in Int /\ DateOf(proc, q) \in Int
  BY DateType
<1>2. DateOf(proc, p) <= DateOf(proc, q)
  BY <1>1 DEF ProcBefore
<1> QED BY <1>2 DEF DateOf

\* The shares after a line took fit, and nothing was split.
LEMMA TakesAllShares ==
  ASSUME TypeOK, Fine(proc), NEW ids \in SUBSET Procs, \A p \in ids : Known(proc, p),
         NEW f, Carried(f, ids), NEW l \in LinesToFill,
         NEW seen \in SUBSET LinesToFill, l \notin seen, Shares(f, seen), f.waiting # {},
         NEW fit \in SUBSET f.waiting, Fits(f, l, fit), NEW g, TakesAll(f, g, l, fit)
  PROVE  Shares(g, seen \union {l})
<1> DEFINE t == f.proc
           kept == ClosedOn(t, l) \union fit
           W == f.waiting
           P == f.plan
<1>1. /\ l \in Launches /\ t \in Table /\ P \in SomePlan
      /\ W \in SUBSET Procs /\ f.lines \in SUBSET Launches /\ seen \in SUBSET Launches
      /\ \A m \in Launches : P[m] \in SUBSET Procs
  BY LinesToFillAreLaunches DEF Carried, Progress, Table, SomePlan
<1>2. /\ \A p \in W : Open(t, p) /\ ~Closed(t, p) /\ Known(proc, p)
      /\ \A p \in W : t[p].need = proc[p].need
      /\ \A p \in ClosedOn(t, l) : p \in Procs /\ ~Open(t, p) /\ Closed(t, p) /\ t[p].line = l
  BY <1>1, KnownStates DEF Shares, ClosedOn, On, Carried
<1>3. /\ g.proc = t
      /\ g.waiting = W \ fit
      /\ g.lines = f.lines \union {l}
      /\ g.plan = [P EXCEPT ![l] = kept]
  BY <1>2 DEF TakesAll
<1>4. g.plan[l] = kept /\ \A m \in Launches : m # l => g.plan[m] = P[m]
  BY <1>1, <1>3 DEF SomePlan
<1>5. P[l] = {}
  BY <1>1 DEF Carried, Shares
<1>6. OpenIn(t, kept) = fit
  BY <1>2 DEF OpenIn
<1>7. /\ \A p \in W : \A m \in Launches : p \notin P[m]
      /\ f.lines \subseteq seen
  BY DEF Shares
<1>8. Total(t, fit) <= Remaining(l) /\ (fit # W => Total(t, fit) = Remaining(l))
  BY DEF Fits, TakesAll
<1>9. \A p \in g.waiting : Open(t, p)
  BY <1>2, <1>3
<1>10. \A p \in Procs : Open(t, p) => p \in g.waiting \/ \E m \in g.lines : p \in g.plan[m]
  <2> TAKE p \in Procs
  <2> HAVE Open(t, p)
  <2>1. CASE p \in fit
    BY <1>3, <1>4, <2>1
  <2>2. CASE p \in W \ fit
    BY <1>3, <2>2
  <2>3. CASE p \notin W
    <3>1. PICK m \in f.lines : p \in P[m]
      BY <2>3 DEF Shares
    <3>2. m # l /\ m \in Launches
      BY <1>1, <1>5, <3>1
    <3> QED BY <1>3, <1>4, <3>1, <3>2
  <2> QED BY <2>1, <2>2, <2>3
<1>11. \A m \in Launches : \A p \in g.plan[m] : p \notin g.waiting
  <2> SUFFICES ASSUME NEW m \in Launches, NEW p \in g.plan[m], p \in g.waiting
               PROVE  FALSE
    OBVIOUS
  <2>1. CASE m = l
    BY <1>2, <1>3, <1>4, <2>1
  <2>2. CASE m # l
    BY <1>3, <1>4, <1>7, <2>2
  <2> QED BY <2>1, <2>2
<1>12. \A m, n \in Launches : m # n => \A p \in g.plan[m] : p \notin g.plan[n]
  <2>1. ASSUME NEW m \in Launches, m # l, NEW p \in P[m]
        PROVE  p \notin kept
    <3>1. Closed(t, p) => t[p].line = m
      BY <2>1 DEF Shares
    <3> QED BY <1>2, <1>7, <2>1, <3>1
  <2>2. \A m, n \in Launches : m # n => \A p \in P[m] : p \notin P[n]
    BY DEF Shares
  <2> HIDE DEF kept
  <2> QED BY <1>4, <2>1, <2>2
<1>13. \A m \in Launches : \A p \in g.plan[m] : Closed(t, p) => t[p].line = m
  <2>1. \A p \in kept : Closed(t, p) => t[p].line = l
    BY <1>2
  <2>2. \A m \in Launches : \A p \in P[m] : Closed(t, p) => t[p].line = m
    BY DEF Shares
  <2> HIDE DEF kept
  <2> QED BY <1>4, <2>1, <2>2
<1>14. \A m \in g.lines : ClosedOn(t, m) \subseteq g.plan[m]
  <2>1. \A m \in f.lines : ClosedOn(t, m) \subseteq P[m]
    BY DEF Shares
  <2> QED BY <1>1, <1>3, <1>4, <2>1
<1>15. \A m \in seen \union {l} : Total(t, OpenIn(t, g.plan[m])) <= Remaining(m)
  <2>1. \A m \in seen : Total(t, OpenIn(t, P[m])) <= Remaining(m)
    BY DEF Shares
  <2>2. \A m \in seen : g.plan[m] = P[m]
    BY <1>1, <1>4
  <2>3. Total(t, OpenIn(t, g.plan[l])) <= Remaining(l)
    BY <1>4, <1>6, <1>8
  <2> QED BY <2>1, <2>2, <2>3
<1>16. ASSUME g.waiting # {}
       PROVE  /\ g.lines = seen \union {l}
              /\ \A m \in seen \union {l} : Total(t, OpenIn(t, g.plan[m])) = Remaining(m)
  <2>1. /\ f.lines = seen
        /\ \A m \in seen : Total(t, OpenIn(t, P[m])) = Remaining(m)
    BY DEF Shares
  <2>2. \A m \in seen : g.plan[m] = P[m]
    BY <1>1, <1>4
  <2>3. Total(t, OpenIn(t, g.plan[l])) = Remaining(l)
    BY <1>3, <1>4, <1>6, <1>8, <1>16
  <2> QED BY <1>3, <2>1, <2>2, <2>3
<1>17. \A m \in Launches : \A p \in OpenIn(t, g.plan[m]) : \A q \in g.waiting :
          DateOf(t, p) <= DateOf(t, q)
  <2> SUFFICES ASSUME NEW m \in Launches, NEW p \in OpenIn(t, g.plan[m]), NEW q \in g.waiting
               PROVE  DateOf(t, p) <= DateOf(t, q)
    OBVIOUS
  <2>1. CASE m # l
    BY <1>3, <1>4, <2>1 DEF Shares
  <2>2. CASE m = l
    <3>1. p \in fit /\ q \in W \ fit
      BY <1>3, <1>4, <1>6, <2>2
    <3>2. ProcBefore(proc, p, q)
      BY <3>1 DEF Fits
    <3> QED BY <1>1, <1>2, <3>1, <3>2, BeforeDates DEF Fine
  <2> QED BY <2>1, <2>2
<1>18. g.lines \subseteq seen \union {l}
  BY <1>3, <1>7
<1> HIDE DEF kept, t
<1>19. g.proc = t
  BY <1>3
<1> QED BY <1>9, <1>10, <1>11, <1>12, <1>13, <1>14, <1>15, <1>16, <1>17, <1>18, <1>19
        DEF Shares

\* The shares after a line took fit and a part of the next procurement.
LEMMA TakesPartShares ==
  ASSUME TypeOK, Fine(proc), NEW ids \in SUBSET Procs, \A p \in ids : Known(proc, p),
         NEW f, Carried(f, ids), NEW l \in LinesToFill, Unknown(f.proc) # {},
         NEW seen \in SUBSET LinesToFill, l \notin seen, Shares(f, seen), f.waiting # {},
         NEW fit \in SUBSET f.waiting, Fits(f, l, fit),
         NEW large \in f.waiting, NEW g, TakesPart(f, g, l, fit, large)
  PROVE  Shares(g, seen \union {l})
<1> DEFINE t == f.proc
           u == g.proc
           fresh == Fresh(t)
           rest == Remaining(l) - Total(t, fit)
           kept == ClosedOn(t, l) \union fit \union {fresh}
           W == f.waiting
           P == f.plan
<1>1. /\ l \in Launches /\ t \in Table /\ P \in SomePlan
      /\ W \in SUBSET Procs /\ f.lines \in SUBSET Launches /\ seen \in SUBSET Launches
      /\ \A m \in Launches : P[m] \in SUBSET Procs
      /\ Sound(t)
  BY LinesToFillAreLaunches DEF Carried, Progress, Table, SomePlan, Fine
<1>2. /\ \A p \in W : Open(t, p) /\ ~Closed(t, p) /\ Known(proc, p) /\ Known(t, p)
      /\ \A p \in W : t[p].need = proc[p].need
      /\ \A p \in ClosedOn(t, l) : p \in Procs /\ ~Open(t, p) /\ Closed(t, p) /\ t[p].line = l
  BY <1>1, KnownStates DEF Shares, ClosedOn, On, Carried
<1>3. /\ fresh \in Procs /\ ~Known(t, fresh) /\ fresh # large
      /\ IsSplit(t, u, large, fresh, rest, t[large].state)
  <2>1. \E p \in Procs : ~Known(t, p)
    BY DEF Unknown
  <2>2. rest \in Int
    <3>1. fit \in SUBSET Procs
      BY <1>1
    <3> QED BY <1>1, <3>1, TotalType, LineTypes
  <2>3. large \in Procs /\ Known(t, large) /\ t[large].state \in ProcStates
    BY <1>1, <1>2, TableValue
  <2>4. u = Split(t, large, rest, t[large].state)
    BY DEF TakesPart
  <2> HIDE DEF u, rest
  <2>5. /\ Fresh(t) \in Procs /\ ~Known(t, Fresh(t)) /\ Fresh(t) # large
        /\ IsSplit(t, Split(t, large, rest, t[large].state), large, Fresh(t), rest, t[large].state)
    BY <1>1, <2>1, <2>2, <2>3, SplitFacts
  <2> QED BY <2>4, <2>5
\* Only large and the new procurement differ, and neither is planned yet.
<1>4. /\ u \in Table
      /\ u[fresh].qty = rest /\ u[fresh].need = t[large].need
      /\ u[large].need = t[large].need
      /\ \A p \in Procs : p # fresh =>
           /\ Open(u, p) <=> Open(t, p)
           /\ Closed(u, p) <=> Closed(t, p)
           /\ u[p].line = t[p].line /\ u[p].need = t[p].need
      /\ Open(u, fresh) /\ ~Closed(u, fresh)
  <2>1. Open(t, large)
    BY <1>2
  <2>2. Open(u, fresh)
    BY <1>3, <2>1 DEF IsSplit, Open
  <2>3. u \in Table
    BY <1>3 DEF IsSplit
  <2>4. ~Closed(u, fresh)
    BY <1>3, <2>2, <2>3, KnownStates
  <2>5. ASSUME NEW p \in Procs, p # fresh
        PROVE  /\ Open(u, p) <=> Open(t, p)
               /\ Closed(u, p) <=> Closed(t, p)
               /\ u[p].line = t[p].line /\ u[p].need = t[p].need
    <3>1. CASE p = large
      BY <1>3, <3>1 DEF IsSplit, Open, Closed
    <3>2. CASE p # large
      BY <1>3, <2>5, <3>2 DEF IsSplit, Open, Closed
    <3> QED BY <3>1, <3>2
  <2>6. /\ u[fresh].qty = rest /\ u[fresh].need = t[large].need
        /\ u[large].need = t[large].need
    BY <1>3 DEF IsSplit
  <2> QED BY <2>2, <2>3, <2>4, <2>5, <2>6
<1>5. /\ fresh \notin W /\ large \in W \ fit
      /\ \A m \in Launches : fresh \notin P[m] /\ large \notin P[m]
      /\ ~Open(t, fresh) /\ ~Closed(t, fresh)
      /\ fresh \notin ClosedOn(t, l)
  <2>1. large \in W \ fit
    BY DEF TakesPart
  <2>2. \A m \in Launches : fresh \notin P[m] /\ large \notin P[m]
    BY <1>3 DEF Carried, Shares
  <2> QED BY <1>1, <1>2, <1>3, <2>1, <2>2, KnownStates
<1>6. /\ g.waiting = W \ fit
      /\ g.lines = f.lines \union {l}
      /\ g.plan = [P EXCEPT ![l] = kept]
  BY <1>2, <1>5 DEF TakesPart
<1>7. g.plan[l] = kept /\ \A m \in Launches : m # l => g.plan[m] = P[m]
  BY <1>1, <1>6 DEF SomePlan
<1>8. /\ \A p \in W : \A m \in Launches : p \notin P[m]
      /\ f.lines \subseteq seen
  BY DEF Shares
<1> HIDE DEF fresh, u, t, rest
<1>9. P[l] = {}
  BY <1>1, <1>8 DEF Carried
\* The totals
<1>10. \A p \in Procs : p \notin {large, fresh} => u[p].qty = t[p].qty
  BY <1>3 DEF IsSplit
<1>11. Total(u, OpenIn(u, kept)) = Remaining(l)
  <2>1. OpenIn(u, kept) = fit \union {fresh}
    <3>1. \A p \in fit : p \in Procs /\ p # fresh /\ Open(t, p)
      BY <1>1, <1>2, <1>5
    <3>2. \A p \in ClosedOn(t, l) : p \in Procs /\ p # fresh /\ ~Open(t, p)
      BY <1>2, <1>5
    <3> QED BY <1>4, <3>1, <3>2 DEF OpenIn
  <2>2. fit \in SUBSET Procs /\ fresh \notin fit
    BY <1>1, <1>5
  <2>3. Total(u, fit) = Total(t, fit)
    <3>1. \A p \in fit : u[p].qty = t[p].qty
      BY <1>5, <1>10, <2>2
    <3> QED BY <1>1, <2>2, <3>1, TotalSame
  <2>4. Total(u, fit \union {fresh}) = Total(u, fit) + u[fresh].qty
    BY <1>3, <1>4, <2>2, TotalAdd
  <2>5. Total(t, fit) \in Int /\ Remaining(l) \in Nat
    BY <1>1, <2>2, TotalType, LineTypes
  <2>6. u[fresh].qty = Remaining(l) - Total(t, fit)
    BY <1>4 DEF rest, t
  <2>7. Total(u, OpenIn(u, kept)) = Total(u, fit \union {fresh})
    <3> HIDE DEF kept
    <3> QED BY <2>1, Zenon
  <2> QED BY <2>3, <2>4, <2>5, <2>6, <2>7
<1>12. ASSUME NEW m \in Launches
       PROVE  /\ OpenIn(u, P[m]) = OpenIn(t, P[m])
              /\ Total(u, OpenIn(u, P[m])) = Total(t, OpenIn(t, P[m]))
  <2>1. /\ P[m] \in SUBSET Procs /\ large \notin P[m] /\ fresh \notin P[m]
    BY <1>1, <1>5
  <2>2. OpenIn(u, P[m]) = OpenIn(t, P[m])
    BY <1>4, <2>1 DEF OpenIn
  <2>3. OpenIn(t, P[m]) \in SUBSET Procs
    BY <2>1 DEF OpenIn
  <2>4. \A p \in OpenIn(t, P[m]) : u[p].qty = t[p].qty
    BY <1>10, <2>1 DEF OpenIn
  <2>5. Total(u, OpenIn(t, P[m])) = Total(t, OpenIn(t, P[m]))
    BY <1>1, <2>3, <2>4, TotalSame
  <2> QED BY <2>2, <2>5
<1>13. \A p \in g.waiting : Open(u, p)
  BY <1>1, <1>2, <1>4, <1>5, <1>6
<1>14. \A p \in Procs : Open(u, p) => p \in g.waiting \/ \E m \in g.lines : p \in g.plan[m]
  <2> TAKE p \in Procs
  <2> HAVE Open(u, p)
  <2>1. CASE p \in fit \/ p = fresh
    BY <1>6, <1>7, <2>1
  <2>2. CASE p \in W \ fit
    BY <1>6, <2>2
  <2>3. CASE p \notin W /\ p # fresh
    <3>1. PICK m \in f.lines : p \in P[m]
      BY <1>4, <2>3 DEF Shares, t
    <3>2. m # l /\ m \in Launches
      BY <1>1, <1>9, <3>1
    <3> QED BY <1>6, <1>7, <3>1, <3>2
  <2> QED BY <2>1, <2>2, <2>3
<1>15. \A m \in Launches : \A p \in g.plan[m] : p \notin g.waiting
  <2> SUFFICES ASSUME NEW m \in Launches, NEW p \in g.plan[m], p \in g.waiting
               PROVE  FALSE
    OBVIOUS
  <2>1. CASE m = l
    BY <1>2, <1>5, <1>6, <1>7, <2>1
  <2>2. CASE m # l
    BY <1>6, <1>7, <1>8, <2>2
  <2> QED BY <2>1, <2>2
<1>16. \A m, n \in Launches : m # n => \A p \in g.plan[m] : p \notin g.plan[n]
  <2>1. ASSUME NEW m \in Launches, m # l, NEW p \in P[m]
        PROVE  p \notin kept
    <3>1. Closed(t, p) => t[p].line = m
      BY <2>1 DEF Shares, t
    <3> QED BY <1>2, <1>5, <1>8, <2>1, <3>1
  <2>2. \A m, n \in Launches : m # n => \A p \in P[m] : p \notin P[n]
    BY DEF Shares
  <2> HIDE DEF kept
  <2> QED BY <1>7, <2>1, <2>2
<1>17. \A m \in Launches : \A p \in g.plan[m] : Closed(u, p) => u[p].line = m
  <2>1. \A p \in kept : Closed(u, p) => u[p].line = l
    <3>1. \A p \in fit : ~Closed(u, p)
      BY <1>1, <1>2, <1>4, <1>5
    <3>2. \A p \in ClosedOn(t, l) : u[p].line = l
      BY <1>2, <1>4, <1>5
    <3> QED BY <1>4, <3>1, <3>2
  <2>2. \A m \in Launches : \A p \in P[m] : Closed(u, p) => u[p].line = m
    <3> SUFFICES ASSUME NEW m \in Launches, NEW p \in P[m], Closed(u, p)
                 PROVE  u[p].line = m
      OBVIOUS
    <3>1. p \in Procs /\ p # fresh
      BY <1>1, <1>5
    <3>2. Closed(t, p)
      BY <1>4, <3>1
    <3>3. t[p].line = m
      BY <3>2 DEF Shares, t
    <3> QED BY <1>4, <3>1, <3>3
  <2> HIDE DEF kept
  <2> QED BY <1>7, <2>1, <2>2
<1>18. \A m \in g.lines : ClosedOn(u, m) \subseteq g.plan[m]
  <2>1. \A m \in f.lines : ClosedOn(t, m) \subseteq P[m]
    BY DEF Shares, t
  <2>2. \A m \in Launches : ClosedOn(u, m) \subseteq ClosedOn(t, m)
    <3> SUFFICES ASSUME NEW m \in Launches, NEW p \in ClosedOn(u, m)
                 PROVE  p \in ClosedOn(t, m)
      OBVIOUS
    <3>1. p \in Procs /\ Closed(u, p) /\ u[p].line = m
      BY DEF ClosedOn, On
    <3>2. p # fresh
      BY <1>4, <3>1
    <3>3. Closed(t, p) /\ t[p].line = m
      BY <1>4, <3>1, <3>2
    <3> QED BY <3>1, <3>3 DEF ClosedOn, On, Closed
  <2> QED BY <1>1, <1>6, <1>7, <2>1, <2>2
<1>19. \A m \in seen \union {l} : Total(u, OpenIn(u, g.plan[m])) <= Remaining(m)
  <2>1. \A m \in seen : Total(t, OpenIn(t, P[m])) <= Remaining(m)
    BY DEF Shares, t
  <2>2. \A m \in seen : g.plan[m] = P[m]
    BY <1>1, <1>7
  <2>3. Total(u, OpenIn(u, g.plan[l])) <= Remaining(l)
    <3>1. Remaining(l) \in Nat
      BY <1>1, LineTypes
    <3> QED BY <1>7, <1>11, <3>1
  <2>4. \A m \in seen : Total(u, OpenIn(u, g.plan[m])) <= Remaining(m)
    BY <1>1, <1>12, <2>1, <2>2
  <2> QED BY <2>3, <2>4
<1>20. ASSUME g.waiting # {}
       PROVE  /\ g.lines = seen \union {l}
              /\ \A m \in seen \union {l} : Total(u, OpenIn(u, g.plan[m])) = Remaining(m)
  <2>1. /\ f.lines = seen
        /\ \A m \in seen : Total(t, OpenIn(t, P[m])) = Remaining(m)
    BY DEF Shares, t
  <2>2. \A m \in seen : g.plan[m] = P[m]
    BY <1>1, <1>7
  <2>3. Total(u, OpenIn(u, g.plan[l])) = Remaining(l)
    BY <1>7, <1>11
  <2>4. \A m \in seen : Total(u, OpenIn(u, g.plan[m])) = Remaining(m)
    BY <1>1, <1>12, <2>1, <2>2
  <2> QED BY <1>6, <2>1, <2>3, <2>4
<1>21. \A m \in Launches : \A p \in OpenIn(u, g.plan[m]) : \A q \in g.waiting :
          DateOf(u, p) <= DateOf(u, q)
  <2> SUFFICES ASSUME NEW m \in Launches, NEW p \in OpenIn(u, g.plan[m]), NEW q \in g.waiting
               PROVE  DateOf(u, p) <= DateOf(u, q)
    OBVIOUS
  <2>1. q \in W \ fit /\ q \in Procs /\ q # fresh
    BY <1>1, <1>5, <1>6
  <2>2. u[q].need = proc[q].need /\ u[large].need = proc[large].need
    BY <1>2, <1>4, <1>5, <2>1
  <2>3. CASE m # l
    <3>1. p \in OpenIn(t, P[m]) /\ p \in Procs
      BY <1>1, <1>7, <1>12, <2>3 DEF OpenIn
    <3>2. DateOf(t, p) <= DateOf(t, q)
      BY <2>1, <3>1 DEF Shares, t
    <3>3. p # fresh
      BY <1>5, <3>1 DEF OpenIn
    <3>4. u[p].need = t[p].need /\ u[q].need = t[q].need
      BY <1>4, <2>1, <3>1, <3>3
    <3> QED BY <3>2, <3>4 DEF DateOf
  <2>4. CASE m = l
    <3>1. p \in fit \/ p = fresh
      <4>1. p \in kept /\ Open(u, p)
        BY <1>7, <2>4 DEF OpenIn
      <4>2. p \in ClosedOn(t, l) => ~Open(u, p)
        BY <1>2, <1>4, <1>5
      <4> QED BY <4>1, <4>2
    <3>2. CASE p \in fit
      <4>1. ProcBefore(proc, p, q)
        BY <2>1, <3>2 DEF Fits
      <4>2. p \in Procs /\ u[p].need = proc[p].need /\ Known(proc, p) /\ Known(proc, q)
        BY <1>1, <1>2, <1>4, <1>5, <2>1, <3>2
      <4> QED BY <2>1, <2>2, <4>1, <4>2, BeforeDates DEF Fine
    <3>3. CASE p = fresh
      <4>1. u[p].need = u[large].need
        BY <1>4, <3>3
      <4>2. DateOf(u, p) = DateOf(u, large)
        BY <4>1 DEF DateOf
      <4>3. large \in Procs /\ Known(proc, large) /\ Known(proc, q)
        BY <1>1, <1>2, <1>5, <2>1
      <4>4. CASE q = large
        <5>1. DateOf(u, q) = DateOf(proc, q) /\ DateOf(proc, q) \in Nat
          BY <2>2, <4>3, <4>4, DateType DEF DateOf, Fine
        <5> QED BY <4>2, <4>4, <5>1
      <4>5. CASE q # large
        <5>1. ProcBefore(proc, large, q)
          BY <2>1, <4>5 DEF TakesPart
        <5>2. DateOf(u, large) <= DateOf(u, q)
          BY <2>1, <2>2, <4>3, <5>1, BeforeDates DEF Fine
        <5> QED BY <4>2, <5>2
      <4> QED BY <4>4, <4>5
    <3> QED BY <3>1, <3>2, <3>3
  <2> QED BY <2>3, <2>4
<1>22. g.lines \subseteq seen \union {l}
  BY <1>6, <1>8
<1> HIDE DEF kept
<1>23. g.proc = u
  BY DEF u
<1> QED BY <1>13, <1>14, <1>15, <1>16, <1>17, <1>18, <1>19, <1>20, <1>21, <1>22, <1>23
        DEF Shares

\* One turn of the loop keeps the shares.
LEMMA LineShares ==
  ASSUME TypeOK, Fine(proc), NEW ids \in SUBSET Procs, \A p \in ids : Known(proc, p),
         NEW f, Carried(f, ids), NEW l \in LinesToFill, Unknown(f.proc) # {},
         NEW seen \in SUBSET LinesToFill, l \notin seen, Shares(f, seen)
  PROVE  Shares(FirstLineFound[l][f], seen \union {l})
<1> DEFINE g == FirstLineFound[l][f]
<1>1. CASE f.waiting = {}
  <2>1. /\ l \in Launches /\ f \in Progress
        /\ f.lines \in SUBSET Launches /\ f.plan \in SomePlan /\ f.proc \in Table
    BY LinesToFillAreLaunches DEF Carried, Progress, Table
  <2>2. g = f
    BY <1>1, <2>1 DEF FirstLineFound
  <2> HIDE DEF g
  <2>3. f.plan[l] = {}
    BY <2>1 DEF Shares, Carried
  <2>4. Total(f.proc, OpenIn(f.proc, f.plan[l])) <= Remaining(l)
    <3>1. OpenIn(f.proc, f.plan[l]) = {}
      BY <2>3 DEF OpenIn
    <3>2. Total(f.proc, OpenIn(f.proc, f.plan[l])) = 0
      BY <3>1, TotalNone
    <3>3. Remaining(l) \in Nat
      BY <2>1, LineTypes
    <3> QED BY <3>2, <3>3
  <2>5. f.lines \subseteq seen \union {l}
    BY DEF Shares
  <2>6. \A m \in seen \union {l} : Total(f.proc, OpenIn(f.proc, f.plan[m])) <= Remaining(m)
    BY <2>4 DEF Shares
  <2>7. Shares(f, seen \union {l})
    BY <1>1, <2>5, <2>6 DEF Shares
  <2> QED BY <2>2, <2>7 DEF g
<1>2. CASE f.waiting # {}
  <2>1. PICK fit \in SUBSET f.waiting :
            /\ Fits(f, l, fit)
            /\ \/ TakesAll(f, g, l, fit)
               \/ \E large \in f.waiting : TakesPart(f, g, l, fit, large)
    BY <1>2, LineTakes DEF Fine
  <2> HIDE DEF g
  <2>2. CASE TakesAll(f, g, l, fit)
    <3>1. Shares(g, seen \union {l})
      BY <1>2, <2>1, <2>2, TakesAllShares
    <3> QED BY <3>1 DEF g
  <2>3. CASE \E large \in f.waiting : TakesPart(f, g, l, fit, large)
    <3>1. PICK large \in f.waiting : TakesPart(f, g, l, fit, large)
      BY <2>3
    <3>2. Shares(g, seen \union {l})
      BY <1>2, <2>1, <3>1, TakesPartShares
    <3> QED BY <3>2 DEF g
  <2> QED BY <2>1, <2>2, <2>3
<1> QED BY <1>1, <1>2

-----------------------------------------------------------------------------
(* compute_which_procs_for_lines *)

\* Lines have a last one in their order.
LEMMA LastLine ==
  ASSUME TypeOK, NEW S \in SUBSET LinesToFill, S # {}
  PROVE  LastIn(S, LineBefore) \in S
<1> DEFINE R == {ss \in S \X S : LineBefore(ss[2], ss[1])}
<1>1. S \in SUBSET Launches
  BY LinesToFillAreLaunches
<1>2. \A l \in S : l \in Int /\ line[l].date \in Int /\ Remaining(l) \in Int
  BY <1>1, LineTypes DEF Launches
<1>3. \A l, m \in S : <<l, m>> \in R <=> LineBefore(m, l)
  OBVIOUS
<1> HIDE DEF R
<1>4. \A l, m, n \in S : <<l, m>> \in R /\ <<m, n>> \in R => <<l, n>> \in R
  <2> TAKE l \in S, m \in S, n \in S
  <2> HAVE <<l, m>> \in R /\ <<m, n>> \in R
  <2>1. LineBefore(m, l) /\ LineBefore(n, m)
    BY <1>3
  <2>2. LineBefore(n, l)
    <3> DEFINE a == StateOf(l) = "draft"
               b == StateOf(m) = "draft"
               c == StateOf(n) = "draft"
    <3>1. LineBefore(n, l) <=>
            \/ ~c /\ a
            \/ /\ c <=> a
               /\ \/ line[n].date < line[l].date
                  \/ line[n].date = line[l].date /\ Remaining(n) > Remaining(l)
                  \/ line[n].date = line[l].date /\ Remaining(n) = Remaining(l) /\ n < l
      BY DEF LineBefore
    <3>2. /\ \/ ~b /\ a
             \/ /\ b <=> a
                /\ \/ line[m].date < line[l].date
                   \/ line[m].date = line[l].date /\ Remaining(m) > Remaining(l)
                   \/ line[m].date = line[l].date /\ Remaining(m) = Remaining(l) /\ m < l
          /\ \/ ~c /\ b
             \/ /\ c <=> b
                /\ \/ line[n].date < line[m].date
                   \/ line[n].date = line[m].date /\ Remaining(n) > Remaining(m)
                   \/ line[n].date = line[m].date /\ Remaining(n) = Remaining(m) /\ n < m
      BY <2>1 DEF LineBefore
    <3> HIDE DEF a, b, c
    <3> QED BY <1>2, <3>1, <3>2
  <2> QED BY <1>3, <2>2
<1>5. \A l \in S : <<l, l>> \notin R
  BY <1>2, <1>3 DEF LineBefore
<1>6. ASSUME NEW l \in S, NEW m \in S
      PROVE  l = m \/ <<l, m>> \in R \/ <<m, l>> \in R
  <2>1. l = m \/ LineBefore(l, m) \/ LineBefore(m, l)
    BY <1>2 DEF LineBefore
  <2> QED BY <1>3, <2>1
<1>7. \E l \in S : \A m \in S \ {l} : <<l, m>> \in R
  <2>1. IsFiniteSet(S)
    BY <1>1, FiniteLaunches
  <2> QED BY <1>4, <1>5, <1>6, <2>1, FirstMember
<1>8. PICK l \in S : \A m \in S \ {l} : <<l, m>> \in R
  BY <1>7
<1>9. ASSUME NEW m \in S \ {l} PROVE LineBefore(m, l)
  <2>1. <<l, m>> \in R
    BY <1>8
  <2> QED BY <1>3, <2>1
<1> QED BY <1>9 DEF LastIn

\* Before the first line: all wait.
NoneSeen(ids) == [proc |-> proc, waiting |-> ids, lines |-> {},
                  plan |-> [l \in Launches |-> {}]]

\* The loop is a fold of FirstLineFound over the lines.
LEMMA LinesFold ==
  ASSUME TypeOK, NEW ids
  PROVE  LET pick == [lines \in SUBSET LinesToFill |-> LastIn(lines, LineBefore)]
         IN  /\ Picks(pick, LinesToFill)
             /\ \E g : /\ Folds(g, LinesToFill, pick, NoneSeen(ids), FirstLineFound)
                       /\ ProcsForLines(ids) = g[LinesToFill]
<1> DEFINE S == LinesToFill
           pick == [lines \in SUBSET S |-> LastIn(lines, LineBefore)]
           Recursion(g) ==
             g = [lines \in SUBSET S |->
                    IF lines = {} THEN NoneSeen(ids)
                    ELSE FirstLineFound[LastIn(lines, LineBefore)]
                                       [g[lines \ {LastIn(lines, LineBefore)}]]]
<1>1. Picks(pick, S)
  <2>1. \A s \in SUBSET S : s # {} => LastIn(s, LineBefore) \in s
    BY LastLine
  <2> HIDE DEF S
  <2> QED BY <2>1 DEF Picks
<1>2. ProcsForLines(ids) = (CHOOSE g : Recursion(g))[S]
  BY DEF ProcsForLines, NoneSeen
<1>3. ASSUME NEW g
      PROVE  Folds(g, S, pick, NoneSeen(ids), FirstLineFound) <=> Recursion(g)
  <2>1. \A s \in SUBSET S : pick[s] = LastIn(s, LineBefore)
    OBVIOUS
  <2> HIDE DEF pick, S
  <2> QED BY <2>1 DEF Folds
<1>4. \E g : Folds(g, S, pick, NoneSeen(ids), FirstLineFound)
  <2>1. IsFiniteSet(S)
    BY LinesToFillAreLaunches, FiniteLaunches
  <2> HIDE DEF pick, S
  <2> QED BY <1>1, <2>1, FoldExists
<1> HIDE DEF Recursion, pick, S
<1>5. Recursion(CHOOSE g : Recursion(g))
  BY <1>3, <1>4
<1>6. Folds(CHOOSE g : Recursion(g), S, pick, NoneSeen(ids), FirstLineFound)
  BY <1>3, <1>5
<1> QED BY <1>1, <1>2, <1>6 DEF pick, S

\* What the loop over the lines leaves, and for a launch that nothing disturbed,
\* how it shares the open procurements.
LEMMA LinesPlanned ==
  ASSUME TypeOK, Fine(proc), NEW ids \in SUBSET Procs, \A p \in ids : Known(proc, p),
         Cardinality(LinesToFill) <= Cardinality(Unknown(proc))
  PROVE  /\ Carried(ProcsForLines(ids), ids)
         /\ ids = {p \in Procs : Open(proc, p)} => Shares(ProcsForLines(ids), LinesToFill)
<1> DEFINE S == LinesToFill
           pick == [lines \in SUBSET S |-> LastIn(lines, LineBefore)]
           base == NoneSeen(ids)
<1>1. /\ Picks(pick, S)
      /\ \E g : /\ Folds(g, S, pick, base, FirstLineFound)
                /\ ProcsForLines(ids) = g[S]
  BY LinesFold
<1> HIDE DEF pick
<1>2. PICK g : /\ Folds(g, S, pick, base, FirstLineFound)
               /\ ProcsForLines(ids) = g[S]
  BY <1>1
<1>3. S \in SUBSET Launches /\ IsFiniteSet(S)
  BY LinesToFillAreLaunches, FiniteLaunches
<1>4. IsFiniteSet(Unknown(proc)) /\ Unknown(proc) \in SUBSET Procs
  BY FiniteProcs DEF Unknown
<1>5. \A s \in SUBSET S : s = {} => g[s] = base
  BY <1>2 DEF Folds
<1>6. \A s \in SUBSET S : s # {} =>
         pick[s] \in s /\ g[s] = FirstLineFound[pick[s]][g[s \ {pick[s]}]]
  BY <1>1, <1>2 DEF Folds, Picks
<1> DEFINE All == ids = {p \in Procs : Open(proc, p)}
           Good(s) == /\ Carried(g[s], ids)
                      /\ Cardinality(Unknown(proc)) <=
                            Cardinality(Unknown(g[s].proc)) + Cardinality(s)
                      /\ All => Shares(g[s], s)
           Bad == {s \in SUBSET S : ~Good(s)}
<1>7. /\ base.proc = proc /\ base.waiting = ids /\ base.lines = {}
      /\ base.plan = [l \in Launches |-> {}]
      /\ base \in Progress
  BY DEF NoneSeen, Progress, SomePlan, TypeOK
<1>8. Carried(base, ids)
  <2> HIDE DEF base
  <2> QED BY <1>7 DEF Carried, Grows
<1>9. ASSUME All PROVE Shares(base, {})
  <2> HIDE DEF base
  <2>1. \A p \in ids : Open(proc, p)
    BY <1>9
  <2>2. \A p \in Procs : Open(proc, p) => p \in ids
    BY <1>9
  <2>3. \A l \in Launches : base.plan[l] = {}
    BY <1>7
  <2>4. \A l \in Launches : OpenIn(proc, base.plan[l]) = {}
    BY <2>3 DEF OpenIn
  <2> QED BY <1>7, <2>1, <2>2, <2>3, <2>4 DEF Shares
<1>10. ASSUME NEW s \in SUBSET S, s = {} PROVE Good(s)
  <2>1. g[s] = base
    BY <1>5, <1>10
  <2>2. Cardinality(Unknown(proc)) \in Nat /\ Cardinality(s) = 0
    BY <1>4, <1>10, FS_CardinalityType, FS_EmptySet
  <2>3. All => Shares(base, s)
    BY <1>9, <1>10
  <2> HIDE DEF base, All
  <2> QED BY <1>7, <1>8, <2>1, <2>2, <2>3
<1>11. ASSUME NEW s \in SUBSET S, s # {}, Good(s \ {pick[s]}) PROVE Good(s)
  <2> DEFINE l == pick[s]
             r == s \ {l}
             f == g[r]
  <2>1. /\ l \in s /\ l \in S /\ l \in LinesToFill /\ r \in SUBSET S
        /\ r \in SUBSET LinesToFill /\ l \notin r
        /\ g[s] = FirstLineFound[l][f] /\ r \union {l} = s
    BY <1>6, <1>11
  <2>2. Carried(f, ids) /\ (All => Shares(f, r))
    BY <1>11
  <2>3. Cardinality(Unknown(proc)) <= Cardinality(Unknown(f.proc)) + Cardinality(r)
    BY <1>11
  <2>4. /\ IsFiniteSet(s) /\ IsFiniteSet(r) /\ Cardinality(s) \in Nat
        /\ Cardinality(r) = Cardinality(s) - 1
        /\ Cardinality(s) <= Cardinality(S) /\ Cardinality(S) \in Nat
    <3>1. IsFiniteSet(s) /\ Cardinality(s) <= Cardinality(S)
      BY <1>3, FS_Subset
    <3>2. IsFiniteSet(r) /\ Cardinality(r) = Cardinality(s) - 1
      <4>1. IsFiniteSet(s \ {l})
        BY <3>1, FS_Subset
      <4>2. Cardinality(s \ {l}) = Cardinality(s) - 1
        BY <2>1, <3>1, FS_RemoveElement
      <4> QED BY <4>1, <4>2
    <3> QED BY <1>3, <3>1, <3>2, FS_CardinalityType
  <2>5. IsFiniteSet(Unknown(f.proc)) /\ Cardinality(Unknown(f.proc)) \in Nat
    <3>1. Unknown(f.proc) \in SUBSET Procs
      BY DEF Unknown
    <3>2. IsFiniteSet(Unknown(f.proc))
      BY <3>1, FiniteProcs
    <3> QED BY <3>2, FS_CardinalityType
  <2>6. Cardinality(Unknown(proc)) \in Nat
    BY <1>4, FS_CardinalityType
  <2> HIDE DEF l, f, r
  <2>7. Unknown(f.proc) # {}
    <3>1. Cardinality(Unknown(f.proc)) > 0
      BY <2>3, <2>4, <2>5, <2>6
    <3> QED BY <3>1, FS_EmptySet
  <2>8. /\ Carried(g[s], ids)
        /\ Cardinality(Unknown(f.proc)) <= Cardinality(Unknown(g[s].proc)) + 1
    <3>1. /\ Carried(FirstLineFound[l][f], ids)
          /\ Cardinality(Unknown(f.proc)) <= Cardinality(Unknown(FirstLineFound[l][f].proc)) + 1
      BY <2>1, <2>2, <2>7, LineCarries
    <3> QED BY <2>1, <3>1
  <2>9. All => Shares(g[s], s)
    <3> HAVE All
    <3>1. Shares(FirstLineFound[l][f], r \union {l})
      BY <2>1, <2>2, <2>7, LineShares
    <3> QED BY <2>1, <3>1, Zenon
  <2>10. IsFiniteSet(Unknown(g[s].proc)) /\ Cardinality(Unknown(g[s].proc)) \in Nat
    <3>1. Unknown(g[s].proc) \in SUBSET Procs
      BY DEF Unknown
    <3>2. IsFiniteSet(Unknown(g[s].proc))
      BY <3>1, FiniteProcs
    <3> QED BY <3>2, FS_CardinalityType
  <2>11. Cardinality(Unknown(proc)) <= Cardinality(Unknown(g[s].proc)) + Cardinality(s)
    BY <2>3, <2>4, <2>5, <2>6, <2>8, <2>10
  <2> QED BY <2>8, <2>9, <2>11
<1>12. Bad = {}
  <2> SUFFICES ASSUME Bad # {} PROVE FALSE
    OBVIOUS
  <2>1. PICK s \in Bad : \A r \in Bad : r \subseteq s => r = s
    <3>1. Bad \in SUBSET SUBSET S
      OBVIOUS
    <3> HIDE DEF Bad
    <3> QED BY <1>3, <3>1, SmallestSet
  <2>2. s \in SUBSET S /\ ~Good(s)
    OBVIOUS
  <2> HIDE DEF Good, S, All, base
  <2>3. s # {}
    BY <1>10, <2>2
  <2>4. pick[s] \in s
    BY <1>6, <2>2, <2>3
  <2>5. s \ {pick[s]} \in SUBSET S /\ s \ {pick[s]} \notin Bad
    BY <2>1, <2>2, <2>4
  <2>6. Good(s \ {pick[s]})
    BY <2>5
  <2> QED BY <1>11, <2>2, <2>3, <2>6
<1>13. Good(S)
  <2>1. S \in SUBSET S
    OBVIOUS
  <2> HIDE DEF Good, S
  <2> QED BY <1>12, <2>1
<1> QED BY <1>2, <1>13

-----------------------------------------------------------------------------
(* The inductive invariant *)

\* The procurements that a job names exist in table t, whatever they have become.
JobFits(j, t, orders) ==
  /\ j.kind \in {"seller", "procs", "fill"} => \A p \in j.ids : Known(t, p)
  /\ j.kind \in {"procs", "fill"} => j.ids # {}
  /\ j.kind = "fill" => orders[j.order] # "none"
  /\ j.kind = "redistribute" => \A l \in Launches : \A p \in j.plan[l] : Known(t, p)

JobsFine == \A j \in jobs : JobFits(j, proc, order)

\* What TypeOK says of a job of launch n or before.
JobType(j, n) ==
  /\ j.launch \in 1 .. n
  /\ j.kind \in {"seller", "procs", "fill"} => j.ids \subseteq Procs
  /\ j.kind = "fill" => j.order \in Launches
  /\ j.kind = "redistribute" => j.plan \in SomePlan /\ j.lines \subseteq Launches

\* A line is on an order that was made and not deleted.
LinesFine ==
  \A l \in Launches :
    line[l] = Unused \/ /\ line[l].order \in Launches
                        /\ order[line[l].order] \notin {"none", "deleted"}

\* Launches to come made no order and no line.
LaunchesFine ==
  \A l \in Launches : l > launches => line[l] = Unused /\ order[l] = "none"

Inv == TypeOK /\ Fine(proc) /\ JobsFine /\ LinesFine /\ LaunchesFine

-----------------------------------------------------------------------------
(* New lines *)

\* The maximum of two numbers.
LEMMA MaxOfTwo ==
  ASSUME NEW a \in Int, NEW b \in Int
  PROVE  /\ Max({a, b}) \in {a, b}
         /\ Max({a, b}) >= a /\ Max({a, b}) >= b
<1>1. \E x \in {a, b} : \A y \in {a, b} : x >= y
  <2>1. CASE a >= b
    BY <2>1
  <2>2. CASE b >= a
    BY <2>2
  <2> QED BY <2>1, <2>2
<1> QED BY <1>1 DEF Max

\* Rounding up to full packagings.
LEMMA Packs ==
  ASSUME NEW q \in Nat, NEW k \in Nat \ {0}
  PROVE  LET n == ((q + k - 1) \div k) * k
         IN  n \in Nat /\ q <= n /\ n < q + k
<1> DEFINE a == q + k - 1
           d == a \div k
           r == a % k
<1>1. a \in Nat
  OBVIOUS
<1>2. d \in Int /\ r \in 0 .. k - 1 /\ a = k * d + r
  BY <1>1
<1> HIDE DEF a, d, r
<1>3. d >= 0
  BY <1>1, <1>2
<1>4. d * k = k * d /\ d * k \in Int
  BY <1>2
<1>5. d * k = a - r
  BY <1>1, <1>2, <1>4
<1>6. d * k >= 0
  BY <1>2, <1>3
<1>7. q <= d * k /\ d * k < q + k
  BY <1>2, <1>5 DEF a
<1> QED BY <1>4, <1>6, <1>7 DEF a, d

\* _calc_new_qty_price: enough, and less than a packaging more than asked for.
LEMMA LineQtyBounds ==
  ASSUME NEW need \in Int
  PROVE  /\ LineQty(need) \in Nat
         /\ need <= LineQty(need)
         /\ LineQty(need) < Max({need, MinQty}) + Packaging
<1>1. MinQty \in Nat /\ Packaging \in Nat \ {0}
  BY PurchaseAssumption
<1>2. Max({need, MinQty}) \in Nat /\ Max({need, MinQty}) >= need
  BY <1>1, MaxOfTwo
<1>3. CASE need <= 0
  BY <1>1, <1>2, <1>3 DEF LineQty
<1>4. CASE ~(need <= 0)
  <2> DEFINE q == Max({need, MinQty})
             n == ((q + Packaging - 1) \div Packaging) * Packaging
  <2>1. LineQty(need) = n
    BY <1>4 DEF LineQty
  <2>2. q \in Nat /\ q >= need
    BY <1>2
  <2> HIDE DEF q
  <2>3. n \in Nat /\ q <= n /\ n < q + Packaging
    BY <1>1, <2>2, Packs
  <2> HIDE DEF n
  <2>4. need <= n /\ n < q + Packaging
    BY <2>2, <2>3
  <2> QED BY <2>1, <2>3, <2>4 DEF q
<1> QED BY <1>3, <1>4

\* A line made for some procurements.
LEMMA NewLineFacts ==
  ASSUME NEW t, Sound(t), NEW o \in Launches, NEW ids \in SUBSET Procs, ids # {},
         \A p \in ids : Known(t, p)
  PROVE  /\ NewLine(t, o, ids) \in [order : Launches \union {0}, qty : Nat, received : Nat, date : Nat]
         /\ NewLine(t, o, ids).order = o
         /\ NewLine(t, o, ids).received = 0
         /\ NewLine(t, o, ids).qty = LineQty(Total(t, ids))
         /\ NewLine(t, o, ids) # Unused
<1> DEFINE D == {DateOf(t, p) : p \in ids}
<1>1. D \in SUBSET Nat /\ D # {}
  BY DateType
<1>2. PICK n \in D : \A m \in D : n <= m
  <2> HIDE DEF D
  <2> QED BY <1>1, SmallestNumber
<1>3. Min(D) \in Nat
  <2> HIDE DEF D
  <2> QED BY <1>1, <1>2 DEF Min
<1>4. LineQty(Total(t, ids)) \in Nat
  BY TotalType, LineQtyBounds DEF Sound
<1>5. o # 0
  BY DEF Launches
<1> HIDE DEF D
<1>6. NewLine(t, o, ids) = [order |-> o, qty |-> LineQty(Total(t, ids)), received |-> 0,
                            date |-> Min(D)]
  BY DEF NewLine, D
<1> QED BY <1>3, <1>4, <1>5, <1>6 DEF Unused

-----------------------------------------------------------------------------
(* Every step keeps the invariant *)

\* The parts of the invariant.
LEMMA InvParts ==
  ASSUME Inv
  PROVE  /\ TypeOK /\ Fine(proc) /\ Sound(proc) /\ Placed(proc) /\ Conserved(proc)
         /\ proc \in Table
  BY DEF Inv, Fine, Sound

\* Nothing but the table and jobs changes: what is left to show.
LEMMA FineKept ==
  ASSUME Fine(proc'), UNCHANGED <<order, line>>
  PROVE  Fine(proc)'
  BY DEF Fine, Placed, StateOf

\* Jobs that stay keep naming procurements that exist.
LEMMA JobsStay ==
  ASSUME Inv, Grows(proc, proc'),
         \A o \in Launches : order[o] # "none" => order'[o] # "none",
         NEW j \in jobs
  PROVE  JobFits(j, proc', order')
<1>1. JobType(j, launches)
  BY DEF Inv, TypeOK, JobType
<1>2. JobFits(j, proc, order)
  BY DEF Inv, JobsFine
<1>3. \A p \in Procs : Known(proc, p) => Known(proc', p)
  BY DEF Grows
<1>4. \A l \in Launches : j.kind = "redistribute" => j.plan[l] \subseteq Procs
  BY <1>1 DEF JobType, SomePlan
<1> QED BY <1>1, <1>2, <1>3, <1>4 DEF JobFits, JobType

\* A table that stays loses no procurement.
LEMMA GrowsItself ==
  /\ \A t : Grows(t, t)
  /\ proc' = proc => Grows(proc, proc')
  BY DEF Grows

\* The jobs after a step: old ones, and new ones to be looked at.
LEMMA JobsNext ==
  ASSUME Inv, Grows(proc, proc'),
         \A o \in Launches : order[o] # "none" => order'[o] # "none",
         launches' = launches,
         NEW New, jobs' \subseteq jobs \union New,
         \A j \in New : JobType(j, launches) /\ JobFits(j, proc', order')
  PROVE  JobsFine' /\ \A j \in jobs' : JobType(j, launches')
<1>1. \A j \in jobs : JobFits(j, proc', order') /\ JobType(j, launches)
  BY JobsStay DEF Inv, TypeOK, JobType
<1>2. \A j \in jobs' : JobFits(j, proc', order')
  BY <1>1
<1>3. \A j \in jobs' : JobType(j, launches')
  BY <1>1
<1> QED BY <1>2, <1>3 DEF JobsFine

\* The type invariant, conjunct by conjunct
LEMMA TypeNext ==
  ASSUME proc' \in [Procs -> SomeProc],
         order' \in [Launches -> OrderStates],
         line' \in [Launches -> [order : Launches \union {0}, qty : Nat, received : Nat, date : Nat]],
         \A l \in Launches : line'[l].received <= line'[l].qty,
         \A j \in jobs' : JobType(j, launches'),
         launches' \in 0 .. MaxLaunches, settled' \in BOOLEAN,
         receipts' \in 0 .. MaxReceipts, changes' \in 0 .. MaxChanges
  PROVE  TypeOK'
  BY DEF TypeOK, JobType

\* At first nothing is ordered.
LEMMA InitInv == Init => Inv
<1> SUFFICES ASSUME Init PROVE Inv
  OBVIOUS
<1>1. proc = [p \in Procs |-> NoProc]
  BY DEF Init
<1>2. NoProc \in SomeProc
  BY NeedsDomain DEF NoProc, SomeProc, ProcStates
<1>3. \A p \in Procs : proc[p] = NoProc /\ ~Known(proc, p)
  BY <1>1 DEF Known, NoProc
<1>4. Sound(proc)
  BY <1>1, <1>2, <1>3 DEF Sound, Table
<1>5. Placed(proc)
  BY <1>3 DEF Placed, NoProc
<1>6. Conserved(proc)
  <2>1. \A p \in Procs : proc[p].need = 0
    BY <1>3 DEF NoProc
  <2>2. \A d \in DOMAIN Needs : d # 0
    BY NeedsDomain
  <2>3. \A d \in DOMAIN Needs : \A p \in Procs : p \notin Parts(proc, d)
    BY <2>1, <2>2 DEF Parts
  <2>4. \A d \in DOMAIN Needs : Parts(proc, d) \subseteq Procs
    BY DEF Parts
  <2> QED BY <2>3, <2>4 DEF Conserved
<1>7. TypeOK
  <2>1. proc \in [Procs -> SomeProc]
    BY <1>1, <1>2
  <2>2. 0 \in 0 .. MaxLaunches /\ 0 \in 0 .. MaxReceipts /\ 0 \in 0 .. MaxChanges
    BY PurchaseAssumption
  <2>3. line \in [Launches -> [order : Launches \union {0}, qty : Nat, received : Nat, date : Nat]]
    BY DEF Init, Unused
  <2>4. \A l \in Launches : line[l].received <= line[l].qty
    BY DEF Init, Unused
  <2>5. order \in [Launches -> OrderStates]
    BY DEF Init, OrderStates
  <2> QED BY <2>1, <2>2, <2>3, <2>4, <2>5 DEF Init, TypeOK
<1>8. JobsFine /\ LinesFine /\ LaunchesFine
  BY DEF Init, JobsFine, LinesFine, LaunchesFine
<1> QED BY <1>4, <1>5, <1>6, <1>7, <1>8 DEF Inv, Fine

\* A launch only names what is open.
LEMMA LaunchInv == ASSUME Inv, Launch PROVE Inv'
<1>1. UNCHANGED <<proc, order, line, receipts, changes>>
  BY DEF Launch, Bounds
<1>2. Fine(proc)'
  BY <1>1, FineKept DEF Inv
<1>3. launches \in 0 .. MaxLaunches /\ launches' = launches + 1 /\ launches' \in 1 .. MaxLaunches
      /\ launches \in Nat
  BY PurchaseAssumption DEF Inv, TypeOK, Launch
<1> DEFINE new == [kind |-> "seller", launch |-> launches', ids |-> Candidates]
<1>4. jobs' = jobs \union {new}
  BY DEF Launch
<1>5. Candidates \subseteq Procs /\ \A p \in Candidates : Known(proc, p)
  BY DEF Candidates, Open, Known
<1>6. new.kind = "seller" /\ new.ids = Candidates /\ new.launch = launches'
  OBVIOUS
<1> HIDE DEF new
<1>7. JobsFine'
  <2>1. \A j \in jobs : JobFits(j, proc', order')
    BY <1>1, JobsStay, GrowsItself
  <2>2. JobFits(new, proc', order')
    BY <1>1, <1>5, <1>6 DEF JobFits
  <2> QED BY <1>4, <2>1, <2>2 DEF JobsFine
<1>9. TypeOK'
  <2>1. \A j \in jobs : JobType(j, launches')
    <3>1. \A j \in jobs : JobType(j, launches)
      BY DEF Inv, TypeOK, JobType
    <3>2. \A j \in 1 .. launches : j \in 1 .. launches'
      BY <1>3
    <3> QED BY <3>1, <3>2 DEF JobType
  <2>2. JobType(new, launches')
    BY <1>3, <1>5, <1>6 DEF JobType
  <2>3. settled' \in BOOLEAN
    BY DEF Launch
  <2>4. \A j \in jobs' : JobType(j, launches')
    BY <1>4, <2>1, <2>2
  <2>5. launches' \in 0 .. MaxLaunches
    BY <1>3
  <2> QED BY <1>1, <2>3, <2>4, <2>5, TypeNext DEF Inv, TypeOK
<1>8. LinesFine' /\ LaunchesFine'
  <2>1. \A l \in Launches : l > launches' => l > launches
    BY <1>3 DEF Launches
  <2> QED BY <1>1, <2>1 DEF Inv, LinesFine, LaunchesFine
<1> QED BY <1>2, <1>7, <1>8, <1>9 DEF Inv

\* A step that adds no job, and leaves the orders and lines alone.
LEMMA QuietInv ==
  ASSUME Inv, Fine(proc'), Grows(proc, proc'), UNCHANGED <<order, line, launches>>,
         jobs' \subseteq jobs, settled' \in BOOLEAN,
         receipts' \in 0 .. MaxReceipts, changes' \in 0 .. MaxChanges
  PROVE  Inv'
<1>1. Fine(proc)'
  BY FineKept
<1>2. JobsFine' /\ \A j \in jobs' : JobType(j, launches')
  <2>1. \A j \in jobs' : j \in jobs
    OBVIOUS
  <2>2. \A j \in jobs' : JobFits(j, proc', order')
    BY <2>1, JobsStay
  <2>3. \A j \in jobs' : JobType(j, launches')
    BY <2>1 DEF Inv, TypeOK, JobType
  <2> QED BY <2>2, <2>3 DEF JobsFine
<1>3. proc' \in [Procs -> SomeProc]
  BY DEF Fine, Sound, Table
<1>4. TypeOK'
  BY <1>2, <1>3, TypeNext DEF Inv, TypeOK
<1>5. LinesFine' /\ LaunchesFine'
  BY DEF Inv, LinesFine, LaunchesFine
<1> QED BY <1>1, <1>2, <1>4, <1>5 DEF Inv

\* The plan of a late job names procurements that still exist.
LEMMA RedistributeInv == ASSUME Inv, NEW j \in jobs, Redistribute(j) PROVE Inv'
<1>1. j.kind = "redistribute" /\ JobFits(j, proc, order) /\ JobType(j, launches)
  BY DEF Inv, JobsFine, TypeOK, JobType, Redistribute
<1>2. j.lines \in SUBSET Launches /\ \A l \in j.lines : \A p \in j.plan[l] : Known(proc, p)
  BY <1>1 DEF JobType, JobFits
<1>3. proc' = Redistributed(proc, j.plan, j.lines)
  BY DEF Redistribute
<1>4. Fine(proc') /\ Grows(proc, proc')
  BY <1>2, <1>3, RedistributedFine, InvParts
<1>5. /\ UNCHANGED <<order, line, launches, settled, receipts, changes>>
      /\ jobs' \subseteq jobs
  BY DEF Redistribute, Bounds
<1>6. /\ settled' \in BOOLEAN /\ receipts' \in 0 .. MaxReceipts
      /\ changes' \in 0 .. MaxChanges
  BY <1>5 DEF Inv, TypeOK
<1> QED BY <1>4, <1>5, <1>6, QuietInv

\* A failed job leaves no trace.
LEMMA CreateDraftLinesFailsInv ==
  ASSUME Inv, NEW j \in jobs, CreateDraftLinesFails(j) PROVE Inv'
<1>1. /\ UNCHANGED <<proc, order, line, launches, settled, receipts, changes>>
      /\ jobs' \subseteq jobs
  BY DEF CreateDraftLinesFails, Bounds
<1>2. Fine(proc') /\ Grows(proc, proc')
  BY <1>1, GrowsItself, InvParts
<1>3. /\ settled' \in BOOLEAN /\ receipts' \in 0 .. MaxReceipts
      /\ changes' \in 0 .. MaxChanges
  BY <1>1 DEF Inv, TypeOK
<1> QED BY <1>1, <1>2, <1>3, QuietInv

\* Setting the state of one procurement that is on a line or closed.
LEMMA SetState ==
  ASSUME NEW t, Fine(t), NEW p \in Procs, Known(t, p), NEW s \in {"cancel", "done"},
         NEW u, u = [t EXCEPT ![p].state = s]
  PROVE  Fine(u) /\ Grows(t, u)
<1>1. t \in Table /\ t[p] \in SomeProc
  BY TableValue DEF Fine, Sound
<1>2. /\ [t[p] EXCEPT !.state = s] \in SomeProc
      /\ [t[p] EXCEPT !.state = s].state = s
      /\ [t[p] EXCEPT !.state = s].need = t[p].need
      /\ [t[p] EXCEPT !.state = s].qty = t[p].qty
  BY <1>1 DEF SomeProc, ProcStates
<1>3. /\ u \in Table
      /\ u[p] = [t[p] EXCEPT !.state = s]
      /\ \A q \in Procs : q # p => u[q] = t[q]
  BY <1>1, <1>2 DEF Table
<1>4. Relabels(t, u)
  <2>1. ASSUME NEW q \in Procs
        PROVE  /\ u[q].need = t[q].need /\ u[q].qty = t[q].qty
               /\ Known(t, q) => Known(u, q)
               /\ ~Known(t, q) => u[q] = t[q]
    <3>1. CASE q = p
      BY <1>2, <1>3, <3>1 DEF Known
    <3>2. CASE q # p
      BY <1>3, <3>2 DEF Known
    <3> QED BY <3>1, <3>2
  <2> QED BY <1>3, <2>1 DEF Relabels
<1>5. Sound(u) /\ Conserved(u) /\ Grows(t, u)
  BY <1>4, RelabelsFact DEF Fine
<1>6. Placed(u)
  <2>1. u[p].state \notin {"running", "buy_to_run"}
    BY <1>2, <1>3
  <2>2. \A q \in Procs : q # p => u[q] = t[q]
    BY <1>3
  <2> QED BY <2>1, <2>2 DEF Fine, Placed
<1> QED BY <1>5, <1>6 DEF Fine

\* A cancelled procurement stays on its line ...
LEMMA CancelNeedInv == ASSUME Inv, NEW p \in Procs, CancelNeed(p) PROVE Inv'
<1>1. Fine(proc') /\ Grows(proc, proc')
  <2>1. Known(proc, p)
    BY DEF CancelNeed, Open, Known
  <2>2. proc' = [proc EXCEPT ![p].state = "cancel"]
    BY DEF CancelNeed
  <2> QED BY <2>1, <2>2, SetState, InvParts
<1>2. /\ UNCHANGED <<order, line, launches, jobs, receipts>>
      /\ settled' = FALSE /\ changes < MaxChanges /\ changes' = changes + 1
  BY DEF CancelNeed, Changed, Disturbs
<1>3. changes' \in 0 .. MaxChanges /\ receipts' \in 0 .. MaxReceipts
  BY <1>2, PurchaseAssumption DEF Inv, TypeOK
<1> QED BY <1>1, <1>2, <1>3, QuietInv

\* ... and so does one that the check finds done.
LEMMA CheckInv == ASSUME Inv, NEW p \in Procs, Check(p) PROVE Inv'
<1>1. Fine(proc') /\ Grows(proc, proc')
  <2>1. Known(proc, p)
    BY DEF Check, Known
  <2>2. proc' = [proc EXCEPT ![p].state = "done"]
    BY DEF Check
  <2> QED BY <2>1, <2>2, SetState, InvParts
<1>2. /\ UNCHANGED <<order, line, launches, jobs, receipts, changes>>
      /\ settled' = FALSE
  BY DEF Check, Disturbs, Bounds
<1>3. changes' \in 0 .. MaxChanges /\ receipts' \in 0 .. MaxReceipts
  BY <1>2 DEF Inv, TypeOK
<1> QED BY <1>1, <1>2, <1>3, QuietInv

\* A new need is the only part of itself.
LEMMA RaiseNeedInv == ASSUME Inv, NEW d \in DOMAIN Needs, RaiseNeed(d) PROVE Inv'
<1> DEFINE f == Fresh(proc)
           new == [NoProc EXCEPT !.state = "buy_to_run", !.qty = Needs[d].qty, !.need = d]
<1>1. f \in Procs /\ ~Known(proc, f)
  <2>1. \E p \in Procs : ~Known(proc, p)
    BY DEF RaiseNeed, Room, Known
  <2> QED BY <2>1, FreshFact
<1>2. /\ Sound(proc) /\ Placed(proc) /\ Conserved(proc) /\ proc \in Table
  BY InvParts
<1>3. d \in 0 .. Len(Needs) /\ Needs[d].qty \in Nat /\ d # 0
  <2>1. Needs[d] \in [date : Nat, qty : Nat \ {0}]
    <3> DEFINE D == [date : Nat, qty : Nat \ {0}]
    <3>1. Needs \in Seq(D)
      BY PurchaseAssumption
    <3> HIDE DEF D
    <3>2. Needs[d] \in D
      BY <3>1
    <3> QED BY <3>2 DEF D
  <2> QED BY <2>1, NeedsDomain
<1>4. /\ new \in SomeProc
      /\ new.state = "buy_to_run" /\ new.qty = Needs[d].qty /\ new.need = d
      /\ new.line = NoLine
  <2>1. NoProc \in SomeProc /\ NoProc.line = NoLine
    BY NeedsDomain DEF NoProc, SomeProc, ProcStates
  <2>2. ASSUME NEW r \in SomeProc, NEW q \in Int
        PROVE  /\ [r EXCEPT !.state = "buy_to_run", !.qty = q, !.need = d] \in SomeProc
               /\ [r EXCEPT !.state = "buy_to_run", !.qty = q, !.need = d].state = "buy_to_run"
               /\ [r EXCEPT !.state = "buy_to_run", !.qty = q, !.need = d].qty = q
               /\ [r EXCEPT !.state = "buy_to_run", !.qty = q, !.need = d].need = d
               /\ [r EXCEPT !.state = "buy_to_run", !.qty = q, !.need = d].line = r.line
    BY <1>3 DEF SomeProc, ProcStates
  <2>3. Needs[d].qty \in Int
    BY <1>3
  <2> QED BY <2>1, <2>2, <2>3
<1>5. proc' = [proc EXCEPT ![f] = new]
  BY DEF RaiseNeed
<1> HIDE DEF new, f
<1>6. /\ proc' \in Table
      /\ proc'[f] = new
      /\ \A p \in Procs : p # f => proc'[p] = proc[p]
  BY <1>1, <1>2, <1>4, <1>5 DEF Table
<1>7. Sound(proc')
  <2>1. ASSUME NEW p \in Procs
        PROVE  IF Known(proc', p) THEN proc'[p].need \in DOMAIN Needs ELSE proc'[p] = NoProc
    <3>1. CASE p = f
      BY <1>4, <1>6, <3>1 DEF Known
    <3>2. CASE p # f
      BY <1>2, <1>6, <3>2 DEF Known, Sound
    <3> QED BY <3>1, <3>2
  <2> QED BY <1>6, <2>1 DEF Sound
<1>8. Placed(proc')
  BY <1>2, <1>4, <1>6 DEF Placed
<1>9. Conserved(proc')
  <2>1. \A p \in Procs : proc[p].need # d
    BY DEF RaiseNeed
  <2>2. proc[f].need = 0
    BY <1>1, <1>2 DEF Sound, NoProc
  <2>3. Parts(proc', d) = {f}
    BY <1>1, <1>4, <1>6, <2>1 DEF Parts
  <2>4. Total(proc', Parts(proc', d)) = Needs[d].qty
    <3>1. {f} \in SUBSET Procs /\ f \in {f} /\ {f} \ {f} = {}
      BY <1>1
    <3>2. Total(proc', {f}) = proc'[f].qty + Total(proc', {f} \ {f})
      BY <1>6, <3>1, TotalRemove
    <3>3. Total(proc', {f} \ {f}) = 0
      BY <3>1, TotalNone
    <3>4. Total(proc', Parts(proc', d)) = Total(proc', {f})
      BY <2>3, Zenon
    <3> QED BY <1>3, <1>4, <1>6, <3>2, <3>3, <3>4
  <2>5. ASSUME NEW e \in DOMAIN Needs, e # d, Parts(proc', e) # {}
        PROVE  Total(proc', Parts(proc', e)) = Needs[e].qty
    <3>1. e # 0
      BY NeedsDomain
    <3>2. Parts(proc', e) = Parts(proc, e) /\ f \notin Parts(proc, e)
      BY <1>4, <1>6, <2>2, <2>5, <3>1 DEF Parts
    <3>3. Total(proc', Parts(proc, e)) = Total(proc, Parts(proc, e))
      <4>1. Parts(proc, e) \in SUBSET Procs
        BY DEF Parts
      <4>2. \A p \in Parts(proc, e) : proc'[p].qty = proc[p].qty
        BY <1>6, <3>2, <4>1
      <4> QED BY <1>2, <4>1, <4>2, TotalSame
    <3>4. Parts(proc, e) # {}
      BY <2>5, <3>2
    <3>5. Total(proc', Parts(proc', e)) = Total(proc', Parts(proc, e))
      BY <3>2, Zenon
    <3> QED BY <1>2, <3>3, <3>4, <3>5 DEF Conserved
  <2> QED BY <2>4, <2>5 DEF Conserved
<1>10. Grows(proc, proc')
  BY <1>1, <1>6 DEF Grows, Known
<1>11. /\ UNCHANGED <<order, line, launches, jobs, receipts, changes>>
       /\ settled' = FALSE
  BY DEF RaiseNeed, Disturbs, Bounds
<1>12. changes' \in 0 .. MaxChanges /\ receipts' \in 0 .. MaxReceipts
  BY <1>11 DEF Inv, TypeOK
<1> QED BY <1>7, <1>8, <1>9, <1>10, <1>11, <1>12, QuietInv DEF Fine

LineType == [order : Launches \union {0}, qty : Nat, received : Nat, date : Nat]

\* Orders and lines may change, as long as they stay what they should be.
OrdersNext ==
  /\ order' \in [Launches -> OrderStates]
  /\ line' \in [Launches -> LineType]
  /\ \A l \in Launches : line'[l].received <= line'[l].qty
  /\ \A o \in Launches : order[o] # "none" => order'[o] # "none"
  /\ LinesFine'
  /\ LaunchesFine'

\* A step that adds no job.
LoudInv ==
  /\ Sound(proc') /\ Conserved(proc') /\ Placed(proc)' /\ Grows(proc, proc')
  /\ OrdersNext
  /\ launches' = launches
  /\ settled' \in BOOLEAN
  /\ receipts' \in 0 .. MaxReceipts
  /\ changes' \in 0 .. MaxChanges

\* So far no job is added.
LEMMA LoudNext == ASSUME Inv, LoudInv, jobs' \subseteq jobs PROVE Inv'
<1>1. Fine(proc)'
  BY DEF Fine, LoudInv
<1>2. JobsFine' /\ \A j \in jobs' : JobType(j, launches')
  <2>1. \A j \in jobs' : j \in jobs
    OBVIOUS
  <2>2. \A j \in jobs' : JobFits(j, proc', order')
    BY <2>1, JobsStay DEF LoudInv, OrdersNext
  <2>3. \A j \in jobs' : JobType(j, launches')
    BY <2>1 DEF Inv, TypeOK, JobType, LoudInv
  <2> QED BY <2>2, <2>3 DEF JobsFine
<1>3. TypeOK'
  <2>1. proc' \in [Procs -> SomeProc]
    BY DEF LoudInv, Sound, Table
  <2>2. launches' \in 0 .. MaxLaunches
    BY DEF LoudInv, Inv, TypeOK
  <2> QED BY <1>2, <2>1, <2>2, TypeNext DEF LoudInv, OrdersNext, LineType
<1> QED BY <1>1, <1>2, <1>3 DEF Inv, LoudInv, OrdersNext

\* ... and one that adds jobs.
LEMMA LoudJobs ==
  ASSUME Inv, LoudInv, NEW New, jobs' \subseteq jobs \union New,
         \A j \in New : JobType(j, launches) /\ JobFits(j, proc', order')
  PROVE  Inv'
<1>1. Fine(proc)'
  BY DEF Fine, LoudInv
<1>2. JobsFine' /\ \A j \in jobs' : JobType(j, launches')
  BY JobsNext DEF LoudInv, OrdersNext
<1>3. TypeOK'
  <2>1. proc' \in [Procs -> SomeProc]
    BY DEF LoudInv, Sound, Table
  <2>2. launches' \in 0 .. MaxLaunches
    BY DEF LoudInv, Inv, TypeOK
  <2> QED BY <1>2, <2>1, <2>2, TypeNext DEF LoudInv, OrdersNext, LineType
<1> QED BY <1>1, <1>2, <1>3 DEF Inv, LoudInv, OrdersNext

\* What was placed remains so when no line loses its order.
LEMMA StaysPlaced ==
  ASSUME Sound(proc'), Placed(proc'),
         \A l \in Launches \union {NoLine} : StateOf(l) # "none" => StateOf(l)' # "none"
  PROVE  Placed(proc)'
<1>1. \A p \in Procs : proc'[p].line \in Launches \union {NoLine}
  BY TableValue DEF Sound
<1> QED BY <1>1 DEF Placed

\* Writing the quantities of a line does not change where it is.
LEMMA LineWritten ==
  ASSUME TypeOK, NEW l \in Launches, StateOf(l) # "none", NEW new \in LineType,
         new.order = line[l].order, line' = [line EXCEPT ![l] = new]
  PROVE  /\ line' \in [Launches -> LineType]
         /\ line'[l] = new
         /\ \A m \in Launches : m # l => line'[m] = line[m]
         /\ line[l] # Unused
         /\ LinesFine => line'[l] # Unused
<1>1. line \in [Launches -> LineType]
  BY DEF TypeOK, LineType
<1>2. line[l] # Unused
  BY DEF StateOf
<1>3. LinesFine => new # Unused
  <2>1. LinesFine => new.order \in Launches
    BY <1>2 DEF LinesFine
  <2>2. 0 \notin Launches
    BY DEF Launches
  <2> QED BY <2>1, <2>2 DEF Unused
<1> QED BY <1>1, <1>2, <1>3

\* The buyer edits a line ...
LEMMA SetLineQtyInv ==
  ASSUME Inv, NEW l \in Launches, NEW qty \in LineQtys, SetLineQty(l, qty) PROVE Inv'
<1>1. qty \in Nat
  <2> DEFINE w == [d \in DOMAIN Needs |-> Needs[d].qty]
  <2>1. qty \in 0 .. SumFunctionOnSet(w, DOMAIN w)
    BY DEF LineQtys, SumFunction
  <2>2. SumFunctionOnSet(w, DOMAIN w) \in Int
    <3> DEFINE D == [date : Nat, qty : Nat \ {0}]
    <3>1. IsFiniteSet(DOMAIN Needs)
      BY NeedsDomain, FS_Interval
    <3>2. Needs \in Seq(D)
      BY PurchaseAssumption
    <3>3. \A d \in DOMAIN Needs : Needs[d] \in D
      <4> HIDE DEF D
      <4> QED BY <3>2
    <3>4. \A d \in DOMAIN w : w[d] \in Int
      BY <3>3
    <3>5. IsFiniteSet(DOMAIN w)
      BY <3>1
    <3> HIDE DEF w
    <3> QED BY <3>4, <3>5, SumType
  <2> HIDE DEF w
  <2> QED BY <2>1, <2>2
<1>2. line[l] \in LineType /\ StateOf(l) # "none"
  BY DEF Inv, TypeOK, LineType, SetLineQty
<1> DEFINE new == [line[l] EXCEPT !.qty = qty]
<1>3. /\ new \in LineType /\ new.order = line[l].order
      /\ new.received = line[l].received /\ new.qty = qty
  BY <1>1, <1>2 DEF LineType
<1>4. line' = [line EXCEPT ![l] = new]
  BY DEF SetLineQty
<1> HIDE DEF new
<1>5. /\ line' \in [Launches -> LineType]
      /\ line'[l] = new
      /\ \A m \in Launches : m # l => line'[m] = line[m]
      /\ line[l] # Unused
      /\ line'[l] # Unused
  BY <1>2, <1>3, <1>4, LineWritten DEF Inv
<1>6. UNCHANGED <<proc, order, launches, jobs, receipts>> /\ settled' = FALSE
  BY DEF SetLineQty, Changed, Disturbs
<1>7. changes' \in 0 .. MaxChanges
  BY PurchaseAssumption DEF Inv, TypeOK, SetLineQty, Changed
<1>8. \A m \in Launches \union {NoLine} : StateOf(m)' = StateOf(m)
  BY <1>3, <1>5, <1>6 DEF StateOf
<1>9. Placed(proc)'
  <2>1. Sound(proc') /\ Placed(proc')
    BY <1>6, InvParts
  <2>2. \A m \in Launches \union {NoLine} : StateOf(m) # "none" => StateOf(m)' # "none"
    BY <1>8
  <2> QED BY <2>1, <2>2, StaysPlaced
<1>10. OrdersNext
  <2>1. \A m \in Launches : line'[m].received <= line'[m].qty
    BY <1>2, <1>3, <1>5 DEF Inv, TypeOK, SetLineQty
  <2>2. LinesFine'
    BY <1>3, <1>5, <1>6 DEF Inv, LinesFine
  <2>3. LaunchesFine'
    BY <1>5, <1>6 DEF Inv, LaunchesFine
  <2> QED BY <1>5, <1>6, <2>1, <2>2, <2>3 DEF OrdersNext, Inv, TypeOK
<1>11. Sound(proc') /\ Conserved(proc') /\ Grows(proc, proc')
  BY <1>6, InvParts, GrowsItself
<1>12. LoudInv
  BY <1>6, <1>7, <1>9, <1>10, <1>11 DEF LoudInv, Inv, TypeOK
<1> QED BY <1>6, <1>12, LoudNext

\* Orders change state, and none goes back to "none".
LEMMA OrderWritten ==
  ASSUME Inv, order' \in [Launches -> OrderStates], line' = line, launches' = launches,
         \A o \in Launches : order[o] # "none" =>
            /\ order'[o] # "none"
            /\ order[o] # "deleted" => order'[o] # "deleted",
         \A o \in Launches : o > launches => order'[o] = "none"
  PROVE  /\ OrdersNext
         /\ \A l \in Launches \union {NoLine} : StateOf(l) # "none" => StateOf(l)' # "none"
<1>1. \A l \in Launches : line[l] = Unused \/ line[l].order \in Launches
  BY DEF Inv, LinesFine
<1>2. \A l \in Launches \union {NoLine} : StateOf(l) # "none" => StateOf(l)' # "none"
  BY <1>1 DEF StateOf
<1>3. LinesFine'
  BY DEF Inv, LinesFine
<1>4. LaunchesFine'
  BY DEF Inv, LaunchesFine
<1> QED BY <1>2, <1>3, <1>4 DEF OrdersNext, Inv, TypeOK, LineType

\* ... confirms an order ...
LEMMA ApproveInv == ASSUME Inv, NEW o \in Launches, Approve(o) PROVE Inv'
<1>1. /\ UNCHANGED <<proc, line, launches, jobs, receipts, changes>> /\ settled' = FALSE
      /\ order[o] = "draft" /\ order' = [order EXCEPT ![o] = "approved"]
  BY DEF Approve, Disturbs, Bounds
<1>2. order' \in [Launches -> OrderStates]
  BY <1>1 DEF Inv, TypeOK, OrderStates
<1>3. \A n \in Launches : n # o => order'[n] = order[n]
  BY <1>1 DEF Inv, TypeOK
<1>4. order'[o] = "approved"
  BY <1>1 DEF Inv, TypeOK
<1>5. \A n \in Launches : order[n] # "none" =>
            /\ order'[n] # "none"
            /\ order[n] # "deleted" => order'[n] # "deleted"
  BY <1>1, <1>3, <1>4
<1>6. \A n \in Launches : n > launches => order'[n] = "none"
  BY <1>1, <1>3 DEF Inv, LaunchesFine
<1>7. /\ OrdersNext
      /\ \A l \in Launches \union {NoLine} : StateOf(l) # "none" => StateOf(l)' # "none"
  BY <1>1, <1>2, <1>5, <1>6, OrderWritten
<1>8. Sound(proc') /\ Conserved(proc') /\ Grows(proc, proc') /\ Placed(proc')
  BY <1>1, InvParts, GrowsItself
<1>9. Placed(proc)'
  BY <1>7, <1>8, StaysPlaced
<1>10. LoudInv
  BY <1>1, <1>7, <1>8, <1>9 DEF LoudInv, Inv, TypeOK
<1> QED BY <1>1, <1>10, LoudNext

\* ... or cancels one, whose procurements leave its lines.
LEMMA CancelOrderInv == ASSUME Inv, NEW o \in Launches, CancelOrder(o) PROVE Inv'
<1> DEFINE S == UNION {{p \in On(proc, l) : proc[p].state = "running"} : l \in LinesOf(o)}
<1>1. /\ UNCHANGED <<line, launches, jobs, receipts>> /\ settled' = FALSE
      /\ order[o] \in {"draft", "approved"} /\ order' = [order EXCEPT ![o] = "cancel"]
      /\ proc' = RemoveProcsFromLines(proc, S)
  BY DEF CancelOrder, Changed, Disturbs
<1>2. changes' \in 0 .. MaxChanges
  BY PurchaseAssumption DEF Inv, TypeOK, CancelOrder, Changed
<1>3. order' \in [Launches -> OrderStates]
  BY <1>1 DEF Inv, TypeOK, OrderStates
<1>4. \A n \in Launches : n # o => order'[n] = order[n]
  BY <1>1 DEF Inv, TypeOK
<1>5. order'[o] = "cancel"
  BY <1>1 DEF Inv, TypeOK
<1>6. \A n \in Launches : order[n] # "none" =>
            /\ order'[n] # "none"
            /\ order[n] # "deleted" => order'[n] # "deleted"
  BY <1>1, <1>4, <1>5
<1>7. \A n \in Launches : n > launches => order'[n] = "none"
  BY <1>1, <1>4 DEF Inv, LaunchesFine
<1>8. /\ OrdersNext
      /\ \A l \in Launches \union {NoLine} : StateOf(l) # "none" => StateOf(l)' # "none"
  BY <1>1, <1>3, <1>6, <1>7, OrderWritten
<1>9. Fine(proc') /\ Grows(proc, proc')
  <2>1. \A p \in S : Known(proc, p)
    BY DEF On, Known
  <2> HIDE DEF S
  <2> QED BY <1>1, <2>1, RemoveFine, InvParts
<1>10. Placed(proc)'
  BY <1>8, <1>9, StaysPlaced DEF Fine
<1>11. LoudInv
  BY <1>1, <1>2, <1>8, <1>9, <1>10 DEF LoudInv, Inv, TypeOK, Fine
<1> QED BY <1>1, <1>11, LoudNext

\* Goods arrive.
LEMMA ReceiveInv ==
  ASSUME Inv, NEW l \in Launches, NEW qty, Receive(l, qty) PROVE Inv'
<1> DEFINE o == line[l].order
           new == [line[l] EXCEPT !.received = @ + qty]
<1>1. /\ UNCHANGED <<launches, jobs, changes>> /\ settled' = FALSE
      /\ line' = [line EXCEPT ![l] = new]
      /\ proc' = ReceivedProcs(proc, l, qty)
      /\ StateOf(l) = "approved"
      /\ qty \in 1 .. Remaining(l)
  <2>1. UNCHANGED <<launches, jobs, changes>> /\ settled' = FALSE
    BY DEF Receive, Disturbs
  <2>2. line' = [line EXCEPT ![l] = new] /\ proc' = ReceivedProcs(proc, l, qty)
    BY DEF Receive
  <2>3. StateOf(l) = "approved" /\ qty \in 1 .. Remaining(l)
    BY DEF Receive
  <2> QED BY <2>1, <2>2, <2>3
<1>2. receipts' \in 0 .. MaxReceipts
  BY PurchaseAssumption DEF Inv, TypeOK, Receive
<1>3. line[l] \in LineType /\ Remaining(l) = line[l].qty - line[l].received /\ Remaining(l) \in Nat
      /\ line[l].qty \in Nat /\ line[l].received \in Nat
  BY LineTypes DEF Inv, TypeOK, LineType, Remaining
<1>4. /\ new \in LineType /\ new.order = line[l].order
      /\ new.received = line[l].received + qty /\ new.qty = line[l].qty
  BY <1>1, <1>3 DEF LineType
<1> HIDE DEF new
<1>5. /\ line' \in [Launches -> LineType]
      /\ line'[l] = new
      /\ \A m \in Launches : m # l => line'[m] = line[m]
      /\ line[l] # Unused
      /\ line'[l] # Unused
  BY <1>1, <1>4, LineWritten DEF Inv
<1>6. o \in Launches /\ order[o] = "approved"
  BY <1>1, <1>5 DEF Inv, LinesFine, StateOf
<1>7. /\ order' \in [Launches -> OrderStates]
      /\ order'[o] \in {"done", "approved"}
      /\ \A n \in Launches : n # o => order'[n] = order[n]
  <2>1. order' = [order EXCEPT ![o] =
           IF \A m \in LinesOf(o) : line'[m].qty = line'[m].received THEN "done" ELSE @]
    BY DEF Receive
  <2>2. order \in [Launches -> OrderStates]
    BY DEF Inv, TypeOK
  <2>3. CASE \A m \in LinesOf(o) : line'[m].qty = line'[m].received
    <3>1. order' = [order EXCEPT ![o] = "done"]
      BY <2>1, <2>3
    <3> QED BY <1>6, <2>2, <3>1 DEF OrderStates
  <2>4. CASE ~(\A m \in LinesOf(o) : line'[m].qty = line'[m].received)
    <3>1. order' = [order EXCEPT ![o] = order[o]]
      BY <2>1, <2>4
    <3> QED BY <1>6, <2>2, <3>1 DEF OrderStates
  <2> QED BY <2>3, <2>4
<1> HIDE DEF o
<1>8. \A m \in Launches : line'[m].received <= line'[m].qty
  <2>1. new.received <= new.qty
    BY <1>1, <1>3, <1>4
  <2> QED BY <1>5, <2>1 DEF Inv, TypeOK
<1>9. \A m \in Launches : (line'[m] = Unused <=> line[m] = Unused) /\ line'[m].order = line[m].order
  BY <1>4, <1>5
<1>10. LinesFine'
  BY <1>6, <1>7, <1>9 DEF Inv, LinesFine
<1>11. LaunchesFine'
  BY <1>1, <1>5, <1>6, <1>7 DEF Inv, LaunchesFine
<1>12. \A n \in Launches : order[n] # "none" => order'[n] # "none"
  BY <1>7
<1>13. OrdersNext
  BY <1>5, <1>7, <1>8, <1>10, <1>11, <1>12 DEF OrdersNext
<1>14. \A m \in Launches \union {NoLine} : StateOf(m) # "none" => StateOf(m)' # "none"
  <2>1. \A m \in Launches : line[m] = Unused \/ line[m].order \in Launches
    BY DEF Inv, LinesFine
  <2> QED BY <1>7, <1>9, <2>1 DEF StateOf
<1>15. Fine(proc') /\ Grows(proc, proc')
  <2>1. \E p \in Procs : ~Known(proc, p)
    BY DEF Receive, Room, Known
  <2>2. qty \in Int /\ StateOf(l) # "none"
    BY <1>1, <1>3
  <2> QED BY <1>1, <2>1, <2>2, ReceivedFine, InvParts
<1>16. Placed(proc)'
  BY <1>14, <1>15, StaysPlaced DEF Fine
<1>17. LoudInv
  BY <1>1, <1>2, <1>13, <1>15, <1>16 DEF LoudInv, Inv, TypeOK, Fine
<1> QED BY <1>1, <1>17, LoudNext

\* The drafts are deleted, and no procurement stays on their lines.
LEMMA LaunchSellerInv == ASSUME Inv, NEW j, LaunchSeller(j) PROVE Inv'
<1> DEFINE drafts == {o \in Launches : order[o] = "draft"}
           lines == UNION {LinesOf(o) : o \in drafts}
           S == UNION {On(proc, l) : l \in lines}
           New == {[kind |-> "procs", launch |-> j.launch, ids |-> ids] : ids \in {j.ids} \ {{}}}
<1>1. /\ j \in jobs /\ j.kind = "seller"
      /\ proc' = RemoveProcsFromLines(proc, S)
      /\ order' = [o \in Launches |-> IF o \in drafts THEN "deleted" ELSE order[o]]
      /\ line' = [l \in Launches |-> IF l \in lines THEN Unused ELSE line[l]]
      /\ jobs' = (jobs \ {j}) \union New
      /\ UNCHANGED <<launches, settled, receipts, changes>>
  BY DEF LaunchSeller, Bounds
<1>2. JobType(j, launches) /\ JobFits(j, proc, order)
  BY <1>1 DEF Inv, JobsFine, TypeOK, JobType
<1>3. /\ \A o \in Launches : o \in drafts <=> order[o] = "draft"
      /\ \A l \in Launches : l \in lines <=> line[l] # Unused /\ order[line[l].order] = "draft"
  <2>1. \A l \in Launches : line[l] # Unused => line[l].order \in Launches
    BY DEF Inv, LinesFine
  <2> QED BY <2>1 DEF LinesOf
<1>4. \A p \in S : Known(proc, p)
  BY DEF On, Known
<1>5. \A p \in Procs : p \in S <=> Known(proc, p) /\ proc[p].line \in lines
  BY DEF On, Known
<1> HIDE DEF lines, drafts, S
<1>6. Fine(proc') /\ Grows(proc, proc')
  BY <1>1, <1>4, RemoveFine, InvParts
<1>7. /\ order' \in [Launches -> OrderStates]
      /\ \A o \in Launches : order[o] # "none" => order'[o] # "none"
      /\ \A o \in Launches : order[o] # "draft" => order'[o] = order[o]
  BY <1>1, <1>3 DEF Inv, TypeOK, OrderStates
<1>8. /\ line' \in [Launches -> LineType]
      /\ \A l \in Launches : line'[l] = Unused \/ (l \notin lines /\ line'[l] = line[l])
      /\ \A l \in Launches : l \notin lines => line'[l] = line[l]
      /\ \A l \in Launches : line'[l].received <= line'[l].qty
  <2>1. Unused \in LineType /\ Unused.received <= Unused.qty
    BY DEF Unused, LineType
  <2>2. line \in [Launches -> LineType] /\ \A l \in Launches : line[l].received <= line[l].qty
    BY DEF Inv, TypeOK, LineType
  <2> QED BY <1>1, <2>1, <2>2
<1>9. LinesFine'
  <2>1. ASSUME NEW l \in Launches, line'[l] # Unused
        PROVE  line'[l].order \in Launches /\ order'[line'[l].order] \notin {"none", "deleted"}
    <3>1. line'[l] = line[l] /\ l \notin lines
      BY <1>8, <2>1
    <3>2. line[l].order \in Launches /\ order[line[l].order] \notin {"none", "deleted"}
      BY <2>1, <3>1 DEF Inv, LinesFine
    <3>3. order[line[l].order] # "draft"
      BY <1>3, <2>1, <3>1
    <3> QED BY <1>7, <3>1, <3>2, <3>3
  <2> QED BY <2>1 DEF LinesFine
<1>10. LaunchesFine'
  BY <1>1, <1>3, <1>7, <1>8 DEF Inv, LaunchesFine
<1>11. OrdersNext
  BY <1>7, <1>8, <1>9, <1>10 DEF OrdersNext
<1>12. Placed(proc)'
  <2>1. ASSUME NEW p \in Procs, proc'[p].state = "running"
        PROVE  StateOf(proc[p].line)' # "none"
    <3>1. p \notin S /\ proc'[p] = proc[p]
      BY <1>1, <2>1, RemoveFacts, InvParts
    <3>2. StateOf(proc[p].line) # "none" /\ Known(proc, p)
      BY <2>1, <3>1, InvParts DEF Placed, Known
    <3>3. proc[p].line \in Launches /\ proc[p].line \notin lines
      <4>1. proc[p].line \in Launches \union {NoLine}
        BY InvParts, TableValue
      <4>2. proc[p].line # NoLine
        BY <3>2 DEF StateOf
      <4> QED BY <1>5, <3>1, <3>2, <4>1, <4>2
    <3>4. line'[proc[p].line] = line[proc[p].line]
      BY <1>8, <3>3
    <3>5. line[proc[p].line] # Unused /\ proc[p].line # NoLine
      BY <3>2 DEF StateOf
    <3>6. order'[line[proc[p].line].order] # "none"
      BY <1>9, <3>3, <3>4, <3>5 DEF LinesFine
    <3> QED BY <3>1, <3>4, <3>5, <3>6 DEF StateOf
  <2>2. \A p \in Procs : proc'[p].state = "buy_to_run" => proc'[p].line = NoLine
    BY <1>6 DEF Fine, Placed
  <2> QED BY <2>1, <2>2 DEF Placed
<1>13. LoudInv
  BY <1>1, <1>6, <1>11, <1>12 DEF LoudInv, Inv, TypeOK, Fine
<1>14. \A i \in New : JobType(i, launches) /\ JobFits(i, proc', order')
  <2> SUFFICES ASSUME NEW i \in New
               PROVE  JobType(i, launches) /\ JobFits(i, proc', order')
    OBVIOUS
  <2>1. i.kind = "procs" /\ i.launch = j.launch /\ i.ids = j.ids /\ i.ids # {}
    OBVIOUS
  <2>2. j.launch \in 1 .. launches /\ j.ids \subseteq Procs /\ \A p \in j.ids : Known(proc, p)
    BY <1>1, <1>2 DEF JobType, JobFits
  <2>3. \A p \in j.ids : Known(proc', p)
    BY <1>6, <2>2 DEF Grows
  <2> HIDE DEF New
  <2> QED BY <2>1, <2>2, <2>3 DEF JobType, JobFits
<1>15. jobs' \subseteq jobs \union New
  BY <1>1
<1> HIDE DEF New
<1> QED BY <1>13, <1>14, <1>15, LoudJobs

\* Procurements are put on line n, which has just been written.
LEMMA AddedPlaced ==
  ASSUME NEW t, Fine(t), NEW S, \A p \in S : Known(t, p), NEW n \in Launches,
         proc' = AddProcsToLine(t, S, n),
         StateOf(n)' # "none",
         \A l \in Launches : l # n /\ StateOf(l) # "none" => StateOf(l)' # "none"
  PROVE  Sound(proc') /\ Conserved(proc') /\ Placed(proc)' /\ Grows(t, proc')
<1>1. t \in Table /\ Sound(t) /\ Placed(t) /\ Conserved(t)
  BY DEF Fine, Sound
<1>2. Relabels(t, proc')
  BY <1>1, AddRelabels
<1>3. Sound(proc') /\ Conserved(proc') /\ Grows(t, proc')
  BY <1>1, <1>2, RelabelsFact
<1>4. Placed(proc)'
  <2>1. ASSUME NEW p \in Procs
        PROVE  /\ proc'[p].state = "running" => StateOf(proc[p].line)' # "none"
               /\ proc'[p].state = "buy_to_run" => proc'[p].line = NoLine
    <3>1. CASE p \in S
      <4>1. proc'[p].line = n /\ proc'[p].state = "running"
        BY <1>1, <3>1, AddFacts
      <4>2. StateOf(proc[p].line)' = StateOf(n)'
        BY <4>1 DEF StateOf
      <4> QED BY <4>1, <4>2
    <3>2. CASE p \notin S
      <4>1. proc'[p] = t[p]
        BY <1>1, <3>2, AddFacts
      <4>2. t[p].line \in Launches \union {NoLine} /\ StateOf(NoLine) = "none"
        BY <1>1, TableValue DEF StateOf
      <4>3. ASSUME NEW l, l = proc'[p].line
            PROVE  StateOf(proc[p].line)' = StateOf(l)'
        BY <4>3 DEF StateOf
      <4>4. /\ t[p].state = "running" => StateOf(t[p].line) # "none"
            /\ t[p].state = "buy_to_run" => t[p].line = NoLine
        BY <1>1 DEF Placed
      <4> QED BY <4>1, <4>2, <4>3, <4>4
    <3> QED BY <3>1, <3>2
  <2> QED BY <2>1 DEF Placed
<1> QED BY <1>3, <1>4

\* A line is made on order o, which is alive.
LEMMA LineMade ==
  ASSUME Inv, NEW n \in Launches, n <= launches, NEW o \in Launches, NEW t, Sound(t),
         NEW ids \in SUBSET Procs, ids # {}, \A p \in ids : Known(t, p),
         line' = [line EXCEPT ![n] = NewLine(t, o, ids)], launches' = launches,
         order' \in [Launches -> OrderStates],
         order'[o] \notin {"none", "deleted"},
         \A m \in Launches : m # o => order'[m] = order[m],
         order[o] = "none" => o <= launches
  PROVE  /\ OrdersNext
         /\ StateOf(n)' # "none"
         /\ StateOf(n)' = order'[o]
         /\ \A l \in Launches : l # n /\ StateOf(l) # "none" => StateOf(l)' # "none"
<1> DEFINE new == NewLine(t, o, ids)
<1>1. new \in LineType /\ new.order = o /\ new.received = 0 /\ new # Unused /\ new.qty \in Nat
  <2>1. /\ new \in [order : Launches \union {0}, qty : Nat, received : Nat, date : Nat]
        /\ new.order = o /\ new.received = 0 /\ new # Unused
    BY NewLineFacts
  <2> HIDE DEF new
  <2> QED BY <2>1 DEF LineType
<1> HIDE DEF new
<1>2. /\ line' \in [Launches -> LineType]
      /\ line'[n] = new
      /\ \A l \in Launches : l # n => line'[l] = line[l]
  BY <1>1 DEF Inv, TypeOK, LineType, new
<1>3. \A l \in Launches : line'[l].received <= line'[l].qty
  BY <1>1, <1>2 DEF Inv, TypeOK
<1>4. \A m \in Launches : order[m] # "none" => order'[m] # "none"
  OBVIOUS
<1>5. LinesFine'
  BY <1>1, <1>2 DEF Inv, LinesFine
<1>6. LaunchesFine'
  <2>1. \A l \in Launches : l > launches => l # n
    BY DEF Inv, TypeOK, Launches
  <2>2. \A l \in Launches : l > launches /\ order[l] = "none" => l # o
    BY DEF Inv, TypeOK, Launches
  <2> QED BY <1>2, <2>1, <2>2 DEF Inv, LaunchesFine
<1>7. OrdersNext
  BY <1>2, <1>3, <1>4, <1>5, <1>6 DEF OrdersNext
<1>8. StateOf(n)' = order'[o]
  BY <1>1, <1>2 DEF StateOf, NoLine, Launches
<1>9. \A l \in Launches : l # n /\ StateOf(l) # "none" => StateOf(l)' # "none"
  <2>1. \A l \in Launches : line[l] = Unused \/ line[l].order \in Launches
    BY DEF Inv, LinesFine
  <2> QED BY <1>2, <1>4, <2>1 DEF StateOf
<1> QED BY <1>7, <1>8, <1>9

\* The new line takes procurements that may have been closed meanwhile: they are running again,
\* but on a line.
LEMMA CreateDraftLinesInv == ASSUME Inv, NEW j, CreateDraftLines(j) PROVE Inv'
<1>1. /\ j \in jobs /\ j.kind = "fill" /\ order[j.order] # "deleted"
      /\ line' = [line EXCEPT ![j.launch] = NewLine(proc, j.order, j.ids)]
      /\ proc' = AddProcsToLine(proc, j.ids, j.launch)
      /\ jobs' \subseteq jobs
      /\ UNCHANGED <<order, launches, settled, receipts, changes>>
  BY DEF CreateDraftLines, Bounds
<1>2. JobType(j, launches) /\ JobFits(j, proc, order)
  BY <1>1 DEF Inv, JobsFine, TypeOK, JobType
<1>3. /\ j.order \in Launches /\ order[j.order] \notin {"none", "deleted"}
      /\ j.ids \in SUBSET Procs /\ j.ids # {} /\ \A p \in j.ids : Known(proc, p)
  BY <1>1, <1>2 DEF JobType, JobFits
<1>4. j.launch \in Launches /\ j.launch <= launches
  BY <1>2, PurchaseAssumption DEF JobType, Inv, TypeOK, Launches
<1>5. order \in [Launches -> OrderStates] /\ Sound(proc) /\ Fine(proc)
  BY InvParts DEF Inv, TypeOK
<1>6. /\ OrdersNext
      /\ StateOf(j.launch)' # "none"
      /\ \A l \in Launches : l # j.launch /\ StateOf(l) # "none" => StateOf(l)' # "none"
  <2>1. order' = order
    BY <1>1
  <2> QED BY <1>1, <1>3, <1>4, <1>5, <2>1, LineMade
<1>7. Sound(proc') /\ Conserved(proc') /\ Placed(proc)' /\ Grows(proc, proc')
  BY <1>1, <1>3, <1>4, <1>5, <1>6, AddedPlaced
<1>8. LoudInv
  BY <1>1, <1>6, <1>7 DEF LoudInv, Inv, TypeOK
<1> QED BY <1>1, <1>8, LoudNext

\* The moves that a plan makes leave a fine table at each point.
LEMMA MovesFine ==
  ASSUME Fine(proc), NEW ids, NEW f, Carried(f, ids), TypeOK
  PROVE  LET left == RemoveProcsFromLines(f.proc, ToLeave(f))
             moved == Redistributed(left, f.plan, f.lines)
         IN  /\ Fine(left) /\ Grows(proc, left) /\ Grows(f.proc, left)
             /\ Fine(moved) /\ Grows(proc, moved) /\ Grows(f.proc, moved)
<1> DEFINE left == RemoveProcsFromLines(f.proc, ToLeave(f))
           moved == Redistributed(left, f.plan, f.lines)
<1>1. Fine(f.proc) /\ Grows(proc, f.proc) /\ f.lines \in SUBSET Launches
  BY LinesToFillAreLaunches DEF Carried
<1>2. \A p \in ToLeave(f) : Known(f.proc, p)
  BY DEF ToLeave, On, Known
<1>3. Fine(left) /\ Grows(f.proc, left)
  BY <1>1, <1>2, RemoveFine
<1>4. Grows(proc, left)
  BY <1>1, <1>3 DEF Grows
<1> HIDE DEF left
<1>5. \A l \in f.lines : \A p \in f.plan[l] : Known(left, p)
  <2>1. f.plan \in SomePlan
    BY DEF Carried, Progress
  <2>2. \A l \in Launches : f.plan[l] \subseteq Procs
    BY <2>1 DEF SomePlan
  <2>3. \A l \in Launches : \A p \in f.plan[l] : Known(f.proc, p)
    BY DEF Carried
  <2> QED BY <1>1, <1>3, <2>2, <2>3 DEF Grows
<1>6. Fine(moved) /\ Grows(left, moved)
  BY <1>1, <1>3, <1>5, RedistributedFine
<1> HIDE DEF moved
<1>7. Grows(proc, moved) /\ Grows(f.proc, moved)
  BY <1>3, <1>4, <1>6 DEF Grows
<1> QED BY <1>3, <1>4, <1>6, <1>7 DEF left, moved

\* What a job for procurements does, by its own definition.
Scheduled(j, separate, f) ==
  LET left == RemoveProcsFromLines(f.proc, ToLeave(f))
      moves == RedistributionJobs(j, f)
      apart == "redistribute" \in separate /\ Cardinality(moves) > 1
      moved == IF apart THEN left ELSE Redistributed(left, f.plan, f.lines)
      others == (jobs \ {j}) \union IF apart THEN moves ELSE {}
  IN \/ /\ f.waiting = {}
        /\ proc' = moved
        /\ jobs' = others
        /\ UNCHANGED <<order, line>>
     \/ \E o \in DraftOrders(j.launch) :
          /\ f.waiting # {}
          /\ order' = [order EXCEPT ![o] = "draft"]
          /\ \/ /\ "fill" \in separate
                /\ proc' = moved
                /\ jobs' = others \union {FillJob(j, o, f.waiting)}
                /\ UNCHANGED line
             \/ /\ "fill" \notin separate
                /\ proc' = AddProcsToLine(moved, f.waiting, j.launch)
                /\ line' = [line EXCEPT ![j.launch] = NewLine(moved, o, f.waiting)]
                /\ jobs' = others

\* PurchaseSchedule, in these words.
LEMMA ScheduleParts ==
  ASSUME NEW j, NEW separate, PurchaseSchedule(j, separate)
  PROVE  /\ j \in jobs /\ j.kind = "procs"
         /\ Cardinality(LinesToFill) <= Cardinality(Unknown(proc))
         /\ UNCHANGED <<launches, settled, receipts, changes>>
         /\ Scheduled(j, separate, ProcsForLines(j.ids))
<1>1. {p \in Procs : proc[p].state = "none"} = Unknown(proc)
  BY DEF Unknown, Known
<1>2. Cardinality({p \in Procs : proc[p].state = "none"}) = Cardinality(Unknown(proc))
  BY <1>1, Zenon
<1>3. /\ j \in jobs /\ j.kind = "procs"
      /\ Cardinality(LinesToFill) <= Cardinality({p \in Procs : proc[p].state = "none"})
      /\ UNCHANGED <<launches, settled, receipts, changes>>
  BY DEF PurchaseSchedule, Bounds
<1>4. Scheduled(j, separate, ProcsForLines(j.ids))
  BY DEF PurchaseSchedule, Scheduled, NotAssigned
<1> QED BY <1>2, <1>3, <1>4

\* The step that plans, moves and orders.
LEMMA PurchaseScheduleInv ==
  ASSUME Inv, NEW j, NEW separate, PurchaseSchedule(j, separate) PROVE Inv'
<1> DEFINE f == ProcsForLines(j.ids)
           left == RemoveProcsFromLines(f.proc, ToLeave(f))
           moves == RedistributionJobs(j, f)
           apart == "redistribute" \in separate /\ Cardinality(moves) > 1
           moved == IF apart THEN left ELSE Redistributed(left, f.plan, f.lines)
           others == (jobs \ {j}) \union IF apart THEN moves ELSE {}
<1>1. /\ j \in jobs /\ j.kind = "procs"
      /\ Cardinality(LinesToFill) <= Cardinality(Unknown(proc))
      /\ UNCHANGED <<launches, settled, receipts, changes>>
      /\ Scheduled(j, separate, f)
  BY ScheduleParts
<1> HIDE DEF f
<1>2. JobType(j, launches) /\ JobFits(j, proc, order)
  BY <1>1 DEF Inv, JobsFine, TypeOK, JobType
<1>3. j.ids \in SUBSET Procs /\ \A p \in j.ids : Known(proc, p)
  BY <1>1, <1>2 DEF JobType, JobFits
<1>4. TypeOK /\ Fine(proc)
  BY InvParts
<1>5. Carried(f, j.ids)
  BY <1>1, <1>3, <1>4, LinesPlanned DEF f
<1>6. /\ Fine(moved) /\ Grows(proc, moved) /\ Grows(f.proc, moved)
  BY <1>4, <1>5, MovesFine
<1>7. /\ f.waiting \in SUBSET Procs /\ \A p \in f.waiting : Known(moved, p)
      /\ f.plan \in SomePlan
      /\ \A l \in Launches : \A p \in f.plan[l] : Known(moved, p)
      /\ f.lines \in SUBSET Launches
  <2>1. f.waiting \in SUBSET Procs /\ f.plan \in SomePlan
    BY <1>5 DEF Carried, Progress
  <2>2. \A p \in f.waiting : Known(proc, p)
    BY <1>3, <1>5 DEF Carried
  <2>3. \A l \in Launches : f.plan[l] \subseteq Procs
    BY <2>1 DEF SomePlan
  <2>4. \A l \in Launches : \A p \in f.plan[l] : Known(f.proc, p)
    BY <1>5 DEF Carried
  <2>5. f.lines \in SUBSET Launches
    BY <1>5, LinesToFillAreLaunches DEF Carried
  <2> HIDE DEF moved
  <2> QED BY <1>6, <2>1, <2>2, <2>3, <2>4, <2>5 DEF Grows
<1>8. j.launch \in Launches /\ j.launch <= launches /\ j.launch \in 1 .. launches
  BY <1>2, PurchaseAssumption DEF JobType, Inv, TypeOK, Launches
<1>9. \A i \in moves : /\ i.kind = "redistribute" /\ i.launch = j.launch /\ i.plan = f.plan
                       /\ i.lines \in SUBSET Launches
  BY <1>7 DEF RedistributionJobs
<1> HIDE DEF moved, moves
\* The new redistribution jobs, whatever the step does besides.
<1>10. ASSUME Grows(moved, proc'), NEW i \in moves
       PROVE  JobType(i, launches) /\ JobFits(i, proc', order')
  <2>1. i.kind = "redistribute" /\ i.launch = j.launch /\ i.plan = f.plan
        /\ i.lines \in SUBSET Launches
    BY <1>9
  <2>2. \A l \in Launches : \A p \in f.plan[l] : Known(proc', p)
    <3>1. \A l \in Launches : f.plan[l] \subseteq Procs
      BY <1>7 DEF SomePlan
    <3> QED BY <1>7, <1>10, <3>1 DEF Grows
  <2> QED BY <1>7, <1>8, <2>1, <2>2 DEF JobType, JobFits
<1>11. others \subseteq jobs \union moves
  OBVIOUS
<1> HIDE DEF others
<1>12. CASE /\ f.waiting = {} /\ proc' = moved /\ jobs' = others
            /\ UNCHANGED <<order, line>>
  <2>1. Fine(proc)' /\ Grows(proc, proc') /\ Grows(moved, proc') /\ Fine(proc')
    BY <1>6, <1>12, FineKept, GrowsItself
  <2>2. LinesFine' /\ LaunchesFine'
    BY <1>1, <1>12 DEF Inv, LinesFine, LaunchesFine
  <2>3. OrdersNext
    BY <1>4, <1>12, <2>2 DEF OrdersNext, TypeOK, LineType
  <2>4. LoudInv
    BY <1>1, <1>4, <2>1, <2>3 DEF LoudInv, Fine, TypeOK
  <2>5. jobs' \subseteq jobs \union moves
    BY <1>11, <1>12
  <2> QED BY <1>10, <2>1, <2>4, <2>5, LoudJobs
<1>13. ASSUME NEW o \in DraftOrders(j.launch), f.waiting # {},
              order' = [order EXCEPT ![o] = "draft"]
       PROVE  /\ o \in Launches
              /\ order' \in [Launches -> OrderStates]
              /\ order'[o] = "draft"
              /\ \A m \in Launches : m # o => order'[m] = order[m]
              /\ order[o] = "none" => o <= launches
              /\ \A m \in Launches : order[m] # "none" => order'[m] # "none"
              /\ o <= launches
  <2>1. o \in Launches /\ (order[o] = "draft" \/ o = j.launch)
    BY <1>8 DEF DraftOrders
  <2>2. /\ order' \in [Launches -> OrderStates]
        /\ order'[o] = "draft"
        /\ \A m \in Launches : m # o => order'[m] = order[m]
    BY <1>4, <1>13, <2>1 DEF TypeOK, OrderStates
  <2>3. o <= launches
    <3>1. CASE o = j.launch
      BY <1>8, <3>1
    <3>2. CASE order[o] = "draft"
      <4>1. ~(o > launches)
        BY <2>1, <3>2 DEF Inv, LaunchesFine
      <4> QED BY <2>1, <4>1 DEF Inv, TypeOK, Launches
    <3> QED BY <2>1, <3>1, <3>2
  <2> QED BY <2>1, <2>2, <2>3
<1>14. ASSUME NEW o \in DraftOrders(j.launch), f.waiting # {},
              order' = [order EXCEPT ![o] = "draft"],
              proc' = moved, jobs' = others \union {FillJob(j, o, f.waiting)},
              UNCHANGED line
       PROVE  Inv'
  <2>1. /\ o \in Launches
        /\ order' \in [Launches -> OrderStates]
        /\ order'[o] = "draft"
        /\ \A m \in Launches : m # o => order'[m] = order[m]
        /\ \A m \in Launches : order[m] # "none" => order'[m] # "none"
        /\ o <= launches
    BY <1>13, <1>14
  <2>2. /\ OrdersNext
        /\ \A l \in Launches \union {NoLine} : StateOf(l) # "none" => StateOf(l)' # "none"
    <3>1. \A m \in Launches : order[m] # "none" =>
            /\ order'[m] # "none"
            /\ order[m] # "deleted" => order'[m] # "deleted"
      BY <2>1
    <3>2. \A m \in Launches : m > launches => order'[m] = "none"
      <4>1. \A m \in Launches : m > launches => m # o
        BY <1>8, <2>1 DEF Inv, TypeOK, Launches
      <4> QED BY <2>1, <4>1 DEF Inv, LaunchesFine
    <3> QED BY <1>1, <1>14, <2>1, <3>1, <3>2, OrderWritten
  <2>3. Sound(proc') /\ Conserved(proc') /\ Placed(proc') /\ Grows(proc, proc') /\ Grows(moved, proc')
    BY <1>6, <1>14, GrowsItself DEF Fine
  <2>4. Placed(proc)'
    BY <2>2, <2>3, StaysPlaced
  <2>5. LoudInv
    BY <1>1, <1>4, <2>2, <2>3, <2>4 DEF LoudInv, TypeOK
  <2> DEFINE fill == FillJob(j, o, f.waiting)
  <2>6. /\ fill.kind = "fill" /\ fill.launch = j.launch /\ fill.order = o
        /\ fill.ids = f.waiting
    BY DEF FillJob
  <2>7. jobs' \subseteq jobs \union (moves \union {fill})
    BY <1>11, <1>14
  <2> HIDE DEF fill
  <2>8. JobType(fill, launches) /\ JobFits(fill, proc', order')
    <3>1. \A p \in f.waiting : Known(proc', p)
      BY <1>7, <1>14
    <3> QED BY <1>7, <1>8, <1>14, <2>1, <2>6, <3>1 DEF JobType, JobFits
  <2>9. \A i \in moves \union {fill} : JobType(i, launches) /\ JobFits(i, proc', order')
    BY <1>10, <2>3, <2>8
  <2> QED BY <2>5, <2>7, <2>9, LoudJobs
<1>15. ASSUME NEW o \in DraftOrders(j.launch), f.waiting # {},
              order' = [order EXCEPT ![o] = "draft"],
              proc' = AddProcsToLine(moved, f.waiting, j.launch),
              line' = [line EXCEPT ![j.launch] = NewLine(moved, o, f.waiting)],
              jobs' = others
       PROVE  Inv'
  <2>1. /\ o \in Launches
        /\ order' \in [Launches -> OrderStates]
        /\ order'[o] = "draft"
        /\ \A m \in Launches : m # o => order'[m] = order[m]
        /\ order[o] = "none" => o <= launches
    BY <1>13, <1>15
  <2>2. Sound(moved) /\ order'[o] \notin {"none", "deleted"} /\ launches' = launches
    BY <1>1, <1>6, <2>1 DEF Fine
  <2>3. /\ OrdersNext
        /\ StateOf(j.launch)' # "none"
        /\ \A l \in Launches : l # j.launch /\ StateOf(l) # "none" => StateOf(l)' # "none"
    <3> DEFINE n == j.launch
               W == f.waiting
    <3>1. n \in Launches /\ n <= launches /\ W \in SUBSET Procs /\ W # {}
          /\ \A p \in W : Known(moved, p)
      BY <1>7, <1>8, <1>15
    <3>2. line' = [line EXCEPT ![n] = NewLine(moved, o, W)]
      BY <1>15
    <3> HIDE DEF n, W
    <3>3. /\ OrdersNext
          /\ StateOf(n)' # "none"
          /\ \A l \in Launches : l # n /\ StateOf(l) # "none" => StateOf(l)' # "none"
      BY <2>1, <2>2, <3>1, <3>2, LineMade
    <3> QED BY <3>3 DEF n
  <2>4. Sound(proc') /\ Conserved(proc') /\ Placed(proc)' /\ Grows(moved, proc')
    BY <1>6, <1>7, <1>8, <1>15, <2>3, AddedPlaced
  <2>5. Grows(proc, proc')
    BY <1>6, <2>4 DEF Grows
  <2>6. LoudInv
    BY <1>1, <1>4, <2>3, <2>4, <2>5 DEF LoudInv, TypeOK
  <2>7. jobs' \subseteq jobs \union moves
    BY <1>11, <1>15
  <2> QED BY <1>10, <2>4, <2>6, <2>7, LoudJobs
<1> QED BY <1>1, <1>12, <1>14, <1>15 DEF Scheduled, moved, others, moves

\* Every step keeps the invariant ...
LEMMA StepInv == Inv /\ [Next]_vars => Inv'
<1> SUFFICES ASSUME Inv, [Next]_vars PROVE Inv'
  OBVIOUS
<1>1. CASE Launch
  BY <1>1, LaunchInv
<1>2. ASSUME NEW j \in jobs, LaunchSeller(j) PROVE Inv'
  BY <1>2, LaunchSellerInv
<1>3. ASSUME NEW j \in jobs, NEW separate \in SUBSET Separate, PurchaseSchedule(j, separate) PROVE Inv'
  BY <1>3, PurchaseScheduleInv
<1>4. ASSUME NEW j \in jobs, Redistribute(j) PROVE Inv'
  BY <1>4, RedistributeInv
<1>5. ASSUME NEW j \in jobs, CreateDraftLines(j) PROVE Inv'
  BY <1>5, CreateDraftLinesInv
<1>6. ASSUME NEW j \in jobs, CreateDraftLinesFails(j) PROVE Inv'
  BY <1>6, CreateDraftLinesFailsInv
<1>7. ASSUME NEW d \in DOMAIN Needs, RaiseNeed(d) PROVE Inv'
  BY <1>7, RaiseNeedInv
<1>8. ASSUME NEW p \in Procs, CancelNeed(p) \/ Check(p) PROVE Inv'
  BY <1>8, CancelNeedInv, CheckInv
<1>9. ASSUME NEW l \in Launches, NEW qty \in LineQtys, SetLineQty(l, qty) \/ Receive(l, qty)
      PROVE  Inv'
  BY <1>9, SetLineQtyInv, ReceiveInv
<1>10. ASSUME NEW o \in Launches, Approve(o) \/ CancelOrder(o) PROVE Inv'
  BY <1>10, ApproveInv, CancelOrderInv
<1>11. CASE UNCHANGED vars
  <2>1. UNCHANGED <<proc, order, line, jobs, launches, settled, receipts, changes>>
    BY <1>11 DEF vars
  <2>2. Fine(proc') /\ Grows(proc, proc')
    BY <2>1, GrowsItself, InvParts
  <2>3. /\ settled' \in BOOLEAN /\ receipts' \in 0 .. MaxReceipts
        /\ changes' \in 0 .. MaxChanges
    BY <2>1 DEF Inv, TypeOK
  <2> QED BY <2>1, <2>2, <2>3, QuietInv
<1> QED BY <1>1, <1>2, <1>3, <1>4, <1>5, <1>6, <1>7, <1>8, <1>9, <1>10, <1>11 DEF Next

\* ... which every reachable state satisfies.
LEMMA Invariant == Spec => []Inv
<1>1. Init => Inv
  BY InitInv
<1>2. Inv /\ [Next]_vars => Inv'
  BY StepInv
<1> QED BY <1>1, <1>2, PTL DEF Spec

\* Every variable keeps its type: a job in flight never holds ids, an order or a
\* plan that does not exist, and a line never receives more than it ordered.
THEOREM TypeCorrect == Spec => []TypeOK
<1>1. Inv => TypeOK
  BY DEF Inv
<1> QED BY <1>1, Invariant, PTL

\* Procurements are running only on a line that exists, and none that is to be run is on a line,
\* whatever deletions, cancellations and late jobs met.
THEOREM RunningIsOnLine == Spec => []RunningOnLine
<1>1. Inv => RunningOnLine
  BY DEF Inv, Fine, Placed, RunningOnLine
<1> QED BY <1>1, Invariant, PTL

\* The parts of a need add up to it, however often lines and receptions split it.
THEOREM QuantityIsConserved == Spec => []QuantityConserved
<1>1. Inv => QuantityConserved
  BY DEF Inv, Fine, Conserved, QuantityConserved, Parts
<1> QED BY <1>1, Invariant, PTL

-----------------------------------------------------------------------------
(***************************************************************************)
(* What a launch achieves when nothing disturbs it, whatever earlier       *)
(* launches, buyers and receptions left behind: every open need is         *)
(* ordered, once, and anew only when the lines to receive fall short.  The *)
(* invariant follows the launch through its jobs: the ids wait for the     *)
(* supplier's job, then for the job that plans, and then every open        *)
(* procurement has a goal, which it reaches at once or through the jobs    *)
(* still to run.                                                           *)
(***************************************************************************)

(* A launch that nothing disturbs *)

\* The launch made no order and no line yet.
NothingYet == launches \in Launches /\ line[launches] = Unused /\ order[launches] = "none"

\* The job of the supplier is to run ...
SellerPending ==
  /\ jobs = {[kind |-> "seller", launch |-> launches, ids |-> Candidates]}
  /\ NothingYet

\* ... then the one for its procurements, when the drafts are gone ...
ProcsPending ==
  /\ Candidates # {}
  /\ jobs = {[kind |-> "procs", launch |-> launches, ids |-> Candidates]}
  /\ NothingYet
  /\ \A o \in Launches : order[o] # "draft"

\* The open procurements of table t whose goal is line l
Bound(t, goal, l) == {p \in Procs : Open(t, p) /\ goal[p] = l}

\* ... then each open procurement has a goal: a line to receive, which is not bound for
\* more than it brings, or the line of the launch, when the lines to receive are bound for
\* all they bring and for needs that are not later.
Shared(t, goal) ==
  /\ goal \in [Procs -> Launches]
  /\ launches \in Launches
  /\ \A p \in Procs : Open(t, p) => goal[p] = launches \/ StateOf(goal[p]) = "approved"
  /\ \A l \in ToReceive : Total(t, Bound(t, goal, l)) <= Remaining(l)
  /\ \A l \in ToReceive : Bound(t, goal, launches) # {} =>
                           Total(t, Bound(t, goal, l)) = Remaining(l)
  /\ \A l \in ToReceive : \A p \in Bound(t, goal, launches), q \in Bound(t, goal, l) :
       DateOf(t, q) <= DateOf(t, p)

\* ... and drafts are the launch's own, for as much as is bound for its line.
Aims(goal) ==
  /\ Shared(proc, goal)
  /\ StateOf(launches) \in {"none", "draft"}
  /\ \A l \in DraftLines : l = launches /\ line[l].qty = LineQty(Total(proc, Bound(proc, goal, l)))

\* The jobs left carry to the goals, and nothing else that is open; closed procurements
\* they name are where they are to be.
JobsAim(goal) ==
  \A j \in jobs :
    /\ j.launch = launches
    /\ \/ /\ j.kind = "fill" /\ j.order = launches /\ order[launches] = "draft"
          /\ j.ids = Bound(proc, goal, launches)
       \/ /\ j.kind = "redistribute"
          /\ \A l \in j.lines :
               /\ StateOf(l) = "approved"
               /\ \A p \in j.plan[l] : /\ Open(proc, p) => goal[p] = l
                                       /\ Closed(proc, p) => proc[p].line = l

\* Job j will put procurement p on line l.
Carries(j, p, l) ==
  \/ j.kind = "fill" /\ p \in j.ids
  \/ j.kind = "redistribute" /\ l \in j.lines /\ p \in j.plan[l]

\* What is not at its goal is carried there.
OnTheirWay(goal) ==
  \A p \in Procs : Open(proc, p) =>
    proc[p].line = goal[p] \/ \E j \in jobs : Carries(j, p, goal[p])

Spread == \E goal \in [Procs -> Launches] : Aims(goal) /\ JobsAim(goal) /\ OnTheirWay(goal)

\* The invariant, beside Inv
SettledInv == settled => SellerPending \/ ProcsPending \/ Spread

-----------------------------------------------------------------------------
(* The properties follow *)

\* When the jobs of a settled launch are over, its procurements have arrived.
LEMMA Arrived ==
  ASSUME Inv, SettledInv, Settled
  PROVE  \E goal \in [Procs -> Launches] :
           /\ Aims(goal)
           /\ \A p \in Procs : Open(proc, p) => proc[p].line = goal[p]
           /\ \A l \in Launches : OpenOn(l) = Bound(proc, goal, l)
<1>1. jobs = {} /\ settled
  BY DEF Settled
<1>2. PICK goal \in [Procs -> Launches] : Aims(goal) /\ OnTheirWay(goal)
  BY <1>1 DEF SettledInv, SellerPending, ProcsPending, Spread
<1>3. \A p \in Procs : Open(proc, p) => proc[p].line = goal[p]
  BY <1>1, <1>2 DEF OnTheirWay
<1>4. \A l \in Launches : OpenOn(l) = Bound(proc, goal, l)
  <2>1. \A p \in Procs : Open(proc, p) => proc[p].state # "none"
    BY DEF Open
  <2> QED BY <1>3, <2>1 DEF OpenOn, On, Bound
<1> QED BY <1>2, <1>3, <1>4

\* Then every open need is on a living order ...
LEMMA SettledOrdersAll == Inv /\ SettledInv => EveryNeedOrdered
<1> SUFFICES ASSUME Inv, SettledInv, Settled, NEW p \in Procs, Open(proc, p)
             PROVE  StateOf(proc[p].line) \in {"draft", "approved"}
  BY DEF EveryNeedOrdered
<1>1. PICK goal \in [Procs -> Launches] :
           /\ Aims(goal)
           /\ \A q \in Procs : Open(proc, q) => proc[q].line = goal[q]
  BY Arrived
<1>2. proc[p].line = goal[p] /\ goal[p] \in Launches /\ goal[p] # NoLine
  BY <1>1 DEF Launches, NoLine
<1>3. StateOf(proc[p].line) # "none"
  BY <1>2, InvParts DEF Placed, Open
<1>4. goal[p] = launches \/ StateOf(goal[p]) = "approved"
  BY <1>1 DEF Aims, Shared
<1>5. StateOf(launches) \in {"none", "draft"}
  BY <1>1 DEF Aims, Shared
<1> QED BY <1>2, <1>3, <1>4, <1>5

\* ... no more is ordered than asked for ...
LEMMA SettledOrdersOnce == Inv /\ SettledInv => NothingOrderedTwice
<1> SUFFICES ASSUME Inv, SettledInv, Settled
             PROVE  /\ \A l \in ToReceive : Total(proc, OpenOn(l)) <= Remaining(l)
                    /\ \A l \in DraftLines :
                         /\ Total(proc, OpenOn(l)) <= line[l].qty
                         /\ line[l].qty < Max({Total(proc, OpenOn(l)), MinQty}) + Packaging
  BY DEF NothingOrderedTwice
<1>1. PICK goal \in [Procs -> Launches] :
           /\ Aims(goal)
           /\ \A l \in Launches : OpenOn(l) = Bound(proc, goal, l)
  BY Arrived
<1>2. \A l \in Launches : Total(proc, OpenOn(l)) = Total(proc, Bound(proc, goal, l))
  BY <1>1, Zenon
<1>3. ASSUME NEW l \in ToReceive PROVE Total(proc, OpenOn(l)) <= Remaining(l)
  <2>1. l \in Launches
    BY DEF ToReceive
  <2>2. Total(proc, Bound(proc, goal, l)) <= Remaining(l)
    BY <1>1 DEF Aims, Shared
  <2> QED BY <1>2, <2>1, <2>2
<1>4. ASSUME NEW l \in DraftLines
      PROVE  /\ Total(proc, OpenOn(l)) <= line[l].qty
             /\ line[l].qty < Max({Total(proc, OpenOn(l)), MinQty}) + Packaging
  <2>1. l \in Launches
    BY DEF DraftLines
  <2>2. line[l].qty = LineQty(Total(proc, Bound(proc, goal, l)))
    BY <1>1 DEF Aims, Shared
  <2>3. Total(proc, OpenOn(l)) \in Int
    BY TotalType, InvParts DEF OpenOn, On
  <2>4. line[l].qty = LineQty(Total(proc, OpenOn(l)))
    BY <1>2, <2>1, <2>2
  <2> DEFINE need == Total(proc, OpenOn(l))
  <2>5. need \in Int /\ line[l].qty = LineQty(need)
    BY <2>3, <2>4
  <2> HIDE DEF need
  <2>6. need <= LineQty(need) /\ LineQty(need) < Max({need, MinQty}) + Packaging
    BY <2>5, LineQtyBounds
  <2> QED BY <2>5, <2>6 DEF need
<1> QED BY <1>3, <1>4

\* ... and only what the lines to receive cannot bring.
LEMMA SettledOrdersShort == Inv /\ SettledInv => OrderedOnlyWhenShort
<1> SUFFICES ASSUME Inv, SettledInv, Settled, NEW d \in DraftLines, NEW p \in Procs,
                    p \in OpenOn(d), NEW l \in ToReceive
             PROVE  /\ Total(proc, OpenOn(l)) = Remaining(l)
                    /\ \A q \in OpenOn(l) : DateOf(proc, q) <= DateOf(proc, p)
  BY DEF OrderedOnlyWhenShort
<1>1. PICK goal \in [Procs -> Launches] :
           /\ Aims(goal)
           /\ \A m \in Launches : OpenOn(m) = Bound(proc, goal, m)
  BY Arrived
<1>2. d \in Launches /\ l \in Launches
  BY DEF DraftLines, ToReceive
<1>3. d = launches
  BY <1>1 DEF Aims, Shared
<1>4. p \in Bound(proc, goal, launches)
  BY <1>1, <1>2, <1>3
<1>5. Total(proc, Bound(proc, goal, l)) = Remaining(l)
  BY <1>1, <1>4 DEF Aims, Shared
<1>6. Total(proc, OpenOn(l)) = Total(proc, Bound(proc, goal, l))
  <2>1. OpenOn(l) = Bound(proc, goal, l)
    BY <1>1, <1>2
  <2> QED BY <2>1, Zenon
<1>7. ASSUME NEW q \in OpenOn(l) PROVE DateOf(proc, q) <= DateOf(proc, p)
  <2>1. q \in Bound(proc, goal, l)
    BY <1>1, <1>2
  <2> QED BY <1>1, <1>4, <2>1 DEF Aims, Shared
<1> QED BY <1>5, <1>6, <1>7

-----------------------------------------------------------------------------
(* Every step keeps it *)

\* Needs and buyers end the launch's peace.
LEMMA DisturbedSettled == Disturbs => SettledInv'
  BY DEF Disturbs, SettledInv

\* A launch on an empty queue starts the peace.
LEMMA LaunchSettled == ASSUME Inv, Launch PROVE SettledInv'
<1> SUFFICES ASSUME settled' PROVE SellerPending'
  BY DEF SettledInv
<1>1. jobs = {}
  BY DEF Launch
<1>2. Candidates' = Candidates
  BY DEF Launch, Candidates, Open
<1>3. jobs' = {[kind |-> "seller", launch |-> launches', ids |-> Candidates']}
  BY <1>1, <1>2 DEF Launch
<1>4. launches \in 0 .. MaxLaunches
  BY DEF Inv, TypeOK
<1>5. launches' \in Launches /\ launches' > launches
  BY <1>4, PurchaseAssumption DEF Launch, Launches
<1>6. line[launches'] = Unused /\ order[launches'] = "none"
  BY <1>5 DEF Inv, LaunchesFine
<1>7. NothingYet'
  BY <1>5, <1>6 DEF NothingYet, Launch
<1> QED BY <1>3, <1>7 DEF SellerPending

\* In which phase a settled launch is, by the kind of a job.
LEMMA Phase ==
  ASSUME SettledInv, settled, NEW j \in jobs
  PROVE  /\ j.kind = "seller" =>
              /\ SellerPending
              /\ j = [kind |-> "seller", launch |-> launches, ids |-> Candidates]
              /\ jobs = {j}
         /\ j.kind = "procs" =>
              /\ ProcsPending
              /\ j = [kind |-> "procs", launch |-> launches, ids |-> Candidates]
              /\ jobs = {j}
         /\ j.kind \in {"fill", "redistribute"} => Spread
<1>1. SellerPending \/ ProcsPending \/ Spread
  BY DEF SettledInv
<1>2. CASE SellerPending
  BY <1>2 DEF SellerPending
<1>3. CASE ProcsPending
  BY <1>3 DEF ProcsPending
<1>4. CASE Spread
  <2>1. PICK goal \in [Procs -> Launches] : JobsAim(goal)
    BY <1>4 DEF Spread
  <2>2. j.kind \in {"fill", "redistribute"}
    BY <2>1 DEF JobsAim
  <2> QED BY <1>4, <2>2
<1> QED BY <1>1, <1>2, <1>3, <1>4

\* A draft line is on a draft order.
LEMMA DraftLineOrder ==
  ASSUME LinesFine, NEW l \in Launches, StateOf(l) = "draft"
  PROVE  \E o \in Launches : order[o] = "draft"
<1>1. line[l] # Unused /\ order[line[l].order] = "draft"
  BY DEF StateOf
<1> QED BY <1>1 DEF LinesFine

\* Once the draft orders are gone, a launch for nothing has nothing to do.
LEMMA NothingToSpread ==
  ASSUME Inv, Candidates = {}, jobs = {}, launches \in Launches, line[launches] = Unused,
         \A o \in Launches : order[o] # "draft"
  PROVE  Spread
<1> DEFINE goal == [p \in Procs |-> launches]
<1>1. goal \in [Procs -> Launches]
  OBVIOUS
<1>2. \A p \in Procs : ~Open(proc, p)
  BY DEF Candidates
<1>3. \A l \in Launches : Bound(proc, goal, l) = {}
  BY <1>2 DEF Bound
<1> HIDE DEF goal
<1>4. ASSUME NEW l \in ToReceive PROVE Total(proc, Bound(proc, goal, l)) <= Remaining(l)
  <2>1. l \in Launches
    BY DEF ToReceive
  <2>2. Remaining(l) \in Nat
    BY <2>1, LineTypes DEF Inv
  <2>3. Total(proc, {}) = 0
    BY TotalNone
  <2>4. Bound(proc, goal, l) = {}
    BY <1>3, <2>1
  <2>5. Total(proc, Bound(proc, goal, l)) = Total(proc, {})
    BY <2>4, Zenon
  <2> QED BY <2>2, <2>3, <2>5
<1>5. DraftLines = {}
  BY DraftLineOrder DEF DraftLines, Inv
<1>6. StateOf(launches) = "none"
  BY DEF StateOf
<1>7. Bound(proc, goal, launches) = {}
  BY <1>3
<1>8. Aims(goal)
  BY <1>1, <1>2, <1>4, <1>5, <1>6, <1>7 DEF Aims, Shared
<1>9. JobsAim(goal) /\ OnTheirWay(goal)
  BY <1>2 DEF JobsAim, OnTheirWay
<1> QED BY <1>1, <1>8, <1>9 DEF Spread

\* The supplier job leaves the open procurements open, and no draft.
LEMMA LaunchSellerSettled ==
  ASSUME Inv, Inv', SettledInv, NEW j, LaunchSeller(j) PROVE SettledInv'
<1> SUFFICES ASSUME settled' PROVE ProcsPending' \/ Spread'
  BY DEF SettledInv
<1>1. j \in jobs /\ settled /\ j.kind = "seller" /\ launches' = launches
  BY DEF LaunchSeller
<1>2. /\ j = [kind |-> "seller", launch |-> launches, ids |-> Candidates]
      /\ jobs = {j}
      /\ launches \in Launches /\ line[launches] = Unused /\ order[launches] = "none"
  BY <1>1, Phase DEF SellerPending, NothingYet
<1> DEFINE drafts == {o \in Launches : order[o] = "draft"}
           lines == UNION {LinesOf(o) : o \in drafts}
           S == UNION {On(proc, l) : l \in lines}
<1>3. /\ proc' = RemoveProcsFromLines(proc, S)
      /\ order' = [o \in Launches |-> IF o \in drafts THEN "deleted" ELSE order[o]]
      /\ line' = [l \in Launches |-> IF l \in lines THEN Unused ELSE line[l]]
      /\ jobs' = (jobs \ {j}) \union
                   {[kind |-> "procs", launch |-> j.launch, ids |-> ids] : ids \in {j.ids} \ {{}}}
  BY DEF LaunchSeller
<1>4. line'[launches] = Unused /\ order'[launches] = "none"
  BY <1>2, <1>3
<1>5. \A o \in Launches : order'[o] # "draft"
  BY <1>3
<1> HIDE DEF S
<1>6. ASSUME NEW p \in Procs PROVE Open(proc', p) <=> Open(proc, p)
  <2>1. /\ p \notin S => proc'[p] = proc[p]
        /\ p \in S => /\ proc[p].state = "running" => proc'[p].state = "buy_to_run"
                      /\ proc[p].state # "running" => proc'[p].state = proc[p].state
    BY <1>3, RemoveFacts, InvParts
  <2> QED BY <2>1 DEF Open
<1>7. Candidates' = Candidates
  BY <1>6 DEF Candidates
<1>8. jobs' = {[kind |-> "procs", launch |-> launches, ids |-> ids] : ids \in {Candidates} \ {{}}}
  BY <1>2, <1>3
<1> HIDE DEF drafts, lines
<1>9. CASE Candidates = {}
  <2>1. jobs' = {} /\ Candidates' = {} /\ launches' \in Launches /\ line'[launches'] = Unused
    BY <1>1, <1>2, <1>4, <1>7, <1>8, <1>9
  <2>2. (/\ Inv /\ Candidates = {} /\ jobs = {} /\ launches \in Launches
         /\ line[launches] = Unused
         /\ (\A o \in Launches : order[o] # "draft"))'
    BY <1>5, <2>1
  <2>3. Spread'
    BY <2>2, NothingToSpread, PTL
  <2> QED BY <2>3
<1>10. CASE Candidates # {}
  <2>1. jobs' = {[kind |-> "procs", launch |-> launches', ids |-> Candidates']}
    BY <1>1, <1>7, <1>8, <1>10
  <2>2. NothingYet'
    BY <1>1, <1>2, <1>4 DEF NothingYet
  <2> QED BY <1>5, <1>7, <1>10, <2>1, <2>2 DEF ProcsPending
<1> QED BY <1>9, <1>10

-----------------------------------------------------------------------------
(* The jobs that move procurements to their goals *)

\* From table t to u, only open procurements moved.
Keeps(t, u) ==
  \A p \in Procs : /\ u[p].qty = t[p].qty /\ u[p].need = t[p].need
                   /\ Open(u, p) <=> Open(t, p)
                   /\ ~Open(t, p) => u[p] = t[p]

\* The lines of other launches stay as they are.
OthersStay ==
  /\ launches' = launches
  /\ \A l \in Launches : l # launches => StateOf(l)' = StateOf(l) /\ line'[l] = line[l]

\* What is bound for a line, and its quantity, do not change when procurements move.
LEMMA BoundKept ==
  ASSUME NEW t \in Table, NEW u, Keeps(t, u), NEW goal, NEW l
  PROVE  /\ Bound(u, goal, l) = Bound(t, goal, l)
         /\ Total(u, Bound(u, goal, l)) = Total(t, Bound(t, goal, l))
<1> DEFINE B == Bound(t, goal, l)
<1>1. B \in SUBSET Procs /\ Bound(u, goal, l) = B
  BY DEF Bound, Keeps
<1> HIDE DEF B
<1>2. \A p \in B : u[p].qty = t[p].qty
  BY <1>1 DEF Keeps
<1>3. Total(u, B) = Total(t, B)
  BY <1>1, <1>2, TotalSame
<1>4. Total(u, Bound(u, goal, l)) = Total(u, B)
  BY <1>1, Zenon
<1> QED BY <1>1, <1>3, <1>4 DEF B

\* A line to receive is not the launch's own one, so that it stays as it is.
LEMMA AimsKept ==
  ASSUME NEW t \in Table, Keeps(t, proc'), NEW goal, Shared(t, goal), OthersStay,
         StateOf(launches) # "approved",
         \A l \in DraftLines : l = launches,
         StateOf(launches)' \in {"none", "draft"},
         StateOf(launches)' = "draft" =>
           line'[launches].qty = LineQty(Total(t, Bound(t, goal, launches)))
  PROVE  Aims(goal)'
<1>1. ASSUME NEW l
      PROVE  /\ Bound(proc, goal, l)' = Bound(t, goal, l)
             /\ Total(proc, Bound(proc, goal, l))' = Total(t, Bound(t, goal, l))
  BY BoundKept
<1>2. launches \in Launches /\ launches' = launches /\ goal \in [Procs -> Launches]
  BY DEF Shared, OthersStay
<1>3. \A l \in Launches : l = launches => StateOf(l)' = StateOf(launches)'
  BY <1>2 DEF StateOf
<1>4. \A l \in Launches : StateOf(l) = "approved" \/ StateOf(l)' = "approved" =>
         /\ l # launches /\ StateOf(l)' = StateOf(l) /\ Remaining(l)' = Remaining(l)
  BY <1>2, <1>3 DEF OthersStay, Remaining
<1>5. \A l \in ToReceive' : l \in ToReceive /\ Remaining(l)' = Remaining(l)
  BY <1>4 DEF ToReceive
<1>6. Bound(proc, goal, launches)' = Bound(t, goal, launches)
  BY <1>1, <1>2
<1>7. \A p \in Procs : DateOf(proc, p)' = DateOf(t, p)
  BY DEF Keeps, DateOf
<1>8. (\A p \in Procs : Open(proc, p) => goal[p] = launches \/ StateOf(goal[p]) = "approved")'
  BY <1>2, <1>4 DEF Shared, Keeps
<1>9. (\A l \in ToReceive : Total(proc, Bound(proc, goal, l)) <= Remaining(l))'
  BY <1>1, <1>5 DEF Shared
<1>10. (\A l \in ToReceive : Bound(proc, goal, launches) # {} =>
                             Total(proc, Bound(proc, goal, l)) = Remaining(l))'
  BY <1>1, <1>5, <1>6 DEF Shared
<1>11. (\A l \in ToReceive : \A p \in Bound(proc, goal, launches), q \in Bound(proc, goal, l) :
          DateOf(proc, q) <= DateOf(proc, p))'
  <2> SUFFICES ASSUME NEW l \in ToReceive', NEW p \in Bound(proc, goal, launches)',
                      NEW q \in Bound(proc, goal, l)'
               PROVE  DateOf(proc, q)' <= DateOf(proc, p)'
    OBVIOUS
  <2>1. l \in ToReceive /\ p \in Bound(t, goal, launches) /\ q \in Bound(t, goal, l)
    BY <1>1, <1>5, <1>6
  <2>2. p \in Procs /\ q \in Procs
    BY <2>1 DEF Bound
  <2>3. DateOf(t, q) <= DateOf(t, p)
    BY <2>1 DEF Shared
  <2> QED BY <1>7, <2>2, <2>3
<1>12. Shared(proc, goal)'
  BY <1>2, <1>8, <1>9, <1>10, <1>11 DEF Shared
<1>13. (\A l \in DraftLines :
          l = launches /\ line[l].qty = LineQty(Total(proc, Bound(proc, goal, l))))'
  <2> SUFFICES ASSUME NEW l \in Launches, StateOf(l)' = "draft"
               PROVE  l = launches' /\ line'[l].qty = LineQty(Total(proc, Bound(proc, goal, l)))'
    BY DEF DraftLines
  <2>1. LineQty(Total(proc, Bound(proc, goal, l)))' = LineQty(Total(t, Bound(t, goal, l)))
    <3> DEFINE a == Total(proc, Bound(proc, goal, l))
               b == Total(t, Bound(t, goal, l))
    <3>1. a' = b
      BY <1>1
    <3> HIDE DEF a, b
    <3>2. LineQty(a') = LineQty(b)
      BY <3>1, Zenon
    <3> QED BY <3>2 DEF a, b
  <2>2. l = launches
    <3>1. l # launches => StateOf(l) = "draft"
      BY DEF OthersStay
    <3> QED BY <3>1 DEF DraftLines
  <2>3. StateOf(launches)' = "draft"
    BY <1>3, <2>2
  <2> QED BY <1>2, <2>1, <2>2, <2>3
<1> QED BY <1>12, <1>13 DEF Aims

\* The plans that jobs still carry out stay those of the same procurements.
LEMMA JobsAimKept ==
  ASSUME Inv, Keeps(proc, proc'), OthersStay, order' = order, jobs' \subseteq jobs,
         StateOf(launches) # "approved", NEW goal, JobsAim(goal)
  PROVE  JobsAim(goal)'
<1> SUFFICES ASSUME NEW j \in jobs'
             PROVE  /\ j.launch = launches'
                    /\ \/ /\ j.kind = "fill" /\ j.order = launches' /\ order'[launches'] = "draft"
                          /\ j.ids = Bound(proc, goal, launches)'
                       \/ /\ j.kind = "redistribute"
                          /\ \A l \in j.lines :
                               /\ StateOf(l)' = "approved"
                               /\ \A p \in j.plan[l] :
                                    /\ Open(proc', p) => goal[p] = l
                                    /\ Closed(proc', p) => proc'[p].line = l
  BY DEF JobsAim
<1>1. j \in jobs /\ launches' = launches
  BY DEF OthersStay
<1>2. CASE j.kind = "fill"
  <2>1. Bound(proc, goal, launches)' = Bound(proc, goal, launches)
    BY <1>1, BoundKept, InvParts
  <2> QED BY <1>1, <1>2, <2>1 DEF JobsAim
<1>3. CASE j.kind # "fill"
  <2>1. /\ j.launch = launches
        /\ j.kind = "redistribute"
        /\ \A l \in j.lines :
             /\ StateOf(l) = "approved"
             /\ \A p \in j.plan[l] : /\ Open(proc, p) => goal[p] = l
                                     /\ Closed(proc, p) => proc[p].line = l
    BY <1>1, <1>3 DEF JobsAim
  <2>2. j.lines \subseteq Launches /\ j.plan \in SomePlan
    BY <1>1, <2>1 DEF Inv, TypeOK
  <2>3. ASSUME NEW l \in j.lines
        PROVE  /\ StateOf(l)' = "approved"
               /\ \A p \in j.plan[l] : /\ Open(proc', p) => goal[p] = l
                                       /\ Closed(proc', p) => proc'[p].line = l
    <3>1. StateOf(l)' = "approved"
      BY <2>1, <2>2 DEF OthersStay
    <3>2. ASSUME NEW p \in j.plan[l]
          PROVE  /\ Open(proc', p) => goal[p] = l
                 /\ Closed(proc', p) => proc'[p].line = l
      <4>1. p \in Procs
        BY <2>2 DEF SomePlan
      <4>2. Open(proc', p) => Open(proc, p)
        BY <4>1 DEF Keeps
      <4>3. Closed(proc', p) => ~Open(proc', p)
        BY DEF Closed, Open
      <4>4. Closed(proc', p) => proc'[p] = proc[p] /\ Closed(proc, p)
        BY <4>1, <4>3 DEF Keeps, Closed
      <4> QED BY <2>1, <4>2, <4>4
    <3> QED BY <3>1, <3>2
  <2> QED BY <1>1, <2>1, <2>3
<1> QED BY <1>2, <1>3

\* A job that moves procurements brings them to their goal.
LEMMA RedistributeSettled ==
  ASSUME Inv, SettledInv, NEW j, Redistribute(j) PROVE SettledInv'
<1> SUFFICES ASSUME settled' PROVE Spread'
  BY DEF SettledInv
<1>1. /\ j \in jobs /\ j.kind = "redistribute" /\ settled
      /\ proc' = Redistributed(proc, j.plan, j.lines)
      /\ jobs' = jobs \ {j} /\ launches' = launches
      /\ order' = order /\ line' = line
  BY DEF Redistribute
<1>2. PICK goal \in [Procs -> Launches] : Aims(goal) /\ JobsAim(goal) /\ OnTheirWay(goal)
  BY <1>1, Phase DEF Spread
<1>3. j.lines \in SUBSET Launches /\ j.plan \in SomePlan
  BY <1>1 DEF Inv, TypeOK
<1>4. \A l \in j.lines : /\ StateOf(l) = "approved"
                         /\ \A p \in j.plan[l] : /\ Open(proc, p) => goal[p] = l
                                                 /\ Closed(proc, p) => proc[p].line = l
  BY <1>1, <1>2 DEF JobsAim
<1>5. ASSUME NEW p \in Procs
      PROVE  /\ proc'[p].need = proc[p].need /\ proc'[p].qty = proc[p].qty
             /\ Targets(p, j.plan, j.lines) \subseteq {proc[p].line} => proc'[p] = proc[p]
             /\ ~(Targets(p, j.plan, j.lines) \subseteq {proc[p].line}) =>
                  proc'[p].line \in Targets(p, j.plan, j.lines) /\ proc'[p].state = "running"
  BY <1>1, <1>3, InvParts, RedistributedFacts
<1>6. ASSUME NEW p \in Procs, ~Open(proc, p)
      PROVE  proc'[p] = proc[p]
  <2>1. ASSUME NEW l \in Targets(p, j.plan, j.lines) PROVE l = proc[p].line
    <3>1. l \in j.lines /\ l \in Launches /\ p \in j.plan[l]
      BY <1>3 DEF Targets
    <3>2. Known(proc, p)
      BY <1>1, <3>1 DEF Inv, JobsFine, JobFits
    <3>3. Closed(proc, p)
      BY <1>6, <3>2, KnownStates, InvParts
    <3> QED BY <1>4, <3>1, <3>3
  <2> QED BY <1>5, <2>1
<1>7. ASSUME NEW p \in Procs, Open(proc, p)
      PROVE  /\ Open(proc', p)
             /\ goal[p] \in Targets(p, j.plan, j.lines) => proc'[p].line = goal[p]
             /\ proc[p].line = goal[p] => proc'[p].line = goal[p]
  <2>1. \A l \in Targets(p, j.plan, j.lines) : l = goal[p]
    BY <1>4, <1>7 DEF Targets
  <2>2. CASE Targets(p, j.plan, j.lines) \subseteq {proc[p].line}
    BY <1>5, <1>7, <2>2 DEF Open
  <2>3. CASE ~(Targets(p, j.plan, j.lines) \subseteq {proc[p].line})
    BY <1>5, <2>1, <2>3 DEF Open
  <2> QED BY <2>2, <2>3
<1>8. Keeps(proc, proc')
  <2>1. ASSUME NEW p \in Procs PROVE Open(proc', p) <=> Open(proc, p)
    <3>1. CASE Open(proc, p)
      BY <1>7, <3>1
    <3>2. CASE ~Open(proc, p)
      BY <1>6, <3>2 DEF Open
    <3> QED BY <3>1, <3>2
  <2> QED BY <1>5, <1>6, <2>1 DEF Keeps
<1>9. Aims(goal)' /\ JobsAim(goal)'
  <2>1. OthersStay /\ StateOf(launches)' = StateOf(launches)
    BY <1>1 DEF OthersStay, StateOf
  <2>2. /\ Shared(proc, goal) /\ StateOf(launches) \in {"none", "draft"}
        /\ \A l \in DraftLines :
             l = launches /\ line[l].qty = LineQty(Total(proc, Bound(proc, goal, l)))
    BY <1>2 DEF Aims
  <2>3. StateOf(launches)' = "draft" =>
          line'[launches].qty = LineQty(Total(proc, Bound(proc, goal, launches)))
    BY <1>1, <2>1, <2>2 DEF DraftLines, Shared
  <2>4. Aims(goal)'
    BY <1>8, <2>1, <2>2, <2>3, AimsKept, InvParts
  <2>5. JobsAim(goal)'
    BY <1>1, <1>2, <1>8, <2>1, <2>2, JobsAimKept
  <2> QED BY <2>4, <2>5
<1>10. ASSUME NEW p \in Procs, Open(proc', p)
       PROVE  proc'[p].line = goal[p] \/ \E k \in jobs' : Carries(k, p, goal[p])
  <2>1. Open(proc, p)
    BY <1>8, <1>10 DEF Keeps
  <2>2. CASE proc[p].line = goal[p]
    BY <1>7, <2>1, <2>2
  <2>3. CASE Carries(j, p, goal[p])
    <3>1. goal[p] \in j.lines /\ p \in j.plan[goal[p]]
      BY <1>1, <2>3 DEF Carries
    <3>2. goal[p] \in Targets(p, j.plan, j.lines)
      BY <1>4, <3>1 DEF Targets
    <3> QED BY <1>7, <2>1, <3>2
  <2>4. CASE \E k \in jobs \ {j} : Carries(k, p, goal[p])
    BY <1>1, <2>4
  <2>5. proc[p].line = goal[p] \/ \E k \in jobs : Carries(k, p, goal[p])
    BY <1>2, <2>1 DEF OnTheirWay
  <2> QED BY <2>2, <2>3, <2>4, <2>5
<1>11. OnTheirWay(goal)'
  BY <1>10 DEF OnTheirWay
<1> QED BY <1>9, <1>11 DEF Spread

\* A job that makes the draft line orders what is bound for it.
LEMMA CreateDraftLinesSettled ==
  ASSUME Inv, SettledInv, NEW j, CreateDraftLines(j) PROVE SettledInv'
<1> SUFFICES ASSUME settled' PROVE Spread'
  BY DEF SettledInv
<1> DEFINE n == j.launch
<1>1. /\ j \in jobs /\ j.kind = "fill" /\ settled
      /\ line' = [line EXCEPT ![n] = NewLine(proc, j.order, j.ids)]
      /\ proc' = AddProcsToLine(proc, j.ids, n)
      /\ jobs' = jobs \ {j} /\ launches' = launches /\ order' = order
  BY DEF CreateDraftLines
<1>2. PICK goal \in [Procs -> Launches] : Aims(goal) /\ JobsAim(goal) /\ OnTheirWay(goal)
  BY <1>1, Phase DEF Spread
<1>3. /\ n = launches /\ j.order = launches /\ order[launches] = "draft"
      /\ j.ids = Bound(proc, goal, launches)
  BY <1>1, <1>2 DEF JobsAim
<1>4. n \in Launches
  BY <1>2, <1>3 DEF Aims, Shared
<1> HIDE DEF n
<1>5. /\ \A p \in j.ids : p \in Procs /\ Open(proc, p) /\ goal[p] = n
      /\ j.ids \in SUBSET Procs
  BY <1>3 DEF Bound
<1>6. j.ids # {} /\ \A p \in j.ids : Known(proc, p)
  BY <1>1 DEF Inv, JobsFine, JobFits
<1>7. \A p \in Procs :
        /\ proc'[p].need = proc[p].need /\ proc'[p].qty = proc[p].qty
        /\ p \notin j.ids => proc'[p] = proc[p]
        /\ p \in j.ids => proc'[p].line = n /\ proc'[p].state = "running"
  BY <1>1, <1>4, AddFacts, InvParts
<1>8. Keeps(proc, proc')
  BY <1>5, <1>7 DEF Keeps, Open
<1> DEFINE new == NewLine(proc, j.order, j.ids)
<1>9. new.qty = LineQty(Total(proc, j.ids)) /\ new.order = n /\ new # Unused
  BY <1>3, <1>4, <1>5, <1>6, NewLineFacts, InvParts
<1>10. line \in [Launches -> LineType]
  BY DEF Inv, TypeOK, LineType
<1>11. line'[n] = new /\ \A l \in Launches : l # n => line'[l] = line[l]
  BY <1>1, <1>4, <1>10
<1>12. LineQty(Total(proc, j.ids)) = LineQty(Total(proc, Bound(proc, goal, launches)))
  BY <1>3, Zenon
<1> HIDE DEF new
<1>13. StateOf(launches)' = "draft"
  <2>1. line'[launches'] = new /\ launches' = n /\ order'[n] = "draft" /\ n # NoLine
    BY <1>1, <1>3, <1>4, <1>11 DEF Launches, NoLine
  <2> QED BY <1>9, <2>1 DEF StateOf
<1>14. Aims(goal)' /\ JobsAim(goal)'
  <2>1. OthersStay
    BY <1>1, <1>3, <1>11 DEF OthersStay, StateOf
  <2>2. /\ Shared(proc, goal) /\ StateOf(launches) \in {"none", "draft"}
        /\ \A l \in DraftLines : l = launches
    BY <1>2 DEF Aims
  <2>3. line'[launches].qty = LineQty(Total(proc, Bound(proc, goal, launches)))
    BY <1>3, <1>9, <1>11, <1>12
  <2>4. Aims(goal)'
    BY <1>8, <1>13, <2>1, <2>2, <2>3, AimsKept, InvParts
  <2>5. JobsAim(goal)'
    BY <1>1, <1>2, <1>8, <2>1, <2>2, JobsAimKept
  <2> QED BY <2>4, <2>5
<1>15. ASSUME NEW p \in Procs, Open(proc', p)
       PROVE  proc'[p].line = goal[p] \/ \E k \in jobs' : Carries(k, p, goal[p])
  <2>1. Open(proc, p)
    BY <1>8, <1>15 DEF Keeps
  <2>2. CASE p \in j.ids
    BY <1>5, <1>7, <2>2
  <2>3. CASE p \notin j.ids
    <3>1. proc[p].line = goal[p] \/ \E k \in jobs : Carries(k, p, goal[p])
      BY <1>2, <2>1 DEF OnTheirWay
    <3>2. ~Carries(j, p, goal[p])
      BY <1>1, <2>3 DEF Carries
    <3> QED BY <1>1, <1>7, <2>3, <3>1, <3>2
  <2> QED BY <2>2, <2>3
<1>16. OnTheirWay(goal)'
  BY <1>15 DEF OnTheirWay
<1> QED BY <1>14, <1>16 DEF Spread

\* No other launch deleted the order of a settled one.
LEMMA CreateDraftLinesFailsSettled ==
  ASSUME Inv, SettledInv, NEW j, CreateDraftLinesFails(j) PROVE SettledInv'
<1> SUFFICES ASSUME settled' PROVE FALSE
  BY DEF SettledInv
<1>1. j \in jobs /\ j.kind = "fill" /\ settled /\ order[j.order] = "deleted"
  BY DEF CreateDraftLinesFails
<1>2. PICK goal \in [Procs -> Launches] : JobsAim(goal)
  BY <1>1, Phase DEF Spread
<1>3. j.order = launches /\ order[launches] = "draft"
  BY <1>1, <1>2 DEF JobsAim
<1> QED BY <1>1, <1>3

-----------------------------------------------------------------------------
(* The job that shares the procurements *)

\* The moves of a plan that shares the open procurements touch no closed one, and
\* bring each planned one to its line.
LEMMA MovesKeep ==
  ASSUME TypeOK, NEW ids, NEW f, Carried(f, ids), Shares(f, LinesToFill)
  PROVE  LET left == RemoveProcsFromLines(f.proc, ToLeave(f))
             moved == Redistributed(left, f.plan, f.lines)
         IN  /\ Keeps(f.proc, left) /\ Keeps(f.proc, moved)
             /\ \A l \in f.lines : \A p \in f.plan[l] :
                  Open(f.proc, p) => moved[p].line = l
<1> DEFINE t == f.proc
           S == ToLeave(f)
           left == RemoveProcsFromLines(t, S)
           moved == Redistributed(left, f.plan, f.lines)
<1>1. t \in Table /\ f.lines \in SUBSET Launches /\ f.plan \in SomePlan
  BY LinesToFillAreLaunches DEF Carried, Fine, Sound, Progress
<1>2. \A l \in f.lines : StateOf(l) # "none"
  BY DEF Carried, LinesToFill
<1>3. \A p \in S : p \in Procs /\ Open(t, p)
  <2> SUFFICES ASSUME NEW l \in f.lines, NEW p \in On(t, l) \ f.plan[l]
               PROVE  p \in Procs /\ Open(t, p)
    BY DEF ToLeave
  <2>1. p \in Procs /\ Known(t, p)
    BY DEF On, Known
  <2>2. ~Closed(t, p)
    BY DEF Shares, ClosedOn
  <2> QED BY <1>1, <2>1, <2>2, KnownStates
<1>4. /\ left \in Table
      /\ \A p \in Procs :
           /\ left[p].need = t[p].need /\ left[p].qty = t[p].qty
           /\ p \notin S => left[p] = t[p]
           /\ p \in S => /\ t[p].state = "running" => left[p].state = "buy_to_run"
                         /\ t[p].state # "running" => left[p].state = t[p].state
  BY <1>1, RemoveFacts
<1> HIDE DEF S, left
<1>5. /\ moved \in Table
      /\ \A p \in Procs :
           /\ moved[p].need = left[p].need /\ moved[p].qty = left[p].qty
           /\ Targets(p, f.plan, f.lines) \subseteq {left[p].line} => moved[p] = left[p]
           /\ ~(Targets(p, f.plan, f.lines) \subseteq {left[p].line}) =>
                /\ moved[p].line \in Targets(p, f.plan, f.lines)
                /\ moved[p].state = "running"
  BY <1>1, <1>4, RedistributedFacts
<1> HIDE DEF moved
<1>6. Keeps(t, left)
  BY <1>3, <1>4 DEF Keeps, Open
<1>7. ASSUME NEW p \in Procs, ~Open(t, p)
      PROVE  moved[p] = t[p]
  <2>1. left[p] = t[p]
    BY <1>6, <1>7 DEF Keeps
  <2>2. ASSUME NEW l \in Targets(p, f.plan, f.lines) PROVE l = t[p].line
    <3>1. l \in f.lines /\ l \in Launches /\ p \in f.plan[l]
      BY <1>1 DEF Targets
    <3>2. Known(t, p)
      BY <3>1 DEF Carried
    <3>3. Closed(t, p)
      BY <1>1, <1>7, <3>2, KnownStates
    <3> QED BY <3>1, <3>3 DEF Shares
  <2> QED BY <1>5, <2>1, <2>2
<1>8. ASSUME NEW p \in Procs, Open(t, p)
      PROVE  Open(moved, p)
  <2>1. Open(left, p)
    BY <1>6, <1>8 DEF Keeps
  <2> QED BY <1>5, <2>1 DEF Open
<1>9. Keeps(t, moved)
  <2>1. ASSUME NEW p \in Procs
        PROVE  /\ moved[p].qty = t[p].qty /\ moved[p].need = t[p].need
               /\ Open(moved, p) <=> Open(t, p)
               /\ ~Open(t, p) => moved[p] = t[p]
    BY <1>4, <1>5, <1>7, <1>8 DEF Open
  <2> QED BY <2>1 DEF Keeps
<1>10. ASSUME NEW l \in f.lines, NEW p \in f.plan[l], Open(t, p)
       PROVE  moved[p].line = l
  <2>1. p \in Procs /\ l \in Launches
    BY <1>1 DEF SomePlan
  <2>2. \A m \in f.lines : p \in f.plan[m] => m = l
    BY <1>1, <2>1 DEF Shares
  <2>3. Targets(p, f.plan, f.lines) = {l}
    BY <1>2, <1>10, <2>2 DEF Targets
  <2> QED BY <1>5, <2>1, <2>3
<1> QED BY <1>6, <1>9, <1>10 DEF t, left, moved, S

\* Where a plan brings the open procurements: those that wait go to the new line.
GoalOf(f) ==
  [p \in Procs |-> IF \E l \in f.lines : p \in f.plan[l]
                   THEN CHOOSE l \in f.lines : p \in f.plan[l]
                   ELSE launches]

\* That goal shares the procurements as a settled launch must.
LEMMA PlanShared ==
  ASSUME TypeOK, NEW ids \in SUBSET Procs, NEW f, Carried(f, ids), Shares(f, LinesToFill),
         launches \in Launches, StateOf(launches) = "none",
         \A l \in LinesToFill : StateOf(l) = "approved"
  PROVE  /\ Shared(f.proc, GoalOf(f))
         /\ Bound(f.proc, GoalOf(f), launches) = f.waiting
         /\ \A l \in f.lines : \A p \in f.plan[l] : GoalOf(f)[p] = l
<1> DEFINE t == f.proc
           goal == GoalOf(f)
           n == launches
<1>1. /\ t \in Table /\ f.lines \in SUBSET Launches /\ f.plan \in SomePlan
      /\ f.lines \subseteq LinesToFill /\ f.waiting \in SUBSET Procs
  BY LinesToFillAreLaunches DEF Carried, Fine, Sound, Progress
<1>2. goal \in [Procs -> Launches]
  BY <1>1 DEF GoalOf
<1>3. ASSUME NEW l \in f.lines, NEW p \in f.plan[l]
      PROVE  p \in Procs /\ goal[p] = l
  <2>1. p \in Procs /\ l \in Launches
    BY <1>1 DEF SomePlan
  <2>2. \A m \in f.lines : p \in f.plan[m] => m = l
    BY <1>1, <2>1 DEF Shares
  <2>3. (CHOOSE m \in f.lines : p \in f.plan[m]) = l
    BY <2>2
  <2> QED BY <2>1, <2>3 DEF GoalOf
<1>4. ASSUME NEW p \in Procs, \A l \in f.lines : p \notin f.plan[l]
      PROVE  goal[p] = n
  BY <1>4 DEF GoalOf
<1> HIDE DEF goal
<1>5. \A l \in f.lines : l # n /\ StateOf(l) = "approved"
  BY <1>1
<1>6. ASSUME NEW p \in Procs, Open(t, p)
      PROVE  goal[p] = n <=> p \in f.waiting
  <2>1. CASE p \in f.waiting
    <3>1. \A l \in f.lines : p \notin f.plan[l]
      BY <1>1, <2>1 DEF Shares
    <3> QED BY <1>4, <2>1, <3>1
  <2>2. CASE p \notin f.waiting
    <3>1. PICK l \in f.lines : p \in f.plan[l]
      BY <1>6, <2>2 DEF Shares
    <3> QED BY <1>3, <1>5, <2>2, <3>1
  <2> QED BY <2>1, <2>2
<1>7. Bound(t, goal, n) = f.waiting
  BY <1>1, <1>6 DEF Bound, Shares
<1>8. ASSUME NEW l \in f.lines
      PROVE  Bound(t, goal, l) = OpenIn(t, f.plan[l])
  <2>1. ASSUME NEW p \in Procs, goal[p] = l PROVE p \in f.plan[l]
    <3>1. l # n
      BY <1>5
    <3>2. PICK m \in f.lines : p \in f.plan[m]
      BY <1>4, <2>1, <3>1
    <3> QED BY <1>3, <2>1, <3>2
  <2> QED BY <1>3, <2>1 DEF Bound, OpenIn
<1>9. ASSUME NEW l \in Launches \ f.lines, l # n
      PROVE  Bound(t, goal, l) = {}
  <2>1. ASSUME NEW p \in Procs PROVE goal[p] # l
    <3>1. CASE \A m \in f.lines : p \notin f.plan[m]
      BY <1>4, <1>9, <3>1
    <3>2. CASE \E m \in f.lines : p \in f.plan[m]
      BY <1>3, <1>9, <3>2
    <3> QED BY <3>1, <3>2
  <2> QED BY <2>1 DEF Bound
<1>10. ASSUME NEW l \in Launches \ f.lines, l # n
       PROVE  Total(t, Bound(t, goal, l)) = 0
  <2>1. Bound(t, goal, l) = {}
    BY <1>9, <1>10
  <2>2. Total(t, Bound(t, goal, l)) = Total(t, {})
    BY <2>1, Zenon
  <2> QED BY <2>2, TotalNone
<1>11. \A p \in Procs : Open(t, p) => goal[p] = n \/ StateOf(goal[p]) = "approved"
  <2> SUFFICES ASSUME NEW p \in Procs, goal[p] # n PROVE StateOf(goal[p]) = "approved"
    OBVIOUS
  <2>1. PICK l \in f.lines : p \in f.plan[l]
    BY <1>4
  <2> QED BY <1>3, <1>5, <2>1
<1>12. ASSUME NEW l \in f.lines
       PROVE  Total(t, Bound(t, goal, l)) = Total(t, OpenIn(t, f.plan[l]))
  <2>1. Bound(t, goal, l) = OpenIn(t, f.plan[l])
    BY <1>8
  <2> QED BY <2>1, Zenon
<1>13. ASSUME NEW l \in ToReceive
       PROVE  /\ Total(t, Bound(t, goal, l)) <= Remaining(l)
              /\ f.waiting # {} => Total(t, Bound(t, goal, l)) = Remaining(l)
  <2>1. l \in Launches /\ l # n /\ StateOf(l) = "approved"
    BY DEF ToReceive
  <2>2. Remaining(l) \in Nat
    BY <2>1, LineTypes
  <2>3. CASE l \in f.lines
    BY <1>1, <1>12, <2>3 DEF Shares
  <2>4. CASE l \in LinesToFill \ f.lines
    <3>1. f.waiting = {}
      BY <2>4 DEF Shares
    <3> QED BY <1>10, <2>1, <2>2, <2>4, <3>1
  <2>5. CASE l \notin LinesToFill
    <3>1. Remaining(l) = 0
      BY <2>1, <2>2, <2>5 DEF LinesToFill
    <3>2. l \notin f.lines
      BY <1>1, <2>5
    <3> QED BY <1>10, <2>1, <3>1, <3>2
  <2> QED BY <2>3, <2>4, <2>5
<1>14. \A l \in ToReceive : \A p \in Bound(t, goal, n), q \in Bound(t, goal, l) :
         DateOf(t, q) <= DateOf(t, p)
  <2> SUFFICES ASSUME NEW l \in ToReceive, NEW p \in Bound(t, goal, n), NEW q \in Bound(t, goal, l)
               PROVE  DateOf(t, q) <= DateOf(t, p)
    OBVIOUS
  <2>1. l \in Launches /\ l # n
    BY DEF ToReceive
  <2>2. l \in f.lines
    BY <1>9, <2>1
  <2>3. q \in OpenIn(t, f.plan[l]) /\ p \in f.waiting
    BY <1>7, <1>8, <2>2
  <2> QED BY <2>1, <2>3 DEF Shares
<1>15. Shared(t, goal)
  <2>1. \A l \in ToReceive : Bound(t, goal, launches) # {} =>
                             Total(t, Bound(t, goal, l)) = Remaining(l)
    BY <1>7, <1>13
  <2>2. \A l \in ToReceive : Total(t, Bound(t, goal, l)) <= Remaining(l)
    BY <1>13
  <2> QED BY <1>2, <1>11, <1>14, <2>1, <2>2 DEF Shared
<1> QED BY <1>3, <1>7, <1>15 DEF goal

\* The jobs for the moves of a plan carry the planned procurements to their lines.
LEMMA MovesCarry ==
  ASSUME TypeOK, NEW ids \in SUBSET Procs, NEW f, Carried(f, ids), NEW j,
         NEW l \in f.lines, NEW p \in f.plan[l]
  PROVE  \E k \in RedistributionJobs(j, f) : Carries(k, p, l)
<1>1. l \in Launches /\ StateOf(l) # "none"
  BY LinesToFillAreLaunches DEF Carried, LinesToFill
<1>2. l \in LinesOf(line[l].order)
  BY <1>1 DEF StateOf, LinesOf
<1> DEFINE o == line[l].order
           k == [kind |-> "redistribute", launch |-> j.launch, plan |-> f.plan,
                 lines |-> f.lines \intersect LinesOf(o)]
<1>3. k \in RedistributionJobs(j, f)
  BY DEF RedistributionJobs
<1>4. Carries(k, p, l)
  BY <1>2 DEF Carries
<1> QED BY <1>3, <1>4

\* The table after the step, whatever is left to jobs of their own.
LEMMA ScheduledTable ==
  ASSUME Inv, NEW j, NEW separate, NEW f, Scheduled(j, separate, f),
         NEW ids \in SUBSET Procs, Carried(f, ids), Shares(f, LinesToFill),
         j.launch \in Launches
  PROVE  /\ Keeps(f.proc, proc')
         /\ \A l \in f.lines : \A p \in f.plan[l] : Open(f.proc, p) =>
              proc'[p].line = l \/ \E k \in jobs' : Carries(k, p, l)
         /\ \A p \in f.waiting :
              proc'[p].line = j.launch \/ \E k \in jobs' : k.kind = "fill" /\ p \in k.ids
<1> DEFINE t == f.proc
           left == RemoveProcsFromLines(t, ToLeave(f))
           moves == RedistributionJobs(j, f)
           apart == "redistribute" \in separate /\ Cardinality(moves) > 1
           there == Redistributed(left, f.plan, f.lines)
           moved == IF apart THEN left ELSE there
           others == (jobs \ {j}) \union IF apart THEN moves ELSE {}
           W == f.waiting
<1>1. /\ Keeps(t, left) /\ Keeps(t, there)
      /\ \A l \in f.lines : \A p \in f.plan[l] : Open(t, p) => there[p].line = l
  BY MovesKeep DEF Inv
<1>2. Fine(left) /\ Fine(there)
  BY MovesFine DEF Inv
<1>3. \/ /\ W = {}
         /\ proc' = moved
         /\ jobs' = others
      \/ \E o \in DraftOrders(j.launch) :
           \/ /\ proc' = moved
              /\ jobs' = others \union {FillJob(j, o, W)}
           \/ /\ "fill" \notin separate
              /\ proc' = AddProcsToLine(moved, W, j.launch)
              /\ jobs' = others
  BY DEF Scheduled
<1>4. ASSUME NEW l \in f.lines, NEW p \in f.plan[l], apart
      PROVE  \E k \in moves : Carries(k, p, l)
  BY MovesCarry DEF Inv
<1>5. f.plan \in SomePlan /\ f.lines \in SUBSET Launches /\ W \in SUBSET Procs
  BY LinesToFillAreLaunches DEF Carried, Progress
<1>6. \A p \in W : Open(t, p)
  BY DEF Shares
<1>7. moves \subseteq others \/ ~apart
  OBVIOUS
<1>8. moved = IF apart THEN left ELSE there
  OBVIOUS
<1>9. \A l \in f.lines : \A p \in f.plan[l] : p \in Procs /\ p \notin W
  BY <1>5 DEF SomePlan, Shares
<1> HIDE DEF left, there, moves, apart, moved, others, W
<1>10. Keeps(t, moved)
  BY <1>1, <1>8
<1>11. ASSUME NEW l \in f.lines, NEW p \in f.plan[l], Open(t, p)
       PROVE  moved[p].line = l \/ \E k \in others : Carries(k, p, l)
  <2>1. CASE apart
    BY <1>4, <1>7, <2>1
  <2>2. CASE ~apart
    BY <1>1, <1>8, <1>11, <2>2
  <2> QED BY <2>1, <2>2
<1>12. CASE proc' = moved /\ others \subseteq jobs'
            /\ (W = {} \/ \E o : FillJob(j, o, W) \in jobs')
  <2>1. \A p \in W : \E k \in jobs' : k.kind = "fill" /\ p \in k.ids
    BY <1>12 DEF FillJob
  <2> QED BY <1>10, <1>11, <1>12, <2>1 DEF W, t
<1>13. CASE "fill" \notin separate /\ proc' = AddProcsToLine(moved, W, j.launch) /\ jobs' = others
  <2>1. moved \in Table
    BY <1>2, <1>8 DEF Fine, Sound
  <2>2. \A p \in Procs :
          /\ proc'[p].need = moved[p].need /\ proc'[p].qty = moved[p].qty
          /\ p \notin W => proc'[p] = moved[p]
          /\ p \in W => proc'[p].line = j.launch /\ proc'[p].state = "running"
    BY <1>13, <2>1, AddFacts
  <2>3. Keeps(t, proc')
    <3>1. ASSUME NEW p \in Procs
          PROVE  /\ proc'[p].qty = t[p].qty /\ proc'[p].need = t[p].need
                 /\ Open(proc', p) <=> Open(t, p)
                 /\ ~Open(t, p) => proc'[p] = t[p]
      <4>1. CASE p \in W
        BY <1>6, <1>10, <2>2, <4>1 DEF Keeps, Open
      <4>2. CASE p \notin W
        BY <1>10, <2>2, <4>2 DEF Keeps, Open
      <4> QED BY <4>1, <4>2
    <3> HIDE DEF t
    <3> QED BY <3>1 DEF Keeps
  <2>4. ASSUME NEW l \in f.lines, NEW p \in f.plan[l], Open(t, p)
        PROVE  proc'[p].line = l \/ \E k \in jobs' : Carries(k, p, l)
    <3>1. proc'[p] = moved[p]
      BY <1>9, <2>2
    <3>2. moved[p].line = l \/ \E k \in others : Carries(k, p, l)
      BY <1>11, <2>4
    <3> QED BY <1>13, <3>1, <3>2
  <2>5. \A p \in W : proc'[p].line = j.launch
    BY <1>5, <2>2
  <2> QED BY <2>3, <2>4, <2>5 DEF W, t
<1> QED BY <1>3, <1>12, <1>13

\* The new order and line, if any, are the launch's own; they are drafts, made for
\* the procurements that wait.
LEMMA ScheduledOrders ==
  ASSUME Inv, NEW j, NEW separate, NEW f, Scheduled(j, separate, f), launches' = launches,
         NEW ids \in SUBSET Procs, Carried(f, ids), Shares(f, LinesToFill), jobs = {j},
         j.launch = launches, NothingYet, \A o \in Launches : order[o] # "draft"
  PROVE  /\ OthersStay
         /\ StateOf(launches)' \in {"none", "draft"}
         /\ StateOf(launches)' = "draft" =>
              line'[launches].qty = LineQty(Total(f.proc, f.waiting))
         /\ \A k \in jobs' :
              \/ k = FillJob(j, launches, f.waiting) /\ order'[launches] = "draft"
              \/ k \in RedistributionJobs(j, f)
<1> DEFINE t == f.proc
           n == launches
           W == f.waiting
           left == RemoveProcsFromLines(t, ToLeave(f))
           moves == RedistributionJobs(j, f)
           apart == "redistribute" \in separate /\ Cardinality(moves) > 1
           moved == IF apart THEN left ELSE Redistributed(left, f.plan, f.lines)
           others == (jobs \ {j}) \union IF apart THEN moves ELSE {}
<1>1. n \in Launches /\ line[n] = Unused /\ order[n] = "none" /\ n # NoLine
  BY DEF NothingYet, Launches, NoLine
<1>2. DraftOrders(j.launch) = {n}
  BY DEF DraftOrders
<1>3. others \subseteq moves
  OBVIOUS
<1>4. \/ jobs' = others /\ UNCHANGED <<order, line>>
      \/ /\ W # {}
         /\ order' = [order EXCEPT ![n] = "draft"]
         /\ \/ jobs' = others \union {FillJob(j, n, W)} /\ UNCHANGED line
            \/ /\ line' = [line EXCEPT ![n] = NewLine(moved, n, W)]
               /\ jobs' = others
  BY <1>2 DEF Scheduled
<1>5. /\ order \in [Launches -> OrderStates]
      /\ line \in [Launches -> LineType]
  BY DEF Inv, TypeOK, LineType
<1>6. \A l \in Launches : line[l] # Unused => line[l].order \in Launches /\ line[l].order # n
  BY <1>1 DEF Inv, LinesFine
<1>7. Sound(moved) /\ Keeps(t, moved) /\ t \in Table
  <2>1. Fine(left) /\ Fine(Redistributed(left, f.plan, f.lines))
    BY MovesFine DEF Inv
  <2>2. Keeps(t, left) /\ Keeps(t, Redistributed(left, f.plan, f.lines))
    BY MovesKeep DEF Inv
  <2> HIDE DEF left
  <2> QED BY <2>1, <2>2 DEF Fine, Carried, Sound
<1>8. W \in SUBSET Procs /\ \A p \in W : Open(t, p)
  BY DEF Carried, Progress, Shares
<1> HIDE DEF left, moves, apart, moved, others, W
<1>9. Total(moved, W) = Total(t, W)
  <2>1. \A p \in W : moved[p].qty = t[p].qty
    BY <1>7, <1>8 DEF Keeps
  <2> HIDE DEF t
  <2> QED BY <1>7, <1>8, <2>1, TotalSame
<1>10. LineQty(Total(moved, W)) = LineQty(Total(t, W))
  BY <1>9, Zenon
<1>11. \A p \in W : Known(moved, p)
  BY <1>7, <1>8 DEF Keeps, Open, Known
<1>12. W # {} => /\ NewLine(moved, n, W).order = n
                 /\ NewLine(moved, n, W).qty = LineQty(Total(moved, W))
                 /\ NewLine(moved, n, W) # Unused
  BY <1>1, <1>7, <1>8, <1>11, NewLineFacts
<1> DEFINE new == NewLine(moved, n, W)
<1> HIDE DEF new
<1>13. CASE jobs' = others /\ UNCHANGED <<order, line>>
  <2>1. OthersStay
    BY <1>13 DEF OthersStay, StateOf
  <2>2. StateOf(launches)' = "none"
    BY <1>1, <1>13 DEF StateOf
  <2> QED BY <1>3, <1>13, <2>1, <2>2 DEF moves
<1>14. CASE order' = [order EXCEPT ![n] = "draft"] /\ UNCHANGED line
            /\ jobs' = others \union {FillJob(j, n, W)}
  <2>1. OthersStay
    <3>1. ASSUME NEW l \in Launches PROVE StateOf(l)' = StateOf(l)
      BY <1>5, <1>6, <1>14 DEF StateOf
    <3> QED BY <1>14, <3>1 DEF OthersStay
  <2>2. StateOf(launches)' = "none"
    BY <1>1, <1>14 DEF StateOf
  <2>3. order'[launches] = "draft"
    BY <1>1, <1>5, <1>14
  <2>4. \A k \in jobs' : k = FillJob(j, launches, f.waiting) \/ k \in moves
    BY <1>3, <1>14 DEF W
  <2> QED BY <2>1, <2>2, <2>3, <2>4 DEF moves
<1>15. CASE W # {} /\ order' = [order EXCEPT ![n] = "draft"]
            /\ line' = [line EXCEPT ![n] = new] /\ jobs' = others
  <2>1. line'[n] = new /\ \A l \in Launches : l # n => line'[l] = line[l]
    BY <1>1, <1>5, <1>15
  <2>2. OthersStay
    <3>1. ASSUME NEW l \in Launches, l # n PROVE StateOf(l)' = StateOf(l)
      BY <1>5, <1>6, <1>15, <2>1, <3>1 DEF StateOf
    <3> QED BY <2>1, <3>1 DEF OthersStay
  <2>3. StateOf(launches)' = "draft"
    BY <1>1, <1>5, <1>12, <1>15, <2>1 DEF StateOf, new
  <2>4. line'[launches].qty = LineQty(Total(t, W))
    BY <1>10, <1>12, <1>15, <2>1 DEF new
  <2> QED BY <1>3, <1>15, <2>2, <2>3, <2>4 DEF W, moves
<1> QED BY <1>4, <1>13, <1>14, <1>15 DEF new

\* The job that plans sets every open procurement on its way.
LEMMA PurchaseScheduleSettled ==
  ASSUME Inv, SettledInv, NEW j, NEW separate, PurchaseSchedule(j, separate)
  PROVE  SettledInv'
<1> SUFFICES ASSUME settled' PROVE Spread'
  BY DEF SettledInv
<1> DEFINE f == ProcsForLines(j.ids)
<1>1. /\ j \in jobs /\ j.kind = "procs" /\ settled /\ launches' = launches
      /\ Cardinality(LinesToFill) <= Cardinality(Unknown(proc))
      /\ Scheduled(j, separate, f)
  BY ScheduleParts
<1>2. /\ ProcsPending /\ jobs = {j}
      /\ j = [kind |-> "procs", launch |-> launches, ids |-> Candidates]
  BY <1>1, Phase
<1>3. j.ids = {p \in Procs : Open(proc, p)} /\ j.launch = launches
  BY <1>2 DEF Candidates
<1>4. j.ids \in SUBSET Procs /\ \A p \in j.ids : Known(proc, p)
  BY <1>3 DEF Open, Known
<1>5. NothingYet /\ \A o \in Launches : order[o] # "draft"
  BY <1>2 DEF ProcsPending
<1>6. launches \in Launches /\ StateOf(launches) = "none"
  BY <1>5 DEF NothingYet, StateOf
<1>7. Carried(f, j.ids) /\ Shares(f, LinesToFill)
  BY <1>1, <1>3, <1>4, LinesPlanned DEF Inv
<1>8. \A l \in LinesToFill : StateOf(l) = "approved"
  BY <1>5, DraftLineOrder DEF LinesToFill, Inv
<1>9. DraftLines = {}
  BY <1>5, DraftLineOrder DEF DraftLines, Inv
<1> HIDE DEF f
<1>10. PICK goal \in [Procs -> Launches] : goal = GoalOf(f)
  BY <1>4, <1>6, <1>7, <1>8, PlanShared DEF Inv, Shared
<1>11. /\ Shared(f.proc, goal)
       /\ Bound(f.proc, goal, launches) = f.waiting
       /\ \A l \in f.lines : \A p \in f.plan[l] : goal[p] = l
  <2>1. /\ Shared(f.proc, GoalOf(f))
        /\ Bound(f.proc, GoalOf(f), launches) = f.waiting
        /\ \A l \in f.lines : \A p \in f.plan[l] : GoalOf(f)[p] = l
    BY <1>4, <1>6, <1>7, <1>8, PlanShared DEF Inv
  <2> QED BY <1>10, <2>1
<1>12. /\ Keeps(f.proc, proc')
       /\ \A l \in f.lines : \A p \in f.plan[l] : Open(f.proc, p) =>
            proc'[p].line = l \/ \E k \in jobs' : Carries(k, p, l)
       /\ \A p \in f.waiting :
            proc'[p].line = launches \/ \E k \in jobs' : k.kind = "fill" /\ p \in k.ids
  BY <1>1, <1>3, <1>4, <1>6, <1>7, ScheduledTable
<1>13. /\ OthersStay
       /\ StateOf(launches)' \in {"none", "draft"}
       /\ StateOf(launches)' = "draft" =>
            line'[launches].qty = LineQty(Total(f.proc, f.waiting))
       /\ \A k \in jobs' :
            \/ k = FillJob(j, launches, f.waiting) /\ order'[launches] = "draft"
            \/ k \in RedistributionJobs(j, f)
  BY <1>1, <1>2, <1>3, <1>4, <1>5, <1>7, ScheduledOrders
<1>14. f.proc \in Table /\ f.lines \in SUBSET Launches /\ f.plan \in SomePlan
  BY <1>7, LinesToFillAreLaunches DEF Carried, Fine, Sound, Progress
<1>15. Bound(proc, goal, launches)' = f.waiting
  BY <1>1, <1>11, <1>12, <1>14, BoundKept
<1>16. Aims(goal)'
  <2>1. LineQty(Total(f.proc, f.waiting))
          = LineQty(Total(f.proc, Bound(f.proc, goal, launches)))
    BY <1>11, Zenon
  <2>2. StateOf(launches)' = "draft" =>
          line'[launches].qty = LineQty(Total(f.proc, Bound(f.proc, goal, launches)))
    BY <1>13, <2>1
  <2> QED BY <1>6, <1>9, <1>11, <1>12, <1>13, <1>14, <2>2, AimsKept
<1>17. JobsAim(goal)'
  <2> SUFFICES ASSUME NEW k \in jobs'
               PROVE  /\ k.launch = launches'
                      /\ \/ /\ k.kind = "fill" /\ k.order = launches' /\ order'[launches'] = "draft"
                            /\ k.ids = Bound(proc, goal, launches)'
                         \/ /\ k.kind = "redistribute"
                            /\ \A l \in k.lines :
                                 /\ StateOf(l)' = "approved"
                                 /\ \A p \in k.plan[l] :
                                      /\ Open(proc', p) => goal[p] = l
                                      /\ Closed(proc', p) => proc'[p].line = l
    BY DEF JobsAim
  <2>1. CASE k = FillJob(j, launches, f.waiting) /\ order'[launches] = "draft"
    BY <1>1, <1>3, <1>15, <2>1 DEF FillJob
  <2>2. CASE k \in RedistributionJobs(j, f)
    <3>1. /\ k.kind = "redistribute" /\ k.launch = launches /\ k.plan = f.plan
          /\ k.lines \subseteq f.lines
      BY <1>3, <2>2 DEF RedistributionJobs
    <3>2. ASSUME NEW l \in k.lines
          PROVE  /\ StateOf(l)' = "approved"
                 /\ \A p \in k.plan[l] : /\ Open(proc', p) => goal[p] = l
                                         /\ Closed(proc', p) => proc'[p].line = l
      <4>1. l \in f.lines /\ l \in LinesToFill /\ l \in Launches /\ l # launches
        BY <1>6, <1>7, <1>14, <3>1 DEF Carried, LinesToFill
      <4>2. StateOf(l)' = "approved"
        BY <1>8, <1>13, <4>1 DEF OthersStay
      <4>3. ASSUME NEW p \in k.plan[l]
            PROVE  /\ Open(proc', p) => goal[p] = l
                   /\ Closed(proc', p) => proc'[p].line = l
        <5>1. p \in Procs /\ p \in f.plan[l]
          BY <1>14, <3>1, <4>1 DEF SomePlan
        <5>2. goal[p] = l
          BY <1>11, <4>1, <5>1
        <5>3. Closed(proc', p) => ~Open(proc', p)
          BY DEF Closed, Open
        <5>4. Closed(proc', p) => proc'[p] = f.proc[p] /\ Closed(f.proc, p)
          BY <1>12, <5>1, <5>3 DEF Keeps, Closed
        <5> QED BY <1>7, <4>1, <5>1, <5>2, <5>4 DEF Shares
      <4> QED BY <4>2, <4>3
    <3> QED BY <1>1, <3>1, <3>2
  <2> QED BY <1>13, <2>1, <2>2
<1>18. ASSUME NEW p \in Procs, Open(proc', p)
       PROVE  proc'[p].line = goal[p] \/ \E k \in jobs' : Carries(k, p, goal[p])
  <2>1. Open(f.proc, p)
    BY <1>12, <1>18 DEF Keeps
  <2>2. CASE p \in f.waiting
    <3>1. goal[p] = launches
      BY <1>11, <2>2 DEF Bound
    <3> QED BY <1>12, <2>2, <3>1 DEF Carries
  <2>3. CASE p \notin f.waiting
    <3>1. PICK l \in f.lines : p \in f.plan[l]
      BY <1>7, <2>1, <2>3 DEF Shares
    <3> QED BY <1>11, <1>12, <2>1, <3>1
  <2> QED BY <2>2, <2>3
<1>19. OnTheirWay(goal)'
  BY <1>18 DEF OnTheirWay
<1> QED BY <1>10, <1>16, <1>17, <1>19 DEF Spread

-----------------------------------------------------------------------------

\* Every step keeps the peace, or ends it.
LEMMA StepSettledInv == Inv /\ SettledInv /\ [Next]_vars => SettledInv'
<1> SUFFICES ASSUME Inv, SettledInv, [Next]_vars PROVE SettledInv'
  OBVIOUS
<1>1. Inv'
  BY StepInv
<1>2. CASE Launch
  BY <1>2, LaunchSettled
<1>3. ASSUME NEW j \in jobs, LaunchSeller(j) PROVE SettledInv'
  BY <1>1, <1>3, LaunchSellerSettled
<1>4. ASSUME NEW j \in jobs, NEW separate \in SUBSET Separate, PurchaseSchedule(j, separate)
      PROVE  SettledInv'
  BY <1>4, PurchaseScheduleSettled
<1>5. ASSUME NEW j \in jobs, Redistribute(j) PROVE SettledInv'
  BY <1>5, RedistributeSettled
<1>6. ASSUME NEW j \in jobs, CreateDraftLines(j) PROVE SettledInv'
  BY <1>6, CreateDraftLinesSettled
<1>7. ASSUME NEW j \in jobs, CreateDraftLinesFails(j) PROVE SettledInv'
  BY <1>7, CreateDraftLinesFailsSettled
<1>8. CASE \E d \in DOMAIN Needs : RaiseNeed(d)
  BY <1>8, DisturbedSettled DEF RaiseNeed
<1>9. CASE \E p \in Procs : CancelNeed(p) \/ Check(p)
  BY <1>9, DisturbedSettled DEF CancelNeed, Check
<1>10. CASE \E l \in Launches, qty \in LineQtys : SetLineQty(l, qty) \/ Receive(l, qty)
  BY <1>10, DisturbedSettled DEF SetLineQty, Receive
<1>11. CASE \E o \in Launches : Approve(o) \/ CancelOrder(o)
  BY <1>11, DisturbedSettled DEF Approve, CancelOrder
<1>12. CASE UNCHANGED vars
  <2>1. /\ settled' = settled /\ launches' = launches /\ line' = line
        /\ order' = order /\ jobs' = jobs /\ proc' = proc
    BY <1>12 DEF vars
  <2>2. Candidates' = Candidates /\ NothingYet' = NothingYet
    BY <2>1 DEF Candidates, NothingYet, Open, DateOf
  <2>3. SellerPending' = SellerPending /\ ProcsPending' = ProcsPending
    BY <2>1, <2>2 DEF SellerPending, ProcsPending
  <2>4. ASSUME NEW goal, Aims(goal) PROVE Aims(goal)'
    <3>1. \A l : /\ StateOf(l)' = StateOf(l)
                 /\ Remaining(l)' = Remaining(l)
      BY <2>1 DEF StateOf, Remaining
    <3>2. ToReceive' = ToReceive /\ DraftLines' = DraftLines
      BY <3>1 DEF ToReceive, DraftLines
    <3>3. Shared(proc, goal)'
      BY <2>1, <2>4, <3>1, <3>2 DEF Aims, Shared
    <3> QED BY <2>1, <2>4, <3>1, <3>2, <3>3 DEF Aims
  <2>5. ASSUME NEW goal, JobsAim(goal) PROVE JobsAim(goal)'
    BY <2>1, <2>5 DEF JobsAim, Bound, StateOf, Open, Closed
  <2>6. ASSUME NEW goal, OnTheirWay(goal) PROVE OnTheirWay(goal)'
    BY <2>1, <2>6 DEF OnTheirWay, Open
  <2>7. Spread => Spread'
    BY <2>4, <2>5, <2>6 DEF Spread
  <2> QED BY <2>1, <2>3, <2>7 DEF SettledInv
<1> QED BY <1>2, <1>3, <1>4, <1>5, <1>6, <1>7, <1>8, <1>9, <1>10, <1>11, <1>12 DEF Next

\* So it holds in every reachable state.
LEMMA SettledInvariant == Spec => [](Inv /\ SettledInv)
<1>1. Init => Inv /\ SettledInv
  BY InitInv DEF Init, SettledInv
<1>2. (Inv /\ SettledInv) /\ [Next]_vars => (Inv /\ SettledInv)'
  BY StepInv, StepSettledInv
<1> QED BY <1>1, <1>2, PTL DEF Spec

\* When nothing disturbed a launch, every open need is on an order that is alive:
\* whatever numbers, needs, lines and history of earlier launches it met.
THEOREM AllNeedsAreOrdered == Spec => []EveryNeedOrdered
  BY SettledInvariant, SettledOrdersAll, PTL

\* ... no line to receive is planned beyond what it brings, and a draft order
\* orders enough, and less than a packaging more than its needs or the minimum.
THEOREM NothingIsOrderedTwice == Spec => []NothingOrderedTwice
  BY SettledInvariant, SettledOrdersOnce, PTL

\* ... and nothing is ordered anew while a line to receive has quantity to spare
\* or serves a later need.
THEOREM OrdersOnlyWhenShort == Spec => []OrderedOnlyWhenShort
  BY SettledInvariant, SettledOrdersShort, PTL
=============================================================================
