---------------------------- MODULE OrderpointProofs ----------------------------
(***************************************************************************)
(* A pass over a minimum stock rule covers the needs it has read, and      *)
(* leaves no procurement that the level does without: the loops of process *)
(* keep the level of every day they have passed, in the rows as they will  *)
(* be.                                                                     *)
(***************************************************************************)
EXTENDS Orderpoint, FoldLemmas

-----------------------------------------------------------------------------
(* Quantities and levels *)

\* Rounding up to the multiple gives at least what is asked, and something if it is.
LEMMA RoundUpIsEnough ==
  ASSUME NEW q \in Nat
  PROVE  /\ RoundUp(q) \in Nat /\ RoundUp(q) >= q
         /\ Multiple = 1 => RoundUp(q) = q
<1>1. PICK m \in Nat \ {0} : m = Multiple
  BY OrderpointAssumption
<1>2. PICK k \in Nat, r \in 0 .. m - 1 : q = m * k + r /\ k = q \div m /\ r = q % m
  <2>1. /\ q = m * (q \div m) + (q % m)
        /\ q % m \in 0 .. m - 1
        /\ q \div m \in Nat
    OBVIOUS
  <2> QED BY <2>1
<1>3. (k + 1) * m = m * k + m /\ (k + 1) * m \in Nat
  <2>1. k \in Int /\ m \in Int
    BY <1>2
  <2> QED BY <1>1, <1>2
<1>4. RoundUp(q) = IF r = 0 THEN q ELSE (k + 1) * m
  BY <1>1, <1>2 DEF RoundUp
<1>5. m * k \in Int
  BY <1>1, <1>2
<1>6. m = 1 => r = 0
  BY <1>2
<1> QED BY <1>1, <1>2, <1>3, <1>4, <1>5, <1>6

\* What a pass may read.
Snapshots == [stock : Nat, outs : [Days -> Nat], proc : [Procs -> Rows \union {NoProc}]]

\* Every procurement has a quantity, a day and a protection.
LEMMA SnapshotTypes ==
  ASSUME NEW v \in Snapshots
  PROVE  /\ v.stock \in Nat
         /\ \A d \in Days : v.outs[d] \in Nat
         /\ \A p \in Procs : /\ v.proc[p].qty \in Nat /\ v.proc[p].day \in 0 .. Horizon
                             /\ v.proc[p].protected \in BOOLEAN /\ v.proc[p].move \in BOOLEAN
                             /\ v.proc[p] # NoProc => v.proc[p].day \in Days /\ v.proc[p] \in Rows
                             /\ v.proc[p].protected \/ v.proc[p].move => v.proc[p] # NoProc
<1>1. /\ v.stock \in Nat /\ v.outs \in [Days -> Nat]
      /\ v.proc \in [Procs -> Rows \union {NoProc}]
  BY DEF Snapshots
<1>2. ASSUME NEW p \in Procs
      PROVE  /\ v.proc[p].qty \in Nat /\ v.proc[p].day \in 0 .. Horizon
             /\ v.proc[p].protected \in BOOLEAN /\ v.proc[p].move \in BOOLEAN
             /\ v.proc[p] # NoProc => v.proc[p].day \in Days /\ v.proc[p] \in Rows
             /\ v.proc[p].protected \/ v.proc[p].move => v.proc[p] # NoProc
  <2>1. PICK row \in Rows \union {NoProc} : v.proc[p] = row
    BY <1>1
  <2>2. CASE row = NoProc
    BY <2>1, <2>2, OrderpointAssumption DEF NoProc
  <2>3. CASE row \in Rows
    <3>1. /\ row.day \in 1 .. Horizon /\ row.qty \in Nat
          /\ row.move \in BOOLEAN /\ row.protected \in BOOLEAN
      BY <2>3 DEF Rows, Days
    <3>2. row.day \in Days /\ row.day \in 0 .. Horizon /\ row # NoProc
      BY <3>1 DEF Days, NoProc
    <3> QED BY <2>1, <2>3, <3>1, <3>2
  <2> QED BY <2>1, <2>2, <2>3
<1> QED BY <1>1, <1>2

LEMMA SetsAreFinite ==
  /\ IsFiniteSet(Procs) /\ IsFiniteSet(Days)
  /\ Procs \subseteq Nat /\ Days \subseteq Nat
  /\ \A S \in SUBSET Procs : IsFiniteSet(S)
  /\ \A S \in SUBSET Days : IsFiniteSet(S)
<1>1. Horizon \in Int /\ NProcs \in Int /\ Procs \subseteq Nat /\ Days \subseteq Nat
  BY OrderpointAssumption DEF Procs, Days
<1>2. IsFiniteSet(Procs) /\ IsFiniteSet(Days)
  BY <1>1, FS_Interval DEF Procs, Days
<1>3. \A S \in SUBSET Procs : IsFiniteSet(S)
  BY <1>2, FS_Subset
<1>4. \A S \in SUBSET Days : IsFiniteSet(S)
  BY <1>2, FS_Subset
<1> QED BY <1>1, <1>2, <1>3, <1>4

\* The quantities of procurements that are apart add up.
LEMMA SumOfParts ==
  ASSUME NEW v \in Snapshots, NEW S \in SUBSET Procs, NEW T \in SUBSET Procs, S \cap T = {}
  PROVE  /\ SumOf(v, S) \in Nat /\ SumOf(v, T) \in Nat
         /\ SumOf(v, S \cup T) = SumOf(v, S) + SumOf(v, T)
<1> DEFINE w == [p \in Procs |-> v.proc[p].qty]
<1>1. \A p \in Procs : w[p] \in Nat /\ w[p] \in Int
  BY SnapshotTypes
<1>2. SumOf(v, S) = SumFunctionOnSet(w, S) /\ SumOf(v, T) = SumFunctionOnSet(w, T)
      /\ SumOf(v, S \cup T) = SumFunctionOnSet(w, S \cup T)
  BY DEF SumOf
<1> HIDE DEF w
<1>3. IsFiniteSet(S) /\ IsFiniteSet(T) /\ \A p \in S \cup T : w[p] \in Int
  BY <1>1, SetsAreFinite
<1>4. SumFunctionOnSet(w, S \cup T) = SumFunctionOnSet(w, S) + SumFunctionOnSet(w, T)
  BY <1>3, SumUnion
<1>5. (\A p \in S : w[p] \in Nat) /\ (\A p \in T : w[p] \in Nat)
  BY <1>1
<1>6. SumFunctionOnSet(w, S) \in Nat /\ SumFunctionOnSet(w, T) \in Nat
  BY <1>3, <1>5, SumNat
<1> QED BY <1>2, <1>4, <1>6

LEMMA SumOfNone == ASSUME NEW v PROVE SumOf(v, {}) = 0
BY SumEmpty DEF SumOf

\* What goes out up to a day
OutUpTo(v, d) == SumFunctionOnSet(v.outs, 1 .. d)

LEMMA OutStep ==
  ASSUME NEW v \in Snapshots
  PROVE  /\ OutUpTo(v, 0) = 0
         /\ \A d \in Days : /\ OutUpTo(v, d) \in Nat /\ OutUpTo(v, d - 1) \in Nat
                            /\ OutUpTo(v, d) = OutUpTo(v, d - 1) + v.outs[d]
<1>1. OutUpTo(v, 0) = 0
  <2>1. 1 .. 0 = {}
    OBVIOUS
  <2> QED BY <2>1, SumEmpty DEF OutUpTo
<1>2. ASSUME NEW d \in Days
      PROVE  /\ OutUpTo(v, d) \in Nat /\ OutUpTo(v, d - 1) \in Nat
             /\ OutUpTo(v, d) = OutUpTo(v, d - 1) + v.outs[d]
  <2>1. /\ d \in 1 .. Horizon /\ d \in Nat
        /\ 1 .. (d - 1) \subseteq Days /\ d \notin 1 .. (d - 1)
        /\ 1 .. d = (1 .. (d - 1)) \cup {d} /\ 1 .. d \subseteq Days
    BY OrderpointAssumption DEF Days
  <2>2. \A x \in Days : v.outs[x] \in Nat /\ v.outs[x] \in Int
    BY SnapshotTypes
  <2>3. IsFiniteSet(1 .. (d - 1)) /\ IsFiniteSet(1 .. d)
    BY <2>1, SetsAreFinite
  <2>4. SumFunctionOnSet(v.outs, (1 .. (d - 1)) \cup {d}) = SumFunctionOnSet(v.outs, 1 .. (d - 1)) + v.outs[d]
    <3>1. \A x \in (1 .. (d - 1)) \cup {d} : v.outs[x] \in Int
      BY <2>1, <2>2
    <3> QED BY <2>1, <2>3, <3>1, SumAdd
  <2>5. SumFunctionOnSet(v.outs, 1 .. (d - 1)) \in Nat
    <3>1. \A x \in 1 .. (d - 1) : v.outs[x] \in Nat
      BY <2>1, <2>2
    <3> QED BY <2>3, <3>1, SumNat
  <2>6. v.outs[d] \in Nat
    BY <2>2
  <2>7. /\ OutUpTo(v, d) = SumFunctionOnSet(v.outs, 1 .. d)
        /\ OutUpTo(v, d - 1) = SumFunctionOnSet(v.outs, 1 .. (d - 1))
    BY DEF OutUpTo
  <2>8. SumFunctionOnSet(v.outs, 1 .. d) = SumFunctionOnSet(v.outs, 1 .. (d - 1)) + v.outs[d]
    BY <2>1, <2>4
  <2> QED BY <2>5, <2>6, <2>7, <2>8
<1> QED BY <1>1, <1>2

LEMMA SumOfType ==
  ASSUME NEW v \in Snapshots, NEW S \in SUBSET Procs
  PROVE  SumOf(v, S) \in Nat
<1>1. {} \in SUBSET Procs /\ S \cap {} = {}
  OBVIOUS
<1> QED BY <1>1, SumOfParts

\* The procurements up to a day
Due(v, d) == {p \in Procs : v.proc[p] # NoProc /\ v.proc[p].day <= d}

\* What a pass creates, as a row of days and quantities
Created == [day : Nat, qty : Nat]

\* The places in such a row of what is up to a day
Until(new, d) == {i \in DOMAIN new : new[i].day <= d}

\* The level a pass leaves at the end of a day if it cancels gone and creates new
LevelAt(v, gone, new, d) ==
  v.stock + SumOf(v, Due(v, d) \ gone) - OutUpTo(v, d) + QtyOf(new, Until(new, d))

LEMMA CreatedQty ==
  ASSUME NEW new \in Seq(Created), NEW S \in SUBSET DOMAIN new
  PROVE  IsFiniteSet(S) /\ QtyOf(new, S) \in Nat
<1> DEFINE w == [i \in DOMAIN new |-> new[i].qty]
<1>1. DOMAIN new = 1 .. Len(new) /\ Len(new) \in Nat
  OBVIOUS
<1>2. IsFiniteSet(S)
  <2>1. IsFiniteSet(DOMAIN new)
    BY <1>1, FS_Interval
  <2> QED BY <2>1, FS_Subset
<1>3. \A i \in S : w[i] \in Nat
  <2>1. \A i \in DOMAIN new : new[i] \in Created
    OBVIOUS
  <2> QED BY <2>1 DEF Created
<1>4. QtyOf(new, S) = SumFunctionOnSet(w, S)
  BY DEF QtyOf
<1> HIDE DEF w
<1> QED BY <1>2, <1>3, <1>4, SumNat

LEMMA LevelType ==
  ASSUME NEW v \in Snapshots, NEW gone, NEW new \in Seq(Created), NEW d \in 0 .. Horizon
  PROVE  LevelAt(v, gone, new, d) \in Int
<1>1. Due(v, d) \ gone \in SUBSET Procs /\ Until(new, d) \in SUBSET DOMAIN new
  BY DEF Due, Until
<1>2. SumOf(v, Due(v, d) \ gone) \in Nat
  BY <1>1, SumOfType
<1>3. QtyOf(new, Until(new, d)) \in Nat
  BY <1>1, CreatedQty
<1>4. OutUpTo(v, d) \in Nat
  <2>1. d = 0 \/ d \in Days
    BY OrderpointAssumption DEF Days
  <2> QED BY <2>1, OutStep
<1>5. v.stock \in Nat
  BY SnapshotTypes
<1> QED BY <1>2, <1>3, <1>4, <1>5 DEF LevelAt

\* Cancelling lowers the level from the day on.
Lowers(v, gone, new, d, more) ==
  /\ LevelAt(v, gone \cup more, new, d) = LevelAt(v, gone, new, d) - SumOf(v, more)
  /\ \A x \in 0 .. d - 1 : LevelAt(v, gone \cup more, new, x) = LevelAt(v, gone, new, x)

LEMMA LevelLess ==
  ASSUME NEW v \in Snapshots, NEW gone, NEW new \in Seq(Created), NEW d \in Days,
         NEW more \in SUBSET (Supply(v, d) \ gone)
  PROVE  Lowers(v, gone, new, d, more)
<1>0. d \in Nat /\ d \in 0 .. Horizon /\ \A x \in 0 .. d - 1 : x \in 0 .. Horizon
  BY OrderpointAssumption DEF Days
<1>1. more \in SUBSET Procs /\ \A p \in more : v.proc[p] # NoProc /\ v.proc[p].day = d /\ p \notin gone
  BY DEF Supply
<1> DEFINE kept == Due(v, d) \ (gone \cup more)
<1>2. /\ kept \in SUBSET Procs /\ kept \cap more = {}
      /\ Due(v, d) \ gone = kept \cup more
  BY <1>0, <1>1 DEF Due
<1>3. /\ SumOf(v, kept) \in Nat /\ SumOf(v, more) \in Nat
      /\ SumOf(v, kept \cup more) = SumOf(v, kept) + SumOf(v, more)
  BY <1>1, <1>2, SumOfParts
<1>4. LevelAt(v, gone \cup more, new, d) = LevelAt(v, gone, new, d) - SumOf(v, more)
  <2>1. SumOf(v, Due(v, d) \ gone) = SumOf(v, kept) + SumOf(v, more)
    BY <1>2, <1>3
  <2>2. LevelAt(v, gone, new, d) = v.stock + SumOf(v, Due(v, d) \ gone) - OutUpTo(v, d) + QtyOf(new, Until(new, d))
    BY DEF LevelAt
  <2>3. LevelAt(v, gone \cup more, new, d) = v.stock + SumOf(v, kept) - OutUpTo(v, d) + QtyOf(new, Until(new, d))
    BY DEF LevelAt
  <2>4. v.stock \in Nat /\ OutUpTo(v, d) \in Nat /\ QtyOf(new, Until(new, d)) \in Nat
    <3>1. Until(new, d) \in SUBSET DOMAIN new
      BY DEF Until
    <3> QED BY <3>1, SnapshotTypes, OutStep, CreatedQty
  <2> HIDE DEF kept
  <2> QED BY <1>3, <2>1, <2>2, <2>3, <2>4
<1>5. ASSUME NEW x \in 0 .. d - 1
      PROVE  LevelAt(v, gone \cup more, new, x) = LevelAt(v, gone, new, x)
  <2>1. \A p \in more : ~ (v.proc[p].day <= x)
    BY <1>0, <1>1
  <2>2. Due(v, x) \ (gone \cup more) = Due(v, x) \ gone
    BY <2>1 DEF Due
  <2> QED BY <2>2 DEF LevelAt
<1> QED BY <1>3, <1>4, <1>5 DEF Lowers

\* Of a row that gets one thing more, what is up to a day
LEMMA UntilMore ==
  ASSUME NEW new \in Seq(Created), NEW n \in Created, NEW d \in Nat
  PROVE  /\ QtyOf(new, Until(new, d)) \in Nat
         /\ QtyOf(Append(new, n), Until(Append(new, n), d)) =
              QtyOf(new, Until(new, d)) + (IF n.day <= d THEN n.qty ELSE 0)
<1> DEFINE L == Len(new)
<1>1. /\ DOMAIN new = 1 .. L /\ L \in Nat /\ DOMAIN Append(new, n) = 1 .. L + 1
      /\ \A i \in 1 .. L : Append(new, n)[i] = new[i]
      /\ Append(new, n)[L + 1] = n
  OBVIOUS
<1>2. Until(new, d) \in SUBSET DOMAIN new
  BY DEF Until
<1> HIDE DEF L
<1>3. Until(Append(new, n), d) = IF n.day <= d THEN Until(new, d) \cup {L + 1} ELSE Until(new, d)
  BY <1>1 DEF Until
<1>4. /\ QtyOf(Append(new, n), Until(new, d)) = QtyOf(new, Until(new, d))
      /\ QtyOf(Append(new, n), Until(new, d) \cup {L + 1}) = QtyOf(new, Until(new, d)) + n.qty
  <2>1. \A r \in Created : r.qty \in Int
    BY DEF Created
  <2> QED BY <1>2, <2>1, QtyAppend DEF L
<1>5. QtyOf(new, Until(new, d)) \in Nat /\ n.qty \in Nat
  BY <1>2, CreatedQty DEF Created
<1> QED BY <1>3, <1>4, <1>5

\* Creating raises it from the day on.
LEMMA LevelMore ==
  ASSUME NEW v \in Snapshots, NEW gone, NEW new \in Seq(Created), NEW n \in Created,
         NEW d \in 0 .. Horizon
  PROVE  LevelAt(v, gone, Append(new, n), d) =
           LevelAt(v, gone, new, d) + (IF n.day <= d THEN n.qty ELSE 0)
<1>1. /\ QtyOf(new, Until(new, d)) \in Nat /\ n.qty \in Nat
      /\ QtyOf(Append(new, n), Until(Append(new, n), d)) =
           QtyOf(new, Until(new, d)) + (IF n.day <= d THEN n.qty ELSE 0)
  <2>1. d \in Nat
    BY OrderpointAssumption
  <2>2. n.qty \in Nat
    BY DEF Created
  <2> QED BY <2>1, <2>2, UntilMore
<1>2. SumOf(v, Due(v, d) \ gone) \in Nat /\ OutUpTo(v, d) \in Nat /\ v.stock \in Nat
  <2>1. d = 0 \/ d \in Days
    BY OrderpointAssumption DEF Days
  <2>2. Due(v, d) \ gone \in SUBSET Procs
    BY DEF Due
  <2>3. OutUpTo(v, d) \in Nat
    BY <2>1, OutStep
  <2> QED BY <2>2, <2>3, SumOfType, SnapshotTypes
<1> QED BY <1>1, <1>2 DEF LevelAt

\* From one day to the next, when a pass has not gone further.
LEMMA LevelNext ==
  ASSUME NEW v \in Snapshots, NEW d \in Days, NEW gone \in SUBSET Due(v, d - 1),
         NEW new \in Seq(Created), \A i \in DOMAIN new : new[i].day <= d - 1
  PROVE  LevelAt(v, gone, new, d) =
           LevelAt(v, gone, new, d - 1) + SumOf(v, Supply(v, d)) - v.outs[d]
<1>0. d \in Nat \ {0}
  BY OrderpointAssumption DEF Days
<1>1. \A p \in Procs : v.proc[p].day \in Int
  BY SnapshotTypes
<1> DEFINE had == Due(v, d - 1) \ gone
<1>2. /\ had \in SUBSET Procs /\ Supply(v, d) \in SUBSET Procs
      /\ had \cap Supply(v, d) = {}
      /\ Due(v, d) \ gone = had \cup Supply(v, d)
  BY <1>0, <1>1 DEF Due, Supply
<1>3. /\ SumOf(v, had) \in Nat /\ SumOf(v, Supply(v, d)) \in Nat
      /\ SumOf(v, had \cup Supply(v, d)) = SumOf(v, had) + SumOf(v, Supply(v, d))
  BY <1>2, SumOfParts
<1>4. Until(new, d) = Until(new, d - 1)
  <2>1. \A i \in DOMAIN new : new[i].day \in Nat
    <3>1. \A i \in DOMAIN new : new[i] \in Created
      OBVIOUS
    <3> QED BY <3>1 DEF Created
  <2> QED BY <1>0, <2>1 DEF Until
<1>5. QtyOf(new, Until(new, d)) \in Nat
  <2>1. Until(new, d) \in SUBSET DOMAIN new
    BY DEF Until
  <2> QED BY <2>1, CreatedQty
<1>6. /\ OutUpTo(v, d) \in Nat /\ OutUpTo(v, d - 1) \in Nat
      /\ OutUpTo(v, d) = OutUpTo(v, d - 1) + v.outs[d]
      /\ v.stock \in Nat /\ v.outs[d] \in Nat
  BY OutStep, SnapshotTypes
<1>7. LevelAt(v, gone, new, d) = v.stock + (SumOf(v, had) + SumOf(v, Supply(v, d))) - OutUpTo(v, d) + QtyOf(new, Until(new, d))
  BY <1>2, <1>3 DEF LevelAt
<1>8. LevelAt(v, gone, new, d - 1) = v.stock + SumOf(v, had) - OutUpTo(v, d - 1) + QtyOf(new, Until(new, d))
  BY <1>4 DEF LevelAt
<1> HIDE DEF had
<1>9. PICK a \in Int, b \in Int : a = SumOf(v, had) /\ b = SumOf(v, Supply(v, d))
  BY <1>3
<1>10. PICK c \in Int : c = QtyOf(new, Until(new, d))
  BY <1>5
<1>11. PICK s \in Int, o \in Int, y \in Int :
         s = v.stock /\ o = v.outs[d] /\ y = OutUpTo(v, d - 1) /\ OutUpTo(v, d) = y + o
  BY <1>6
<1>12. /\ LevelAt(v, gone, new, d) = s + (a + b) - (y + o) + c
       /\ LevelAt(v, gone, new, d - 1) = s + a - y + c
  BY <1>7, <1>8, <1>9, <1>10, <1>11
<1>13. s + (a + b) - (y + o) + c = (s + a - y + c) + b - o
  BY SMTT(20)
<1> QED BY <1>9, <1>11, <1>12, <1>13

-----------------------------------------------------------------------------
(* The days of a walk *)

\* What a pass has done by day d: it only cancelled what it may, and created things
\* that are due.
Sane(v, d) ==
  {acc \in Progress :
     /\ acc.day <= d
     /\ \A i \in DOMAIN acc.new : acc.new[i].day \in 1 .. d /\ acc.new[i].qty # 0
     /\ acc.cancelled \subseteq Due(v, d)
     /\ \A p \in acc.cancelled : ~ v.proc[p].protected}

Leaves(v, acc, x) == LevelAt(v, acc.cancelled, acc.new, x)

\* What a pass has to have made of a day: what goes out is covered, and there is no
\* supply that the level does without
Served(v, acc, x) == v.outs[x] > 0 => Leaves(v, acc, x) >= MinQty
CreatesOn(acc, x) == \E i \in DOMAIN acc.new : acc.new[i].day = x
Trimmed(v, acc, x) ==
  \/ Leaves(v, acc, x) <= AllowedQty
  \/ \E p \in Supply(v, x) : v.proc[p].protected
  \/ Supply(v, x) \subseteq acc.cancelled /\ ~ CreatesOn(acc, x)
Settled(v, acc, x) == Served(v, acc, x) /\ (Multiple = 1 => Trimmed(v, acc, x))

\* Between days: the level leaves the stock out up to its first day.
After(v, d) ==
  {acc \in Sane(v, d) :
     /\ acc.level = Leaves(v, acc, d) - (IF d < FirstDay(v) THEN v.stock ELSE 0)
     /\ \A x \in 1 .. d : Settled(v, acc, x)}

\* In the events of a day, before it is served: tried if one of its procurements was
\* looked at
Opened(v, d, tried) ==
  {acc \in Sane(v, d) :
     /\ acc.day = d
     /\ acc.level = Leaves(v, acc, d)
     /\ \A x \in 1 .. d - 1 : Settled(v, acc, x)
     /\ Multiple = 1 => /\ CreatesOn(acc, d) => acc.level <= AllowedQty
                        /\ tried => Trimmed(v, acc, d)}
On(v, d, tried) == {acc \in Opened(v, d, tried) : Served(v, acc, d)}

LEMMA ProgressTypes ==
  ASSUME NEW acc \in Progress
  PROVE  /\ acc.day \in Nat /\ acc.level \in Int /\ acc.cancelled \in SUBSET Procs
         /\ acc.new \in Seq(Created)
         /\ \A i \in DOMAIN acc.new : acc.new[i].day \in Nat /\ acc.new[i].qty \in Nat
<1>1. /\ acc.day \in Nat /\ acc.level \in Int /\ acc.cancelled \in SUBSET Procs
      /\ acc.new \in Seq(Created)
  BY DEF Progress, Created
<1>2. \A i \in DOMAIN acc.new : acc.new[i] \in Created
  BY <1>1
<1> QED BY <1>1, <1>2 DEF Created

\* What changes in the progress of a pass
Cancelling(acc, l, g) == [acc EXCEPT !.level = l, !.cancelled = g]
Creating(acc, l, n) == [acc EXCEPT !.level = l, !.new = n]
Opening(acc, l, d) == [acc EXCEPT !.level = l, !.day = d]

LEMMA CancellingChanges ==
  ASSUME NEW acc \in Progress, NEW l \in Int, NEW g \in SUBSET Procs
  PROVE  /\ Cancelling(acc, l, g) \in Progress
         /\ Cancelling(acc, l, g).day = acc.day
         /\ Cancelling(acc, l, g).level = l
         /\ Cancelling(acc, l, g).cancelled = g
         /\ Cancelling(acc, l, g).new = acc.new
<1>1. PICK N : N = Seq([day : Nat, qty : Nat])
  OBVIOUS
<1>2. acc \in [day : Nat, level : Int, cancelled : SUBSET Procs, new : N]
  BY <1>1 DEF Progress
<1>3. Progress = [day : Nat, level : Int, cancelled : SUBSET Procs, new : N] /\ N = Seq(Created)
  BY <1>1 DEF Progress, Created
<1> QED BY <1>2, <1>3 DEF Cancelling

LEMMA CreatingChanges ==
  ASSUME NEW acc \in Progress, NEW l \in Int, NEW n \in Seq(Created)
  PROVE  /\ Creating(acc, l, n) \in Progress
         /\ Creating(acc, l, n).day = acc.day
         /\ Creating(acc, l, n).level = l
         /\ Creating(acc, l, n).cancelled = acc.cancelled
         /\ Creating(acc, l, n).new = n
<1>1. PICK N : N = Seq([day : Nat, qty : Nat])
  OBVIOUS
<1>2. acc \in [day : Nat, level : Int, cancelled : SUBSET Procs, new : N]
  BY <1>1 DEF Progress
<1>3. Progress = [day : Nat, level : Int, cancelled : SUBSET Procs, new : N] /\ N = Seq(Created)
  BY <1>1 DEF Progress, Created
<1> QED BY <1>2, <1>3 DEF Creating

LEMMA OpeningChanges ==
  ASSUME NEW acc \in Progress, NEW l \in Int, NEW d \in Nat
  PROVE  /\ Opening(acc, l, d) \in Progress
         /\ Opening(acc, l, d).day = d
         /\ Opening(acc, l, d).level = l
         /\ Opening(acc, l, d).cancelled = acc.cancelled
         /\ Opening(acc, l, d).new = acc.new
<1>1. PICK N : N = Seq([day : Nat, qty : Nat])
  OBVIOUS
<1>2. acc \in [day : Nat, level : Int, cancelled : SUBSET Procs, new : N]
  BY <1>1 DEF Progress
<1>3. Progress = [day : Nat, level : Int, cancelled : SUBSET Procs, new : N] /\ N = Seq(Created)
  BY <1>1 DEF Progress, Created
<1> QED BY <1>2, <1>3 DEF Opening

\* The largest level that is not too much
LEMMA Allowed ==
  /\ AllowedQty \in Nat /\ AllowedQty >= MaxQty /\ (Multiple = 1 => AllowedQty = MaxQty)
  /\ MinQty \in Nat /\ MaxQty \in Nat /\ MinQty <= MaxQty
<1>1. MinQty \in Nat /\ MaxQty \in Nat /\ MinQty <= MaxQty
  BY OrderpointAssumption
<1> QED BY <1>1, RoundUpIsEnough DEF AllowedQty

\* cancel_procs_just_in_time leaves the days before as they are, and the day with
\* protected procurements only.
LEMMA CancelStep ==
  ASSUME NEW v \in Snapshots, NEW d \in Days, NEW acc \in Sane(v, d), NEW e, e.day = d,
         NEW less, less = CancelOversupply(v, acc, e)
  PROVE  /\ less \in Sane(v, d) /\ less.day = acc.day /\ less.new = acc.new
         /\ acc.cancelled \subseteq less.cancelled
         /\ \A p \in Supply(v, d) : v.proc[p].protected \/ p \in less.cancelled
         /\ \E s \in Nat : /\ less.level = acc.level - s
                           /\ Leaves(v, less, d) = Leaves(v, acc, d) - s
         /\ \A x \in 0 .. d - 1 : Leaves(v, less, x) = Leaves(v, acc, x)
<1> DEFINE gone == Supply(v, d) \ ({p \in Supply(v, d) : v.proc[p].protected} \cup acc.cancelled)
<1>1. acc \in Progress
  BY DEF Sane
<1>2. less = [acc EXCEPT !.level = @ - SumOf(v, gone), !.cancelled = @ \cup gone]
  BY DEF CancelOversupply
<1>3. gone \in SUBSET (Supply(v, d) \ acc.cancelled) /\ gone \in SUBSET Procs
  BY DEF Supply
<1>4. \A p \in gone : ~ v.proc[p].protected /\ p \in Due(v, d)
  <2>1. d \in Int
    BY DEF Days
  <2> QED BY <2>1 DEF Supply, Due
<1>5. \A p \in Supply(v, d) : v.proc[p].protected \/ p \in acc.cancelled \cup gone
  OBVIOUS
<1> HIDE DEF gone
<1>6. SumOf(v, gone) \in Nat
  BY <1>3, SumOfType
<1>7. /\ less \in Progress /\ less.day = acc.day /\ less.new = acc.new
      /\ less.level = acc.level - SumOf(v, gone) /\ less.cancelled = acc.cancelled \cup gone
  <2>1. PICK l, g : l = acc.level - SumOf(v, gone) /\ g = acc.cancelled \cup gone
    OBVIOUS
  <2>2. l \in Int /\ g \in SUBSET Procs
    BY <1>1, <1>3, <1>6, <2>1, ProgressTypes
  <2>3. less = Cancelling(acc, l, g)
    BY <1>2, <2>1 DEF Cancelling
  <2>4. /\ Cancelling(acc, l, g) \in Progress
        /\ Cancelling(acc, l, g).day = acc.day
        /\ Cancelling(acc, l, g).new = acc.new
        /\ Cancelling(acc, l, g).level = l
        /\ Cancelling(acc, l, g).cancelled = g
    BY <1>1, <2>2, CancellingChanges
  <2>5. less \in Progress /\ less.day = acc.day /\ less.new = acc.new /\ less.level = l /\ less.cancelled = g
    BY <2>3, <2>4
  <2> QED BY <2>1, <2>5
<1>8. less \in Sane(v, d)
  BY <1>4, <1>7 DEF Sane
<1>9. acc.new \in Seq(Created)
  BY <1>1, ProgressTypes
<1>10. /\ Leaves(v, less, d) = Leaves(v, acc, d) - SumOf(v, gone)
       /\ \A x \in 0 .. d - 1 : Leaves(v, less, x) = Leaves(v, acc, x)
  <2>1. /\ LevelAt(v, acc.cancelled \cup gone, acc.new, d) = LevelAt(v, acc.cancelled, acc.new, d) - SumOf(v, gone)
        /\ \A x \in 0 .. d - 1 : LevelAt(v, acc.cancelled \cup gone, acc.new, x) = LevelAt(v, acc.cancelled, acc.new, x)
    <3>1. PICK g, n, m : g = acc.cancelled /\ n = acc.new /\ m = gone
      OBVIOUS
    <3>2. n \in Seq(Created) /\ m \in SUBSET (Supply(v, d) \ g)
      BY <1>3, <1>9, <3>1
    <3>3. Lowers(v, g, n, d, m)
      BY <3>2, LevelLess
    <3> QED BY <3>1, <3>3 DEF Lowers
  <2> QED BY <1>7, <2>1 DEF Leaves
<1> QED BY <1>5, <1>6, <1>7, <1>8, <1>10

\* create_from_need leaves the days before as they are, and brings the day to the
\* maximum, or over it as the multiple has it.
LEMMA CreateStep ==
  ASSUME NEW v \in Snapshots, NEW d \in Days, NEW acc \in Sane(v, d), NEW e, e.day = d,
         acc.level < MinQty, NEW more, more = CreateFromNeed(acc, e)
  PROVE  /\ more \in Sane(v, d) /\ more.day = acc.day /\ more.cancelled = acc.cancelled
         /\ \A x \in 1 .. d - 1 : CreatesOn(more, x) => CreatesOn(acc, x)
         /\ more.level >= MinQty /\ (Multiple = 1 => more.level <= AllowedQty)
         /\ \E q \in Nat : /\ more.level = acc.level + q
                           /\ Leaves(v, more, d) = Leaves(v, acc, d) + q
         /\ \A x \in 0 .. d - 1 : Leaves(v, more, x) = Leaves(v, acc, x)
<1>1. acc \in Progress
  BY DEF Sane
<1>2. /\ acc.day \in Nat /\ acc.level \in Int /\ acc.cancelled \in SUBSET Procs
      /\ acc.new \in Seq(Created)
  BY <1>1, ProgressTypes
<1>3. MaxQty - acc.level \in Nat /\ MaxQty - acc.level # 0
  BY <1>2, Allowed
<1>4. PICK q \in Nat : /\ q = RoundUp(MaxQty - acc.level) /\ q >= MaxQty - acc.level
                       /\ Multiple = 1 => q = MaxQty - acc.level
  BY <1>3, RoundUpIsEnough
<1>5. q # 0
  BY <1>2, <1>3, <1>4, Allowed
<1> DEFINE made == [day |-> d, qty |-> q]
<1>6. more = [acc EXCEPT !.level = @ + q, !.new = Append(@, made)]
  BY <1>4 DEF CreateFromNeed
<1>7. /\ d \in Nat /\ d \in 1 .. d /\ d \in 0 .. Horizon
      /\ \A x \in 0 .. d : x \in 0 .. Horizon
      /\ \A x \in 0 .. d - 1 : x \in 0 .. d /\ ~ (d <= x)
  BY OrderpointAssumption DEF Days
<1>8. made \in Created /\ made.day = d /\ made.qty = q
  BY <1>7 DEF Created
<1> HIDE DEF made
<1>9. /\ more \in Progress /\ more.day = acc.day /\ more.cancelled = acc.cancelled
      /\ more.level = acc.level + q /\ more.new = Append(acc.new, made)
  <2>1. PICK l, k : l = acc.level + q /\ k = Append(acc.new, made)
    OBVIOUS
  <2>2. l \in Int /\ k \in Seq(Created)
    BY <1>2, <1>4, <1>8, <2>1
  <2>3. more = Creating(acc, l, k)
    BY <1>6, <2>1 DEF Creating
  <2>4. /\ Creating(acc, l, k) \in Progress
        /\ Creating(acc, l, k).day = acc.day
        /\ Creating(acc, l, k).cancelled = acc.cancelled
        /\ Creating(acc, l, k).level = l
        /\ Creating(acc, l, k).new = k
    BY <1>1, <2>2, CreatingChanges
  <2>5. more \in Progress /\ more.day = acc.day /\ more.cancelled = acc.cancelled /\ more.level = l /\ more.new = k
    BY <2>3, <2>4
  <2> QED BY <2>1, <2>5
<1>10. \A i \in DOMAIN more.new : more.new[i] = made \/ (i \in DOMAIN acc.new /\ more.new[i] = acc.new[i])
  BY <1>2, <1>8, <1>9
<1>11. more \in Sane(v, d)
  BY <1>5, <1>7, <1>8, <1>9, <1>10 DEF Sane
<1>12. \A x \in 1 .. d - 1 : CreatesOn(more, x) => CreatesOn(acc, x)
  <2>1. \A x \in 1 .. d - 1 : x # d
    BY <1>7
  <2> QED BY <1>8, <1>10, <2>1 DEF CreatesOn
<1>13. ASSUME NEW x \in 0 .. d
       PROVE  Leaves(v, more, x) = Leaves(v, acc, x) + (IF d <= x THEN q ELSE 0)
  <2>1. x \in 0 .. Horizon
    BY <1>7
  <2>2. LevelAt(v, acc.cancelled, Append(acc.new, made), x) = LevelAt(v, acc.cancelled, acc.new, x) + (IF made.day <= x THEN made.qty ELSE 0)
    BY <1>2, <1>8, <2>1, LevelMore
  <2> QED BY <1>8, <1>9, <2>2 DEF Leaves
<1>14. Leaves(v, more, d) = Leaves(v, acc, d) + q
  BY <1>7, <1>13
<1>15. ASSUME NEW x \in 0 .. d - 1
       PROVE  Leaves(v, more, x) = Leaves(v, acc, x)
  <2>1. x \in 0 .. d /\ ~ (d <= x) /\ x \in 0 .. Horizon
    BY <1>7
  <2>2. Leaves(v, acc, x) \in Int
    BY <1>2, <2>1, LevelType DEF Leaves
  <2> QED BY <1>13, <2>1, <2>2
<1>16. more.level >= MinQty /\ (Multiple = 1 => more.level <= AllowedQty)
  BY <1>2, <1>4, <1>9, Allowed
<1> QED BY <1>9, <1>11, <1>12, <1>14, <1>15, <1>16

\* A day stays settled when its level does, nothing cancelled comes back and nothing is
\* created on it.
LEMMA StaysSettled ==
  ASSUME NEW v, NEW x, NEW acc, Settled(v, acc, x),
         NEW next, Leaves(v, next, x) = Leaves(v, acc, x),
         acc.cancelled \subseteq next.cancelled, CreatesOn(next, x) => CreatesOn(acc, x)
  PROVE  Settled(v, next, x)
BY DEF Settled, Served, Trimmed

LEMMA LeavesType ==
  ASSUME NEW v \in Snapshots, NEW d \in 0 .. Horizon, NEW acc \in Sane(v, d), NEW x \in 0 .. Horizon
  PROVE  Leaves(v, acc, x) \in Int /\ acc.level \in Int /\ acc \in Progress
<1>1. acc \in Progress
  BY DEF Sane
<1> QED BY <1>1, LevelType, ProgressTypes DEF Leaves

\* The day on which the stock is counted
LEMMA FirstDayType ==
  ASSUME NEW v
  PROVE  FirstDay(v) \in Days /\ \A d \in BusyDays(v) : FirstDay(v) <= d
<1>1. CASE BusyDays(v) = {}
  BY <1>1, OrderpointAssumption DEF FirstDay, Days
<1>2. CASE BusyDays(v) # {}
  <2>1. BusyDays(v) \in SUBSET Days /\ BusyDays(v) \in SUBSET Nat
    BY DEF BusyDays, Days
  <2>2. \E n \in BusyDays(v) : \A m \in BusyDays(v) : n <= m
    BY <1>2, <2>1, SmallestNumber
  <2>3. Least(BusyDays(v)) \in BusyDays(v) /\ \A m \in BusyDays(v) : Least(BusyDays(v)) <= m
    BY <2>2 DEF Least
  <2> QED BY <1>2, <2>1, <2>3 DEF FirstDay
<1> QED BY <1>1, <1>2

\* A need that is found is met.
LEMMA CreateOnDay ==
  ASSUME NEW v \in Snapshots, NEW d \in Days, NEW tried \in BOOLEAN,
         NEW acc \in Opened(v, d, tried), NEW e, e.day = d, UnderMin(acc.level)
  PROVE  CreateFromNeed(acc, e) \in On(v, d, TRUE)
<1> DEFINE more == CreateFromNeed(acc, e)
<1>0. acc \in Sane(v, d) /\ acc.day = d /\ acc.level = Leaves(v, acc, d) /\ acc.level < MinQty
      /\ \A x \in 1 .. d - 1 : Settled(v, acc, x)
  BY DEF Opened, UnderMin
<1>1. /\ more \in Sane(v, d) /\ more.day = acc.day /\ more.cancelled = acc.cancelled
      /\ \A x \in 1 .. d - 1 : CreatesOn(more, x) => CreatesOn(acc, x)
      /\ more.level >= MinQty /\ (Multiple = 1 => more.level <= AllowedQty)
      /\ \E q \in Nat : /\ more.level = acc.level + q
                        /\ Leaves(v, more, d) = Leaves(v, acc, d) + q
      /\ \A x \in 0 .. d - 1 : Leaves(v, more, x) = Leaves(v, acc, x)
  <2> HIDE DEF more
  <2>1. more = CreateFromNeed(acc, e)
    BY DEF more
  <2> QED BY <1>0, <2>1, CreateStep
<1> HIDE DEF more
<1>2. more.level = Leaves(v, more, d)
  BY <1>0, <1>1
<1>3. \A x \in 1 .. d - 1 : Settled(v, more, x)
  <2> TAKE x \in 1 .. d - 1
  <2>1. x \in 0 .. d - 1
    BY DEF Days
  <2> QED BY <1>0, <1>1, <2>1, StaysSettled
<1>4. Served(v, more, d) /\ (Multiple = 1 => Trimmed(v, more, d))
  BY <1>1, <1>2 DEF Served, Trimmed
<1> QED BY <1>0, <1>1, <1>2, <1>3, <1>4 DEF On, Opened, more

\* What is too much goes.
LEMMA CancelOnDay ==
  ASSUME NEW v \in Snapshots, NEW d \in Days, NEW tried \in BOOLEAN,
         NEW acc \in Opened(v, d, tried), NEW e, e.day = d, OverMax(acc.level)
  PROVE  CancelOversupply(v, acc, e) \in Opened(v, d, TRUE)
<1> DEFINE less == CancelOversupply(v, acc, e)
<1>0. acc \in Sane(v, d) /\ acc.day = d /\ acc.level = Leaves(v, acc, d) /\ acc.level > AllowedQty
      /\ (\A x \in 1 .. d - 1 : Settled(v, acc, x))
      /\ (Multiple = 1 => (CreatesOn(acc, d) => acc.level <= AllowedQty))
  BY DEF Opened, OverMax
<1>1. /\ less \in Sane(v, d) /\ less.day = acc.day /\ less.new = acc.new
      /\ acc.cancelled \subseteq less.cancelled
      /\ \A p \in Supply(v, d) : v.proc[p].protected \/ p \in less.cancelled
      /\ \E s \in Nat : /\ less.level = acc.level - s
                        /\ Leaves(v, less, d) = Leaves(v, acc, d) - s
      /\ \A x \in 0 .. d - 1 : Leaves(v, less, x) = Leaves(v, acc, x)
  <2> HIDE DEF less
  <2>1. less = CancelOversupply(v, acc, e)
    BY DEF less
  <2> QED BY <1>0, <2>1, CancelStep
<1> HIDE DEF less
<1>2. less.level = Leaves(v, less, d)
  BY <1>0, <1>1
<1>3. \A x \in 1 .. d - 1 : Settled(v, less, x)
  <2> TAKE x \in 1 .. d - 1
  <2>1. x \in 0 .. d - 1
    BY DEF Days
  <2>2. CreatesOn(less, x) => CreatesOn(acc, x)
    BY <1>1 DEF CreatesOn
  <2> QED BY <1>0, <1>1, <2>1, <2>2, StaysSettled
<1>4. Multiple = 1 => ~ CreatesOn(less, d)
  <2>1. acc.level \in Int /\ AllowedQty \in Int
    <3>1. acc \in Progress
      BY <1>0 DEF Sane
    <3> QED BY <3>1, ProgressTypes, Allowed
  <2>2. CreatesOn(less, d) <=> CreatesOn(acc, d)
    BY <1>1 DEF CreatesOn
  <2> QED BY <1>0, <2>1, <2>2
<1>5. Multiple = 1 => Trimmed(v, less, d)
  BY <1>1, <1>4 DEF Trimmed
<1> QED BY <1>0, <1>1, <1>2, <1>3, <1>4, <1>5 DEF Opened, less

\* What the loop of process does with an event, once the level of its day is computed
React(v, acc, e) ==
  LET less == CancelOversupply(v, acc, e)
  IN IF OverMax(acc.level) /\ e.proc # 0
     THEN IF UnderMin(less.level) /\ v.outs[e.day] > 0 THEN CreateFromNeed(less, e) ELSE less
     ELSE IF UnderMin(acc.level) THEN CreateFromNeed(acc, e) ELSE acc

LEMMA OpenedLevel ==
  ASSUME NEW v \in Snapshots, NEW d \in Days, NEW tried \in BOOLEAN, NEW acc \in Opened(v, d, tried)
  PROVE  acc.level \in Int /\ acc.level = Leaves(v, acc, d) /\ acc \in Progress
<1>1. acc \in Progress /\ acc.level = Leaves(v, acc, d)
  BY DEF Opened, Sane
<1> QED BY <1>1, ProgressTypes

LEMMA EventReaction ==
  ASSUME NEW v \in Snapshots, NEW d \in Days, NEW tried \in BOOLEAN,
         NEW acc \in Opened(v, d, tried), NEW e, e.day = d
  PROVE  React(v, acc, e) \in On(v, d, tried \/ e.proc # 0)
<1>0. \A t \in BOOLEAN : On(v, d, TRUE) \subseteq On(v, d, t)
  BY DEF On, Opened
<1>a. (tried \/ e.proc # 0) \in BOOLEAN
  OBVIOUS
<1>b. MinQty \in Int /\ AllowedQty \in Int /\ MinQty <= AllowedQty
  BY Allowed
<1>1. CASE OverMax(acc.level) /\ e.proc # 0
  <2> DEFINE less == CancelOversupply(v, acc, e)
  <2>1. less \in Opened(v, d, TRUE)
    BY <1>1, CancelOnDay
  <2>2. React(v, acc, e) = IF UnderMin(less.level) /\ v.outs[d] > 0 THEN CreateFromNeed(less, e) ELSE less
    BY <1>1 DEF React
  <2> HIDE DEF less
  <2>3. CASE UnderMin(less.level) /\ v.outs[d] > 0
    <3>1. CreateFromNeed(less, e) \in On(v, d, TRUE)
      BY <2>1, <2>3, CreateOnDay
    <3> QED BY <1>0, <1>a, <2>2, <2>3, <3>1
  <2>4. CASE ~ (UnderMin(less.level) /\ v.outs[d] > 0)
    <3>1. less.level \in Int /\ less.level = Leaves(v, less, d)
      BY <2>1, OpenedLevel
    <3>2. Served(v, less, d)
      BY <1>b, <2>4, <3>1 DEF Served, UnderMin
    <3>3. less \in On(v, d, TRUE)
      BY <2>1, <3>2 DEF On
    <3> QED BY <1>0, <1>a, <2>2, <2>4, <3>3
  <2> QED BY <2>3, <2>4
<1>2. CASE ~ (OverMax(acc.level) /\ e.proc # 0) /\ UnderMin(acc.level)
  <2>1. React(v, acc, e) = CreateFromNeed(acc, e)
    BY <1>2 DEF React
  <2>2. CreateFromNeed(acc, e) \in On(v, d, TRUE)
    BY <1>2, CreateOnDay
  <2> QED BY <1>0, <1>a, <2>1, <2>2
<1>3. CASE ~ (OverMax(acc.level) /\ e.proc # 0) /\ ~ UnderMin(acc.level)
  <2>1. React(v, acc, e) = acc
    BY <1>3 DEF React
  <2>2. acc.level \in Int /\ acc.level = Leaves(v, acc, d)
    BY OpenedLevel
  <2>3. Served(v, acc, d)
    BY <1>b, <1>3, <2>2 DEF Served, UnderMin
  <2>4. e.proc # 0 => Trimmed(v, acc, d)
    BY <1>b, <1>3, <2>2 DEF Trimmed, OverMax
  <2>5. acc \in Opened(v, d, tried \/ e.proc # 0)
    BY <2>4 DEF Opened
  <2> QED BY <2>1, <2>3, <2>5 DEF On
<1> QED BY <1>1, <1>2, <1>3

\* The first event of a day brings in what the day adds.
LEMMA OpenDay ==
  ASSUME NEW v \in Snapshots, NEW d \in Days, d >= FirstDay(v),
         NEW acc \in After(v, d - 1), NEW e, e.day = d
  PROVE  Opening(acc, ProcessEventsAtDate(v, acc, e), d) \in Opened(v, d, FALSE)
<1>0. /\ d \in Nat /\ d \in 0 .. Horizon /\ d - 1 \in 0 .. Horizon /\ d \in Int
      /\ FirstDay(v) \in Nat
  BY OrderpointAssumption, FirstDayType DEF Days
<1>1. /\ acc \in Sane(v, d - 1) /\ acc \in Progress
      /\ acc.level = Leaves(v, acc, d - 1) - (IF d - 1 < FirstDay(v) THEN v.stock ELSE 0)
      /\ \A x \in 1 .. d - 1 : Settled(v, acc, x)
  BY DEF After, Sane
<1>2. /\ acc.day <= d - 1 /\ acc.cancelled \in SUBSET Due(v, d - 1)
      /\ \A p \in acc.cancelled : ~ v.proc[p].protected
      /\ \A i \in DOMAIN acc.new : acc.new[i].day \in 1 .. d - 1 /\ acc.new[i].qty # 0
  BY <1>1 DEF Sane
<1>3. /\ acc.day \in Nat /\ acc.level \in Int /\ acc.new \in Seq(Created)
      /\ acc.cancelled \in SUBSET Procs
  BY <1>1, ProgressTypes
<1>4. SumOf(v, Supply(v, d)) \in Nat
  <2>1. Supply(v, d) \in SUBSET Procs
    BY DEF Supply
  <2> QED BY <2>1, SumOfType
<1>5. v.outs[d] \in Nat /\ v.stock \in Nat
  BY SnapshotTypes
<1>6. Leaves(v, acc, d) = Leaves(v, acc, d - 1) + SumOf(v, Supply(v, d)) - v.outs[d]
  <2>1. \A i \in DOMAIN acc.new : acc.new[i].day <= d - 1
    BY <1>0, <1>2
  <2>2. PICK g, n : g = acc.cancelled /\ n = acc.new
    OBVIOUS
  <2>3. LevelAt(v, g, n, d) = LevelAt(v, g, n, d - 1) + SumOf(v, Supply(v, d)) - v.outs[d]
    <3>1. g \in SUBSET Due(v, d - 1) /\ n \in Seq(Created) /\ \A i \in DOMAIN n : n[i].day <= d - 1
      BY <1>2, <1>3, <2>1, <2>2
    <3> QED BY <3>1, LevelNext
  <2> QED BY <2>2, <2>3 DEF Leaves
<1>7. Leaves(v, acc, d - 1) \in Int /\ Leaves(v, acc, d) \in Int
  BY <1>0, <1>1, LeavesType
<1>8. ProcessEventsAtDate(v, acc, e) = Leaves(v, acc, d)
  <2>1. e.day # acc.day
    BY <1>0, <1>2, <1>3
  <2>2. ProcessEventsAtDate(v, acc, e) =
          acc.level + SumOf(v, Supply(v, d)) - v.outs[d] + (IF d = FirstDay(v) THEN v.stock ELSE 0)
    BY <2>1 DEF ProcessEventsAtDate
  <2>3. CASE d = FirstDay(v)
    <3>1. d - 1 < FirstDay(v)
      BY <1>0, <2>3
    <3>2. acc.level = Leaves(v, acc, d - 1) - v.stock
      BY <1>1, <3>1
    <3> QED BY <1>4, <1>5, <1>6, <1>7, <2>2, <2>3, <3>2
  <2>4. CASE d # FirstDay(v)
    <3>1. ~ (d - 1 < FirstDay(v))
      BY <1>0, <2>4
    <3>2. acc.level = Leaves(v, acc, d - 1)
      BY <1>1, <1>7, <3>1
    <3> QED BY <1>4, <1>5, <1>6, <1>7, <2>2, <2>4, <3>2
  <2> QED BY <2>3, <2>4
<1> DEFINE at == Opening(acc, ProcessEventsAtDate(v, acc, e), d)
<1>9. /\ at \in Progress /\ at.day = d /\ at.level = Leaves(v, acc, d)
      /\ at.cancelled = acc.cancelled /\ at.new = acc.new
  BY <1>0, <1>1, <1>7, <1>8, OpeningChanges
<1> HIDE DEF at
<1>10. at \in Sane(v, d)
  <2>1. at.cancelled \subseteq Due(v, d)
    <3>1. \A p \in Procs : v.proc[p].day \in Int
      BY SnapshotTypes
    <3> QED BY <1>0, <1>2, <1>9, <3>1 DEF Due
  <2>2. \A i \in DOMAIN at.new : at.new[i].day \in 1 .. d /\ at.new[i].qty # 0
    BY <1>0, <1>2, <1>9
  <2> QED BY <1>0, <1>2, <1>9, <2>1, <2>2 DEF Sane
<1>11. \A x : Leaves(v, at, x) = Leaves(v, acc, x) /\ (CreatesOn(at, x) <=> CreatesOn(acc, x))
  BY <1>9 DEF Leaves, CreatesOn
<1>12. \A x \in 1 .. d - 1 : Settled(v, at, x)
  <2> TAKE x \in 1 .. d - 1
  <2> QED BY <1>1, <1>9, <1>11, StaysSettled
<1>13. ~ CreatesOn(at, d)
  BY <1>0, <1>2, <1>9 DEF CreatesOn
<1> QED BY <1>9, <1>10, <1>11, <1>12, <1>13 DEF Opened, at

\* The next ones find it there.
LEMMA ReopenDay ==
  ASSUME NEW v, NEW d \in Days, NEW tried \in BOOLEAN, NEW acc \in On(v, d, tried), NEW e, e.day = d
  PROVE  Opening(acc, ProcessEventsAtDate(v, acc, e), d) \in Opened(v, d, tried)
<1>1. acc \in Opened(v, d, tried) /\ acc.day = d /\ acc \in Progress
  BY DEF On, Opened, Sane
<1>2. ProcessEventsAtDate(v, acc, e) = acc.level
  BY <1>1 DEF ProcessEventsAtDate
<1>3. PICK N : N = Seq([day : Nat, qty : Nat])
  OBVIOUS
<1>4. acc \in [day : Nat, level : Int, cancelled : SUBSET Procs, new : N]
  BY <1>1, <1>3 DEF Progress
<1>5. [acc EXCEPT !.level = acc.level, !.day = acc.day] = acc
  BY <1>4
<1>6. Opening(acc, acc.level, acc.day) = acc
  BY <1>5 DEF Opening
<1> QED BY <1>1, <1>2, <1>6

\* After the last one, the day is settled: a procurement of the day has been looked at,
\* or there is none.
LEMMA CloseDay ==
  ASSUME NEW v \in Snapshots, NEW d \in Days, d >= FirstDay(v), NEW tried \in BOOLEAN,
         NEW acc \in On(v, d, tried), Supply(v, d) # {} => tried
  PROVE  acc \in After(v, d)
<1>0. /\ d \in Nat /\ d \in 0 .. Horizon /\ FirstDay(v) \in Nat
      /\ \A x \in 1 .. d : x \in 1 .. d - 1 \/ x = d
  BY OrderpointAssumption, FirstDayType DEF Days
<1>1. /\ acc \in Sane(v, d) /\ acc.level = Leaves(v, acc, d)
      /\ \A x \in 1 .. d - 1 : Settled(v, acc, x)
      /\ Served(v, acc, d)
      /\ Multiple = 1 => /\ CreatesOn(acc, d) => acc.level <= AllowedQty
                         /\ tried => Trimmed(v, acc, d)
  BY DEF On, Opened
<1>2. Multiple = 1 => Trimmed(v, acc, d)
  BY <1>1 DEF Trimmed
<1>3. \A x \in 1 .. d : Settled(v, acc, x)
  BY <1>0, <1>1, <1>2 DEF Settled
<1>4. Leaves(v, acc, d) \in Int /\ ~ (d < FirstDay(v))
  BY <1>0, <1>1, LeavesType
<1>5. acc.level = Leaves(v, acc, d) - (IF d < FirstDay(v) THEN v.stock ELSE 0)
  BY <1>1, <1>4
<1> QED BY <1>1, <1>3, <1>5 DEF After

\* A day without events changes nothing.
LEMMA QuietDay ==
  ASSUME NEW v \in Snapshots, NEW d \in Days, NEW acc \in After(v, d - 1),
         d # FirstDay(v), ~ (v.outs[d] > 0), Supply(v, d) = {}
  PROVE  acc \in After(v, d)
<1>0. /\ d \in Nat /\ d \in 0 .. Horizon /\ d - 1 \in 0 .. Horizon /\ FirstDay(v) \in Nat
      /\ \A x \in 1 .. d : x \in 1 .. d - 1 \/ x = d
      /\ d < FirstDay(v) <=> d - 1 < FirstDay(v)
  BY OrderpointAssumption, FirstDayType DEF Days
<1>1. /\ acc \in Sane(v, d - 1) /\ acc \in Progress
      /\ acc.level = Leaves(v, acc, d - 1) - (IF d - 1 < FirstDay(v) THEN v.stock ELSE 0)
      /\ \A x \in 1 .. d - 1 : Settled(v, acc, x)
  BY DEF After, Sane
<1>2. /\ acc.day <= d - 1 /\ acc.cancelled \in SUBSET Due(v, d - 1)
      /\ \A p \in acc.cancelled : ~ v.proc[p].protected
      /\ \A i \in DOMAIN acc.new : acc.new[i].day \in 1 .. d - 1 /\ acc.new[i].qty # 0
  BY <1>1 DEF Sane
<1>3. acc.day \in Nat /\ acc.new \in Seq(Created)
  BY <1>1, ProgressTypes
<1>4. acc \in Sane(v, d)
  <2>1. acc.cancelled \subseteq Due(v, d)
    <3>1. \A p \in Procs : v.proc[p].day \in Int
      BY SnapshotTypes
    <3> QED BY <1>0, <1>2, <3>1 DEF Due
  <2>2. \A i \in DOMAIN acc.new : acc.new[i].day \in 1 .. d /\ acc.new[i].qty # 0
    BY <1>0, <1>2
  <2>3. acc.day <= d
    BY <1>0, <1>2, <1>3
  <2> QED BY <1>1, <1>2, <2>1, <2>2, <2>3 DEF Sane
<1>5. Leaves(v, acc, d) = Leaves(v, acc, d - 1)
  <2>1. \A i \in DOMAIN acc.new : acc.new[i].day <= d - 1
    BY <1>0, <1>2
  <2>2. PICK g, n : g = acc.cancelled /\ n = acc.new
    OBVIOUS
  <2>3. LevelAt(v, g, n, d) = LevelAt(v, g, n, d - 1) + SumOf(v, Supply(v, d)) - v.outs[d]
    <3>1. g \in SUBSET Due(v, d - 1) /\ n \in Seq(Created) /\ \A i \in DOMAIN n : n[i].day <= d - 1
      BY <1>2, <1>3, <2>1, <2>2
    <3> QED BY <3>1, LevelNext
  <2>4. SumOf(v, Supply(v, d)) = 0 /\ v.outs[d] = 0
    BY SumOfNone, SnapshotTypes
  <2>5. LevelAt(v, g, n, d - 1) \in Int
    BY <1>0, <1>3, <2>2, LevelType
  <2> QED BY <2>2, <2>3, <2>4, <2>5 DEF Leaves
<1>6. Settled(v, acc, d)
  <2>1. ~ CreatesOn(acc, d)
    BY <1>0, <1>2 DEF CreatesOn
  <2> QED BY <2>1 DEF Settled, Served, Trimmed
<1>7. \A x \in 1 .. d : Settled(v, acc, x)
  BY <1>0, <1>1, <1>6
<1> QED BY <1>0, <1>1, <1>4, <1>5, <1>7 DEF After

-----------------------------------------------------------------------------
(* The loops of process *)

\* The events that look at procurements
EventsOf(d) == {e \in Events : e.day = d}
Looks == {e \in Events : e.proc # 0}
Looking(s) == \E i \in DOMAIN s : s[i] \in Looks
EventFor(d, t, p) == [day |-> d, type |-> t, proc |-> p]
EventsFor(d, t, ids) == [k \in DOMAIN ids |-> EventFor(d, t, ids[k])]
EventIf(d, t, happens) == IF happens THEN <<EventFor(d, t, 0)>> ELSE <<>>

\* Rows of events, one after the other, have what each has.
LEMMA Together ==
  ASSUME NEW d, NEW a \in Seq(EventsOf(d)), NEW b \in Seq(EventsOf(d))
  PROVE  /\ a \o b \in Seq(EventsOf(d))
         /\ a \o b = <<>> <=> a = <<>> /\ b = <<>>
         /\ Looking(a) \/ Looking(b) => Looking(a \o b)
<1>1. /\ a \o b \in Seq(EventsOf(d)) /\ Len(a) \in Nat /\ Len(b) \in Nat
      /\ DOMAIN a = 1 .. Len(a) /\ DOMAIN b = 1 .. Len(b)
      /\ DOMAIN (a \o b) = 1 .. Len(a) + Len(b) /\ Len(a \o b) = Len(a) + Len(b)
      /\ \A i \in 1 .. Len(a) : (a \o b)[i] = a[i]
  OBVIOUS
<1>2. \A i \in 1 .. Len(b) : (a \o b)[Len(a) + i] = b[i] /\ Len(a) + i \in 1 .. Len(a) + Len(b)
  BY <1>1
<1>3. a \o b = <<>> => a = <<>> /\ b = <<>>
  BY <1>1
<1>4. a = <<>> /\ b = <<>> => a \o b = <<>>
  BY <1>1
<1>5. Looking(a) => Looking(a \o b)
  BY <1>1 DEF Looking
<1>6. Looking(b) => Looking(a \o b)
  BY <1>1, <1>2 DEF Looking
<1> QED BY <1>1, <1>3, <1>4, <1>5, <1>6

LEMMA EventsForProcs ==
  ASSUME NEW d \in Days, NEW t \in {"in", "planned"}, NEW S \in SUBSET Procs
  PROVE  /\ EventsFor(d, t, ById(S)) \in Seq(EventsOf(d))
         /\ S # {} => Looking(EventsFor(d, t, ById(S)))
         /\ S = {} => EventsFor(d, t, ById(S)) = <<>>
<1>1. PICK w : w = [x \in S |-> 0]
  OBVIOUS
<1>2. S \in SUBSET Nat /\ IsFiniteSet(S) /\ \A x \in S : w[x] \in Int
  BY <1>1, SetsAreFinite
<1>3. ById(S) = Sorted(S, w)
  BY <1>1 DEF ById
<1>4. /\ Sorted(S, w) \in Seq(S)
      /\ \A x \in S : \E i \in DOMAIN Sorted(S, w) : Sorted(S, w)[i] = x
  BY <1>2, SortedSeq
<1>5. PICK ids \in Seq(S) : ids = ById(S) /\ \A x \in S : \E i \in DOMAIN ids : ids[i] = x
  BY <1>3, <1>4
<1>6. DOMAIN ids = 1 .. Len(ids) /\ Len(ids) \in Nat /\ \A i \in DOMAIN ids : ids[i] \in S
  BY <1>5
<1>7. \A p \in Procs : p \in Nat /\ p # 0
  BY DEF Procs
<1>8. \A p \in S : EventFor(d, t, p) \in EventsOf(d) /\ EventFor(d, t, p) \in Looks
  BY <1>7 DEF EventFor, EventsOf, Events, Looks
<1>9. EventsFor(d, t, ids) \in [1 .. Len(ids) -> EventsOf(d)]
  BY <1>6, <1>8 DEF EventsFor
<1>10. EventsFor(d, t, ids) \in Seq(EventsOf(d))
  BY <1>6, <1>9
<1>11. ASSUME S # {}
       PROVE  Looking(EventsFor(d, t, ids))
  <2>1. PICK x \in S : TRUE
    BY <1>11
  <2>2. PICK i \in DOMAIN ids : ids[i] = x
    BY <1>5
  <2>3. i \in DOMAIN EventsFor(d, t, ids) /\ EventsFor(d, t, ids)[i] = EventFor(d, t, x)
    BY <2>2 DEF EventsFor
  <2> QED BY <1>8, <2>3 DEF Looking
<1>12. ASSUME S = {}
       PROVE  EventsFor(d, t, ids) = <<>>
  <2>1. Len(ids) = 0
    BY <1>6, <1>12
  <2> QED BY <1>9, <2>1
<1> QED BY <1>5, <1>10, <1>11, <1>12

LEMMA EventsIfHappens ==
  ASSUME NEW d \in Days, NEW t \in {"existing", "out"}, NEW happens \in BOOLEAN
  PROVE  /\ EventIf(d, t, happens) \in Seq(EventsOf(d))
         /\ EventIf(d, t, happens) = <<>> <=> ~ happens
<1>1. EventFor(d, t, 0) \in EventsOf(d)
  BY DEF EventFor, EventsOf, Events
<1> QED BY <1>1 DEF EventIf

\* The events of a day look at its procurements, if it has some; a day without events
\* has nothing.
LEMMA EventList ==
  ASSUME NEW v \in Snapshots, NEW d \in Days
  PROVE  /\ EventsAt(v, d) \in Seq(EventsOf(d))
         /\ Supply(v, d) # {} => Looking(EventsAt(v, d))
         /\ EventsAt(v, d) = <<>> => d # FirstDay(v) /\ ~ (v.outs[d] > 0) /\ Supply(v, d) = {}
         /\ EventsAt(v, d) # <<>> => d >= FirstDay(v)
<1> DEFINE Ins == {p \in Supply(v, d) : v.proc[p].move}
           Planned == {p \in Supply(v, d) : ~ v.proc[p].move}
           a == EventIf(d, "existing", d = FirstDay(v))
           b == EventsFor(d, "in", ById(Ins))
           c == EventIf(d, "out", v.outs[d] > 0)
           e == EventsFor(d, "planned", ById(Planned))
<1>1. EventsAt(v, d) = a \o b \o c \o e
  BY DEF EventsAt, EventIf, EventsFor, EventFor
<1>2. Ins \in SUBSET Procs /\ Planned \in SUBSET Procs /\ Supply(v, d) = Ins \cup Planned
  BY DEF Supply
<1>3. a \in Seq(EventsOf(d)) /\ (a = <<>> <=> d # FirstDay(v))
  BY EventsIfHappens
<1>4. c \in Seq(EventsOf(d)) /\ (c = <<>> <=> ~ (v.outs[d] > 0))
  <2>1. PICK happens \in BOOLEAN : happens <=> v.outs[d] > 0
    OBVIOUS
  <2>2. c = EventIf(d, "out", happens)
    BY <2>1 DEF EventIf
  <2> HIDE DEF c
  <2> QED BY <2>1, <2>2, EventsIfHappens
<1>5. /\ b \in Seq(EventsOf(d)) /\ (Ins = {} => b = <<>>)
      /\ Ins # {} => Looking(b)
  BY <1>2, EventsForProcs
<1>6. /\ e \in Seq(EventsOf(d)) /\ (Planned = {} => e = <<>>)
      /\ Planned # {} => Looking(e)
  BY <1>2, EventsForProcs
<1> HIDE DEF Ins, Planned, a, b, c, e
<1>7. /\ a \o b \in Seq(EventsOf(d)) /\ (a \o b = <<>> <=> a = <<>> /\ b = <<>>)
      /\ Looking(b) => Looking(a \o b)
  BY <1>3, <1>5, Together
<1>8. PICK f \in Seq(EventsOf(d)) : f = a \o b
  BY <1>7
<1>9. /\ f \o c \in Seq(EventsOf(d)) /\ (f \o c = <<>> <=> f = <<>> /\ c = <<>>)
      /\ Looking(f) => Looking(f \o c)
  BY <1>4, <1>8, Together
<1>10. PICK g \in Seq(EventsOf(d)) : g = f \o c
  BY <1>9
<1>11. /\ g \o e \in Seq(EventsOf(d)) /\ (g \o e = <<>> <=> g = <<>> /\ e = <<>>)
       /\ Looking(g) \/ Looking(e) => Looking(g \o e)
  BY <1>6, <1>10, Together
<1>12. EventsAt(v, d) = g \o e
  BY <1>1, <1>8, <1>10
<1>13. Supply(v, d) # {} => Looking(EventsAt(v, d))
  BY <1>2, <1>5, <1>6, <1>7, <1>8, <1>9, <1>10, <1>11, <1>12
<1>14. \A s \in Seq(EventsOf(d)) : Looking(s) => s # <<>>
  BY DEF Looking
<1>15. EventsAt(v, d) = <<>> => d # FirstDay(v) /\ ~ (v.outs[d] > 0) /\ Supply(v, d) = {}
  BY <1>3, <1>4, <1>7, <1>8, <1>9, <1>10, <1>11, <1>12, <1>13, <1>14
<1>16. EventsAt(v, d) # <<>> => d = FirstDay(v) \/ v.outs[d] > 0 \/ Supply(v, d) # {}
  BY <1>2, <1>3, <1>4, <1>5, <1>6, <1>7, <1>8, <1>9, <1>10, <1>11, <1>12
<1>17. EventsAt(v, d) # <<>> => d >= FirstDay(v)
  <2>1. v.outs[d] > 0 \/ Supply(v, d) # {} => d \in BusyDays(v)
    BY DEF BusyDays
  <2>2. FirstDay(v) \in Int /\ d \in Int /\ (d \in BusyDays(v) => FirstDay(v) <= d)
    BY FirstDayType DEF Days
  <2> QED BY <1>16, <2>1, <2>2
<1> QED BY <1>11, <1>12, <1>13, <1>15, <1>17

LEMMA OnLess ==
  ASSUME NEW v, NEW d, NEW s \in BOOLEAN, NEW t \in BOOLEAN, t => s
  PROVE  On(v, d, s) \subseteq On(v, d, t)
BY DEF On, Opened

LEMMA ProcessEventIs ==
  ASSUME NEW v, NEW d, NEW acc \in Progress, NEW e \in EventsOf(d)
  PROVE  ProcessEvent(v)[e][acc] = React(v, Opening(acc, ProcessEventsAtDate(v, acc, e), d), e)
<1>1. e \in Events /\ e.day = d
  BY DEF EventsOf
<1>2. ProcessEvent(v)[e][acc] =
        LET at == Opening(acc, ProcessEventsAtDate(v, acc, e), d)
            less == CancelOversupply(v, at, e)
        IN IF OverMax(at.level) /\ e.proc # 0
           THEN IF UnderMin(less.level) /\ v.outs[e.day] > 0 THEN CreateFromNeed(less, e) ELSE less
           ELSE IF UnderMin(at.level) THEN CreateFromNeed(at, e) ELSE at
  BY <1>1 DEF ProcessEvent, Opening
<1> QED BY <1>2 DEF React

\* The events of a day settle it.
LEMMA DayStep ==
  ASSUME NEW v \in Snapshots, NEW d \in Days, NEW acc \in After(v, d - 1)
  PROVE  Through(ProcessEvent(v), EventsAt(v, d), acc) \in After(v, d)
<1> DEFINE items == EventsAt(v, d)
           n == Len(items)
           step == ProcessEvent(v)
<1>1. items \in Seq(EventsOf(d)) /\ n \in Nat /\ DOMAIN items = 1 .. n
  <2>1. items \in Seq(EventsOf(d))
    BY EventList
  <2> HIDE DEF items
  <2> QED BY <2>1
<1>2. CASE items = <<>>
  <2> DEFINE A == [k \in 0 .. 0 |-> {acc}]
  <2>1. n = 0 /\ 1 .. n = {} /\ acc \in A[0]
    BY <1>2
  <2> HIDE DEF items, n, step, A
  <2>2. \A k \in 1 .. Len(items) : \A a \in A[k - 1] : step[items[k]][a] \in A[k]
    BY <2>1 DEF n
  <2>3. Through(step, items, acc) \in A[Len(items)]
    BY <1>1, <2>1, <2>2, ThroughKeeps
  <2>4. Through(step, items, acc) = acc
    BY <2>1, <2>3 DEF A, n
  <2>5. d # FirstDay(v) /\ ~ (v.outs[d] > 0) /\ Supply(v, d) = {}
    BY <1>2, EventList DEF items
  <2>6. acc \in After(v, d)
    BY <2>5, QuietDay
  <2> QED BY <2>4, <2>6 DEF items, step
<1>3. CASE items # <<>>
  <2>1. d >= FirstDay(v)
    BY <1>3, EventList
  <2>2. n >= 1 /\ n # 0
    <3> HIDE DEF items
    <3> QED BY <1>1, <1>3
  <2>3. Supply(v, d) # {} => \E i \in DOMAIN items : items[i] \in Looks
    BY EventList DEF Looking
  <2> HIDE DEF items, n, step
  <2> DEFINE tried == [k \in 0 .. n |-> \E i \in 1 .. k : items[i] \in Looks]
             A == [k \in 0 .. n |-> IF k = 0 THEN After(v, d - 1) ELSE On(v, d, tried[k])]
  <2>4. /\ \A k \in 0 .. n : tried[k] \in BOOLEAN
        /\ \A k \in 1 .. n : tried[k] => tried[k - 1] \/ items[k] \in Looks
        /\ \A k \in 0 .. n : tried[k] <=> \E i \in 1 .. k : items[i] \in Looks
        /\ ~ tried[0]
    <3>1. \A k \in 0 .. n : tried[k] <=> \E i \in 1 .. k : items[i] \in Looks
      BY <1>1
    <3>2. \A k \in 0 .. n : tried[k] \in BOOLEAN
      BY <1>1
    <3> HIDE DEF tried
    <3>3. \A k \in 1 .. n : k \in 0 .. n /\ k - 1 \in 0 .. n /\ \A i \in 1 .. k : i \in 1 .. k - 1 \/ i = k
      BY <1>1
    <3>4. 0 \in 0 .. n
      BY <1>1
    <3> QED BY <3>1, <3>2, <3>3, <3>4
  <2>5. /\ A[0] = After(v, d - 1)
        /\ \A k \in 1 .. n : k \in 0 .. n /\ k - 1 \in 0 .. n /\ A[k] = On(v, d, tried[k])
    <3> HIDE DEF tried
    <3>1. 0 \in 0 .. n /\ \A k \in 1 .. n : k \in 0 .. n /\ k - 1 \in 0 .. n /\ k # 0
      BY <1>1
    <3>2. A[0] = After(v, d - 1)
      BY <3>1
    <3>3. \A k \in 1 .. n : A[k] = On(v, d, tried[k])
      BY <3>1
    <3> QED BY <3>1, <3>2, <3>3
  <2> HIDE DEF tried, A
  <2>6. ASSUME NEW k \in 1 .. n, NEW a \in A[k - 1]
        PROVE  step[items[k]][a] \in A[k]
    <3>1. PICK e \in EventsOf(d) : e = items[k]
      BY <1>1
    <3>2. e.day = d /\ (e \in Looks <=> e.proc # 0)
      BY DEF EventsOf, Looks
    <3>3. a \in Progress /\ Opening(a, ProcessEventsAtDate(v, a, e), d) \in Opened(v, d, tried[k - 1])
      <4>1. CASE k = 1
        <5>1. a \in After(v, d - 1)
          BY <2>5, <2>6, <4>1
        <5>2. a \in Progress
          BY <5>1 DEF After, Sane
        <5>3. Opening(a, ProcessEventsAtDate(v, a, e), d) \in Opened(v, d, FALSE)
          BY <2>1, <3>2, <5>1, OpenDay
        <5>4. Opened(v, d, FALSE) = Opened(v, d, tried[k - 1])
          BY <2>4, <4>1 DEF Opened
        <5> QED BY <5>2, <5>3, <5>4
      <4>2. CASE k # 1
        <5>1. k - 1 \in 1 .. n /\ k - 1 \in 0 .. n
          BY <1>1, <4>2
        <5>2. a \in On(v, d, tried[k - 1]) /\ tried[k - 1] \in BOOLEAN
          BY <2>4, <2>5, <2>6, <5>1
        <5>3. a \in Progress
          BY <5>2 DEF On, Opened, Sane
        <5> QED BY <3>2, <5>2, <5>3, ReopenDay
      <4> QED BY <4>1, <4>2
    <3>4. PICK at : at = Opening(a, ProcessEventsAtDate(v, a, e), d)
      OBVIOUS
    <3>5. k - 1 \in 0 .. n /\ k \in 0 .. n /\ tried[k - 1] \in BOOLEAN /\ tried[k] \in BOOLEAN
      BY <2>4, <2>5
    <3>6. React(v, at, e) \in On(v, d, tried[k - 1] \/ e.proc # 0)
      BY <3>2, <3>3, <3>4, <3>5, EventReaction
    <3>7. On(v, d, tried[k - 1] \/ e.proc # 0) \subseteq On(v, d, tried[k])
      <4>1. (tried[k - 1] \/ e.proc # 0) \in BOOLEAN
        OBVIOUS
      <4>2. tried[k] => (tried[k - 1] \/ e.proc # 0)
        BY <2>4, <3>1, <3>2
      <4> QED BY <3>5, <4>1, <4>2, OnLess
    <3>8. step[items[k]][a] = React(v, at, e)
      BY <3>1, <3>3, <3>4, ProcessEventIs DEF step
    <3> QED BY <2>5, <3>6, <3>7, <3>8
  <2>7. Through(step, items, acc) \in A[Len(items)]
    <3>1. \A k \in 1 .. Len(items) : \A a \in A[k - 1] : step[items[k]][a] \in A[k]
      BY <2>6 DEF n
    <3>2. acc \in A[0]
      BY <2>5
    <3> QED BY <1>1, <3>1, <3>2, ThroughKeeps
  <2>8. n \in 1 .. n /\ n \in 0 .. n
    BY <1>1, <2>2
  <2>9. Through(step, items, acc) \in On(v, d, tried[n]) /\ tried[n] \in BOOLEAN
    BY <2>4, <2>5, <2>7, <2>8 DEF n
  <2>10. Supply(v, d) # {} => tried[n]
    BY <1>1, <2>3, <2>4, <2>8
  <2>11. Through(step, items, acc) \in After(v, d)
    BY <2>1, <2>9, <2>10, CloseDay
  <2> QED BY <2>11 DEF items, step
<1> QED BY <1>2, <1>3

\* The whole walk settles every day.
LEMMA WalkSettles ==
  ASSUME NEW v \in Snapshots
  PROVE  Walk(v) \in After(v, Horizon)
<1> DEFINE step == [d \in Days |-> [acc \in Progress |-> Through(ProcessEvent(v), EventsAt(v, d), acc)]]
           items == [d \in Days |-> d]
           start == [day |-> 0, level |-> 0, cancelled |-> {}, new |-> <<>>]
           A == [k \in 0 .. Horizon |-> After(v, k)]
<1>1. Horizon \in Nat /\ Days = 1 .. Horizon
  BY OrderpointAssumption DEF Days
<1>2. items \in Seq(Days) /\ Len(items) = Horizon /\ \A k \in Days : items[k] = k
  BY <1>1
<1>3. start \in After(v, 0)
  <2>1. start \in Progress
    BY DEF Progress
  <2>2. /\ start.day = 0 /\ start.level = 0 /\ start.cancelled = {} /\ start.new = <<>>
        /\ DOMAIN start.new = {} /\ start.new \in Seq(Created)
    OBVIOUS
  <2> HIDE DEF start
  <2>3. start \in Sane(v, 0)
    BY <2>1, <2>2 DEF Sane
  <2>4. Due(v, 0) \ start.cancelled = {}
    <3>1. \A p \in Procs : v.proc[p] # NoProc => v.proc[p].day \in 1 .. Horizon
      BY SnapshotTypes DEF Days
    <3>2. \A x \in 1 .. Horizon : ~ (x <= 0)
      BY <1>1
    <3> QED BY <3>1, <3>2 DEF Due
  <2>5. Until(start.new, 0) = {}
    BY <2>2 DEF Until
  <2>6. QtyOf(start.new, {}) = 0 /\ SumOf(v, {}) = 0 /\ OutUpTo(v, 0) = 0
    BY SumEmpty, SumOfNone, OutStep DEF QtyOf
  <2>7. v.stock \in Nat /\ 0 < FirstDay(v)
    BY SnapshotTypes, FirstDayType, <1>1
  <2>8. Leaves(v, start, 0) = v.stock
    BY <2>4, <2>5, <2>6, <2>7 DEF Leaves, LevelAt
  <2>9. start.level = Leaves(v, start, 0) - (IF 0 < FirstDay(v) THEN v.stock ELSE 0)
    BY <2>2, <2>7, <2>8
  <2> QED BY <2>3, <2>9 DEF After
<1>4. ASSUME NEW k \in 1 .. Len(items), NEW acc \in A[k - 1]
      PROVE  step[items[k]][acc] \in A[k]
  <2>1. k \in Days /\ k \in 0 .. Horizon /\ k - 1 \in 0 .. Horizon /\ items[k] = k
    BY <1>1, <1>2
  <2>2. acc \in After(v, k - 1)
    BY <1>4, <2>1
  <2>3. acc \in Progress
    BY <2>2 DEF After, Sane
  <2>4. step[k][acc] = Through(ProcessEvent(v), EventsAt(v, k), acc)
    BY <2>1, <2>3
  <2>5. Through(ProcessEvent(v), EventsAt(v, k), acc) \in After(v, k)
    BY <2>1, <2>2, DayStep
  <2> QED BY <2>1, <2>4, <2>5
<1>5. Walk(v) = Through(step, items, start)
  BY DEF Walk
<1>6. start \in A[0] /\ A[Horizon] = After(v, Horizon)
  BY <1>1, <1>3
<1> HIDE DEF step, items, start, A
<1>7. \A k \in 1 .. Len(items) : \A acc \in A[k - 1] : step[items[k]][acc] \in A[k]
  BY <1>4
<1>8. Through(step, items, start) \in A[Len(items)]
  BY <1>2, <1>6, <1>7, ThroughKeeps
<1> QED BY <1>2, <1>5, <1>6, <1>8

-----------------------------------------------------------------------------
(* What a pass does in the end *)

\* The last scheduled day is one, and nothing goes out after it.
LEMMA LastDay ==
  ASSUME NEW v \in Snapshots, NEW w \in Sane(v, Horizon), NEW run
  PROVE  /\ LastScheduledDate(v, w, run) \in Days
         /\ \A d \in Days : v.outs[d] > 0 => d <= LastScheduledDate(v, w, run)
<1> DEFINE kept == {p \in Procs : v.proc[p] # NoProc} \ w.cancelled
           new == {w.new[i].day : i \in DOMAIN w.new}
           out == {d \in Days : v.outs[d] > 0}
           in == {v.proc[p].day : p \in {x \in kept : v.proc[x].move}} \union (IF run THEN new ELSE {})
           all == out \union new \union {v.proc[p].day : p \in kept}
           S == out \union in \union {Least(all)}
<1>1. Days = 1 .. Horizon /\ Horizon \in Nat /\ Horizon \in Days /\ Days \subseteq Nat
  BY OrderpointAssumption DEF Days
<1>2. LastScheduledDate(v, w, run) = IF all = {} THEN Horizon ELSE Greatest(S)
  BY DEF LastScheduledDate
<1>3. new \subseteq Days
  BY <1>1 DEF Sane
<1>4. {v.proc[p].day : p \in kept} \subseteq Days
  BY SnapshotTypes
<1>5. out \subseteq Days /\ out \subseteq all
  OBVIOUS
<1>6. in \subseteq Days
  BY <1>3, <1>4
<1>7. all \subseteq Days
  BY <1>3, <1>4, <1>5
<1> HIDE DEF all, in, out, new, kept
<1>8. CASE all = {}
  <2>1. \A d \in Days : d <= Horizon
    BY <1>1
  <2> QED BY <1>1, <1>2, <1>8, <2>1
<1>9. CASE all # {}
  <2>1. \E n \in all : \A m \in all : n <= m
    BY <1>1, <1>7, <1>9, SmallestNumber
  <2>2. Least(all) \in all
    BY <2>1 DEF Least
  <2>3. S \in SUBSET (1 .. Horizon) /\ S # {} /\ out \subseteq S
    BY <1>1, <1>5, <1>6, <1>7, <2>2
  <2> HIDE DEF S
  <2>4. Max(S) \in S /\ \A m \in S : m <= Max(S)
    BY <1>1, <2>3, MaxMember
  <2>5. Greatest(S) \in S /\ \A m \in S : m <= Greatest(S)
    BY <2>4 DEF Greatest
  <2> QED BY <1>1, <1>2, <1>9, <2>3, <2>5 DEF out
<1> QED BY <1>8, <1>9

\* What is left of a row up to a day has the same quantities up to each day before.
LEMMA FilteredRow ==
  ASSUME NEW row \in Seq(Created), NEW last \in Nat
  PROVE  LET left == Through(UpTo(last), row, <<>>)
         IN /\ left \in Seq(Created)
            /\ \A j \in DOMAIN left : left[j].day <= last /\ \E i \in DOMAIN row : left[j] = row[i]
            /\ \A x \in 0 .. last : QtyOf(left, Until(left, x)) = QtyOf(row, Until(row, x))
<1> DEFINE n == Len(row)
           before == [k \in 0 .. n |-> [x \in 0 .. last |-> {i \in 1 .. k : row[i].day <= x}]]
           A == [k \in 0 .. n |->
                   {left \in Seq(Created) :
                      /\ \A j \in DOMAIN left : left[j].day <= last /\ \E i \in DOMAIN row : left[j] = row[i]
                      /\ \A x \in 0 .. last : QtyOf(left, Until(left, x)) = QtyOf(row, before[k][x])}]
           step == UpTo(last)
<1>1. /\ n \in Nat /\ DOMAIN row = 1 .. n /\ n \in 0 .. n /\ 0 \in 0 .. n
      /\ \A i \in 1 .. n : row[i] \in Created /\ row[i].day \in Nat /\ row[i].qty \in Nat
  <2>1. \A i \in 1 .. n : row[i] \in Created
    OBVIOUS
  <2> QED BY <2>1 DEF Created
<1>2. \A x \in 0 .. last : before[0][x] = {} /\ before[n][x] = Until(row, x)
  BY <1>1 DEF Until
<1>3. \A k \in 0 .. n : \A x \in 0 .. last : before[k][x] \in SUBSET DOMAIN row
  BY <1>1
<1>4. \A k \in 1 .. n : k \in 0 .. n /\ k - 1 \in 0 .. n /\ \A i \in 1 .. k : i \in 1 .. k - 1 \/ i = k
  BY <1>1
<1>5. ASSUME NEW k \in 1 .. n, NEW x \in 0 .. last
      PROVE  QtyOf(row, before[k][x]) =
               QtyOf(row, before[k - 1][x]) + (IF row[k].day <= x THEN row[k].qty ELSE 0)
  <2>1. /\ before[k][x] = {i \in 1 .. k : row[i].day <= x}
        /\ before[k - 1][x] = {i \in 1 .. k - 1 : row[i].day <= x}
    BY <1>4
  <2>2. k \notin before[k - 1][x]
    BY <1>1, <2>1
  <2>3. before[k][x] = IF row[k].day <= x THEN before[k - 1][x] \cup {k} ELSE before[k - 1][x]
    <3>1. \A i \in 1 .. k - 1 : i \in 1 .. k
      BY <1>1
    <3>2. k \in 1 .. k
      BY <1>1
    <3> HIDE DEF before, A
    <3>3. \A i : i \in before[k][x] <=> i \in 1 .. k /\ row[i].day <= x
      BY <2>1
    <3>4. \A i : i \in before[k - 1][x] <=> i \in 1 .. k - 1 /\ row[i].day <= x
      BY <2>1
    <3>5. \A i : i \in 1 .. k <=> i \in 1 .. k - 1 \/ i = k
      BY <1>1, <1>4, <3>1, <3>2
    <3>6. CASE row[k].day <= x
      <4>1. before[k][x] = before[k - 1][x] \cup {k}
        BY <3>3, <3>4, <3>5, <3>6
      <4> QED BY <3>6, <4>1
    <3>7. CASE ~ (row[k].day <= x)
      <4>1. before[k][x] = before[k - 1][x]
        BY <3>3, <3>4, <3>5, <3>7
      <4> QED BY <3>7, <4>1
    <3> QED BY <3>6, <3>7
  <2>4. before[k - 1][x] \in SUBSET DOMAIN row
    BY <1>3, <1>4
  <2> HIDE DEF before
  <2>5. PICK S : S = before[k - 1][x]
    OBVIOUS
  <2>6. IsFiniteSet(S) /\ QtyOf(row, S) \in Nat
    BY <2>4, <2>5, CreatedQty
  <2> DEFINE w == [i \in DOMAIN row |-> row[i].qty]
  <2>7. \A i \in S \cup {k} : w[i] \in Int
    BY <1>1, <2>4, <2>5
  <2>8. w[k] = row[k].qty
    BY <1>1
  <2>9. QtyOf(row, S \cup {k}) = SumFunctionOnSet(w, S \cup {k}) /\ QtyOf(row, S) = SumFunctionOnSet(w, S)
    BY DEF QtyOf
  <2> HIDE DEF w
  <2>10. SumFunctionOnSet(w, S \cup {k}) = SumFunctionOnSet(w, S) + w[k]
    BY <2>2, <2>5, <2>6, <2>7, SumAdd
  <2> QED BY <2>3, <2>5, <2>6, <2>8, <2>9, <2>10
<1> HIDE DEF before, n
<1>6. <<>> \in A[0]
  <2>1. <<>> \in Seq(Created) /\ DOMAIN <<>> = {}
    OBVIOUS
  <2>2. ASSUME NEW x \in 0 .. last
        PROVE  QtyOf(<<>>, Until(<<>>, x)) = QtyOf(row, before[0][x])
    <3>1. Until(<<>>, x) = {}
      BY <2>1 DEF Until
    <3>2. before[0][x] = {}
      BY <1>2
    <3> QED BY <3>1, <3>2, SumEmpty DEF QtyOf
  <2> QED BY <1>1, <2>1, <2>2
<1>7. ASSUME NEW k \in 1 .. n, NEW left \in A[k - 1]
      PROVE  step[row[k]][left] \in A[k]
  <2>1. /\ left \in Seq(Created)
        /\ \A j \in DOMAIN left : left[j].day <= last /\ \E i \in DOMAIN row : left[j] = row[i]
        /\ \A x \in 0 .. last : QtyOf(left, Until(left, x)) = QtyOf(row, before[k - 1][x])
    BY <1>4, <1>7
  <2>2. PICK m \in Created : m = row[k] /\ m.day \in Nat /\ m.qty \in Nat /\ k \in DOMAIN row
    BY <1>1
  <2>3. step[row[k]][left] = IF m.day <= last THEN Append(left, m) ELSE left
    BY <2>1, <2>2 DEF UpTo, Created
  <2>4. \A x \in 0 .. last : QtyOf(row, before[k - 1][x]) \in Nat
    BY <1>3, <1>4, CreatedQty
  <2> HIDE DEF step
  <2>5. CASE m.day <= last
    <3>1. Append(left, m) \in Seq(Created)
      BY <2>1, <2>2
    <3>2. \A j \in DOMAIN Append(left, m) : Append(left, m)[j] = m \/ (j \in DOMAIN left /\ Append(left, m)[j] = left[j])
      BY <2>1, <2>2
    <3>3. \A j \in DOMAIN Append(left, m) :
            /\ Append(left, m)[j].day <= last
            /\ \E i \in DOMAIN row : Append(left, m)[j] = row[i]
      BY <2>1, <2>2, <2>5, <3>2
    <3>4. ASSUME NEW x \in 0 .. last
          PROVE  QtyOf(Append(left, m), Until(Append(left, m), x)) = QtyOf(row, before[k][x])
      <4>1. x \in Nat
        OBVIOUS
      <4>2. QtyOf(Append(left, m), Until(Append(left, m), x)) =
              QtyOf(left, Until(left, x)) + (IF m.day <= x THEN m.qty ELSE 0)
        BY <2>1, <4>1, UntilMore
      <4> QED BY <1>5, <2>1, <2>2, <4>2
    <3>5. Append(left, m) \in A[k]
      BY <1>4, <3>1, <3>3, <3>4
    <3> QED BY <2>3, <2>5, <3>5
  <2>6. CASE ~ (m.day <= last)
    <3>1. ASSUME NEW x \in 0 .. last
          PROVE  QtyOf(left, Until(left, x)) = QtyOf(row, before[k][x])
      <4>1. ~ (row[k].day <= x)
        BY <2>2, <2>6
      <4> QED BY <1>5, <2>1, <2>4, <4>1
    <3>2. left \in A[k]
      BY <1>4, <2>1, <3>1
    <3> QED BY <2>3, <2>6, <3>2
  <2> QED BY <2>5, <2>6
<1>8. PICK left : left = Through(UpTo(last), row, <<>>)
  OBVIOUS
<1>9. left \in A[n]
  <2> HIDE DEF A, step
  <2>1. \A k \in 1 .. Len(row) : \A acc \in A[k - 1] : step[row[k]][acc] \in A[k]
    BY <1>7 DEF n
  <2>2. Through(step, row, <<>>) \in A[Len(row)]
    BY <1>6, <2>1, ThroughKeeps
  <2> QED BY <1>8, <2>2 DEF n, step
<1>10. /\ left \in Seq(Created)
       /\ \A j \in DOMAIN left : left[j].day <= last /\ \E i \in DOMAIN row : left[j] = row[i]
       /\ \A x \in 0 .. last : QtyOf(left, Until(left, x)) = QtyOf(row, before[n][x])
  BY <1>1, <1>9
<1>11. \A x \in 0 .. last : QtyOf(left, Until(left, x)) = QtyOf(row, Until(row, x))
  BY <1>2, <1>10
<1> QED BY <1>8, <1>10, <1>11

\* What the outcome o of a pass over v owes to a walk w and the last scheduled day
Done(v, last, w, o) ==
  /\ last \in Days /\ w \in After(v, Horizon)
  /\ \A d \in Days : v.outs[d] > 0 => d <= last
  /\ o.gone = w.cancelled \cup {p \in Procs : v.proc[p] # NoProc /\ v.proc[p].day > last}
  /\ o.new \in Seq(Created)
  /\ \A j \in DOMAIN o.new : /\ o.new[j].day \in 1 .. last /\ o.new[j].qty # 0
                             /\ CreatesOn(w, o.new[j].day)
  /\ \A x \in 0 .. last : QtyOf(o.new, Until(o.new, x)) = QtyOf(w.new, Until(w.new, x))

LEMMA PassOutcome ==
  ASSUME NEW v \in Snapshots, NEW run
  PROVE  \E last, w : Done(v, last, w, Outcome(v, run))
<1>1. PICK w \in After(v, Horizon) : w = Walk(v)
  BY WalkSettles
<1>2. w \in Sane(v, Horizon) /\ w \in Progress
  BY DEF After, Sane
<1>3. PICK last : last = LastScheduledDate(v, w, run)
  OBVIOUS
<1>4. last \in Days /\ \A d \in Days : v.outs[d] > 0 => d <= last
  BY <1>2, <1>3, LastDay
<1>5. last \in Nat
  BY <1>4 DEF Days
<1>6. PICK left : left = Through(UpTo(last), w.new, <<>>)
  OBVIOUS
<1>7. w.new \in Seq(Created)
  BY <1>2, ProgressTypes
<1>8. /\ left \in Seq(Created)
      /\ \A j \in DOMAIN left : left[j].day <= last /\ \E i \in DOMAIN w.new : left[j] = w.new[i]
      /\ \A x \in 0 .. last : QtyOf(left, Until(left, x)) = QtyOf(w.new, Until(w.new, x))
  BY <1>5, <1>6, <1>7, FilteredRow
<1>9. PICK o : o = Outcome(v, run)
  OBVIOUS
<1>10. /\ o.gone = w.cancelled \cup {p \in Procs : v.proc[p] # NoProc /\ v.proc[p].day > last}
       /\ o.new = left
  BY <1>1, <1>3, <1>6, <1>9 DEF Outcome
<1>11. ASSUME NEW j \in DOMAIN left
       PROVE  left[j].day \in 1 .. last /\ left[j].qty # 0 /\ CreatesOn(w, left[j].day)
  <2>1. PICK i \in DOMAIN w.new : left[j] = w.new[i]
    BY <1>8
  <2>2. w.new[i].day \in 1 .. Horizon /\ w.new[i].qty # 0
    BY <1>2 DEF Sane
  <2>3. left[j].day <= last
    BY <1>8
  <2>4. Horizon \in Nat
    BY OrderpointAssumption
  <2> QED BY <1>5, <2>1, <2>2, <2>3, <2>4 DEF CreatesOn
<1>12. Done(v, last, w, o)
  BY <1>4, <1>8, <1>10, <1>11 DEF Done
<1> QED BY <1>9, <1>12

\* The rows after a pass: those it frees get what it creates, in order.
Freed(v, gone) == {i \in Procs : i \in gone \/ v.proc[i] = NoProc}

Rewritten(v, after, gone, new) ==
  /\ after \in Snapshots /\ after.stock = v.stock /\ after.outs = v.outs
  /\ Len(new) <= Cardinality(Freed(v, gone))
  /\ \A i \in Procs \ Freed(v, gone) : after.proc[i] = v.proc[i]
  /\ \A i \in Freed(v, gone) :
       LET k == Rank(Freed(v, gone), i)
       IN IF k <= Len(new)
          THEN /\ after.proc[i] # NoProc /\ ~ after.proc[i].protected
               /\ after.proc[i].day = new[k].day /\ after.proc[i].qty = new[k].qty
          ELSE after.proc[i] = NoProc

\* The level the rows give
LevelNow(v, d) == v.stock + SumOf(v, Due(v, d)) - OutUpTo(v, d)

LEMMA FreedRanks ==
  ASSUME NEW v, NEW gone
  PROVE  LET free == Freed(v, gone)
         IN /\ free \in SUBSET Procs /\ IsFiniteSet(free)
            /\ Cardinality(free) \in Nat
            /\ \A i \in free : Rank(free, i) \in 1 .. Cardinality(free)
            /\ \A i, j \in free : Rank(free, i) = Rank(free, j) => i = j
            /\ \A k \in 1 .. Cardinality(free) : \E i \in free : Rank(free, i) = k
<1>1. PICK free : free = Freed(v, gone)
  OBVIOUS
<1>2. free \in SUBSET Procs
  BY <1>1 DEF Freed
<1>3. IsFiniteSet(free) /\ free \in SUBSET Nat
  BY <1>2, SetsAreFinite
<1>4. Cardinality(free) \in Nat
  BY <1>3, FS_CardinalityType
<1>5. /\ \A i \in free : Rank(free, i) \in 1 .. Cardinality(free)
      /\ \A i, j \in free : Rank(free, i) = Rank(free, j) => i = j
      /\ \A k \in 1 .. Cardinality(free) : \E i \in free : Rank(free, i) = k
  BY <1>3, Ranks
<1> QED BY <1>1, <1>2, <1>3, <1>4, <1>5

\* They add up to the level that the walk left.
LEMMA LevelAfterPass ==
  ASSUME NEW v \in Snapshots, NEW last, NEW w, NEW o, Done(v, last, w, o),
         NEW after, Rewritten(v, after, o.gone, o.new), NEW x \in 1 .. last
  PROVE  LevelNow(after, x) = Leaves(v, w, x)
<1> DEFINE free == Freed(v, o.gone)
           N == {i \in free : after.proc[i] # NoProc /\ after.proc[i].day <= x}
           K == Due(v, x) \ w.cancelled
           U == Until(o.new, x)
           a == [p \in Procs |-> after.proc[p].qty]
           q == [k \in DOMAIN o.new |-> o.new[k].qty]
           f == [i \in N |-> Rank(free, i)]
<1>1. /\ last \in Days /\ w \in After(v, Horizon)
      /\ o.gone = w.cancelled \cup {p \in Procs : v.proc[p] # NoProc /\ v.proc[p].day > last}
      /\ o.new \in Seq(Created)
      /\ QtyOf(o.new, U) = QtyOf(w.new, Until(w.new, x))
  <2>1. x \in 0 .. last
    BY DEF Done, Days
  <2> QED BY <2>1 DEF Done
<1>2. /\ after \in Snapshots /\ after.stock = v.stock /\ after.outs = v.outs
      /\ Len(o.new) <= Cardinality(free)
      /\ \A i \in Procs \ free : after.proc[i] = v.proc[i]
      /\ \A i \in free :
           /\ Rank(free, i) <= Len(o.new) =>
                /\ after.proc[i] # NoProc
                /\ after.proc[i].day = o.new[Rank(free, i)].day
                /\ after.proc[i].qty = o.new[Rank(free, i)].qty
           /\ ~ (Rank(free, i) <= Len(o.new)) => after.proc[i] = NoProc
  BY DEF Rewritten
<1>3. /\ free \in SUBSET Procs /\ IsFiniteSet(free)
      /\ Cardinality(free) \in Nat
      /\ \A i \in free : Rank(free, i) \in 1 .. Cardinality(free)
      /\ \A i, j \in free : Rank(free, i) = Rank(free, j) => i = j
      /\ \A k \in 1 .. Cardinality(free) : \E i \in free : Rank(free, i) = k
  BY FreedRanks
<1>4. \A i \in Procs : i \in free <=> i \in o.gone \/ v.proc[i] = NoProc
  BY DEF Freed
<1>5. x \in Nat /\ last \in Nat /\ x <= last /\ x \in Days
  BY <1>1, OrderpointAssumption DEF Days
<1>6. DOMAIN o.new = 1 .. Len(o.new) /\ Len(o.new) \in Nat
  BY <1>1
<1> HIDE DEF free
<1>7. Due(after, x) = K \cup N /\ K \cap N = {} /\ K \in SUBSET Procs /\ N \in SUBSET Procs
  <2>1. \A p \in Procs : v.proc[p].day \in Int
    BY SnapshotTypes
  <2>2. \A p \in K : p \in Procs /\ p \notin free /\ v.proc[p] # NoProc /\ v.proc[p].day <= x
    BY <1>1, <1>4, <1>5, <2>1 DEF Due
  <2>3. \A p \in Procs : p \notin free /\ v.proc[p].day <= x => p \in K
    BY <1>1, <1>4 DEF Due
  <2>4. \A p \in Due(after, x) : p \in K \cup N
    BY <1>2, <2>3 DEF Due
  <2>5. \A p \in K : p \in Due(after, x)
    BY <1>2, <2>2 DEF Due
  <2>6. \A p \in N : p \in Procs /\ p \in Due(after, x)
    BY <1>3 DEF Due
  <2>7. K \cap N = {}
    BY <2>2
  <2>8. K \in SUBSET Procs /\ N \in SUBSET Procs
    BY <2>2, <2>6
  <2> HIDE DEF K, N
  <2> QED BY <2>4, <2>5, <2>6, <2>7, <2>8
<1>8. SumOf(after, K) = SumOf(v, K) /\ SumOf(v, K) \in Nat
  <2>1. \A p \in K : p \in Procs /\ p \notin free
    BY <1>1, <1>4, <1>5, SnapshotTypes DEF Due
  <2>2. \A p \in K : after.proc[p] = v.proc[p]
    BY <1>2, <2>1
  <2>3. IsFiniteSet(K) /\ K \in SUBSET Procs
    BY <1>7, SetsAreFinite
  <2> HIDE DEF K
  <2> DEFINE b == [p \in Procs |-> v.proc[p].qty]
             c == [p \in Procs |-> after.proc[p].qty]
  <2>4. \A p \in K : b[p] \in Int /\ c[p] = b[p]
    BY <2>1, <2>2, SnapshotTypes
  <2>5. SumOf(v, K) = SumFunctionOnSet(b, K) /\ SumOf(after, K) = SumFunctionOnSet(c, K)
    BY DEF SumOf
  <2> HIDE DEF b, c
  <2>6. SumFunctionOnSet(c, K) = SumFunctionOnSet(b, K)
    BY <2>3, <2>4, SumSame
  <2>7. SumOf(v, K) \in Nat
    BY <2>3, SumOfType
  <2> QED BY <2>5, <2>6, <2>7
<1>9. SumOf(after, N) = QtyOf(o.new, U)
  <2>1. \A i \in N : /\ i \in free /\ i \in Procs /\ Rank(free, i) \in DOMAIN o.new
                     /\ after.proc[i].day = o.new[Rank(free, i)].day
                     /\ after.proc[i].qty = o.new[Rank(free, i)].qty
                     /\ after.proc[i].day <= x
    BY <1>2, <1>3, <1>6
  <2>2. \A i \in N : f[i] \in U
    BY <2>1 DEF Until
  <2>3. \A k \in U : \E i \in N : k = f[i]
    <3> TAKE k \in U
    <3>1. k \in 1 .. Len(o.new) /\ o.new[k].day <= x
      BY <1>6 DEF Until
    <3>2. k \in 1 .. Cardinality(free)
      BY <1>2, <1>3, <1>6, <3>1
    <3>3. PICK i \in free : Rank(free, i) = k
      BY <1>3, <3>2
    <3>4. i \in N
      BY <1>2, <3>1, <3>3
    <3> QED BY <3>3, <3>4
  <2>4. \A i, j \in N : f[i] = f[j] => i = j
    BY <1>3, <2>1
  <2>5. \A i \in N : q[f[i]] = a[i] /\ a[i] \in Int
    <3>1. \A i \in N : a[i] \in Int
      BY <1>2, <2>1, SnapshotTypes
    <3> QED BY <2>1, <3>1
  <2>6. DOMAIN f = N /\ IsFiniteSet(N)
    <3>1. DOMAIN f = N
      OBVIOUS
    <3> QED BY <1>7, <3>1, SetsAreFinite
  <2>7. SumOf(after, N) = SumFunctionOnSet(a, N) /\ QtyOf(o.new, U) = SumFunctionOnSet(q, U)
    BY DEF SumOf, QtyOf
  <2> HIDE DEF f, a, q, N, U
  <2>8. SumFunctionOnSet(q, U) = SumFunctionOnSet(a, N)
    BY <2>2, <2>3, <2>4, <2>5, <2>6, SumRenamed
  <2> QED BY <2>7, <2>8
<1>10. SumOf(after, Due(after, x)) = SumOf(v, K) + QtyOf(w.new, Until(w.new, x))
  <2> HIDE DEF K, N, U
  <2>1. SumOf(after, K \cup N) = SumOf(after, K) + SumOf(after, N)
    BY <1>2, <1>7, SumOfParts
  <2> QED BY <1>1, <1>7, <1>8, <1>9, <2>1
<1>11. OutUpTo(after, x) = OutUpTo(v, x)
  BY <1>2 DEF OutUpTo
<1>12. QtyOf(w.new, Until(w.new, x)) \in Nat
  <2>1. w.new \in Seq(Created)
    BY <1>1, ProgressTypes DEF After, Sane
  <2>2. Until(w.new, x) \in SUBSET DOMAIN w.new
    BY DEF Until
  <2> QED BY <2>1, <2>2, CreatedQty
<1>13. OutUpTo(v, x) \in Nat /\ v.stock \in Nat
  BY <1>5, OutStep, SnapshotTypes
<1>14. Leaves(v, w, x) = v.stock + SumOf(v, K) - OutUpTo(v, x) + QtyOf(w.new, Until(w.new, x))
  BY DEF Leaves, LevelAt
<1> HIDE DEF K
<1> QED BY <1>2, <1>8, <1>10, <1>11, <1>12, <1>13, <1>14 DEF LevelNow

\* A row after a pass was left by it or is one it created; no row is after the last day.
LEMMA RowsAfterPass ==
  ASSUME NEW v \in Snapshots, NEW last, NEW w, NEW o, Done(v, last, w, o),
         NEW after, Rewritten(v, after, o.gone, o.new), NEW i \in Procs, after.proc[i] # NoProc
  PROVE  /\ after.proc[i].day \in 1 .. last
         /\ \/ after.proc[i] = v.proc[i] /\ i \notin w.cancelled
            \/ CreatesOn(w, after.proc[i].day)
<1> DEFINE free == Freed(v, o.gone)
<1>1. /\ last \in Days
      /\ o.gone = w.cancelled \cup {p \in Procs : v.proc[p] # NoProc /\ v.proc[p].day > last}
      /\ DOMAIN o.new = 1 .. Len(o.new) /\ Len(o.new) \in Nat
      /\ \A j \in DOMAIN o.new : o.new[j].day \in 1 .. last /\ CreatesOn(w, o.new[j].day)
  BY DEF Done
<1>2. /\ i \notin free => after.proc[i] = v.proc[i]
      /\ i \in free => /\ Rank(free, i) <= Len(o.new)
                       /\ after.proc[i].day = o.new[Rank(free, i)].day
  BY DEF Rewritten
<1>3. i \in free <=> i \in o.gone \/ v.proc[i] = NoProc
  BY DEF Freed
<1>4. i \in free => Rank(free, i) \in 1 .. Cardinality(free) /\ Cardinality(free) \in Nat
  BY FreedRanks
<1> HIDE DEF free
<1>5. CASE i \in free
  <2>1. Rank(free, i) \in DOMAIN o.new
    BY <1>1, <1>2, <1>4, <1>5
  <2> QED BY <1>1, <1>2, <1>5, <2>1
<1>6. CASE i \notin free
  <2>1. after.proc[i] = v.proc[i] /\ i \notin w.cancelled /\ ~ (v.proc[i].day > last)
    BY <1>1, <1>2, <1>3, <1>6
  <2>2. v.proc[i].day \in Days /\ last \in Days
    BY <1>1, <2>1, SnapshotTypes
  <2>3. v.proc[i].day \in 1 .. last
    BY <2>1, <2>2 DEF Days
  <2> QED BY <2>1, <2>3
<1> QED BY <1>5, <1>6

\* What goes out is covered ...
LEMMA PassCovers ==
  ASSUME NEW v \in Snapshots, NEW last, NEW w, NEW o, Done(v, last, w, o),
         NEW after, Rewritten(v, after, o.gone, o.new), NEW d \in Days, after.outs[d] > 0
  PROVE  LevelNow(after, d) >= MinQty
<1>1. v.outs[d] > 0 /\ d <= last /\ last \in Days /\ w \in After(v, Horizon)
  BY DEF Done, Rewritten
<1>2. d \in 1 .. last /\ d \in 1 .. Horizon
  BY <1>1 DEF Days
<1>3. Leaves(v, w, d) >= MinQty
  BY <1>1, <1>2 DEF After, Settled, Served
<1>4. LevelNow(after, d) = Leaves(v, w, d)
  BY <1>2, LevelAfterPass
<1> QED BY <1>3, <1>4

\* ... what the level does without is gone ...
LEMMA PassTrims ==
  ASSUME NEW v \in Snapshots, NEW last, NEW w, NEW o, Done(v, last, w, o),
         NEW after, Rewritten(v, after, o.gone, o.new), Multiple = 1,
         NEW i \in Procs, after.proc[i] # NoProc, ~ after.proc[i].protected
  PROVE  \/ LevelNow(after, after.proc[i].day) <= AllowedQty
         \/ \E j \in Procs : /\ after.proc[j] # NoProc /\ after.proc[j].protected
                             /\ after.proc[j].day = after.proc[i].day
<1>1. PICK d : d = after.proc[i].day
  OBVIOUS
<1>2. /\ d \in 1 .. last
      /\ \/ after.proc[i] = v.proc[i] /\ i \notin w.cancelled
         \/ CreatesOn(w, d)
  BY <1>1, RowsAfterPass
<1>3. last \in Days /\ w \in After(v, Horizon) /\ d \in 1 .. Horizon
  <2>1. last \in Days /\ w \in After(v, Horizon)
    BY DEF Done
  <2> QED BY <1>2, <2>1, OrderpointAssumption DEF Days
<1>4. LevelNow(after, d) = Leaves(v, w, d)
  BY <1>2, LevelAfterPass
<1>5. Trimmed(v, w, d)
  BY <1>3 DEF After, Settled
<1>6. CASE \E p \in Supply(v, d) : v.proc[p].protected
  <2>1. PICK p \in Procs : v.proc[p] # NoProc /\ v.proc[p].day = d /\ v.proc[p].protected
    BY <1>6 DEF Supply
  <2>2. p \notin w.cancelled
    BY <1>3, <2>1 DEF After, Sane
  <2>3. p \notin Freed(v, o.gone)
    <3>1. ~ (v.proc[p].day > last)
      BY <1>2, <1>3, <2>1 DEF Days
    <3>2. p \notin o.gone
      BY <2>2, <3>1 DEF Done
    <3> QED BY <2>1, <3>2 DEF Freed
  <2>4. after.proc[p] = v.proc[p]
    BY <2>3 DEF Rewritten
  <2> QED BY <1>1, <2>1, <2>4
<1>7. CASE Supply(v, d) \subseteq w.cancelled /\ ~ CreatesOn(w, d)
  <2>1. after.proc[i] = v.proc[i] /\ i \notin w.cancelled
    BY <1>2, <1>7
  <2>2. i \in Supply(v, d)
    BY <1>1, <2>1 DEF Supply
  <2> QED BY <1>7, <2>1, <2>2
<1> QED BY <1>1, <1>4, <1>5, <1>6, <1>7 DEF Trimmed

\* ... and what is protected stays, if something goes out with it or after it.
LEMMA PassKeeps ==
  ASSUME NEW v \in Snapshots, NEW last, NEW w, NEW o, Done(v, last, w, o),
         NEW after, Rewritten(v, after, o.gone, o.new), NEW i \in Procs, v.proc[i].protected,
         NEW d \in v.proc[i].day .. Horizon, v.outs[d] > 0
  PROVE  after.proc[i] = v.proc[i]
<1>1. v.proc[i] # NoProc /\ v.proc[i].day \in Days
  BY SnapshotTypes
<1>2. d \in Days /\ v.proc[i].day <= d /\ v.proc[i].day \in Int
  BY <1>1, OrderpointAssumption DEF Days
<1>3. d <= last /\ last \in Days /\ w \in After(v, Horizon)
  BY <1>2 DEF Done
<1>4. ~ (v.proc[i].day > last)
  BY <1>2, <1>3 DEF Days
<1>5. i \notin w.cancelled
  BY <1>3 DEF After, Sane
<1>6. i \notin Freed(v, o.gone)
  BY <1>1, <1>4, <1>5 DEF Done, Freed
<1> QED BY <1>6 DEF Rewritten

-----------------------------------------------------------------------------
(* The passes *)

Passing == [running : BOOLEAN, gone : SUBSET Procs, new : Seq(NewRows),
            conflict : BOOLEAN, current : BOOLEAN]

\* What a pass creates, as the rows of procurements it will be
Planned(new, run) == [k \in DOMAIN new |-> [day |-> new[k].day, qty |-> new[k].qty, move |-> run]]

\* A pass that is current does what its outcome over the present rows says.
Follows(p) ==
  /\ pass[p].running /\ ~ pass[p].conflict
  /\ \E run \in BOOLEAN :
       /\ pass[p].gone = Outcome(Current, run).gone
       /\ pass[p].new = Planned(Outcome(Current, run).new, run)

Inv ==
  /\ TypeOK
  /\ pass \in [Passes -> Passing]
  /\ \A p \in Passes : pass[p].current => Follows(p)

LEMMA CurrentType == ASSUME TypeOK PROVE Current \in Snapshots
BY DEF TypeOK, Current, Snapshots

\* What a pass creates can be rows.
LEMMA PlannedType ==
  ASSUME NEW v \in Snapshots, NEW last, NEW w, NEW o, Done(v, last, w, o), NEW run \in BOOLEAN
  PROVE  Planned(o.new, run) \in Seq(NewRows) /\ o.gone \in SUBSET Procs
<1>1. /\ last \in Days /\ w \in After(v, Horizon) /\ o.new \in Seq(Created)
      /\ o.gone = w.cancelled \cup {p \in Procs : v.proc[p] # NoProc /\ v.proc[p].day > last}
      /\ \A j \in DOMAIN o.new : o.new[j].day \in 1 .. last /\ o.new[j].qty # 0
  BY DEF Done
<1>2. o.gone \in SUBSET Procs
  <2>1. w.cancelled \in SUBSET Procs
    BY <1>1, ProgressTypes DEF After, Sane
  <2> QED BY <1>1, <2>1
<1>3. PICK new \in Seq(Created) : new = o.new
  BY <1>1
<1>4. DOMAIN new = 1 .. Len(new) /\ Len(new) \in Nat /\ \A j \in DOMAIN new : new[j] \in Created
  OBVIOUS
<1>5. \A j \in DOMAIN new : [day |-> new[j].day, qty |-> new[j].qty, move |-> run] \in NewRows
  <2> TAKE j \in DOMAIN new
  <2>1. new[j].qty \in Nat /\ new[j].qty # 0
    BY <1>1, <1>3, <1>4 DEF Created
  <2>2. new[j].day \in Days
    BY <1>1, <1>3, OrderpointAssumption DEF Days
  <2> QED BY <2>1, <2>2 DEF NewRows
<1>6. Planned(new, run) \in [1 .. Len(new) -> NewRows]
  BY <1>4, <1>5 DEF Planned
<1> QED BY <1>2, <1>3, <1>4, <1>6

\* Rows that are written leave no other pass current, and the ones that run running.
LEMMA WroteTypes ==
  ASSUME pass \in [Passes -> Passing], NEW rows, NEW ps
  PROVE  /\ Wrote(rows, ps) \in [Passes -> Passing]
         /\ \A p \in Passes :
              /\ ~ Wrote(rows, ps)[p].current
              /\ pass[p].running /\ p \notin ps => Wrote(rows, ps)[p].running
<1>1. PICK N : N = Seq(NewRows)
  OBVIOUS
<1>2. Passing = [running : BOOLEAN, gone : SUBSET Procs, new : N, conflict : BOOLEAN, current : BOOLEAN]
  BY <1>1 DEF Passing
<1>3. Idle \in Passing /\ Idle.current = FALSE
  <2>1. <<>> \in N
    BY <1>1
  <2> QED BY <1>2, <2>1 DEF Idle
<1>4. ASSUME NEW p \in Passes
      PROVE  /\ Wrote(rows, ps)[p] \in Passing
             /\ ~ Wrote(rows, ps)[p].current
             /\ pass[p].running /\ p \notin ps => Wrote(rows, ps)[p].running
  <2>1. PICK c \in BOOLEAN : c = (pass[p].conflict \/ pass[p].gone \intersect rows # {})
    OBVIOUS
  <2>2. Wrote(rows, ps)[p] =
          IF ~ pass[p].running \/ p \in ps THEN Idle
          ELSE [pass[p] EXCEPT !.current = FALSE, !.conflict = c]
    BY <2>1 DEF Wrote
  <2>3. PICK r \in Passing : r = pass[p]
    OBVIOUS
  <2>4. /\ [r EXCEPT !.current = FALSE, !.conflict = c] \in Passing
        /\ [r EXCEPT !.current = FALSE, !.conflict = c].current = FALSE
        /\ [r EXCEPT !.current = FALSE, !.conflict = c].running = r.running
    BY <1>2
  <2> QED BY <1>3, <2>2, <2>3, <2>4
<1>5. Wrote(rows, ps) = [p \in Passes |-> Wrote(rows, ps)[p]]
  BY DEF Wrote
<1> QED BY <1>4, <1>5

LEMMA InitInv == ASSUME Init PROVE Inv
<1>1. pass \in [Passes -> Passing] /\ \A p \in Passes : pass[p] = Idle
  <2>1. Idle \in Passing
    <3>1. <<>> \in Seq(NewRows)
      OBVIOUS
    <3> QED BY <3>1 DEF Idle, Passing
  <2> QED BY <2>1 DEF Init
<1>2. \A p \in Passes : ~ pass[p].current
  BY <1>1 DEF Idle
<1>3. TypeOK
  <2>1. \A p \in Passes : /\ pass[p].gone \subseteq Procs /\ pass[p].new \in Seq(NewRows)
                          /\ {pass[p].running, pass[p].conflict, pass[p].current} \subseteq BOOLEAN
    BY <1>1 DEF Passing
  <2>2. stock \in Nat /\ outs \in [Days -> Nat] /\ proc \in [Procs -> Rows \union {NoProc}]
        /\ changes \in 0 .. MaxChanges
    BY OrderpointAssumption DEF Init
  <2> QED BY <2>1, <2>2 DEF TypeOK
<1> QED BY <1>1, <1>2, <1>3 DEF Inv

\* What Inv' asks of the passes, given the rest.
LEMMA InvFrom ==
  ASSUME stock' \in Nat, outs' \in [Days -> Nat], proc' \in [Procs -> Rows \union {NoProc}],
         changes' \in 0 .. MaxChanges, pass' \in [Passes -> Passing],
         \A p \in Passes : pass'[p].current => Follows(p)'
  PROVE  Inv'
<1>1. \A p \in Passes : /\ pass'[p].gone \subseteq Procs /\ pass'[p].new \in Seq(NewRows)
                        /\ {pass'[p].running, pass'[p].conflict, pass'[p].current} \subseteq BOOLEAN
  BY DEF Passing
<1>2. TypeOK'
  BY <1>1 DEF TypeOK
<1> QED BY <1>2 DEF Inv

LEMMA BeginStep ==
  ASSUME Inv, NEW p \in Passes, NEW run \in BOOLEAN, Begin(p, run)
  PROVE  Inv' /\ pass'[p].running /\ \A q \in Passes : q # p => pass'[q] = pass[q]
<1>1. Current \in Snapshots
  BY CurrentType DEF Inv
<1>2. PICK v \in Snapshots : v = Current
  BY <1>1
<1>3. PICK last, w : Done(v, last, w, Outcome(v, run))
  BY PassOutcome
<1>4. PICK o : o = Outcome(v, run)
  OBVIOUS
<1>5. Planned(o.new, run) \in Seq(NewRows) /\ o.gone \in SUBSET Procs
  BY <1>3, <1>4, PlannedType
<1> DEFINE r == [running |-> TRUE, gone |-> o.gone, new |-> Planned(o.new, run),
                 conflict |-> FALSE, current |-> TRUE]
<1>6. pass' = [pass EXCEPT ![p] = r]
  BY <1>2, <1>4 DEF Begin, Planned
<1>7. /\ r \in Passing /\ r.running /\ ~ r.conflict /\ r.gone = o.gone
      /\ r.new = Planned(o.new, run)
  BY <1>5 DEF Passing
<1> HIDE DEF r
<1>8. /\ pass \in [Passes -> Passing] /\ TypeOK
      /\ \A q \in Passes : pass[q].current => Follows(q)
  BY DEF Inv
<1>9. pass' \in [Passes -> Passing] /\ pass'[p] = r /\ \A q \in Passes : q # p => pass'[q] = pass[q]
  BY <1>6, <1>7, <1>8
<1>10. stock' = stock /\ outs' = outs /\ proc' = proc /\ changes' = changes
  BY DEF Begin
<1>11. Current' = Current
  BY <1>10 DEF Current
<1>12. ASSUME NEW q \in Passes, pass'[q].current
       PROVE  Follows(q)'
  <2>1. CASE q = p
    <3>1. /\ pass'[q].running /\ ~ pass'[q].conflict
          /\ pass'[q].gone = Outcome(Current', run).gone
          /\ pass'[q].new = Planned(Outcome(Current', run).new, run)
      BY <1>2, <1>4, <1>7, <1>9, <1>11, <2>1
    <3> QED BY <3>1 DEF Follows
  <2>2. CASE q # p
    <3>1. pass'[q] = pass[q] /\ pass[q].current
      BY <1>9, <1>12, <2>2
    <3>2. Follows(q)
      BY <1>8, <3>1
    <3> QED BY <1>11, <3>1, <3>2 DEF Follows
  <2> QED BY <2>1, <2>2
<1>13. stock' \in Nat /\ outs' \in [Days -> Nat] /\ proc' \in [Procs -> Rows \union {NoProc}]
       /\ changes' \in 0 .. MaxChanges
  BY <1>8, <1>10 DEF TypeOK
<1>14. Inv'
  BY <1>9, <1>12, <1>13, InvFrom
<1> QED BY <1>7, <1>9, <1>14

LEMMA RollbackStep ==
  ASSUME Inv, NEW p \in Passes, Rollback(p)
  PROVE  Inv' /\ ~ pass[p].current /\ \A q \in Passes : q # p => pass'[q] = pass[q]
<1>1. /\ pass \in [Passes -> Passing] /\ TypeOK
      /\ \A q \in Passes : pass[q].current => Follows(q)
  BY DEF Inv
<1>2. Idle \in Passing /\ Idle.current = FALSE
  <2>1. <<>> \in Seq(NewRows)
    OBVIOUS
  <2> QED BY <2>1 DEF Idle, Passing
<1>3. pass' \in [Passes -> Passing] /\ pass'[p] = Idle /\ \A q \in Passes : q # p => pass'[q] = pass[q]
  BY <1>1, <1>2 DEF Rollback
<1>4. stock' = stock /\ outs' = outs /\ proc' = proc /\ changes' = changes
  BY DEF Rollback
<1>5. Current' = Current
  BY <1>4 DEF Current
<1>6. ASSUME NEW q \in Passes, pass'[q].current
      PROVE  Follows(q)'
  <2>1. q # p
    BY <1>2, <1>3, <1>6
  <2>2. pass'[q] = pass[q] /\ pass[q].current
    BY <1>3, <1>6, <2>1
  <2>3. Follows(q)
    BY <1>1, <2>2
  <2> QED BY <1>5, <2>2, <2>3 DEF Follows
<1>7. stock' \in Nat /\ outs' \in [Days -> Nat] /\ proc' \in [Procs -> Rows \union {NoProc}]
      /\ changes' \in 0 .. MaxChanges
  BY <1>1, <1>4 DEF TypeOK
<1>8. Inv'
  BY <1>3, <1>6, <1>7, InvFrom
<1>9. ~ pass[p].current
  BY <1>1 DEF Rollback, Follows
<1> QED BY <1>3, <1>8, <1>9

\* What users, customers and suppliers do leaves no pass current.
LEMMA ChangeStep ==
  ASSUME Inv, NEW rows, Change(rows), stock' \in Nat, outs' \in [Days -> Nat],
         proc' \in [Procs -> Rows \union {NoProc}]
  PROVE  Inv' /\ \A p \in Passes : pass[p].running => pass'[p].running
<1>1. pass \in [Passes -> Passing] /\ TypeOK /\ changes \in 0 .. MaxChanges
  BY DEF Inv, TypeOK
<1>2. pass' = Wrote(rows, {}) /\ changes' = changes + 1 /\ changes < MaxChanges
  BY DEF Change
<1>3. /\ pass' \in [Passes -> Passing]
      /\ \A p \in Passes : ~ pass'[p].current /\ (pass[p].running => pass'[p].running)
  BY <1>1, <1>2, WroteTypes
<1>4. changes' \in 0 .. MaxChanges
  BY <1>1, <1>2, OrderpointAssumption
<1>5. Inv'
  BY <1>3, <1>4, InvFrom
<1> QED BY <1>3, <1>5

LEMMA MoveSteps ==
  ASSUME Inv, NEW d \in Days,
         CancelNeeds(d) \/ Ship(d) \/ \E q \in NeedQtys : ConfirmNeed(d, q)
  PROVE  Inv' /\ \A p \in Passes : pass[p].running => pass'[p].running
<1>1. stock \in Nat /\ outs \in [Days -> Nat] /\ proc \in [Procs -> Rows \union {NoProc}]
  BY DEF Inv, TypeOK
<1>2. CASE CancelNeeds(d)
  <2>1. Change({}) /\ stock' \in Nat /\ outs' \in [Days -> Nat] /\ proc' \in [Procs -> Rows \union {NoProc}]
    BY <1>1, <1>2 DEF CancelNeeds
  <2> QED BY <2>1, ChangeStep
<1>3. CASE Ship(d)
  <2>1. Change({}) /\ stock' \in Nat /\ outs' \in [Days -> Nat] /\ proc' \in [Procs -> Rows \union {NoProc}]
    BY <1>1, <1>3 DEF Ship
  <2> QED BY <2>1, ChangeStep
<1>4. ASSUME NEW q \in NeedQtys, ConfirmNeed(d, q)
      PROVE  Inv' /\ \A p \in Passes : pass[p].running => pass'[p].running
  <2>1. q \in Nat
    BY OrderpointAssumption
  <2>2. Change({}) /\ stock' \in Nat /\ outs' \in [Days -> Nat] /\ proc' \in [Procs -> Rows \union {NoProc}]
    BY <1>1, <1>4, <2>1 DEF ConfirmNeed
  <2> QED BY <2>2, ChangeStep
<1> QED BY <1>2, <1>3, <1>4

LEMMA ProcSteps ==
  ASSUME Inv, NEW i \in Procs, Receive(i) \/ RunProc(i) \/ Protect(i)
  PROVE  Inv' /\ \A p \in Passes : pass[p].running => pass'[p].running
<1>1. stock \in Nat /\ outs \in [Days -> Nat] /\ proc \in [Procs -> Rows \union {NoProc}]
  BY DEF Inv, TypeOK
<1>2. \A r \in Rows : [r EXCEPT !.move = TRUE] \in Rows /\ [r EXCEPT !.protected = TRUE] \in Rows
  BY DEF Rows
<1>3. proc[i] # NoProc => proc[i] \in Rows
  BY <1>1
<1>4. CASE Receive(i)
  <2>1. proc[i].qty \in Nat
    <3>1. PICK r \in Rows \union {NoProc} : r = proc[i]
      BY <1>1
    <3>2. r.qty \in Nat
      BY DEF Rows, NoProc
    <3> QED BY <3>1, <3>2
  <2>2. Change({i}) /\ stock' \in Nat /\ outs' \in [Days -> Nat] /\ proc' \in [Procs -> Rows \union {NoProc}]
    BY <1>1, <1>4, <2>1 DEF Receive
  <2> QED BY <2>2, ChangeStep
<1>5. CASE RunProc(i)
  <2>1. proc' = [proc EXCEPT ![i] = [proc[i] EXCEPT !.move = TRUE]] /\ proc[i] \in Rows
    BY <1>3, <1>5 DEF RunProc
  <2>2. proc' \in [Procs -> Rows \union {NoProc}]
    BY <1>1, <1>2, <2>1
  <2>3. Change({i}) /\ stock' \in Nat /\ outs' \in [Days -> Nat]
    BY <1>1, <1>5 DEF RunProc
  <2> QED BY <2>2, <2>3, ChangeStep
<1>6. CASE Protect(i)
  <2>1. proc' = [proc EXCEPT ![i] = [proc[i] EXCEPT !.protected = TRUE]] /\ proc[i] \in Rows
    BY <1>3, <1>6 DEF Protect
  <2>2. proc' \in [Procs -> Rows \union {NoProc}]
    BY <1>1, <1>2, <2>1
  <2>3. Change({i}) /\ stock' \in Nat /\ outs' \in [Days -> Nat]
    BY <1>1, <1>6 DEF Protect
  <2> QED BY <2>2, <2>3, ChangeStep
<1> QED BY <1>4, <1>5, <1>6

\* A pass that commits leaves well-formed rows, and if it was current, those its
\* outcome asks for.
LEMMA ProcessStep ==
  ASSUME Inv, NEW p \in Passes, Process(p)
  PROVE  /\ Inv'
         /\ \A q \in Passes : q # p /\ pass[q].running => pass'[q].running
         /\ pass[p].current =>
              \E last, w, o : /\ Done(Current, last, w, o)
                              /\ Rewritten(Current, Current', o.gone, o.new)
<1> DEFINE gone == pass[p].gone
           new == pass[p].new
           free == Freed(Current, gone)
           row == [n \in NewRows |->
                     [day |-> n.day, qty |-> n.qty, move |-> n.move, protected |-> FALSE]]
<1>1. /\ TypeOK /\ pass \in [Passes -> Passing]
      /\ \A q \in Passes : pass[q].current => Follows(q)
  BY DEF Inv
<1>2. /\ stock \in Nat /\ outs \in [Days -> Nat] /\ proc \in [Procs -> Rows \union {NoProc}]
      /\ changes \in 0 .. MaxChanges
  BY <1>1 DEF TypeOK
<1>3. new \in Seq(NewRows) /\ gone \in SUBSET Procs
  BY <1>1 DEF Passing
<1>4. DOMAIN new = 1 .. Len(new) /\ Len(new) \in Nat /\ \A k \in DOMAIN new : new[k] \in NewRows
  <2> HIDE DEF new
  <2> QED BY <1>3
<1>5. free = {i \in Procs : i \in gone \/ proc[i] = NoProc}
  BY DEF Freed, Current
<1>6. /\ Len(new) <= Cardinality(free)
      /\ pass' = Wrote(gone, {p})
      /\ stock' = stock /\ outs' = outs /\ changes' = changes
      /\ proc' = [i \in Procs |->
           IF i \notin free THEN proc[i]
           ELSE IF Rank(free, i) <= Len(new)
                THEN [day |-> new[Rank(free, i)].day, qty |-> new[Rank(free, i)].qty,
                      move |-> new[Rank(free, i)].move, protected |-> FALSE]
                ELSE NoProc]
  BY <1>5 DEF Process, Rank
<1>7. \A i \in free : Rank(free, i) \in 1 .. Cardinality(free)
  BY FreedRanks
<1>8. Cardinality(free) \in Nat
  BY FreedRanks
<1>9. \A n \in NewRows : row[n] \in Rows /\ row[n] # NoProc /\ ~ row[n].protected
                         /\ row[n].day = n.day /\ row[n].qty = n.qty
  <2>1. \A n \in NewRows : n.day \in Days /\ n.qty \in Nat \ {0} /\ n.move \in BOOLEAN
    BY DEF NewRows
  <2>2. \A n \in NewRows : row[n] \in Rows /\ row[n].qty # 0
    BY <2>1 DEF Rows
  <2>3. NoProc.qty = 0
    BY DEF NoProc
  <2> QED BY <2>2, <2>3
<1>10. \A k \in DOMAIN new :
         row[new[k]] = [day |-> new[k].day, qty |-> new[k].qty, move |-> new[k].move, protected |-> FALSE]
  BY <1>4
<1> HIDE DEF row, free, gone, new
<1>11. \A i \in Procs : i \notin free => proc'[i] = proc[i]
  BY <1>6
<1>12. ASSUME NEW i \in Procs, i \in free, Rank(free, i) <= Len(new)
       PROVE  Rank(free, i) \in DOMAIN new /\ proc'[i] = row[new[Rank(free, i)]]
  <2>1. Rank(free, i) \in DOMAIN new
    BY <1>4, <1>7, <1>8, <1>12
  <2> QED BY <1>6, <1>10, <1>12, <2>1
<1>13. \A i \in Procs : i \in free /\ ~ (Rank(free, i) <= Len(new)) => proc'[i] = NoProc
  BY <1>6
<1>14. proc' \in [Procs -> Rows \union {NoProc}]
  <2>1. \A i \in Procs : proc'[i] \in Rows \union {NoProc}
    BY <1>2, <1>4, <1>9, <1>11, <1>12, <1>13
  <2>2. proc' = [i \in Procs |-> proc'[i]]
    BY <1>6
  <2> QED BY <2>1, <2>2
<1>15. /\ pass' \in [Passes -> Passing]
       /\ \A q \in Passes : ~ pass'[q].current
       /\ \A q \in Passes : q # p /\ pass[q].running => pass'[q].running
  <2>1. \A q \in Passes : q # p => q \notin {p}
    OBVIOUS
  <2> QED BY <1>1, <1>6, <2>1, WroteTypes
<1>16. Inv'
  BY <1>2, <1>6, <1>14, <1>15, InvFrom
<1>17. ASSUME pass[p].current
       PROVE  \E last, w, o : /\ Done(Current, last, w, o)
                              /\ Rewritten(Current, Current', o.gone, o.new)
  <2>1. Follows(p)
    BY <1>1, <1>17
  <2>2. PICK run \in BOOLEAN : gone = Outcome(Current, run).gone /\ new = Planned(Outcome(Current, run).new, run)
    BY <2>1 DEF Follows, gone, new
  <2>3. PICK v \in Snapshots : v = Current
    BY <1>1, CurrentType
  <2>4. PICK last, w : Done(v, last, w, Outcome(v, run))
    BY PassOutcome
  <2>5. PICK o : o = Outcome(v, run)
    OBVIOUS
  <2>6. gone = o.gone /\ new = Planned(o.new, run) /\ o.new \in Seq(Created)
    BY <2>2, <2>3, <2>4, <2>5 DEF Done
  <2>7. /\ DOMAIN new = DOMAIN o.new /\ Len(o.new) = Len(new)
        /\ \A k \in DOMAIN new : new[k].day = o.new[k].day /\ new[k].qty = o.new[k].qty
    <3>1. DOMAIN new = DOMAIN o.new /\ \A k \in DOMAIN new : new[k].day = o.new[k].day /\ new[k].qty = o.new[k].qty
      BY <2>6 DEF Planned
    <3>2. DOMAIN o.new = 1 .. Len(o.new) /\ Len(o.new) \in Nat
      BY <2>6
    <3> QED BY <1>4, <3>1, <3>2
  <2>8. PICK after \in Snapshots : after = Current'
    <3>1. Current' \in Snapshots
      BY <1>2, <1>6, <1>14 DEF Current, Snapshots
    <3> QED BY <3>1
  <2>9. /\ after.stock = v.stock /\ after.outs = v.outs /\ v.proc = proc /\ after.proc = proc'
    BY <1>6, <2>3, <2>8 DEF Current
  <2>10. free = Freed(v, o.gone)
    BY <2>3, <2>6 DEF free
  <2>11. ASSUME NEW i \in free
         PROVE  IF Rank(free, i) <= Len(o.new)
                THEN /\ after.proc[i] # NoProc /\ ~ after.proc[i].protected
                     /\ after.proc[i].day = o.new[Rank(free, i)].day
                     /\ after.proc[i].qty = o.new[Rank(free, i)].qty
                ELSE after.proc[i] = NoProc
    <3>1. i \in Procs
      BY <1>5
    <3>2. CASE Rank(free, i) <= Len(new)
      <4>1. Rank(free, i) \in DOMAIN new /\ proc'[i] = row[new[Rank(free, i)]]
        BY <1>12, <3>1, <3>2
      <4>2. new[Rank(free, i)] \in NewRows
        BY <1>4, <4>1
      <4> QED BY <1>9, <2>7, <2>9, <3>2, <4>1, <4>2
    <3>3. CASE ~ (Rank(free, i) <= Len(new))
      BY <1>13, <2>7, <2>9, <3>1, <3>3
    <3> QED BY <3>2, <3>3
  <2>12. \A i \in Procs \ free : after.proc[i] = v.proc[i]
    BY <1>11, <2>9
  <2>13. Len(o.new) <= Cardinality(free)
    BY <1>6, <2>7
  <2>14. Rewritten(v, after, o.gone, o.new)
    BY <2>8, <2>9, <2>10, <2>11, <2>12, <2>13 DEF Rewritten
  <2> QED BY <2>3, <2>4, <2>5, <2>8, <2>14
<1> QED BY <1>15, <1>16, <1>17

\* No step breaks the invariant.
LEMMA StutterStep == ASSUME Inv, UNCHANGED vars PROVE Inv'
BY DEF Inv, vars, TypeOK, Follows, Current

LEMMA NextInv == ASSUME Inv, [Next]_vars PROVE Inv'
<1>1. ASSUME NEW p \in Passes, Process(p) \/ Rollback(p) \/ \E run \in BOOLEAN : Begin(p, run)
      PROVE  Inv'
  BY <1>1, ProcessStep, RollbackStep, BeginStep
<1>2. ASSUME NEW d \in Days, CancelNeeds(d) \/ Ship(d) \/ \E q \in NeedQtys : ConfirmNeed(d, q)
      PROVE  Inv'
  BY <1>2, MoveSteps
<1>3. ASSUME NEW i \in Procs, Receive(i) \/ RunProc(i) \/ Protect(i)
      PROVE  Inv'
  BY <1>3, ProcSteps
<1> QED BY <1>1, <1>2, <1>3, StutterStep DEF Next

\* Only its own commit ends a current pass.
LEMMA EndsByCommit ==
  ASSUME Inv, [Next]_vars, NEW p \in Passes, EndsCurrent(p)
  PROVE  Process(p)
<1>1. pass[p].current /\ ~ pass'[p].running
  BY DEF EndsCurrent
<1>2. pass[p].running
  BY <1>1 DEF Inv, Follows
<1>3. ~ UNCHANGED vars
  BY <1>1, <1>2 DEF vars
<1>4. ASSUME NEW q \in Passes, Process(q)
      PROVE  q = p
  BY <1>1, <1>2, <1>4, ProcessStep
<1>5. ASSUME NEW q \in Passes, Rollback(q)
      PROVE  FALSE
  <2>1. q # p
    BY <1>1, <1>5, RollbackStep
  <2> QED BY <1>1, <1>2, <1>5, <2>1, RollbackStep
<1>6. ASSUME NEW q \in Passes, NEW run \in BOOLEAN, Begin(q, run)
      PROVE  FALSE
  BY <1>1, <1>2, <1>6, BeginStep
<1>7. ASSUME NEW d \in Days, CancelNeeds(d) \/ Ship(d) \/ \E q \in NeedQtys : ConfirmNeed(d, q)
      PROVE  FALSE
  BY <1>1, <1>2, <1>7, MoveSteps
<1>8. ASSUME NEW i \in Procs, Receive(i) \/ RunProc(i) \/ Protect(i)
      PROVE  FALSE
  BY <1>1, <1>2, <1>8, ProcSteps
<1> QED BY <1>3, <1>4, <1>5, <1>6, <1>7, <1>8 DEF Next

-----------------------------------------------------------------------------
(* Theorems *)

\* A running pass that is current does what the loops of process, over the rows as they
\* are, come to; any write ends that.
THEOREM Invariant == Spec => []Inv
<1>1. Init => Inv
  BY InitInv
<1>2. Inv /\ [Next]_vars => Inv'
  BY NextInv
<1> QED BY <1>1, <1>2, PTL DEF Spec

\* Stock, needs, procurements and what passes plan are of their kinds, however passes
\* overlap with each other and with what users do.
THEOREM TypeCorrect == Spec => []TypeOK
<1>1. Inv => TypeOK
  BY DEF Inv
<1> QED BY <1>1, Invariant, PTL

\* The level of a day is the one of the rows.
LEMMA LevelIsNext == \A d : Level(d)' = LevelNow(Current', d)
BY DEF Level, LevelNow, Due, OutUpTo, Current

LEMMA WithinMaxNext ==
  WithinMax' <=>
    \A i \in Procs :
      proc'[i] # NoProc /\ ~ proc'[i].protected =>
        \/ LevelNow(Current', proc'[i].day) <= AllowedQty
        \/ \E j \in Procs : /\ proc'[j] # NoProc /\ proc'[j].day = proc'[i].day
                            /\ proc'[j].protected
BY DEF WithinMax, Level, LevelNow, Due, OutUpTo, Current

LEMMA CurrentFields ==
  /\ Current.stock = stock /\ Current.outs = outs /\ Current.proc = proc
  /\ Current'.stock = stock' /\ Current'.outs = outs' /\ Current'.proc = proc'
BY DEF Current

LEMMA CommitOutcome ==
  ASSUME Inv, [Next]_vars, NEW p \in Passes, EndsCurrent(p)
  PROVE  \E last, w, o : /\ Done(Current, last, w, o)
                         /\ Rewritten(Current, Current', o.gone, o.new)
<1>1. Process(p) /\ pass[p].current
  BY EndsByCommit DEF EndsCurrent
<1> QED BY <1>1, ProcessStep

\* StockWarehouseOrderPointJit.process: a pass that read the present rows leaves every
\* day on which something goes out with at least the minimum.
THEOREM CoversNeeds == Spec => PassCoversNeeds
<1>1. ASSUME Inv, [Next]_vars
      PROVE  \A p \in Passes : EndsCurrent(p) => Covered'
  <2> SUFFICES ASSUME NEW p \in Passes, EndsCurrent(p)
               PROVE  Covered'
    OBVIOUS
  <2>1. PICK last, w, o : /\ Done(Current, last, w, o)
                          /\ Rewritten(Current, Current', o.gone, o.new)
    BY <1>1, CommitOutcome
  <2>2. PICK v \in Snapshots : v = Current
    BY <1>1, CurrentType DEF Inv
  <2>3. PICK after : after = Current'
    OBVIOUS
  <2>4. ASSUME NEW d \in Days, outs'[d] > 0
        PROVE  Level(d)' >= MinQty
    <3>1. after.outs[d] > 0
      BY <2>2, <2>3, <2>4, CurrentFields
    <3>2. Done(v, last, w, o) /\ Rewritten(v, after, o.gone, o.new)
      BY <2>1, <2>2, <2>3
    <3>3. LevelNow(after, d) >= MinQty
      BY <3>1, <3>2, PassCovers
    <3> QED BY <2>2, <2>3, <3>3, LevelIsNext
  <2> QED BY <2>4 DEF Covered
<1>2. Inv /\ [Next]_vars => [\A p \in Passes : EndsCurrent(p) => Covered']_vars
  BY <1>1
<1> QED BY <1>2, Invariant, PTL DEF Spec, PassCoversNeeds

\* And with a multiple of one, it leaves no day that has a procurement above the maximum,
\* but for protected ones, and keeps those that something goes out with or after.
THEOREM TrimsSupply == ASSUME Multiple = 1 PROVE Spec => PassTrimsSupply
<1>1. ASSUME Inv, [Next]_vars
      PROVE  \A p \in Passes : EndsCurrent(p) => WithinMax' /\ \A i \in Kept : proc'[i] = proc[i]
  <2> SUFFICES ASSUME NEW p \in Passes, EndsCurrent(p)
               PROVE  WithinMax' /\ \A i \in Kept : proc'[i] = proc[i]
    OBVIOUS
  <2>1. PICK last, w, o : /\ Done(Current, last, w, o)
                          /\ Rewritten(Current, Current', o.gone, o.new)
    BY <1>1, CommitOutcome
  <2>2. PICK v \in Snapshots : v = Current
    BY <1>1, CurrentType DEF Inv
  <2>3. PICK after : after = Current'
    OBVIOUS
  <2>4. Done(v, last, w, o) /\ Rewritten(v, after, o.gone, o.new)
    BY <2>1, <2>2, <2>3
  <2>5. v.proc = proc /\ after.proc = proc' /\ v.outs = outs
    BY <2>2, <2>3, CurrentFields
  <2>6. ASSUME NEW i \in Procs, proc'[i] # NoProc, ~ proc'[i].protected
        PROVE  \/ LevelNow(Current', proc'[i].day) <= AllowedQty
               \/ \E j \in Procs : /\ proc'[j] # NoProc /\ proc'[j].day = proc'[i].day
                                   /\ proc'[j].protected
    <3>1. after.proc[i] # NoProc /\ ~ after.proc[i].protected
      BY <2>5, <2>6
    <3>2. \/ LevelNow(after, after.proc[i].day) <= AllowedQty
          \/ \E j \in Procs : /\ after.proc[j] # NoProc /\ after.proc[j].protected
                              /\ after.proc[j].day = after.proc[i].day
      BY <2>4, <3>1, PassTrims
    <3> QED BY <2>2, <2>3, <2>5, <3>2
  <2>7. WithinMax'
    BY <2>6, WithinMaxNext
  <2>8. ASSUME NEW i \in Kept
        PROVE  proc'[i] = proc[i]
    <3>1. PICK d \in proc[i].day .. Horizon : outs[d] > 0
      BY DEF Kept
    <3>2. i \in Procs /\ proc[i].protected
      BY DEF Kept
    <3>3. after.proc[i] = v.proc[i]
      <4>1. v.proc[i].protected /\ d \in v.proc[i].day .. Horizon /\ v.outs[d] > 0
        BY <2>5, <3>1, <3>2
      <4> QED BY <2>4, <3>2, <4>1, PassKeeps
    <3> QED BY <2>5, <3>3
  <2> QED BY <2>7, <2>8
<1>2. Inv /\ [Next]_vars =>
        [\A p \in Passes : EndsCurrent(p) => WithinMax' /\ \A i \in Kept : proc'[i] = proc[i]]_vars
  BY <1>1
<1> QED BY <1>2, Invariant, PTL DEF Spec, PassTrimsSupply
=============================================================================
