------------------------------ MODULE Orderpoint ------------------------------
(***************************************************************************)
(* One minimum stock rule of stock_procurement_just_in_time, and the       *)
(* passes of StockWarehouseOrderPointJit.process over it.                  *)
(*                                                                         *)
(* A pass is one transaction: it reads the stock, the moves and the        *)
(* procurements of its product and location, walks the expected level day  *)
(* by day, cancels the procurements of a day when the level is over the    *)
(* maximum, creates one when it is under the minimum, and in the end drops *)
(* what is planned after the last scheduled move.                          *)
(*                                                                         *)
(* Two process jobs may treat the same rule at once.  Each works on the    *)
(* snapshot of its transaction (REPEATABLE READ): it does not see what was *)
(* committed since, except that cancelling a row changed in the meantime   *)
(* is refused, which rolls the pass back.                                  *)
(***************************************************************************)
EXTENDS Loops

CONSTANTS
  Passes,       \* process_orderpoints jobs that may treat the rule at once
  Horizon,      \* bound: number of days
  MinQty,       \* product_min_qty
  MaxQty,       \* product_max_qty_operator, fill_strategy 'max'
  Multiple,     \* qty_multiple
  NeedQtys,     \* quantities of outgoing moves
  FirstStock,   \* the quantities on hand at first
  NProcs,       \* bound: procurements at a time
  MaxChanges    \* bound: what users, customers and suppliers do

Days == 1 .. Horizon
Procs == 1 .. NProcs

ASSUME OrderpointAssumption ==
  /\ Horizon \in Nat \ {0}
  /\ {MinQty, MaxQty, NProcs, MaxChanges} \subseteq Nat
  /\ MinQty <= MaxQty
  /\ Multiple \in Nat \ {0}
  /\ NeedQtys \subseteq Nat \ {0}
  /\ FirstStock \subseteq Nat

VARIABLES
  stock,    \* the quants of the location
  outs,     \* the quantity of the confirmed outgoing moves of a day
  proc,     \* live procurements, or NoProc
  pass,     \* Idle, or what a running pass does, as its snapshot decides
  changes   \* changes so far

vars == <<stock, outs, proc, pass, changes>>

Rows == [day : Days, qty : Nat \ {0}, move : BOOLEAN, protected : BOOLEAN]
NewRows == [day : Days, qty : Nat \ {0}, move : BOOLEAN]
NoProc == [day |-> 0, qty |-> 0, move |-> FALSE, protected |-> FALSE]
Idle == [running |-> FALSE, gone |-> {}, new |-> <<>>, conflict |-> FALSE, current |-> FALSE]
Current == [stock |-> stock, outs |-> outs, proc |-> proc]

TypeOK ==
  /\ stock \in Nat
  /\ outs \in [Days -> Nat]
  /\ proc \in [Procs -> Rows \union {NoProc}]
  /\ \A p \in Passes :
       /\ pass[p].gone \subseteq Procs
       /\ pass[p].new \in Seq(NewRows)
       /\ {pass[p].running, pass[p].conflict, pass[p].current} \subseteq BOOLEAN
  /\ changes \in 0 .. MaxChanges

Init ==
  /\ stock \in FirstStock
  /\ outs = [d \in Days |-> 0]
  /\ proc = [p \in Procs |-> NoProc]
  /\ pass = [p \in Passes |-> Idle]
  /\ changes = 0

-----------------------------------------------------------------------------
(* The walk of a pass over its snapshot v.                                 *)

Supply(v, d) == {p \in Procs : v.proc[p] # NoProc /\ v.proc[p].day = d}
SumOf(v, ps) == SumFunctionOnSet([p \in Procs |-> v.proc[p].qty], ps)
RoundUp(q) == IF q % Multiple = 0 THEN q ELSE (q \div Multiple + 1) * Multiple
Greatest(S) == CHOOSE x \in S : \A y \in S : y <= x
Least(S) == CHOOSE x \in S : \A y \in S : x <= y

BusyDays(v) == {d \in Days : v.outs[d] > 0 \/ Supply(v, d) # {}}

\* The day of the existing stock: the first with a move or a procurement.  With
\* none, the event has no date and a need gets the date of today, day 1.
FirstDay(v) == IF BusyDays(v) = {} THEN 1 ELSE Least(BusyDays(v))

\* The events of a day among those of compute_stock_levels_requirements, which
\* get_list_events sorts by day.
EventsAt(v, d) ==
  LET at(t, p) == [day |-> d, type |-> t, proc |-> p]
      one(t, happens) == IF happens THEN <<at(t, 0)>> ELSE <<>>
      of(t, ps) == LET ids == ById(ps) IN [k \in DOMAIN ids |-> at(t, ids[k])]
  IN one("existing", d = FirstDay(v))
       \o of("in", {p \in Supply(v, d) : v.proc[p].move})
       \o one("out", v.outs[d] > 0)
       \o of("planned", {p \in Supply(v, d) : ~v.proc[p].move})

AllowedQty == RoundUp(MaxQty)
\* Mutant of OverMax: a level that is right at the maximum is over it.
AtMax(level) == level >= AllowedQty
OverMax(level) == level > AllowedQty
UnderMin(level) == level < MinQty

\* The level of the day an event opens; the events that follow it on the same
\* day find it computed.
ProcessEventsAtDate(v, acc, e) ==
  IF e.day = acc.day THEN acc.level
  ELSE acc.level + SumOf(v, Supply(v, e.day)) - v.outs[e.day]
         + (IF e.day = FirstDay(v) THEN v.stock ELSE 0)

\* Mutant of CreateFromNeed: dated the day after.
CreateTheDayAfter(acc, e) ==
  LET qty == RoundUp(MaxQty - acc.level)
  IN [acc EXCEPT !.level = @ + qty, !.new = Append(@, [day |-> e.day + 1, qty |-> qty])]
CreateFromNeed(acc, e) ==
  LET qty == RoundUp(MaxQty - acc.level)
  IN [acc EXCEPT !.level = @ + qty, !.new = Append(@, [day |-> e.day, qty |-> qty])]

\* cancel_procs_just_in_time on the procurements of the day of e: a protected
\* one refuses, and its quantity stays in the level.
CancelOversupply(v, acc, e) ==
  LET refused == {p \in Supply(v, e.day) : v.proc[p].protected}
      gone == Supply(v, e.day) \ (refused \union acc.cancelled)
  IN [acc EXCEPT !.level = @ - SumOf(v, gone), !.cancelled = @ \union gone]

\* What a pass has done before an event: the day it has reached, the level
\* there, the procurements it cancelled and those it created.
Progress ==
  [day : Nat, level : Int, cancelled : SUBSET Procs, new : Seq([day : Nat, qty : Nat])]
Events == [day : Days, type : {"existing", "in", "out", "planned"}, proc : Nat]

\* Mutants of ProcessEvent: a need that cancelling uncovers is left for later;
\* only procurements that have a move are too many.
CancelThenLeave(v) == [e \in Events |-> [acc \in Progress |->
  LET at == [acc EXCEPT !.level = ProcessEventsAtDate(v, acc, e), !.day = e.day]
  IN IF OverMax(at.level) /\ e.proc # 0 THEN CancelOversupply(v, at, e)
     ELSE IF UnderMin(at.level) THEN CreateFromNeed(at, e) ELSE at]]
CancelMovesOnly(v) == [e \in Events |-> [acc \in Progress |->
  LET at == [acc EXCEPT !.level = ProcessEventsAtDate(v, acc, e), !.day = e.day]
      less == CancelOversupply(v, at, e)
  IN IF OverMax(at.level) /\ e.type = "in"
     THEN IF UnderMin(less.level) /\ v.outs[e.day] > 0 THEN CreateFromNeed(less, e) ELSE less
     ELSE IF UnderMin(at.level) THEN CreateFromNeed(at, e) ELSE at]]

\* The body of the loop of process.
ProcessEvent(v) == [e \in Events |-> [acc \in Progress |->
  LET at == [acc EXCEPT !.level = ProcessEventsAtDate(v, acc, e), !.day = e.day]
      less == CancelOversupply(v, at, e)
  IN IF OverMax(at.level) /\ e.proc # 0
     THEN IF UnderMin(less.level) /\ v.outs[e.day] > 0 THEN CreateFromNeed(less, e) ELSE less
     ELSE IF UnderMin(at.level) THEN CreateFromNeed(at, e) ELSE at]]

\* The loop of process, day by day.
Walk(v) ==
  Through([d \in Days |-> [acc \in Progress |-> Through(ProcessEvent(v), EventsAt(v, d), acc)]],
          [d \in Days |-> d],
          [day |-> 0, level |-> 0, cancelled |-> {}, new |-> <<>>])

\* get_last_scheduled_date, after the walk: of the outgoing moves, of the
\* incoming ones (the new procurements have theirs when they were run with
\* success) and of the existing stock.
LastScheduledDate(v, w, run) ==
  LET kept == {p \in Procs : v.proc[p] # NoProc} \ w.cancelled
      new == {w.new[i].day : i \in DOMAIN w.new}
      out == {d \in Days : v.outs[d] > 0}
      in == {v.proc[p].day : p \in {x \in kept : v.proc[x].move}} \union (IF run THEN new ELSE {})
      all == out \union new \union {v.proc[p].day : p \in kept}
  IN IF all = {} THEN Horizon ELSE Greatest(out \union in \union {Least(all)})

\* Of the new procurements, those up to the last scheduled day.
UpTo(last) ==
  [n \in [day : Nat, qty : Nat] |-> [row \in Seq([day : Nat, qty : Nat]) |->
     IF n.day <= last THEN Append(row, n) ELSE row]]

\* What a pass does: the procurements it deletes and those it creates.  The last
\* step, remove_unecessary_procurements, takes what is planned after the last
\* scheduled day; it gives no is_scheduler to cancel, which then ignores protection.
Outcome(v, run) ==
  LET w == Walk(v)
      last == LastScheduledDate(v, w, run)
      late == {p \in Procs : v.proc[p] # NoProc /\ v.proc[p].day > last}
  IN [gone |-> w.cancelled \union late,
      new |-> Through(UpTo(last), w.new, <<>>)]

-----------------------------------------------------------------------------
(* The actions.                                                            *)

\* The rows are written: running passes are no longer current, and those that
\* mean to cancel one of them will fail.
Wrote(rows, ps) ==
  [p \in Passes |->
     IF ~pass[p].running \/ p \in ps THEN Idle
     ELSE [pass[p] EXCEPT !.current = FALSE,
                          !.conflict = @ \/ pass[p].gone \intersect rows # {}]]

\* A process_orderpoints job starts: its first statement takes the snapshot that
\* the whole pass works on.  The procurements it creates are run at once, with
\* success (they get their incoming move) when run.
Begin(p, run) ==
  /\ ~pass[p].running
  /\ LET o == Outcome(Current, run)
         row(n) == [day |-> n.day, qty |-> n.qty, move |-> run]
     IN pass' = [pass EXCEPT ![p] =
          [running |-> TRUE, gone |-> o.gone, new |-> [k \in DOMAIN o.new |-> row(o.new[k])],
           conflict |-> FALSE, current |-> TRUE]]
  /\ UNCHANGED <<stock, outs, proc, changes>>

\* The pass commits.  What it creates takes the free numbers, in order.
Process(p) ==
  LET o == pass[p]
      free == {i \in Procs : i \in o.gone \/ proc[i] = NoProc}
      rank(i) == Cardinality({j \in free : j <= i})
      row(n) == [day |-> n.day, qty |-> n.qty, move |-> n.move, protected |-> FALSE]
  IN /\ o.running /\ ~o.conflict
     /\ Len(o.new) <= Cardinality(free)
     /\ proc' = [i \in Procs |->
          IF i \notin free THEN proc[i]
          ELSE IF rank(i) <= Len(o.new) THEN row(o.new[rank(i)]) ELSE NoProc]
     /\ pass' = Wrote(o.gone, {p})
     /\ UNCHANGED <<stock, outs, changes>>

\* A row the pass cancels was changed since its snapshot: serialization failure.
\* The job is postponed, that is, begins again.
Rollback(p) ==
  /\ pass[p].conflict
  /\ pass' = [pass EXCEPT ![p] = Idle]
  /\ UNCHANGED <<stock, outs, proc, changes>>

Change(rows) ==
  /\ changes < MaxChanges
  /\ changes' = changes + 1
  /\ pass' = Wrote(rows, {})

\* An outgoing move is confirmed, cancelled or done.
ConfirmNeed(d, q) ==
  /\ Change({})
  /\ outs' = [outs EXCEPT ![d] = @ + q]
  /\ UNCHANGED <<stock, proc>>

CancelNeeds(d) ==
  /\ Change({})
  /\ outs[d] > 0
  /\ outs' = [outs EXCEPT ![d] = 0]
  /\ UNCHANGED <<stock, proc>>

Ship(d) ==
  /\ Change({})
  /\ outs[d] > 0 /\ outs[d] <= stock
  /\ stock' = stock - outs[d]
  /\ outs' = [outs EXCEPT ![d] = 0]
  /\ UNCHANGED proc

\* The incoming move of a procurement is done, and so is the procurement.
Receive(i) ==
  /\ Change({i})
  /\ proc[i].move
  /\ stock' = stock + proc[i].qty
  /\ proc' = [proc EXCEPT ![i] = NoProc]
  /\ UNCHANGED outs

\* A procurement that was left without a move gets one, on its day.
RunProc(i) ==
  /\ Change({i})
  /\ proc[i] # NoProc /\ ~proc[i].move
  /\ proc' = [proc EXCEPT ![i].move = TRUE]
  /\ UNCHANGED <<stock, outs>>

\* A user ticks "Protected Against Scheduler".
Protect(i) ==
  /\ Change({i})
  /\ proc[i] # NoProc /\ ~proc[i].protected
  /\ proc' = [proc EXCEPT ![i].protected = TRUE]
  /\ UNCHANGED <<stock, outs>>

Next ==
  \/ \E p \in Passes : Process(p) \/ Rollback(p) \/ \E run \in BOOLEAN : Begin(p, run)
  \/ \E d \in Days : CancelNeeds(d) \/ Ship(d) \/ \E q \in NeedQtys : ConfirmNeed(d, q)
  \/ \E i \in Procs : Receive(i) \/ RunProc(i) \/ Protect(i)

Spec == Init /\ [][Next]_vars

\* The scheduler treats its rules again and again, and a pass ends.
FairSpec ==
  /\ Spec
  /\ \A p \in Passes : []<>pass[p].running /\ WF_vars(Process(p) \/ Rollback(p))

-----------------------------------------------------------------------------
(* Properties.                                                             *)

\* The level expected at the end of a day, straight from the rows.
Level(d) ==
  stock + SumOf(Current, {i \in Procs : proc[i] # NoProc /\ proc[i].day <= d})
    - SumFunctionOnSet(outs, 1 .. d)

Covered == \A d \in Days : outs[d] > 0 => Level(d) >= MinQty

\* No day has a procurement that its level does without, unless it is protected.
WithinMax ==
  \A i \in Procs :
    proc[i] # NoProc /\ ~proc[i].protected =>
      \/ Level(proc[i].day) <= AllowedQty
      \/ \E j \in Procs : proc[j] # NoProc /\ proc[j].day = proc[i].day /\ proc[j].protected

EndsCurrent(p) == pass[p].current /\ ~pass'[p].running

\* A pass that read the present rows leaves every day on which something goes
\* out with at least the minimum, whatever it cancelled and dropped on the way.
PassCoversNeeds == [][\A p \in Passes : EndsCurrent(p) => Covered']_vars

\* The protected procurements that something goes out with or after
Kept == {i \in Procs : proc[i].protected /\ \E d \in proc[i].day .. Horizon : outs[d] > 0}

\* And it leaves no day that has a procurement above the maximum, but for
\* protected ones, which it keeps.  (What is planned after the last move goes,
\* "Protected Against Scheduler" or not: the last step does not look at it.)
PassTrimsSupply ==
  [][\A p \in Passes :
       EndsCurrent(p) => WithinMax' /\ \A i \in Kept : proc'[i] = proc[i]]_vars

\* Passes that overlap, double or undo each other's work come to rest once
\* nothing else changes: the procurements then stay as they are, and the needs
\* are covered.
PassesSettle == <>[][proc' = proc]_vars /\ <>[]Covered
=============================================================================
