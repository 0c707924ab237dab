--------------------------- MODULE PurchaseScheduler ---------------------------
(***************************************************************************)
(* The purchase scheduler of purchase_procurement_just_in_time, for one    *)
(* supplier, company, location and product.                                *)
(*                                                                         *)
(* A launch reads the open procurements and puts their ids in a job.  That *)
(* job deletes the draft orders of the supplier and puts the same ids in a *)
(* second job, which spreads them over the lines still to receive, first   *)
(* need first, splits the procurement that a line takes only a part of,    *)
(* and orders the rest on a draft order.  Moving procurements to lines and *)
(* filling the draft order may again be jobs of their own.  The ids and    *)
(* the plan travel in the arguments of the jobs, while needs are raised    *)
(* and cancelled, the buyer edits and confirms orders, goods arrive, and   *)
(* other launches run.  Every job is one transaction.                      *)
(***************************************************************************)
EXTENDS Integers, Sequences, FiniteSets, FiniteSetsExt, Functions

CONSTANTS
  Needs,         \* a sequence of needs that may be raised: [date, qty]
  MinQty,        \* supplierinfo.min_qty
  Packaging,     \* supplierinfo.packaging_qty
  Separate,      \* the kinds of jobs that the "in separate jobs" parameters may ask for
  NProcs,        \* bound: procurements, those made by splits included
  MaxLaunches,   \* bound: launches of the scheduler
  MaxReceipts,   \* bound: receptions
  MaxChanges     \* bound: what users do to needs and orders

Procs == 1 .. NProcs
Launches == 1 .. MaxLaunches   \* a launch makes at most one order and one line:
NoLine == 0                    \* both carry its number

ASSUME PurchaseAssumption ==
  /\ Needs \in Seq([date : Nat, qty : Nat \ {0}])
  /\ Packaging \in Nat \ {0}
  /\ {MinQty, NProcs, MaxLaunches, MaxReceipts, MaxChanges} \subseteq Nat
  /\ Separate \subseteq {"redistribute", "fill"}

VARIABLES
  proc,       \* procurement.order
  order,      \* the state of the purchase.order of a launch
  line,       \* the purchase.order.line of a launch, on an order of any launch
  jobs,       \* queue jobs that are not over
  launches,   \* launches so far
  settled,    \* nothing but the jobs of the last launch happened since it
  receipts,   \* receptions so far
  changes     \* changes so far

vars == <<proc, order, line, jobs, launches, settled, receipts, changes>>

NoProc == [state |-> "none", qty |-> 0, need |-> 0, line |-> NoLine, forced |-> FALSE]
Unused == [order |-> 0, qty |-> 0, received |-> 0, date |-> 0]

ProcStates == {"none", "buy_to_run", "running", "cancel", "done"}
OrderStates == {"none", "draft", "approved", "done", "cancel", "deleted"}

SomeProc == [state : ProcStates, qty : Int, need : 0 .. Len(Needs),
             line : Launches \union {NoLine}, forced : BOOLEAN]
SomePlan == [Launches -> SUBSET Procs]

TypeOK ==
  /\ proc \in [Procs -> SomeProc]
  /\ order \in [Launches -> OrderStates]
  /\ line \in [Launches -> [order : Launches \union {0}, qty : Nat,
                            received : Nat, date : Nat]]
  /\ \A l \in Launches : line[l].received <= line[l].qty
  /\ \A j \in jobs :
       /\ j.launch \in 1 .. launches
       /\ j.kind \in {"seller", "procs", "fill"} => j.ids \subseteq Procs
       /\ j.kind = "fill" => j.order \in Launches
       /\ j.kind = "redistribute" => j.plan \in SomePlan /\ j.lines \subseteq Launches
  /\ launches \in 0 .. MaxLaunches
  /\ settled \in BOOLEAN
  /\ receipts \in 0 .. MaxReceipts
  /\ changes \in 0 .. MaxChanges

Init ==
  /\ proc = [p \in Procs |-> NoProc]
  /\ order = [o \in Launches |-> "none"]
  /\ line = [l \in Launches |-> Unused]
  /\ jobs = {}
  /\ launches = 0
  /\ settled = FALSE
  /\ receipts = 0
  /\ changes = 0

-----------------------------------------------------------------------------
(* Procurements and lines, in a table t of procurements. *)

DateOf(t, p) == Needs[t[p].need].date
Open(t, p) == t[p].state \in {"buy_to_run", "running"}
Closed(t, p) == t[p].state \in {"cancel", "done"}
On(t, l) == {p \in Procs : t[p].state # "none" /\ t[p].line = l}
Fresh(t) == Min({p \in Procs : t[p].state = "none"})
Room == \E p \in Procs : proc[p].state = "none"
Total(t, S) == SumFunctionOnSet([p \in Procs |-> t[p].qty], S)

StateOf(l) == IF l = NoLine \/ line[l] = Unused THEN "none" ELSE order[line[l].order]
LinesOf(o) == {l \in Launches : line[l] # Unused /\ line[l].order = o}
Remaining(l) == line[l].qty - line[l].received

\* The first and the last member of a set in a strict total order.
First(S, Before(_, _)) == CHOOSE x \in S : \A y \in S \ {x} : Before(x, y)
LastIn(S, Before(_, _)) == CHOOSE x \in S : \A y \in S \ {x} : Before(y, x)

\* Mutant of ProcBefore: in the order of creation.
ProcCreatedBefore(t, p, q) == p < q

\* order_by='date_planned, product_qty', equal ones by id
ProcBefore(t, p, q) ==
  \/ DateOf(t, p) < DateOf(t, q)
  \/ DateOf(t, p) = DateOf(t, q) /\ t[p].qty < t[q].qty
  \/ DateOf(t, p) = DateOf(t, q) /\ t[p].qty = t[q].qty /\ p < q

\* The running orders' lines, then those of draft orders; the earliest first,
\* and the one with most to come.
LineBefore(l, m) ==
  \/ StateOf(l) # "draft" /\ StateOf(m) = "draft"
  \/ /\ StateOf(l) = "draft" <=> StateOf(m) = "draft"
     /\ \/ line[l].date < line[m].date
        \/ line[l].date = line[m].date /\ Remaining(l) > Remaining(m)
        \/ line[l].date = line[m].date /\ Remaining(l) = Remaining(m) /\ l < m

LinesToFill == {l \in Launches : StateOf(l) \in {"draft", "approved"} /\ Remaining(l) > 0}

-----------------------------------------------------------------------------
(* procurement.order: split, remove_procs_from_lines, add_proc_to_line. *)

\* Mutant of Split: the quantity split off stays on the old procurement.
SplitCopies(t, p, qty, state) ==
  [t EXCEPT ![Fresh(t)] = [t[p] EXCEPT !.qty = qty, !.state = state]]

Split(t, p, qty, state) ==
  [t EXCEPT ![Fresh(t)] = [t[p] EXCEPT !.qty = qty, !.state = state],
            ![p].qty = @ - qty]

\* Mutant of RemoveProcsFromLines: the state is not reset.
RemoveLinesOnly(t, S) ==
  [p \in Procs |-> IF p \in S THEN [t[p] EXCEPT !.line = NoLine] ELSE t[p]]

RemoveProcsFromLines(t, S) ==
  [p \in Procs |->
     IF p \in S
     THEN [t[p] EXCEPT !.line = NoLine,
                       !.state = IF @ = "running" THEN "buy_to_run" ELSE @]
     ELSE t[p]]

AddProcsToLine(t, S, l) ==
  [p \in Procs |->
     IF p \in S THEN [t[p] EXCEPT !.line = l, !.state = "running"] ELSE t[p]]

-----------------------------------------------------------------------------
(* compute_which_procs_for_lines *)

\* What the loop over the lines has done: the procurements, those still waiting
\* for a line (in the order they were read in), the lines seen and their plan.
Progress == [proc : [Procs -> SomeProc], waiting : SUBSET Procs,
             lines : SUBSET Launches, plan : SomePlan]

\* compute_procs_for_first_line_found: the line keeps what is done or cancelled
\* on it and takes the first ones waiting while they fit; of the procurement that
\* does not fit, the part that fits is split off for it.
FirstLineFound ==
  [l \in Launches |-> [found \in Progress |->
     LET t == found.proc
         Before(p, q) == ProcBefore(proc, p, q)
         upTo(p) == {q \in found.waiting : q = p \/ Before(q, p)}
         fit == {p \in found.waiting :
                   \A q \in upTo(p) : Total(t, upTo(q)) <= Remaining(l)}
         large == First(found.waiting \ fit, Before)
         rest == Remaining(l) - Total(t, fit)
         splits == fit # found.waiting /\ rest > 0
         kept == {p \in On(t, l) : Closed(t, p)} \union fit
                   \union IF splits THEN {Fresh(t)} ELSE {}
     IN IF found.waiting = {} THEN found
        ELSE [proc |-> IF splits THEN Split(t, large, rest, t[large].state) ELSE t,
              waiting |-> found.waiting \ kept,
              lines |-> found.lines \union {l},
              plan |-> [found.plan EXCEPT ![l] = kept]]]]

ProcsForLines(ids) ==
  LET found[lines \in SUBSET LinesToFill] ==
        IF lines = {}
        THEN [proc |-> proc, waiting |-> ids, lines |-> {},
              plan |-> [l \in Launches |-> {}]]
        ELSE LET l == LastIn(lines, LineBefore)
             IN FirstLineFound[l][found[lines \ {l}]]
  IN found[LinesToFill]

\* redistribute_procurements_in_lines, for the lines that still exist.  One that
\* several lines are to get ends on the last.
Redistributed(t, plan, lines) ==
  [p \in Procs |->
     LET to == {l \in lines : StateOf(l) # "none" /\ p \in plan[l]}
     IN IF to \subseteq {t[p].line} THEN t[p]
        ELSE [t[p] EXCEPT !.line = Max(to), !.state = "running"]]

\* Mutant of LineQty: a full packaging is rounded up too.
LineQtyNextPack(need) ==
  IF need <= 0 THEN 0 ELSE (Max({need, MinQty}) \div Packaging + 1) * Packaging

\* _calc_new_qty_price: at least the minimum of the supplier, in full packagings.
LineQty(need) ==
  IF need <= 0 THEN 0
  ELSE LET qty == Max({need, MinQty}) IN ((qty + Packaging - 1) \div Packaging) * Packaging

\* create_draft_lines: a line on order o, for the procurements ids.
NewLine(t, o, ids) ==
  [order |-> o, qty |-> LineQty(Total(t, ids)), received |-> 0,
   date |-> Min({DateOf(t, p) : p \in ids})]

-----------------------------------------------------------------------------
(* The jobs of a launch. *)

Bounds == <<receipts, changes>>

\* Mutant of Candidates: what is already ordered is left alone.
CandidatesToRun == {p \in Procs : proc[p].state = "buy_to_run"}
Candidates == {p \in Procs : Open(proc, p)}

\* launch_purchase_schedule; without procurements the job only deletes the
\* draft orders (job_sanitize_draft_orders).
Launch ==
  /\ launches < MaxLaunches
  /\ launches' = launches + 1
  /\ jobs' = jobs \union {[kind |-> "seller", launch |-> launches', ids |-> Candidates]}
  /\ settled' = (jobs = {})
  /\ UNCHANGED <<proc, order, line, Bounds>>

\* launch_purchase_schedule_seller: sanitize_draft_orders, then the job for the
\* procurements that were open when the scheduler was launched, whatever they
\* have become (ignore_past_procurements unset, the supplier scheduled).
LaunchSeller(j) ==
  LET drafts == {o \in Launches : order[o] = "draft"}
      lines == UNION {LinesOf(o) : o \in drafts}
  IN /\ j \in jobs /\ j.kind = "seller"
     /\ proc' = RemoveProcsFromLines(proc, UNION {On(proc, l) : l \in lines})
     /\ order' = [o \in Launches |-> IF o \in drafts THEN "deleted" ELSE order[o]]
     /\ line' = [l \in Launches |-> IF l \in lines THEN Unused ELSE line[l]]
     /\ jobs' = (jobs \ {j}) \union
                  {[kind |-> "procs", launch |-> j.launch, ids |-> ids] : ids \in {j.ids} \ {{}}}
     /\ UNCHANGED <<launches, settled, Bounds>>

\* get_corresponding_draft_order: a draft order of the supplier, or a new one.
DraftOrders(n) ==
  LET drafts == {o \in Launches : order[o] = "draft"}
  IN IF drafts = {} THEN {n} ELSE drafts

\* group_procurements_by_orders, without a grouping period: what no line takes
\* goes to one order, in one line.
NotAssigned(found) == found.waiting

\* prepare_procurements_redistribution: what is on a planned line and not planned.
ToLeave(found) == UNION {On(found.proc, l) \ found.plan[l] : l \in found.lines}

\* launch_procurement_redistribution, in separate jobs: one for each order.
RedistributionJobs(j, found) ==
  {[kind |-> "redistribute", launch |-> j.launch, plan |-> found.plan,
    lines |-> found.lines \intersect LinesOf(o)] : o \in {line[l].order : l \in found.lines}}

\* launch_draft_lines_creation, in a separate job.
FillJob(j, o, ids) == [kind |-> "fill", launch |-> j.launch, order |-> o, ids |-> ids]

\* purchase_schedule_procurements
PurchaseSchedule(j, separate) ==
  /\ j \in jobs /\ j.kind = "procs"
  /\ Cardinality(LinesToFill) <= Cardinality({p \in Procs : proc[p].state = "none"})
  /\ \E found \in {ProcsForLines(j.ids)} :
       LET rest == NotAssigned(found)
           moves == RedistributionJobs(j, found)
           apart == "redistribute" \in separate /\ Cardinality(moves) > 1
           left == RemoveProcsFromLines(found.proc, ToLeave(found))
           moved == IF apart THEN left ELSE Redistributed(left, found.plan, found.lines)
           others == (jobs \ {j}) \union IF apart THEN moves ELSE {}
       IN \/ /\ rest = {}
             /\ proc' = moved
             /\ jobs' = others
             /\ UNCHANGED <<order, line>>
          \/ \E o \in DraftOrders(j.launch) :
               /\ rest # {}
               /\ order' = [order EXCEPT ![o] = "draft"]
               /\ IF "fill" \in separate
                  THEN /\ proc' = moved
                       /\ jobs' = others \union {FillJob(j, o, rest)}
                       /\ UNCHANGED line
                  ELSE /\ proc' = AddProcsToLine(moved, rest, j.launch)
                       /\ line' = [line EXCEPT ![j.launch] = NewLine(moved, o, rest)]
                       /\ jobs' = others
  /\ UNCHANGED <<launches, settled, Bounds>>

\* job_redistribute_procurements_in_lines
Redistribute(j) ==
  /\ j \in jobs /\ j.kind = "redistribute"
  /\ proc' = Redistributed(proc, j.plan, j.lines)
  /\ jobs' = jobs \ {j}
  /\ UNCHANGED <<order, line, launches, settled, Bounds>>

\* job_create_draft_lines
CreateDraftLines(j) ==
  /\ j \in jobs /\ j.kind = "fill" /\ order[j.order] # "deleted"
  /\ line' = [line EXCEPT ![j.launch] = NewLine(proc, j.order, j.ids)]
  /\ proc' = AddProcsToLine(proc, j.ids, j.launch)
  /\ jobs' = jobs \ {j}
  /\ UNCHANGED <<order, launches, settled, Bounds>>

\* The order was deleted by another launch: the line cannot refer to it, and the
\* job fails.
CreateDraftLinesFails(j) ==
  /\ j \in jobs /\ j.kind = "fill" /\ order[j.order] = "deleted"
  /\ jobs' = jobs \ {j}
  /\ UNCHANGED <<proc, order, line, launches, settled, Bounds>>

-----------------------------------------------------------------------------
(* Needs, buyers and receptions. *)

Disturbs == settled' = FALSE /\ UNCHANGED <<jobs, launches>>

Changed == changes < MaxChanges /\ changes' = changes + 1 /\ UNCHANGED receipts

\* A procurement is created, and run: buy_to_run.
RaiseNeed(d) ==
  /\ Room
  /\ \A p \in Procs : proc[p].need # d
  /\ proc' = [proc EXCEPT ![Fresh(proc)] =
                [NoProc EXCEPT !.state = "buy_to_run", !.qty = Needs[d].qty, !.need = d]]
  /\ Disturbs
  /\ UNCHANGED <<order, line, Bounds>>

\* procurement.order.cancel; propagate_cancel leaves the order alone.
CancelNeed(p) ==
  /\ Changed
  /\ Open(proc, p)
  /\ proc' = [proc EXCEPT ![p].state = "cancel"]
  /\ Disturbs
  /\ UNCHANGED <<order, line>>

\* Mutant of SetLineQty: any quantity is accepted.
SetAnyLineQty(l, qty) ==
  /\ Changed
  /\ StateOf(l) \in {"draft", "approved"}
  /\ qty # line[l].qty
  /\ line' = [line EXCEPT ![l].qty = qty]
  /\ Disturbs
  /\ UNCHANGED <<proc, order>>

\* purchase.order.line.write; a quantity under the received one is refused.
SetLineQty(l, qty) ==
  /\ Changed
  /\ StateOf(l) \in {"draft", "approved"}
  /\ qty >= line[l].received /\ qty # line[l].qty
  /\ line' = [line EXCEPT ![l].qty = qty]
  /\ Disturbs
  /\ UNCHANGED <<proc, order>>

\* The buyer confirms a draft order.
Approve(o) ==
  /\ order[o] = "draft"
  /\ LinesOf(o) # {}
  /\ order' = [order EXCEPT ![o] = "approved"]
  /\ Disturbs
  /\ UNCHANGED <<proc, line, Bounds>>

\* purchase.order.action_cancel, of an order nothing was received for.
CancelOrder(o) ==
  /\ Changed
  /\ order[o] \in {"draft", "approved"}
  /\ \A l \in LinesOf(o) : line[l].received = 0
  /\ order' = [order EXCEPT ![o] = "cancel"]
  /\ proc' = RemoveProcsFromLines(proc,
       UNION {{p \in On(proc, l) : proc[p].state = "running"} : l \in LinesOf(o)})
  /\ Disturbs
  /\ UNCHANGED line

\* stock.move.action_done: the quantity received goes through the procurements
\* of the line, those of an earlier reception included; each is forced to done,
\* the first that is larger than what is left of it after a split.
ReceivedProcs(t, l, qty) ==
  LET Before(p, q) == \/ DateOf(t, p) < DateOf(t, q)
                      \/ DateOf(t, p) = DateOf(t, q) /\ p < q
      left(p) == qty - Total(t, {q \in On(t, l) : Before(q, p)})
      larger == {p \in On(t, l) : left(p) # 0 /\ t[p].qty > left(p)}
      last == First(larger, Before)
      reached == {p \in On(t, l) : larger = {} \/ p = last \/ Before(p, last)}
      table == IF larger = {} THEN t
               ELSE Split(t, last, t[last].qty - left(last), "running")
  IN [p \in Procs |->
        IF p \in reached THEN [table[p] EXCEPT !.forced = TRUE, !.state = "done"]
        ELSE table[p]]

Receive(l, qty) ==
  /\ receipts < MaxReceipts
  /\ Room
  /\ StateOf(l) = "approved"
  /\ qty \in 1 .. Remaining(l)
  /\ receipts' = receipts + 1
  /\ line' = [line EXCEPT ![l].received = @ + qty]
  /\ proc' = ReceivedProcs(proc, l, qty)
  /\ order' = [order EXCEPT ![line[l].order] =
       IF \A m \in LinesOf(line[l].order) : line'[m].qty = line'[m].received
       THEN "done" ELSE @]
  /\ Disturbs
  /\ UNCHANGED changes

\* _check, by the stock scheduler's check of running procurements.
Check(p) ==
  /\ proc[p].state = "running"
  /\ proc[p].forced \/ StateOf(proc[p].line) = "done"
  /\ proc' = [proc EXCEPT ![p].state = "done"]
  /\ Disturbs
  /\ UNCHANGED <<order, line, Bounds>>

-----------------------------------------------------------------------------

LineQtys == 0 .. SumFunction([d \in DOMAIN Needs |-> Needs[d].qty])

Next ==
  \/ Launch
  \/ \E j \in jobs : \/ LaunchSeller(j)
                     \/ \E separate \in SUBSET Separate : PurchaseSchedule(j, separate)
                     \/ Redistribute(j)
                     \/ CreateDraftLines(j)
                     \/ CreateDraftLinesFails(j)
  \/ \E d \in DOMAIN Needs : RaiseNeed(d)
  \/ \E p \in Procs : CancelNeed(p) \/ Check(p)
  \/ \E l \in Launches, qty \in LineQtys : SetLineQty(l, qty) \/ Receive(l, qty)
  \/ \E o \in Launches : Approve(o) \/ CancelOrder(o)

Spec == Init /\ [][Next]_vars

-----------------------------------------------------------------------------
(* Properties. *)

Settled == settled /\ jobs = {}
OpenOn(l) == {p \in On(proc, l) : Open(proc, p)}
ToReceive == {l \in Launches : StateOf(l) = "approved"}
DraftLines == {l \in Launches : StateOf(l) = "draft"}

\* A procurement is running exactly when it is open and on a line: no deletion,
\* cancellation or late job leaves a running one without a line, which no
\* reception could close.
RunningOnLine ==
  \A p \in Procs : /\ proc[p].state = "running" => StateOf(proc[p].line) # "none"
                   /\ proc[p].state = "buy_to_run" => proc[p].line = NoLine

\* However a need was split, over lines and by receptions, its parts add up to it.
QuantityConserved ==
  \A d \in DOMAIN Needs :
    LET parts == {p \in Procs : proc[p].need = d}
    IN parts # {} => Total(proc, parts) = Needs[d].qty

\* When nothing disturbed a launch, every open need is on a line of an order
\* that is alive, whatever state earlier launches, the buyer and receptions left.
EveryNeedOrdered ==
  Settled => \A p \in Procs : Open(proc, p) => StateOf(proc[p].line) \in {"draft", "approved"}

\* ... no line to receive is planned for more than it will bring, and a draft
\* order orders what its needs ask for and at most the minimum or a packaging more.
NothingOrderedTwice ==
  Settled =>
    /\ \A l \in ToReceive : Total(proc, OpenOn(l)) <= Remaining(l)
    /\ \A l \in DraftLines :
         LET need == Total(proc, OpenOn(l))
         IN need <= line[l].qty /\ line[l].qty < Max({need, MinQty}) + Packaging

\* ... nothing is ordered anew while a line to receive has quantity to spare, and
\* those lines serve the earliest needs.
OrderedOnlyWhenShort ==
  Settled =>
    \A d \in DraftLines, p \in Procs : p \in OpenOn(d) =>
      \A l \in ToReceive :
        /\ Total(proc, OpenOn(l)) = Remaining(l)
        /\ \A q \in OpenOn(l) : DateOf(proc, q) <= DateOf(proc, p)
=============================================================================
