-------------------------- MODULE SchedulerController --------------------------
(***************************************************************************)
(* The just-in-time stock scheduler of stock_procurement_just_in_time: the *)
(* table stock_scheduler_controller, the jobs that fill it and the cron    *)
(* update_scheduler_controller that empties it, sequence by sequence.      *)
(*                                                                         *)
(* A run of the scheduler inserts one line per orderpoint and sequence of  *)
(* its location, and one run_procs line per sequence.  The cron hands the  *)
(* open lines of the lowest sequence to pop jobs, in chunks; a pop job     *)
(* starts one process job per line; a process job closes its line.         *)
(*                                                                         *)
(* A job is "live" from its creation to its end: JobQueue tells what       *)
(* happens in between.  A transaction is one action; it is cut where the   *)
(* code commits, that is after each chunk that the cron pops.              *)
(***************************************************************************)
EXTENDS Naturals, FiniteSets

CONSTANTS
  Orderpoints,    \* stock.warehouse.orderpoint
  Companies,      \* res.company
  CompanyOf,      \* the company of an orderpoint
  SeqsOf,         \* the scheduler sequences of an orderpoint's location
  RunProcs,       \* stands for the orderpoint in a run_procs line
  NoJob,          \* an empty job_uuid
  NoCompany,      \* company_id=False
  Kinds,          \* which jobs start runs: "orderpoint", "all"
  Filters,        \* the sets of orderpoints the wizards' filters select
  LinesAge,       \* do done lines live long enough to be purged by date?
  MaxRuns,        \* bound: scheduler runs
  MaxPops,        \* bound: pop jobs
  ChunkSize,      \* POP_PROCESS_CHUNK
  ManualRequeue,  \* do users requeue failed jobs?
  Screens,        \* do users process an orderpoint from its form?
  MaxDeletions    \* bound: queue_job rows deleted

Runs == 1 .. MaxRuns
Pops == 1 .. MaxPops
Seqs == UNION {SeqsOf[o] : o \in Orderpoints}

ASSUME SchedulerAssumption ==
  /\ CompanyOf \in [Orderpoints -> Companies]
  /\ \A o \in Orderpoints : SeqsOf[o] \subseteq Nat /\ SeqsOf[o] # {}
  /\ RunProcs \notin Orderpoints
  /\ NoCompany \notin Companies
  /\ {MaxRuns, MaxPops, MaxDeletions} \subseteq Nat
  /\ ChunkSize \in Nat \ {0}
  /\ NoJob \notin {"pop", "process"} \X Pops
  /\ Kinds \subseteq {"orderpoint", "all"}
  /\ Filters \subseteq SUBSET Orderpoints
  /\ {LinesAge, ManualRequeue, Screens} \subseteq BOOLEAN

\* The lines a run may insert.
Lines ==
  {l \in [run : Runs, op : Orderpoints \union {RunProcs}, seq : Seqs] :
     l.op # RunProcs => l.seq \in SeqsOf[l.op]}

OrderpointLine(l) == l.op # RunProcs

VARIABLES
  head,        \* run_procure_orderpoint_async / run_procure_all_async jobs
  kind,        \* which of the two, or "screen", started the run
  company,     \* the company of a run
  status,      \* "absent", "open" (done is false) or "done"
  dated,       \* lines whose date_done is set
  ljob,        \* job_uuid: NoJob, or the pop or process job it names
  pop,         \* pop_sub_process_orderpoints jobs
  chunk,       \* the lines of a pop job
  process,     \* process_orderpoints jobs, by the pop job and line of origin
  confirming,  \* run_or_check_procurements or confirm_moves jobs are live
  todo,        \* what a running update_scheduler_controller has yet to pop
  skipped,     \* lines invalidated before their start, for the properties
  deletions    \* queue_job rows deleted so far

tableVars == <<status, dated, ljob>>
jobVars == <<head, kind, company, pop, chunk, process, confirming>>
vars == <<tableVars, jobVars, todo, skipped, deletions>>

JobStates == {"none", "live", "done", "failed", "deleted"}
Callers == {"cron", "screen"}
JobNames == {"pop", "process"} \X Pops

TypeOK ==
  /\ head \in [Runs -> JobStates]
  /\ kind \in [Runs -> {"none", "orderpoint", "all", "screen"}]
  /\ company \in [Runs -> Companies \union {NoCompany}]
  /\ status \in [Lines -> {"absent", "open", "done"}]
  /\ dated \subseteq Lines
  /\ ljob \in [Lines -> JobNames \union {NoJob}]
  /\ pop \in [Pops -> JobStates]
  /\ chunk \in [Pops -> SUBSET Lines]
  /\ process \in [Pops \X Lines -> JobStates]
  /\ confirming \in BOOLEAN
  /\ todo \in [Callers -> SUBSET Lines]
  /\ skipped \subseteq Lines
  /\ deletions \in Nat

Init ==
  /\ head = [r \in Runs |-> "none"]
  /\ kind = [r \in Runs |-> "none"]
  /\ company = [r \in Runs |-> NoCompany]
  /\ status = [l \in Lines |-> "absent"]
  /\ dated = {}
  /\ ljob = [l \in Lines |-> NoJob]
  /\ pop = [p \in Pops |-> "none"]
  /\ chunk = [p \in Pops |-> {}]
  /\ process = [j \in Pops \X Lines |-> "none"]
  /\ confirming = FALSE
  /\ todo = [c \in Callers |-> {}]
  /\ skipped = {}
  /\ deletions = 0

-----------------------------------------------------------------------------
\* The state of the queue_job row a line's job_uuid names.
JobOf(l) ==
  IF ljob[l] = NoJob THEN "none"
  ELSE IF ljob[l][1] = "pop" THEN pop[ljob[l][2]] ELSE process[ljob[l][2], l]

\* Mutants of JobOver and JobLost: a job that runs is over, none is ever lost.
JobStartedOrOver(l) == JobOf(l) \in {"live", "done", "failed"}
NeverLost(l) == JobOf(l) = "none"

JobOver(l) == JobOf(l) \in {"done", "failed"}
JobLost(l) == JobOf(l) = "deleted"

\* is_any_stock_scheduler_blocking_process: process_orderpoints and
\* run_procure_all_async jobs are not on its list.
Blocked ==
  \/ \E p \in Pops : pop[p] = "live"
  \/ \E r \in Runs : head[r] = "live" /\ kind[r] = "orderpoint"

\* The next free run number; runs are numbered in the order of their creation.
NextRun(r) == kind[r] = "none" /\ \A q \in Runs : q < r => kind[q] # "none"

\* The lines insert_new_controller_lines inserts for run r on orderpoints ops.
LinesFor(r, ops) ==
  LET used == UNION {SeqsOf[o] : o \in ops} IN
  {l \in Lines :
     /\ l.run = r
     /\ \/ l.op \in ops
        \/ l.op = RunProcs /\ l.seq \in used}

\* The lines insert_new_controller_lines invalidates: those of the company, of
\* any run, that are open and that no job has.
Stale(r) ==
  {l \in Lines : status[l] = "open" /\ ljob[l] = NoJob /\ company[l.run] = company[r]}

\* Mutant of Purges: done lines are purged by their date alone.
PurgesByDate(st, dt) == SUBSET {l \in Lines : LinesAge /\ st[l] = "done" /\ l \in dt}

\* delete_old_controller_lines: done lines with no date, and those done for too
\* long (any subset: the age of a done line is not modelled).
Purges(st, dt) ==
  {{l \in Lines : st[l] = "done" /\ l \notin dt} \union old :
     old \in SUBSET {l \in Lines : LinesAge /\ st[l] = "done" /\ l \in dt}}

\* A run is asked for: procure_calculation delays one job per company.
Launch(r, c, k) ==
  /\ NextRun(r)
  /\ head' = [head EXCEPT ![r] = "live"]
  /\ kind' = [kind EXCEPT ![r] = k]
  /\ company' = [company EXCEPT ![r] = c]
  /\ UNCHANGED <<tableVars, pop, chunk, process, confirming, todo, skipped, deletions>>

\* _procure_orderpoint_confirm in the job of run r: procurements and moves are
\* handed to confirmation jobs, the unstarted lines of the company are marked
\* done, which is enough for the purge to delete them, the new ones inserted.
HeadRuns(r, filter) ==
  LET ops == {o \in filter : CompanyOf[o] = company[r]}
      closed == [l \in Lines |-> IF l \in Stale(r) THEN "done" ELSE status[l]]
  IN
  /\ head[r] = "live"
  /\ \E purge \in Purges(closed, dated) :
       /\ status' = [l \in Lines |-> IF l \in LinesFor(r, ops) THEN "open"
                                     ELSE IF l \in purge THEN "absent" ELSE closed[l]]
       /\ dated' = dated \ purge
       /\ ljob' = [l \in Lines |-> IF l \in purge THEN NoJob ELSE ljob[l]]
  /\ head' = [head EXCEPT ![r] = "done"]
  /\ confirming' \in {confirming, TRUE}
  /\ skipped' = skipped \union Stale(r)
  /\ UNCHANGED <<kind, company, pop, chunk, process, todo, deletions>>

-----------------------------------------------------------------------------
\* Mutant of PopChunk: the chunk is not taken off the list.
PopSameChunk(who, S, lj) ==
  \E p \in Pops, c \in SUBSET S :
    /\ pop[p] = "none" /\ \A q \in Pops : q < p => pop[q] # "none"
    /\ c # {}
    /\ Cardinality(c) = ChunkSize \/ (c = S /\ Cardinality(c) < ChunkSize)
    /\ pop' = [pop EXCEPT ![p] = "live"]
    /\ chunk' = [chunk EXCEPT ![p] = c]
    /\ ljob' = [l \in Lines |-> IF l \in c THEN <<"pop", p>> ELSE lj[l]]
    /\ todo' = [todo EXCEPT ![who] = S]

\* One chunk of the lines S is given to a new pop job and committed.
PopChunk(who, S, lj) ==
  \E p \in Pops, c \in SUBSET S :
    /\ pop[p] = "none" /\ \A q \in Pops : q < p => pop[q] # "none"
    /\ c # {}
    /\ Cardinality(c) = ChunkSize \/ (c = S /\ Cardinality(c) < ChunkSize)
    /\ pop' = [pop EXCEPT ![p] = "live"]
    /\ chunk' = [chunk EXCEPT ![p] = c]
    /\ ljob' = [l \in Lines |-> IF l \in c THEN <<"pop", p>> ELSE lj[l]]
    /\ todo' = [todo EXCEPT ![who] = S \ c]

\* Mutant of Lowest: every open line counts.
AnySequence(open) == open

\* MIN(stock_scheduler_sequence) over the open lines, of all runs.
Lowest(open) == {l \in open : \A k \in open : l.seq <= k.seq}

\* update_scheduler_controller, up to its first commit, in a transaction that
\* sees the table st, lj, dt.
Update(who, st, lj, dt) ==
  LET lowest == Lowest({l \in Lines : st[l] = "open"})
      unstarted == {l \in lowest : OrderpointLine(l) /\ lj[l] = NoJob}
      waiting == {l \in lowest : OrderpointLine(l) /\ lj[l] # NoJob}
      finished == {l \in waiting : JobOver(l)}
      lost == {l \in waiting : JobLost(l)}
      runLines == IF lost = {} THEN {l \in lowest : ~OrderpointLine(l)} ELSE {}
  IN
  /\ todo[who] = {}
  /\ \/ /\ Blocked \/ confirming
        /\ status' = st /\ ljob' = lj /\ dated' = dt
        /\ UNCHANGED <<pop, chunk, todo, confirming>>
     \/ /\ ~Blocked /\ ~confirming
        /\ unstarted # {}
        /\ PopChunk(who, unstarted, lj)
        /\ status' = st /\ dated' = dt
        /\ UNCHANGED confirming
     \/ /\ ~Blocked /\ ~confirming
        /\ unstarted = {}
        /\ status' = [l \in Lines |-> IF l \in finished \union runLines THEN "done" ELSE st[l]]
        /\ ljob' = [l \in Lines |-> IF l \in lost THEN NoJob ELSE lj[l]]
        /\ dated' = dt \union runLines
        /\ confirming' \in (IF runLines = {} THEN {FALSE} ELSE BOOLEAN)
        /\ UNCHANGED <<pop, chunk, todo>>

\* The cron, each minute.
UpdateSchedulerController ==
  /\ Update("cron", status, ljob, dated)
  /\ UNCHANGED <<head, kind, company, process, skipped, deletions>>

\* The loop goes on after a commit, on a list read before it.  Writing on a
\* line that was deleted since raises, and undoes the chunk.
PopNextChunk(who) ==
  /\ todo[who] # {}
  /\ \/ PopChunk(who, todo[who], ljob) /\ \A l \in todo[who] \ todo'[who] : status[l] # "absent"
     \/ /\ \E l \in todo[who] : status[l] = "absent"
        /\ todo' = [todo EXCEPT ![who] = {}]
        /\ UNCHANGED <<pop, chunk, ljob>>
  /\ UNCHANGED <<head, kind, company, status, dated, process, confirming, skipped, deletions>>

\* The process that pops dies between two commits.
StopPopping(who) ==
  /\ todo[who] # {}
  /\ todo' = [todo EXCEPT ![who] = {}]
  /\ UNCHANGED <<tableVars, jobVars, skipped, deletions>>

\* process_from_screen: a run for one orderpoint, filed under the company c of
\* the user; company_id is False, so that nothing is invalidated, and the update runs in the same transaction.
ProcessFromScreen(r, o, c) ==
  /\ Screens
  /\ NextRun(r)
  /\ kind' = [kind EXCEPT ![r] = "screen"]
  /\ company' = [company EXCEPT ![r] = c]
  /\ \E purge \in Purges(status, dated) :
       Update("screen",
              [l \in Lines |-> IF l \in LinesFor(r, {o}) THEN "open"
                               ELSE IF l \in purge THEN "absent" ELSE status[l]],
              [l \in Lines |-> IF l \in purge THEN NoJob ELSE ljob[l]],
              dated \ purge)
  /\ UNCHANGED <<head, process, skipped, deletions>>

-----------------------------------------------------------------------------
\* pop_job_orderpoint_process on the lines of the chunk that still exist: each
\* gets a process job, whose uuid replaces that of the pop job.
PopRuns(p) ==
  LET found == {l \in chunk[p] : status[l] # "absent"} IN
  /\ pop[p] = "live"
  /\ pop' = [pop EXCEPT ![p] = "done"]
  /\ process' = [j \in Pops \X Lines |->
                   IF j[1] = p /\ j[2] \in found THEN "live" ELSE process[j]]
  /\ ljob' = [l \in Lines |-> IF l \in found THEN <<"process", p>> ELSE ljob[l]]
  /\ UNCHANGED <<head, kind, company, status, dated, chunk, confirming, todo, skipped, deletions>>

\* Mutant of ProcessRuns: the date is filed under the job.
ProcessDatesItsJob(p, l) ==
  /\ process[p, l] = "live"
  /\ process' = [process EXCEPT ![<<p, l>>] = "done"]
  /\ status' = [status EXCEPT ![l] = "done"]
  /\ dated' = dated \union {<<p, l>>}
  /\ UNCHANGED <<ljob, head, kind, company, pop, chunk, confirming, todo, skipped, deletions>>

\* process_orderpoints: the orderpoint is processed and the open line that
\* bears the job's uuid closed, in one transaction.
ProcessRuns(p, l) ==
  /\ process[p, l] = "live"
  /\ process' = [process EXCEPT ![<<p, l>>] = "done"]
  /\ IF ljob[l] = <<"process", p>> /\ status[l] = "open"
       THEN /\ status' = [status EXCEPT ![l] = "done"]
            /\ dated' = dated \union {l}
       ELSE UNCHANGED <<status, dated>>
  /\ UNCHANGED <<ljob, head, kind, company, pop, chunk, confirming, todo, skipped, deletions>>

\* A job fails for good, a failed job is requeued, a row is deleted.
JobMoves(from, to) ==
  /\ \/ /\ \E r \in Runs : head[r] = from /\ head' = [head EXCEPT ![r] = to]
        /\ UNCHANGED <<pop, process>>
     \/ /\ \E p \in Pops : pop[p] = from /\ pop' = [pop EXCEPT ![p] = to]
        /\ UNCHANGED <<head, process>>
     \/ /\ \E j \in Pops \X Lines : process[j] = from /\ process' = [process EXCEPT ![j] = to]
        /\ UNCHANGED <<head, pop>>
  /\ UNCHANGED <<tableVars, kind, company, chunk, confirming, todo, skipped>>

\* Mutant of JobFails: the line of a failed process job is dated.
JobFailsDated ==
  /\ \E p \in Pops, l \in Lines :
       /\ process[p, l] = "live"
       /\ process' = [process EXCEPT ![<<p, l>>] = "failed"]
       /\ dated' = dated \union {l}
  /\ UNCHANGED <<status, ljob, head, kind, company, pop, chunk, confirming, todo, skipped, deletions>>

JobFails == JobMoves("live", "failed") /\ UNCHANGED deletions

\* Mutant of RequeueJob: jobs that are done are requeued.
RequeueDoneJob == ManualRequeue /\ JobMoves("done", "live") /\ UNCHANGED deletions

RequeueJob == ManualRequeue /\ JobMoves("failed", "live") /\ UNCHANGED deletions

DeleteJob ==
  /\ deletions < MaxDeletions
  /\ deletions' = deletions + 1
  /\ \E from \in {"live", "done", "failed"} : JobMoves(from, "deleted")

\* The last confirmation job ends.
ConfirmationsEnd ==
  /\ confirming
  /\ confirming' = FALSE
  /\ UNCHANGED <<tableVars, head, kind, company, pop, chunk, process, todo, skipped, deletions>>

\* clean_scheduler_controller_lines: lines dated more than ten days ago.
CleanLines ==
  /\ LinesAge
  /\ \E old \in SUBSET {l \in dated : status[l] = "done"} \ {{}} :
       /\ status' = [l \in Lines |-> IF l \in old THEN "absent" ELSE status[l]]
       /\ dated' = dated \ old
       /\ ljob' = [l \in Lines |-> IF l \in old THEN NoJob ELSE ljob[l]]
  /\ UNCHANGED <<jobVars, todo, skipped, deletions>>

\* Mutant of PurchaseGate: only the lines that no job has count.
GateOfUnstarted == \A l \in Lines : status[l] = "open" => ljob[l] # NoJob

\* launch_purchase_schedule refuses to start while the query finds a line that
\* is not done and has no job, or a job that is not over.  A line whose job was
\* deleted finds no row to join, and is not found.
PurchaseGate ==
  \A l \in Lines : status[l] = "open" => ljob[l] # NoJob /\ (JobOver(l) \/ JobLost(l))

-----------------------------------------------------------------------------
RunStep(r) ==
  \/ \E c \in Companies, k \in Kinds : Launch(r, c, k)
  \/ \E filter \in Filters : HeadRuns(r, filter)
  \/ \E o \in Orderpoints, c \in Companies : ProcessFromScreen(r, o, c)

Next ==
  \/ \E r \in Runs : RunStep(r)
  \/ UpdateSchedulerController
  \/ \E who \in Callers : PopNextChunk(who) \/ StopPopping(who)
  \/ \E p \in Pops : PopRuns(p)
  \/ \E p \in Pops, l \in Lines : ProcessRuns(p, l)
  \/ JobFails \/ RequeueJob \/ DeleteJob
  \/ ConfirmationsEnd
  \/ CleanLines

Spec == Init /\ [][Next]_vars

\* The crons run for ever and every job ends, done or failed; nothing forces a
\* user, a requeue, a deletion or a purge.
HeadEnds(r) ==
  \/ \E filter \in Filters : HeadRuns(r, filter)
  \/ head[r] = "live" /\ JobFails /\ head'[r] = "failed"

PopEnds(p) == PopRuns(p) \/ (pop[p] = "live" /\ JobFails /\ pop'[p] = "failed")

ProcessEnds(p, l) ==
  ProcessRuns(p, l) \/ (process[p, l] = "live" /\ JobFails /\ process'[p, l] = "failed")

Fairness ==
  /\ WF_vars(UpdateSchedulerController)
  /\ \A who \in Callers : WF_vars(PopNextChunk(who))
  /\ \A r \in Runs : WF_vars(HeadEnds(r))
  /\ \A p \in Pops : WF_vars(PopEnds(p))
  /\ \A p \in Pops, l \in Lines : WF_vars(ProcessEnds(p, l))
  /\ WF_vars(ConfirmationsEnd)

FairSpec == Spec /\ Fairness

-----------------------------------------------------------------------------
(* Properties *)

\* Within a run, no line is handed to a job while a line of a lower sequence is
\* open, the run_procs line of that sequence included: locations are replenished
\* in the order of their sequences (update_scheduler_controller), whatever
\* the chunk commits let in between.
SequenceBarrier ==
  \A k \in {m \in Lines : status[m] = "open"}, l \in {m \in Lines : ljob[m] # NoJob} :
    k.run = l.run => k.seq >= l.seq

\* Within a run, orderpoints of two sequences are never processed at the same
\* time, as long as nobody requeues a failed job.
LiveLines == {j[2] : j \in {i \in Pops \X Lines : process[i] = "live"}}

SequencesDoNotOverlap ==
  \A k, l \in LiveLines : k.run = l.run => k.seq = l.seq

\* A line has one live process job at most.
OneJobPerLine ==
  \A i, j \in {k \in Pops \X Lines : process[k] = "live"} : i[2] = j[2] => i = j

\* An orderpoint line with a date_done was really processed: a failed or
\* deleted job never makes it look so.
DatedMeansProcessed ==
  \A l \in dated : OrderpointLine(l) => \E p \in Pops : process[p, l] \in {"done", "deleted"}

\* A line invalidated by a later run is never processed, even when a cron had
\* read it before and pops it afterwards.
InvalidatedNeverProcessed ==
  \A l \in skipped, p \in Pops : process[p, l] # "live"

\* "Impossible to launch purchase scheduler when stock scheduler is running":
\* when the gate of the purchase scheduler opens, no orderpoint is processed, nor
\* in the chunk of a pop job that has yet to run, as long as nobody requeues a
\* failed job.  The gate does not look at head jobs, which have no line yet, nor
\* at the lines that the cron will hand again as their job was deleted.
GateMeansIdle ==
  PurchaseGate =>
    \A p \in Pops, l \in Lines : process[p, l] # "live" /\ ~(pop[p] = "live" /\ l \in chunk[p])

\* A line never stays open for ever: it is processed, closed because its job
\* failed, or invalidated.
LinesSettle == \A l \in Lines : status[l] = "open" ~> status[l] # "open"

-----------------------------------------------------------------------------
(* The abstract schedule *)

PhaseOf(l) ==
  IF status[l] = "absent" THEN "absent"
  ELSE IF status[l] = "done" THEN "finished"
  ELSE IF ljob[l] = NoJob THEN "waiting" ELSE "working"

Schedule == INSTANCE LineSchedule
              WITH JobLess <- {l \in Lines : ~OrderpointLine(l)},
                   phase <- [l \in Lines |-> PhaseOf(l)]

\* Jobs, chunks committed one by one, screens, purges and lost jobs only ever
\* move the lines as LineSchedule allows: this is what the table
\* stock_scheduler_controller is for.
ImplementsLineSchedule == Schedule!Spec
=============================================================================
