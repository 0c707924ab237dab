# A verification project for the NDP Odoo addons

The repository holds about 190 addons for Odoo 9. Most extend a form, a report or a widget. The
ones verified here move the stock: a scheduler that computes what every location needs, spread
over thousands of background jobs, crons and screens that share a few tables; the purchase
scheduler that follows it; the preparation of transfers; the bus that copies records between
bases. This directory models that part in TLA+, checks small instances with TLC, and proves
theorems for all instances with TLAPS.

## 1. Inventory

### Components, state and operations

| component | addons | state | operations |
|---|---|---|---|
| job queue | connector_improved, connector_fix_retry, connector_auto_requeue | `queue_job`: state, retry, dates | `_try_perform_job_custom`, `requeue`, `button_requeue`, `set_to_done`, two crons, `_register_hook` |
| stock scheduler controller | stock_procurement_just_in_time | `stock_scheduler_controller`: sequence, job_uuid, done, date_done | `_procure_orderpoint_confirm`, `update_scheduler_controller` (each minute), pop and process jobs, `process_from_screen`, `clean_scheduler_controller_lines` |
| asynchronous procurements and moves | scheduler_async | claims on procurements and moves | `run_confirm_procurements`, `run_check_procurements`, `run_confirm_moves`, `restart_proc_in_exception` and the jobs they create |
| orderpoint algorithm | stock_procurement_just_in_time | quants, procurements and moves of one product and location | `process`, `create_from_need`, `cancel_procs_just_in_time`, `remove_unecessary_procurements` |
| purchase scheduler | purchase_procurement_just_in_time | draft orders, their lines and the procurements on them | `launch_purchase_schedule`, one job per supplier, one per company and location, redistribution, receptions |
| pack operations and their links | stock_performance_improved, sale_expedition_by_order_line | pack operations, `stock_move_operation_link` | `do_prepare_partial`, `recompute_remaining_qty` |
| bus synchronisation | bus_integration | exports, messages, transfers, the copies | `sync_all`, `sync_diff`, `job_generate_message`, `receive_message`, `process_received_message`, dependency demands, returns |
| the rest | see `components` in PROJECT.json | calendars, pictures, files, documents | single transactions of one user, pure computations, I/O |

### How they interact

- Everything asynchronous is a row of `queue_job`. The connector (an OCA addon outside this
  repository) posts `/runjob` for a pending job; a worker process loads it, commits *started*,
  performs it and commits its effects with *done*.
- A scheduler run is a *head job*. It hands procurements and moves to confirmation jobs
  (scheduler_async), invalidates the lines of its company that no job has, and inserts its own.
- The cron `update_scheduler_controller` reads the state of these jobs in `queue_job`, gives the
  lines of the lowest sequence to *pop jobs* in chunks, one commit each; a pop job creates one
  *process job* per line; a process job runs the orderpoint algorithm and closes its line.
- The orderpoint algorithm creates and cancels procurements, which the confirmation jobs run. Those
  that buy stay *buy_to_run* for the purchase scheduler, which refuses to start while the
  controller has open lines.
- What is bought is received on pickings, what is sold leaves on others: their operations are
  linked to moves before each transfer, and a reception closes procurements again.
- Transactions are REPEATABLE READ; row locks are taken with NOWAIT; a refused lock or a row
  changed since the snapshot raises, and undoes the transaction.
- The bus uses the same queue: each step of a message is a job of one of three bases, and calls the
  next base before its own commit.

### What is hard, and what makes each part correct

- *Job queue*: crashes between two commits, requeues of jobs that are only slow, a store that
  fails after the work is done. Correct: effects are committed once, *done* is true and final,
  every job ends.
- *Controller*: commits inside a loop on a list read before it, lost and failed jobs, two
  callers, purges. Correct: sequences in order, a line in one job at a time, no line forgotten,
  invalidated lines never processed.
- *Asynchronous procurements*: overlapping claims, refused locks that end as success, moves
  confirmed or cancelled between the launch of a job and the job. Correct: one live job per
  procurement, moves confirmed once, every confirmed procurement run and every draft move confirmed.
- *Orderpoint algorithm*: the level of stock never below the minimum at a date with needs, nor
  above the maximum because of the scheduler itself, and overlapping passes come to rest.
- *Purchase scheduler*: ids and plans that travel in the arguments of jobs. Correct: every need is
  ordered, once, earliest first, and splits lose nothing.
- *Pack operations*: three tables (operations, moves, quants) matched greedily in two rounds.
  Correct: nothing is linked twice, and the two results on which the transfer decides are true.
- *Bus*: messages out of order, repeated, replayed. Correct: an old message never overwrites a
  newer one, dependencies come first, everything exported arrives.

PROJECT.json lists the hazards, each at its line, with the properties aimed at it.

## 2. Modules

| module | role |
|---|---|
| JobQueue | the life of a job: rows, requests, workers, crons, time |
| JobQueueProofs | its invariant and five theorems |
| LineSchedule | abstract: what the controller promises about the lines of a run |
| SchedulerController | the controller table with its jobs, crons and screens; implements LineSchedule |
| SchedulerControllerProofs | its invariant, the barrier, the refinement and what it gives; what holds when the cron is the only one to pop |
| AsyncProcurements | claims and locks of procurements and moves |
| AsyncProcurementsProofs | its claims keep jobs apart and moves confirmed once |
| Orderpoint | passes of the orderpoint algorithm over one rule |
| OrderpointProofs | its invariant, and what a pass on current rows achieves: three theorems |
| PurchaseScheduler | launches of the purchase scheduler, buyers and receptions |
| PurchaseSchedulerProofs | its invariant and three theorems; what the fold over the lines computes, and what an undisturbed launch achieves: three more |
| Loops | loops over rows in an order, as TransferLinks, Orderpoint and the proofs use them |
| FoldLemmas | folds and sums over finite sets; loops, orders, ranks and sums along sequences |
| TransferLinks | pack operations and their links to moves |
| TransferLinksProofs | its invariant and three theorems; what holds of the operations as prepared: one more |
| BusSync | exports, messages and imports between two bases |
| BusSyncProofs | its invariant and four theorems |
| MC* | the instances that TLC checks |

In SchedulerController a job is only "live", "done", "failed" or "deleted"; JobQueue says what
"live" hides, and its `EveryJobSettles` and `CommitsAtMostOnce` are what the controller's fairness
and its one-step process jobs take for granted.

### JobQueue

`state`, `retry` and `age` are the row; `reqs` the requests on their way; `pc`, `wjob`, `wretry`,
`wage` the worker; `fresh` tells whether the snapshot of the worker's second transaction is still
current. The actions `Load`, `SetStarted`, `Perform`, `Commit`, `StoreConflict` are the steps of
`_try_perform_job_custom`, cut at its commits; `Postpone` and `Fail` are the connector's handlers.
`EnqueueOutdatedJobs` and `EnqueueOldEnqueuedJobs` are the crons, `Boot` the registry hook.

Three constants switch perils that the code does not master: `AutoRequeue` (the addon is
installed), `PromptHTTP` (a request is served or lost within five minutes), `CarefulUsers` (users
leave alone the jobs that a request or worker holds).

### SchedulerController

`status`, `dated` and `ljob` are the columns done, date_done and job_uuid of each line a run may
insert; a line is named by its run, its orderpoint (or `RunProcs`) and its sequence. `head`, `pop`,
`process` are the jobs, `confirming` stands for all confirmation jobs. `todo` is what a running
`update_scheduler_controller` has read and not yet popped: it outlives commits, so that anything
may happen between two chunks. One transaction is one action. The snapshot a transaction reads is
taken as current: two transactions that overlap before their first commit are not modelled, except
through `todo`.

The invalidation writes a text in job_uuid; as the same transaction deletes every line that is
done without date, that value is never seen and the model skips it. `PurchaseGate` is the query by
which `launch_purchase_schedule`, of the other addon, decides whether it may start. Ages are abstracted: a purge
takes any subset of the dated lines when `LinesAge`.

### AsyncProcurements

A job is cut in three: snapshot (`Start`), locks (`Lock`, `LockItsMoves`), the rest with its
commit. `stale` holds the jobs whose rows were written after their snapshot, and `drifted` the
draft moves, written since, that a job on their procurement has read. `ProcOf` gives a move its
procurement; moves that are "none" are made when their procurement is run. `Unclaimed` is the LEFT JOIN on queue_job of the launchers;
`Own` the query that a job makes on claims. A job that is over and claims no row frees its number.

A job that runs or checks procurements ends with `ConfirmItsMoves`: a plain call of `confirm_moves`
on their draft moves, which commits, or is postponed as other jobs claim them all, or rolls the
runs and checks back when its locks are refused. `cancel()`, with which the cancel and the reconfirm
jobs start, looks at no claim. It writes the open moves first (`LockItsMoves`), then the procurement
(`ActOnProc`), waits where others ask NOWAIT, and goes back to the queue when a row changed
since (`ActAgain`). Moves that are done, or that belong to a purchase, stay. `misconfirmed` only
remembers, for the properties, what `confirm_moves` confirmed in another state than draft.

### Orderpoint

`stock`, `outs` and `proc` are the rows of one product and location: quants, outgoing moves by day,
procurements with or without their incoming move. A pass is `Begin`, which takes the snapshot and
computes everything (`Outcome`: `Walk`, which goes through the days and through the events of each,
then `remove_unecessary_procurements`), and `Process`, which commits it; between the two anything else
may be written. A pass that would cancel a row changed since is rolled back by PostgreSQL
(`Rollback`) and its job starts again. `ProcessEvent` is the body of the loop of `process`, with
its quirks: the level of a day is computed at its first event; only an event that has a procurement
can be over the maximum; the last step ignores protection.

### PurchaseScheduler

One supplier, company, location and product. `Launch`, `LaunchSeller`, `PurchaseSchedule`,
`Redistribute`, `CreateDraftLines` are the five jobs, and carry their ids and plan in `jobs`;
the argument `separate` of `PurchaseSchedule` holds
those of the two parameters "in separate jobs" that are set, each on its own. `ProcsForLines` is
`compute_which_procs_for_lines`: a fold over the lines in their order, each taking the head of the
queue and splitting the first procurement that does not fit. `RaiseNeed`, `CancelNeed`,
`SetLineQty`, `Approve`, `CancelOrder`, `Receive` and `Check` are what happens beside.

### TransferLinks

`moves`, `quants` and `reservation` are given; `Prepare` is `do_prepare_partial`, whose
dictionaries come out in any order; users change operations (`ChangeQty`, `AddProductOp`,
`AddPackageOp`); then `recompute_remaining_qty` runs, one action for each turn of its loops:
`ProcessOperation` links through reserved quants, `ProcessRest` what is left through any move.
`left` is the table prod2move_ids; `need_rereserve` and `all_op_processed` the results. The sale
addon's overrides (a table reduced to moves with a line, operations first by line, quantities taken
off the groups) are in the same definitions, as they are when the addon is installed and no move
has a line they change nothing. As in Orderpoint, a loop of the code is `Through(step, items, start)`,
where the step is a function of the item and of the state, and `Sorted` is the order in which a query or
a sort gives rows; both are in Loops.

### BusSync

The sender's records have a version (`src`), the time of their last write (`date`), and that of a
write whose transaction is still open (`open`). `SyncAll` and `SyncDiff` select ids, cut in jobs;
`GenerateMessage` writes a message. `net` is a bag: messages arrive in any order and, `MaxAgain`
times, twice, as each base calls the next before its own commit. The receiver stores a message
(`ReceiveMessage`), and a job (`JobReceiveMessage`) imports it or demands its dependencies; the
answer, once imported, replays its parent (`call`, `JobParent`). `rows` is `bus.message`, by cross
id. A record is imported in a savepoint: it may fail alone, at most `MaxErrors` times.

## 3. Runs

| run | instance | what it shows |
|---|---|---|
| jq_requeues | 2 jobs, 2 workers, one crash or lost request | types; one commit per job; crons spare live runs; done is final; every job ends |
| jq_perils | 1 job, 2 workers, 2 retries, all perils on | done always means committed, even when jobs run twice |
| sched_screens | 2 runs, 2 orderpoints, 2 sequences, screens, requeues by hand | the order of sequences, dates, invalidation and refinement survive |
| sched_live | 1 run, purges, one deleted job, fair | sequences do not overlap, one live job per line, every open line is settled, the purchase scheduler's gate opens when nothing is processed |
| async_claims | 1 procurement, 2 moves, 3 jobs of 6 kinds, 2 retries | claims keep jobs apart; no confirmed move is confirmed again by a job |
| async_live | 2 procurements, 2 moves, 6 jobs, fair | everything confirmed is run, every draft move confirmed |
| async_restart | 1 procurement, 2 jobs | *violation*: the restart job gives up on procurements it does not own |
| orderpoint | 2 passes, 2 days, 4 procurements, 3 changes, fair | a pass on current rows covers needs, trims supply, keeps what is protected; overlapping passes come to rest |
| bus_sync | an order, its line, product, partner and bank account, fair | versions never go back, dependencies first, returns true, everything arrives |
| bus_missed | an order, 2 versions, 2 exports | *violation*: sync_diff misses a write committed after it |
| purchase | 2 needs, 3 launches, 2 receptions | quantities conserved; each need ordered once, only when lines are short |
| transfer | 2 moves, 3 or 4 quants, a box on a pallet, one edit | links fit, the two results are true, prepared operations are what is reserved |

### Bounds

- jq: the crons' races need one job and two workers, one holding it and one that takes it again;
  the second job of jq_requeues lets one cron requeue several. `RunLimit` 2 is above
  `QueueLimit` 1 as in production; `Day` 4 or 6 lets `.seconds` wrap just after the limit.
  `MaxCommits` is one or two above what the properties allow, so that a second commit can be seen.
- sched: two sequences and an orderpoint that has both are the least that can be out of order;
  chunks of one make a pop of two lines commit in between; `MaxPops` 5 covers the lines of a run. In
  sched_screens the first sequence has two lines of one company: the cron commits with the second
  still in its list, and the head job of the second run, which may come between, invalidates and
  deletes it. The second company has no orderpoint, but users whose runs no other run invalidates. No
  queue row is deleted in this run: with that and screens, a line may lose one of two jobs, be
  invalidated, and be processed by the other.
- async: overlap needs two jobs on a procurement, three to have an old claim, an owner and a
  stranger; two moves of one procurement let a job own one of its rows only. In async_claims the
  moves are interchangeable (SYMMETRY), and `MCView` (VIEW) leaves out the rows of jobs that are
  over, which nothing reads but for their being over.
- orderpoint: two days let a day's cancellation uncover the next; two passes overlap; four
  procurements are what two passes can create on two days, so that a pass is never stuck for want
  of a row. `Multiple` is 1: with 3 for a maximum of 4 the rule oscillates (section 5).
- purchase: three needs' worth of procurements plus the splits of two receptions; a third launch
  meets the leftovers of two; packaging 2 and needs of odd quantity make the rounding show.
- transfer: two moves and four quants are the least with a split quant, a package opened and one
  moved whole; `EditQtys` are one under and one over what is reserved. All reservations are tried.
- bus: two versions are the least that can be out of order; clock 2 separates a write from a sync;
  one message received twice, one import error and every order of arrival. The graph has a many2one,
  a chain of two, a one2many, and a record demanded by nobody else.
- `CHECK_DEADLOCK FALSE` wherever runs, launches, changes and messages are used up: the system
  rests. MaxRuns, MaxPops, NJobs, MaxMishaps, MaxDeletions, MaxReqs, MaxLaunches, MaxReceipts,
  MaxChanges, MaxEdits, MaxAgain and MaxErrors only bound what the environment does.

### Fairness

- jq: the runner, crons, process restarts and time go on (weak). Loading, starting and ending a
  given job is strongly fair: a job is not unlucky for ever, for a requeue resets its retries and
  a job always killed or postponed would never end. The hourly cron is strongly fair while the
  job is outdated, since `.seconds` makes the condition come and go each day.
- sched: the cron, jobs and the pop loop go on (weak). No purge, screen, requeue or user is forced.
- async: launchers are crons, jobs are executed (weak). `Drained` says that a launcher is called
  again when its former jobs are over; without it `DraftMovesConfirm` is false, as a job that owns
  no claim may hold the locks each time the owner asks for them.
- orderpoint: passes of a rule recur (the scheduler is a cron) and end. Users are not forced.
- bus: jobs are executed and messages arrive (weak, on the protocol's steps; JobQueue's
  `EveryJobSettles` is the reason). No write, export, duplicate or error is forced.

## 4. Proofs

All theorems hold for every value of the constants that satisfies the named assumptions.

**JobQueueProofs.** `TypeCorrect` and `DoneIsReal` need no assumption on perils: a job set to done
by no user went through `Commit`, because `StoreConflict` and the others never store *done*.
`CommitsOnce`, `CronsSpareLive`, `DoneForEver` assume `~AutoRequeue`, `PromptHTTP` and
`CarefulUsers`. None of them is inductive. The invariant says that each job is held by one holder
at most (a request, a worker that loaded it, a worker that runs it), that the row agrees with the
holder (enqueued while awaited, started while running), that ages follow the holder's own clock,
below the limits the crons compare with, and that a commit happens from started only. Then a cron
that finds a job too old finds it without a holder.

**SchedulerControllerProofs.** `IInv` adds to the types: every line that has a job, *or that an
update has read, or that is in the chunk of a pop job*, has its lower sequences closed and belongs
to a run that has inserted its lines (`HandedCleared`); a run that may still insert has no line;
dated lines are done. The barrier alone is not inductive, as the pop loop and a requeued pop job
write on lines they read long ago. Each action is shown to be one of a few `Moves`; `MovesKeep`
shows that these keep the invariant and `MovesAreLegal` that they are steps of LineSchedule, from
which `BarrierHolds` and `Refinement` (Spec implements LineSchedule) follow. `ScheduleHolds` carries the
barrier of LineSchedule, inductive there because a run inserts its lines together, over to the
phases of the controller's lines.

*The cron alone.* In the second half, `DatedIsProcessed` holds always, by `ProcessAfterPop`: a process job exists
only after the pop job whose chunk has its line. The others assume `~Screens`, and `SequencesApart`
and `GateOpensOnIdle` `~ManualRequeue` too: with `process_from_screen` beside the cron two callers read the same lines,
and a failed job requeued by hand runs beside later sequences. The invariant follows a line through
its bearers: `todo`, then one live pop job, then one process job (`TodoWaits`, `OnePending`,
`OwnJob`, `PopThenProcess`); a line invalidated while the cron holds its old list is `SkippedGone`;
and without requeues a live process job is one whose line is still open and bears it
(`LiveIsBorne`), so that the barrier applies to it, and the gate of the purchase scheduler sees it.

**AsyncProcurementsProofs.** `LiveJobsApart` follows from claims: the procurements of a live job
that may treat them bear its number (`OwnersHold`), those on moves likewise (`MovesClaimed`), and a
launcher only takes rows without a live claimant. A new job's number is free because a number is
reused only when no row bears it (lemma `RankReached`). `MovesConfirmedOnce` assumes `~UserMoves`:
then a move claimed by a live job is draft or cancelled (`StillDraft`), since confirming a claimed
move takes its claimant, and every move in the ids of a live confirmation job is claimed by someone
(`NoneUnclaimed`). `DraftsOnlyWithoutCancels` assumes in addition that no cancel or reconfirm
job is launched (`Kinds \intersect Acts = {}`): no move is then ever cancelled (`NoneCancelled`),
and `confirm_moves` does what its docstring says.

**BusSyncProofs.** `IInv` says that every message, wherever it is (on its way, in the table, in the
inbox, replayed), is `Sound`: its cross id was given, a row was received with the id it answers,
and no version in it is ahead of the sender's. With it `VersionsNeverGoBack`, `DependenciesComeFirst`
and `DoneIsTold` hold for any graph of records, any duplicates and any errors. The import step is
the heart: a message is imported when all its dependencies are there, and importing records one by
one keeps the others.

**FoldLemmas.** The prover cannot use the library's induction theorems, which take an operator, but
the well-foundedness of inclusion among the parts of a finite set is an ordinary fact: a smallest
counterexample stands for induction. So a fold over a finite set (a function of its parts) exists,
is the only one, and keeps what each step keeps; `SumFunctionOnSet` is such a fold, and sums can be
typed, compared, split and extended. A loop is a fold too: `ThroughKeeps` reduces it to its step, by a
smallest counterexample (what A[k - 1] holds before item k and the step carries to A[k] holds of A[n] at
the end). `SortedSeq` says that a sorted row has each element once, `Ranks` that the numbers of a set
count it, `OfConcat` and its kin add quantities along sequences.

**PurchaseSchedulerProofs.** `Inv` adds to the types that numbers not in use are blank, that jobs
name procurements that exist and orders that were made (`JobsFine`), that a used line is on an order
that was not deleted (`LinesFine`), and that launches to come have made nothing (`LaunchesFine`);
`Fine` holds of the table at every point *inside* a job, so that split, removal, redistribution and
addition are lemmas on tables, and an action combines them. `QuantityIsConserved` follows from
`SplitConserved`: a split moves quantity between two parts of one need. `LinesPlanned` is the
algorithm: an induction over the lines seen so far shows that `ProcsForLines` keeps the table fine
and, given all open procurements, shares them (`Shares`): each waits or is planned for one line, a
line for no more than it brings, and while procurements wait, for exactly that and for needs that
are not later.

*An undisturbed launch.* `EveryNeedOrdered`, `NothingOrderedTwice` and `OrderedOnlyWhenShort` speak
of the end of a launch; `SettledInv` follows one through its jobs, as long as nothing disturbs it: the
supplier's job waits with all open procurements (`SellerPending`), then the planning job, with no
draft left (`ProcsPending`), then there is a goal for each open procurement that satisfies the three
properties, reached already or carried by a job (`Spread`). Jobs for the moves and for the draft
line may run in any order: each only moves procurements to their goals (`Keeps`, `AimsKept`).
Together they are inductive, for every state that earlier launches, buyers and receptions leave.

**TransferLinksProofs.** `TypeCorrect`, `LinksStayWithin` and `VerdictsAreTrue` hold for any moves,
quants, lots, packages in packages, reservations and edits; `TransferAssumption` only says that
quantities are positive, that packages are finitely many and that nulls and other moves are not
numbers of moves. None of the properties is inductive. `Inv` balances two accounts at every turn: per
move, what the table has left and what links put on it are its quantity (`TableInv`); per operation,
what is linked and what is deferred are its quantity once it was processed, and nothing before
(`CoverInv`), which at the end becomes: short only when the moves that suit it are used up, and then
the verdict says so. `RereserveInv` follows `need_rereserve` from *something is deferred* to *linked
through no quant, or short*. That the quants of a whole package serve it alone takes three facts:
whole packages have no quant in common (`WholeInv`: prepared ones are top level, `TopLevelApart`, and
users add none inside or around another), operations on products come after them in the order
(`LinkInv`, through `OpWeight`), and the quants of packages done are remembered (`PackDoneInv`). A
turn is a loop itself: `LinkProductWorks`, `LinkPackageWorks` and `LinkAnyMoveWorks` say what the three
loops keep (`Work`) and, for the last, that it stops short only of an empty table. Rounding and capping in the preparation matter only for types: operations
may be anything (`Sound`), as users may make them so.

*The operations as prepared.* `PreparedAsReserved` is about the operations of `do_prepare_partial` that
no user has changed, for a picking without sale lines. `PreparedInv`: they are the whole packages and
the groups of loose quants, each once. Both parts are sums over partitions (`SumPartition`): the
operations share the reserved quants among them (`ServedApart`: a top level package and a group, or
two groups, have none in common), and the moves share the same quants by their reservation; what is
forced is at most what they need beyond it (`PreparedTotal`, `MovesTotal`). So the operations ask for no more
than the moves have. Were one of them short at the end, every move would be used up (`CoverInv`; all
are in the table), the links would carry all that the moves have (`TableInv`), counted by operation
as well as by move (`LinksTotal`), and yet less than the operations ask. For the
reservation, `DirectInv` says that the table keeps, for each move, at least what the operations that
wait are to find on it (`Ample`); so an operation finds its quants and defers nothing
(`WholeAmple`, `LotAmple`), which holds only when nothing is forced and no package opened.

**OrderpointProofs.** `CoversNeeds` and `TrimsSupply` hold for any rule, horizon, needs, number of
passes and rows. The level that `process` carries is a running count; the property is about the rows
that the commit leaves. `Leaves(v, acc, d)` is the level of day d in those rows, and an induction over
days (`After`), with one over the events of a day inside (`Opened`, `On`), keeps the count equal to it:
cancelling lowers this day and the later ones only (`LevelLess`), creating raises them, so that a day
once settled stays so (`Settled`: served if something goes out, trimmed if its procurements were looked
at). `WalkSettles` sums this up. The last step then takes what is planned after the last scheduled
day: nothing goes out after it, so that needs stay covered (`PassOutcome`). The commit gives new
procurements the free numbers in order, a bijection by `Ranks`, whence `LevelAfterPass`: the level of the
rows is what the walk computed. The invariant needs only one fact beside the types: a current pass has
the outcome of the rows as they are (`Follows`), since every write makes the others stale.
`TrimsSupply` assumes `Multiple = 1`: with a larger one, rounding up to the multiple may exceed the
maximum (section 5), and the property is false.

**Only model-checked.** Liveness (out of the prover's reach: `EveryJobSettles`, `LinesSettle`,
`ConfirmedProcsRun`, `DraftMovesConfirm`, `PassesSettle`, `ExportsArrive`,
`PostDependenciesFollow`).

## 5. What the runs found

- `restart_proc_in_exception` writes no claim, so that its job treats only procurements that no
  job ever claimed; for the others it is postponed and fails (run async_restart).
- `sync_diff` compares the time of the write, not of the commit: a write that was open while it ran
  is missed by it and by all later ones (run bus_missed).

Met while modelling, kept as hazards in PROJECT.json with the reason why no property covers them or
with the restriction under which one does:

- `set_to_done` marks running jobs done, unlike its docstring; requests slower than five minutes
  are requeued for ever; `.seconds` forgets the days of an age.
- `process_from_screen` beside the cron gives a line to two jobs.
- `confirm_moves` ("Confirm draft moves") looks at claims and not at states: a draft move that a job
  claims, cancelled with its procurement before that job runs, is confirmed all the same, and so is
  one that a user confirmed in between. `ConfirmsOnlyDraft` states the docstring: TLC refutes it
  in eight steps when it is added to async_claims, and `DraftsOnlyWithoutCancels` proves that
  nothing else than cancellations and users breaks it. Jobs alone never confirm a confirmed move
  (`ConfirmedOnce`).
- The gate of the purchase scheduler is open while a head job of the stock scheduler is live, and
  when the queue row of a line's job was deleted.
- The last step of a pass deletes protected procurements planned after the last move; a `qty_multiple` that rounds the
  maximum's complement up makes a rule create and cancel for ever.
- A purchase job puts procurements cancelled or done since back on a line, and to running.
- `new_post_demand.update` lets demands of a model replace each other.
- Quants are remembered only when in whole packages, so that two operations in opened packages may
  be linked through one quant; the sale addon looks for the sale line one level above its place,
  hides moves without a line when the picking has one with, and caps what it takes off a group by
  the wrong quantity.

## 6. Not modelled

The connector, the bus in between and Odoo's server are external: modelled from how the addons use
them. Of the modelled addons:

- scheduler_async: the states of a move after *confirmed*, and the deletion of cancelled rows;
  `assign_moves` and `job_unlink_orderpoints` (no claim, no lock), the
  `jobify=False` branches (tests).
- orderpoint: incoming moves without a procurement, fill strategy *duration*, purchase lines as
  incoming, partly done procurements, units of measure; the daily deletion of cancelled rows.
- purchase: grouping periods and calendars, the limit on draft orders, past procurements, missing
  suppliers, units of measure, the moves behind a line; a refused launch, which is only postponed.
- transfer: several products, units, owners and destinations, extra moves and the reservation that
  follows, purchase_reception_by_order's variant, the prereservation view and `run_assign_moves`.
- bus: deletions and archived records (a dependency answer leaves both out), identifiers to restrict, checks, the bus's own messages, two-way exports.

The other components are listed in PROJECT.json with the reason: most are single transactions of
one user, views, reports, widgets, or exchanges with outside services.

## 7. Plan

1. *Bus deletions*: they carry no version, and a demand for a deleted or
   archived record has no answer.
2. *Calendars*: the cache of working days, keyed without the calendar; *manufacturing orders*: the
   redistribution of raw material moves when a quantity changes.
3. *Quant reservation*: the prereservation view and `run_assign_moves`, which would give
   TransferLinks its reservations.
4. *Grouping periods* of the purchase scheduler, and several products of one order.
