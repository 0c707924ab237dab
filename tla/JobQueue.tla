------------------------------- MODULE JobQueue -------------------------------
(***************************************************************************)
(* The life of a queue.job row: the OCA connector's runner and /runjob     *)
(* controller (external, modelled from how src uses them) with the three   *)
(* addons that change it:                                                  *)
(*   connector_improved      two requeue crons, set_to_done, requeue       *)
(*   connector_fix_retry     the replacement of _try_perform_job           *)
(*   connector_auto_requeue  requeue of started jobs when a registry loads *)
(*                                                                         *)
(* A worker process serves one /runjob request at a time.  The request     *)
(* loads the job, commits "started" in a first transaction, then performs  *)
(* the job and stores "done" in a second one.  Transactions are REPEATABLE *)
(* READ: storing a row that another transaction has rewritten since the    *)
(* snapshot of this one raises OperationalError and undoes the effects.    *)
(*                                                                         *)
(* Time is counted in ticks.  The worker pool kills a worker that has been *)
(* on one request for RunLimit ticks (limit_time_real).                    *)
(***************************************************************************)
EXTENDS Naturals, FiniteSets

CONSTANTS
  Jobs,          \* uuids
  Workers,       \* worker processes
  NoJob,         \* the job of an idle worker
  Day,           \* ticks in a day, where timedelta.seconds wraps
  RunLimit,      \* config['limit_time_real'] or 120, in ticks
  QueueLimit,    \* the 5 minutes of enqueue_old_enqued_jobs, in ticks
  MaxRetries,    \* job.max_retries
  AutoRequeue,   \* is connector_auto_requeue installed?
  PromptHTTP,    \* is a request lost, or its job started, within QueueLimit?
  CarefulUsers,  \* do users only act on jobs that no request or run holds?
  MaxMishaps,    \* bound: crashes and lost requests
  MaxCommits,    \* bound: commits of one job
  MaxReqs        \* bound: requests of one job waiting in the server

ASSUME JobQueueAssumption ==
  /\ NoJob \notin Jobs
  /\ Day \in Nat \ {0}
  /\ {RunLimit, QueueLimit, MaxRetries, MaxMishaps, MaxCommits} \subseteq Nat
  /\ MaxReqs \in Nat \ {0}
  /\ {AutoRequeue, PromptHTTP, CarefulUsers} \subseteq BOOLEAN

VARIABLES
  state,    \* queue_job.state, "none" before the job is created
  retry,    \* queue_job.retry
  age,      \* ticks since date_started (modulo Day) or date_enqueued (capped)
  reqs,     \* /runjob requests sent and not yet served
  pc,       \* where the worker is in _try_perform_job
  wjob,     \* the job the worker holds in memory
  wretry,   \* the retry count of that copy
  fresh,    \* has the row been left alone since the worker's snapshot?
  wage,     \* ticks since the worker received its request
  commits,  \* how many times the job's effects were committed
  byHand,   \* jobs set to done by a user
  mishaps   \* crashes and lost requests so far

rowVars == <<state, retry, age>>
workerVars == <<pc, wjob, wretry, wage>>
vars == <<state, retry, age, reqs, pc, wjob, wretry, fresh, wage,
          commits, byHand, mishaps>>

States == {"none", "pending", "enqueued", "started", "done", "failed"}

TypeOK ==
  /\ state \in [Jobs -> States]
  /\ retry \in [Jobs -> Nat]
  /\ age \in [Jobs -> Nat]
  /\ reqs \in [Jobs -> Nat]
  /\ pc \in [Workers -> {"down", "idle", "loaded", "started", "performing"}]
  /\ wjob \in [Workers -> Jobs \union {NoJob}]
  /\ wretry \in [Workers -> Nat]
  /\ fresh \in [Workers -> BOOLEAN]
  /\ wage \in [Workers -> Nat]
  /\ commits \in [Jobs -> Nat]
  /\ byHand \subseteq Jobs
  /\ mishaps \in Nat

Init ==
  /\ state = [j \in Jobs |-> "none"]
  /\ retry = [j \in Jobs |-> 0]
  /\ age = [j \in Jobs |-> 0]
  /\ reqs = [j \in Jobs |-> 0]
  /\ pc = [w \in Workers |-> "idle"]
  /\ wjob = [w \in Workers |-> NoJob]
  /\ wretry = [w \in Workers |-> 0]
  /\ fresh = [w \in Workers |-> FALSE]
  /\ wage = [w \in Workers |-> 0]
  /\ commits = [j \in Jobs |-> 0]
  /\ byHand = {}
  /\ mishaps = 0

-----------------------------------------------------------------------------
Busy(w) == pc[w] \in {"loaded", "started", "performing"}

\* A request waits for job j, or a worker has read it and not yet started it.
Awaited(j) == reqs[j] > 0 \/ \E w \in Workers : pc[w] = "loaded" /\ wjob[w] = j

\* A live process is executing job j.
Running(j) == \E w \in Workers : pc[w] \in {"started", "performing"} /\ wjob[w] = j

\* The rows of S are rewritten: every snapshot taken of them is out of date.
Rewrite(S) == fresh' = [w \in Workers |-> fresh[w] /\ wjob[w] \notin S]

\* The worker leaves its request; its process is then in state p.
Release(w, p) ==
  /\ pc' = [pc EXCEPT ![w] = p]
  /\ wjob' = [wjob EXCEPT ![w] = NoJob]
  /\ wretry' = [wretry EXCEPT ![w] = 0]
  /\ wage' = [wage EXCEPT ![w] = 0]

\* The row of job j gets state s and retry count n.
Store(j, s, n) ==
  /\ state' = [state EXCEPT ![j] = s]
  /\ retry' = [retry EXCEPT ![j] = n]
  /\ age' = [age EXCEPT ![j] = 0]
  /\ Rewrite({j})

-----------------------------------------------------------------------------
\* job.delay(): the row is created.
Delay(j) ==
  /\ state[j] = "none"
  /\ Store(j, "pending", 0)
  /\ UNCHANGED <<reqs, workerVars, commits, byHand, mishaps>>

\* The runner marks a pending job enqueued and posts /runjob.
Enqueue(j) ==
  /\ state[j] = "pending"
  /\ reqs[j] < MaxReqs
  /\ Store(j, "enqueued", retry[j])
  /\ reqs' = [reqs EXCEPT ![j] = @ + 1]
  /\ UNCHANGED <<workerVars, commits, byHand, mishaps>>

\* Mutant of LoseRequest: a request that was not sent is lost.
LoseAnyRequest(j) ==
  /\ mishaps < MaxMishaps
  /\ reqs' = [reqs EXCEPT ![j] = @ - 1]
  /\ mishaps' = mishaps + 1
  /\ UNCHANGED <<rowVars, workerVars, fresh, commits, byHand>>

\* The request never reaches a worker.
LoseRequest(j) ==
  /\ reqs[j] > 0
  /\ mishaps < MaxMishaps
  /\ reqs' = [reqs EXCEPT ![j] = @ - 1]
  /\ mishaps' = mishaps + 1
  /\ UNCHANGED <<rowVars, workerVars, fresh, commits, byHand>>

\* A worker serves the request: the job is loaded, and dropped with a warning
\* when it is not enqueued.
Load(w, j) ==
  /\ pc[w] = "idle"
  /\ reqs[j] > 0
  /\ reqs' = [reqs EXCEPT ![j] = @ - 1]
  /\ IF state[j] = "enqueued"
       THEN /\ pc' = [pc EXCEPT ![w] = "loaded"]
            /\ wjob' = [wjob EXCEPT ![w] = j]
            /\ wretry' = [wretry EXCEPT ![w] = retry[j]]
            /\ wage' = [wage EXCEPT ![w] = 0]
       ELSE UNCHANGED workerVars
  /\ UNCHANGED <<rowVars, fresh, commits, byHand, mishaps>>

\* First transaction of _try_perform_job_custom: "started" is committed.  The
\* row is not read again: the copy in memory decides.
SetStarted(w) ==
  /\ pc[w] = "loaded"
  /\ Store(wjob[w], "started", wretry[w])
  /\ pc' = [pc EXCEPT ![w] = "started"]
  /\ UNCHANGED <<reqs, wjob, wretry, wage, commits, byHand, mishaps>>

\* Second transaction: its snapshot is taken, job.perform() counts the retry.
Perform(w) ==
  /\ pc[w] = "started"
  /\ pc' = [pc EXCEPT ![w] = "performing"]
  /\ fresh' = [fresh EXCEPT ![w] = TRUE]
  /\ wretry' = [wretry EXCEPT ![w] = @ + 1]
  /\ UNCHANGED <<rowVars, reqs, wjob, wage, commits, byHand, mishaps>>

\* set_done() and store() in the transaction of the job's effects.
Commit(w) ==
  LET j == wjob[w] IN
  /\ pc[w] = "performing"
  /\ fresh[w]
  /\ commits[j] < MaxCommits
  /\ Store(j, "done", wretry[w])
  /\ commits' = [commits EXCEPT ![j] = @ + 1]
  /\ byHand' = byHand \ {j}
  /\ Release(w, "idle")
  /\ UNCHANGED <<reqs, mishaps>>

\* Mutant of StoreConflict: "done" is stored again after the rollback.
StoreDoneAnyway(w) ==
  /\ pc[w] = "performing"
  /\ ~fresh[w]
  /\ Store(wjob[w], "done", wretry[w])
  /\ byHand' = byHand \ {wjob[w]}
  /\ Release(w, "idle")
  /\ UNCHANGED <<reqs, commits, mishaps>>

\* store() raises OperationalError, the effects are undone.  At the last retry
\* it becomes FailedJobError; otherwise the controller postpones the job.
StoreConflict(w) ==
  /\ pc[w] = "performing"
  /\ ~fresh[w]
  /\ Store(wjob[w], IF wretry[w] >= MaxRetries THEN "failed" ELSE "pending", wretry[w])
  /\ byHand' = byHand \ {wjob[w]}
  /\ Release(w, "idle")
  /\ UNCHANGED <<reqs, commits, mishaps>>

\* The job raises RetryableJobError.  perform() turns it into a failure at the
\* last retry; no limit when max_retries is 0.
Postpone(w) ==
  /\ pc[w] = "performing"
  /\ wretry[w] <= MaxRetries      \* bound of the endless case
  /\ Store(wjob[w],
           IF MaxRetries # 0 /\ wretry[w] >= MaxRetries THEN "failed" ELSE "pending",
           wretry[w])
  /\ byHand' = byHand \ {wjob[w]}
  /\ Release(w, "idle")
  /\ UNCHANGED <<reqs, commits, mishaps>>

\* The job raises any other exception.
Fail(w) ==
  /\ pc[w] = "performing"
  /\ Store(wjob[w], "failed", wretry[w])
  /\ byHand' = byHand \ {wjob[w]}
  /\ Release(w, "idle")
  /\ UNCHANGED <<reqs, commits, mishaps>>

\* The process dies: killed, out of memory, server stopped.
Crash(w) ==
  /\ pc[w] # "down"
  /\ mishaps < MaxMishaps
  /\ mishaps' = mishaps + 1
  /\ Release(w, "down")
  /\ fresh' = [fresh EXCEPT ![w] = FALSE]
  /\ UNCHANGED <<rowVars, reqs, commits, byHand>>

\* The pool kills a worker whose request has lasted RunLimit ticks.
KillOverdue(w) ==
  /\ Busy(w)
  /\ wage[w] >= RunLimit
  /\ Release(w, "down")
  /\ fresh' = [fresh EXCEPT ![w] = FALSE]
  /\ UNCHANGED <<rowVars, reqs, commits, byHand, mishaps>>

\* Mutant of Requeue: no check for done jobs.
RequeueEvenDone(S) ==
  /\ state' = [j \in Jobs |-> IF j \in S THEN "pending" ELSE state[j]]
  /\ retry' = [j \in Jobs |-> IF j \in S THEN 0 ELSE retry[j]]
  /\ age' = [j \in Jobs |-> IF j \in S THEN 0 ELSE age[j]]
  /\ Rewrite(S)
  /\ UNCHANGED <<reqs, commits, byHand, mishaps>>

\* queue.job.requeue() on the jobs S: refused as a whole when one is done.
Requeue(S) ==
  /\ \A j \in S : state[j] # "done"
  /\ state' = [j \in Jobs |-> IF j \in S THEN "pending" ELSE state[j]]
  /\ retry' = [j \in Jobs |-> IF j \in S THEN 0 ELSE retry[j]]
  /\ age' = [j \in Jobs |-> IF j \in S THEN 0 ELSE age[j]]
  /\ Rewrite(S)
  /\ UNCHANGED <<reqs, commits, byHand, mishaps>>

StartedJobs == {j \in Jobs : state[j] = "started"}

\* Mutants of OutdatedJobs: the limit is dropped, or counted in days.
AnyStartedJobs == StartedJobs
JobsOutdatedByDays == {j \in StartedJobs : age[j] > Day}

\* enqueue_outdated_jobs compares (now - max(eta, date_started)).seconds; the
\* runner never starts a job before its eta.
OutdatedJobs == {j \in StartedJobs : age[j] > RunLimit}

EnqueueOutdatedJobs ==
  /\ OutdatedJobs # {}
  /\ Requeue(OutdatedJobs)
  /\ UNCHANGED workerVars

\* Mutant of OldEnqueuedJobs: off by one.
JobsEnqueuedForLimit == {j \in Jobs : state[j] = "enqueued" /\ age[j] >= QueueLimit}

OldEnqueuedJobs == {j \in Jobs : state[j] = "enqueued" /\ age[j] > QueueLimit}

EnqueueOldEnqueuedJobs ==
  /\ OldEnqueuedJobs # {}
  /\ Requeue(OldEnqueuedJobs)
  /\ UNCHANGED workerVars

\* A new process loads the registry: _register_hook requeues every started
\* job, the ones other processes are executing included.
Boot(w) ==
  /\ pc[w] = "down"
  /\ pc' = [pc EXCEPT ![w] = "idle"]
  /\ Requeue(IF AutoRequeue THEN StartedJobs ELSE {})
  /\ UNCHANGED <<wjob, wretry, wage>>

\* Does a user leave job j alone?
Untouchable(j) == CarefulUsers /\ (Awaited(j) \/ Running(j))

ButtonRequeue(j) ==
  /\ state[j] \notin {"none", "pending"}
  /\ ~Untouchable(j)
  /\ Requeue({j})
  /\ UNCHANGED workerVars

\* set_to_done calls button_done on every job, whatever its state.
SetToDone(j) ==
  /\ state[j] # "none"
  /\ ~Untouchable(j)
  /\ Store(j, "done", retry[j])
  /\ byHand' = byHand \union {j}
  /\ UNCHANGED <<reqs, workerVars, commits, mishaps>>

Ages(j) == state[j] = "started" \/ (state[j] = "enqueued" /\ age[j] <= QueueLimit)

\* The seconds of a timedelta start again each day.
Older(j) == IF state[j] = "started" /\ age[j] + 1 = Day THEN 0 ELSE age[j] + 1

\* A tick: overdue workers are killed first and, when requests are prompt, no
\* request outlives QueueLimit.
Tick ==
  /\ \A w \in Workers : Busy(w) => wage[w] < RunLimit
  /\ PromptHTTP => \A j \in Jobs : Awaited(j) => age[j] < QueueLimit
  /\ age' = [j \in Jobs |-> IF Ages(j) THEN Older(j) ELSE age[j]]
  /\ wage' = [w \in Workers |-> IF Busy(w) THEN wage[w] + 1 ELSE wage[w]]
  /\ UNCHANGED <<state, retry, reqs, pc, wjob, wretry, fresh, commits, byHand, mishaps>>

-----------------------------------------------------------------------------
JobStep(j) == Delay(j) \/ Enqueue(j) \/ LoseRequest(j) \/ ButtonRequeue(j) \/ SetToDone(j)

WorkerStep(w) ==
  \/ \E j \in Jobs : Load(w, j)
  \/ SetStarted(w) \/ Perform(w)
  \/ Commit(w) \/ StoreConflict(w) \/ Postpone(w) \/ Fail(w)
  \/ Crash(w) \/ KillOverdue(w) \/ Boot(w)

Next ==
  \/ \E j \in Jobs : JobStep(j)
  \/ \E w \in Workers : WorkerStep(w)
  \/ EnqueueOutdatedJobs
  \/ EnqueueOldEnqueuedJobs
  \/ Tick

Spec == Init /\ [][Next]_vars

\* The runner, the workers, the crons and time go on; nothing forces a user,
\* a crash or a new job.  Strong fairness says that RunLimit is long enough for
\* the job and that what it waits for comes: its runs are not all killed or
\* postponed, for a requeue resets the retries and would allow that for ever;
\* and that the hourly cron hits the part of the day where age > RunLimit.
On(j, A(_)) == \E w \in Workers : wjob[w] = j /\ A(w)

Finishes(w) == Commit(w) \/ Fail(w)

Fairness ==
  /\ \A j \in Jobs : /\ WF_vars(Enqueue(j))
                     /\ SF_vars(\E w \in Workers : Load(w, j))
                     /\ SF_vars(On(j, SetStarted))
                     /\ SF_vars(On(j, Perform))
                     /\ SF_vars(On(j, Finishes))
                     /\ SF_vars(j \in OutdatedJobs /\ EnqueueOutdatedJobs)
  /\ \A w \in Workers : /\ WF_vars(StoreConflict(w))
                        /\ WF_vars(KillOverdue(w))
                        /\ WF_vars(Boot(w))
  /\ WF_vars(EnqueueOldEnqueuedJobs)
  /\ WF_vars(Tick)

FairSpec == Spec /\ Fairness

-----------------------------------------------------------------------------
(* Properties *)

\* The effects of a job are never committed twice, whatever crashes, retries
\* and requeues happen, as long as nothing requeues a job that is held:
\* perform and set_done share one transaction (_try_perform_job_custom) and the
\* two crons only reach jobs whose request or process is gone.
CommitsAtMostOnce == \A j \in Jobs : commits[j] <= 1

\* The crons of connector_improved never requeue a job that a live process is
\* executing or about to start: their limits are no shorter than the time
\* after which the pool has killed the process or the request is lost.
CronsSpareLiveRuns ==
  [][\A j \in Jobs :
       (EnqueueOutdatedJobs \/ EnqueueOldEnqueuedJobs) /\ state'[j] # state[j]
         => ~Running(j) /\ ~Awaited(j)]_vars

\* "Job in state done cannot be requeued" (requeue): no cron, retry, conflict
\* or late worker takes a job out of done.
DoneIsFinal == [][\A j \in Jobs : state[j] = "done" => state'[j] = "done"]_vars

\* A job shown as done has had its effects committed, unless a user set it to
\* done: no interleaving of workers loses the work of a job.
DoneMeansCommitted ==
  \A j \in Jobs : state[j] = "done" /\ j \notin byHand => commits[j] > 0

\* Lost requests and dead processes never strand a job: it ends done or failed
\* (enqueue_outdated_jobs, enqueue_old_enqued_jobs, _register_hook).
EveryJobSettles ==
  \A j \in Jobs : state[j] = "pending" ~> state[j] \in {"done", "failed"}
=============================================================================
