----------------------------- MODULE JobQueueProofs -----------------------------
(***************************************************************************)
(* Proofs about JobQueue, for every number of jobs and workers and every   *)
(* limit.  Type correctness holds of every behaviour; the rest needs what  *)
(* Quiet says, and fails without it (see MCJobQueuePerils.cfg).            *)
(***************************************************************************)
EXTENDS JobQueue, TLAPS

\* No hook requeues jobs of other processes, requests are prompt or lost, and
\* users leave held jobs alone.
Quiet == ~AutoRequeue /\ PromptHTTP /\ CarefulUsers

-----------------------------------------------------------------------------
(* The inductive invariant: at most one request or worker holds a job. *)

\* A waiting request is the only holder of its job.
RequestsExclusive ==
  \A j \in Jobs : reqs[j] > 0 => /\ reqs[j] = 1
                                 /\ state[j] = "enqueued"
                                 /\ \A w \in Workers : wjob[w] # j

\* A worker holds a job exactly when it is busy, and then alone.
WorkersExclusive ==
  /\ \A w \in Workers : Busy(w) <=> wjob[w] \in Jobs
  /\ \A v, w \in Workers : wjob[v] = wjob[w] /\ wjob[v] \in Jobs => v = w

\* The row tells what its worker does, and is no older than the request.
RowsFollowWorkers ==
  \A w \in Workers :
    /\ Busy(w) => wage[w] <= RunLimit
    /\ pc[w] = "loaded" => state[wjob[w]] = "enqueued"
    /\ pc[w] \in {"started", "performing"} =>
         state[wjob[w]] = "started" /\ age[wjob[w]] <= wage[w]

\* An awaited job is not yet old.
AwaitedIsYoung == \A j \in Jobs : Awaited(j) => age[j] <= QueueLimit

\* Effects once committed are those of a job that is done.
CommitsOnlyWhenDone == \A j \in Jobs : commits[j] = 0 \/ (commits[j] = 1 /\ state[j] = "done")

IInv ==
  /\ TypeOK
  /\ RequestsExclusive
  /\ WorkersExclusive
  /\ RowsFollowWorkers
  /\ AwaitedIsYoung
  /\ CommitsOnlyWhenDone

-----------------------------------------------------------------------------
(* Type correctness *)

\* Storing a row keeps the types of the row and of the snapshots.
LEMMA StoreTypes ==
  ASSUME TypeOK, NEW j \in Jobs, NEW s \in States, NEW n \in Nat, Store(j, s, n)
  PROVE  /\ state' \in [Jobs -> States]
         /\ retry' \in [Jobs -> Nat]
         /\ age' \in [Jobs -> Nat]
         /\ fresh' \in [Workers -> BOOLEAN]
  BY DEF TypeOK, Store, Rewrite

\* A worker that leaves its request is well typed.
LEMMA ReleaseTypes ==
  ASSUME TypeOK, NEW w \in Workers, NEW p \in {"down", "idle"}, Release(w, p)
  PROVE  /\ pc' \in [Workers -> {"down", "idle", "loaded", "started", "performing"}]
         /\ wjob' \in [Workers -> Jobs \union {NoJob}]
         /\ wretry' \in [Workers -> Nat]
         /\ wage' \in [Workers -> Nat]
  BY DEF TypeOK, Release

\* So is the table after a requeue.
LEMMA RequeueTypes ==
  ASSUME TypeOK, NEW S \in SUBSET Jobs, Requeue(S)
  PROVE  /\ state' \in [Jobs -> States]
         /\ retry' \in [Jobs -> Nat]
         /\ age' \in [Jobs -> Nat]
         /\ fresh' \in [Workers -> BOOLEAN]
         /\ UNCHANGED <<reqs, commits, byHand, mishaps>>
  BY DEF TypeOK, Requeue, Rewrite, States

\* A busy worker's job is one of the jobs: NoJob is the job of the others.
LEMMA BusyHasJob ==
  ASSUME TypeOK, WorkersExclusive, NEW w \in Workers, Busy(w)
  PROVE  wjob[w] \in Jobs
  BY DEF WorkersExclusive

HoldsItsJob == \A w \in Workers : Busy(w) => wjob[w] \in Jobs

LEMMA TypeStep == TypeOK /\ HoldsItsJob /\ [Next]_vars => TypeOK' /\ HoldsItsJob'
<1> SUFFICES ASSUME TypeOK, HoldsItsJob, [Next]_vars
             PROVE  TypeOK' /\ HoldsItsJob'
  OBVIOUS
<1> USE JobQueueAssumption
<1>1. ASSUME NEW j \in Jobs, JobStep(j)
      PROVE  TypeOK' /\ HoldsItsJob'
  <2>1. CASE Delay(j)
    BY <2>1, StoreTypes DEF Delay, TypeOK, HoldsItsJob, Busy, workerVars, States
  <2>2. CASE Enqueue(j)
    BY <2>2, StoreTypes DEF Enqueue, TypeOK, HoldsItsJob, Busy, workerVars, States
  <2>3. CASE LoseRequest(j)
    BY <2>3 DEF LoseRequest, TypeOK, HoldsItsJob, Busy, workerVars, rowVars
  <2>4. CASE ButtonRequeue(j)
    BY <2>4, RequeueTypes DEF ButtonRequeue, TypeOK, HoldsItsJob, Busy, workerVars
  <2>5. CASE SetToDone(j)
    BY <2>5, StoreTypes DEF SetToDone, TypeOK, HoldsItsJob, Busy, workerVars, States
  <2> QED BY <1>1, <2>1, <2>2, <2>3, <2>4, <2>5 DEF JobStep
<1>2. ASSUME NEW w \in Workers, WorkerStep(w)
      PROVE  TypeOK' /\ HoldsItsJob'
  <2>1. ASSUME NEW j \in Jobs, Load(w, j)
        PROVE  TypeOK' /\ HoldsItsJob'
    BY <2>1 DEF Load, TypeOK, HoldsItsJob, Busy, workerVars, rowVars
  <2>2. CASE SetStarted(w)
    <3>1. wjob[w] \in Jobs
      BY <2>2 DEF SetStarted, HoldsItsJob, Busy
    <3> QED BY <2>2, <3>1, StoreTypes DEF SetStarted, TypeOK, HoldsItsJob, Busy, States
  <2>3. CASE Perform(w)
    BY <2>3 DEF Perform, TypeOK, HoldsItsJob, Busy, rowVars
  <2>4. CASE Commit(w) \/ StoreConflict(w) \/ Postpone(w) \/ Fail(w)
    <3>1. wjob[w] \in Jobs
      BY <2>4 DEF Commit, StoreConflict, Postpone, Fail, HoldsItsJob, Busy
    <3>2. \E s \in States : Store(wjob[w], s, wretry[w])
      BY <2>4 DEF Commit, StoreConflict, Postpone, Fail, States
    <3>3. Release(w, "idle") /\ UNCHANGED <<reqs, mishaps>>
      BY <2>4 DEF Commit, StoreConflict, Postpone, Fail
    <3>4. byHand' \subseteq Jobs /\ commits' \in [Jobs -> Nat]
      BY <2>4, <3>1 DEF Commit, StoreConflict, Postpone, Fail, TypeOK
    <3>5. TypeOK'
      BY <3>1, <3>2, <3>3, <3>4, StoreTypes, ReleaseTypes DEF TypeOK
    <3>6. HoldsItsJob'
      BY <3>3 DEF Release, TypeOK, HoldsItsJob, Busy
    <3> QED BY <3>5, <3>6
  <2>5. CASE Crash(w) \/ KillOverdue(w)
    <3>1. Release(w, "down") /\ UNCHANGED <<rowVars, reqs, commits, byHand>>
      BY <2>5 DEF Crash, KillOverdue
    <3>2. fresh' \in [Workers -> BOOLEAN]
      <4>1. fresh' = [fresh EXCEPT ![w] = FALSE]
        BY <2>5 DEF Crash, KillOverdue
      <4> QED BY <4>1, Zenon DEF TypeOK
    <3>3. mishaps' \in Nat
      BY <2>5 DEF Crash, KillOverdue, TypeOK
    <3>4. TypeOK'
      BY <3>1, <3>2, <3>3, ReleaseTypes DEF TypeOK, rowVars
    <3>5. HoldsItsJob'
      BY <3>1 DEF Release, TypeOK, HoldsItsJob, Busy
    <3> QED BY <3>4, <3>5
  <2>6. CASE Boot(w)
    <3>1. \E S \in SUBSET Jobs : Requeue(S)
      BY <2>6 DEF Boot, StartedJobs
    <3> QED BY <2>6, <3>1, RequeueTypes DEF Boot, TypeOK, HoldsItsJob, Busy
  <2> QED BY <1>2, <2>1, <2>2, <2>3, <2>4, <2>5, <2>6 DEF WorkerStep
<1>3. CASE EnqueueOutdatedJobs \/ EnqueueOldEnqueuedJobs
  <2>1. \E S \in SUBSET Jobs : Requeue(S)
    BY <1>3 DEF EnqueueOutdatedJobs, EnqueueOldEnqueuedJobs, OutdatedJobs, OldEnqueuedJobs,
                StartedJobs
  <2>2. UNCHANGED workerVars
    BY <1>3 DEF EnqueueOutdatedJobs, EnqueueOldEnqueuedJobs
  <2> QED BY <2>1, <2>2, RequeueTypes DEF TypeOK, HoldsItsJob, Busy, workerVars
<1>4. CASE Tick
  BY <1>4 DEF Tick, Ages, Older, TypeOK, HoldsItsJob, Busy
<1>5. CASE UNCHANGED vars
  BY <1>5 DEF vars, TypeOK, HoldsItsJob, Busy
<1> QED BY <1>1, <1>2, <1>3, <1>4, <1>5 DEF Next

LEMMA TypeInit == Init => TypeOK /\ HoldsItsJob
  BY JobQueueAssumption DEF Init, TypeOK, HoldsItsJob, Busy, States

\* Every variable keeps its type in every behaviour, whatever users, hooks, slow
\* requests and crashes do.
THEOREM TypeCorrect == Spec => []TypeOK
<1>1. Init => TypeOK /\ HoldsItsJob
  BY TypeInit
<1>2. TypeOK /\ HoldsItsJob /\ [Next]_vars => TypeOK' /\ HoldsItsJob'
  BY TypeStep
<1> QED BY <1>1, <1>2, PTL DEF Spec

-----------------------------------------------------------------------------
(* The inductive invariant *)

LEMMA IInvInit == Init => IInv
  BY TypeInit, JobQueueAssumption
  DEF Init, IInv, RequestsExclusive, WorkersExclusive, RowsFollowWorkers, AwaitedIsYoung,
      CommitsOnlyWhenDone, Busy, Awaited

LEMMA IInvHolds == IInv => HoldsItsJob
  BY DEF IInv, WorkersExclusive, HoldsItsJob

Exclusive == RequestsExclusive /\ WorkersExclusive

\* A requeue of jobs that nobody holds, and that are not done, keeps it.
LEMMA RequeueStep ==
  ASSUME IInv, NEW S \in SUBSET Jobs, Requeue(S),
         \A j \in S : ~Awaited(j) /\ ~Running(j),
         UNCHANGED <<wjob, wretry, wage>>,
         \A w \in Workers : pc'[w] = pc[w] \/ (pc[w] = "down" /\ pc'[w] = "idle"),
         TypeOK'
  PROVE  IInv'
<1>1. \A w \in Workers : Busy(w)' <=> Busy(w)
  BY DEF Busy
<1>2. \A w \in Workers : Busy(w) => wjob[w] \notin S
  BY DEF Busy, Awaited, Running
<1>3. \A j \in Jobs : reqs[j] > 0 => j \notin S
  BY DEF Awaited
<1>4. \A j \in Jobs \ S : state'[j] = state[j] /\ age'[j] = age[j]
  BY DEF Requeue, IInv, TypeOK
<1>5. UNCHANGED <<reqs, commits>> /\ \A j \in S : state[j] # "done"
  BY DEF Requeue
<1>6. RequestsExclusive'
  BY <1>3, <1>4, <1>5 DEF IInv, RequestsExclusive
<1>7. WorkersExclusive'
  BY <1>1 DEF IInv, WorkersExclusive
<1>8. RowsFollowWorkers'
  <2> SUFFICES ASSUME NEW w \in Workers
               PROVE  /\ Busy(w)' => wage'[w] <= RunLimit
                      /\ pc'[w] = "loaded" => state'[wjob'[w]] = "enqueued"
                      /\ pc'[w] \in {"started", "performing"} =>
                           state'[wjob'[w]] = "started" /\ age'[wjob'[w]] <= wage'[w]
    BY DEF RowsFollowWorkers
  <2>1. CASE Busy(w)
    <3>1. wjob[w] \in Jobs \ S
      BY <2>1, <1>2 DEF IInv, WorkersExclusive
    <3> QED BY <3>1, <2>1, <1>4 DEF IInv, RowsFollowWorkers, Busy
  <2>2. CASE ~Busy(w)
    BY <2>2, <1>1 DEF Busy
  <2> QED BY <2>1, <2>2
<1>9. AwaitedIsYoung'
  <2> SUFFICES ASSUME NEW j \in Jobs, Awaited(j)'
               PROVE  age'[j] <= QueueLimit
    BY DEF AwaitedIsYoung
  <2>1. Awaited(j)
    BY <1>5 DEF Awaited
  <2> QED BY <2>1, <1>4 DEF IInv, AwaitedIsYoung
<1>10. CommitsOnlyWhenDone'
  BY <1>4, <1>5 DEF IInv, CommitsOnlyWhenDone
<1> QED BY <1>6, <1>7, <1>8, <1>9, <1>10 DEF IInv

\* The row of a job that nobody awaits is written, by no worker or by the only
\* worker that holds it.
Parts ==
  /\ RequestsExclusive /\ WorkersExclusive /\ RowsFollowWorkers
  /\ AwaitedIsYoung /\ CommitsOnlyWhenDone

LEMMA JobStepKeeps ==
  ASSUME Quiet, IInv, TypeOK', NEW j \in Jobs, JobStep(j)
  PROVE  Parts'
<1> USE JobQueueAssumption DEF IInv
<1>1. CASE Delay(j)
  <2>1. reqs[j] = 0 /\ ~Running(j) /\ ~Awaited(j) /\ commits[j] = 0
    BY <1>1 DEF Delay, TypeOK, RequestsExclusive, RowsFollowWorkers, CommitsOnlyWhenDone,
                Running, Awaited
  <2> QED
    BY <1>1, <2>1
    DEF Delay, Store, TypeOK, Parts, RequestsExclusive, WorkersExclusive, RowsFollowWorkers,
        AwaitedIsYoung, CommitsOnlyWhenDone, Busy, Awaited, Running, workerVars
<1>2. CASE Enqueue(j)
  <2>0. state[j] = "pending" /\ reqs[j] \in Nat
    BY <1>2 DEF Enqueue, TypeOK
  <2>1. /\ reqs[j] = 0 /\ commits[j] = 0
        /\ \A w \in Workers : wjob[w] # j
    <3>1. reqs[j] = 0 /\ commits[j] = 0
      BY <2>0 DEF RequestsExclusive, CommitsOnlyWhenDone
    <3>2. \A w \in Workers : wjob[w] # j
      BY <2>0 DEF RowsFollowWorkers, WorkersExclusive, Busy
    <3> QED BY <3>1, <3>2
  <2>2. RequestsExclusive'
    BY <1>2, <2>1 DEF Enqueue, Store, TypeOK, RequestsExclusive, workerVars
  <2>3. WorkersExclusive'
    BY <1>2 DEF Enqueue, WorkersExclusive, Busy, workerVars
  <2>4. RowsFollowWorkers'
    BY <1>2, <2>1
    DEF Enqueue, Store, TypeOK, WorkersExclusive, RowsFollowWorkers, Busy, workerVars
  <2>5. (AwaitedIsYoung /\ CommitsOnlyWhenDone)'
    <3>1. AwaitedIsYoung'
      <4> SUFFICES ASSUME NEW i \in Jobs, Awaited(i)' PROVE age'[i] <= QueueLimit
        BY DEF AwaitedIsYoung
      <4>1. CASE i = j
        BY <4>1, <1>2 DEF Enqueue, Store, TypeOK
      <4>2. CASE i # j
        <5>1. Awaited(i) /\ age'[i] = age[i]
          BY <4>2, <1>2 DEF Enqueue, Store, TypeOK, Awaited, workerVars
        <5> QED BY <5>1 DEF AwaitedIsYoung
      <4> QED BY <4>1, <4>2
    <3>2. CommitsOnlyWhenDone'
      BY <1>2, <2>1 DEF Enqueue, Store, TypeOK, CommitsOnlyWhenDone
    <3> QED BY <3>1, <3>2
  <2> QED BY <2>2, <2>3, <2>4, <2>5 DEF Parts
<1>3. CASE LoseRequest(j)
  BY <1>3
  DEF LoseRequest, TypeOK, Parts, RequestsExclusive, WorkersExclusive, RowsFollowWorkers,
      AwaitedIsYoung, CommitsOnlyWhenDone, Busy, Awaited, workerVars, rowVars
<1>4. CASE ButtonRequeue(j)
  <2>1. ~Awaited(j) /\ ~Running(j)
    BY <1>4 DEF ButtonRequeue, Untouchable, Quiet
  <2>2. Requeue({j}) /\ UNCHANGED <<pc, wjob, wretry, wage>>
    BY <1>4 DEF ButtonRequeue, workerVars
  <2>3. IInv'
    BY <2>1, <2>2, RequeueStep
  <2> QED BY <2>3 DEF Parts
<1>5. CASE SetToDone(j)
  <2>1. ~Awaited(j) /\ ~Running(j)
    BY <1>5 DEF SetToDone, Untouchable, Quiet
  <2> QED
    BY <1>5, <2>1
    DEF SetToDone, Store, TypeOK, Parts, RequestsExclusive, WorkersExclusive, RowsFollowWorkers,
        AwaitedIsYoung, CommitsOnlyWhenDone, Busy, Awaited, Running, workerVars
<1> QED BY <1>1, <1>2, <1>3, <1>4, <1>5 DEF JobStep

LEMMA WorkerStepKeeps ==
  ASSUME Quiet, IInv, TypeOK', NEW w \in Workers, WorkerStep(w)
  PROVE  Parts'
<1> USE JobQueueAssumption DEF IInv
<1>1. ASSUME NEW j \in Jobs, Load(w, j)
      PROVE  Parts'
  <2>1. /\ reqs[j] = 1 /\ state[j] = "enqueued"
        /\ \A v \in Workers : wjob[v] # j
        /\ reqs' = [reqs EXCEPT ![j] = 0]
    <3>1. reqs[j] > 0 /\ reqs' = [reqs EXCEPT ![j] = @ - 1]
      BY <1>1 DEF Load
    <3>2. reqs[j] = 1 /\ state[j] = "enqueued" /\ \A v \in Workers : wjob[v] # j
      BY <3>1 DEF RequestsExclusive
    <3> QED BY <3>1, <3>2
  <2>2. /\ pc[w] = "idle" /\ wjob[w] \notin Jobs
        /\ pc' = [pc EXCEPT ![w] = "loaded"] /\ wjob' = [wjob EXCEPT ![w] = j]
        /\ wage' = [wage EXCEPT ![w] = 0]
        /\ UNCHANGED <<state, age, commits>>
    BY <1>1, <2>1 DEF Load, rowVars, WorkersExclusive, Busy
  <2> HIDE DEF IInv
  <2>3. /\ TypeOK /\ RequestsExclusive /\ WorkersExclusive /\ RowsFollowWorkers
        /\ AwaitedIsYoung /\ CommitsOnlyWhenDone
    BY DEF IInv
  <2>4. RequestsExclusive' /\ WorkersExclusive'
    BY <2>1, <2>2, <2>3 DEF TypeOK, RequestsExclusive, WorkersExclusive, Busy
  <2>5. RowsFollowWorkers'
    BY <2>1, <2>2, <2>3 DEF TypeOK, RowsFollowWorkers, WorkersExclusive, Busy
  <2>6. AwaitedIsYoung' /\ CommitsOnlyWhenDone'
    BY <2>1, <2>2, <2>3 DEF TypeOK, AwaitedIsYoung, Awaited, CommitsOnlyWhenDone
  <2> QED BY <2>4, <2>5, <2>6 DEF Parts
<1>2. CASE SetStarted(w)
  <2>1. wjob[w] \in Jobs /\ reqs[wjob[w]] = 0 /\ commits[wjob[w]] = 0
    BY <1>2 DEF SetStarted, TypeOK, WorkersExclusive, RequestsExclusive, RowsFollowWorkers,
                CommitsOnlyWhenDone, Busy
  <2>2. \A v \in Workers : v # w => wjob[v] # wjob[w]
    BY <2>1 DEF WorkersExclusive
  <2> QED
    BY <1>2, <2>1, <2>2
    DEF SetStarted, Store, TypeOK, Parts, RequestsExclusive, WorkersExclusive, RowsFollowWorkers,
        AwaitedIsYoung, CommitsOnlyWhenDone, Busy, Awaited
<1>3. CASE Perform(w)
  BY <1>3
  DEF Perform, TypeOK, Parts, RequestsExclusive, WorkersExclusive, RowsFollowWorkers,
      AwaitedIsYoung, CommitsOnlyWhenDone, Busy, Awaited, rowVars
<1>4. CASE Commit(w) \/ StoreConflict(w) \/ Postpone(w) \/ Fail(w)
  <2>1. PICK j \in Jobs : j = wjob[w]
    BY <1>4 DEF Commit, StoreConflict, Postpone, Fail, WorkersExclusive, Busy
  <2>2. /\ pc[w] = "performing" /\ reqs[j] = 0 /\ commits[j] = 0
        /\ \A v \in Workers : v # w => wjob[v] # j
    BY <1>4, <2>1 DEF Commit, StoreConflict, Postpone, Fail, TypeOK, WorkersExclusive,
                      RequestsExclusive, RowsFollowWorkers, CommitsOnlyWhenDone
  <2>3. PICK s \in States : Store(j, s, wretry[w])
    BY <1>4, <2>1 DEF Commit, StoreConflict, Postpone, Fail, States
  <2>4. Release(w, "idle") /\ UNCHANGED reqs
    BY <1>4 DEF Commit, StoreConflict, Postpone, Fail
  <2>5. \/ UNCHANGED commits
        \/ Commit(w)
    BY <1>4 DEF StoreConflict, Postpone, Fail
  <2>6. RequestsExclusive' /\ WorkersExclusive'
    BY <2>1, <2>2, <2>3, <2>4
    DEF Store, Release, TypeOK, RequestsExclusive, WorkersExclusive, Busy
  <2>7. RowsFollowWorkers' /\ AwaitedIsYoung'
    BY <2>1, <2>2, <2>3, <2>4
    DEF Store, Release, TypeOK, RowsFollowWorkers, WorkersExclusive, AwaitedIsYoung, Awaited, Busy
  <2>8. CommitsOnlyWhenDone'
    BY <2>1, <2>2, <2>3, <2>5 DEF Commit, Store, TypeOK, CommitsOnlyWhenDone
  <2> QED BY <2>6, <2>7, <2>8 DEF Parts
<1>5. CASE Crash(w) \/ KillOverdue(w)
  <2>1. Release(w, "down") /\ UNCHANGED <<state, age, reqs, commits>>
    BY <1>5 DEF Crash, KillOverdue, rowVars
  <2> QED
    BY <2>1
    DEF Release, TypeOK, Parts, RequestsExclusive, WorkersExclusive, RowsFollowWorkers,
        AwaitedIsYoung, CommitsOnlyWhenDone, Busy, Awaited
<1>6. CASE Boot(w)
  <2>1. Requeue({}) /\ UNCHANGED <<wjob, wretry, wage>>
    BY <1>6 DEF Boot, Quiet
  <2>2. \A v \in Workers : pc'[v] = pc[v] \/ (pc[v] = "down" /\ pc'[v] = "idle")
    BY <1>6 DEF Boot, TypeOK
  <2>3. IInv'
    BY <2>1, <2>2, RequeueStep
  <2> QED BY <2>3 DEF Parts
<1> QED BY <1>1, <1>2, <1>3, <1>4, <1>5, <1>6 DEF WorkerStep

\* What the two crons requeue, no live process holds.
LEMMA CronsSpare ==
  ASSUME Quiet, IInv
  PROVE  /\ \A j \in OutdatedJobs : ~Awaited(j) /\ ~Running(j)
         /\ \A j \in OldEnqueuedJobs : ~Awaited(j) /\ ~Running(j)
<1> USE JobQueueAssumption
<1>1. ASSUME NEW j \in OutdatedJobs
      PROVE  ~Awaited(j) /\ ~Running(j)
  BY DEF OutdatedJobs, StartedJobs, IInv, TypeOK, RequestsExclusive, RowsFollowWorkers, Awaited,
         Running, Busy
<1>2. ASSUME NEW j \in OldEnqueuedJobs
      PROVE  ~Awaited(j) /\ ~Running(j)
  BY DEF OldEnqueuedJobs, IInv, TypeOK, RowsFollowWorkers, AwaitedIsYoung, Awaited, Running
<1> QED BY <1>1, <1>2

LEMMA IInvStep == Quiet /\ IInv /\ [Next]_vars => IInv'
<1> SUFFICES ASSUME Quiet, IInv, [Next]_vars
             PROVE  IInv'
  OBVIOUS
<1>1. TypeOK'
  BY TypeStep, IInvHolds DEF IInv
<1>2. ASSUME NEW j \in Jobs, JobStep(j)
      PROVE  IInv'
  BY <1>1, <1>2, JobStepKeeps DEF IInv, Parts
<1>3. ASSUME NEW w \in Workers, WorkerStep(w)
      PROVE  IInv'
  BY <1>1, <1>3, WorkerStepKeeps DEF IInv, Parts
<1>4. CASE EnqueueOutdatedJobs
  <2>1. Requeue(OutdatedJobs) /\ OutdatedJobs \in SUBSET Jobs
    BY <1>4 DEF EnqueueOutdatedJobs, OutdatedJobs, StartedJobs
  <2>2. UNCHANGED <<pc, wjob, wretry, wage>>
    BY <1>4 DEF EnqueueOutdatedJobs, workerVars
  <2> QED BY <1>1, <2>1, <2>2, CronsSpare, RequeueStep
<1>5. CASE EnqueueOldEnqueuedJobs
  <2>1. Requeue(OldEnqueuedJobs) /\ OldEnqueuedJobs \in SUBSET Jobs
    BY <1>5 DEF EnqueueOldEnqueuedJobs, OldEnqueuedJobs
  <2>2. UNCHANGED <<pc, wjob, wretry, wage>>
    BY <1>5 DEF EnqueueOldEnqueuedJobs, workerVars
  <2> QED BY <1>1, <2>1, <2>2, CronsSpare, RequeueStep
<1>6. CASE Tick
  <2> USE JobQueueAssumption
  <2>1. UNCHANGED <<state, reqs, pc, wjob, commits>>
    BY <1>6 DEF Tick
  <2>2. RequestsExclusive' /\ WorkersExclusive' /\ CommitsOnlyWhenDone'
    BY <2>1 DEF IInv, RequestsExclusive, WorkersExclusive, CommitsOnlyWhenDone, Busy
  <2>3. RowsFollowWorkers'
    BY <1>6 DEF Tick, Ages, Older, IInv, TypeOK, WorkersExclusive, RowsFollowWorkers, Busy
  <2>4. AwaitedIsYoung'
    BY <1>6 DEF Tick, Ages, Older, IInv, TypeOK, RequestsExclusive, WorkersExclusive,
                RowsFollowWorkers, AwaitedIsYoung, Awaited, Busy, Quiet
  <2> QED BY <1>1, <2>2, <2>3, <2>4 DEF IInv
<1>7. CASE UNCHANGED vars
  BY <1>7
  DEF vars, IInv, TypeOK, RequestsExclusive, WorkersExclusive, RowsFollowWorkers,
      AwaitedIsYoung, CommitsOnlyWhenDone, Busy, Awaited
<1> QED BY <1>2, <1>3, <1>4, <1>5, <1>6, <1>7 DEF Next

LEMMA IInvCorrect == ASSUME Quiet PROVE Spec => []IInv
<1>1. Init => IInv
  BY IInvInit
<1>2. IInv /\ [Next]_vars => IInv'
  BY IInvStep
<1> QED BY <1>1, <1>2, PTL DEF Spec

\* The effects of a job are committed once at most, whatever crashes, retries,
\* kills, lost requests and requeues by the crons come between the two
\* transactions of _try_perform_job_custom.
THEOREM CommitsOnce == ASSUME Quiet PROVE Spec => []CommitsAtMostOnce
<1>1. IInv => CommitsAtMostOnce
  BY DEF IInv, CommitsOnlyWhenDone, CommitsAtMostOnce
<1> QED BY <1>1, IInvCorrect, PTL

\* enqueue_outdated_jobs and enqueue_old_enqued_jobs never requeue a job whose
\* process is alive or whose request is on its way.
THEOREM CronsSpareLive == ASSUME Quiet PROVE Spec => CronsSpareLiveRuns
<1>1. ASSUME IInv, [Next]_vars, NEW j \in Jobs,
             EnqueueOutdatedJobs \/ EnqueueOldEnqueuedJobs, state'[j] # state[j]
      PROVE  ~Running(j) /\ ~Awaited(j)
  <2>1. CASE EnqueueOutdatedJobs
    <3>1. j \in OutdatedJobs
      BY <1>1, <2>1 DEF EnqueueOutdatedJobs, Requeue, IInv, TypeOK
    <3> QED BY <3>1, <1>1, CronsSpare
  <2>2. CASE EnqueueOldEnqueuedJobs
    <3>1. j \in OldEnqueuedJobs
      BY <1>1, <2>2 DEF EnqueueOldEnqueuedJobs, Requeue, IInv, TypeOK
    <3> QED BY <3>1, <1>1, CronsSpare
  <2> QED BY <1>1, <2>1, <2>2
<1>2. IInv /\ [Next]_vars =>
        [\A j \in Jobs :
           (EnqueueOutdatedJobs \/ EnqueueOldEnqueuedJobs) /\ state'[j] # state[j]
             => ~Running(j) /\ ~Awaited(j)]_vars
  BY <1>1
<1> QED BY <1>2, IInvCorrect, PTL DEF Spec, CronsSpareLiveRuns

LEMMA DoneStays ==
  ASSUME IInv, [Next]_vars, NEW d \in Jobs, state[d] = "done"
  PROVE  state'[d] = "done"
<1> USE DEF TypeOK
<1>1. TypeOK /\ WorkersExclusive /\ RowsFollowWorkers
  BY DEF IInv
<1>2. \A w \in Workers : Busy(w) => wjob[w] \in Jobs \ {d}
  BY <1>1 DEF WorkersExclusive, RowsFollowWorkers, Busy
<1>3. \A S \in SUBSET Jobs : Requeue(S) => state'[d] = "done"
  BY <1>1 DEF Requeue
<1>4. ASSUME NEW j \in Jobs, JobStep(j)
      PROVE  state'[d] = "done"
  BY <1>1, <1>3, <1>4
  DEF JobStep, Delay, Enqueue, LoseRequest, ButtonRequeue, SetToDone, Store, rowVars
<1>5. ASSUME NEW w \in Workers, WorkerStep(w)
      PROVE  state'[d] = "done"
  <2>1. CASE Boot(w)
    <3>1. \E S \in SUBSET Jobs : Requeue(S)
      BY <2>1 DEF Boot, StartedJobs
    <3> QED BY <3>1, <1>3
  <2>2. CASE SetStarted(w) \/ Commit(w) \/ StoreConflict(w) \/ Postpone(w) \/ Fail(w)
    <3>1. Busy(w) /\ \E s \in States, n \in Nat : Store(wjob[w], s, n)
      BY <2>2, <1>1
      DEF SetStarted, Commit, StoreConflict, Postpone, Fail, Busy, States
    <3> QED BY <3>1, <1>1, <1>2 DEF Store
  <2>3. CASE ~Boot(w) /\ UNCHANGED state
    BY <2>3
  <2>4. Boot(w) \/ UNCHANGED state
        \/ SetStarted(w) \/ Commit(w) \/ StoreConflict(w) \/ Postpone(w) \/ Fail(w)
    BY <1>5 DEF WorkerStep, Load, Perform, Crash, KillOverdue, rowVars
  <2> QED BY <2>1, <2>2, <2>3, <2>4
<1>6. CASE EnqueueOutdatedJobs \/ EnqueueOldEnqueuedJobs
  <2>1. \E S \in SUBSET Jobs : Requeue(S)
    BY <1>6 DEF EnqueueOutdatedJobs, EnqueueOldEnqueuedJobs, OutdatedJobs, OldEnqueuedJobs,
                StartedJobs
  <2> QED BY <2>1, <1>3
<1>7. CASE Tick \/ UNCHANGED vars
  BY <1>7 DEF Tick, vars
<1> QED BY <1>4, <1>5, <1>6, <1>7 DEF Next

\* "Job in state done cannot be requeued": nothing takes a job out of done, though
\* workers store the copy they hold in memory without a look at the row.
THEOREM DoneForEver == ASSUME Quiet PROVE Spec => DoneIsFinal
<1>1. IInv /\ [Next]_vars =>
        [\A j \in Jobs : state[j] = "done" => state'[j] = "done"]_vars
  BY DoneStays
<1> QED BY <1>1, IInvCorrect, PTL DEF Spec, DoneIsFinal

\* A job shown as done had its effects committed or was set to done by hand: here
\* nothing is asked of users, hooks and requests.
THEOREM DoneIsReal == Spec => []DoneMeansCommitted
<1>1. Init => DoneMeansCommitted
  BY DEF Init, DoneMeansCommitted
<1>2. TypeOK /\ HoldsItsJob /\ DoneMeansCommitted /\ [Next]_vars => DoneMeansCommitted'
  <2> SUFFICES ASSUME TypeOK, HoldsItsJob, DoneMeansCommitted, [Next]_vars, NEW d \in Jobs
               PROVE  (state[d] = "done" /\ d \notin byHand => commits[d] > 0)'
    BY DEF DoneMeansCommitted
  <2> USE DEF DoneMeansCommitted, TypeOK
  <2>1. ASSUME NEW S \in SUBSET Jobs, Requeue(S)
        PROVE  (state[d] = "done" /\ d \notin byHand => commits[d] > 0)'
    BY <2>1 DEF Requeue
  <2>2. ASSUME NEW j \in Jobs, JobStep(j)
        PROVE  (state[d] = "done" /\ d \notin byHand => commits[d] > 0)'
    BY <2>2, <2>1
    DEF JobStep, Delay, Enqueue, LoseRequest, ButtonRequeue, SetToDone, Store, rowVars
  <2>3. ASSUME NEW w \in Workers, WorkerStep(w)
        PROVE  (state[d] = "done" /\ d \notin byHand => commits[d] > 0)'
    <3>1. CASE Boot(w)
      <4>1. \E S \in SUBSET Jobs : Requeue(S)
        BY <3>1 DEF Boot, StartedJobs
      <4> QED BY <4>1, <2>1
    <3>2. CASE Commit(w)
      <4>1. wjob[w] \in Jobs
        BY <3>2 DEF Commit, HoldsItsJob, Busy
      <4> QED BY <3>2, <4>1 DEF Commit, Store
    <3>3. CASE SetStarted(w)
      BY <3>3 DEF SetStarted, Store
    <3>4. CASE StoreConflict(w) \/ Postpone(w) \/ Fail(w)
      BY <3>4 DEF StoreConflict, Postpone, Fail, Store
    <3>5. CASE UNCHANGED <<state, byHand, commits>>
      BY <3>5
    <3>6. \/ Boot(w) \/ Commit(w) \/ SetStarted(w) \/ StoreConflict(w) \/ Postpone(w) \/ Fail(w)
          \/ UNCHANGED <<state, byHand, commits>>
      BY <2>3 DEF WorkerStep, Load, Perform, Crash, KillOverdue, rowVars
    <3> QED BY <3>1, <3>2, <3>3, <3>4, <3>5, <3>6
  <2>4. CASE EnqueueOutdatedJobs \/ EnqueueOldEnqueuedJobs
    <3>1. \E S \in SUBSET Jobs : Requeue(S)
      BY <2>4 DEF EnqueueOutdatedJobs, EnqueueOldEnqueuedJobs, OutdatedJobs, OldEnqueuedJobs,
                  StartedJobs
    <3> QED BY <3>1, <2>1
  <2>5. CASE Tick \/ UNCHANGED vars
    BY <2>5 DEF Tick, vars
  <2> QED BY <2>2, <2>3, <2>4, <2>5 DEF Next
<1> QED BY <1>1, <1>2, TypeInit, TypeStep, PTL DEF Spec
=============================================================================
