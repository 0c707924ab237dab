--------------------------- MODULE AsyncProcurements ---------------------------
(***************************************************************************)
(* scheduler_async: procurements and stock moves are run, checked and      *)
(* confirmed by jobs.  A launcher writes the uuid of the job it creates on *)
(* the rows the job is to treat (the claim); the job locks its rows with   *)
(* FOR UPDATE NOWAIT, gives up when it cannot, and treats those that it    *)
(* claims or that nobody claims.                                           *)
(*                                                                         *)
(* A job's transaction is cut in three: its snapshot (Start), its locks    *)
(* (Lock, LockItsMoves) and the rest with the commit.  The moves that are  *)
(* confirmed together are in one group.                                    *)
(***************************************************************************)
EXTENDS Naturals, FiniteSets

CONSTANTS
  NProcs,      \* procurements are 1 .. NProcs
  Moves,       \* stock_move, those to come included
  ProcOf,      \* procurement_id of a move
  NJobs,       \* bound: jobs
  NoJob,       \* an empty uuid
  MaxRetries,  \* job.max_retries
  UserMoves,   \* do users confirm moves?
  Drained,     \* are the jobs of a kind over when it is launched again?
  Kinds        \* the kinds of jobs launched in this instance

Procs == 1 .. NProcs
Jobs == 1 .. NJobs
Acts == {"cancel", "reconfirm"}
JobKinds == {"run", "check", "restart", "moves", "cancel", "reconfirm"}

ASSUME AsyncAssumption ==
  /\ {NProcs, NJobs} \subseteq Nat
  /\ ProcOf \in [Moves -> Procs]
  /\ MaxRetries \in Nat \ {0}
  /\ NoJob \notin Jobs
  /\ {UserMoves, Drained} \subseteq BOOLEAN
  /\ Kinds \subseteq JobKinds

VARIABLES
  pstate,      \* procurement_order.state
  claim,       \* procurement_order.run_or_confirm_job_uuid
  mstate,      \* stock_move.state, "none" for a move to come
  mclaim,      \* stock_move.confirm_job_uuid
  jstate,      \* queue_job.state; "started" has a snapshot, "locked" its locks
  kind,        \* the function of the job, and for "restart" its launcher
  args,        \* the ids given to the job
  retry,       \* queue_job.retry
  stale,       \* jobs that are to lock a row changed since their snapshot
  drifted,     \* moves that a job has read as draft, and that were changed since
  misconfirmed \* moves that jobs confirmed when not draft, for the properties

procVars == <<pstate, claim>>
moveVars == <<mstate, mclaim>>
jobVars == <<jstate, kind, args, retry>>
vars == <<procVars, moveVars, jobVars, stale, drifted, misconfirmed>>

TypeOK ==
  /\ pstate \in [Procs -> {"confirmed", "running", "exception", "done", "cancel"}]
  /\ claim \in [Procs -> Jobs \union {NoJob}]
  /\ mstate \in [Moves -> {"none", "draft", "confirmed", "cancel"}]
  /\ mclaim \in [Moves -> Jobs \union {NoJob}]
  /\ jstate \in [Jobs -> {"none", "pending", "started", "locked", "done", "failed"}]
  /\ kind \in [Jobs -> JobKinds \union {"none"}]
  /\ args \in [Jobs -> SUBSET (Procs \union Moves)]
  /\ retry \in [Jobs -> 0 .. MaxRetries]
  /\ stale \subseteq Jobs
  /\ drifted \subseteq Jobs \X Moves
  /\ misconfirmed \subseteq Moves \X {"confirmed", "cancel"}

Init ==
  /\ pstate = [p \in Procs |-> "confirmed"]
  /\ claim = [p \in Procs |-> NoJob]
  /\ mstate \in [Moves -> {"none", "draft"}]
  /\ mclaim = [m \in Moves |-> NoJob]
  /\ jstate = [j \in Jobs |-> "none"]
  /\ kind = [j \in Jobs |-> "none"]
  /\ args = [j \in Jobs |-> {}]
  /\ retry = [j \in Jobs |-> 0]
  /\ stale = {}
  /\ drifted = {}
  /\ misconfirmed = {}

-----------------------------------------------------------------------------
Over(j) == jstate[j] \in {"done", "failed"}

OnMoves(j) == kind[j] = "moves"

Locking(j) == jstate[j] = "locked"

MovesOf(P) == {m \in Moves : ProcOf[m] \in P}

\* Rows locked by a transaction in progress: the rows it was given, or the moves that a
\* job is cancelling, which are open and which it writes before their procurement.
LockedProcs == UNION {args[j] : j \in {i \in Jobs : Locking(i) /\ kind[i] \notin Acts \union {"moves"}}}

Open(p) == {m \in MovesOf({p}) : mstate[m] \in {"draft", "confirmed"}}

LockedMoves ==
  UNION {args[j] : j \in {i \in Jobs : Locking(i) /\ OnMoves(i)}}
    \union UNION {UNION {Open(p) : p \in args[j]} : j \in {i \in Jobs : Locking(i) /\ kind[i] \in Acts}}

Live(j) == jstate[j] \in {"pending", "started", "locked"}

\* Mutants of Unclaimed: a started job loses its claims, none is ever lost.
NotPendingClaimed(c) == {p \in DOMAIN c : c[p] = NoJob \/ jstate[c[p]] # "pending"}
NeverClaimed(c) == {p \in DOMAIN c : c[p] = NoJob}

\* The rows with no uuid, or the uuid of a job that is over.
Unclaimed(c) == {p \in DOMAIN c : c[p] = NoJob \/ Over(c[p])}

\* Mutant of Own: claims are not looked at.
AllItsRows(j, c) == args[j]

\* The rows of job j that it may treat: those nobody claims, and its own.
Own(j, c) == {p \in args[j] : c[p] \in {NoJob, j}}

\* The rows that job j locks or writes are among the procurements P and the moves M.
Touched(j, P, M) ==
  \/ ~OnMoves(j) /\ args[j] \intersect P # {}
  \/ OnMoves(j) /\ args[j] \intersect M # {}
  \/ kind[j] \in Acts /\ MovesOf(args[j]) \intersect M # {}

\* A transaction has written the procurements P and the moves M.  Others learn of it
\* when they lock these rows: a job on procurements locks their draft moves at its end.
Wrote(P, M) ==
  /\ stale' = {j \in Jobs :
                 /\ jstate'[j] = "started" \/ (jstate'[j] = "locked" /\ kind[j] \in Acts)
                 /\ j \in stale \/ (jstate[j] \in {"started", "locked"} /\ Touched(j, P, M))}
  /\ drifted' = {d \in Jobs \X Moves :
                   /\ jstate'[d[1]] \in {"started", "locked"}
                   /\ \/ d \in drifted
                      \/ /\ jstate[d[1]] \in {"started", "locked"}
                         /\ kind[d[1]] \in {"run", "check", "restart"}
                         /\ d[2] \in M \intersect MovesOf(args[d[1]]) /\ mstate[d[2]] = "draft"}

\* Numbers for new jobs: a job that is over and claims no row is forgotten.
Free ==
  {j \in Jobs :
     \/ jstate[j] = "none"
     \/ Over(j) /\ (\A p \in Procs : claim[p] # j) /\ (\A m \in Moves : mclaim[m] # j)}

\* The next free numbers, in the order of creation.
NewJob(n) == CHOOSE j \in Free : Cardinality({i \in Free : i < j}) = n

\* n jobs of kind k are created, each with the ids that work gives it.
Create(k, n, work) ==
  LET js == {NewJob(i) : i \in 0 .. n - 1} IN
  /\ k \in Kinds
  /\ Drained => \A j \in Jobs : Live(j) => kind[j] # k
  /\ n <= Cardinality(Free)
  /\ jstate' = [j \in Jobs |-> IF j \in js THEN "pending" ELSE jstate[j]]
  /\ kind' = [j \in Jobs |-> IF j \in js THEN k ELSE kind[j]]
  /\ args' = [j \in Jobs |-> IF j \in js THEN work[j] ELSE args[j]]
  /\ retry' = [j \in Jobs |-> IF j \in js THEN 0 ELSE retry[j]]
  /\ UNCHANGED misconfirmed

-----------------------------------------------------------------------------
\* _do_procurements_run_or_check('confirmed', 'run'): one job for each confirmed
\* procurement that no pending or running job claims.  Writing a claim on a
\* locked row waits for the lock and then fails.
LaunchRuns ==
  LET todo == {p \in Unclaimed(claim) : pstate[p] = "confirmed"}
      JobFor(p) == NewJob(Cardinality({q \in todo : q < p}))
      work == [j \in Jobs |-> {p \in todo : JobFor(p) = j}]
  IN
  /\ todo # {}
  /\ todo \intersect LockedProcs = {}
  /\ Create("run", Cardinality(todo), work)
  /\ claim' = [p \in Procs |-> IF p \in todo THEN JobFor(p) ELSE claim[p]]
  /\ Wrote(todo, {})
  /\ UNCHANGED <<pstate, moveVars>>

\* _do_procurements_run_or_check('running', 'check'): one job for all.
LaunchCheck ==
  LET todo == {p \in Unclaimed(claim) : pstate[p] = "running"}
  IN
  /\ todo # {}
  /\ todo \intersect LockedProcs = {}
  /\ Create("check", 1, [j \in Jobs |-> todo])
  /\ claim' = [p \in Procs |-> IF p \in todo THEN NewJob(0) ELSE claim[p]]
  /\ Wrote(todo, {})
  /\ UNCHANGED <<pstate, moveVars>>

\* restart_proc_in_exception: one job for the procurements in exception, whose
\* claim is left as it is.
RestartProcInException ==
  LET todo == {p \in Procs : pstate[p] = "exception"}
  IN
  /\ todo # {}
  /\ Create("restart", 1, [j \in Jobs |-> todo])
  /\ Wrote({}, {})
  /\ UNCHANGED <<procVars, moveVars>>

\* run_confirm_moves: the job gets every draft move of the group, the claim is
\* written on those only that no pending or running job claims.
LaunchMoves ==
  LET todo == {m \in Moves : mstate[m] = "draft"}
      claimed == todo \intersect Unclaimed(mclaim)
  IN
  /\ todo # {}
  /\ claimed \intersect LockedMoves = {}
  /\ Create("moves", 1, [j \in Jobs |-> todo])
  /\ mclaim' = [m \in Moves |-> IF m \in claimed THEN NewJob(0) ELSE mclaim[m]]
  /\ Wrote({}, claimed)
  /\ UNCHANGED <<procVars, mstate>>

\* launch_job_cancel_procurement, launch_job_reconfirm_procurement.
LaunchOnProc(k, p) ==
  /\ Create(k, 1, [j \in Jobs |-> {p}])
  /\ Wrote({}, {})
  /\ UNCHANGED <<procVars, moveVars>>

-----------------------------------------------------------------------------
Start(j) ==
  /\ jstate[j] = "pending"
  /\ jstate' = [jstate EXCEPT ![j] = "started"]
  /\ Wrote({}, {})
  /\ UNCHANGED <<procVars, moveVars, kind, args, retry, misconfirmed>>

\* SELECT ... FOR UPDATE NOWAIT: refused when a row is locked or was changed
\* after the snapshot.  The job then ends, done, having treated nothing.
Lock(j) ==
  LET taken == IF OnMoves(j) THEN LockedMoves ELSE LockedProcs IN
  /\ jstate[j] = "started"
  /\ kind[j] \in {"run", "check", "restart", "moves"}
  /\ jstate' = [jstate EXCEPT ![j] =
                  IF j \in stale \/ args[j] \intersect taken # {} THEN "done" ELSE "locked"]
  /\ Wrote({}, {})
  /\ UNCHANGED <<procVars, moveVars, kind, args, retry, misconfirmed>>

\* Mutant of PostponeJob: the last retry is forgotten.
PostponeForEver(j) ==
  /\ jstate' = [jstate EXCEPT ![j] = "pending"]
  /\ retry' = [retry EXCEPT ![j] = @ + 1]
  /\ Wrote({}, {})
  /\ UNCHANGED <<procVars, moveVars, kind, args, misconfirmed>>

\* RetryableJobError: the job is postponed, and fails at its last retry; the
\* row's retry is behind the count of perform() by one.
PostponeJob(j) ==
  /\ jstate' = [jstate EXCEPT ![j] =
                  IF retry[j] >= MaxRetries THEN "done"
                  ELSE IF retry[j] + 1 >= MaxRetries THEN "failed" ELSE "pending"]
  /\ retry' = [retry EXCEPT ![j] = IF @ < MaxRetries THEN @ + 1 ELSE @]
  /\ Wrote({}, {})
  /\ UNCHANGED <<procVars, moveVars, kind, args, misconfirmed>>

\* The end of run_or_check_procurements, in a transaction that has written the
\* procurements P as ps says and has made the moves as ms says.  The draft moves of
\* the procurements it treats are confirmed by a plain call of confirm_moves: when
\* their locks are refused it rolls the whole transaction back, runs and checks
\* included, and the job ends as if nothing had happened.
ConfirmItsMoves(j, ps, ms, P) ==
  LET drafts == {m \in MovesOf(Own(j, claim)) : ms[m] = "draft" \/ <<j, m>> \in drifted}
      mine == {m \in drafts : mclaim[m] \in {NoJob, j}}
      refused == \E m \in drafts : m \in LockedMoves \/ <<j, m>> \in drifted
  IN
  \/ /\ refused
     /\ jstate' = [jstate EXCEPT ![j] = "done"]
     /\ Wrote({}, {})
     /\ UNCHANGED <<procVars, moveVars, kind, args, retry, misconfirmed>>
  \/ ~refused /\ drafts # {} /\ mine = {} /\ PostponeJob(j)
  \/ /\ ~refused /\ (drafts # {} => mine # {})
     /\ pstate' = ps
     /\ mstate' = [m \in Moves |-> IF m \in mine THEN "confirmed" ELSE ms[m]]
     /\ jstate' = [jstate EXCEPT ![j] = "done"]
     /\ Wrote(P, mine)
     /\ UNCHANGED <<claim, mclaim, kind, args, retry, misconfirmed>>

\* The moves that running the procurements P may create, one for each that is not
\* bought or manufactured.
NewMoves(P) ==
  {made \in SUBSET {m \in MovesOf(P) : mstate[m] = "none"} :
     \A m, n \in made : ProcOf[m] = ProcOf[n] => m = n}

\* run_or_check_procurements with action 'run', from its locks to its end.
RunProcurements(j) ==
  LET own == Own(j, claim)
      torun == {p \in own : pstate[p] \in {"confirmed", "exception", "cancel"}}
  IN
  /\ jstate[j] = "locked"
  /\ kind[j] \in {"run", "restart"}
  /\ \/ own = {} /\ PostponeJob(j)
     \/ /\ own # {}
        /\ \E ok \in SUBSET torun : \E made \in NewMoves(ok) :
             ConfirmItsMoves(j,
               [p \in Procs |-> IF p \in ok THEN "running"
                                ELSE IF p \in torun THEN "exception" ELSE pstate[p]],
               [m \in Moves |-> IF m \in made THEN "draft" ELSE mstate[m]],
               torun)

\* The same with action 'check': its draft moves are confirmed as well.
CheckProcurements(j) ==
  LET own == Own(j, claim) IN
  /\ jstate[j] = "locked"
  /\ kind[j] = "check"
  /\ \/ own = {} /\ PostponeJob(j)
     \/ /\ own # {}
        /\ \E finished \in SUBSET {p \in own : pstate[p] = "running"} :
             ConfirmItsMoves(j, [p \in Procs |-> IF p \in finished THEN "done" ELSE pstate[p]],
                             mstate, finished)

\* The end of confirm_moves: action_confirm on the moves it may treat, whatever
\* their state is by now.
ConfirmMoves(j) ==
  LET own == Own(j, mclaim) IN
  /\ jstate[j] = "locked"
  /\ OnMoves(j)
  /\ \/ own = {} /\ PostponeJob(j)
     \/ /\ own # {}
        /\ mstate' = [m \in Moves |-> IF m \in own THEN "confirmed" ELSE mstate[m]]
        /\ misconfirmed' = misconfirmed
             \union {d \in Moves \X {"confirmed", "cancel"} : d[1] \in own /\ d[2] = mstate[d[1]]}
        /\ jstate' = [jstate EXCEPT ![j] = "done"]
        /\ Wrote({}, own)
        /\ UNCHANGED <<procVars, mclaim, kind, args, retry>>

\* job_cancel_procurement and job_reconfirm_procurement start with cancel(), unless it
\* finds the procurement done, or cancelled and not to reconfirm.
Cancels(j, p) == pstate[p] # "done" /\ ~(kind[j] = "cancel" /\ pstate[p] = "cancel")

\* cancel() writes the open moves before their procurement.  No claim is looked at and a
\* lock makes it wait.
LockItsMoves(j) ==
  /\ jstate[j] = "started"
  /\ kind[j] \in Acts /\ j \notin stale
  /\ \E p \in args[j] : Cancels(j, p) /\ Open(p) # {} /\ Open(p) \intersect LockedMoves = {}
  /\ jstate' = [jstate EXCEPT ![j] = "locked"]
  /\ Wrote({}, {})
  /\ UNCHANGED <<procVars, moveVars, kind, args, retry, misconfirmed>>

\* A row that was changed since the snapshot sends the job back.
ActAgain(j) ==
  /\ jstate[j] \in {"started", "locked"}
  /\ kind[j] \in Acts /\ j \in stale
  /\ jstate' = [jstate EXCEPT ![j] = "pending"]
  /\ Wrote({}, {})
  /\ UNCHANGED <<procVars, moveVars, kind, args, retry, misconfirmed>>

\* The end of the two jobs.  The moves that are done, here among the confirmed ones, stay
\* (propagate_cancel), and so do all those of a purchase, which the job has not locked.
\* To reconfirm is then to run the procurement, done or not, which may make a move.
ActOnProc(j, p) ==
  LET gone == IF Locking(j) /\ Cancels(j, p) THEN Open(p) ELSE {}
      written == IF Cancels(j, p) \/ kind[j] = "reconfirm" THEN {p} ELSE {}
  IN
  /\ jstate[j] \in {"started", "locked"}
  /\ kind[j] \in Acts /\ j \notin stale
  /\ args[j] = {p} /\ p \notin LockedProcs
  /\ \E kept \in SUBSET {m \in gone : mstate[m] = "confirmed"},
       to \in IF kind[j] = "cancel" THEN {"cancel"} ELSE {"running", "exception"} :
       \E made \in IF to = "running" THEN NewMoves({p}) ELSE {{}}, new \in {"draft", "confirmed"} :
         /\ pstate' = [q \in Procs |-> IF q \in written THEN to ELSE pstate[q]]
         /\ mstate' = [m \in Moves |-> IF m \in gone \ kept THEN "cancel"
                                      ELSE IF m \in made THEN new ELSE mstate[m]]
         /\ jstate' = [jstate EXCEPT ![j] = "done"]
         /\ Wrote(written, gone \ kept)
  /\ UNCHANGED <<claim, mclaim, kind, args, retry, misconfirmed>>

\* The order of a running procurement is cancelled.
CancelOrder(p) ==
  /\ pstate[p] = "running"
  /\ p \notin LockedProcs
  /\ pstate' = [pstate EXCEPT ![p] = "exception"]
  /\ UNCHANGED <<claim, moveVars, jobVars, misconfirmed>>
  /\ Wrote({p}, {})

\* A user confirms a draft move.
UserConfirms(m) ==
  /\ UserMoves
  /\ mstate[m] = "draft"
  /\ m \notin LockedMoves
  /\ mstate' = [mstate EXCEPT ![m] = "confirmed"]
  /\ UNCHANGED <<procVars, mclaim, jobVars, misconfirmed>>
  /\ Wrote({}, {m})

-----------------------------------------------------------------------------
Launch ==
  \/ LaunchRuns \/ LaunchCheck \/ RestartProcInException \/ LaunchMoves
  \/ \E k \in Acts, p \in Procs : LaunchOnProc(k, p)

Execute(j) ==
  \/ Start(j) \/ Lock(j)
  \/ RunProcurements(j) \/ CheckProcurements(j) \/ ConfirmMoves(j)
  \/ LockItsMoves(j) \/ ActAgain(j) \/ \E p \in Procs : ActOnProc(j, p)

Next ==
  \/ Launch
  \/ \E j \in Jobs : Execute(j)
  \/ \E p \in Procs : CancelOrder(p)
  \/ \E m \in Moves : UserConfirms(m)

Spec == Init /\ [][Next]_vars

\* Launchers are crons, the runner executes every job; a job that has its locks
\* ends.  No user, cancellation or restart is forced.
Fairness ==
  /\ WF_vars(LaunchRuns) /\ WF_vars(LaunchCheck) /\ WF_vars(LaunchMoves)
  /\ \A j \in Jobs : WF_vars(Execute(j))

FairSpec == Spec /\ Fairness

-----------------------------------------------------------------------------
(* Properties *)

\* No procurement is ever in two live jobs of the run and check launchers, which
\* would make them conflict: the claim outlives the launch, and only the end of
\* its job releases it (_do_procurements_run_or_check).
OneLiveJobPerProc ==
  \A i, j \in {k \in Jobs : Live(k) /\ kind[k] \in {"run", "check"}} :
    i # j => args[i] \intersect args[j] = {}

\* A move is confirmed once (confirm_moves): as long as jobs alone confirm moves, none
\* confirms a move that is confirmed, though the job of the launcher, the ones of its
\* procurement and those of earlier launches all may have it in their ids.
ConfirmedOnce == \A m \in Moves : <<m, "confirmed">> \notin misconfirmed

\* "Confirm draft moves" (confirm_moves): a job confirms no move that is not draft, be
\* it confirmed or cancelled since the job was created.  The jobs that cancel
\* procurements break it, as cancel() looks at no claim and confirm_moves at no state.
ConfirmsOnlyDraft == misconfirmed = {}

\* A confirmed procurement is run in the end, whatever conflicts with move
\* confirmations roll its jobs back.
ConfirmedProcsRun == \A p \in Procs : pstate[p] = "confirmed" ~> pstate[p] # "confirmed"

\* A draft move is confirmed in the end.
DraftMovesConfirm == \A m \in Moves : mstate[m] = "draft" ~> mstate[m] = "confirmed"

\* "ce cron relance les procurement en exception" (restart_proc_in_exception): its
\* job does not give up with procurements in exception that no live job claims.
RestartRelaunches ==
  [][\A j \in Jobs : kind[j] = "restart" /\ jstate[j] = "locked" /\ jstate'[j] = "failed"
       => \A p \in args[j] \intersect Unclaimed(claim) : pstate[p] # "exception"]_vars
=============================================================================
