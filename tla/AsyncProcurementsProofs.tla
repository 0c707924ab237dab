----------------------- MODULE AsyncProcurementsProofs -----------------------
(***************************************************************************)
(* Proofs about AsyncProcurements, for any number of procurements, moves,  *)
(* jobs and retries and any kinds of jobs: types, claims that keep the     *)
(* jobs of a procurement apart, and moves that are confirmed once.         *)
(***************************************************************************)
EXTENDS AsyncProcurements, TLAPS, FiniteSetTheorems, WellFoundedInduction

(* The inductive invariant *)

\* A live job of the run and check launchers owns every row it was given: only
\* rows that no live job claims are claimed again.
OwnersHold ==
  \A j \in Jobs : Live(j) /\ kind[j] \in {"run", "check"} =>
    args[j] \subseteq Procs /\ \A p \in args[j] : claim[p] = j

\* A claim on a move is that of a job that confirms moves, live or over, as the
\* number of a job whose claims are left is not given again.
MovesClaimed ==
  \A m \in Moves : mclaim[m] # NoJob =>
    jstate[mclaim[m]] # "none" /\ OnMoves(mclaim[m])

\* The launcher leaves no move of a job without a claim.
NoneUnclaimed ==
  \A j \in Jobs : Live(j) /\ OnMoves(j) =>
    args[j] \subseteq Moves /\ \A m \in args[j] : mclaim[m] # NoJob

\* When only jobs confirm moves, the moves that a live job claims are not confirmed.
StillDraft ==
  \A j \in Jobs : Live(j) /\ OnMoves(j) =>
    \A m \in args[j] : mclaim[m] = j => mstate[m] \in {"draft", "cancel"}

\* Nothing is cancelled when no job is launched to do so.
NoneCancelled ==
  Kinds \intersect Acts = {} =>
    /\ \A j \in Jobs : kind[j] \notin Acts
    /\ \A m \in Moves : mstate[m] # "cancel" /\ <<m, "cancel">> \notin misconfirmed

Claims == OwnersHold /\ MovesClaimed /\ NoneUnclaimed

Drafts == ~UserMoves => StillDraft /\ ConfirmedOnce

IInv == TypeOK /\ Claims /\ Drafts /\ NoneCancelled

-----------------------------------------------------------------------------
(* Numbers for new jobs *)

LEMMA Least ==
  ASSUME NEW T \in SUBSET Nat, T # {}
  PROVE  \E x \in T : \A y \in T : x <= y
<1> DEFINE less == OpToRel(<, Nat)
<1>1. IsWellFoundedOn(less, Nat)
  BY NatLessThanWellFounded
<1>2. PICK x \in T : \A y \in T : ~ (<<y, x>> \in less)
  <2> HIDE DEF less
  <2> QED BY <1>1, WFMin
<1>3. \A y \in T : y < x => <<y, x>> \in less
  BY DEF OpToRel
<1>4. ASSUME NEW y \in T
      PROVE  x <= y
  <2>1. ~(y < x)
    <3> HIDE DEF less
    <3> QED BY <1>2, <1>3
  <2> QED BY <2>1
<1> QED BY <1>4

\* In a finite set of numbers there is an element below which there are n others,
\* for each n smaller than the set.
LEMMA RankReached ==
  ASSUME NEW N \in Nat, NEW S \in SUBSET (1 .. N), NEW n \in Nat, n < Cardinality(S)
  PROVE  \E j \in S : Cardinality({i \in S : i < j}) = n
<1> DEFINE Below(k) == {i \in S : i < k}
<1> DEFINE T == {k \in Nat : Cardinality(Below(k)) > n}
<1>0. \A i \in S : i \in Nat /\ i > 0 /\ i < N + 1
  OBVIOUS
<1>1. IsFiniteSet(S)
  <2>1. IsFiniteSet(1 .. N)
    BY FS_Interval
  <2> QED BY <2>1, FS_Subset
<1>2. \A k \in Nat : IsFiniteSet(Below(k)) /\ Cardinality(Below(k)) \in Nat
  BY <1>1, FS_Subset, FS_CardinalityType
<1>3. N + 1 \in T
  <2>1. Below(N + 1) = S
    BY <1>0
  <2>2. Cardinality(Below(N + 1)) > n
    BY <2>1, <1>1, FS_CardinalityType
  <2> QED BY <2>2
<1>4. PICK k \in T : \A y \in T : k <= y
  <2> HIDE DEF T
  <2>1. T \subseteq Nat
    BY DEF T
  <2> QED BY <1>3, <2>1, Least
<1>5. k # 0
  <2>1. Below(0) = {}
    <3>1. \A i \in S : ~(i < 0)
      BY <1>0
    <3> QED BY <3>1
  <2>2. Cardinality(Below(0)) = 0
    <3> HIDE DEF Below
    <3> QED BY <2>1, FS_EmptySet
  <2> QED BY <2>2
<1>6. k - 1 \in Nat /\ k - 1 \notin T
  BY <1>4, <1>5
<1>7. Below(k) \ {k - 1} = Below(k - 1) /\ (k - 1 \in S => k - 1 \in Below(k))
  <2>1. \A i \in S : i < k /\ i # k - 1 <=> i < k - 1
    BY <1>0, <1>6
  <2>2. k - 1 < k
    OBVIOUS
  <2> QED BY <2>1, <2>2
<1>8. Cardinality(Below(k - 1)) <= n
  <2>1. Cardinality(Below(k - 1)) \in Nat
    BY <1>6, <1>2
  <2> QED BY <2>1, <1>6
<1>9. Cardinality(Below(k)) > n
  OBVIOUS
<1>10. k - 1 \in S
  <2>1. k - 1 \notin S => Below(k) \ {k - 1} = Below(k)
    OBVIOUS
  <2> QED BY <2>1, <1>7, <1>8, <1>9, <1>6, <1>2
<1>12. Cardinality(Below(k)) = Cardinality(Below(k - 1)) + 1
  <2> HIDE DEF Below
  <2>1. Cardinality(Below(k) \ {k - 1}) = Cardinality(Below(k)) - 1
    BY <1>2, <1>7, <1>10, FS_RemoveElement
  <2> QED BY <2>1, <1>7, <1>2
<1>13. Cardinality(Below(k - 1)) = n
  BY <1>12, <1>8, <1>9, <1>6, <1>2
<1> QED BY <1>10, <1>13

LEMMA FreeIsFinite == Free \in SUBSET (1 .. NJobs) /\ Cardinality(Free) \in Nat
<1>1. IsFiniteSet(1 .. NJobs) /\ NJobs \in Nat
  BY AsyncAssumption, FS_Interval
<1>2. Free \in SUBSET (1 .. NJobs)
  BY DEF Free, Jobs
<1> QED BY <1>1, <1>2, FS_Subset, FS_CardinalityType

\* New numbers are free ones, as long as there are enough.
LEMMA NewJobIsFree ==
  ASSUME NEW n \in Nat, n < Cardinality(Free)
  PROVE  NewJob(n) \in Free
<1>1. \E j \in Free : Cardinality({i \in Free : i < j}) = n
  <2>1. NJobs \in Nat
    BY AsyncAssumption
  <2> QED BY <2>1, FreeIsFinite, RankReached
<1> QED BY <1>1 DEF NewJob

\* The position of a procurement among those that are launched
LEMMA PositionIsBelow ==
  ASSUME NEW S \in SUBSET Procs, NEW p \in S
  PROVE  /\ Cardinality(S) \in Nat
         /\ Cardinality({q \in S : q < p}) \in 0 .. Cardinality(S) - 1
<1> DEFINE T == {q \in S : q < p}
<1>1. IsFiniteSet(Procs) /\ NProcs \in Nat
  BY AsyncAssumption, FS_Interval DEF Procs
<1>2. IsFiniteSet(S)
  BY <1>1, FS_Subset
<1>3. T \in SUBSET S /\ p \notin T
  BY <1>1 DEF Procs
<1>4. Cardinality(T) <= Cardinality(S) /\ Cardinality(T) # Cardinality(S)
  <2> HIDE DEF T
  <2> QED BY <1>2, <1>3, FS_Subset
<1>5. Cardinality(T) \in Nat /\ Cardinality(S) \in Nat
  BY <1>2, <1>3, FS_Subset, FS_CardinalityType
<1> QED BY <1>4, <1>5

-----------------------------------------------------------------------------
(* Launches *)

\* What the jobs in progress know of other's writes has its type.
Noted == stale' \subseteq Jobs /\ drifted' \subseteq Jobs \X Moves

LEMMA WroteIsNoted ==
  ASSUME NEW P, NEW M, Wrote(P, M)
  PROVE  Noted
  BY DEF Wrote, Noted

\* What the launchers have in common: the jobs js of kind k are created, with
\* numbers that were free, and take rows that no live job claims.
Launched(js, k) ==
  /\ js \subseteq Free
  /\ k \in JobKinds \intersect Kinds
  /\ jstate' = [j \in Jobs |-> IF j \in js THEN "pending" ELSE jstate[j]]
  /\ kind' = [j \in Jobs |-> IF j \in js THEN k ELSE kind[j]]
  /\ args' \in [Jobs -> SUBSET (Procs \union Moves)]
  /\ \A j \in Jobs \ js : args'[j] = args[j]
  /\ retry' = [j \in Jobs |-> IF j \in js THEN 0 ELSE retry[j]]
  /\ Noted
  /\ UNCHANGED <<pstate, mstate, misconfirmed>>
  /\ claim' \in [Procs -> Jobs \union {NoJob}]
  /\ \A p \in Procs : claim'[p] = claim[p] \/ p \in Unclaimed(claim)
  /\ k \in {"run", "check"} =>
       \A j \in js : args'[j] \subseteq Procs /\ \A p \in args'[j] : claim'[p] = j
  /\ mclaim' \in [Moves -> Jobs \union {NoJob}]
  /\ \A m \in Moves :
       mclaim'[m] = mclaim[m] \/ (k = "moves" /\ mclaim'[m] \in js)
  /\ k = "moves" =>
       \A j \in js : /\ args'[j] \subseteq Moves
                      /\ \A m \in args'[j] : mstate[m] = "draft" /\ mclaim'[m] # NoJob

\* The part of a launch that Create does
CreatedJobs(js, k, work) ==
  /\ js \subseteq Free
  /\ k \in JobKinds \intersect Kinds
  /\ jstate' = [j \in Jobs |-> IF j \in js THEN "pending" ELSE jstate[j]]
  /\ kind' = [j \in Jobs |-> IF j \in js THEN k ELSE kind[j]]
  /\ args' = [j \in Jobs |-> IF j \in js THEN work[j] ELSE args[j]]
  /\ retry' = [j \in Jobs |-> IF j \in js THEN 0 ELSE retry[j]]
  /\ UNCHANGED misconfirmed

LEMMA Created ==
  ASSUME NEW k, NEW n \in Nat, NEW work, Create(k, n, work)
  PROVE  CreatedJobs({NewJob(i) : i \in 0 .. n - 1}, k, work)
<1>1. \A i \in 0 .. n - 1 : NewJob(i) \in Free
  <2> SUFFICES ASSUME NEW i \in 0 .. n - 1
               PROVE  NewJob(i) \in Free
    OBVIOUS
  <2>1. n <= Cardinality(Free)
    BY DEF Create
  <2>2. i \in Nat /\ i < Cardinality(Free)
    BY <2>1, FreeIsFinite
  <2> QED BY <2>2, NewJobIsFree
<1>2. k \in JobKinds \intersect Kinds
  BY AsyncAssumption DEF Create
<1> QED BY <1>1, <1>2 DEF Create, CreatedJobs

LEMMA UnclaimedRows ==
  ASSUME TypeOK
  PROVE  /\ Unclaimed(claim) = {p \in Procs : claim[p] = NoJob \/ Over(claim[p])}
         /\ Unclaimed(mclaim) = {m \in Moves : mclaim[m] = NoJob \/ Over(mclaim[m])}
  BY DEF TypeOK, Unclaimed

LEMMA RunsLaunched ==
  ASSUME TypeOK, LaunchRuns
  PROVE  \E js, k : Launched(js, k)
<1> DEFINE todo == {p \in Unclaimed(claim) : pstate[p] = "confirmed"}
           JobFor(p) == NewJob(Cardinality({q \in todo : q < p}))
           work == [j \in Jobs |-> {p \in todo : JobFor(p) = j}]
           js == {NewJob(i) : i \in 0 .. Cardinality(todo) - 1}
<1>1. todo \in SUBSET Procs
  BY UnclaimedRows
<1>2. \A p \in todo : JobFor(p) \in js
  <2> SUFFICES ASSUME NEW p \in todo
               PROVE  JobFor(p) \in js
    OBVIOUS
  <2>1. Cardinality({q \in todo : q < p}) \in 0 .. Cardinality(todo) - 1
    <3> HIDE DEF todo
    <3> QED BY <1>1, PositionIsBelow
  <2> QED BY <2>1
<1>3. Cardinality(todo) \in Nat
  <2>1. PICK p : p \in todo
    BY DEF LaunchRuns
  <2> HIDE DEF todo
  <2> QED BY <1>1, <2>1, PositionIsBelow
<1>4. /\ Create("run", Cardinality(todo), work)
      /\ claim' = [p \in Procs |-> IF p \in todo THEN JobFor(p) ELSE claim[p]]
      /\ Wrote(todo, {})
      /\ UNCHANGED <<pstate, moveVars>>
  BY DEF LaunchRuns
<1>5. CreatedJobs(js, "run", work)
  <2> HIDE DEF todo, work
  <2> QED BY <1>3, <1>4, Created
<1>6. Noted
  <2> HIDE DEF todo
  <2> QED BY <1>4, WroteIsNoted
<1>7. js \subseteq Jobs
  BY <1>5 DEF CreatedJobs, Free
<1>8. todo \subseteq Unclaimed(claim)
  OBVIOUS
<1>9. \A j \in js : args'[j] = {p \in todo : JobFor(p) = j}
  <2> HIDE DEF todo, JobFor, js
  <2> QED BY <1>5, <1>7 DEF CreatedJobs
<1>10. \A j \in Jobs \ js : args'[j] = args[j]
  <2> HIDE DEF todo, JobFor, js, work
  <2> QED BY <1>5 DEF CreatedJobs
<1>11. args' \in [Jobs -> SUBSET (Procs \union Moves)]
  <2> HIDE DEF todo, JobFor, js
  <2> QED BY <1>1, <1>5 DEF CreatedJobs, TypeOK
<1>12. claim' \in [Procs -> Jobs \union {NoJob}]
  <2> HIDE DEF todo, JobFor, js
  <2> QED BY <1>2, <1>4, <1>7 DEF TypeOK
<1>13. Launched(js, "run")
  <2>1. \A p \in Procs : claim'[p] = claim[p] \/ p \in Unclaimed(claim)
    <3> HIDE DEF todo, JobFor, js
    <3> QED BY <1>4, <1>8
  <2>2. \A j \in js : args'[j] \subseteq Procs /\ \A p \in args'[j] : claim'[p] = j
    <3> HIDE DEF todo, JobFor, js
    <3> QED BY <1>1, <1>4, <1>9
  <2>3. UNCHANGED <<pstate, mstate, mclaim>>
    <3> HIDE DEF todo, JobFor, js, work
    <3> QED BY <1>4 DEF moveVars
  <2>4. mclaim' \in [Moves -> Jobs \union {NoJob}]
    BY <2>3 DEF TypeOK
  <2> HIDE DEF todo, JobFor, js, work
  <2>5. /\ js \subseteq Free
        /\ "run" \in JobKinds \intersect Kinds
        /\ jstate' = [j \in Jobs |-> IF j \in js THEN "pending" ELSE jstate[j]]
        /\ kind' = [j \in Jobs |-> IF j \in js THEN "run" ELSE kind[j]]
        /\ retry' = [j \in Jobs |-> IF j \in js THEN 0 ELSE retry[j]]
        /\ UNCHANGED <<pstate, mstate, misconfirmed>>
    BY <1>5, <2>3 DEF CreatedJobs
  <2>6. \A m \in Moves : mclaim'[m] = mclaim[m]
    BY <2>3
  <2> QED BY <1>6, <1>10, <1>11, <1>12, <2>1, <2>2, <2>4, <2>5, <2>6
          DEF Launched
<1> QED BY <1>13

\* A launch of one job with the rows todo
LEMMA OneCreated ==
  ASSUME TypeOK, NEW k, NEW todo \in SUBSET (Procs \union Moves), Create(k, 1, [j \in Jobs |-> todo])
  PROVE  /\ CreatedJobs({NewJob(0)}, k, [j \in Jobs |-> todo])
         /\ NewJob(0) \in Jobs
         /\ args' \in [Jobs -> SUBSET (Procs \union Moves)]
         /\ args'[NewJob(0)] = todo
         /\ \A j \in Jobs \ {NewJob(0)} : args'[j] = args[j]
<1>1. {NewJob(i) : i \in 0 .. 1 - 1} = {NewJob(0)}
  OBVIOUS
<1>2. CreatedJobs({NewJob(0)}, k, [j \in Jobs |-> todo])
  BY <1>1, Created
<1>3. NewJob(0) \in Jobs
  BY <1>2 DEF CreatedJobs, Free
<1> QED BY <1>2, <1>3 DEF CreatedJobs, TypeOK

LEMMA OthersLaunched ==
  ASSUME TypeOK, Launch, ~LaunchRuns
  PROVE  \E js, k : Launched(js, k)
<1>1. CASE LaunchCheck
  <2>1. PICK todo : todo = {p \in Unclaimed(claim) : pstate[p] = "running"}
    OBVIOUS
  <2>2. /\ todo \subseteq Procs
        /\ todo \subseteq Unclaimed(claim)
    BY <2>1, UnclaimedRows
  <2>3. /\ Create("check", 1, [j \in Jobs |-> todo])
        /\ claim' = [p \in Procs |-> IF p \in todo THEN NewJob(0) ELSE claim[p]]
        /\ Wrote(todo, {})
        /\ UNCHANGED <<pstate, mstate, mclaim>>
    BY <1>1, <2>1 DEF LaunchCheck, moveVars
  <2>4. Noted
    BY <2>3, WroteIsNoted
  <2>5. /\ CreatedJobs({NewJob(0)}, "check", [j \in Jobs |-> todo])
        /\ NewJob(0) \in Jobs
        /\ args' \in [Jobs -> SUBSET (Procs \union Moves)]
        /\ args'[NewJob(0)] = todo
        /\ \A j \in Jobs \ {NewJob(0)} : args'[j] = args[j]
    BY <2>2, <2>3, OneCreated
  <2>6. Launched({NewJob(0)}, "check")
    BY <2>2, <2>3, <2>4, <2>5 DEF Launched, CreatedJobs, TypeOK
  <2> QED BY <2>6
<1>2. CASE RestartProcInException
  <2>1. PICK todo : todo = {p \in Procs : pstate[p] = "exception"}
    OBVIOUS
  <2>2. /\ todo \subseteq Procs
        /\ Create("restart", 1, [j \in Jobs |-> todo])
        /\ UNCHANGED <<pstate, claim, mstate, mclaim>>
        /\ Noted
    BY <1>2, <2>1, WroteIsNoted DEF RestartProcInException, procVars, moveVars
  <2>3. /\ CreatedJobs({NewJob(0)}, "restart", [j \in Jobs |-> todo])
        /\ NewJob(0) \in Jobs
        /\ args' \in [Jobs -> SUBSET (Procs \union Moves)]
        /\ \A j \in Jobs \ {NewJob(0)} : args'[j] = args[j]
    BY <2>2, OneCreated
  <2>4. Launched({NewJob(0)}, "restart")
    BY <2>2, <2>3 DEF Launched, CreatedJobs, TypeOK
  <2> QED BY <2>4
<1>3. CASE LaunchMoves
  <2>1. PICK todo, claimed : /\ todo = {m \in Moves : mstate[m] = "draft"}
                             /\ claimed = todo \intersect Unclaimed(mclaim)
    OBVIOUS
  <2>2. /\ todo \subseteq Moves
        /\ Create("moves", 1, [j \in Jobs |-> todo])
        /\ mclaim' = [m \in Moves |-> IF m \in claimed THEN NewJob(0) ELSE mclaim[m]]
        /\ Wrote({}, claimed)
        /\ UNCHANGED <<pstate, claim, mstate>>
    BY <1>3, <2>1 DEF LaunchMoves, procVars
  <2>3. Noted
    BY <2>2, WroteIsNoted
  <2>4. /\ CreatedJobs({NewJob(0)}, "moves", [j \in Jobs |-> todo])
        /\ NewJob(0) \in Jobs
        /\ args' \in [Jobs -> SUBSET (Procs \union Moves)]
        /\ args'[NewJob(0)] = todo
        /\ \A j \in Jobs \ {NewJob(0)} : args'[j] = args[j]
    BY <2>2, OneCreated
  <2>5. \A m \in todo : mstate[m] = "draft" /\ mclaim'[m] # NoJob
    BY <2>1, <2>2, <2>4, AsyncAssumption, UnclaimedRows
  <2>6. Launched({NewJob(0)}, "moves")
    BY <2>2, <2>3, <2>4, <2>5 DEF Launched, CreatedJobs, TypeOK
  <2> QED BY <2>6
<1>4. CASE \E k \in Acts, p \in Procs : LaunchOnProc(k, p)
  <2>1. PICK k \in Acts, p \in Procs : LaunchOnProc(k, p)
    BY <1>4
  <2>2. PICK todo : todo = {p}
    OBVIOUS
  <2>3. /\ todo \subseteq Procs
        /\ Create(k, 1, [j \in Jobs |-> todo])
        /\ UNCHANGED <<pstate, claim, mstate, mclaim>>
        /\ Noted
    BY <2>1, <2>2, WroteIsNoted DEF LaunchOnProc, procVars, moveVars
  <2>4. /\ CreatedJobs({NewJob(0)}, k, [j \in Jobs |-> todo])
        /\ NewJob(0) \in Jobs
        /\ args' \in [Jobs -> SUBSET (Procs \union Moves)]
        /\ \A j \in Jobs \ {NewJob(0)} : args'[j] = args[j]
    BY <2>3, OneCreated
  <2>5. Launched({NewJob(0)}, k)
    BY <2>3, <2>4 DEF Launched, CreatedJobs, TypeOK, Acts
  <2> QED BY <2>5
<1> QED BY <1>1, <1>2, <1>3, <1>4 DEF Launch

LEMMA LaunchKeeps ==
  ASSUME IInv, Launch
  PROVE  IInv'
<1>1. PICK js, k : Launched(js, k)
  BY RunsLaunched, OthersLaunched DEF IInv
<1> USE <1>1 DEF Launched, IInv
<1>2. js \subseteq Jobs /\ NoJob \notin Jobs
  BY AsyncAssumption DEF Free
<1>3. TypeOK'
  BY <1>2, AsyncAssumption DEF TypeOK, Noted
<1>4. \A j \in js : ~Live(j) /\ (\A m \in Moves : mclaim[m] = j => jstate[j] = "none")
  BY DEF Free, Over, Live
<1>5. OwnersHold'
  <2> SUFFICES ASSUME NEW j \in Jobs, Live(j)', kind'[j] \in {"run", "check"}
               PROVE  args'[j] \subseteq Procs /\ \A p \in args'[j] : claim'[p] = j
    BY DEF OwnersHold
  <2>1. CASE j \in js
    BY <2>1
  <2>2. CASE j \notin js
    <3>1. jstate'[j] = jstate[j] /\ kind'[j] = kind[j] /\ args'[j] = args[j]
      BY <2>2
    <3>2. Live(j) /\ args[j] \subseteq Procs /\ \A p \in args[j] : claim[p] = j
      BY <3>1 DEF OwnersHold, Claims, Live
    <3>3. j # NoJob /\ ~Over(j)
      BY <1>2, <3>2 DEF Live, Over
    <3>4. \A p \in args[j] : p \notin Unclaimed(claim)
      BY <3>2, <3>3, UnclaimedRows
    <3> QED BY <3>1, <3>2, <3>4
  <2> QED BY <2>1, <2>2
<1>6. MovesClaimed'
  BY <1>2, <1>3, <1>4 DEF MovesClaimed, Claims, OnMoves, TypeOK
<1>7. NoneUnclaimed'
  BY <1>2, <1>3, <1>4 DEF NoneUnclaimed, Claims, OnMoves, Live, TypeOK
<1>8. Drafts'
  BY <1>2, <1>3, <1>4 DEF Drafts, StillDraft, ConfirmedOnce, NoneUnclaimed, Claims, OnMoves, Live, TypeOK
<1>9. NoneCancelled'
  BY <1>2, <1>3 DEF NoneCancelled, TypeOK
<1> QED BY <1>3, <1>5, <1>6, <1>7, <1>8, <1>9 DEF Claims

-----------------------------------------------------------------------------
(* The steps of jobs, users and orders *)

\* A step that creates no job and writes no claim
Quiet ==
  /\ UNCHANGED <<claim, mclaim, kind, args>>
  /\ \A j \in Jobs : jstate[j] # "none" => jstate'[j] # "none"
  /\ \A j \in Jobs : Live(j)' => Live(j)

\* The step confirms no move that a job claims which is live after it.
LeavesClaimed ==
  \A j \in Jobs, m \in Moves :
    Live(j)' /\ mclaim[m] = j /\ mstate[m] \in {"draft", "cancel"} => mstate'[m] \in {"draft", "cancel"}

\* Without jobs that cancel, it cancels no move, and none that is cancelled is confirmed.
CancelsNone ==
  Kinds \intersect Acts = {} =>
    \A m \in Moves : mstate'[m] # "cancel" /\ <<m, "cancel">> \notin misconfirmed'

LEMMA QuietKeeps ==
  ASSUME IInv, Quiet, TypeOK', CancelsNone,
         ~UserMoves => LeavesClaimed /\ ConfirmedOnce'
  PROVE  IInv'
<1>1. OwnersHold'
  BY DEF IInv, Claims, OwnersHold, Quiet, Live
<1>2. MovesClaimed'
  BY AsyncAssumption DEF IInv, Claims, MovesClaimed, Quiet, OnMoves, TypeOK
<1>3. NoneUnclaimed'
  BY DEF IInv, Claims, NoneUnclaimed, Quiet, Live, OnMoves
<1>4. Drafts'
  <2>1. ASSUME ~UserMoves
        PROVE  StillDraft'
    BY <2>1, <1>3 DEF IInv, Drafts, StillDraft, NoneUnclaimed, LeavesClaimed, Quiet, Live, OnMoves
  <2> QED BY <2>1 DEF Drafts
<1>5. NoneCancelled'
  BY DEF IInv, NoneCancelled, CancelsNone, Quiet
<1> QED BY <1>1, <1>2, <1>3, <1>4, <1>5 DEF IInv, Claims

\* A job that changes no move and no move's record
LEMMA SameMoves ==
  ASSUME IInv, Quiet, TypeOK', UNCHANGED <<mstate, misconfirmed>>
  PROVE  IInv'
<1>1. LeavesClaimed
  BY DEF LeavesClaimed
<1>2. ~UserMoves => ConfirmedOnce'
  BY DEF IInv, Drafts, ConfirmedOnce
<1>3. CancelsNone
  BY DEF IInv, NoneCancelled, CancelsNone
<1> QED BY <1>1, <1>2, <1>3, QuietKeeps

LEMMA PostponeTypes ==
  ASSUME TypeOK, NEW j \in Jobs, PostponeJob(j), Live(j)
  PROVE  TypeOK' /\ Quiet /\ UNCHANGED <<mstate, misconfirmed>>
<1>1. retry[j] \in 0 .. MaxRetries /\ MaxRetries \in Nat
  BY AsyncAssumption DEF TypeOK
<1>2. retry' \in [Jobs -> 0 .. MaxRetries]
  BY <1>1 DEF TypeOK, PostponeJob
<1>3. jstate' \in [Jobs -> {"none", "pending", "started", "locked", "done", "failed"}]
  BY DEF TypeOK, PostponeJob
<1>4. UNCHANGED <<pstate, claim, mstate, mclaim, kind, args, misconfirmed>> /\ Noted
  BY WroteIsNoted DEF PostponeJob, procVars, moveVars
<1>5. TypeOK'
  BY <1>2, <1>3, <1>4 DEF TypeOK, Noted
<1>6. \A i \in Jobs : jstate[i] # "none" => jstate'[i] # "none"
  BY DEF TypeOK, PostponeJob
<1>7. \A i \in Jobs : Live(i)' => Live(i)
  BY DEF TypeOK, PostponeJob, Live
<1> QED BY <1>4, <1>5, <1>6, <1>7 DEF Quiet

\* The end of a job: it is done, and nothing else of the jobs changes.
LEMMA EndIsQuiet ==
  ASSUME TypeOK, NEW j \in Jobs, Live(j), NEW to \in {"pending", "started", "locked", "done"},
         jstate' = [jstate EXCEPT ![j] = to],
         UNCHANGED <<claim, mclaim, kind, args>>
  PROVE  /\ Quiet
         /\ jstate' \in [Jobs -> {"none", "pending", "started", "locked", "done", "failed"}]
         /\ jstate'[j] = to
<1>1. jstate' \in [Jobs -> {"none", "pending", "started", "locked", "done", "failed"}]
  BY DEF TypeOK
<1>2. \A i \in Jobs : jstate[i] # "none" => jstate'[i] # "none"
  BY DEF TypeOK
<1>3. \A i \in Jobs : Live(i)' => Live(i)
  BY DEF TypeOK, Live
<1> QED BY <1>1, <1>2, <1>3 DEF Quiet, TypeOK

\* A step of a job that changes neither procurements nor moves
LEMMA IdleKeeps ==
  ASSUME IInv, NEW j \in Jobs, Live(j), NEW to \in {"pending", "started", "locked", "done"},
         jstate' = [jstate EXCEPT ![j] = to],
         Wrote({}, {}),
         UNCHANGED <<procVars, moveVars, kind, args, retry, misconfirmed>>
  PROVE  IInv'
<1>1. UNCHANGED <<pstate, claim, mstate, mclaim, kind, args, retry, misconfirmed>>
  BY DEF procVars, moveVars
<1>2. /\ Quiet
      /\ jstate' \in [Jobs -> {"none", "pending", "started", "locked", "done", "failed"}]
  BY <1>1, EndIsQuiet DEF IInv
<1>3. TypeOK'
  BY <1>1, <1>2, WroteIsNoted DEF TypeOK, IInv, Noted
<1> QED BY <1>1, <1>2, <1>3, SameMoves

LEMMA PostponeKeeps ==
  ASSUME IInv, NEW j \in Jobs, Live(j), PostponeJob(j)
  PROVE  IInv'
  BY PostponeTypes, SameMoves DEF IInv

LEMMA StartKeeps ==
  ASSUME IInv, NEW j \in Jobs, Start(j)
  PROVE  IInv'
  BY IdleKeeps DEF Start, Live

LEMMA LockKeeps ==
  ASSUME IInv, NEW j \in Jobs, Lock(j)
  PROVE  IInv'
<1>1. PICK to \in {"done", "locked"} : jstate' = [jstate EXCEPT ![j] = to]
  BY DEF Lock
<1> QED BY <1>1, IdleKeeps DEF Lock, Live

LEMMA LockItsMovesKeeps ==
  ASSUME IInv, NEW j \in Jobs, LockItsMoves(j)
  PROVE  IInv'
  BY IdleKeeps DEF LockItsMoves, Live

LEMMA AgainKeeps ==
  ASSUME IInv, NEW j \in Jobs, ActAgain(j)
  PROVE  IInv'
  BY IdleKeeps DEF ActAgain, Live

\* A job on procurements confirms moves that it claims or that nobody claims, and it
\* is over when it has.
LEMMA ConfirmItsKeeps ==
  ASSUME IInv, NEW j \in Jobs, Live(j),
         NEW ps \in [Procs -> {"confirmed", "running", "exception", "done", "cancel"}],
         NEW ms \in [Moves -> {"none", "draft", "confirmed", "cancel"}],
         \A m \in Moves : ms[m] = mstate[m] \/ (mstate[m] = "none" /\ ms[m] = "draft"),
         NEW P, ConfirmItsMoves(j, ps, ms, P)
  PROVE  IInv'
<1> DEFINE drafts == {m \in MovesOf(Own(j, claim)) : ms[m] = "draft" \/ <<j, m>> \in drifted}
           mine == {m \in drafts : mclaim[m] \in {NoJob, j}}
           refused == \E m \in drafts : m \in LockedMoves \/ <<j, m>> \in drifted
<1>1. CASE refused
  <2>1. /\ jstate' = [jstate EXCEPT ![j] = "done"]
        /\ Wrote({}, {})
        /\ UNCHANGED <<procVars, moveVars, kind, args, retry, misconfirmed>>
    BY <1>1 DEF ConfirmItsMoves
  <2> HIDE DEF drafts, mine, refused
  <2> QED BY <2>1, IdleKeeps
<1>2. CASE PostponeJob(j)
  BY <1>2, PostponeKeeps
<1>3. CASE ~refused /\ ~PostponeJob(j)
  <2>1. /\ pstate' = ps
        /\ mstate' = [m \in Moves |-> IF m \in mine THEN "confirmed" ELSE ms[m]]
        /\ jstate' = [jstate EXCEPT ![j] = "done"]
        /\ Wrote(P, mine)
        /\ UNCHANGED <<claim, mclaim, kind, args, retry, misconfirmed>>
    BY <1>3 DEF ConfirmItsMoves
  <2>2. \A m \in mine : m \in Moves /\ mclaim[m] \in {NoJob, j}
    BY DEF MovesOf
  <2>3. \A m \in mine : ms[m] = "draft"
    BY <1>3
  <2> HIDE DEF drafts, mine, refused
  <2>4. /\ Quiet
        /\ jstate' \in [Jobs -> {"none", "pending", "started", "locked", "done", "failed"}]
        /\ jstate'[j] = "done"
    BY <2>1, EndIsQuiet DEF IInv
  <2>5. Noted
    BY <2>1, WroteIsNoted
  <2>6. TypeOK'
    BY <2>1, <2>4, <2>5 DEF TypeOK, IInv, Noted
  <2>7. LeavesClaimed
    BY <2>1, <2>2, <2>4, AsyncAssumption DEF LeavesClaimed, Live
  <2>8. ConfirmedOnce' <=> ConfirmedOnce
    BY <2>1 DEF ConfirmedOnce
  <2>9. CancelsNone
    BY <2>1 DEF CancelsNone, NoneCancelled, IInv
  <2> QED BY <2>4, <2>6, <2>7, <2>8, <2>9, QuietKeeps DEF IInv, Drafts
<1> QED BY <1>1, <1>2, <1>3

LEMMA RunKeeps ==
  ASSUME IInv, NEW j \in Jobs, RunProcurements(j)
  PROVE  IInv'
<1> DEFINE own == Own(j, claim)
           torun == {p \in own : pstate[p] \in {"confirmed", "exception", "cancel"}}
           psOf(ok) == [p \in Procs |-> IF p \in ok THEN "running"
                                       ELSE IF p \in torun THEN "exception" ELSE pstate[p]]
           msOf(made) == [m \in Moves |-> IF m \in made THEN "draft" ELSE mstate[m]]
<1>1. Live(j) /\ TypeOK
  BY DEF RunProcurements, Live, IInv
<1>2. CASE PostponeJob(j)
  BY <1>1, <1>2, PostponeKeeps
<1>3. CASE ~PostponeJob(j)
  <2>1. PICK ok \in SUBSET torun : \E made \in NewMoves(ok) :
          ConfirmItsMoves(j, psOf(ok), msOf(made), torun)
    BY <1>3 DEF RunProcurements
  <2>2. PICK made \in NewMoves(ok) : ConfirmItsMoves(j, psOf(ok), msOf(made), torun)
    BY <2>1
  <2>3. psOf(ok) \in [Procs -> {"confirmed", "running", "exception", "done", "cancel"}]
    BY <1>1 DEF TypeOK
  <2>4. \A m \in made : mstate[m] = "none"
    BY DEF NewMoves
  <2>5. /\ msOf(made) \in [Moves -> {"none", "draft", "confirmed", "cancel"}]
        /\ \A m \in Moves : \/ msOf(made)[m] = mstate[m]
                            \/ mstate[m] = "none" /\ msOf(made)[m] = "draft"
    BY <1>1, <2>4 DEF TypeOK
  <2> HIDE DEF torun, psOf, msOf
  <2> QED BY <1>1, <2>2, <2>3, <2>5, ConfirmItsKeeps
<1> QED BY <1>2, <1>3

LEMMA CheckKeeps ==
  ASSUME IInv, NEW j \in Jobs, CheckProcurements(j)
  PROVE  IInv'
<1> DEFINE psOf(finished) == [p \in Procs |-> IF p \in finished THEN "done" ELSE pstate[p]]
<1>1. Live(j) /\ TypeOK
  BY DEF CheckProcurements, Live, IInv
<1>2. CASE PostponeJob(j)
  BY <1>1, <1>2, PostponeKeeps
<1>3. CASE ~PostponeJob(j)
  <2>1. PICK finished : ConfirmItsMoves(j, psOf(finished), mstate, finished)
    BY <1>3 DEF CheckProcurements
  <2>2. psOf(finished) \in [Procs -> {"confirmed", "running", "exception", "done", "cancel"}]
    BY <1>1 DEF TypeOK
  <2>3. mstate \in [Moves -> {"none", "draft", "confirmed", "cancel"}]
    BY <1>1 DEF TypeOK
  <2> HIDE DEF psOf
  <2> QED BY <1>1, <2>1, <2>2, <2>3, ConfirmItsKeeps
<1> QED BY <1>2, <1>3

LEMMA ConfirmKeeps ==
  ASSUME IInv, NEW j \in Jobs, ConfirmMoves(j)
  PROVE  IInv'
<1>1. jstate[j] = "locked" /\ Live(j) /\ OnMoves(j) /\ TypeOK
  BY DEF ConfirmMoves, Live, IInv
<1>2. CASE PostponeJob(j)
  BY <1>1, <1>2, PostponeKeeps
<1>3. ASSUME ~PostponeJob(j)
      PROVE  IInv'
  <2>1. PICK own : own = Own(j, mclaim)
    OBVIOUS
  <2>2. /\ mstate' = [m \in Moves |-> IF m \in own THEN "confirmed" ELSE mstate[m]]
        /\ misconfirmed' = misconfirmed
             \union {d \in Moves \X {"confirmed", "cancel"} : d[1] \in own /\ d[2] = mstate[d[1]]}
        /\ jstate' = [jstate EXCEPT ![j] = "done"]
        /\ Wrote({}, own)
        /\ UNCHANGED <<pstate, claim, mclaim, kind, args, retry>>
    BY <1>3, <2>1 DEF ConfirmMoves, procVars
  <2>3. Noted
    BY <2>2, WroteIsNoted
  <2>4. /\ Quiet
        /\ jstate' \in [Jobs -> {"none", "pending", "started", "locked", "done", "failed"}]
        /\ jstate'[j] = "done"
    BY <1>1, <2>2, EndIsQuiet
  <2>5. misconfirmed' \subseteq Moves \X {"confirmed", "cancel"}
    BY <1>1, <2>2 DEF TypeOK
  <2>6. TypeOK'
    BY <1>1, <2>2, <2>3, <2>4, <2>5 DEF TypeOK, Noted
  <2>7. \A m \in own : m \in args[j] /\ m \in Moves /\ mclaim[m] = j
    BY <1>1, <2>1 DEF Own, IInv, Claims, NoneUnclaimed
  <2>8. LeavesClaimed
    BY <1>1, <2>2, <2>4, <2>7 DEF LeavesClaimed, Live
  <2>9. ASSUME ~UserMoves
        PROVE  ConfirmedOnce'
    <3>1. \A m \in own : mstate[m] # "confirmed"
      BY <1>1, <2>7, <2>9 DEF IInv, Drafts, StillDraft
    <3> QED BY <2>2, <2>9, <3>1 DEF ConfirmedOnce, IInv, Drafts
  <2>10. CancelsNone
    BY <2>2 DEF CancelsNone, NoneCancelled, IInv
  <2> QED BY <2>4, <2>6, <2>8, <2>9, <2>10, QuietKeeps
<1> QED BY <1>2, <1>3

\* A job that cancels or reconfirms cancels moves and makes new ones, which no job claims.
LEMMA ActKeeps ==
  ASSUME IInv, NEW j \in Jobs, NEW p \in Procs, ActOnProc(j, p)
  PROVE  IInv'
<1> DEFINE gone == IF Locking(j) /\ Cancels(j, p) THEN Open(p) ELSE {}
           written == IF Cancels(j, p) \/ kind[j] = "reconfirm" THEN {p} ELSE {}
           Acted(kept, to, made, new) ==
             /\ pstate' = [q \in Procs |-> IF q \in written THEN to ELSE pstate[q]]
             /\ mstate' = [m \in Moves |-> IF m \in gone \ kept THEN "cancel"
                                          ELSE IF m \in made THEN new ELSE mstate[m]]
             /\ jstate' = [jstate EXCEPT ![j] = "done"]
             /\ Wrote(written, gone \ kept)
<1>1. /\ Live(j) /\ TypeOK /\ kind[j] \in Acts
      /\ UNCHANGED <<claim, mclaim, kind, args, retry, misconfirmed>>
  BY DEF ActOnProc, Live, IInv
<1>2. PICK kept \in SUBSET {m \in gone : mstate[m] = "confirmed"},
           to \in IF kind[j] = "cancel" THEN {"cancel"} ELSE {"running", "exception"} :
        \E made \in IF to = "running" THEN NewMoves({p}) ELSE {{}}, new \in {"draft", "confirmed"} :
          Acted(kept, to, made, new)
  BY DEF ActOnProc
<1>3. PICK made \in IF to = "running" THEN NewMoves({p}) ELSE {{}}, new \in {"draft", "confirmed"} :
         Acted(kept, to, made, new)
  BY <1>2
<1>4. \A m \in made : mstate[m] = "none"
  BY DEF NewMoves
<1>5. PICK cancelled : cancelled = gone \ kept
  OBVIOUS
<1>6. PICK wr : wr = written
  OBVIOUS
<1>7. /\ pstate' = [q \in Procs |-> IF q \in wr THEN to ELSE pstate[q]]
      /\ mstate' = [m \in Moves |-> IF m \in cancelled THEN "cancel"
                                   ELSE IF m \in made THEN new ELSE mstate[m]]
      /\ jstate' = [jstate EXCEPT ![j] = "done"]
      /\ Wrote(wr, cancelled)
  BY <1>3, <1>5, <1>6
<1> HIDE DEF gone, written, Acted
<1>8. /\ Quiet
      /\ jstate' \in [Jobs -> {"none", "pending", "started", "locked", "done", "failed"}]
  BY <1>1, <1>7, EndIsQuiet
<1>9. TypeOK'
  BY <1>1, <1>7, <1>8, WroteIsNoted DEF TypeOK, Noted
<1>10. LeavesClaimed
  BY <1>4, <1>7 DEF LeavesClaimed
<1>11. ConfirmedOnce' <=> ConfirmedOnce
  BY <1>1 DEF ConfirmedOnce
<1>12. CancelsNone
  BY <1>1 DEF CancelsNone, NoneCancelled, IInv
<1> QED BY <1>8, <1>9, <1>10, <1>11, <1>12, QuietKeeps DEF IInv, Drafts

LEMMA CancelKeeps ==
  ASSUME IInv, NEW p \in Procs, CancelOrder(p)
  PROVE  IInv'
<1>1. /\ pstate' = [pstate EXCEPT ![p] = "exception"]
      /\ UNCHANGED <<claim, mstate, mclaim, jstate, kind, args, retry, misconfirmed>>
      /\ Noted
  BY WroteIsNoted DEF CancelOrder, moveVars, jobVars
<1>2. TypeOK'
  BY <1>1 DEF TypeOK, IInv, Noted
<1>3. Quiet
  BY <1>1 DEF Quiet, Live
<1> QED BY <1>1, <1>2, <1>3, SameMoves

LEMMA UserKeeps ==
  ASSUME IInv, NEW m \in Moves, UserConfirms(m)
  PROVE  IInv'
<1>1. /\ UserMoves
      /\ mstate' = [mstate EXCEPT ![m] = "confirmed"]
      /\ UNCHANGED <<pstate, claim, mclaim, jstate, kind, args, retry, misconfirmed>>
      /\ Noted
  BY WroteIsNoted DEF UserConfirms, procVars, jobVars
<1>2. TypeOK'
  BY <1>1 DEF TypeOK, IInv, Noted
<1>3. Quiet
  BY <1>1 DEF Quiet, Live
<1>4. CancelsNone
  BY <1>1 DEF CancelsNone, NoneCancelled, IInv, TypeOK
<1> QED BY <1>1, <1>2, <1>3, <1>4, QuietKeeps

LEMMA InvInit == Init => IInv
<1> SUFFICES ASSUME Init
             PROVE  IInv
  OBVIOUS
<1>1. TypeOK
  BY AsyncAssumption DEF Init, TypeOK
<1>2. Claims
  BY DEF Init, Claims, OwnersHold, MovesClaimed, NoneUnclaimed, Live
<1>3. Drafts
  BY DEF Init, Drafts, StillDraft, ConfirmedOnce, Live
<1>4. NoneCancelled
  BY DEF Init, NoneCancelled, Acts
<1> QED BY <1>1, <1>2, <1>3, <1>4 DEF IInv

LEMMA StepKeeps == IInv /\ [Next]_vars => IInv'
<1> SUFFICES ASSUME IInv, [Next]_vars
             PROVE  IInv'
  OBVIOUS
<1>1. CASE Launch
  BY <1>1, LaunchKeeps
<1>2. ASSUME NEW j \in Jobs, Execute(j)
      PROVE  IInv'
  BY <1>2, StartKeeps, LockKeeps, RunKeeps, CheckKeeps, ConfirmKeeps, LockItsMovesKeeps,
     AgainKeeps, ActKeeps DEF Execute
<1>3. ASSUME NEW p \in Procs, CancelOrder(p)
      PROVE  IInv'
  BY <1>3, CancelKeeps
<1>4. ASSUME NEW m \in Moves, UserConfirms(m)
      PROVE  IInv'
  BY <1>4, UserKeeps
<1>5. CASE UNCHANGED vars
  <2>1. UNCHANGED <<pstate, claim, mstate, mclaim, jstate, kind, args, retry, stale, drifted, misconfirmed>>
    BY <1>5 DEF vars, procVars, moveVars, jobVars
  <2>2. Quiet
    BY <2>1 DEF Quiet, Live
  <2>3. TypeOK'
    BY <2>1 DEF TypeOK, IInv
  <2> QED BY <2>1, <2>2, <2>3, SameMoves
<1> QED BY <1>1, <1>2, <1>3, <1>4, <1>5 DEF Next

LEMMA Invariance == Spec => []IInv
  BY InvInit, StepKeeps, PTL DEF Spec

-----------------------------------------------------------------------------
\* Procurements, moves, their claims and the jobs keep their types, whatever is
\* launched, rolled back, postponed or cancelled.
THEOREM TypeCorrect == Spec => []TypeOK
<1>1. IInv => TypeOK
  BY DEF IInv
<1> QED BY <1>1, Invariance, PTL

\* Claims keep the launchers' jobs apart: a procurement is never in two live jobs
\* that run or check procurements (_do_procurements_run_or_check).
THEOREM LiveJobsApart == Spec => []OneLiveJobPerProc
<1>1. IInv => OneLiveJobPerProc
  BY DEF IInv, Claims, OwnersHold, OneLiveJobPerProc, TypeOK
<1> QED BY <1>1, Invariance, PTL

\* When no user confirms moves by hand, no job of confirm_moves confirms a move that
\* another job has confirmed, though several have it in their ids and cancellations
\* and the jobs of its procurement come between.
THEOREM MovesConfirmedOnce == ~UserMoves /\ Spec => []ConfirmedOnce
<1> SUFFICES ASSUME ~UserMoves
             PROVE  Spec => []ConfirmedOnce
  OBVIOUS
<1>1. IInv => ConfirmedOnce
  BY DEF IInv, Drafts
<1> QED BY <1>1, Invariance, PTL

\* The cancellations are all that breaks the promise of confirm_moves: without them
\* and without users who confirm moves, its jobs only confirm moves that are draft.
THEOREM DraftsOnlyWithoutCancels ==
  ~UserMoves /\ Kinds \intersect Acts = {} /\ Spec => []ConfirmsOnlyDraft
<1> SUFFICES ASSUME ~UserMoves, Kinds \intersect Acts = {}
             PROVE  Spec => []ConfirmsOnlyDraft
  OBVIOUS
<1>1. IInv => ConfirmsOnlyDraft
  BY DEF IInv, TypeOK, Drafts, ConfirmedOnce, NoneCancelled, ConfirmsOnlyDraft
<1> QED BY <1>1, Invariance, PTL
=============================================================================
