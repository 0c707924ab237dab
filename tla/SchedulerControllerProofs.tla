---------------------- MODULE SchedulerControllerProofs ----------------------
(***************************************************************************)
(* Proofs about SchedulerController, for all orderpoints, companies,       *)
(* sequences, runs, chunk sizes and perils: types, the sequence barrier    *)
(* and the refinement of LineSchedule; then what the cron alone achieves.  *)
(***************************************************************************)
EXTENDS SchedulerController, TLAPS

(* The inductive invariant *)

\* The lines of lower sequences of the run of l are closed.
Cleared(l) == \A k \in Lines : k.run = l.run /\ k.seq < l.seq => status[k] # "open"

\* Line l is in the hands of a job, or of an update that has yet to pop it.
Handed(l) ==
  \/ ljob[l] # NoJob
  \/ \E who \in Callers : l \in todo[who]
  \/ \E p \in Pops : l \in chunk[p]

\* Run r may still insert its lines.
Fresh(r) == kind[r] = "none" \/ head[r] \in {"live", "failed"}

\* Lines are handed in order, and once.  This is needed for SequenceBarrier, as
\* a popped chunk or a requeued pop job writes on lines it read long before: what
\* keeps them legal is that a closed line never opens again.
HandedCleared == \A l \in Lines : Handed(l) => Cleared(l) /\ ~Fresh(l.run)

FreshEmpty == \A l \in Lines : Fresh(l.run) => status[l] = "absent"

UnstartedHasNoHead == \A r \in Runs : kind[r] = "none" => head[r] = "none"

AbsentHasNoJob == \A l \in Lines : status[l] = "absent" => ljob[l] = NoJob

DatedIsDone == \A l \in dated : status[l] = "done"

IInv ==
  /\ TypeOK
  /\ HandedCleared
  /\ FreshEmpty
  /\ UnstartedHasNoHead
  /\ AbsentHasNoJob
  /\ DatedIsDone

-----------------------------------------------------------------------------
(* The lines *)

LEMMA LineFields == \A l \in Lines : l.run \in Runs /\ l.seq \in Nat
<1> SUFFICES ASSUME NEW l \in Lines
             PROVE  l.run \in Runs /\ l.seq \in Nat
  OBVIOUS
<1>1. l \in [run : Runs, op : Orderpoints \union {RunProcs}, seq : Seqs]
  BY DEF Lines
<1>2. Seqs \subseteq Nat
  BY SchedulerAssumption DEF Seqs
<1> QED BY <1>1, <1>2

\* A purge removes done lines only, and all those that have no date.
LEMMA PurgeSpec ==
  ASSUME NEW st, NEW dt, NEW purge \in Purges(st, dt)
  PROVE  /\ purge \subseteq Lines
         /\ \A l \in purge : st[l] = "done"
         /\ \A l \in Lines : st[l] = "done" /\ l \notin dt => l \in purge
  BY DEF Purges

\* What a step may do to the table: insert the lines N of a run that had none,
\* purge done lines, close those that a job has or that come first, remove
\* those that nobody has, and hand lines that come first.
Moves(N) ==
  /\ \A l \in N : Fresh(l.run) /\ ~Fresh(l.run)' /\ status'[l] # "done"
  /\ \A l \in Lines \ N :
       \/ status'[l] = status[l]
       \/ status[l] = "done" /\ status'[l] = "absent"
       \/ /\ status[l] = "open" /\ status'[l] = "done"
          /\ ljob[l] # NoJob \/ (~OrderpointLine(l) /\ Cleared(l)')
       \/ status[l] = "open" /\ status'[l] = "absent" /\ ljob[l] = NoJob
  /\ \A l \in Lines : Handed(l)' => Handed(l) \/ (Cleared(l)' /\ ~Fresh(l.run)')
  /\ \A r \in Runs : Fresh(r)' => Fresh(r)

\* The parts of the invariant that a step keeps by itself.
Rest == TypeOK /\ UnstartedHasNoHead /\ AbsentHasNoJob /\ DatedIsDone

LEMMA MovesKeep ==
  ASSUME IInv, Rest', NEW N \in SUBSET Lines, Moves(N)
  PROVE  IInv'
<1> USE LineFields
<1>1. \A l \in Lines : Handed(l)' => Cleared(l)' /\ ~Fresh(l.run)'
  <2> SUFFICES ASSUME NEW l \in Lines, Handed(l)'
               PROVE  Cleared(l)' /\ ~Fresh(l.run)'
    OBVIOUS
  <2>1. CASE Handed(l)
    <3>1. Cleared(l) /\ ~Fresh(l.run)
      BY <2>1 DEF IInv, HandedCleared
    <3>2. ~Fresh(l.run)'
      BY <3>1 DEF Moves
    <3>3. ASSUME NEW k \in Lines, k.run = l.run, k.seq < l.seq
          PROVE  status'[k] # "open"
      <4>1. k \notin N
        BY <3>1, <3>3 DEF Moves
      <4> QED BY <4>1, <3>1, <3>3 DEF Moves, Cleared
    <3> QED BY <3>2, <3>3 DEF Cleared
  <2>2. CASE ~Handed(l)
    BY <2>2 DEF Moves
  <2> QED BY <2>1, <2>2
<1>2. \A l \in Lines : Fresh(l.run)' => status'[l] = "absent"
  <2> SUFFICES ASSUME NEW l \in Lines, Fresh(l.run)'
               PROVE  status'[l] = "absent"
    OBVIOUS
  <2>1. l \notin N /\ Fresh(l.run)
    BY DEF Moves
  <2>2. status[l] = "absent"
    BY <2>1 DEF IInv, FreshEmpty
  <2> QED BY <2>1, <2>2 DEF Moves
<1>3. HandedCleared' /\ FreshEmpty'
  BY <1>1, <1>2 DEF HandedCleared, FreshEmpty
<1> QED BY <1>3 DEF IInv, Rest

-----------------------------------------------------------------------------
(* The jobs and the head of a run *)

LEMMA LaunchMoves ==
  ASSUME IInv, NEW r \in Runs, NEW c \in Companies, NEW k \in Kinds, Launch(r, c, k)
  PROVE  Rest' /\ Moves({})
<1> USE SchedulerAssumption DEF Launch, NextRun, IInv, TypeOK, tableVars
<1>1. TypeOK'
  BY DEF JobStates
<1>2. UnstartedHasNoHead' /\ AbsentHasNoJob' /\ DatedIsDone'
  BY DEF UnstartedHasNoHead, AbsentHasNoJob, DatedIsDone
<1>3. \A q \in Runs : Fresh(q)' => Fresh(q)
  BY DEF Fresh
<1>4. \A l \in Lines : Handed(l)' => Handed(l)
  BY DEF Handed
<1> QED BY <1>1, <1>2, <1>3, <1>4 DEF Rest, Moves

LEMMA HeadRunsMoves ==
  ASSUME IInv, NEW r \in Runs, NEW filter \in Filters, HeadRuns(r, filter)
  PROVE  Rest' /\ \E N \in SUBSET Lines : Moves(N)
<1> DEFINE ops == {o \in filter : CompanyOf[o] = company[r]}
           closed == [l \in Lines |-> IF l \in Stale(r) THEN "done" ELSE status[l]]
           N == LinesFor(r, ops)
<1>0. Stale(r) \subseteq Lines /\ \A l \in Stale(r) : status[l] = "open" /\ ljob[l] = NoJob
  BY DEF Stale
<1>1. PICK purge \in Purges(closed, dated) :
        /\ status' = [l \in Lines |-> IF l \in N THEN "open"
                                      ELSE IF l \in purge THEN "absent" ELSE closed[l]]
        /\ dated' = dated \ purge
        /\ ljob' = [l \in Lines |-> IF l \in purge THEN NoJob ELSE ljob[l]]
  BY DEF HeadRuns
<1>2. /\ purge \subseteq Lines
      /\ \A l \in purge : closed[l] = "done"
      /\ \A l \in Lines : closed[l] = "done" /\ l \notin dated => l \in purge
  BY PurgeSpec
<1>3. /\ head[r] = "live" /\ head' = [head EXCEPT ![r] = "done"]
      /\ confirming' \in {confirming, TRUE}
      /\ skipped' = skipped \union Stale(r)
      /\ UNCHANGED <<kind, company, pop, chunk, process, todo, deletions>>
  BY DEF HeadRuns
<1>4. N \subseteq Lines /\ \A l \in N : l.run = r
  BY DEF LinesFor
<1>5. /\ TypeOK /\ HandedCleared /\ FreshEmpty /\ UnstartedHasNoHead /\ AbsentHasNoJob
      /\ DatedIsDone
  BY DEF IInv
<1>6. \A l \in N : Fresh(l.run) /\ ~Fresh(l.run)' /\ status[l] = "absent" /\ ljob[l] = NoJob
  BY <1>3, <1>4, <1>5 DEF Fresh, TypeOK, FreshEmpty, AbsentHasNoJob, UnstartedHasNoHead
<1> HIDE DEF ops, N
<1>7. TypeOK'
  <2>1. status' \in [Lines -> {"absent", "open", "done"}]
    BY <1>1, <1>5 DEF TypeOK
  <2>2. ljob' \in [Lines -> JobNames \union {NoJob}] /\ dated' \subseteq Lines
    BY <1>1, <1>5 DEF TypeOK
  <2>3. head' \in [Runs -> JobStates] /\ skipped' \subseteq Lines /\ confirming' \in BOOLEAN
    BY <1>0, <1>3, <1>5 DEF TypeOK, JobStates
  <2> QED BY <1>3, <1>5, <2>1, <2>2, <2>3 DEF TypeOK
<1>8. UnstartedHasNoHead'
  BY <1>3, <1>5 DEF UnstartedHasNoHead, TypeOK
<1>9. AbsentHasNoJob'
  BY <1>1, <1>2, <1>5 DEF AbsentHasNoJob, TypeOK
<1>10. DatedIsDone'
  BY <1>1, <1>2, <1>5, <1>6 DEF DatedIsDone, TypeOK
<1>11. \A q \in Runs : Fresh(q)' => Fresh(q)
  BY <1>3, <1>5 DEF Fresh, TypeOK
<1>12. \A l \in Lines : Handed(l)' => Handed(l)
  BY <1>1, <1>3 DEF Handed
<1>13. ASSUME NEW l \in Lines \ N
       PROVE  \/ status'[l] = status[l]
              \/ status[l] = "done" /\ status'[l] = "absent"
              \/ status[l] = "open" /\ status'[l] = "absent" /\ ljob[l] = NoJob
  <2>1. CASE l \in Stale(r)
    <3>1. closed[l] = "done" /\ l \notin dated
      BY <1>0, <2>1, <1>5 DEF DatedIsDone
    <3> QED BY <3>1, <2>1, <1>0, <1>1, <1>2
  <2>2. CASE l \notin Stale(r)
    BY <2>2, <1>1, <1>2
  <2> QED BY <2>1, <2>2
<1>14. \A l \in N : status'[l] # "done"
  BY <1>1, <1>4
<1>15. Moves(N)
  BY <1>6, <1>11, <1>12, <1>13, <1>14 DEF Moves
<1> QED BY <1>4, <1>7, <1>8, <1>9, <1>10, <1>15 DEF Rest

-----------------------------------------------------------------------------
(* The update *)

\* A pop touches no line but those it is given, and types are kept.
LEMMA PopChunkSpec ==
  ASSUME TypeOK, NEW who \in Callers, NEW S \in SUBSET Lines,
         NEW lj \in [Lines -> JobNames \union {NoJob}], PopChunk(who, S, lj)
  PROVE  /\ pop' \in [Pops -> JobStates]
         /\ chunk' \in [Pops -> SUBSET Lines]
         /\ ljob' \in [Lines -> JobNames \union {NoJob}]
         /\ todo' \in [Callers -> SUBSET Lines]
         /\ \A l \in Lines : ljob'[l] # lj[l] => l \in S \ todo'[who]
         /\ \A w \in Callers : todo'[w] \subseteq todo[w] \union S
         /\ \A p \in Pops : chunk'[p] \subseteq chunk[p] \union S
<1>1. PICK p \in Pops, c \in SUBSET S :
        /\ pop' = [pop EXCEPT ![p] = "live"]
        /\ chunk' = [chunk EXCEPT ![p] = c]
        /\ ljob' = [l \in Lines |-> IF l \in c THEN <<"pop", p>> ELSE lj[l]]
        /\ todo' = [todo EXCEPT ![who] = S \ c]
  BY DEF PopChunk
<1>2. <<"pop", p>> \in JobNames
  BY DEF JobNames
<1>3. ljob' \in [Lines -> JobNames \union {NoJob}]
  BY <1>1, <1>2
<1>4. pop' \in [Pops -> JobStates] /\ chunk' \in [Pops -> SUBSET Lines]
  BY <1>1 DEF TypeOK, JobStates
<1>5. todo' \in [Callers -> SUBSET Lines] /\ todo'[who] = S \ c
  BY <1>1 DEF TypeOK
<1>6. \A l \in Lines : ljob'[l] # lj[l] => l \in S \ todo'[who]
  BY <1>1, <1>5
<1>7. \A w \in Callers : todo'[w] \subseteq todo[w] \union S
  BY <1>1 DEF TypeOK
<1>8. \A q \in Pops : chunk'[q] \subseteq chunk[q] \union S
  BY <1>1 DEF TypeOK
<1> QED BY <1>3, <1>4, <1>5, <1>6, <1>7, <1>8

\* Is line l handed when the job uuids are lj?
HandedIn(l, lj) ==
  \/ lj[l] # NoJob
  \/ \E who \in Callers : l \in todo[who]
  \/ \E p \in Pops : l \in chunk[p]

\* All the orderpoint lines of sequence s that are open are handed.
NoneWaits(s, st, lj) ==
  \A k \in Lines : k.seq = s /\ OrderpointLine(k) /\ st[k] = "open" => lj[k] # NoJob

LEMMA UpdateSpec ==
  ASSUME TypeOK, NEW who \in Callers,
         NEW st \in [Lines -> {"absent", "open", "done"}],
         NEW lj \in [Lines -> JobNames \union {NoJob}],
         NEW dt \in SUBSET Lines,
         Update(who, st, lj, dt)
  PROVE  /\ status' \in [Lines -> {"absent", "open", "done"}]
         /\ ljob' \in [Lines -> JobNames \union {NoJob}]
         /\ dated' \subseteq Lines
         /\ pop' \in [Pops -> JobStates]
         /\ chunk' \in [Pops -> SUBSET Lines]
         /\ todo' \in [Callers -> SUBSET Lines]
         /\ confirming' \in BOOLEAN
         /\ \A l \in Lines :
              \/ status'[l] = st[l]
              \/ /\ st[l] = "open" /\ status'[l] = "done"
                 /\ lj[l] # NoJob \/ (~OrderpointLine(l) /\ Cleared(l)' /\ NoneWaits(l.seq, st, lj))
         /\ \A l \in Lines : Handed(l)' => HandedIn(l, lj) \/ (st[l] = "open" /\ Cleared(l)')
         /\ \A l \in Lines : ljob'[l] = lj[l] \/ st[l] = "open"
         /\ \A l \in dated' : l \in dt \/ status'[l] = "done"
<1> DEFINE open == {l \in Lines : st[l] = "open"}
           lowest == Lowest(open)
           unstarted == {l \in lowest : OrderpointLine(l) /\ lj[l] = NoJob}
           waiting == {l \in lowest : OrderpointLine(l) /\ lj[l] # NoJob}
           finished == {l \in waiting : JobOver(l)}
           lost == {l \in waiting : JobLost(l)}
           runLines == IF lost = {} THEN {l \in lowest : ~OrderpointLine(l)} ELSE {}
<1>1. \A l \in lowest : st[l] = "open" /\ \A k \in Lines : st[k] = "open" => ~(k.seq < l.seq)
  BY LineFields DEF Lowest
<1>2. ASSUME \A l \in Lines : status'[l] = "open" => st[l] = "open"
      PROVE  \A l \in lowest : Cleared(l)'
  BY <1>1, <1>2 DEF Cleared
<1>3. CASE status' = st /\ ljob' = lj /\ dated' = dt /\ UNCHANGED <<pop, chunk, todo, confirming>>
  BY <1>3 DEF TypeOK, Handed, HandedIn
<1>4. CASE /\ unstarted # {} /\ PopChunk(who, unstarted, lj)
           /\ status' = st /\ dated' = dt /\ UNCHANGED confirming
  <2>1. unstarted \in SUBSET Lines /\ \A l \in unstarted : st[l] = "open" /\ Cleared(l)'
    BY <1>2, <1>4 DEF Lowest
  <2> HIDE DEF unstarted
  <2>2. /\ \A l \in Lines : ljob'[l] # lj[l] => l \in unstarted
        /\ \A w \in Callers : todo'[w] \subseteq todo[w] \union unstarted
        /\ \A p \in Pops : chunk'[p] \subseteq chunk[p] \union unstarted
        /\ pop' \in [Pops -> JobStates]
        /\ chunk' \in [Pops -> SUBSET Lines]
        /\ ljob' \in [Lines -> JobNames \union {NoJob}]
        /\ todo' \in [Callers -> SUBSET Lines]
    BY <1>4, <2>1, PopChunkSpec
  <2>3. \A l \in Lines : Handed(l)' => HandedIn(l, lj) \/ l \in unstarted
    BY <2>2 DEF Handed, HandedIn
  <2> QED BY <1>4, <2>1, <2>2, <2>3 DEF TypeOK
<1>5. CASE /\ unstarted = {}
           /\ status' = [l \in Lines |-> IF l \in finished \union runLines THEN "done" ELSE st[l]]
           /\ ljob' = [l \in Lines |-> IF l \in lost THEN NoJob ELSE lj[l]]
           /\ dated' = dt \union runLines
           /\ confirming' \in (IF runLines = {} THEN {FALSE} ELSE BOOLEAN)
           /\ UNCHANGED <<pop, chunk, todo>>
  <2>1. /\ finished \subseteq lowest /\ lost \subseteq lowest /\ runLines \subseteq lowest
        /\ \A l \in finished : lj[l] # NoJob
        /\ \A l \in runLines : ~OrderpointLine(l)
        /\ \A l \in lowest : l \in Lines /\ st[l] = "open"
    BY DEF Lowest
  <2>8. \A l \in runLines : NoneWaits(l.seq, st, lj)
    <3> SUFFICES ASSUME NEW l \in runLines, NEW k \in Lines, k.seq = l.seq,
                        OrderpointLine(k), st[k] = "open", lj[k] = NoJob
                 PROVE  FALSE
      BY DEF NoneWaits
    <3>1. k \in lowest
      BY <2>1 DEF Lowest
    <3> QED BY <3>1, <1>5
  <2> HIDE DEF finished, lost, runLines, lowest
  <2>2. \A l \in runLines : Cleared(l)'
    BY <1>2, <1>5, <2>1
  <2>3. /\ status' \in [Lines -> {"absent", "open", "done"}]
        /\ ljob' \in [Lines -> JobNames \union {NoJob}]
        /\ dated' \subseteq Lines /\ confirming' \in BOOLEAN
    BY <1>5, <2>1
  <2>4. \A l \in Lines : Handed(l)' => HandedIn(l, lj)
    BY <1>5 DEF Handed, HandedIn
  <2>5. \A l \in Lines : \/ status'[l] = st[l]
                         \/ /\ st[l] = "open" /\ status'[l] = "done"
                            /\ \/ lj[l] # NoJob
                               \/ ~OrderpointLine(l) /\ Cleared(l)' /\ NoneWaits(l.seq, st, lj)
    BY <1>5, <2>1, <2>2, <2>8
  <2>6. \A l \in dated' : l \in dt \/ status'[l] = "done"
    BY <1>5, <2>1
  <2>7. \A l \in Lines : ljob'[l] = lj[l] \/ st[l] = "open"
    BY <1>5, <2>1
  <2> QED BY <1>5, <2>3, <2>4, <2>5, <2>6, <2>7 DEF TypeOK
<1> QED BY <1>3, <1>4, <1>5 DEF Update

LEMMA UpdateMoves ==
  ASSUME IInv, UpdateSchedulerController
  PROVE  Rest' /\ Moves({})
<1>1. Update("cron", status, ljob, dated) /\ "cron" \in Callers
  BY DEF UpdateSchedulerController, Callers
<1>2. UNCHANGED <<head, kind, company, process, skipped, deletions>>
  BY DEF UpdateSchedulerController
<1>3. /\ TypeOK /\ FreshEmpty /\ UnstartedHasNoHead /\ AbsentHasNoJob /\ DatedIsDone
  BY DEF IInv
<1>4. /\ status \in [Lines -> {"absent", "open", "done"}]
      /\ ljob \in [Lines -> JobNames \union {NoJob}]
      /\ dated \in SUBSET Lines
  BY <1>3 DEF TypeOK
<1>5. /\ status' \in [Lines -> {"absent", "open", "done"}]
      /\ ljob' \in [Lines -> JobNames \union {NoJob}]
      /\ dated' \subseteq Lines
      /\ pop' \in [Pops -> JobStates]
      /\ chunk' \in [Pops -> SUBSET Lines]
      /\ todo' \in [Callers -> SUBSET Lines]
      /\ confirming' \in BOOLEAN
      /\ \A l \in Lines :
           \/ status'[l] = status[l]
           \/ /\ status[l] = "open" /\ status'[l] = "done"
              /\ ljob[l] # NoJob \/ (~OrderpointLine(l) /\ Cleared(l)')
      /\ \A l \in Lines : Handed(l)' => HandedIn(l, ljob) \/ (status[l] = "open" /\ Cleared(l)')
      /\ \A l \in Lines : ljob'[l] = ljob[l] \/ status[l] = "open"
      /\ \A l \in dated' : l \in dated \/ status'[l] = "done"
  BY <1>1, <1>3, <1>4, UpdateSpec
<1>6. Rest'
  BY <1>2, <1>3, <1>5 DEF Rest, TypeOK, UnstartedHasNoHead, AbsentHasNoJob, DatedIsDone
<1>7. \A r \in Runs : Fresh(r)' <=> Fresh(r)
  BY <1>2 DEF Fresh
<1>8. \A l \in Lines : Handed(l)' => Handed(l) \/ (Cleared(l)' /\ ~Fresh(l.run)')
  BY <1>3, <1>5, <1>7, LineFields DEF HandedIn, Handed, FreshEmpty
<1> QED BY <1>5, <1>6, <1>7, <1>8 DEF Moves

LEMMA PopNextChunkMoves ==
  ASSUME IInv, NEW who \in Callers, PopNextChunk(who)
  PROVE  Rest' /\ Moves({})
<1>1. /\ TypeOK /\ UnstartedHasNoHead /\ AbsentHasNoJob /\ DatedIsDone
  BY DEF IInv
<1>2. UNCHANGED <<head, kind, company, status, dated, process, confirming, skipped, deletions>>
  BY DEF PopNextChunk
<1>3. todo[who] \in SUBSET Lines /\ ljob \in [Lines -> JobNames \union {NoJob}]
  BY <1>1 DEF TypeOK
<1>4. /\ pop' \in [Pops -> JobStates]
      /\ chunk' \in [Pops -> SUBSET Lines]
      /\ ljob' \in [Lines -> JobNames \union {NoJob}]
      /\ todo' \in [Callers -> SUBSET Lines]
      /\ \A l \in Lines : ljob'[l] # ljob[l] => l \in todo[who] /\ status[l] # "absent"
      /\ \A w \in Callers : todo'[w] \subseteq todo[w] \union todo[who]
      /\ \A p \in Pops : chunk'[p] \subseteq chunk[p] \union todo[who]
  <2>1. CASE PopChunk(who, todo[who], ljob) /\ \A l \in todo[who] \ todo'[who] : status[l] # "absent"
    BY <2>1, <1>1, <1>3, PopChunkSpec
  <2>2. CASE todo' = [todo EXCEPT ![who] = {}] /\ UNCHANGED <<pop, chunk, ljob>>
    BY <2>2, <1>1 DEF TypeOK
  <2> QED BY <2>1, <2>2 DEF PopNextChunk
<1>5. Rest'
  BY <1>1, <1>2, <1>4 DEF Rest, TypeOK, UnstartedHasNoHead, AbsentHasNoJob, DatedIsDone
<1>6. \A r \in Runs : Fresh(r)' => Fresh(r)
  BY <1>2 DEF Fresh
<1>7. \A l \in Lines : Handed(l)' => Handed(l)
  BY <1>4 DEF Handed
<1> QED BY <1>2, <1>5, <1>6, <1>7 DEF Moves

\* The steps that leave the table's status alone and hand nothing new.
LEMMA QuietMoves ==
  ASSUME IInv, UNCHANGED <<status, dated, ljob, kind>>,
         \A r \in Runs : Fresh(r)' => Fresh(r),
         \A l \in Lines : Handed(l)' => Handed(l),
         UnstartedHasNoHead'
  PROVE  UnstartedHasNoHead' /\ AbsentHasNoJob' /\ DatedIsDone' /\ Moves({})
  BY DEF IInv, AbsentHasNoJob, DatedIsDone, Moves

LEMMA StopPoppingMoves ==
  ASSUME IInv, NEW who \in Callers, StopPopping(who)
  PROVE  Rest' /\ Moves({})
<1> USE DEF StopPopping, IInv, tableVars, jobVars
<1>1. \A w \in Callers : todo'[w] \subseteq todo[w]
  BY DEF TypeOK
<1>2. TypeOK' /\ UnstartedHasNoHead'
  BY DEF TypeOK, UnstartedHasNoHead
<1>3. (\A r \in Runs : Fresh(r)' => Fresh(r)) /\ \A l \in Lines : Handed(l)' => Handed(l)
  BY <1>1 DEF Fresh, Handed
<1> QED BY <1>2, <1>3, QuietMoves DEF Rest

LEMMA JobMovesMoves ==
  ASSUME IInv, NEW from, NEW to,
         <<from, to>> \in {<<"live", "failed">>, <<"failed", "live">>}
                          \union ({"live", "done", "failed"} \X {"deleted"}),
         JobMoves(from, to), deletions' \in Nat
  PROVE  Rest' /\ Moves({})
<1>1. UNCHANGED <<status, dated, ljob, kind, company, chunk, confirming, todo, skipped>>
  BY DEF JobMoves, tableVars
<1>2. /\ from \in {"live", "done", "failed"} /\ to \in {"live", "failed", "deleted"}
      /\ from = "done" => to = "deleted"
  OBVIOUS
<1>3. head' \in [Runs -> JobStates] /\ \A r \in Runs : head'[r] = head[r] \/ (head[r] = from /\ head'[r] = to)
  BY <1>2 DEF JobMoves, IInv, TypeOK, JobStates
<1>4. pop' \in [Pops -> JobStates] /\ process' \in [Pops \X Lines -> JobStates]
  BY <1>2 DEF JobMoves, IInv, TypeOK, JobStates
<1>5. TypeOK'
  BY <1>1, <1>3, <1>4 DEF IInv, TypeOK
<1>6. UnstartedHasNoHead'
  BY <1>1, <1>2, <1>3 DEF IInv, UnstartedHasNoHead
<1>7. \A r \in Runs : Fresh(r)' => Fresh(r)
  BY <1>1, <1>2, <1>3 DEF Fresh
<1>8. \A l \in Lines : Handed(l)' => Handed(l)
  BY <1>1 DEF Handed
<1> QED BY <1>1, <1>5, <1>6, <1>7, <1>8, QuietMoves DEF Rest

LEMMA ConfirmationsEndMoves ==
  ASSUME IInv, ConfirmationsEnd
  PROVE  Rest' /\ Moves({})
<1> USE DEF ConfirmationsEnd, IInv, tableVars
<1>1. TypeOK' /\ UnstartedHasNoHead'
  BY DEF TypeOK, UnstartedHasNoHead
<1>2. (\A r \in Runs : Fresh(r)' => Fresh(r)) /\ \A l \in Lines : Handed(l)' => Handed(l)
  BY DEF Fresh, Handed
<1> QED BY <1>1, <1>2, QuietMoves DEF Rest

LEMMA PopRunsMoves ==
  ASSUME IInv, NEW p \in Pops, PopRuns(p)
  PROVE  Rest' /\ Moves({})
<1> DEFINE found == {l \in chunk[p] : status[l] # "absent"}
<1>1. /\ TypeOK /\ UnstartedHasNoHead /\ AbsentHasNoJob /\ DatedIsDone
  BY DEF IInv
<1>2. /\ pop' = [pop EXCEPT ![p] = "done"]
      /\ process' = [j \in Pops \X Lines |->
                       IF j[1] = p /\ j[2] \in found THEN "live" ELSE process[j]]
      /\ ljob' = [l \in Lines |-> IF l \in found THEN <<"process", p>> ELSE ljob[l]]
      /\ UNCHANGED <<head, kind, company, status, dated, chunk, confirming, todo, skipped, deletions>>
  BY DEF PopRuns
<1>3. <<"process", p>> \in JobNames
  BY DEF JobNames
<1>4. ljob' \in [Lines -> JobNames \union {NoJob}]
  BY <1>1, <1>2, <1>3 DEF TypeOK
<1>5. process' \in [Pops \X Lines -> JobStates] /\ pop' \in [Pops -> JobStates]
  <2> HIDE DEF found
  <2> QED BY <1>1, <1>2 DEF TypeOK, JobStates
<1>6. Rest'
  BY <1>1, <1>2, <1>4, <1>5 DEF Rest, TypeOK, UnstartedHasNoHead, AbsentHasNoJob, DatedIsDone
<1>7. \A r \in Runs : Fresh(r)' => Fresh(r)
  BY <1>2 DEF Fresh
<1>8. \A l \in Lines : Handed(l)' => Handed(l)
  BY <1>2 DEF Handed
<1> QED BY <1>2, <1>6, <1>7, <1>8 DEF Moves

LEMMA ProcessRunsMoves ==
  ASSUME IInv, NEW p \in Pops, NEW l \in Lines, ProcessRuns(p, l)
  PROVE  Rest' /\ Moves({})
<1>1. /\ TypeOK /\ UnstartedHasNoHead /\ AbsentHasNoJob /\ DatedIsDone
  BY DEF IInv
<1>2. /\ process' = [process EXCEPT ![<<p, l>>] = "done"]
      /\ UNCHANGED <<ljob, head, kind, company, pop, chunk, confirming, todo, skipped, deletions>>
      /\ \/ UNCHANGED <<status, dated>>
         \/ /\ ljob[l] = <<"process", p>> /\ status[l] = "open"
            /\ status' = [status EXCEPT ![l] = "done"] /\ dated' = dated \union {l}
  BY DEF ProcessRuns
<1>3. process' \in [Pops \X Lines -> JobStates]
  BY <1>1, <1>2 DEF TypeOK, JobStates
<1>4. <<"process", p>> # NoJob
  BY SchedulerAssumption
<1>5. Rest'
  BY <1>1, <1>2, <1>3 DEF Rest, TypeOK, UnstartedHasNoHead, AbsentHasNoJob, DatedIsDone
<1>6. \A r \in Runs : Fresh(r)' => Fresh(r)
  BY <1>2 DEF Fresh
<1>7. \A k \in Lines : Handed(k)' => Handed(k)
  BY <1>2 DEF Handed
<1>8. \A k \in Lines : \/ status'[k] = status[k]
                       \/ status[k] = "open" /\ status'[k] = "done" /\ ljob[k] # NoJob
  BY <1>1, <1>2, <1>4 DEF TypeOK
<1> QED BY <1>5, <1>6, <1>7, <1>8 DEF Moves

LEMMA CleanLinesMoves ==
  ASSUME IInv, CleanLines
  PROVE  Rest' /\ Moves({})
<1>1. /\ TypeOK /\ UnstartedHasNoHead /\ AbsentHasNoJob /\ DatedIsDone
  BY DEF IInv
<1>2. PICK old \in SUBSET {l \in dated : status[l] = "done"} :
        /\ status' = [l \in Lines |-> IF l \in old THEN "absent" ELSE status[l]]
        /\ dated' = dated \ old
        /\ ljob' = [l \in Lines |-> IF l \in old THEN NoJob ELSE ljob[l]]
  BY DEF CleanLines
<1>3. UNCHANGED <<head, kind, company, pop, chunk, process, confirming, todo, skipped, deletions>>
  BY DEF CleanLines, jobVars
<1>4. Rest'
  BY <1>1, <1>2, <1>3 DEF Rest, TypeOK, UnstartedHasNoHead, AbsentHasNoJob, DatedIsDone
<1>5. \A r \in Runs : Fresh(r)' => Fresh(r)
  BY <1>3 DEF Fresh
<1>6. \A l \in Lines : Handed(l)' => Handed(l)
  BY <1>2, <1>3 DEF Handed
<1> QED BY <1>2, <1>4, <1>5, <1>6 DEF Moves

LEMMA ProcessFromScreenMoves ==
  ASSUME IInv, NEW r \in Runs, NEW o \in Orderpoints, NEW c \in Companies,
         ProcessFromScreen(r, o, c)
  PROVE  Rest' /\ \E N \in SUBSET Lines : Moves(N)
<1> DEFINE N == LinesFor(r, {o})
<1>1. PICK purge \in Purges(status, dated) :
        Update("screen",
               [l \in Lines |-> IF l \in N THEN "open"
                                ELSE IF l \in purge THEN "absent" ELSE status[l]],
               [l \in Lines |-> IF l \in purge THEN NoJob ELSE ljob[l]],
               dated \ purge)
  BY DEF ProcessFromScreen
<1> DEFINE st == [l \in Lines |-> IF l \in N THEN "open"
                                  ELSE IF l \in purge THEN "absent" ELSE status[l]]
           lj == [l \in Lines |-> IF l \in purge THEN NoJob ELSE ljob[l]]
           dt == dated \ purge
<1>2. /\ NextRun(r) /\ kind' = [kind EXCEPT ![r] = "screen"]
      /\ company' = [company EXCEPT ![r] = c]
      /\ UNCHANGED <<head, process, skipped, deletions>>
  BY DEF ProcessFromScreen
<1>3. /\ TypeOK /\ FreshEmpty /\ UnstartedHasNoHead /\ AbsentHasNoJob /\ DatedIsDone
  BY DEF IInv
<1>4. purge \subseteq Lines /\ \A l \in purge : status[l] = "done"
  BY PurgeSpec
<1>5. N \subseteq Lines /\ \A l \in N : l.run = r
  BY DEF LinesFor
<1>6. \A l \in N : \E k \in N : k.seq = l.seq /\ OrderpointLine(k)
  <2> SUFFICES ASSUME NEW l \in N, ~OrderpointLine(l)
               PROVE  \E k \in N : k.seq = l.seq /\ OrderpointLine(k)
    OBVIOUS
  <2>1. l.seq \in SeqsOf[o]
    BY SchedulerAssumption DEF LinesFor, OrderpointLine
  <2>2. [run |-> r, op |-> o, seq |-> l.seq] \in Lines
    BY <2>1 DEF Lines, Seqs
  <2>3. [run |-> r, op |-> o, seq |-> l.seq] \in N
    BY <2>1, <2>2 DEF LinesFor
  <2> QED BY <2>3, SchedulerAssumption DEF OrderpointLine
<1>7. \A l \in N : Fresh(l.run) /\ ~Fresh(l.run)' /\ status[l] = "absent" /\ ljob[l] = NoJob
  BY <1>2, <1>3, <1>5 DEF NextRun, Fresh, TypeOK, FreshEmpty, AbsentHasNoJob, UnstartedHasNoHead
<1> HIDE DEF N
<1>8. /\ st \in [Lines -> {"absent", "open", "done"}]
      /\ lj \in [Lines -> JobNames \union {NoJob}]
      /\ dt \in SUBSET Lines
  BY <1>3 DEF TypeOK
<1>9. /\ \A l \in Lines : st[l] = IF l \in N THEN "open"
                                   ELSE IF l \in purge THEN "absent" ELSE status[l]
      /\ \A l \in Lines : lj[l] = IF l \in purge THEN NoJob ELSE ljob[l]
  OBVIOUS
<1>10. Update("screen", st, lj, dt) /\ "screen" \in Callers
  BY <1>1 DEF Callers
<1> HIDE DEF st, lj
<1>11. /\ status' \in [Lines -> {"absent", "open", "done"}]
       /\ ljob' \in [Lines -> JobNames \union {NoJob}]
       /\ dated' \subseteq Lines
       /\ pop' \in [Pops -> JobStates]
       /\ chunk' \in [Pops -> SUBSET Lines]
       /\ todo' \in [Callers -> SUBSET Lines]
       /\ confirming' \in BOOLEAN
       /\ \A l \in Lines :
            \/ status'[l] = st[l]
            \/ /\ st[l] = "open" /\ status'[l] = "done"
               /\ lj[l] # NoJob \/ (~OrderpointLine(l) /\ Cleared(l)' /\ NoneWaits(l.seq, st, lj))
       /\ \A l \in Lines : Handed(l)' => HandedIn(l, lj) \/ (st[l] = "open" /\ Cleared(l)')
       /\ \A l \in Lines : ljob'[l] = lj[l] \/ st[l] = "open"
       /\ \A l \in dated' : l \in dt \/ status'[l] = "done"
  BY <1>3, <1>8, <1>10, UpdateSpec
<1>12. \A q \in Runs : Fresh(q)' => Fresh(q)
  BY <1>2, <1>3 DEF Fresh, NextRun, TypeOK
<1>13. TypeOK' /\ UnstartedHasNoHead'
  <2>1. kind' \in [Runs -> {"none", "orderpoint", "all", "screen"}]
    BY <1>2, <1>3 DEF TypeOK
  <2>2. company' \in [Runs -> Companies \union {NoCompany}]
    BY <1>2, <1>3 DEF TypeOK
  <2> QED BY <1>2, <1>3, <1>11, <2>1, <2>2 DEF TypeOK, UnstartedHasNoHead
<1>14. AbsentHasNoJob'
  BY <1>3, <1>9, <1>11 DEF AbsentHasNoJob
<1>15. DatedIsDone'
  BY <1>3, <1>7, <1>9, <1>11 DEF DatedIsDone
<1>16. \A l \in N : status'[l] # "done"
  <2> SUFFICES ASSUME NEW l \in N, status'[l] = "done"
               PROVE  FALSE
    OBVIOUS
  <2>1. \A k \in N : k \in Lines /\ st[k] = "open" /\ lj[k] = NoJob
    BY <1>5, <1>7, <1>9
  <2>2. NoneWaits(l.seq, st, lj)
    BY <1>11, <2>1
  <2> QED BY <1>6, <2>1, <2>2 DEF NoneWaits
<1>17. \A l \in Lines \ N :
         \/ status'[l] = status[l]
         \/ status[l] = "done" /\ status'[l] = "absent"
         \/ /\ status[l] = "open" /\ status'[l] = "done"
            /\ ljob[l] # NoJob \/ (~OrderpointLine(l) /\ Cleared(l)')
  BY <1>4, <1>9, <1>11
<1>18. \A l \in Lines : Handed(l)' => Handed(l) \/ (Cleared(l)' /\ ~Fresh(l.run)')
  <2> SUFFICES ASSUME NEW l \in Lines, Handed(l)', ~Handed(l)
               PROVE  Cleared(l)' /\ ~Fresh(l.run)'
    OBVIOUS
  <2>1. ~HandedIn(l, lj)
    BY <1>9 DEF Handed, HandedIn
  <2>2. st[l] = "open" /\ Cleared(l)'
    BY <1>11, <2>1
  <2>3. l \in N \/ status[l] = "open"
    BY <1>9, <2>2
  <2> QED BY <2>2, <2>3, <1>3, <1>7, <1>12, LineFields DEF FreshEmpty
<1>19. Moves(N)
  BY <1>7, <1>12, <1>16, <1>17, <1>18 DEF Moves
<1> QED BY <1>5, <1>13, <1>14, <1>15, <1>19 DEF Rest

-----------------------------------------------------------------------------
(* The steps together *)

LEMMA StepMoves ==
  ASSUME IInv, Next
  PROVE  Rest' /\ \E N \in SUBSET Lines : Moves(N)
<1>1. ASSUME NEW r \in Runs, RunStep(r)
      PROVE  Rest' /\ \E N \in SUBSET Lines : Moves(N)
  <2>1. CASE \E c \in Companies, k \in Kinds : Launch(r, c, k)
    BY <2>1, LaunchMoves
  <2>2. CASE \E filter \in Filters : HeadRuns(r, filter)
    BY <2>2, HeadRunsMoves
  <2>3. CASE \E o \in Orderpoints, c \in Companies : ProcessFromScreen(r, o, c)
    BY <2>3, ProcessFromScreenMoves
  <2> QED BY <1>1, <2>1, <2>2, <2>3 DEF RunStep
<1>2. CASE UpdateSchedulerController
  BY <1>2, UpdateMoves
<1>3. ASSUME NEW who \in Callers, PopNextChunk(who) \/ StopPopping(who)
      PROVE  Rest' /\ Moves({})
  BY <1>3, PopNextChunkMoves, StopPoppingMoves
<1>4. CASE \E p \in Pops : PopRuns(p)
  BY <1>4, PopRunsMoves
<1>5. CASE \E p \in Pops, l \in Lines : ProcessRuns(p, l)
  BY <1>5, ProcessRunsMoves
<1>6. CASE JobFails \/ RequeueJob \/ DeleteJob
  <2>1. deletions \in Nat
    BY DEF IInv, TypeOK
  <2>2. CASE JobFails
    BY <2>1, <2>2, JobMovesMoves DEF JobFails
  <2>3. CASE RequeueJob
    BY <2>1, <2>3, JobMovesMoves DEF RequeueJob
  <2>4. CASE DeleteJob
    <3>1. PICK from \in {"live", "done", "failed"} : JobMoves(from, "deleted")
      BY <2>4 DEF DeleteJob
    <3>2. deletions' \in Nat
      BY <2>1, <2>4 DEF DeleteJob
    <3> QED BY <3>1, <3>2, JobMovesMoves
  <2> QED BY <1>6, <2>2, <2>3, <2>4
<1>7. CASE ConfirmationsEnd
  BY <1>7, ConfirmationsEndMoves
<1>8. CASE CleanLines
  BY <1>8, CleanLinesMoves
<1> QED BY <1>1, <1>2, <1>3, <1>4, <1>5, <1>6, <1>7, <1>8 DEF Next

LEMMA InitInv == Init => IInv
<1> SUFFICES ASSUME Init PROVE IInv
  OBVIOUS
<1>1. TypeOK
  BY DEF Init, TypeOK, JobStates, Callers
<1>2. \A l \in Lines : ~Handed(l)
  BY DEF Init, Handed
<1>3. HandedCleared /\ FreshEmpty /\ UnstartedHasNoHead /\ AbsentHasNoJob /\ DatedIsDone
  BY <1>2 DEF Init, HandedCleared, FreshEmpty, UnstartedHasNoHead, AbsentHasNoJob, DatedIsDone
<1> QED BY <1>1, <1>3 DEF IInv

LEMMA StutterInv == IInv /\ UNCHANGED vars => IInv'
  BY DEF IInv, vars, tableVars, jobVars, TypeOK, HandedCleared, Handed, Cleared, Fresh,
         FreshEmpty, UnstartedHasNoHead, AbsentHasNoJob, DatedIsDone

LEMMA NextInv == IInv /\ [Next]_vars => IInv'
  BY StepMoves, MovesKeep, StutterInv

\* The invariant holds in every reachable state.
LEMMA Invariance == Spec => []IInv
  BY InitInv, NextInv, PTL DEF Spec

\* Lines, jobs and chunks always have the shapes TypeOK gives them.
THEOREM TypeCorrect == Spec => []TypeOK
<1>1. IInv => TypeOK
  BY DEF IInv
<1> QED BY Invariance, <1>1, PTL

\* No line of a run is handed to a job while a line of a lower sequence of that
\* run is open: update_scheduler_controller keeps the order of the sequences for
\* any number of orderpoints, runs and chunks, with jobs that fail, are lost or
\* requeued, and with crons and screens that pop at the same time.
THEOREM BarrierHolds == Spec => []SequenceBarrier
<1>1. IInv => SequenceBarrier
  <2> SUFFICES ASSUME IInv, NEW k \in Lines, status[k] = "open",
                      NEW l \in Lines, ljob[l] # NoJob, k.run = l.run
               PROVE  k.seq >= l.seq
    BY DEF SequenceBarrier
  <2>1. Cleared(l)
    BY DEF IInv, HandedCleared, Handed
  <2>2. ~(k.seq < l.seq)
    BY <2>1 DEF Cleared
  <2> QED BY <2>2, LineFields
<1> QED BY Invariance, <1>1, PTL

-----------------------------------------------------------------------------
(* The refinement *)

\* A line that is handed has its turn in the abstract schedule.
LEMMA HandedHasTurn ==
  ASSUME IInv', NEW l \in Lines, ljob'[l] # NoJob
  PROVE  Schedule!Turn(l)
<1>1. Cleared(l)'
  BY DEF IInv, HandedCleared, Handed
<1>2. \A k \in Lines : status'[k] \in {"absent", "open", "done"}
  BY DEF IInv, TypeOK
<1> QED BY <1>1, <1>2 DEF Schedule!Turn, Schedule!Before, Schedule!Busy, PhaseOf, Cleared

LEMMA MovesAreLegal ==
  ASSUME IInv, IInv', NEW N \in SUBSET Lines, Moves(N)
  PROVE  Schedule!Next
<1> SUFFICES ASSUME NEW l \in Lines
             PROVE  \/ PhaseOf(l)' = PhaseOf(l)
                    \/ Schedule!Insert(l) \/ Schedule!Work(l) \/ Schedule!GiveUp(l)
                    \/ Schedule!Finish(l) \/ Schedule!Remove(l)
  BY DEF Schedule!Next
<1>1. /\ \A k \in Lines : status[k] \in {"absent", "open", "done"}
      /\ \A k \in Lines : status'[k] \in {"absent", "open", "done"}
  BY DEF IInv, TypeOK
<1>2. ljob'[l] # NoJob => Schedule!Turn(l)
  BY HandedHasTurn
<1>3. CASE l \in N
  <2>1. \A k \in Lines : k.run = l.run => status[k] = "absent"
    BY <1>3 DEF Moves, IInv, FreshEmpty
  <2>2. status'[l] # "done"
    BY <1>3 DEF Moves
  <2>3. CASE status'[l] = "absent"
    BY <2>1, <2>3 DEF PhaseOf
  <2>4. CASE status'[l] = "open"
    BY <1>2, <2>1, <2>4 DEF Schedule!Insert, Schedule!Busy, PhaseOf
  <2> QED BY <1>1, <2>2, <2>3, <2>4
<1>4. CASE l \notin N /\ status'[l] = status[l]
  <2>1. CASE status[l] # "open"
    BY <1>1, <1>4, <2>1 DEF PhaseOf
  <2>2. CASE status[l] = "open"
    BY <1>2, <1>4, <2>2 DEF Schedule!Work, Schedule!GiveUp, PhaseOf
  <2> QED BY <2>1, <2>2
<1>5. CASE status[l] = "done" /\ status'[l] = "absent"
  BY <1>5 DEF Schedule!Remove, PhaseOf
<1>6. CASE status[l] = "open" /\ status'[l] = "absent" /\ ljob[l] = NoJob
  BY <1>6 DEF Schedule!Remove, PhaseOf
<1>7. CASE status[l] = "open" /\ status'[l] = "done" /\ ljob[l] # NoJob
  BY <1>7 DEF Schedule!Finish, PhaseOf
<1>8. CASE /\ status[l] = "open" /\ status'[l] = "done"
           /\ ~OrderpointLine(l) /\ Cleared(l)'
  <2>1. Schedule!Turn(l)
    BY <1>1, <1>8 DEF Schedule!Turn, Schedule!Before, Schedule!Busy, PhaseOf, Cleared
  <2> QED BY <1>8, <2>1 DEF Schedule!Finish, PhaseOf
<1> QED BY <1>3, <1>4, <1>5, <1>6, <1>7, <1>8 DEF Moves

\* The table and its jobs implement the abstract schedule: every step of the
\* crons, jobs, screens, purges and operators moves each line legally or not
\* at all.
THEOREM Refinement == Spec => ImplementsLineSchedule
<1>1. Init => Schedule!Init
  BY DEF Init, Schedule!Init, PhaseOf
<1>2. ASSUME IInv, IInv', [Next]_vars
      PROVE  [Schedule!Next]_[l \in Lines |-> PhaseOf(l)]
  <2>1. CASE Next
    BY <2>1, <1>2, StepMoves, MovesAreLegal
  <2>2. CASE UNCHANGED vars
    BY <2>2 DEF vars, tableVars, PhaseOf
  <2> QED BY <1>2, <2>1, <2>2
<1> QED BY Invariance, <1>1, <1>2, PTL DEF Spec, ImplementsLineSchedule, Schedule!Spec

\* The abstract schedule keeps its own promise: each legal move leaves the lines
\* of lower sequences of a run out of the way of those worked on.
LEMMA ScheduleStep ==
  Schedule!Barrier /\ [Schedule!Next]_[l \in Lines |-> PhaseOf(l)] => Schedule!Barrier'
<1> DEFINE P == [l \in Lines |-> PhaseOf(l)]
<1> SUFFICES ASSUME Schedule!Barrier, Schedule!Next, NEW l \in Lines, P'[l] = "working",
                    NEW k \in Schedule!Before(l)
             PROVE  P'[k] \notin Schedule!Busy
  BY DEF Schedule!Barrier, Schedule!Before
<1>1. k \in Lines /\ k.run = l.run
  BY DEF Schedule!Before
<1>2. CASE P[l] = "working"
  <2>1. P[k] \notin Schedule!Busy
    BY <1>2 DEF Schedule!Barrier
  <2>2. ~Schedule!Insert(k)
    BY <1>1, <1>2 DEF Schedule!Insert
  <2> QED BY <1>1, <2>1, <2>2 DEF Schedule!Next, Schedule!Work, Schedule!GiveUp,
            Schedule!Finish, Schedule!Remove, Schedule!Busy
<1>3. CASE P[l] # "working"
  <2>1. Schedule!Turn(l)
    BY <1>3 DEF Schedule!Next, Schedule!Insert, Schedule!Work, Schedule!GiveUp,
                Schedule!Finish, Schedule!Remove
  <2> QED BY <2>1 DEF Schedule!Turn
<1> QED BY <1>2, <1>3

\* What the abstract schedule promises therefore holds of the controller's lines:
\* none is worked on while a line of a lower sequence of its run is to be done.
THEOREM ScheduleHolds == Spec => []Schedule!Barrier
<1>1. Schedule!Init => Schedule!Barrier
  BY DEF Schedule!Init, Schedule!Barrier
<1> QED BY Refinement, <1>1, ScheduleStep, PTL DEF ImplementsLineSchedule, Schedule!Spec

-----------------------------------------------------------------------------
(***************************************************************************)
(* What is particular to the cron: dates tell the truth, and, when the     *)
(* cron is the only one to pop, a line has one job at most, an invalidated *)
(* line is never processed, and sequences do not overlap.                  *)
(***************************************************************************)

(* The inductive invariants *)

\* A process job comes from a pop job that is over, for a line of its chunk.
ProcessAfterPop ==
  \A p \in Pops, l \in Lines : process[p, l] # "none" =>
    pop[p] \in {"done", "deleted"} /\ l \in chunk[p]

JobsInv == ProcessAfterPop /\ DatedMeansProcessed

\* Pop job p, or the process job it made, may still treat line l, if need be
\* after a requeue.
Pending(p, l) ==
  \/ pop[p] \in {"live", "failed"} /\ l \in chunk[p]
  \/ process[p, l] \in {"live", "failed"}

\* What the cron has read and not popped waits for a job.
TodoWaits ==
  /\ todo["screen"] = {}
  /\ \A l \in todo["cron"] : status[l] \in {"open", "absent"} /\ ljob[l] = NoJob

\* The uuid of a pop job is replaced when it makes a process job.
PopThenProcess ==
  \A p \in Pops, l \in Lines : ljob[l] = <<"pop", p>> => process[p, l] = "none"

\* An open line bears the uuid of the job that may treat it.
OwnJob ==
  \A p \in Pops, l \in Lines :
    Pending(p, l) /\ status[l] = "open" => ljob[l] \in {<<"pop", p>>, <<"process", p>>}

OnePending ==
  \A p, q \in Pops, l \in Lines : Pending(p, l) /\ Pending(q, l) => p = q

\* An invalidated line is gone for good, and no job is left for it.
SkippedGone ==
  \A l \in skipped :
    /\ status[l] = "absent"
    /\ ~Fresh(l.run)
    /\ \A p \in Pops : process[p, l] \notin {"live", "failed"}

\* Without requeues a live job is the one its lines bear, and they are open.
LiveIsBorne ==
  \A p \in Pops, l \in Lines :
    /\ process[p, l] = "live" => status[l] = "open" /\ ljob[l] = <<"process", p>>
    /\ pop[p] = "live" /\ l \in chunk[p] => status[l] = "open" /\ ljob[l] = <<"pop", p>>

\* The run_procs lines never get a job.
OnlyOrderpoints ==
  /\ \A l \in todo["cron"] : OrderpointLine(l)
  /\ \A p \in Pops : \A l \in chunk[p] : OrderpointLine(l)

CronInv ==
  /\ TodoWaits
  /\ OnlyOrderpoints
  /\ PopThenProcess
  /\ OwnJob
  /\ OnePending
  /\ SkippedGone
  /\ ~ManualRequeue => LiveIsBorne

-----------------------------------------------------------------------------
(* Dates *)

\* The jobs that a pop creates, if it creates one
Popped(p, c) ==
  /\ pop[p] = "none"
  /\ pop' = [pop EXCEPT ![p] = "live"]
  /\ chunk' = [chunk EXCEPT ![p] = c]

LEMMA PopChunkPops ==
  ASSUME NEW who, NEW S, NEW lj, PopChunk(who, S, lj)
  PROVE  \E p \in Pops, c \in SUBSET S :
           /\ Popped(p, c)
           /\ ljob' = [l \in Lines |-> IF l \in c THEN <<"pop", p>> ELSE lj[l]]
           /\ todo' = [todo EXCEPT ![who] = S \ c]
  BY DEF PopChunk, Popped

LEMMA UpdateJobs ==
  ASSUME NEW who, NEW st, NEW lj, NEW dt, Update(who, st, lj, dt)
  PROVE  /\ \A l \in dated' : l \in dt \/ ~OrderpointLine(l)
         /\ \/ UNCHANGED <<pop, chunk>>
            \/ \E p \in Pops : \E c : Popped(p, c)
<1>1. CASE dated' = dt /\ UNCHANGED <<pop, chunk>>
  BY <1>1
<1>2. CASE dated' = dt /\ \E S : PopChunk(who, S, lj)
  BY <1>2, PopChunkPops
<1>3. CASE UNCHANGED <<pop, chunk>> /\ \A l \in dated' : l \in dt \/ ~OrderpointLine(l)
  BY <1>3
<1> QED BY <1>1, <1>2, <1>3 DEF Update

\* A step that leaves process jobs alone, and may pop
LEMMA PopsKeepJobs ==
  ASSUME TypeOK, JobsInv, UNCHANGED process,
         \/ UNCHANGED <<pop, chunk>>
         \/ \E p \in Pops : \E c : Popped(p, c),
         \A l \in dated' : l \in dated \/ ~OrderpointLine(l)
  PROVE  JobsInv'
<1>1. ProcessAfterPop'
  <2>1. CASE UNCHANGED <<pop, chunk>>
    BY <2>1 DEF JobsInv, ProcessAfterPop
  <2>2. CASE \E p \in Pops : \E c : Popped(p, c)
    <3>0. PICK p \in Pops : \E c : Popped(p, c)
      BY <2>2
    <3>1. PICK c : Popped(p, c)
      BY <3>0
    <3>2. \A l \in Lines : process[p, l] = "none"
      BY <3>1 DEF JobsInv, ProcessAfterPop, Popped
    <3>3. \A q \in Pops : q # p => pop'[q] = pop[q] /\ chunk'[q] = chunk[q]
      BY <3>1 DEF Popped, TypeOK
    <3> QED BY <3>2, <3>3 DEF JobsInv, ProcessAfterPop
  <2> QED BY <2>1, <2>2
<1>2. DatedMeansProcessed'
  BY DEF JobsInv, DatedMeansProcessed
<1> QED BY <1>1, <1>2 DEF JobsInv

LEMMA JobsInvStep ==
  ASSUME IInv, JobsInv, [Next]_vars
  PROVE  JobsInv'
<1>0. TypeOK
  BY DEF IInv
<1>1. ASSUME NEW r \in Runs, RunStep(r)
      PROVE  JobsInv'
  <2>1. ASSUME NEW c \in Companies, NEW k \in Kinds, Launch(r, c, k)
        PROVE  JobsInv'
    BY <1>0, <2>1, PopsKeepJobs DEF Launch, tableVars
  <2>2. ASSUME NEW filter \in Filters, HeadRuns(r, filter)
        PROVE  JobsInv'
    <3>1. UNCHANGED <<pop, chunk, process>> /\ dated' \subseteq dated
      BY <2>2 DEF HeadRuns
    <3> QED BY <1>0, <3>1, PopsKeepJobs
  <2>3. ASSUME NEW o \in Orderpoints, NEW c \in Companies, ProcessFromScreen(r, o, c)
        PROVE  JobsInv'
    <3>1. PICK st, lj, dt : Update("screen", st, lj, dt) /\ dt \subseteq dated
      BY <2>3 DEF ProcessFromScreen
    <3>2. UNCHANGED process
      BY <2>3 DEF ProcessFromScreen
    <3> QED BY <1>0, <3>1, <3>2, UpdateJobs, PopsKeepJobs
  <2> QED BY <1>1, <2>1, <2>2, <2>3 DEF RunStep
<1>2. CASE UpdateSchedulerController
  <2>1. Update("cron", status, ljob, dated) /\ UNCHANGED process
    BY <1>2 DEF UpdateSchedulerController
  <2> QED BY <1>0, <2>1, UpdateJobs, PopsKeepJobs
<1>3. ASSUME NEW who \in Callers, PopNextChunk(who) \/ StopPopping(who)
      PROVE  JobsInv'
  <2>1. CASE StopPopping(who)
    BY <1>0, <2>1, PopsKeepJobs DEF StopPopping, tableVars, jobVars
  <2>2. CASE PopNextChunk(who)
    <3>1. UNCHANGED <<process, dated>>
      BY <2>2 DEF PopNextChunk
    <3>2. CASE PopChunk(who, todo[who], ljob)
      BY <1>0, <3>1, <3>2, PopChunkPops, PopsKeepJobs
    <3>3. CASE UNCHANGED <<pop, chunk>>
      BY <1>0, <3>1, <3>3, PopsKeepJobs
    <3> QED BY <2>2, <3>2, <3>3 DEF PopNextChunk
  <2> QED BY <1>3, <2>1, <2>2
<1>4. ASSUME NEW p \in Pops, PopRuns(p)
      PROVE  JobsInv'
  <2>1. PICK found \in SUBSET chunk[p] :
          process' = [j \in Pops \X Lines |->
                        IF j[1] = p /\ j[2] \in found THEN "live" ELSE process[j]]
    BY <1>4 DEF PopRuns
  <2>2. /\ pop[p] = "live" /\ pop' = [pop EXCEPT ![p] = "done"]
        /\ UNCHANGED <<chunk, dated>>
    BY <1>4 DEF PopRuns
  <2>3. \A q \in Pops, l \in Lines :
          process'[q, l] = IF q = p /\ l \in found THEN "live" ELSE process[q, l]
    BY <2>1
  <2>4. \A l \in Lines : process[p, l] = "none"
    BY <2>2 DEF JobsInv, ProcessAfterPop
  <2>5. ProcessAfterPop'
    <3> SUFFICES ASSUME NEW q \in Pops, NEW l \in Lines, process'[q, l] # "none"
                 PROVE  pop'[q] \in {"done", "deleted"} /\ l \in chunk'[q]
      BY DEF ProcessAfterPop
    <3>1. q # p => pop'[q] = pop[q]
      BY <1>0, <2>2 DEF TypeOK
    <3>2. q = p => pop'[q] = "done"
      BY <1>0, <2>2 DEF TypeOK
    <3>3. CASE q = p /\ l \in found
      BY <3>2, <3>3, <2>2
    <3>4. CASE ~(q = p /\ l \in found)
      <4>1. process[q, l] # "none"
        BY <2>3, <3>4
      <4>2. q # p /\ pop[q] \in {"done", "deleted"} /\ l \in chunk[q]
        BY <4>1, <2>4 DEF JobsInv, ProcessAfterPop
      <4> QED BY <4>2, <3>1, <2>2
    <3> QED BY <3>3, <3>4
  <2>6. DatedMeansProcessed'
    <3>1. \A q \in Pops, l \in Lines :
            process[q, l] \in {"done", "deleted"} => process'[q, l] = process[q, l]
      BY <2>3, <2>4
    <3>2. dated \subseteq Lines
      BY <1>0 DEF TypeOK
    <3> QED BY <2>2, <3>1, <3>2 DEF JobsInv, DatedMeansProcessed
  <2> QED BY <2>5, <2>6 DEF JobsInv
<1>5. ASSUME NEW p \in Pops, NEW l \in Lines, ProcessRuns(p, l)
      PROVE  JobsInv'
  <2>1. /\ process[p, l] = "live" /\ process' = [process EXCEPT ![<<p, l>>] = "done"]
        /\ UNCHANGED <<pop, chunk>> /\ dated' \subseteq dated \union {l}
    BY <1>5 DEF ProcessRuns
  <2>2. \A q \in Pops, k \in Lines :
          process'[q, k] = IF q = p /\ k = l THEN "done" ELSE process[q, k]
    BY <1>0, <2>1 DEF TypeOK
  <2>3. ProcessAfterPop'
    BY <2>1, <2>2 DEF JobsInv, ProcessAfterPop
  <2>4. DatedMeansProcessed'
    <3> SUFFICES ASSUME NEW k \in dated', OrderpointLine(k)
                 PROVE  \E q \in Pops : process'[q, k] \in {"done", "deleted"}
      BY DEF DatedMeansProcessed
    <3>1. CASE k = l
      BY <2>2, <3>1
    <3>2. CASE k \in dated
      <4>1. PICK q \in Pops : process[q, k] \in {"done", "deleted"}
        BY <3>2 DEF JobsInv, DatedMeansProcessed
      <4>2. k \in Lines
        BY <1>0, <3>2 DEF TypeOK
      <4> QED BY <2>2, <4>1, <4>2
    <3> QED BY <2>1, <3>1, <3>2
  <2> QED BY <2>3, <2>4 DEF JobsInv
<1>6. CASE JobFails \/ RequeueJob \/ DeleteJob
  <2>1. PICK from \in {"live", "done", "failed"}, to \in {"live", "failed", "deleted"} :
          JobMoves(from, to) /\ (from = "done" => to = "deleted")
    BY <1>6 DEF JobFails, RequeueJob, DeleteJob
  <2>2. UNCHANGED <<chunk, dated>>
    BY <2>1 DEF JobMoves, tableVars
  <2>3. \A p \in Pops : pop'[p] = pop[p] \/ (pop[p] = from /\ pop'[p] = to)
    BY <1>0, <2>1 DEF JobMoves, TypeOK
  <2>4. \A p \in Pops, l \in Lines :
          process'[p, l] = process[p, l] \/ (process[p, l] = from /\ process'[p, l] = to)
    BY <1>0, <2>1 DEF JobMoves, TypeOK
  <2>5. ProcessAfterPop'
    BY <2>1, <2>2, <2>3, <2>4 DEF JobsInv, ProcessAfterPop
  <2>6. DatedMeansProcessed'
    <3> SUFFICES ASSUME NEW l \in dated, OrderpointLine(l)
                 PROVE  \E p \in Pops : process'[p, l] \in {"done", "deleted"}
      BY <2>2 DEF DatedMeansProcessed
    <3>1. PICK p \in Pops : process[p, l] \in {"done", "deleted"}
      BY DEF JobsInv, DatedMeansProcessed
    <3>2. l \in Lines
      BY <1>0 DEF TypeOK
    <3>3. process'[p, l] \in {"done", "deleted"}
      BY <2>1, <2>4, <3>1, <3>2
    <3> QED BY <3>3
  <2> QED BY <2>5, <2>6 DEF JobsInv
<1>7. CASE ConfirmationsEnd
  BY <1>0, <1>7, PopsKeepJobs DEF ConfirmationsEnd, tableVars
<1>8. CASE CleanLines
  <2>1. UNCHANGED <<pop, chunk, process>> /\ dated' \subseteq dated
    BY <1>8 DEF CleanLines, jobVars
  <2> QED BY <1>0, <2>1, PopsKeepJobs
<1>9. CASE UNCHANGED vars
  BY <1>0, <1>9, PopsKeepJobs DEF vars, tableVars, jobVars
<1> QED BY <1>1, <1>2, <1>3, <1>4, <1>5, <1>6, <1>7, <1>8, <1>9 DEF Next

LEMMA JobsInvInit == Init => JobsInv
  BY DEF Init, JobsInv, ProcessAfterPop, DatedMeansProcessed

-----------------------------------------------------------------------------
(* Steps that hand no line to a job *)

\* A live job that has line l in its hands
Borne(p, l) ==
  \/ process[p, l] = "live"
  \/ pop[p] = "live" /\ l \in chunk[p]

Calm ==
  /\ UNCHANGED chunk
  /\ \A p \in Pops : pop'[p] \in {"live", "failed"} => pop[p] \in {"live", "failed"}
  /\ \A p \in Pops, l \in Lines :
       process'[p, l] \in {"live", "failed"} => process[p, l] \in {"live", "failed"}
  /\ \A p \in Pops, l \in Lines : process[p, l] = "none" => process'[p, l] = "none"
  /\ \A l \in Lines : ljob'[l] \in {ljob[l], NoJob}
  /\ \A l \in Lines : status'[l] = "open" =>
       \/ \A p \in Pops : ~Pending(p, l)
       \/ status[l] = "open" /\ ljob'[l] = ljob[l]
  /\ todo'["screen"] = {}
  /\ \A l \in todo'["cron"] : l \in todo["cron"] /\ status'[l] \in {"open", "absent"}
  /\ skipped' = skipped \/ SkippedGone'

\* No live job loses a line.
NoneLost ==
  /\ \A p \in Pops : pop'[p] = "live" => pop[p] = "live"
  /\ \A p \in Pops, l \in Lines : process'[p, l] = "live" => process[p, l] = "live"
  /\ \A p \in Pops, l \in Lines :
       Borne(p, l)' /\ status[l] = "open" /\ ljob[l] \in {<<"pop", p>>, <<"process", p>>} =>
         status'[l] = "open" /\ ljob'[l] = ljob[l]

LEMMA SkippedStays ==
  ASSUME SkippedGone, skipped \subseteq Lines, NEW N, Moves(N), skipped' = skipped,
         \A l \in skipped, p \in Pops :
           process'[p, l] \in {"live", "failed"} => process[p, l] \in {"live", "failed"}
  PROVE  SkippedGone'
<1> SUFFICES ASSUME NEW l \in skipped
             PROVE  /\ status'[l] = "absent"
                    /\ ~Fresh(l.run)'
                    /\ \A p \in Pops : process'[p, l] \notin {"live", "failed"}
  BY DEF SkippedGone
<1>1. /\ l \in Lines /\ l.run \in Runs
      /\ status[l] = "absent" /\ ~Fresh(l.run)
      /\ \A p \in Pops : process[p, l] \notin {"live", "failed"}
  BY LineFields DEF SkippedGone
<1>2. ~Fresh(l.run)'
  BY <1>1 DEF Moves
<1>3. l \notin N
  BY <1>1 DEF Moves
<1>4. status'[l] = "absent"
  BY <1>1, <1>3 DEF Moves
<1> QED BY <1>1, <1>2, <1>4

LEMMA CalmKeeps ==
  ASSUME TypeOK, CronInv, Calm, ~ManualRequeue => NoneLost, NEW N, Moves(N)
  PROVE  CronInv'
<1>1. TodoWaits'
  <2> SUFFICES ASSUME NEW l \in todo'["cron"]
               PROVE  status'[l] \in {"open", "absent"} /\ ljob'[l] = NoJob
    BY DEF TodoWaits, Calm
  <2>1. l \in todo["cron"] /\ l \in Lines /\ status'[l] \in {"open", "absent"}
    BY DEF Calm, TypeOK, Callers
  <2> QED BY <2>1 DEF Calm, CronInv, TodoWaits
<1>2. PopThenProcess'
  <2> SUFFICES ASSUME NEW p \in Pops, NEW l \in Lines, ljob'[l] = <<"pop", p>>
               PROVE  process'[p, l] = "none"
    BY DEF PopThenProcess
  <2>1. ljob'[l] # NoJob
    BY SchedulerAssumption
  <2>2. ljob[l] = <<"pop", p>>
    BY <2>1 DEF Calm
  <2>3. process[p, l] = "none"
    BY <2>2 DEF CronInv, PopThenProcess
  <2> QED BY <2>3 DEF Calm
<1>3. \A p \in Pops, l \in Lines : Pending(p, l)' => Pending(p, l)
  BY DEF Calm, Pending
<1>4. OwnJob'
  BY <1>3 DEF CronInv, OwnJob, Calm
<1>5. OnePending'
  BY <1>3 DEF CronInv, OnePending
<1>6. SkippedGone'
  <2>1. CASE skipped' = skipped
    BY <2>1, SkippedStays DEF CronInv, Calm, TypeOK
  <2>2. CASE SkippedGone'
    BY <2>2
  <2> QED BY <2>1, <2>2 DEF Calm
<1>7. ASSUME ~ManualRequeue
      PROVE  LiveIsBorne'
  <2> SUFFICES ASSUME NEW p \in Pops, NEW l \in Lines
               PROVE  /\ process'[p, l] = "live" =>
                           status'[l] = "open" /\ ljob'[l] = <<"process", p>>
                      /\ pop'[p] = "live" /\ l \in chunk'[p] =>
                           status'[l] = "open" /\ ljob'[l] = <<"pop", p>>
    BY DEF LiveIsBorne
  <2>1. NoneLost /\ LiveIsBorne /\ chunk' = chunk
    BY <1>7 DEF CronInv, Calm
  <2>2. ASSUME process'[p, l] = "live"
        PROVE  status'[l] = "open" /\ ljob'[l] = <<"process", p>>
    BY <2>1, <2>2 DEF NoneLost, LiveIsBorne, Borne
  <2>3. ASSUME pop'[p] = "live", l \in chunk'[p]
        PROVE  status'[l] = "open" /\ ljob'[l] = <<"pop", p>>
    BY <2>1, <2>3 DEF NoneLost, LiveIsBorne, Borne
  <2> QED BY <2>2, <2>3
<1>8. OnlyOrderpoints'
  BY DEF Calm, CronInv, OnlyOrderpoints
<1> QED BY <1>1, <1>2, <1>4, <1>5, <1>6, <1>7, <1>8 DEF CronInv

\* The steps that change neither the table nor the jobs of lines
LEMMA SameTable ==
  ASSUME TypeOK, CronInv, NEW N, Moves(N),
         UNCHANGED <<status, ljob, pop, chunk, process, skipped>>,
         todo'["screen"] = {}, todo'["cron"] \subseteq todo["cron"]
  PROVE  CronInv'
<1>1. \A l \in todo["cron"] : status[l] \in {"open", "absent"}
  BY DEF CronInv, TodoWaits
<1>2. Calm
  BY <1>1 DEF Calm
<1>3. NoneLost
  BY DEF NoneLost
<1> QED BY <1>2, <1>3, CalmKeeps

LEMMA HeadRunsCron ==
  ASSUME IInv, JobsInv, CronInv, NEW r \in Runs, NEW filter \in Filters, HeadRuns(r, filter)
  PROVE  CronInv'
<1> DEFINE ops == {o \in filter : CompanyOf[o] = company[r]}
           closed == [l \in Lines |-> IF l \in Stale(r) THEN "done" ELSE status[l]]
           N == LinesFor(r, ops)
<1>0. Stale(r) \subseteq Lines /\ \A l \in Stale(r) : status[l] = "open" /\ ljob[l] = NoJob
  BY DEF Stale
<1>1. PICK purge \in Purges(closed, dated) :
        /\ status' = [l \in Lines |-> IF l \in N THEN "open"
                                      ELSE IF l \in purge THEN "absent" ELSE closed[l]]
        /\ ljob' = [l \in Lines |-> IF l \in purge THEN NoJob ELSE ljob[l]]
  BY DEF HeadRuns
<1>2. /\ purge \subseteq Lines
      /\ \A l \in purge : closed[l] = "done"
      /\ \A l \in Lines : closed[l] = "done" /\ l \notin dated => l \in purge
  BY PurgeSpec
<1>3. /\ head[r] = "live" /\ head' = [head EXCEPT ![r] = "done"]
      /\ skipped' = skipped \union Stale(r)
      /\ UNCHANGED <<kind, company, pop, chunk, process, todo, deletions>>
  BY DEF HeadRuns
<1>4. N \subseteq Lines /\ \A l \in N : l.run = r
  BY DEF LinesFor
<1>5. /\ TypeOK /\ HandedCleared /\ FreshEmpty /\ UnstartedHasNoHead /\ AbsentHasNoJob
      /\ DatedIsDone
  BY DEF IInv
<1>6. Fresh(r)
  BY <1>3 DEF Fresh
<1> HIDE DEF ops, N
<1>7. ASSUME NEW l \in N
      PROVE  status[l] = "absent" /\ \A p \in Pops : ~Pending(p, l)
  <2>1. status[l] = "absent" /\ l \in Lines
    BY <1>4, <1>5, <1>6 DEF FreshEmpty
  <2>2. ~Handed(l)
    BY <1>4, <1>5, <1>6, <2>1 DEF HandedCleared
  <2>3. \A p \in Pops : l \notin chunk[p]
    BY <2>2 DEF Handed
  <2>4. \A p \in Pops : process[p, l] = "none"
    BY <2>1, <2>3 DEF JobsInv, ProcessAfterPop
  <2> QED BY <2>1, <2>3, <2>4 DEF Pending
<1>8. \A l \in Lines \ N : status'[l] = "open" => status[l] = "open" /\ ljob'[l] = ljob[l]
  BY <1>0, <1>1, <1>2
<1>9. \A l \in Stale(r) : status'[l] = "absent" /\ \A p \in Pops : ~Pending(p, l)
  <2> SUFFICES ASSUME NEW l \in Stale(r)
               PROVE  status'[l] = "absent" /\ \A p \in Pops : ~Pending(p, l)
    OBVIOUS
  <2>1. l \in Lines /\ status[l] = "open" /\ ljob[l] = NoJob
    BY <1>0
  <2>2. l \notin dated /\ l \notin N
    BY <2>1, <1>5, <1>7 DEF DatedIsDone
  <2>3. status'[l] = "absent"
    BY <2>1, <2>2, <1>1, <1>2
  <2>4. \A p \in Pops : ~Pending(p, l)
    BY <2>1, SchedulerAssumption DEF CronInv, OwnJob
  <2> QED BY <2>3, <2>4
<1>10. PICK M \in SUBSET Lines : Moves(M)
  BY HeadRunsMoves
<1>11. SkippedGone'
  <2> SUFFICES ASSUME NEW l \in skipped'
               PROVE  /\ status'[l] = "absent"
                      /\ ~Fresh(l.run)'
                      /\ \A p \in Pops : process'[p, l] \notin {"live", "failed"}
    BY DEF SkippedGone
  <2>1. CASE l \in skipped
    <3>1. /\ status[l] = "absent" /\ ~Fresh(l.run) /\ l \in Lines /\ l.run \in Runs
          /\ \A p \in Pops : process[p, l] \notin {"live", "failed"}
      BY <2>1, <1>5, LineFields DEF CronInv, SkippedGone, TypeOK
    <3>2. l \notin M /\ ~Fresh(l.run)'
      BY <3>1, <1>10 DEF Moves
    <3>3. status'[l] = "absent"
      BY <3>1, <3>2, <1>10 DEF Moves
    <3> QED BY <3>1, <3>2, <3>3, <1>3
  <2>2. CASE l \in Stale(r)
    <3>1. status'[l] = "absent" /\ \A p \in Pops : process[p, l] \notin {"live", "failed"}
      BY <1>9, <2>2 DEF Pending
    <3>2. l \in Lines /\ status[l] = "open" /\ l.run \in Runs
      BY <1>0, <2>2, LineFields
    <3>3. ~Fresh(l.run)'
      BY <3>2, <1>5, <1>10 DEF FreshEmpty, Moves
    <3> QED BY <3>1, <3>3, <1>3
  <2> QED BY <2>1, <2>2, <1>3
<1>12. \A l \in todo["cron"] : status'[l] \in {"open", "absent"}
  <2> SUFFICES ASSUME NEW l \in todo["cron"]
               PROVE  status'[l] \in {"open", "absent"}
    OBVIOUS
  <2>1. l \in Lines /\ status[l] \in {"open", "absent"}
    BY <1>5 DEF CronInv, TodoWaits, TypeOK, Callers
  <2> QED BY <2>1, <1>1, <1>9
<1>13. Calm
  <2>1. \A l \in Lines : ljob'[l] \in {ljob[l], NoJob}
    BY <1>1
  <2>2. \A l \in Lines : status'[l] = "open" =>
          \/ \A p \in Pops : ~Pending(p, l)
          \/ status[l] = "open" /\ ljob'[l] = ljob[l]
    BY <1>7, <1>8
  <2> QED BY <1>3, <1>11, <1>12, <2>1, <2>2 DEF Calm, CronInv, TodoWaits
<1>14. NoneLost
  <2> SUFFICES ASSUME NEW p \in Pops, NEW l \in Lines, status[l] = "open",
                      ljob[l] \in {<<"pop", p>>, <<"process", p>>}
               PROVE  status'[l] = "open" /\ ljob'[l] = ljob[l]
    BY <1>3 DEF NoneLost
  <2>1. ljob[l] # NoJob
    BY SchedulerAssumption
  <2>2. l \notin N /\ l \notin Stale(r)
    BY <1>0, <1>7, <2>1
  <2> QED BY <1>1, <1>2, <2>2
<1> QED BY <1>5, <1>10, <1>13, <1>14, CalmKeeps

LEMMA ProcessRunsCron ==
  ASSUME IInv, JobsInv, CronInv, NEW p \in Pops, NEW l \in Lines, ProcessRuns(p, l)
  PROVE  CronInv'
<1>1. TypeOK /\ Moves({})
  BY ProcessRunsMoves DEF IInv
<1>2. /\ process[p, l] = "live" /\ process' = [process EXCEPT ![<<p, l>>] = "done"]
      /\ UNCHANGED <<ljob, pop, chunk, todo, skipped>>
      /\ \/ UNCHANGED status
         \/ ljob[l] = <<"process", p>> /\ status' = [status EXCEPT ![l] = "done"]
  BY DEF ProcessRuns
<1>3. \A q \in Pops, k \in Lines :
        process'[q, k] = IF q = p /\ k = l THEN "done" ELSE process[q, k]
  BY <1>1, <1>2 DEF TypeOK
<1>4. \A k \in Lines : status'[k] = status[k] \/ (k = l /\ status'[k] = "done" /\ ljob[l] = <<"process", p>>)
  BY <1>1, <1>2 DEF TypeOK
<1>5. <<"process", p>> # NoJob
  BY SchedulerAssumption
<1>6. \A k \in todo["cron"] : k \in Lines /\ status'[k] \in {"open", "absent"}
  BY <1>1, <1>4, <1>5 DEF CronInv, TodoWaits, TypeOK, Callers
<1>7. Calm
  <2>1. \A k \in Lines : status'[k] = "open" => status[k] = "open" /\ ljob'[k] = ljob[k]
    BY <1>2, <1>4
  <2>2. \A q \in Pops, k \in Lines :
          /\ process'[q, k] \in {"live", "failed"} => process[q, k] \in {"live", "failed"}
          /\ process[q, k] = "none" => process'[q, k] = "none"
    BY <1>2, <1>3
  <2> QED BY <1>2, <1>6, <2>1, <2>2 DEF Calm, CronInv, TodoWaits
<1>8. NoneLost
  <2> SUFFICES ASSUME NEW q \in Pops, NEW k \in Lines, Borne(q, k)', status[k] = "open",
                      ljob[k] \in {<<"pop", q>>, <<"process", q>>}
               PROVE  status'[k] = "open"
    <3>1. \A q \in Pops : pop'[q] = "live" => pop[q] = "live"
      BY <1>2
    <3>2. \A q \in Pops, k \in Lines : process'[q, k] = "live" => process[q, k] = "live"
      BY <1>3
    <3>3. ljob' = ljob
      BY <1>2
    <3> QED BY <3>1, <3>2, <3>3 DEF NoneLost
  <2>1. CASE status'[k] = status[k]
    BY <2>1
  <2>2. CASE k = l /\ ljob[l] = <<"process", p>>
    <3>1. q = p
      BY <2>2
    <3>2. pop[p] # "live"
      BY <1>2 DEF JobsInv, ProcessAfterPop
    <3>3. process'[p, l] # "live"
      BY <1>3
    <3> QED BY <2>2, <3>1, <3>2, <3>3, <1>2 DEF Borne
  <2> QED BY <1>4, <2>1, <2>2
<1> QED BY <1>1, <1>7, <1>8, CalmKeeps

\* Jobs fail and are requeued or deleted; a requeue is the user's doing.
LEMMA JobMovesCron ==
  ASSUME IInv, CronInv, JobFails \/ RequeueJob \/ DeleteJob
  PROVE  CronInv'
<1>1. TypeOK
  BY DEF IInv
<1>2. PICK from \in {"live", "done", "failed"}, to \in {"live", "failed", "deleted"} :
        /\ JobMoves(from, to)
        /\ from = "done" => to = "deleted"
        /\ to = "live" => ManualRequeue
  BY DEF JobFails, RequeueJob, DeleteJob
<1>3. UNCHANGED <<status, ljob, chunk, todo, skipped>>
  BY <1>2 DEF JobMoves, tableVars
<1>4. \A p \in Pops : pop'[p] = pop[p] \/ (pop[p] = from /\ pop'[p] = to)
  BY <1>1, <1>2 DEF JobMoves, TypeOK
<1>5. \A p \in Pops, l \in Lines :
        process'[p, l] = process[p, l] \/ (process[p, l] = from /\ process'[p, l] = to)
  BY <1>1, <1>2 DEF JobMoves, TypeOK
<1>6. Next
  BY DEF Next
<1>7. PICK N \in SUBSET Lines : Moves(N)
  BY <1>6, StepMoves
<1>8. Calm
  BY <1>2, <1>3, <1>4, <1>5 DEF Calm, CronInv, TodoWaits
<1>9. ~ManualRequeue => NoneLost
  BY <1>2, <1>3, <1>4, <1>5 DEF NoneLost
<1> QED BY <1>1, <1>7, <1>8, <1>9, CalmKeeps

LEMMA CleanLinesCron ==
  ASSUME IInv, CronInv, CleanLines
  PROVE  CronInv'
<1>1. TypeOK /\ Moves({})
  BY CleanLinesMoves DEF IInv
<1>2. PICK old \in SUBSET {l \in dated : status[l] = "done"} :
        /\ status' = [l \in Lines |-> IF l \in old THEN "absent" ELSE status[l]]
        /\ ljob' = [l \in Lines |-> IF l \in old THEN NoJob ELSE ljob[l]]
  BY DEF CleanLines
<1>3. UNCHANGED <<pop, chunk, process, todo, skipped>>
  BY DEF CleanLines, jobVars
<1>4. \A l \in Lines : status[l] = "open" \/ status'[l] = "open" =>
        status'[l] = status[l] /\ ljob'[l] = ljob[l]
  BY <1>2
<1>5. \A l \in todo["cron"] : status'[l] \in {"open", "absent"}
  <2> SUFFICES ASSUME NEW l \in todo["cron"]
               PROVE  status'[l] \in {"open", "absent"}
    OBVIOUS
  <2>1. l \in Lines /\ status[l] \in {"open", "absent"}
    BY <1>1 DEF CronInv, TodoWaits, TypeOK, Callers
  <2> QED BY <2>1, <1>2
<1>6. Calm
  <2>1. \A l \in Lines : ljob'[l] \in {ljob[l], NoJob}
    BY <1>2
  <2> QED BY <1>3, <1>4, <1>5, <2>1 DEF Calm, CronInv, TodoWaits
<1>7. NoneLost
  BY <1>3, <1>4 DEF NoneLost
<1> QED BY <1>1, <1>6, <1>7, CalmKeeps

-----------------------------------------------------------------------------
(* Steps that hand lines to a job *)

\* The cron gives the lines c of its list S to the pop job p.
LEMMA CronPops ==
  ASSUME TypeOK, JobsInv, CronInv, NEW N, Moves(N),
         NEW p \in Pops, NEW S \in SUBSET Lines, NEW c \in SUBSET S,
         \A l \in S : /\ status[l] \in {"open", "absent"} /\ ljob[l] = NoJob
                     /\ OrderpointLine(l),
         \A l \in c : status[l] = "open",
         Popped(p, c),
         ljob' = [l \in Lines |-> IF l \in c THEN <<"pop", p>> ELSE ljob[l]],
         todo' = [todo EXCEPT !["cron"] = S \ c],
         UNCHANGED <<status, process, skipped>>
  PROVE  CronInv'
<1>1. /\ \A l \in Lines : process[p, l] = "none"
      /\ \A q \in Pops : q # p => pop'[q] = pop[q] /\ chunk'[q] = chunk[q]
      /\ chunk'[p] = c /\ pop'[p] = "live"
  BY DEF JobsInv, ProcessAfterPop, Popped, TypeOK
<1>2. \A l \in c : l \in Lines /\ \A q \in Pops : ~Pending(q, l)
  BY SchedulerAssumption DEF CronInv, OwnJob
<1>3. \A q \in Pops, l \in Lines :
        Pending(q, l)' => (q = p /\ l \in c) \/ (q # p /\ l \notin c /\ Pending(q, l))
  <2> SUFFICES ASSUME NEW q \in Pops, NEW l \in Lines, Pending(q, l)'
               PROVE  (q = p /\ l \in c) \/ (q # p /\ l \notin c /\ Pending(q, l))
    OBVIOUS
  <2>1. CASE q = p
    BY <1>1, <2>1 DEF Pending
  <2>2. CASE q # p
    BY <1>1, <1>2, <2>2 DEF Pending
  <2> QED BY <2>1, <2>2
<1>4. TodoWaits'
  <2>1. todo'["cron"] = S \ c /\ todo'["screen"] = {}
    BY DEF TypeOK, Callers, CronInv, TodoWaits
  <2> QED BY <2>1 DEF TodoWaits
<1>5. PopThenProcess'
  <2> SUFFICES ASSUME NEW q \in Pops, NEW l \in Lines, ljob'[l] = <<"pop", q>>
               PROVE  process[q, l] = "none"
    BY DEF PopThenProcess
  <2>1. CASE l \in c
    BY <1>1, <2>1
  <2>2. CASE l \notin c
    BY <2>2 DEF CronInv, PopThenProcess
  <2> QED BY <2>1, <2>2
<1>6. OwnJob'
  <2> SUFFICES ASSUME NEW q \in Pops, NEW l \in Lines, Pending(q, l)', status[l] = "open"
               PROVE  ljob'[l] \in {<<"pop", q>>, <<"process", q>>}
    BY DEF OwnJob
  <2>1. CASE q = p /\ l \in c
    BY <2>1
  <2>2. CASE q # p /\ l \notin c /\ Pending(q, l)
    BY <2>2 DEF CronInv, OwnJob
  <2> QED BY <1>3, <2>1, <2>2
<1>7. OnePending'
  BY <1>3 DEF CronInv, OnePending
<1>8. SkippedGone'
  BY SkippedStays DEF CronInv, TypeOK
<1>9. ASSUME ~ManualRequeue
      PROVE  LiveIsBorne'
  <2> SUFFICES ASSUME NEW q \in Pops, NEW l \in Lines
               PROVE  /\ process[q, l] = "live" =>
                           status[l] = "open" /\ ljob'[l] = <<"process", q>>
                      /\ pop'[q] = "live" /\ l \in chunk'[q] =>
                           status[l] = "open" /\ ljob'[l] = <<"pop", q>>
    BY DEF LiveIsBorne
  <2>1. LiveIsBorne
    BY <1>9 DEF CronInv
  <2>2. ASSUME process[q, l] = "live"
        PROVE  status[l] = "open" /\ ljob'[l] = <<"process", q>>
    <3>1. l \notin c
      BY <1>2, <2>2 DEF Pending
    <3> QED BY <2>1, <2>2, <3>1 DEF LiveIsBorne
  <2>3. ASSUME pop'[q] = "live", l \in chunk'[q]
        PROVE  status[l] = "open" /\ ljob'[l] = <<"pop", q>>
    <3>1. CASE q = p
      BY <1>1, <2>3, <3>1
    <3>2. CASE q # p
      <4>1. pop[q] = "live" /\ l \in chunk[q]
        BY <1>1, <2>3, <3>2
      <4>2. l \notin c
        BY <1>2, <4>1 DEF Pending
      <4> QED BY <2>1, <4>1, <4>2 DEF LiveIsBorne
    <3> QED BY <3>1, <3>2
  <2> QED BY <2>2, <2>3
<1>10. OnlyOrderpoints'
  <2>1. todo'["cron"] = S \ c
    BY DEF TypeOK, Callers
  <2>2. \A q \in Pops : chunk'[q] = c \/ chunk'[q] = chunk[q]
    BY <1>1
  <2> QED BY <2>1, <2>2 DEF CronInv, OnlyOrderpoints
<1> QED BY <1>4, <1>5, <1>6, <1>7, <1>8, <1>9, <1>10 DEF CronInv

LEMMA PopRunsCron ==
  ASSUME IInv, JobsInv, CronInv, NEW p \in Pops, PopRuns(p)
  PROVE  CronInv'
<1> DEFINE found == {l \in chunk[p] : status[l] # "absent"}
<1>1. TypeOK /\ Moves({})
  BY PopRunsMoves DEF IInv
<1>2. /\ pop[p] = "live" /\ pop' = [pop EXCEPT ![p] = "done"]
      /\ process' = [j \in Pops \X Lines |->
                       IF j[1] = p /\ j[2] \in found THEN "live" ELSE process[j]]
      /\ ljob' = [l \in Lines |-> IF l \in found THEN <<"process", p>> ELSE ljob[l]]
      /\ UNCHANGED <<status, chunk, todo, skipped>>
  BY DEF PopRuns
<1>3. /\ found \subseteq chunk[p] /\ found \subseteq Lines
      /\ \A l \in found : status[l] # "absent" /\ Pending(p, l)
  BY <1>1, <1>2 DEF TypeOK, Pending
<1> HIDE DEF found
<1>4. /\ \A q \in Pops, l \in Lines :
           process'[q, l] = IF q = p /\ l \in found THEN "live" ELSE process[q, l]
      /\ \A q \in Pops : pop'[q] = IF q = p THEN "done" ELSE pop[q]
  BY <1>1, <1>2 DEF TypeOK
<1>5. \A q \in Pops, l \in Lines : Pending(q, l)' => Pending(q, l)
  <2> SUFFICES ASSUME NEW q \in Pops, NEW l \in Lines, Pending(q, l)'
               PROVE  Pending(q, l)
    OBVIOUS
  <2>1. CASE q = p /\ l \in found
    BY <1>3, <2>1
  <2>2. CASE ~(q = p /\ l \in found)
    <3>1. process'[q, l] = process[q, l]
      BY <1>4, <2>2
    <3>2. pop'[q] \in {"live", "failed"} => pop[q] \in {"live", "failed"}
      BY <1>4
    <3> QED BY <1>2, <3>1, <3>2 DEF Pending
  <2> QED BY <2>1, <2>2
<1>6. \A l \in found : status[l] = "open" => ljob[l] # NoJob
  BY <1>3, SchedulerAssumption DEF CronInv, OwnJob
<1>7. TodoWaits'
  <2> SUFFICES ASSUME NEW l \in todo["cron"]
               PROVE  status[l] \in {"open", "absent"} /\ ljob'[l] = NoJob
    BY <1>2 DEF TodoWaits, CronInv
  <2>1. l \in Lines /\ status[l] \in {"open", "absent"} /\ ljob[l] = NoJob
    BY <1>1 DEF CronInv, TodoWaits, TypeOK, Callers
  <2>2. l \notin found
    BY <1>3, <1>6, <2>1
  <2> QED BY <1>2, <2>1, <2>2
<1>8. PopThenProcess'
  <2> SUFFICES ASSUME NEW q \in Pops, NEW l \in Lines, ljob'[l] = <<"pop", q>>
               PROVE  process'[q, l] = "none"
    BY DEF PopThenProcess
  <2>1. l \notin found
    BY <1>2
  <2>2. ljob[l] = <<"pop", q>>
    BY <1>2, <2>1
  <2> QED BY <1>4, <2>1, <2>2 DEF CronInv, PopThenProcess
<1>9. OwnJob'
  <2> SUFFICES ASSUME NEW q \in Pops, NEW l \in Lines, Pending(q, l), status[l] = "open"
               PROVE  ljob'[l] \in {<<"pop", q>>, <<"process", q>>}
    BY <1>2, <1>5 DEF OwnJob
  <2>1. CASE l \in found
    <3>1. q = p
      BY <1>3, <2>1 DEF CronInv, OnePending
    <3> QED BY <1>2, <2>1, <3>1
  <2>2. CASE l \notin found
    BY <1>2, <2>2 DEF CronInv, OwnJob
  <2> QED BY <2>1, <2>2
<1>10. OnePending'
  BY <1>5 DEF CronInv, OnePending
<1>11. SkippedGone'
  <2>1. SkippedGone /\ skipped \subseteq Lines
    BY <1>1 DEF CronInv, TypeOK
  <2>2. \A l \in skipped, q \in Pops :
          process'[q, l] \in {"live", "failed"} => process[q, l] \in {"live", "failed"}
    BY <1>3, <1>4, <2>1 DEF SkippedGone
  <2> QED BY <1>1, <1>2, <2>1, <2>2, SkippedStays
<1>12. ASSUME ~ManualRequeue
       PROVE  LiveIsBorne'
  <2> SUFFICES ASSUME NEW q \in Pops, NEW l \in Lines
               PROVE  /\ process'[q, l] = "live" =>
                           status'[l] = "open" /\ ljob'[l] = <<"process", q>>
                      /\ pop'[q] = "live" /\ l \in chunk'[q] =>
                           status'[l] = "open" /\ ljob'[l] = <<"pop", q>>
    BY DEF LiveIsBorne
  <2>1. LiveIsBorne
    BY <1>12 DEF CronInv
  <2>2. \A k \in found : status[k] = "open" /\ ljob[k] = <<"pop", p>>
    BY <1>2, <1>3, <2>1 DEF LiveIsBorne
  <2>3. ASSUME process'[q, l] = "live"
        PROVE  status'[l] = "open" /\ ljob'[l] = <<"process", q>>
    <3>1. CASE q = p /\ l \in found
      BY <1>2, <2>2, <3>1
    <3>2. CASE ~(q = p /\ l \in found)
      <4>1. status[l] = "open" /\ ljob[l] = <<"process", q>>
        BY <1>4, <2>1, <2>3, <3>2 DEF LiveIsBorne
      <4>2. l \notin found
        BY <2>2, <4>1
      <4> QED BY <1>2, <4>1, <4>2
    <3> QED BY <3>1, <3>2
  <2>4. ASSUME pop'[q] = "live", l \in chunk'[q]
        PROVE  status'[l] = "open" /\ ljob'[l] = <<"pop", q>>
    <3>0. q # p
      <4>1. pop'[p] = "done"
        BY <1>4
      <4> QED BY <2>4, <4>1
    <3>1. q # p /\ pop[q] = "live" /\ l \in chunk[q]
      <4>1. pop'[q] = pop[q] /\ chunk' = chunk
        BY <1>2, <1>4, <3>0
      <4> QED BY <2>4, <3>0, <4>1
    <3>2. status[l] = "open" /\ ljob[l] = <<"pop", q>>
      BY <2>1, <3>1 DEF LiveIsBorne
    <3>3. l \notin found
      BY <2>2, <3>1, <3>2
    <3> QED BY <1>2, <3>2, <3>3
  <2> QED BY <2>3, <2>4
<1>13. OnlyOrderpoints'
  BY <1>2 DEF CronInv, OnlyOrderpoints
<1> QED BY <1>7, <1>8, <1>9, <1>10, <1>11, <1>12, <1>13 DEF CronInv

LEMMA ProcessJobOf ==
  ASSUME NEW p \in Pops, NEW l \in Lines, ljob[l] = <<"process", p>>
  PROVE  JobOf(l) = process[p, l]
<1>1. ljob[l] # NoJob
  BY SchedulerAssumption
<1>2. ljob[l][1] # "pop" /\ ljob[l][2] = p
  OBVIOUS
<1>3. JobOf(l) = process[ljob[l][2], l]
  BY <1>1, <1>2 DEF JobOf
<1> QED BY <1>2, <1>3

LEMMA UpdateCron ==
  ASSUME IInv, JobsInv, CronInv, UpdateSchedulerController
  PROVE  CronInv'
<1> DEFINE lowest == Lowest({l \in Lines : status[l] = "open"})
           unstarted == {l \in lowest : OrderpointLine(l) /\ ljob[l] = NoJob}
           waiting == {l \in lowest : OrderpointLine(l) /\ ljob[l] # NoJob}
           finished == {l \in waiting : JobOver(l)}
           lost == {l \in waiting : JobLost(l)}
           runLines == IF lost = {} THEN {l \in lowest : ~OrderpointLine(l)} ELSE {}
<1>1. TypeOK /\ Moves({})
  BY UpdateMoves DEF IInv
<1>2. Update("cron", status, ljob, dated) /\ UNCHANGED <<process, skipped>>
  BY DEF UpdateSchedulerController
<1>3. /\ \A l \in lowest : l \in Lines /\ status[l] = "open"
      /\ \A l \in unstarted : /\ l \in Lines /\ status[l] = "open" /\ ljob[l] = NoJob
                             /\ OrderpointLine(l)
      /\ \A l \in finished \union lost : l \in Lines /\ status[l] = "open"
      /\ \A l \in finished : ljob[l] # NoJob /\ JobOver(l)
      /\ \A l \in lost : ljob[l] # NoJob /\ JobLost(l)
      /\ \A l \in runLines : l \in Lines /\ ~OrderpointLine(l) /\ status[l] = "open"
  BY DEF Lowest
<1>4. CASE UNCHANGED <<status, ljob, pop, chunk, todo>>
  BY <1>1, <1>2, <1>4, SameTable DEF CronInv, TodoWaits
<1>5. CASE PopChunk("cron", unstarted, ljob) /\ status' = status
  <2> HIDE DEF unstarted
  <2>1. PICK p \in Pops, c \in SUBSET unstarted :
          /\ Popped(p, c)
          /\ ljob' = [l \in Lines |-> IF l \in c THEN <<"pop", p>> ELSE ljob[l]]
          /\ todo' = [todo EXCEPT !["cron"] = unstarted \ c]
    BY <1>5, PopChunkPops
  <2>2. unstarted \in SUBSET Lines
    BY <1>3
  <2> QED BY <1>1, <1>2, <1>3, <1>5, <2>1, <2>2, CronPops
<1>6. CASE /\ status' = [l \in Lines |-> IF l \in finished \union runLines THEN "done" ELSE status[l]]
           /\ ljob' = [l \in Lines |-> IF l \in lost THEN NoJob ELSE ljob[l]]
           /\ UNCHANGED <<pop, chunk, todo>>
  <2> HIDE DEF finished, lost, runLines, waiting, unstarted, lowest
  <2>1. \A l \in lost, p \in Pops : ~Pending(p, l)
    <3> SUFFICES ASSUME NEW l \in lost, NEW p \in Pops, Pending(p, l)
                 PROVE  FALSE
      OBVIOUS
    <3>1. l \in Lines /\ status[l] = "open" /\ ljob[l] # NoJob /\ JobLost(l)
      BY <1>3
    <3>2. ljob[l] \in {<<"pop", p>>, <<"process", p>>}
      BY <3>1 DEF CronInv, OwnJob
    <3>3. CASE ljob[l] = <<"pop", p>>
      <4>1. pop[p] = "deleted"
        BY <3>1, <3>3 DEF JobLost, JobOf
      <4>2. process[p, l] = "none"
        BY <3>1, <3>3 DEF CronInv, PopThenProcess
      <4> QED BY <4>1, <4>2 DEF Pending
    <3>4. CASE ljob[l] = <<"process", p>>
      <4>1. process[p, l] = "deleted"
        BY <3>1, <3>4, ProcessJobOf DEF JobLost
      <4>2. pop[p] \in {"done", "deleted"}
        BY <3>1, <4>1 DEF JobsInv, ProcessAfterPop
      <4> QED BY <4>1, <4>2 DEF Pending
    <3> QED BY <3>2, <3>3, <3>4
  <2>2. \A l \in Lines : status'[l] = "open" =>
          \/ \A p \in Pops : ~Pending(p, l)
          \/ status[l] = "open" /\ ljob'[l] = ljob[l]
    <3> SUFFICES ASSUME NEW l \in Lines, status'[l] = "open"
                 PROVE  \/ \A p \in Pops : ~Pending(p, l)
                        \/ status[l] = "open" /\ ljob'[l] = ljob[l]
      OBVIOUS
    <3>1. CASE l \in lost
      BY <2>1, <3>1
    <3>2. CASE l \notin lost
      BY <1>6, <3>2
    <3> QED BY <3>1, <3>2
  <2>3. todo["cron"] = {}
    BY <1>2 DEF Update
  <2>4. Calm
    <3>1. \A l \in Lines : ljob'[l] \in {ljob[l], NoJob}
      BY <1>6
    <3> QED BY <1>2, <1>6, <2>2, <2>3, <3>1 DEF Calm, CronInv, TodoWaits
  <2>5. ASSUME NEW p \in Pops, NEW l \in Lines, Borne(p, l),
               ljob[l] \in {<<"pop", p>>, <<"process", p>>}
        PROVE  l \notin finished \union lost \union runLines
    <3>1. l \notin lost
      BY <2>1, <2>5 DEF Borne, Pending
    <3>2. l \notin runLines
      <4>1. l \in chunk[p]
        BY <2>5 DEF Borne, JobsInv, ProcessAfterPop
      <4> QED BY <1>3, <4>1 DEF CronInv, OnlyOrderpoints
    <3>3. ASSUME l \in finished
          PROVE  FALSE
      <4>1. ljob[l] # NoJob /\ JobOver(l)
        BY <1>3, <3>3
      <4>2. CASE ljob[l] = <<"pop", p>>
        <5>1. pop[p] \in {"done", "failed"}
          BY <4>1, <4>2 DEF JobOver, JobOf
        <5>2. process[p, l] = "none"
          BY <4>2 DEF CronInv, PopThenProcess
        <5> QED BY <2>5, <5>1, <5>2 DEF Borne
      <4>3. CASE ljob[l] = <<"process", p>>
        <5>1. process[p, l] \in {"done", "failed"}
          BY <4>1, <4>3, ProcessJobOf DEF JobOver
        <5>2. pop[p] \in {"done", "deleted"}
          BY <5>1 DEF JobsInv, ProcessAfterPop
        <5> QED BY <2>5, <5>1, <5>2 DEF Borne
      <4> QED BY <2>5, <4>2, <4>3
    <3> QED BY <3>1, <3>2, <3>3
  <2>6. NoneLost
    <3> SUFFICES ASSUME NEW p \in Pops, NEW l \in Lines, Borne(p, l)', status[l] = "open",
                        ljob[l] \in {<<"pop", p>>, <<"process", p>>}
                 PROVE  status'[l] = "open" /\ ljob'[l] = ljob[l]
      BY <1>2, <1>6 DEF NoneLost
    <3>1. Borne(p, l)
      BY <1>2, <1>6 DEF Borne
    <3>2. l \notin finished \union lost \union runLines
      BY <2>5, <3>1
    <3> QED BY <1>6, <3>2
  <2> QED BY <1>1, <2>4, <2>6, CalmKeeps
<1> QED BY <1>2, <1>4, <1>5, <1>6 DEF Update

LEMMA PopNextChunkCron ==
  ASSUME IInv, JobsInv, CronInv, NEW who \in Callers, PopNextChunk(who)
  PROVE  CronInv'
<1>1. TypeOK /\ Moves({})
  BY PopNextChunkMoves DEF IInv
<1>2. UNCHANGED <<status, process, skipped>> /\ todo[who] # {}
  BY DEF PopNextChunk
<1>3. who = "cron"
  BY <1>2 DEF Callers, CronInv, TodoWaits
<1>4. CASE /\ PopChunk("cron", todo["cron"], ljob)
           /\ \A l \in todo["cron"] \ todo'["cron"] : status[l] # "absent"
  <2>1. PICK p \in Pops, c \in SUBSET todo["cron"] :
          /\ Popped(p, c)
          /\ ljob' = [l \in Lines |-> IF l \in c THEN <<"pop", p>> ELSE ljob[l]]
          /\ todo' = [todo EXCEPT !["cron"] = todo["cron"] \ c]
    BY <1>4, PopChunkPops
  <2>2. todo["cron"] \in SUBSET Lines /\ todo'["cron"] = todo["cron"] \ c
    BY <1>1, <2>1 DEF TypeOK, Callers
  <2>3. \A l \in todo["cron"] : /\ status[l] \in {"open", "absent"} /\ ljob[l] = NoJob
                                /\ OrderpointLine(l)
    BY DEF CronInv, TodoWaits, OnlyOrderpoints
  <2>4. \A l \in c : status[l] = "open"
    BY <1>4, <2>2, <2>3
  <2> QED BY <1>1, <1>2, <2>1, <2>2, <2>3, <2>4, CronPops
<1>5. CASE todo' = [todo EXCEPT !["cron"] = {}] /\ UNCHANGED <<pop, chunk, ljob>>
  <2>1. todo'["cron"] = {} /\ todo'["screen"] = {}
    BY <1>1, <1>5 DEF TypeOK, Callers, CronInv, TodoWaits
  <2> QED BY <1>1, <1>2, <1>5, <2>1, SameTable
<1> QED BY <1>3, <1>4, <1>5 DEF PopNextChunk

-----------------------------------------------------------------------------
(* The theorems *)

LEMMA CronInvInit == Init => CronInv
<1> SUFFICES ASSUME Init PROVE CronInv
  OBVIOUS
<1>1. \A p \in Pops, l \in Lines : ~Pending(p, l)
  BY DEF Init, Pending
<1>2. TodoWaits /\ OnlyOrderpoints /\ PopThenProcess
  BY DEF Init, TodoWaits, OnlyOrderpoints, PopThenProcess, Callers
<1>3. OwnJob /\ OnePending
  BY <1>1 DEF OwnJob, OnePending
<1>4. SkippedGone /\ LiveIsBorne
  BY DEF Init, SkippedGone, LiveIsBorne
<1> QED BY <1>2, <1>3, <1>4 DEF CronInv

LEMMA CronInvStep ==
  ASSUME ~Screens, IInv, JobsInv, CronInv, [Next]_vars
  PROVE  CronInv'
<1>0. TypeOK
  BY DEF IInv
<1>1. ASSUME NEW r \in Runs, RunStep(r)
      PROVE  CronInv'
  <2>1. ASSUME NEW c \in Companies, NEW k \in Kinds, Launch(r, c, k)
        PROVE  CronInv'
    <3>1. UNCHANGED <<status, ljob, pop, chunk, process, todo, skipped>>
      BY <2>1 DEF Launch, tableVars
    <3> QED BY <1>0, <2>1, <3>1, LaunchMoves, SameTable DEF CronInv, TodoWaits
  <2>2. ASSUME NEW filter \in Filters, HeadRuns(r, filter)
        PROVE  CronInv'
    BY <2>2, HeadRunsCron
  <2>3. ~\E o \in Orderpoints, c \in Companies : ProcessFromScreen(r, o, c)
    BY DEF ProcessFromScreen
  <2> QED BY <1>1, <2>1, <2>2, <2>3 DEF RunStep
<1>2. CASE UpdateSchedulerController
  BY <1>2, UpdateCron
<1>3. ASSUME NEW who \in Callers, PopNextChunk(who) \/ StopPopping(who)
      PROVE  CronInv'
  <2>1. CASE PopNextChunk(who)
    BY <2>1, PopNextChunkCron
  <2>2. CASE StopPopping(who)
    <3>1. UNCHANGED <<status, ljob, pop, chunk, process, skipped>>
      BY <2>2 DEF StopPopping, tableVars, jobVars
    <3>2. todo'["screen"] = {} /\ todo'["cron"] \subseteq todo["cron"]
      BY <1>0, <2>2 DEF StopPopping, TypeOK, Callers, CronInv, TodoWaits
    <3>3. Moves({})
      BY <2>2, StopPoppingMoves
    <3> QED BY <1>0, <3>1, <3>2, <3>3, SameTable
  <2> QED BY <1>3, <2>1, <2>2
<1>4. CASE \E p \in Pops : PopRuns(p)
  BY <1>4, PopRunsCron
<1>5. CASE \E p \in Pops, l \in Lines : ProcessRuns(p, l)
  BY <1>5, ProcessRunsCron
<1>6. CASE JobFails \/ RequeueJob \/ DeleteJob
  BY <1>6, JobMovesCron
<1>7. CASE ConfirmationsEnd
  <2>1. UNCHANGED <<status, ljob, pop, chunk, process, todo, skipped>>
    BY <1>7 DEF ConfirmationsEnd, tableVars
  <2>2. Moves({})
    BY <1>7, ConfirmationsEndMoves
  <2> QED BY <1>0, <2>1, <2>2, SameTable DEF CronInv, TodoWaits
<1>8. CASE CleanLines
  BY <1>8, CleanLinesCron
<1>9. CASE UNCHANGED vars
  BY <1>9 DEF vars, tableVars, jobVars, CronInv, TodoWaits, OnlyOrderpoints, PopThenProcess,
              OwnJob, OnePending, Pending, SkippedGone, Fresh, LiveIsBorne
<1> QED BY <1>1, <1>2, <1>3, <1>4, <1>5, <1>6, <1>7, <1>8, <1>9 DEF Next

LEMMA JobsInvariance == Spec => []JobsInv
  BY Invariance, JobsInvInit, JobsInvStep, PTL DEF Spec

LEMMA CronInvariance == ~Screens /\ Spec => []CronInv
<1> SUFFICES ASSUME ~Screens PROVE Spec => []CronInv
  OBVIOUS
<1>1. IInv /\ JobsInv /\ CronInv /\ [Next]_vars => CronInv'
  BY CronInvStep
<1> QED BY <1>1, Invariance, JobsInvariance, CronInvInit, PTL DEF Spec

\* A line whose date_done process_orderpoints has set was processed by a job
\* that ended well: no failed, lost or requeued job, no cron or screen ever
\* dates an orderpoint line that nobody processed.
THEOREM DatedIsProcessed == Spec => []DatedMeansProcessed
<1>1. JobsInv => DatedMeansProcessed
  BY DEF JobsInv
<1> QED BY JobsInvariance, <1>1, PTL

\* When only the cron pops lines, no line is in the hands of two live
\* process_orderpoints jobs, with any requeue of pop and process jobs.
THEOREM OneJobEach == ~Screens /\ Spec => []OneJobPerLine
<1>1. CronInv => OneJobPerLine
  <2> SUFFICES ASSUME CronInv,
                      NEW i \in Pops \X Lines, process[i] = "live",
                      NEW j \in Pops \X Lines, process[j] = "live", i[2] = j[2]
               PROVE  i = j
    BY DEF OneJobPerLine
  <2>1. /\ i = <<i[1], i[2]>> /\ i[1] \in Pops /\ i[2] \in Lines
        /\ j = <<j[1], j[2]>> /\ j[1] \in Pops
    OBVIOUS
  <2>2. process[i[1], i[2]] = "live" /\ process[j[1], i[2]] = "live"
    BY <2>1
  <2>3. Pending(i[1], i[2]) /\ Pending(j[1], i[2])
    BY <2>2 DEF Pending
  <2>4. i[1] = j[1]
    BY <2>1, <2>3 DEF CronInv, OnePending
  <2> QED BY <2>1, <2>4
<1> QED BY CronInvariance, <1>1, PTL

\* When only the cron pops lines, a line that insert_new_controller_lines
\* invalidated is never processed, though the cron may pop what it read before.
THEOREM InvalidatedForEver == ~Screens /\ Spec => []InvalidatedNeverProcessed
<1>1. CronInv => InvalidatedNeverProcessed
  BY DEF CronInv, SkippedGone, InvalidatedNeverProcessed
<1> QED BY CronInvariance, <1>1, PTL

\* When only the cron pops lines and nobody requeues failed jobs, jobs of one
\* run that are live at the same time treat lines of one sequence: this is
\* what update_scheduler_controller cuts runs into sequences for.
THEOREM SequencesApart == ~Screens /\ ~ManualRequeue /\ Spec => []SequencesDoNotOverlap
<1> SUFFICES ASSUME ~ManualRequeue PROVE ~Screens /\ Spec => []SequencesDoNotOverlap
  OBVIOUS
<1>1. CronInv /\ IInv => SequencesDoNotOverlap
  <2> SUFFICES ASSUME CronInv, IInv, NEW k \in LiveLines, NEW l \in LiveLines, k.run = l.run
               PROVE  k.seq = l.seq
    BY DEF SequencesDoNotOverlap
  <2>1. \A m \in LiveLines : m \in Lines /\ status[m] = "open" /\ Cleared(m)
    <3> SUFFICES ASSUME NEW m \in LiveLines
                 PROVE  m \in Lines /\ status[m] = "open" /\ Cleared(m)
      OBVIOUS
    <3>0. PICK j \in Pops \X Lines : process[j] = "live" /\ m = j[2]
      BY DEF LiveLines
    <3>1. PICK p \in Pops : process[p, m] = "live" /\ m \in Lines
      <4>1. j = <<j[1], j[2]>> /\ j[1] \in Pops /\ j[2] \in Lines
        OBVIOUS
      <4>2. process[j[1], m] = "live"
        BY <3>0, <4>1
      <4> QED BY <3>0, <4>1, <4>2
    <3>2. status[m] = "open" /\ ljob[m] = <<"process", p>>
      BY <3>1 DEF CronInv, LiveIsBorne
    <3>3. ljob[m] # NoJob
      BY <3>2, SchedulerAssumption
    <3> QED BY <3>1, <3>2, <3>3 DEF IInv, HandedCleared, Handed
  <2>2. ~(k.seq < l.seq) /\ ~(l.seq < k.seq)
    BY <2>1 DEF Cleared
  <2> QED BY <2>1, <2>2, LineFields
<1> QED BY CronInvariance, Invariance, <1>1, PTL

\* When only the cron pops lines and nobody requeues failed jobs, the query of
\* launch_purchase_schedule lets the purchase scheduler start only when no line
\* is in the hands of a pop or process job.
THEOREM GateOpensOnIdle == ~Screens /\ ~ManualRequeue /\ Spec => []GateMeansIdle
<1> SUFFICES ASSUME ~ManualRequeue PROVE ~Screens /\ Spec => []GateMeansIdle
  OBVIOUS
<1>1. CronInv => GateMeansIdle
  <2> SUFFICES ASSUME CronInv, PurchaseGate, NEW p \in Pops, NEW l \in Lines, Borne(p, l)
               PROVE  FALSE
    BY DEF GateMeansIdle, Borne
  <2>1. status[l] = "open"
    BY DEF CronInv, LiveIsBorne, Borne
  <2>2. JobOf(l) = "live"
    <3>1. CASE process[p, l] = "live"
      <4>1. ljob[l] = <<"process", p>>
        BY <3>1 DEF CronInv, LiveIsBorne
      <4> QED BY <3>1, <4>1, ProcessJobOf
    <3>2. CASE pop[p] = "live" /\ l \in chunk[p]
      <4>1. ljob[l] = <<"pop", p>>
        BY <3>2 DEF CronInv, LiveIsBorne
      <4>2. ljob[l] # NoJob
        BY <4>1, SchedulerAssumption
      <4>3. ljob[l][1] = "pop" /\ ljob[l][2] = p
        BY <4>1
      <4> QED BY <3>2, <4>2, <4>3 DEF JobOf
    <3> QED BY <3>1, <3>2 DEF Borne
  <2> QED BY <2>1, <2>2 DEF PurchaseGate, JobOver, JobLost
<1> QED BY CronInvariance, <1>1, PTL
=============================================================================
