----------------------------- MODULE LineSchedule -----------------------------
(***************************************************************************)
(* What the just-in-time scheduler promises about the lines of its runs,   *)
(* whatever jobs, chunks and screens it takes: a line is worked on when    *)
(* the lines of lower sequences of its run are out of the way.             *)
(* SchedulerController implements it.                                      *)
(***************************************************************************)
EXTENDS Naturals

CONSTANTS
  Lines,   \* records with the fields run and seq
  JobLess  \* the lines that are finished without a job

VARIABLE phase

Busy == {"waiting", "working"}

TypeOK == phase \in [Lines -> {"absent", "finished"} \union Busy]

Init == phase = [l \in Lines |-> "absent"]

\* The lines of the run of l that come before it.
Before(l) == {k \in Lines : k.run = l.run /\ k.seq < l.seq}

\* Is it the turn of line l, at the end of the step?
Turn(l) == \A k \in Before(l) : phase'[k] \notin Busy

\* The lines of a run are inserted together, and may be started at once.
Insert(l) ==
  /\ phase[l] = "absent"
  /\ phase'[l] \in Busy
  /\ \A k \in Lines : k.run = l.run => phase[k] = "absent"
  /\ phase'[l] = "working" => Turn(l)

Work(l) == phase[l] = "waiting" /\ phase'[l] = "working" /\ Turn(l)

\* A line gives up: the job it was handed to was lost.
GiveUp(l) == phase[l] = "working" /\ phase'[l] = "waiting"

Finish(l) ==
  /\ phase'[l] = "finished"
  /\ \/ phase[l] = "working"
     \/ phase[l] = "waiting" /\ l \in JobLess /\ Turn(l)

\* A line that nobody works on disappears: invalidated, or cleaned.
Remove(l) == phase[l] \in {"waiting", "finished"} /\ phase'[l] = "absent"

\* Each line makes one legal move at most.
Next ==
  /\ phase' = [l \in Lines |-> phase'[l]]
  /\ \A l \in Lines :
       phase'[l] = phase[l] \/ Insert(l) \/ Work(l) \/ GiveUp(l) \/ Finish(l) \/ Remove(l)

Spec == Init /\ [][Next]_phase

-----------------------------------------------------------------------------
\* No line is worked on while a line of a lower sequence of its run is still to
\* be done: the order that update_scheduler_controller keeps by only looking at
\* the lowest open sequence.
Barrier == \A l \in Lines : phase[l] = "working" => \A k \in Before(l) : phase[k] \notin Busy
=============================================================================
