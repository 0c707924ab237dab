-------------------------------- MODULE BusSync --------------------------------
(***************************************************************************)
(* bus_integration: one base exports records to another through the bus.   *)
(*                                                                         *)
(* The sender selects records (sync_all, sync_diff), and a job writes them *)
(* in a SYNCHRONIZATION message with the names of what they refer to.  The *)
(* receiver imports a message only when it holds all of its dependencies;  *)
(* otherwise it demands them, and the answer, once imported, replays the   *)
(* message that waited.  When the first message of an exchange is in, the  *)
(* receiver demands what its one2many fields still miss.                   *)
(*                                                                         *)
(* Messages pass through the jobs of three bases: they arrive in any       *)
(* order, and again when a job had called the next base and was retried.   *)
(* The bus in between is external: it only carries them.                   *)
(***************************************************************************)
EXTENDS Integers, Sequences, FiniteSets, Bags, TLC

CONSTANTS
  Records,      \* records of the sender
  Models,
  ModelOf,      \* the model of a record
  Deps,         \* many2one and many2many: the records a record refers to
  Posts,        \* one2many: the records that refer to it
  Exported,     \* the records in the domain of a bus.configuration.export
  Edited,       \* bound: the records users write
  Chunked,      \* whether chunk_size is 1 or not set
  MaxVersion,   \* bound: times a record is written
  MaxClock,     \* bound: last second of the sender's clock
  MaxRuns,      \* bound: runs of an export, those that select nothing included
  MaxAgain,     \* bound: messages that arrive again
  MaxErrors     \* bound: records whose import fails

ASSUME BusAssumption ==
  /\ ModelOf \in [Records -> Models]
  /\ Deps \in [Records -> SUBSET Records]
  /\ Posts \in [Records -> SUBSET Records]
  /\ \A r \in Records : \A l \in Posts[r] : r \in Deps[l]
  /\ Exported \subseteq Records /\ Edited \subseteq Records
  /\ {MaxVersion, MaxClock} \subseteq Nat \ {0}
  /\ {MaxRuns, MaxAgain, MaxErrors} \subseteq Nat

VARIABLES
  src,       \* sender: the version of a record, its write_date in the messages
  date,      \* sender: its write_date_bus, in seconds
  open,      \* sender: write_date_bus of a write not yet committed, or NoDate
  clock,     \* sender: the second it is
  last,      \* sender: last_sync_date of the export of a model, or NoDate
  runs,      \* sender: export runs so far
  jobs,      \* sender: job_generate_message waiting, the ids each exports
  nextId,    \* sender: id of the next message that starts a cross id
  exported,  \* the newest version of a record put in a SYNCHRONIZATION
  net,       \* bag of messages on their way
  rows,      \* receiver: bus.message rows received with a cross id, oldest first
  inbox,     \* receiver: rows whose job_receive_message waits
  call,      \* receiver: the parent a job replays next, or NoCall
  copy,      \* receiver: the version it holds, its origin_write_date, 0 if none
  returned,  \* SYNCHRONIZATION_RETURN messages with state done
  again,     \* messages delivered again so far
  errors     \* failed imports so far

sender == <<src, date, open, clock, last, runs, jobs>>
receiver == <<rows, inbox, call, copy, returned, errors>>
vars == <<sender, nextId, exported, net, receiver, again>>

NoDate == 0
NoDemand == [mo \in Models |-> {}]
Row(id, i) == [id |-> id, i |-> i]
Call(row, wanted) == [row |-> row, wanted |-> wanted]
NoCall == Call(Row(0, 0), NoDemand)

\* A message: its treatment, its cross id, the cross id it answers (0: none),
\* the records it carries with their versions, and the records it demands.
Message(treatment, id, parent, root, demand) ==
  [treatment |-> treatment, id |-> id, parent |-> parent, root |-> root, demand |-> demand]
NoRecords == [r \in {} |-> 0]
Imports == {"SYNCHRONIZATION", "DEPENDENCY"}
Demands == {"DEPENDENCY_DEMAND", "POST_DEPENDENCY_DEMAND"}

DependenciesOf(m) == UNION {Deps[r] : r \in DOMAIN m.root}
PostDependenciesOf(m) == UNION {Posts[r] : r \in DOMAIN m.root}
Snapshot(ids) == [r \in ids |-> src[r]]
Received(x) == rows[x.id][x.i]

TypeOK ==
  /\ src \in [Records -> 1 .. MaxVersion]
  /\ date \in [Records -> 0 .. MaxClock]
  /\ open \in [Records -> 0 .. MaxClock]
  /\ clock \in 1 .. MaxClock
  /\ last \in [Models -> 0 .. MaxClock]
  /\ jobs \subseteq [run : 1 .. MaxRuns, ids : (SUBSET Exported) \ {{}}]
  /\ exported \in [Records -> 0 .. MaxVersion]
  /\ \A r \in Records : exported[r] <= src[r] /\ copy[r] \in 0 .. src[r]
  /\ DOMAIN rows = 1 .. nextId - 1
  /\ \A x \in inbox \union ({call.row} \ {NoCall.row}) :
       /\ x.id \in DOMAIN rows
       /\ x.i \in DOMAIN rows[x.id]
       /\ Received(x).message.id = x.id
       /\ Received(x).message.parent < nextId
       /\ Received(x).message.treatment \in Imports
  /\ \A m \in BagToSet(net) : m.id \in DOMAIN rows
  /\ call.wanted \in [Models -> SUBSET Records]

Init ==
  /\ src = [r \in Records |-> 1]
  /\ date = [r \in Records |-> 1]
  /\ open = [r \in Records |-> NoDate]
  /\ clock = 1
  /\ last = [mo \in Models |-> NoDate]
  /\ runs = 0
  /\ jobs = {}
  /\ nextId = 1
  /\ exported = [r \in Records |-> 0]
  /\ net = EmptyBag
  /\ rows = <<>>
  /\ inbox = {}
  /\ call = NoCall
  /\ copy = [r \in Records |-> 0]
  /\ returned = {}
  /\ again = 0
  /\ errors = 0

(***************************************************************************)
(* The sender: users write, the crons export.                              *)
(***************************************************************************)
Tick ==
  /\ clock < MaxClock
  /\ clock' = clock + 1
  /\ UNCHANGED <<src, date, open, last, runs, jobs, nextId, exported, net, receiver, again>>

\* A transaction writes a mapped field: write_date_bus is the clock's time.
Write(r) ==
  /\ r \in Edited
  /\ open[r] = NoDate
  /\ src[r] < MaxVersion
  /\ open' = [open EXCEPT ![r] = clock]
  /\ UNCHANGED <<src, date, clock, last, runs, jobs, nextId, exported, net, receiver, again>>

\* It commits: from now on other transactions read what it wrote.
Commit(r) ==
  /\ open[r] # NoDate
  /\ src' = [src EXCEPT ![r] = @ + 1]
  /\ date' = [date EXCEPT ![r] = open[r]]
  /\ open' = [open EXCEPT ![r] = NoDate]
  /\ UNCHANGED <<clock, last, runs, jobs, nextId, exported, net, receiver, again>>

\* Mutant of RunExport: a run that selects nothing creates a job all the same.
RunExportOfNothing(ids) ==
  /\ runs < MaxRuns
  /\ runs' = runs + 1
  /\ jobs' = jobs \union {[run |-> runs', ids |-> ids]}

\* The records a job is created for: one job for all, or one for each chunk.
RunExport(ids) ==
  /\ runs < MaxRuns
  /\ runs' = runs + 1
  /\ jobs' = jobs \union
       (IF Chunked THEN {[run |-> runs', ids |-> {r}] : r \in ids}
        ELSE {[run |-> runs', ids |-> ids]} \ {[run |-> runs', ids |-> {}]})

DomainOf(mo) == {r \in Exported : ModelOf[r] = mo}

\* Changed since the last run; an export that never ran takes now for its date.
ChangedSince(mo) ==
  {r \in DomainOf(mo) : date[r] > IF last[mo] = NoDate THEN clock ELSE last[mo]}

SyncAll(mo) ==
  /\ DomainOf(mo) # {}
  /\ RunExport(DomainOf(mo))
  /\ last' = [last EXCEPT ![mo] = clock]
  /\ UNCHANGED <<src, date, open, clock, nextId, exported, net, receiver, again>>

SyncDiff(mo) ==
  /\ DomainOf(mo) # {}
  /\ RunExport(ChangedSince(mo))
  /\ last' = [last EXCEPT ![mo] = clock]
  /\ UNCHANGED <<src, date, open, clock, nextId, exported, net, receiver, again>>

\* The records are read when the message is written, not when the export ran.
GenerateMessage(j) ==
  /\ jobs' = jobs \ {j}
  /\ net' = net (+) SetToBag({Message("SYNCHRONIZATION", nextId, 0, Snapshot(j.ids), {})})
  /\ exported' = [r \in Records |-> IF r \in j.ids THEN src[r] ELSE exported[r]]
  /\ nextId' = nextId + 1
  /\ rows' = Append(rows, <<>>)
  /\ UNCHANGED <<src, date, open, clock, last, runs, inbox, call, copy, returned, errors, again>>

\* What a step takes from the net: a message, which may still arrive again.
Taken(m, twice) ==
  /\ BagIn(m, net)
  /\ twice => again < MaxAgain
  /\ again' = IF twice THEN again + 1 ELSE again
Left(m, twice) == IF twice THEN net ELSE net (-) SetToBag({m})

\* The answer to a dependency demand starts a cross id below the message that waits.
SendDependencyResponse(m, twice) ==
  /\ m.treatment = "DEPENDENCY_DEMAND"
  /\ Taken(m, twice)
  /\ net' = Left(m, twice)
       (+) SetToBag({Message("DEPENDENCY", nextId, m.id, Snapshot(m.demand), {})})
  /\ nextId' = nextId + 1
  /\ rows' = Append(rows, <<>>)
  /\ UNCHANGED <<sender, exported, inbox, call, copy, returned, errors>>

\* The answer to a post dependency demand keeps its cross id and has no parent.
SendPostDependencyResponse(m, twice) ==
  /\ m.treatment = "POST_DEPENDENCY_DEMAND"
  /\ Taken(m, twice)
  /\ net' = Left(m, twice)
       (+) SetToBag({Message("DEPENDENCY", m.id, 0, Snapshot(m.demand), {})})
  /\ UNCHANGED <<sender, nextId, exported, receiver>>

(***************************************************************************)
(* The receiver.                                                           *)
(***************************************************************************)
\* A call of the bus: the message gets a row, and a job that processes it.
ReceiveMessage(m, twice) ==
  /\ m.treatment \in Imports
  /\ Taken(m, twice)
  /\ net' = Left(m, twice)
  /\ rows' = [rows EXCEPT ![m.id] = Append(@, [message |-> m, failed |-> FALSE])]
  /\ inbox' = inbox \union {Row(m.id, Len(rows[m.id]) + 1)}
  /\ UNCHANGED <<sender, nextId, exported, call, copy, returned, errors>>

\* Mutant of Needed: one dependency found is enough.
NeededUnlessSome(records, held) ==
  IF \E r \in records : held[r] # 0 THEN {} ELSE records

\* check_for_dependencies: those without a local record.
Needed(records, held) == {r \in records : held[r] = 0}

\* Mutant of ImportDatas: the write dates are not compared.
ImportAnyDatas(root, failing) ==
  [r \in Records |-> IF r \in DOMAIN root \ failing THEN root[r] ELSE copy[r]]

\* import_datas: what is older than the local data is refused, with an info log.
ImportDatas(root, failing) ==
  [r \in Records |->
     IF r \in DOMAIN root \ failing /\ root[r] >= copy[r] THEN root[r] ELSE copy[r]]

\* Mutant of UpdateDemand: the demand of the answers before is dropped.
LastDemand(wanted, needed) == [mo \in Models |-> {r \in needed : ModelOf[r] = mo}]

\* new_post_demand.update(post_demand): a model's demand replaces the earlier one.
UpdateDemand(wanted, needed) ==
  [mo \in Models |->
     LET own == {r \in needed : ModelOf[r] = mo} IN IF own # {} THEN own ELSE wanted[mo]]

\* get_parent: the latest row received with the cross id of the parent.
LatestRow(id) == Row(id, Len(rows[id]))

\* Some dependency is missing: nothing is imported, it is demanded.
DemandDependencies(m) ==
  LET demand == Needed(DependenciesOf(m), copy)
  IN /\ demand # {}
     /\ net' = net (+) SetToBag({Message("DEPENDENCY_DEMAND", m.id, m.parent, NoRecords, demand)})
     /\ call' = NoCall
     /\ UNCHANGED <<rows, copy, returned, errors>>

\* send_post_dependancy_synchronization_demand: the cross id, and no parent.
PostDemand(m, wanted) ==
  SetToBag({Message("POST_DEPENDENCY_DEMAND", m.id, 0, NoRecords,
                    UNION {wanted[mo] : mo \in Models})})

\* Mutant of AfterReturn: the post dependencies are demanded before the replay.
DemandThenReplay(m, wanted) ==
  IF wanted = NoDemand /\ m.parent # 0
    THEN /\ call' = Call(LatestRow(m.parent), wanted)
         /\ UNCHANGED net
    ELSE /\ call' = NoCall
         /\ net' = IF wanted = NoDemand THEN net ELSE net (+) PostDemand(m, wanted)

\* Where the import of a message leads when its return is 'done'.
AfterReturn(m, wanted) ==
  IF m.parent # 0
    THEN /\ call' = Call(LatestRow(m.parent), wanted)
         /\ UNCHANGED net
    ELSE /\ call' = NoCall
         /\ net' = IF wanted = NoDemand THEN net ELSE net (+) PostDemand(m, wanted)

\* Mutant of ReturnState: the logs are read before the import.
StateBefore(x, failing) == IF Received(x).failed THEN "error" ELSE "done"

\* The state of the return: an error of this row, now or in an earlier call.
ReturnState(x, failing) ==
  IF Received(x).failed \/ failing # {} THEN "error" ELSE "done"

\* run_import: each record in its savepoint, which may fail alone.
Failing(root) == {F \in SUBSET DOMAIN root : errors + Cardinality(F) <= MaxErrors}

\* All dependencies are there: the records are imported, and a return is sent.
ImportSynchronizationMessage(x, wanted) ==
  LET m == Received(x).message
  IN /\ Needed(DependenciesOf(m), copy) = {}
     /\ \E failing \in Failing(m.root) :
          /\ errors' = errors + Cardinality(failing)
          /\ copy' = ImportDatas(m.root, failing)
          /\ rows' = [rows EXCEPT ![x.id][x.i].failed = @ \/ failing # {}]
          /\ IF ReturnState(x, failing) = "done"
               THEN /\ returned' = returned \union {m.root}
                    /\ AfterReturn(m, UpdateDemand(wanted, Needed(PostDependenciesOf(m), copy')))
               ELSE call' = NoCall /\ UNCHANGED <<net, returned>>

ProcessReceivedMessage(x, wanted) ==
  \/ DemandDependencies(Received(x).message)
  \/ ImportSynchronizationMessage(x, wanted)

\* A job begins: the jobs of the receiver's channel run one after the other.
JobReceiveMessage(x) ==
  /\ call = NoCall
  /\ inbox' = inbox \ {x}
  /\ ProcessReceivedMessage(x, NoDemand)
  /\ UNCHANGED <<sender, nextId, exported, again>>

\* The recursive call of a job, on the message that waited.
ReplayParent ==
  /\ call # NoCall
  /\ ProcessReceivedMessage(call.row, call.wanted)
  /\ UNCHANGED <<sender, nextId, exported, inbox, again>>

Deliver(m, twice) ==
  \/ SendDependencyResponse(m, twice)
  \/ SendPostDependencyResponse(m, twice)
  \/ ReceiveMessage(m, twice)

Protocol ==
  \/ \E j \in jobs : GenerateMessage(j)
  \/ \E m \in BagToSet(net) : Deliver(m, FALSE)
  \/ \E x \in inbox : JobReceiveMessage(x)
  \/ ReplayParent

Next ==
  \/ Tick
  \/ \E r \in Records : Write(r) \/ Commit(r)
  \/ \E mo \in Models : SyncAll(mo) \/ SyncDiff(mo)
  \/ \E m \in BagToSet(net) : Deliver(m, TRUE)
  \/ Protocol

Spec == Init /\ [][Next]_vars
\* The connector's workers run every job, and the bus delivers every message.
FairSpec == Spec /\ WF_vars(Protocol)

(***************************************************************************)
(* Safety.                                                                 *)
(***************************************************************************)
\* A message that arrives late, or again, never takes a record back to an older
\* version (import_datas compares the write dates).
NeverBackwards == [][\A r \in Records : copy'[r] >= copy[r]]_copy

\* A record is at the receiver only with everything it refers to, whatever the
\* order of the messages and of the answers (check_needed_dependencies).
DependenciesFirst == \A r \in Records : copy[r] # 0 => \A d \in Deps[r] : copy[d] # 0

\* A return whose state is done tells the truth: the receiver holds every record
\* of the message it answers, in its version or a newer one.
DoneIsTrue == \A root \in returned : \A r \in DOMAIN root : copy[r] >= root[r]

\* get_last_send_date: "ensure next call to sync_diff will not miss ids changed
\* before start of sync_diff execution and end of execution".  A record sent once
\* and changed since is in a waiting job, or the next sync_diff selects it.
DiffMissesNothing ==
  \A r \in Exported :
    exported[r] \in 1 .. src[r] - 1 =>
      \/ date[r] > last[ModelOf[r]]
      \/ \E j \in jobs : r \in j.ids

(***************************************************************************)
(* Liveness.                                                               *)
(***************************************************************************)
\* Unless an import fails, what is exported arrives: no message waits for ever
\* for dependencies that were demanded.
ExportsArrive == []<>(errors > 0 \/ \A r \in Records : copy[r] >= exported[r])

\* Unless an import fails, the records of a one2many field follow the record they
\* belong to (fill_one2many: added "when the missing objects will be synchronized
\* from the post-dependency synchronisation request").  A message that arrived
\* again is left out: two answers then carry one cross id, and only the latest
\* is replayed.
PostDependenciesFollow ==
  []<>(errors > 0 \/ again > 0 \/ \A r \in Records : copy[r] # 0 => \A l \in Posts[r] : copy[l] # 0)
=============================================================================
