----------------------------- MODULE BusSyncProofs -----------------------------
(***************************************************************************)
(* Proofs about BusSync, for any records, references between them and      *)
(* bounds: types, versions that never go back, dependencies that come      *)
(* first, and returns that tell the truth.                                 *)
(***************************************************************************)
EXTENDS BusSync, TLAPS

(* The inductive invariant *)

Contents == UNION {[S -> Nat] : S \in SUBSET Records}

SomeMessage == [treatment : Imports \union Demands, id : Nat, parent : Nat,
                root : Contents, demand : SUBSET Records]

\* What is true of a message wherever it is: its cross id was given; a row was
\* received with the cross id it answers, and with the one a demand is about; it
\* carries no version that the sender has yet to write.
Sound(m) ==
  /\ m \in SomeMessage
  /\ m.id \in DOMAIN rows
  /\ m.parent # 0 => m.parent \in DOMAIN rows /\ rows[m.parent] # <<>>
  /\ m.treatment \in Demands => rows[m.id] # <<>>
  /\ \A r \in DOMAIN m.root : m.root[r] <= src[r]

IsRow(x) ==
  /\ x \in [id : Nat, i : Nat]
  /\ x.id \in DOMAIN rows
  /\ x.i \in DOMAIN rows[x.id]

RowsSound ==
  \A id \in DOMAIN rows : \A i \in DOMAIN rows[id] :
    LET m == rows[id][i].message
    IN m.id = id /\ m.treatment \in Imports /\ Sound(m)

SenderTyped ==
  /\ src \in [Records -> 1 .. MaxVersion]
  /\ date \in [Records -> 0 .. MaxClock]
  /\ open \in [Records -> 0 .. MaxClock]
  /\ \A r \in Records : open[r] # NoDate => src[r] < MaxVersion
  /\ clock \in 1 .. MaxClock
  /\ last \in [Models -> 0 .. MaxClock]
  /\ runs \in 0 .. MaxRuns
  /\ jobs \subseteq [run : 1 .. MaxRuns, ids : (SUBSET Exported) \ {{}}]
  /\ nextId \in Nat \ {0}
  /\ exported \in [Records -> Nat]
  /\ \A r \in Records : exported[r] <= src[r]

ReceiverTyped ==
  /\ rows \in Seq(Seq([message : SomeMessage, failed : BOOLEAN]))
  /\ Len(rows) = nextId - 1
  /\ copy \in [Records -> Nat]
  /\ \A r \in Records : copy[r] <= src[r]
  /\ call.wanted \in [Models -> SUBSET Records]
  /\ call = NoCall \/ IsRow(call.row)
  /\ \A x \in inbox : IsRow(x)
  /\ returned \subseteq Contents

IInv ==
  /\ SenderTyped
  /\ ReceiverTyped
  /\ \A m \in DOMAIN net : Sound(m)
  /\ RowsSound
  /\ DependenciesFirst
  /\ DoneIsTrue

-----------------------------------------------------------------------------
(* Bags and tables *)

LEMMA BagPlus ==
  ASSUME NEW B, NEW m
  PROVE  \A e \in DOMAIN (B (+) SetToBag({m})) : e \in DOMAIN B \/ e = m
  BY DEF (+), SetToBag

LEMMA BagMinus ==
  ASSUME NEW B, NEW m
  PROVE  DOMAIN (B (-) SetToBag({m})) \subseteq DOMAIN B
  BY DEF (-), SetToBag

LEMMA AppendFacts ==
  ASSUME NEW S, NEW s \in Seq(S), NEW e \in S
  PROVE  /\ Append(s, e) \in Seq(S)
         /\ DOMAIN Append(s, e) = DOMAIN s \union {Len(s) + 1}
         /\ \A i \in DOMAIN s : Append(s, e)[i] = s[i]
         /\ Append(s, e)[Len(s) + 1] = e
         /\ Append(s, e) # <<>>
         /\ Len(s) + 1 \in Nat
<1>1. /\ Append(s, e) \in Seq(S) /\ Len(s) \in Nat
      /\ DOMAIN s = 1 .. Len(s) /\ DOMAIN Append(s, e) = 1 .. Len(s) + 1
  OBVIOUS
<1>2. \A i \in 1 .. Len(s) : Append(s, e)[i] = s[i]
  OBVIOUS
<1>3. Append(s, e)[Len(s) + 1] = e
  OBVIOUS
<1>4. Append(s, e) # <<>>
  <2>1. Len(Append(s, e)) = Len(s) + 1 /\ Len(<<>>) = 0
    OBVIOUS
  <2> QED BY <2>1, <1>1
<1> QED BY <1>1, <1>2, <1>3, <1>4

LEMMA SeqElement ==
  ASSUME NEW S, NEW s \in Seq(S), NEW i \in DOMAIN s
  PROVE  s[i] \in S
  OBVIOUS

LEMMA LeftIn ==
  ASSUME NEW m, NEW twice \in BOOLEAN
  PROVE  DOMAIN Left(m, twice) \subseteq DOMAIN net
  BY BagMinus DEF Left

LEMMA SnapshotSound ==
  ASSUME SenderTyped, NEW S \in SUBSET Records
  PROVE  /\ Snapshot(S) \in Contents
         /\ DOMAIN Snapshot(S) = S
         /\ \A r \in S : Snapshot(S)[r] = src[r]
<1>1. \A r \in S : src[r] \in Nat
  BY BusAssumption DEF SenderTyped
<1>2. Snapshot(S) \in [S -> Nat]
  BY <1>1 DEF Snapshot
<1> QED BY <1>2 DEF Snapshot, Contents

LEMMA ContentsFields ==
  ASSUME NEW root \in Contents
  PROVE  DOMAIN root \subseteq Records /\ \A r \in DOMAIN root : root[r] \in Nat
  BY DEF Contents

\* The tables of the receiver only grow, and so do the versions of the sender.
Grows ==
  /\ DOMAIN rows \subseteq DOMAIN rows'
  /\ \A id \in DOMAIN rows : rows[id] # <<>> => rows'[id] # <<>>
  /\ \A r \in Records : src[r] \in Nat /\ src'[r] \in Nat /\ src[r] <= src'[r]

LEMMA SoundKept ==
  ASSUME Grows, NEW m, Sound(m)
  PROVE  Sound(m)'
<1>1. \A r \in DOMAIN m.root : m.root[r] <= src'[r]
  <2> SUFFICES ASSUME NEW r \in DOMAIN m.root PROVE m.root[r] <= src'[r]
    OBVIOUS
  <2>1. m.root \in Contents
    BY DEF Sound, SomeMessage
  <2>2. r \in Records /\ m.root[r] \in Nat
    BY <2>1, ContentsFields
  <2> QED BY <2>2 DEF Sound, Grows
<1> QED BY <1>1 DEF Sound, Grows

LEMMA InvInit == Init => IInv
<1> SUFFICES ASSUME Init PROVE IInv
  OBVIOUS
<1> USE BusAssumption
<1>1. SenderTyped
  BY DEF Init, SenderTyped, NoDate
<1>2. call.wanted \in [Models -> SUBSET Records]
  BY DEF Init, NoCall, Call, NoDemand
<1>3. rows \in Seq(Seq([message : SomeMessage, failed : BOOLEAN])) /\ Len(rows) = nextId - 1
  BY DEF Init
<1>4. ReceiverTyped
  BY <1>2, <1>3 DEF Init, ReceiverTyped
<1>5. DOMAIN net = {}
  BY DEF Init, EmptyBag, SetToBag
<1>6. DOMAIN rows = {}
  BY DEF Init
<1>7. RowsSound
  BY <1>6 DEF RowsSound
<1>8. DependenciesFirst /\ DoneIsTrue
  BY DEF Init, DependenciesFirst, DoneIsTrue
<1> QED BY <1>1, <1>4, <1>5, <1>7, <1>8 DEF IInv

-----------------------------------------------------------------------------
(* The sender's steps *)

LEMMA RunExportTyped ==
  ASSUME SenderTyped, NEW ids \in SUBSET Exported, RunExport(ids)
  PROVE  /\ runs' \in 0 .. MaxRuns
         /\ jobs' \subseteq [run : 1 .. MaxRuns, ids : (SUBSET Exported) \ {{}}]
<1>1. runs' \in 1 .. MaxRuns
  BY BusAssumption DEF SenderTyped, RunExport
<1>2. {[run |-> runs', ids |-> {r}] : r \in ids}
        \subseteq [run : 1 .. MaxRuns, ids : (SUBSET Exported) \ {{}}]
  BY <1>1
<1>3. ids # {} => [run |-> runs', ids |-> ids] \in [run : 1 .. MaxRuns, ids : (SUBSET Exported) \ {{}}]
  BY <1>1
<1>4. {[run |-> runs', ids |-> ids]} \ {[run |-> runs', ids |-> {}]}
        \subseteq [run : 1 .. MaxRuns, ids : (SUBSET Exported) \ {{}}]
  BY <1>3
<1> QED BY <1>1, <1>2, <1>4 DEF SenderTyped, RunExport

\* Users and exports leave the receiver and the messages alone.
LEMMA SenderStep ==
  ASSUME IInv,
         \/ Tick
         \/ \E r \in Records : Write(r) \/ Commit(r)
         \/ \E mo \in Models : SyncAll(mo) \/ SyncDiff(mo)
  PROVE  IInv' /\ copy' = copy
<1> USE BusAssumption DEF IInv
<1>1. UNCHANGED <<net, rows, inbox, call, copy, returned, nextId, exported>>
  BY DEF Tick, Write, Commit, SyncAll, SyncDiff, receiver
<1>2. SenderTyped' /\ \A r \in Records : src[r] <= src'[r]
  <2>1. CASE Tick
    BY <2>1 DEF Tick, SenderTyped
  <2>2. ASSUME NEW w \in Records, Write(w)
        PROVE  SenderTyped' /\ \A r \in Records : src[r] <= src'[r]
    BY <2>2 DEF Write, SenderTyped, NoDate
  <2>3. ASSUME NEW w \in Records, Commit(w)
        PROVE  SenderTyped' /\ \A r \in Records : src[r] <= src'[r]
    BY <2>3 DEF Commit, SenderTyped, NoDate
  <2>4. ASSUME NEW mo \in Models, SyncAll(mo) \/ SyncDiff(mo)
        PROVE  SenderTyped' /\ \A r \in Records : src[r] <= src'[r]
    <3>1. \E ids \in SUBSET Exported : RunExport(ids)
      BY <2>4 DEF SyncAll, SyncDiff, DomainOf, ChangedSince
    <3>2. /\ runs' \in 0 .. MaxRuns
          /\ jobs' \subseteq [run : 1 .. MaxRuns, ids : (SUBSET Exported) \ {{}}]
      BY <3>1, RunExportTyped
    <3>3. UNCHANGED <<src, date, open, clock, nextId, exported>> /\ last' = [last EXCEPT ![mo] = clock]
      BY <2>4 DEF SyncAll, SyncDiff
    <3> QED BY <3>2, <3>3 DEF SenderTyped
  <2> QED BY <2>1, <2>2, <2>3, <2>4
<1>3. Grows
  <2>1. \A r \in Records : src[r] \in Nat /\ src'[r] \in Nat
    BY <1>2 DEF SenderTyped
  <2> QED BY <2>1, <1>1, <1>2 DEF Grows
<1>4. \A m : Sound(m) => Sound(m)'
  BY <1>3, SoundKept
<1>5. (\A m \in DOMAIN net : Sound(m))' /\ RowsSound'
  BY <1>1, <1>4 DEF RowsSound
<1>6. ReceiverTyped'
  <2>1. copy \in [Records -> Nat] /\ \A r \in Records : copy[r] <= src[r]
    BY DEF ReceiverTyped
  <2>2. \A r \in Records : copy'[r] <= src'[r]
    BY <2>1, <1>1, <1>3 DEF Grows
  <2>3. \A x : IsRow(x) => IsRow(x)'
    BY <1>1 DEF IsRow
  <2> QED BY <2>2, <2>3, <1>1 DEF ReceiverTyped
<1>7. DependenciesFirst' /\ DoneIsTrue'
  BY <1>1 DEF DependenciesFirst, DoneIsTrue
<1> QED BY <1>1, <1>2, <1>5, <1>6, <1>7

LEMMA AppendEmpty ==
  ASSUME NEW T, NEW s \in Seq(Seq(T)), NEW n \in Nat, Len(s) = n - 1
  PROVE  LET t == Append(s, <<>>)
         IN /\ t \in Seq(Seq(T)) /\ Len(t) = n
            /\ DOMAIN t = DOMAIN s \union {n}
            /\ \A i \in DOMAIN s : t[i] = s[i]
            /\ t[n] = <<>>
<1>1. <<>> \in Seq(T)
  OBVIOUS
<1>2. Append(s, <<>>) \in Seq(Seq(T)) /\ Len(Append(s, <<>>)) = n
  BY <1>1
<1> QED BY <1>2

\* A message that starts a cross id: its row of the table is new and empty.
LEMMA NewCrossId ==
  ASSUME IInv, nextId' = nextId + 1, rows' = Append(rows, <<>>),
         UNCHANGED <<src, date, open, clock, last, runs, inbox, call, copy, returned>>,
         jobs' \subseteq jobs,
         exported' \in [Records -> Nat], \A r \in Records : exported'[r] <= src[r],
         \A m \in DOMAIN net' : m \in DOMAIN net \/ Sound(m)'
  PROVE  IInv' /\ copy' = copy
<1> USE DEF IInv
<1>0. SenderTyped /\ ReceiverTyped
  OBVIOUS
<1>1. /\ rows' \in Seq(Seq([message : SomeMessage, failed : BOOLEAN]))
      /\ Len(rows') = nextId' - 1
      /\ DOMAIN rows' = DOMAIN rows \union {nextId}
      /\ \A id \in DOMAIN rows : rows'[id] = rows[id]
      /\ rows'[nextId] = <<>>
  <2>1. rows \in Seq(Seq([message : SomeMessage, failed : BOOLEAN]))
    BY <1>0 DEF ReceiverTyped
  <2>2. nextId \in Nat /\ Len(rows) = nextId - 1 /\ nextId' = nextId + 1
    BY <1>0 DEF ReceiverTyped, SenderTyped
  <2> QED BY ONLY <2>1, <2>2, rows' = Append(rows, <<>>), AppendEmpty
<1>2. SenderTyped'
  <2>1. /\ jobs' \subseteq [run : 1 .. MaxRuns, ids : (SUBSET Exported) \ {{}}]
        /\ nextId' \in Nat \ {0}
    BY ONLY <1>0, jobs' \subseteq jobs, nextId' = nextId + 1 DEF SenderTyped
  <2>2. exported' \in [Records -> Nat] /\ \A r \in Records : exported'[r] <= src'[r]
    BY ONLY UNCHANGED src, exported' \in [Records -> Nat],
            \A r \in Records : exported'[r] <= src[r]
  <2>3. UNCHANGED <<src, date, open, clock, last, runs>>
    OBVIOUS
  <2> QED BY ONLY <1>0, <2>1, <2>2, <2>3 DEF SenderTyped
<1>3. Grows
  BY <1>1 DEF Grows, SenderTyped
<1>4. \A m : Sound(m) => Sound(m)'
  BY <1>3, SoundKept
<1>5. (\A m \in DOMAIN net : Sound(m))'
  BY <1>4
<1>6. RowsSound'
  BY <1>1, <1>4 DEF RowsSound
<1>7. \A x : IsRow(x) => IsRow(x)'
  BY <1>1 DEF IsRow
<1>8. ReceiverTyped'
  <2>1. call'.wanted \in [Models -> SUBSET Records] /\ (call = NoCall \/ IsRow(call.row))'
    BY <1>1 DEF ReceiverTyped, IsRow, NoCall
  <2>2. \A x \in inbox' : IsRow(x)'
    BY <1>7 DEF ReceiverTyped
  <2>3. /\ copy' \in [Records -> Nat] /\ \A r \in Records : copy'[r] <= src'[r]
        /\ returned' \subseteq Contents
    BY DEF ReceiverTyped
  <2> QED BY <2>1, <2>2, <2>3, <1>1 DEF ReceiverTyped
<1>9. DependenciesFirst' /\ DoneIsTrue'
  BY DEF DependenciesFirst, DoneIsTrue
<1> QED BY <1>2, <1>5, <1>6, <1>8, <1>9

LEMMA MessageFields ==
  ASSUME NEW t \in Imports \union Demands, NEW id \in Nat, NEW parent \in Nat,
         NEW root \in Contents, NEW demand \in SUBSET Records
  PROVE  LET m == Message(t, id, parent, root, demand)
         IN /\ m \in SomeMessage
            /\ m.treatment = t /\ m.id = id /\ m.parent = parent
            /\ m.root = root /\ m.demand = demand
  BY DEF Message, SomeMessage

LEMMA GenerateMessageStep ==
  ASSUME IInv, NEW j \in jobs, GenerateMessage(j)
  PROVE  IInv' /\ copy' = copy
<1>0. PICK m : m = Message("SYNCHRONIZATION", nextId, 0, Snapshot(j.ids), {})
  OBVIOUS
<1>1. j.ids \in SUBSET Records
  BY BusAssumption DEF IInv, SenderTyped
<1>2. SenderTyped /\ nextId \in Nat
  BY DEF IInv, SenderTyped
<1>3. /\ Snapshot(j.ids) \in Contents /\ DOMAIN Snapshot(j.ids) = j.ids
      /\ \A r \in j.ids : Snapshot(j.ids)[r] = src[r]
  BY <1>1, <1>2, SnapshotSound
<1>4. /\ m \in SomeMessage /\ m.treatment = "SYNCHRONIZATION" /\ m.id = nextId
      /\ m.parent = 0 /\ m.root = Snapshot(j.ids)
  <2>1. "SYNCHRONIZATION" \in Imports \union Demands
    BY DEF Imports
  <2>2. nextId \in Nat /\ 0 \in Nat /\ {} \in SUBSET Records
    BY <1>2
  <2>3. Snapshot(j.ids) \in Contents
    BY <1>3
  <2> QED BY <2>1, <2>2, <2>3, <1>0, MessageFields
<1>5. nextId \in DOMAIN rows' /\ src' = src
  BY DEF GenerateMessage, IInv, ReceiverTyped, SenderTyped
<1>6. \A r \in Records : src[r] \in Nat /\ src[r] <= src[r]
  BY BusAssumption, <1>2 DEF SenderTyped
<1>7. Sound(m)'
  BY <1>1, <1>3, <1>4, <1>5, <1>6 DEF Sound, Demands
<1>8. net' = net (+) SetToBag({m})
  BY <1>0 DEF GenerateMessage
<1>9. \A e \in DOMAIN net' : e \in DOMAIN net \/ Sound(e)'
  BY <1>7, <1>8, BagPlus
<1>10. exported' \in [Records -> Nat] /\ \A r \in Records : exported'[r] <= src[r]
  BY <1>1, <1>6, <1>2 DEF GenerateMessage, SenderTyped
<1> QED BY <1>9, <1>10, NewCrossId DEF GenerateMessage

LEMMA SendDependencyResponseStep ==
  ASSUME IInv, NEW m \in DOMAIN net, NEW twice \in BOOLEAN, SendDependencyResponse(m, twice)
  PROVE  IInv' /\ copy' = copy
<1>0. PICK answer : answer = Message("DEPENDENCY", nextId, m.id, Snapshot(m.demand), {})
  OBVIOUS
<1>1. /\ m.demand \in SUBSET Records /\ m.id \in DOMAIN rows /\ rows[m.id] # <<>>
      /\ m.id \in Nat
  BY DEF IInv, Sound, SomeMessage, SendDependencyResponse, Demands
<1>2. SenderTyped /\ nextId \in Nat
  BY DEF IInv, SenderTyped
<1>3. /\ Snapshot(m.demand) \in Contents /\ DOMAIN Snapshot(m.demand) = m.demand
      /\ \A r \in m.demand : Snapshot(m.demand)[r] = src[r]
  BY <1>1, <1>2, SnapshotSound
<1>4. /\ answer \in SomeMessage /\ answer.treatment = "DEPENDENCY" /\ answer.id = nextId
      /\ answer.parent = m.id /\ answer.root = Snapshot(m.demand)
  <2>1. "DEPENDENCY" \in Imports \union Demands /\ {} \in SUBSET Records
    BY DEF Imports
  <2> QED BY <2>1, <1>0, <1>1, <1>2, <1>3 DEF Message, SomeMessage
<1>5. /\ nextId \in DOMAIN rows' /\ m.id \in DOMAIN rows' /\ rows'[m.id] # <<>>
      /\ src' = src
  BY <1>1 DEF SendDependencyResponse, IInv, ReceiverTyped, SenderTyped, sender
<1>6. \A r \in Records : src[r] \in Nat /\ src[r] <= src[r]
  BY BusAssumption, <1>2 DEF SenderTyped
<1>7. Sound(answer)'
  BY <1>1, <1>3, <1>4, <1>5, <1>6 DEF Sound, Demands
<1>8. net' = Left(m, twice) (+) SetToBag({answer})
  BY <1>0 DEF SendDependencyResponse
<1>9. \A e \in DOMAIN net' : e \in DOMAIN net \/ Sound(e)'
  BY <1>7, <1>8, BagPlus, LeftIn
<1>10. exported' \in [Records -> Nat] /\ \A r \in Records : exported'[r] <= src[r]
  BY <1>2 DEF SendDependencyResponse, SenderTyped
<1> QED BY <1>9, <1>10, NewCrossId DEF SendDependencyResponse, sender

-----------------------------------------------------------------------------
(* The steps that start no cross id *)

\* What the receiver holds and has answered stays legal.
CopyKeeps ==
  /\ copy' \in [Records -> Nat] /\ \A r \in Records : copy'[r] <= src[r]
  /\ returned' \subseteq Contents
  /\ DependenciesFirst' /\ DoneIsTrue'

LEMMA CopyUnchanged == ASSUME IInv, UNCHANGED <<copy, returned>> PROVE CopyKeeps
  BY DEF IInv, ReceiverTyped, CopyKeeps, DependenciesFirst, DoneIsTrue

\* The rows that a step adds hold sound messages under their cross id.
LEMMA SameCrossIds ==
  ASSUME IInv, UNCHANGED <<sender, nextId, exported>>, CopyKeeps,
         rows' \in Seq(Seq([message : SomeMessage, failed : BOOLEAN])), Len(rows') = Len(rows),
         \A id \in DOMAIN rows : DOMAIN rows[id] \subseteq DOMAIN rows'[id],
         \A id \in DOMAIN rows : rows[id] # <<>> => rows'[id] # <<>>,
         \A id \in DOMAIN rows : \A i \in DOMAIN rows'[id] :
           LET m == rows'[id][i].message
           IN m.id = id /\ m.treatment \in Imports /\ Sound(m),
         \A m \in DOMAIN net' : Sound(m) \/ Sound(m)',
         call'.wanted \in [Models -> SUBSET Records],
         call' = NoCall \/ IsRow(call'.row) \/ IsRow(call.row)',
         \A x \in inbox' : IsRow(x) \/ IsRow(x)'
  PROVE  IInv'
<1>1. DOMAIN rows' = DOMAIN rows
  BY DEF IInv, ReceiverTyped
<1>2. SenderTyped'
  BY DEF IInv, SenderTyped, sender
<1>3. src' = src /\ src \in [Records -> Nat]
  BY BusAssumption DEF sender, IInv, SenderTyped
<1>4. Grows
  BY <1>1, <1>3 DEF Grows
<1>5. \A m : Sound(m) => Sound(m)'
  BY <1>4, SoundKept
<1>6. (\A m \in DOMAIN net : Sound(m))' /\ RowsSound'
  BY <1>1, <1>5 DEF RowsSound
<1>7. \A x : IsRow(x) => IsRow(x)'
  BY <1>1 DEF IsRow
<1>8. call' = NoCall \/ IsRow(call.row)'
  BY <1>7
<1>9. ReceiverTyped'
  BY <1>3, <1>7, <1>8 DEF IInv, ReceiverTyped, CopyKeeps
<1> QED BY <1>2, <1>6, <1>9 DEF IInv, CopyKeeps

LEMMA RowsUnchanged ==
  ASSUME IInv
  PROVE  /\ rows \in Seq(Seq([message : SomeMessage, failed : BOOLEAN]))
         /\ \A id \in DOMAIN rows : \A i \in DOMAIN rows[id] :
              LET m == rows[id][i].message
              IN m.id = id /\ m.treatment \in Imports /\ Sound(m)
  BY DEF IInv, ReceiverTyped, RowsSound

LEMMA SendPostDependencyResponseStep ==
  ASSUME IInv, NEW m \in DOMAIN net, NEW twice \in BOOLEAN, SendPostDependencyResponse(m, twice)
  PROVE  IInv' /\ copy' = copy
<1>0. PICK answer : answer = Message("DEPENDENCY", m.id, 0, Snapshot(m.demand), {})
  OBVIOUS
<1>1. m.demand \in SUBSET Records /\ m.id \in DOMAIN rows /\ m.id \in Nat
  BY DEF IInv, Sound, SomeMessage
<1>2. SenderTyped /\ \A r \in Records : src[r] \in Nat /\ src[r] <= src[r]
  BY BusAssumption DEF IInv, SenderTyped
<1>3. /\ Snapshot(m.demand) \in Contents /\ DOMAIN Snapshot(m.demand) = m.demand
      /\ \A r \in m.demand : Snapshot(m.demand)[r] = src[r]
  BY <1>1, <1>2, SnapshotSound
<1>4. /\ answer \in SomeMessage /\ answer.treatment = "DEPENDENCY" /\ answer.id = m.id
      /\ answer.parent = 0 /\ answer.root = Snapshot(m.demand)
  <2>1. "DEPENDENCY" \in Imports \union Demands /\ {} \in SUBSET Records
    BY DEF Imports
  <2> QED BY <2>1, <1>0, <1>1, <1>3 DEF Message, SomeMessage
<1>5. Sound(answer)
  BY <1>1, <1>2, <1>3, <1>4 DEF Sound, Demands
<1>6. net' = Left(m, twice) (+) SetToBag({answer})
  BY <1>0 DEF SendPostDependencyResponse
<1>7. \A e \in DOMAIN net' : Sound(e) \/ Sound(e)'
  BY <1>5, <1>6, BagPlus, LeftIn DEF IInv
<1>8. UNCHANGED <<sender, nextId, exported, receiver>>
  BY DEF SendPostDependencyResponse
<1>9. UNCHANGED <<rows, inbox, call, copy, returned>>
  BY <1>8 DEF receiver
<1>10. call.wanted \in [Models -> SUBSET Records] /\ (call = NoCall \/ IsRow(call.row))
       /\ \A x \in inbox : IsRow(x)
  BY DEF IInv, ReceiverTyped
<1>11. IInv'
  BY <1>7, <1>8, <1>9, <1>10, RowsUnchanged, CopyUnchanged, SameCrossIds
<1> QED BY <1>9, <1>11

LEMMA ReceiveMessageStep ==
  ASSUME IInv, NEW m \in DOMAIN net, NEW twice \in BOOLEAN, ReceiveMessage(m, twice)
  PROVE  IInv' /\ copy' = copy
<1>1. m \in SomeMessage /\ m.id \in DOMAIN rows /\ m.treatment \in Imports /\ Sound(m)
  BY DEF IInv, Sound, ReceiveMessage
<1>2. PICK row : row = [message |-> m, failed |-> FALSE]
  OBVIOUS
<1>3. row \in [message : SomeMessage, failed : BOOLEAN] /\ row.message = m
  BY <1>1, <1>2
<1>4. PICK old : old = rows[m.id]
  OBVIOUS
<1>5. old \in Seq([message : SomeMessage, failed : BOOLEAN])
  BY <1>1, <1>4 DEF IInv, ReceiverTyped
<1>6. /\ Append(old, row) \in Seq([message : SomeMessage, failed : BOOLEAN])
      /\ DOMAIN Append(old, row) = DOMAIN old \union {Len(old) + 1}
      /\ \A i \in DOMAIN old : Append(old, row)[i] = old[i]
      /\ Append(old, row)[Len(old) + 1] = row
      /\ Append(old, row) # <<>>
      /\ Len(old) + 1 \in Nat
  BY <1>3, <1>5, AppendFacts
<1>7. rows' = [rows EXCEPT ![m.id] = Append(old, row)]
  BY <1>2, <1>4 DEF ReceiveMessage
<1>8. rows \in Seq(Seq([message : SomeMessage, failed : BOOLEAN]))
  BY RowsUnchanged
<1>9. /\ rows' \in Seq(Seq([message : SomeMessage, failed : BOOLEAN])) /\ Len(rows') = Len(rows)
      /\ DOMAIN rows' = DOMAIN rows
  BY <1>1, <1>6, <1>7, <1>8
<1>10. \A id \in DOMAIN rows : rows'[id] = IF id = m.id THEN Append(old, row) ELSE rows[id]
  BY <1>1, <1>7, <1>8
<1>11. \A id \in DOMAIN rows : \A i \in DOMAIN rows'[id] :
         LET n == rows'[id][i].message
         IN n.id = id /\ n.treatment \in Imports /\ Sound(n)
  <2>1. \A i \in DOMAIN Append(old, row) :
          LET n == Append(old, row)[i].message
          IN n.id = m.id /\ n.treatment \in Imports /\ Sound(n)
    <3>1. \A i \in DOMAIN old :
            LET n == old[i].message
            IN n.id = m.id /\ n.treatment \in Imports /\ Sound(n)
      BY <1>1, <1>4, RowsUnchanged
    <3> QED BY <3>1, <1>1, <1>3, <1>6
  <2> QED BY <2>1, <1>10, RowsUnchanged
<1>12. \A id \in DOMAIN rows : /\ DOMAIN rows[id] \subseteq DOMAIN rows'[id]
                               /\ rows[id] # <<>> => rows'[id] # <<>>
  BY <1>4, <1>6, <1>10
<1>13. \A x \in inbox' : IsRow(x) \/ IsRow(x)'
  <2>1. m.id \in Nat
    BY <1>1 DEF SomeMessage
  <2>2. PICK x : x = Row(m.id, Len(old) + 1)
    OBVIOUS
  <2>3. IsRow(x)'
    BY <1>1, <1>6, <1>9, <1>10, <2>1, <2>2 DEF Row, IsRow
  <2>4. inbox' = inbox \union {x}
    BY <1>4, <2>2 DEF ReceiveMessage
  <2> QED BY <2>3, <2>4 DEF IInv, ReceiverTyped
<1>14. \A e \in DOMAIN net' : Sound(e)
  BY LeftIn DEF IInv, ReceiveMessage
<1>15. UNCHANGED <<sender, nextId, exported, call, copy, returned>>
  BY DEF ReceiveMessage
<1>16. call.wanted \in [Models -> SUBSET Records] /\ (call = NoCall \/ IsRow(call.row))
  BY DEF IInv, ReceiverTyped
<1>17. IInv'
  BY <1>9, <1>11, <1>12, <1>13, <1>14, <1>15, <1>16, CopyUnchanged, SameCrossIds
<1> QED BY <1>15, <1>17

-----------------------------------------------------------------------------
(* Imports *)

LEMMA ImportFacts ==
  ASSUME copy \in [Records -> Nat], NEW root \in Contents, NEW failing \in SUBSET DOMAIN root,
         copy' = ImportDatas(root, failing)
  PROVE  /\ copy' \in [Records -> Nat]
         /\ \A r \in Records : copy'[r] >= copy[r]
         /\ \A r \in Records : copy'[r] = copy[r] \/ (r \in DOMAIN root /\ copy'[r] = root[r])
         /\ \A r \in DOMAIN root \ failing : copy'[r] >= root[r]
<1>1. DOMAIN root \subseteq Records /\ \A r \in DOMAIN root : root[r] \in Nat
  BY ContentsFields
<1>2. \A r \in Records : copy'[r] =
        IF r \in DOMAIN root \ failing /\ root[r] >= copy[r] THEN root[r] ELSE copy[r]
  BY DEF ImportDatas
<1>3. \A r \in Records : copy'[r] \in Nat
  BY <1>1, <1>2
<1>4. copy' \in [Records -> Nat]
  BY <1>3 DEF ImportDatas
<1>5. \A r \in Records : copy'[r] >= copy[r]
  BY <1>1, <1>2
<1> QED BY <1>1, <1>2, <1>4, <1>5

\* The heart of the protocol: a message is imported when its dependencies are
\* there, and answered 'done' when none of its records failed.
LEMMA ImportKeeps ==
  ASSUME IInv, NEW m, Sound(m), NEW failing \in SUBSET DOMAIN m.root,
         Needed(DependenciesOf(m), copy) = {},
         copy' = ImportDatas(m.root, failing),
         returned' = returned \/ (failing = {} /\ returned' = returned \union {m.root})
  PROVE  CopyKeeps /\ \A r \in Records : copy'[r] >= copy[r]
<1>1. m.root \in Contents /\ copy \in [Records -> Nat]
  BY DEF Sound, SomeMessage, IInv, ReceiverTyped
<1>2. /\ copy' \in [Records -> Nat]
      /\ \A r \in Records : copy'[r] >= copy[r]
      /\ \A r \in Records : copy'[r] = copy[r] \/ (r \in DOMAIN m.root /\ copy'[r] = m.root[r])
      /\ \A r \in DOMAIN m.root \ failing : copy'[r] >= m.root[r]
  BY <1>1, ImportFacts
<1>3. \A r \in Records : copy'[r] <= src[r]
  BY <1>2 DEF IInv, ReceiverTyped, Sound
<1>4. returned' \subseteq Contents
  BY <1>1 DEF IInv, ReceiverTyped
<1>5. \A r \in Records : copy[r] \in Nat /\ copy'[r] \in Nat
  BY <1>1, <1>2
<1>6. DependenciesFirst'
  <2> SUFFICES ASSUME NEW r \in Records, copy'[r] # 0, NEW d \in Deps[r]
               PROVE  copy'[d] # 0
    BY DEF DependenciesFirst
  <2>1. d \in Records
    BY BusAssumption
  <2>2. CASE copy[r] # 0
    <3>1. copy[d] # 0
      BY <2>2 DEF IInv, DependenciesFirst
    <3> QED BY <3>1, <2>1, <1>2, <1>5
  <2>3. CASE r \in DOMAIN m.root
    <3>1. d \in DependenciesOf(m)
      BY <2>3 DEF DependenciesOf
    <3>2. copy[d] # 0
      BY <3>1 DEF Needed
    <3> QED BY <3>2, <2>1, <1>2, <1>5
  <2> QED BY <2>2, <2>3, <1>2
<1>7. DoneIsTrue'
  <2> SUFFICES ASSUME NEW root \in returned', NEW r \in DOMAIN root
               PROVE  copy'[r] >= root[r]
    BY DEF DoneIsTrue
  <2>1. root \in Contents
    BY <1>4
  <2>2. r \in Records /\ root[r] \in Nat
    BY <2>1, ContentsFields
  <2>3. CASE root \in returned
    <3>1. copy[r] >= root[r]
      BY <2>3 DEF IInv, DoneIsTrue
    <3> QED BY <3>1, <2>2, <1>2, <1>5
  <2>4. CASE root = m.root /\ failing = {}
    BY <2>4, <1>2
  <2> QED BY <2>3, <2>4
<1> QED BY <1>2, <1>3, <1>4, <1>6, <1>7 DEF CopyKeeps

\* A demand about a row that was received is sound.
LEMMA DemandSound ==
  ASSUME IInv, NEW t \in Demands, NEW m, Sound(m), rows[m.id] # <<>>,
         NEW parent \in {0, m.parent}, NEW demand \in SUBSET Records
  PROVE  Sound(Message(t, m.id, parent, NoRecords, demand))
<1>1. NoRecords \in Contents /\ DOMAIN NoRecords = {}
  <2>1. NoRecords \in [{} -> Nat] /\ {} \in SUBSET Records
    BY DEF NoRecords
  <2> QED BY <2>1 DEF Contents
<1>2. m.id \in Nat /\ m.parent \in Nat
  BY DEF Sound, SomeMessage
<1> QED BY <1>1, <1>2 DEF Message, Sound, SomeMessage

LEMMA UpdateDemandTyped ==
  ASSUME NEW wanted \in [Models -> SUBSET Records], NEW needed \in SUBSET Records
  PROVE  UpdateDemand(wanted, needed) \in [Models -> SUBSET Records]
  BY DEF UpdateDemand

LEMMA AfterReturnSpec ==
  ASSUME IInv, NEW m, Sound(m), rows[m.id] # <<>>,
         NEW wanted \in [Models -> SUBSET Records], AfterReturn(m, wanted)
  PROVE  /\ \A e \in DOMAIN net' : Sound(e)
         /\ call'.wanted \in [Models -> SUBSET Records]
         /\ call' = NoCall \/ IsRow(call'.row)
<1>1. CASE m.parent # 0
  <2>1. net' = net /\ call' = Call(LatestRow(m.parent), wanted)
    BY <1>1 DEF AfterReturn
  <2>2. m.parent \in Nat /\ m.parent \in DOMAIN rows /\ rows[m.parent] # <<>>
    BY <1>1 DEF Sound, SomeMessage
  <2>3. rows[m.parent] \in Seq([message : SomeMessage, failed : BOOLEAN])
    BY <2>2 DEF IInv, ReceiverTyped
  <2>4. Len(rows[m.parent]) \in Nat /\ Len(rows[m.parent]) \in DOMAIN rows[m.parent]
    BY <2>2, <2>3
  <2>5. IsRow(LatestRow(m.parent))
    BY <2>2, <2>4 DEF LatestRow, Row, IsRow
  <2> QED BY <2>1, <2>5 DEF Call, IInv
<1>2. CASE m.parent = 0
  <2>1. call' = NoCall /\ (net' = net \/ net' = net (+) PostDemand(m, wanted))
    BY <1>2 DEF AfterReturn
  <2>2. PICK demand : demand = UNION {wanted[mo] : mo \in Models}
    OBVIOUS
  <2>3. demand \in SUBSET Records
    BY <2>2
  <2>4. PICK post : post = Message("POST_DEPENDENCY_DEMAND", m.id, 0, NoRecords, demand)
    OBVIOUS
  <2>5. Sound(post)
    <3>1. "POST_DEPENDENCY_DEMAND" \in Demands
      BY DEF Demands
    <3> QED BY <2>3, <2>4, <3>1, DemandSound
  <2>6. PostDemand(m, wanted) = SetToBag({post})
    BY <2>2, <2>4 DEF PostDemand
  <2>7. \A e \in DOMAIN net' : Sound(e)
    BY <2>1, <2>5, <2>6, BagPlus DEF IInv
  <2>8. NoCall.wanted \in [Models -> SUBSET Records]
    BY DEF NoCall, Call, NoDemand
  <2> QED BY <2>1, <2>7, <2>8
<1> QED BY <1>1, <1>2

LEMMA DemandStep ==
  ASSUME IInv, NEW x, IsRow(x), DemandDependencies(Received(x).message),
         UNCHANGED <<sender, nextId, exported>>, inbox' \subseteq inbox
  PROVE  IInv' /\ copy' = copy
<1>1. PICK m : m = Received(x).message
  OBVIOUS
<1>2. Sound(m) /\ m.id = x.id /\ rows[m.id] # <<>>
  BY <1>1 DEF IInv, RowsSound, IsRow, Received
<1>3. PICK demand : demand = Needed(DependenciesOf(m), copy)
  OBVIOUS
<1>4. demand \in SUBSET Records
  <2>1. DOMAIN m.root \subseteq Records
    BY <1>2, ContentsFields DEF Sound, SomeMessage
  <2> QED BY <1>3, <2>1, BusAssumption DEF Needed, DependenciesOf
<1>5. PICK ask : ask = Message("DEPENDENCY_DEMAND", m.id, m.parent, NoRecords, demand)
  OBVIOUS
<1>6. Sound(ask)
  <2>1. "DEPENDENCY_DEMAND" \in Demands
    BY DEF Demands
  <2> QED BY <1>2, <1>4, <1>5, <2>1, DemandSound
<1>7. /\ net' = net (+) SetToBag({ask}) /\ call' = NoCall
      /\ UNCHANGED <<rows, copy, returned>>
  BY <1>1, <1>3, <1>5 DEF DemandDependencies
<1>8. \A e \in DOMAIN net' : Sound(e)
  BY <1>6, <1>7, BagPlus DEF IInv
<1>9. call'.wanted \in [Models -> SUBSET Records]
  BY <1>7 DEF NoCall, Call, NoDemand
<1>10. \A y \in inbox' : IsRow(y)
  BY DEF IInv, ReceiverTyped
<1>11. IInv'
  BY <1>7, <1>8, <1>9, <1>10, RowsUnchanged, CopyUnchanged, SameCrossIds
<1> QED BY <1>7, <1>11

LEMMA ImportStep ==
  ASSUME IInv, NEW x, IsRow(x), NEW wanted \in [Models -> SUBSET Records],
         ImportSynchronizationMessage(x, wanted),
         UNCHANGED <<sender, nextId, exported>>, inbox' \subseteq inbox
  PROVE  IInv' /\ \A r \in Records : copy'[r] >= copy[r]
<1>1. PICK m : m = Received(x).message
  OBVIOUS
<1>2. Sound(m) /\ m.id = x.id /\ rows[m.id] # <<>>
  BY <1>1 DEF IInv, RowsSound, IsRow, Received
<1>3. PICK failing \in Failing(m.root) :
        /\ copy' = ImportDatas(m.root, failing)
        /\ rows' = [rows EXCEPT ![x.id][x.i].failed = @ \/ failing # {}]
        /\ IF ReturnState(x, failing) = "done"
             THEN /\ returned' = returned \union {m.root}
                  /\ AfterReturn(m, UpdateDemand(wanted, Needed(PostDependenciesOf(m), copy')))
             ELSE call' = NoCall /\ UNCHANGED <<net, returned>>
  BY <1>1 DEF ImportSynchronizationMessage
<1>4. failing \in SUBSET DOMAIN m.root /\ Needed(DependenciesOf(m), copy) = {}
  BY <1>1, <1>3 DEF Failing, ImportSynchronizationMessage
<1>5. returned' = returned \/ (failing = {} /\ returned' = returned \union {m.root})
  BY <1>3 DEF ReturnState
<1>6. CopyKeeps /\ \A r \in Records : copy'[r] >= copy[r]
  BY <1>2, <1>3, <1>4, <1>5, ImportKeeps
<1>7. /\ \A e \in DOMAIN net' : Sound(e)
      /\ call'.wanted \in [Models -> SUBSET Records]
      /\ call' = NoCall \/ IsRow(call'.row)
  <2>1. CASE ReturnState(x, failing) = "done"
    <3>1. PICK needed : needed = Needed(PostDependenciesOf(m), copy')
      OBVIOUS
    <3>2. needed \in SUBSET Records
      <4>1. DOMAIN m.root \subseteq Records
        BY <1>2, ContentsFields DEF Sound, SomeMessage
      <4> QED BY <3>1, <4>1, BusAssumption DEF Needed, PostDependenciesOf
    <3>3. PICK next : next = UpdateDemand(wanted, needed)
      OBVIOUS
    <3>4. next \in [Models -> SUBSET Records]
      BY <3>2, <3>3, UpdateDemandTyped
    <3>5. AfterReturn(m, next)
      BY <1>3, <2>1, <3>1, <3>3
    <3> QED BY <1>2, <3>4, <3>5, AfterReturnSpec
  <2>2. CASE ReturnState(x, failing) # "done"
    <3>1. net' = net /\ call' = NoCall
      BY <1>3, <2>2
    <3>2. NoCall.wanted \in [Models -> SUBSET Records]
      BY DEF NoCall, Call, NoDemand
    <3> QED BY <3>1, <3>2 DEF IInv
  <2> QED BY <2>1, <2>2
<1>8. PICK old : old = rows[x.id]
  OBVIOUS
<1>9. /\ rows \in Seq(Seq([message : SomeMessage, failed : BOOLEAN]))
      /\ old \in Seq([message : SomeMessage, failed : BOOLEAN])
      /\ x.id \in DOMAIN rows /\ x.i \in DOMAIN old
  BY <1>8, RowsUnchanged DEF IsRow
<1>10. PICK new : new = [old EXCEPT ![x.i].failed = @ \/ failing # {}]
  OBVIOUS
<1>11. /\ new \in Seq([message : SomeMessage, failed : BOOLEAN])
       /\ DOMAIN new = DOMAIN old
       /\ \A i \in DOMAIN old : new[i].message = old[i].message
  <2>1. PICK row : row = [old[x.i] EXCEPT !.failed = @ \/ failing # {}]
    OBVIOUS
  <2>2. old[x.i] \in [message : SomeMessage, failed : BOOLEAN]
    BY <1>9, SeqElement
  <2>3. row \in [message : SomeMessage, failed : BOOLEAN] /\ row.message = old[x.i].message
    BY <2>1, <2>2
  <2>4. new = [old EXCEPT ![x.i] = row]
    BY <1>10, <2>1
  <2>5. DOMAIN new = DOMAIN old /\ \A i \in DOMAIN old : new[i] = IF i = x.i THEN row ELSE old[i]
    BY <1>9, <2>4
  <2>6. new \in Seq([message : SomeMessage, failed : BOOLEAN])
    BY <1>9, <2>3, <2>4
  <2> QED BY <2>3, <2>5, <2>6
<1>12. rows' = [rows EXCEPT ![x.id] = new]
  BY <1>3, <1>8, <1>9, <1>10
<1>13. /\ rows' \in Seq(Seq([message : SomeMessage, failed : BOOLEAN])) /\ Len(rows') = Len(rows)
       /\ \A id \in DOMAIN rows : rows'[id] = IF id = x.id THEN new ELSE rows[id]
  BY <1>9, <1>11, <1>12
<1>14. new # <<>>
  BY <1>2, <1>8, <1>9, <1>11
<1>15. \A id \in DOMAIN rows : /\ DOMAIN rows[id] \subseteq DOMAIN rows'[id]
                               /\ rows[id] # <<>> => rows'[id] # <<>>
  BY <1>8, <1>11, <1>13, <1>14
<1>16. \A id \in DOMAIN rows : \A i \in DOMAIN rows'[id] :
         LET n == rows'[id][i].message
         IN n.id = id /\ n.treatment \in Imports /\ Sound(n)
  <2>1. \A i \in DOMAIN old : LET n == old[i].message
                              IN n.id = x.id /\ n.treatment \in Imports /\ Sound(n)
    BY <1>8, <1>9, RowsUnchanged
  <2>2. \A i \in DOMAIN new : LET n == new[i].message
                              IN n.id = x.id /\ n.treatment \in Imports /\ Sound(n)
    BY <2>1, <1>11
  <2> QED BY <2>2, <1>13, RowsUnchanged
<1>17. \A y \in inbox' : IsRow(y)
  BY DEF IInv, ReceiverTyped
<1>18. IInv'
  BY <1>6, <1>7, <1>13, <1>15, <1>16, <1>17, SameCrossIds
<1> QED BY <1>6, <1>18

LEMMA ReceiverStep ==
  ASSUME IInv, NEW x, IsRow(x), NEW wanted \in [Models -> SUBSET Records],
         ProcessReceivedMessage(x, wanted),
         UNCHANGED <<sender, nextId, exported>>, inbox' \subseteq inbox
  PROVE  IInv' /\ \A r \in Records : copy'[r] >= copy[r]
<1>1. \A r \in Records : copy[r] \in Nat
  BY DEF IInv, ReceiverTyped
<1>2. CASE DemandDependencies(Received(x).message)
  <2>1. IInv' /\ copy' = copy
    BY <1>2, DemandStep
  <2> QED BY <2>1, <1>1
<1>3. CASE ImportSynchronizationMessage(x, wanted)
  BY <1>3, ImportStep
<1> QED BY <1>2, <1>3 DEF ProcessReceivedMessage

-----------------------------------------------------------------------------
(* The theorems *)

LEMMA StepKeeps ==
  ASSUME IInv, [Next]_vars
  PROVE  IInv' /\ \A r \in Records : copy'[r] >= copy[r]
<1>1. \A r \in Records : copy[r] \in Nat
  BY DEF IInv, ReceiverTyped
<1>2. (IInv' /\ copy' = copy) \/ (IInv' /\ \A r \in Records : copy'[r] >= copy[r])
  <2>1. CASE \/ Tick
             \/ \E r \in Records : Write(r) \/ Commit(r)
             \/ \E mo \in Models : SyncAll(mo) \/ SyncDiff(mo)
    BY <2>1, SenderStep
  <2>2. ASSUME NEW j \in jobs, GenerateMessage(j)
        PROVE  IInv' /\ copy' = copy
    BY <2>2, GenerateMessageStep
  <2>3. ASSUME NEW m \in BagToSet(net), NEW twice \in BOOLEAN, Deliver(m, twice)
        PROVE  IInv' /\ copy' = copy
    BY <2>3, SendDependencyResponseStep, SendPostDependencyResponseStep, ReceiveMessageStep
    DEF Deliver, BagToSet
  <2>4. ASSUME NEW x \in inbox, JobReceiveMessage(x)
        PROVE  IInv' /\ \A r \in Records : copy'[r] >= copy[r]
    <3>1. IsRow(x)
      BY DEF IInv, ReceiverTyped
    <3>2. NoDemand \in [Models -> SUBSET Records]
      BY DEF NoDemand
    <3> QED BY <2>4, <3>1, <3>2, ReceiverStep DEF JobReceiveMessage
  <2>5. CASE ReplayParent
    <3>1. IsRow(call.row) /\ call.wanted \in [Models -> SUBSET Records]
      BY <2>5 DEF ReplayParent, IInv, ReceiverTyped
    <3> QED BY <2>5, <3>1, ReceiverStep DEF ReplayParent
  <2>6. CASE UNCHANGED vars
    <3>1. UNCHANGED <<sender, nextId, exported, receiver, net>>
      BY <2>6 DEF vars
    <3>2. UNCHANGED <<rows, inbox, call, copy, returned>>
      BY <3>1 DEF receiver
    <3>3. call.wanted \in [Models -> SUBSET Records] /\ (call = NoCall \/ IsRow(call.row))
          /\ (\A x \in inbox : IsRow(x)) /\ (\A m \in DOMAIN net : Sound(m))
      BY DEF IInv, ReceiverTyped
    <3>4. IInv'
      BY <3>1, <3>2, <3>3, RowsUnchanged, CopyUnchanged, SameCrossIds
    <3> QED BY <3>2, <3>4
  <2> QED BY <2>1, <2>2, <2>3, <2>4, <2>5, <2>6 DEF Next, Protocol
<1> QED BY <1>1, <1>2

LEMMA InvTypes == IInv => TypeOK
<1> SUFFICES ASSUME IInv PROVE TypeOK
  OBVIOUS
<1> USE BusAssumption
<1>1. /\ src \in [Records -> 1 .. MaxVersion] /\ exported \in [Records -> Nat]
      /\ copy \in [Records -> Nat]
      /\ \A r \in Records : exported[r] <= src[r] /\ copy[r] <= src[r]
  BY DEF IInv, SenderTyped, ReceiverTyped
<1>2. exported \in [Records -> 0 .. MaxVersion]
      /\ \A r \in Records : exported[r] <= src[r] /\ copy[r] \in 0 .. src[r]
  BY <1>1
<1>3. DOMAIN rows = 1 .. nextId - 1 /\ nextId \in Nat
  BY DEF IInv, SenderTyped, ReceiverTyped
<1>4. ASSUME NEW x \in inbox \union ({call.row} \ {NoCall.row})
      PROVE  /\ x.id \in DOMAIN rows
             /\ x.i \in DOMAIN rows[x.id]
             /\ Received(x).message.id = x.id
             /\ Received(x).message.parent < nextId
             /\ Received(x).message.treatment \in Imports
  <2>1. IsRow(x)
    BY DEF IInv, ReceiverTyped
  <2>2. PICK m : m = Received(x).message
    OBVIOUS
  <2>3. x.id \in DOMAIN rows /\ x.i \in DOMAIN rows[x.id]
    BY <2>1 DEF IsRow
  <2>4. Sound(m) /\ m.id = x.id /\ m.treatment \in Imports
    BY <2>2, <2>3 DEF IInv, RowsSound, Received
  <2>5. m.parent < nextId
    <3>1. m.parent = 0 \/ m.parent \in 1 .. nextId - 1
      BY <2>4, <1>3 DEF Sound
    <3>2. nextId \in Nat \ {0}
      BY DEF IInv, SenderTyped
    <3> QED BY <3>1, <3>2
  <2> QED BY <2>2, <2>3, <2>4, <2>5
<1>5. \A m \in BagToSet(net) : m.id \in DOMAIN rows
  BY DEF IInv, Sound, BagToSet
<1> QED BY <1>1, <1>2, <1>3, <1>4, <1>5 DEF TypeOK, IInv, SenderTyped, ReceiverTyped

LEMMA Invariance == Spec => []IInv
  BY InvInit, StepKeeps, PTL DEF Spec

\* Records, dates, jobs, messages, received rows and the call a job replays keep
\* their types (the state of both bases and of the bus between them).
THEOREM TypeCorrect == Spec => []TypeOK
  BY Invariance, InvTypes, PTL

\* Whatever the order in which messages arrive, and however often, the receiver
\* never goes back to an older version of a record (import_datas).
THEOREM VersionsNeverGoBack == Spec => NeverBackwards
<1>1. IInv /\ [Next]_vars => [\A r \in Records : copy'[r] >= copy[r]]_copy
  BY StepKeeps
<1> QED BY <1>1, Invariance, PTL DEF Spec, NeverBackwards

\* A record is never at the receiver before all it refers to is
\* (check_needed_dependencies, and the replay of what waited).
THEOREM DependenciesComeFirst == Spec => []DependenciesFirst
<1>1. IInv => DependenciesFirst
  BY DEF IInv
<1> QED BY <1>1, Invariance, PTL

\* A message answered 'done' is held by the receiver for ever, in its versions or
\* newer ones (send_synchro_return_message).
THEOREM DoneIsTold == Spec => []DoneIsTrue
<1>1. IInv => DoneIsTrue
  BY DEF IInv
<1> QED BY <1>1, Invariance, PTL
=============================================================================
