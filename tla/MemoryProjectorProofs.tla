------------------------ MODULE MemoryProjectorProofs ------------------------
(***************************************************************************)
(* Theorems about MemoryProjector, for every value of its constants, and   *)
(* in the last two sections about Pipeline, which joins it to the indexer. *)
(***************************************************************************)
EXTENDS MemoryProjectorInvariant, Pipeline, SequenceTheorems, FiniteSetTheorems, TLAPS

(***************************************************************************)
(* Lemmas about sequences.                                                 *)
(***************************************************************************)

\* Appending keeps every entry in its place.
LEMMA AppendKeeps ==
  ASSUME NEW S, NEW s \in Seq(S), NEW e \in S
  PROVE  /\ Append(s, e) \in Seq(S)
         /\ Len(Append(s, e)) = Len(s) + 1
         /\ DOMAIN Append(s, e) = 1..(Len(s) + 1)
         /\ \A i \in 1..Len(s) : Append(s, e)[i] = s[i]
         /\ Append(s, e)[Len(s) + 1] = e
  BY AppendProperties, LenProperties

\* Appending adds the new entry to the set of entries.
LEMMA AppendElements ==
  ASSUME NEW S, NEW s \in Seq(S), NEW e \in S
  PROVE  Elements(Append(s, e)) = Elements(s) \cup {e}
<1>1. \A i \in DOMAIN s : i \in DOMAIN Append(s, e) /\ Append(s, e)[i] = s[i]
  BY AppendKeeps, LenProperties
<1>2. Len(s) + 1 \in DOMAIN Append(s, e) /\ Append(s, e)[Len(s) + 1] = e
  BY AppendKeeps, LenProperties
<1>3. \A i \in DOMAIN Append(s, e) : i \in DOMAIN s \/ i = Len(s) + 1
  BY AppendKeeps, LenProperties
<1> QED
  BY <1>1, <1>2, <1>3 DEF Elements

\* Overwriting an entry keeps the length.
LEMMA ExceptKeeps ==
  ASSUME NEW S, NEW s \in Seq(S), NEW k \in 1..Len(s), NEW e \in S
  PROVE  /\ [s EXCEPT ![k] = e] \in Seq(S)
         /\ Len([s EXCEPT ![k] = e]) = Len(s)
         /\ DOMAIN [s EXCEPT ![k] = e] = 1..Len(s)
  BY ExceptSeq, LenProperties

-----------------------------------------------------------------------------
(***************************************************************************)
(* Type correctness.  TypeOK is not inductive alone: that a command can be *)
(* read at entry, or an interaction announced, depends on where the        *)
(* consumer stands (Control).                                              *)
(***************************************************************************)

\* What a command in hand gives its handler.
LEMMA CommandType ==
  ASSUME TypeInv, Handling
  PROVE  /\ command \in Commands /\ win \in Windows /\ chat \in Chats
         /\ StartOf[win] \in Nat
         /\ Senders[win] \in Seq(People)
         /\ Tasks[command] \in Seq(Messages)
         /\ entry \in Nat
<1>1. command \in Commands /\ entry \in Nat
  BY LenProperties DEF TypeInv, TypeOK, Control, command
<1>2. win \in Windows
  BY <1>1, ProjectorAssumption DEF win
<1>3. chat \in Chats
  BY <1>2, ProjectorAssumption DEF chat
<1> QED
  BY <1>1, <1>2, <1>3, ProjectorAssumption

\* What one read of the stream delivers are positions up to the new cursor.
LEMMA NextEntriesType ==
  ASSUME stream \in Seq(Commands), cursor \in Nat, cursor < Len(stream)
  PROVE  /\ NextEntries \in Seq(Nat \ {0})
         /\ cursor + Len(NextEntries) \in Nat
         /\ cursor + Len(NextEntries) <= Len(stream)
         /\ \A i \in DOMAIN NextEntries : NextEntries[i] <= cursor + Len(NextEntries)
<1> DEFINE n == IF Len(stream) < cursor + BatchSize THEN Len(stream) - cursor ELSE BatchSize
<1>1. n \in Nat /\ cursor + n <= Len(stream)
  BY ProjectorAssumption, LenProperties
<1>2. NextEntries = [i \in 1..n |-> cursor + i]
  BY DEF NextEntries
<1> HIDE DEF n
<1>3. NextEntries \in [1..n -> Nat \ {0}] /\ \A i \in 1..n : NextEntries[i] = cursor + i
  BY <1>1, <1>2
<1>4. NextEntries \in Seq(Nat \ {0}) /\ Len(NextEntries) = n /\ DOMAIN NextEntries = 1..n
  BY <1>1, <1>3
<1> QED
  BY <1>1, <1>3, <1>4

\* The parts of TypeInv, by what can disturb them.
BusOK ==
  /\ stream \in Seq(Commands)
  /\ grouped \in BOOLEAN
  /\ cursor \in Nat /\ cursor <= Len(stream)
  /\ acked \subseteq Nat
  /\ faults \in [FaultKinds -> Nat]

WindowTablesOK ==
  /\ processed \subseteq Commands
  /\ audit \in Seq(Commands)
  /\ persons \subseteq People
  /\ members \subseteq Chats \X People
  /\ rows \in [Windows -> Commands \cup {None}]
  /\ facts \in [Windows -> SUBSET Content]
  /\ signals \in [Windows -> SUBSET Content]
  /\ interactions \in Seq(InteractionRows)

TasksOK == tasks \in Seq(TaskRows)

StoresOK ==
  /\ artifact \in [Windows -> Commands \cup {None}]
  /\ edges \in [Pairs -> Nat]
  /\ jobs \in Seq(Commands)
  /\ updates \in Seq(Updates)

PlaceOK ==
  /\ pc \in PcStates
  /\ todo \in Seq(Nat \ {0})
  /\ \A i \in DOMAIN todo : todo[i] <= cursor
  /\ entry \in Nat
  /\ Handling => entry \in 1..Len(stream)

LocalsOK ==
  /\ owner \in People \cup {None}
  /\ draft \in Seq(TaskRows)
  /\ taskIds \in Seq(Nat \ {0})
  /\ interaction \in Nat
  /\ Syncing => Len(tasks) <= Len(draft)
  /\ Announcing => interaction \in 1..Len(interactions)

PartsOK == BusOK /\ WindowTablesOK /\ TasksOK /\ StoresOK /\ PlaceOK /\ LocalsOK

LEMMA TypeInvParts == (TypeInv <=> PartsOK) /\ (TypeInv' <=> PartsOK')
  BY DEF PartsOK, TypeInv, TypeOK, Control, BusOK, WindowTablesOK, TasksOK, StoresOK, PlaceOK,
         LocalsOK

\* What a step leaves alone keeps its type.
LEMMA TypeFrame ==
  /\ WindowTablesOK /\ UNCHANGED windowTables => WindowTablesOK'
  /\ TasksOK /\ UNCHANGED tasks => TasksOK'
  /\ StoresOK /\ UNCHANGED stores /\ UNCHANGED output => StoresOK'
  /\ BusOK /\ UNCHANGED bus /\ UNCHANGED faults => BusOK'
  BY DEF WindowTablesOK, TasksOK, StoresOK, BusOK, windowTables, stores,
         output, bus

\* A fault is counted.
LEMMA StrikeType ==
  ASSUME BusOK, NEW k \in FaultKinds, Strike(k), UNCHANGED <<stream, grouped>>,
         cursor' \in Nat, cursor' <= Len(stream), acked' \subseteq Nat
  PROVE  BusOK'
<1>1. faults' = [faults EXCEPT ![k] = @ + 1]
  BY DEF Strike
<1>2. faults' \in [FaultKinds -> Nat]
  BY <1>1 DEF BusOK
<1> QED
  BY <1>2 DEF BusOK

\* What every write to a table of tasks preserves: which rows there are, and
\* what they rest on.
SameRows(new, old) ==
  /\ DOMAIN new = DOMAIN old
  /\ \A u \in DOMAIN old : new[u].chat = old[u].chat /\ new[u].evidence = old[u].evidence

\* One status is written.
LEMMA PatchRow ==
  ASSUME NEW table \in Seq(TaskRows), NEW t \in DOMAIN table, NEW s \in Statuses
  PROVE  LET new == [table EXCEPT ![t].status = s]
         IN  /\ new \in Seq(TaskRows) /\ Len(new) = Len(table) /\ SameRows(new, table)
             /\ new[t].status = s
             /\ \A u \in DOMAIN table \ {t} : new[u].status = table[u].status
<1> DEFINE row == [table[t] EXCEPT !.status = s]
           new == [table EXCEPT ![t] = row]
<1>1. t \in 1..Len(table) /\ DOMAIN table = 1..Len(table)
  BY LenProperties
<1>2. table[t] \in TaskRows
  BY <1>1, ElementOfSeq
<1>3. /\ row \in TaskRows /\ row.status = s
      /\ row.chat = table[t].chat /\ row.evidence = table[t].evidence
  BY <1>2 DEF TaskRows
<1> HIDE DEF row
<1>4. new \in Seq(TaskRows) /\ Len(new) = Len(table)
  BY <1>1, <1>3, ExceptKeeps
<1>5. DOMAIN new = DOMAIN table /\ new[t] = row /\ \A u \in DOMAIN table \ {t} : new[u] = table[u]
  OBVIOUS
<1>6. SameRows(new, table)
  BY <1>3, <1>5 DEF SameRows
<1>7. new[t].status = s /\ \A u \in DOMAIN table \ {t} : new[u].status = table[u].status
  BY <1>3, <1>5
<1>8. [table EXCEPT ![t].status = s] = new
  BY DEF row
<1> HIDE DEF new
<1> QED
  BY <1>4, <1>6, <1>7, <1>8

\* The admin writes one status, in the table and in what an open transaction
\* sees of it.
LEMMA PatchEffect ==
  ASSUME TypeInv, NEW t \in DOMAIN tasks, NEW s \in Statuses, PatchTask(t, s)
  PROVE  /\ UNCHANGED <<bus, windowTables, stores, output, pc, todo, entry, owner, taskIds,
                        interaction, faults>>
         /\ tasks' \in Seq(TaskRows) /\ Len(tasks') = Len(tasks) /\ SameRows(tasks', tasks)
         /\ draft' \in Seq(TaskRows) /\ Len(draft') = Len(draft) /\ SameRows(draft', draft)
         /\ Syncing => \A u \in DOMAIN tasks :
              draft[u].status = tasks[u].status => draft'[u].status = tasks'[u].status
<1>1. /\ tasks \in Seq(TaskRows) /\ DOMAIN tasks = 1..Len(tasks) /\ Len(tasks) \in Nat
      /\ draft \in Seq(TaskRows) /\ DOMAIN draft = 1..Len(draft) /\ Len(draft) \in Nat
  BY LenProperties DEF TypeInv, TypeOK
<1>2. /\ tasks' = [tasks EXCEPT ![t].status = s]
      /\ Syncing => draft' = [draft EXCEPT ![t].status = s]
      /\ ~ Syncing => draft' = draft
  BY DEF PatchTask, Syncing
<1>3. /\ tasks' \in Seq(TaskRows) /\ Len(tasks') = Len(tasks) /\ SameRows(tasks', tasks)
      /\ tasks'[t].status = s
      /\ \A u \in DOMAIN tasks \ {t} : tasks'[u].status = tasks[u].status
  BY <1>1, <1>2, PatchRow
<1>4. Syncing => t \in DOMAIN draft /\ DOMAIN tasks \subseteq DOMAIN draft
  BY <1>1 DEF TypeInv, Control
<1>5. CASE Syncing
  <2>1. /\ draft' \in Seq(TaskRows) /\ Len(draft') = Len(draft) /\ SameRows(draft', draft)
        /\ draft'[t].status = s
        /\ \A u \in DOMAIN draft \ {t} : draft'[u].status = draft[u].status
    <3>1. draft' = [draft EXCEPT ![t].status = s]
      BY <1>2, <1>5
    <3>2. draft \in Seq(TaskRows) /\ t \in DOMAIN draft
      BY <1>1, <1>4, <1>5
    <3>3. LET new == [draft EXCEPT ![t].status = s]
          IN  /\ new \in Seq(TaskRows) /\ Len(new) = Len(draft) /\ SameRows(new, draft)
              /\ new[t].status = s
              /\ \A u \in DOMAIN draft \ {t} : new[u].status = draft[u].status
      BY <3>2, PatchRow
    <3> QED
      BY <3>1, <3>3
  <2>2. ASSUME NEW u \in DOMAIN tasks, draft[u].status = tasks[u].status
        PROVE  draft'[u].status = tasks'[u].status
    BY <1>3, <1>4, <1>5, <2>1, <2>2
  <2> QED
    BY <1>3, <2>1, <2>2 DEF PatchTask
<1>6. CASE ~ Syncing
  BY <1>1, <1>2, <1>3, <1>6 DEF PatchTask, SameRows
<1> QED
  BY <1>5, <1>6

LEMMA TypeEnvironment ==
  ASSUME TypeInv,
         (\E c \in Commands : Emit(c))
           \/ (\E t \in DOMAIN tasks, s \in Statuses : PatchTask(t, s))
  PROVE  TypeInv'
<1> USE TypeInvParts DEF PartsOK
<1>1. CASE \E c \in Commands : Emit(c)
  <2>1. PICK c \in Commands : Emit(c)
    BY <1>1
  <2>2. stream' = Append(stream, c)
    BY <2>1 DEF Emit
  <2>3. stream' \in Seq(Commands) /\ Len(stream') = Len(stream) + 1
    BY <2>2, AppendKeeps DEF BusOK
  <2>4. Len(stream) \in Nat
    BY LenProperties DEF BusOK
  <2>5. BusOK'
    BY <2>1, <2>3, <2>4 DEF Emit, BusOK
  <2>6. PlaceOK'
    BY <2>1, <2>3, <2>4 DEF Emit, PlaceOK, Handling
  <2>7. LocalsOK'
    BY <2>1 DEF Emit, LocalsOK, Syncing, Announcing, locals, windowTables
  <2> QED
    BY <2>1, <2>5, <2>6, <2>7, TypeFrame DEF Emit
<1>2. CASE \E t \in DOMAIN tasks, s \in Statuses : PatchTask(t, s)
  <2>1. PICK t \in DOMAIN tasks, s \in Statuses : PatchTask(t, s)
    BY <1>2
  <2>2. /\ UNCHANGED <<bus, windowTables, stores, output, pc, todo, entry, owner, taskIds,
                       interaction, faults>>
        /\ tasks' \in Seq(TaskRows) /\ Len(tasks') = Len(tasks)
        /\ draft' \in Seq(TaskRows) /\ Len(draft') = Len(draft)
    BY <2>1, PatchEffect
  <2>3. BusOK' /\ WindowTablesOK' /\ StoresOK' /\ TasksOK'
    BY <2>2, TypeFrame DEF TasksOK
  <2>4. PlaceOK'
    BY <2>2 DEF PlaceOK, Handling, bus
  <2>5. LocalsOK'
    BY <2>2 DEF LocalsOK, Syncing, Announcing, windowTables
  <2> QED
    BY <2>3, <2>4, <2>5
<1> QED
  BY <1>1, <1>2

\* The consumer goes on to a step that asks nothing new of its local variables.
LEMMA TypeOnwards ==
  ASSUME PlaceOK, LocalsOK, Handling, pc' \in PcStates,
         pc' \notin {"tasks", "commit", "graph", "job", "update"},
         UNCHANGED <<stream, cursor, todo, entry, locals>>
  PROVE  PlaceOK' /\ LocalsOK'
  BY DEF PlaceOK, LocalsOK, Handling, Syncing, Announcing, locals

\* The consumer returns to its loop, or stops.
LEMMA TypeLeave ==
  ASSUME PlaceOK, pc' \in {"off", "idle"}, Forget, entry' = 0,
         todo' = todo \/ todo' = <<>>, UNCHANGED cursor
  PROVE  PlaceOK' /\ LocalsOK'
<1>1. todo' \in Seq(Nat \ {0}) /\ \A i \in DOMAIN todo' : todo'[i] <= cursor
  <2>1. CASE todo' = todo
    BY <2>1 DEF PlaceOK
  <2>2. CASE todo' = <<>>
    BY <2>2
  <2> QED
    BY <2>1, <2>2
<1>2. PlaceOK'
  BY <1>1 DEF PlaceOK, Handling, PcStates
<1>3. LocalsOK'
  BY DEF LocalsOK, Forget, Syncing, Announcing
<1> QED
  BY <1>2, <1>3

LEMMA TypeLoop ==
  ASSUME TypeInv, Start \/ Fetch \/ Take \/ Check \/ Ack
  PROVE  TypeInv'
<1> USE TypeInvParts DEF PartsOK
<1>1. CASE Start
  <2>1. Len(stream) \in Nat
    BY LenProperties DEF BusOK
  <2>2. BusOK'
    BY <1>1, <2>1 DEF Start, BusOK
  <2>3. PlaceOK'
    BY <1>1, <2>1 DEF Start, Goto, BusOK, PlaceOK, Handling, PcStates
  <2>4. LocalsOK'
    BY <1>1 DEF Start, Goto, LocalsOK, Syncing, Announcing, locals
  <2> QED
    BY <1>1, <2>2, <2>3, <2>4, TypeFrame DEF Start
<1>2. CASE Fetch
  <2>1. /\ NextEntries \in Seq(Nat \ {0})
        /\ cursor + Len(NextEntries) \in Nat
        /\ cursor + Len(NextEntries) <= Len(stream)
        /\ \A i \in DOMAIN NextEntries : NextEntries[i] <= cursor + Len(NextEntries)
    BY <1>2, NextEntriesType DEF Fetch, BusOK
  <2>2. BusOK'
    BY <1>2, <2>1 DEF Fetch, BusOK
  <2>3. PlaceOK'
    BY <1>2, <2>1 DEF Fetch, PlaceOK, Handling
  <2>4. LocalsOK'
    BY <1>2 DEF Fetch, LocalsOK, Syncing, Announcing, locals, windowTables
  <2> QED
    BY <1>2, <2>2, <2>3, <2>4, TypeFrame DEF Fetch
<1>3. CASE Take
  <2>1. /\ Head(todo) \in Nat \ {0} /\ Head(todo) = todo[1] /\ 1 \in DOMAIN todo
        /\ Tail(todo) \in Seq(Nat \ {0})
        /\ \A i \in DOMAIN Tail(todo) : i + 1 \in DOMAIN todo /\ Tail(todo)[i] = todo[i + 1]
    BY <1>3, HeadTailProperties, LenProperties, EmptySeq DEF Take, PlaceOK
  <2>2. PlaceOK'
    <3>1. Len(stream) \in Nat /\ cursor \in Nat /\ cursor <= Len(stream)
      BY LenProperties DEF BusOK
    <3>2. /\ pc' = "check" /\ todo' = Tail(todo) /\ entry' = Head(todo)
          /\ UNCHANGED <<stream, cursor>>
      BY <1>3 DEF Take, Goto, bus
    <3>3. \A i \in DOMAIN todo' : todo'[i] <= cursor'
      BY <2>1, <3>2 DEF PlaceOK
    <3>4. entry' \in 1..Len(stream')
      BY <2>1, <3>1, <3>2 DEF PlaceOK
    <3> QED
      BY <2>1, <3>2, <3>3, <3>4 DEF PlaceOK, PcStates
  <2>3. LocalsOK'
    BY <1>3 DEF Take, Goto, LocalsOK, Syncing, Announcing, locals, windowTables
  <2> QED
    BY <1>3, <2>2, <2>3, TypeFrame DEF Take
<1>4. CASE Check
  <2>1. PlaceOK' /\ LocalsOK'
    BY <1>4, TypeOnwards DEF Check, Goto, Handling, PcStates, bus
  <2> QED
    BY <1>4, <2>1, TypeFrame DEF Check
<1>5. CASE Ack
  <2>1. PlaceOK' /\ LocalsOK'
    BY <1>5, TypeLeave DEF Ack, Goto
  <2>2. BusOK'
    BY <1>5 DEF Ack, BusOK, PlaceOK
  <2> QED
    BY <1>5, <2>1, <2>2, TypeFrame DEF Ack
<1> QED
  BY <1>1, <1>2, <1>3, <1>4, <1>5

\* What one iteration of the loop over the tasks does.
LEMMA SyncTaskType ==
  ASSUME TypeInv, SyncTask
  PROVE  /\ draft' \in Seq(TaskRows) /\ Len(draft) <= Len(draft')
         /\ taskIds' \in Seq(Nat \ {0})
<1> USE TypeInvParts DEF PartsOK
<1> DEFINE e == Tasks[command][Len(taskIds) + 1]
           counterpart == IF Senders[win] = <<>> THEN None ELSE Senders[win][1]
           row == [chat |-> chat, evidence |-> e, by |-> command,
                   owner |-> owner, counterpart |-> counterpart, status |-> "open"]
           merged(t) == UpdatedRow(row, draft[t])
<1>1. Handling
  BY DEF SyncTask, Handling
<1>2. e \in Messages
  <2>1. Tasks[command] \in Seq(Messages)
    BY <1>1, CommandType
  <2>2. Len(taskIds) \in Nat /\ Len(Tasks[command]) \in Nat
    BY <2>1, LenProperties DEF LocalsOK
  <2>3. Len(taskIds) < Len(Tasks[command])
    BY DEF SyncTask
  <2>4. Len(taskIds) + 1 \in 1..Len(Tasks[command])
    BY <2>2, <2>3
  <2> QED
    BY <2>1, <2>4, ElementOfSeq
<1>3. counterpart \in People \cup {None}
  <2>1. Senders[win] \in Seq(People)
    BY <1>1, CommandType
  <2>2. CASE Senders[win] # <<>>
    <3>1. 1 \in 1..Len(Senders[win])
      BY <2>1, <2>2, EmptySeq
    <3> QED
      BY <2>1, <2>2, <3>1, ElementOfSeq
  <2> QED
    BY <2>2
<1>4. row \in TaskRows
  BY <1>1, <1>2, <1>3, CommandType DEF TaskRows, LocalsOK, Statuses
<1>5. Len(draft) \in Nat
  BY LenProperties DEF LocalsOK
<1>6. CASE \E t \in FindTask(e) : draft' = [draft EXCEPT ![t] = merged(t)]
                                  /\ taskIds' = Append(taskIds, t)
  <2>1. PICK t \in FindTask(e) : draft' = [draft EXCEPT ![t] = merged(t)]
                                 /\ taskIds' = Append(taskIds, t)
    BY <1>6
  <2>2. t \in 1..Len(draft)
    BY LenProperties DEF FindTask, LocalsOK
  <2>3. draft[t] \in TaskRows
    BY <2>2, ElementOfSeq DEF LocalsOK
  <2>4. merged(t) \in TaskRows
    <3>1. Coalesce(owner, draft[t].owner) \in People \cup {None}
      BY <2>3 DEF Coalesce, TaskRows, LocalsOK
    <3>2. Coalesce(counterpart, draft[t].counterpart) \in People \cup {None}
      BY <1>3, <2>3 DEF Coalesce, TaskRows
    <3> QED
      BY <1>4, <2>3, <3>1, <3>2 DEF TaskRows, UpdatedRow
  <2>5. draft' \in Seq(TaskRows) /\ Len(draft') = Len(draft)
    <3> HIDE DEF merged
    <3> QED  BY <2>1, <2>2, <2>4, ExceptKeeps DEF LocalsOK
  <2>6. taskIds' \in Seq(Nat \ {0})
    BY <2>1, <2>2, <1>5, AppendKeeps DEF LocalsOK
  <2> QED
    BY <1>5, <2>5, <2>6
<1>7. CASE draft' = Append(draft, row) /\ taskIds' = Append(taskIds, Len(draft) + 1)
  <2>1. draft' \in Seq(TaskRows) /\ Len(draft') = Len(draft) + 1
    <3> HIDE DEF row
    <3> QED  BY <1>4, <1>7, AppendKeeps DEF LocalsOK
  <2>2. taskIds' \in Seq(Nat \ {0})
    BY <1>5, <1>7, AppendKeeps DEF LocalsOK
  <2> QED
    BY <1>5, <2>1, <2>2
<1> QED
  BY <1>6, <1>7 DEF SyncTask

LEMMA TypePrepare ==
  ASSUME TypeInv, Begin \/ SyncTask \/ PutArtifact
  PROVE  TypeInv'
<1> USE TypeInvParts DEF PartsOK
<1>1. CASE Begin
  <2>1. Senders[win] \in Seq(People) /\ Elements(Senders[win]) \subseteq People
    <3>1. Senders[win] \in Seq(People)
      BY <1>1, CommandType DEF Begin, Goto, Handling
    <3> QED
      BY <3>1 DEF Elements
  <2>2. owner' \in People \cup {None}
    BY <1>1, <2>1 DEF Begin, WindowTablesOK
  <2>3. PlaceOK'
    BY <1>1 DEF Begin, Goto, PlaceOK, Handling, PcStates, bus
  <2>4. draft' \in Seq(TaskRows) /\ Len(tasks') <= Len(draft')
    BY <1>1, LenProperties DEF Begin, TasksOK
  <2>5. LocalsOK'
    BY <1>1, <2>2, <2>4 DEF Begin, Goto, LocalsOK, Announcing
  <2> QED
    BY <1>1, <2>3, <2>5, TypeFrame DEF Begin
<1>2. CASE SyncTask
  <2>1. /\ draft' \in Seq(TaskRows) /\ Len(draft) <= Len(draft')
        /\ taskIds' \in Seq(Nat \ {0})
    BY <1>2, SyncTaskType
  <2>2. Len(tasks) \in Nat /\ Len(draft) \in Nat /\ Len(draft') \in Nat
    BY <2>1, LenProperties DEF TasksOK, LocalsOK
  <2>3. pc = "tasks" /\ UNCHANGED <<pc, owner, interaction, tasks, interactions>>
    BY <1>2 DEF SyncTask, windowTables
  <2>4. LocalsOK'
    BY <2>1, <2>2, <2>3 DEF LocalsOK, Syncing, Announcing
  <2>5. PlaceOK'
    BY <1>2 DEF SyncTask, PlaceOK, Handling, bus
  <2> QED
    BY <1>2, <2>4, <2>5, TypeFrame DEF SyncTask
<1>3. CASE PutArtifact
  <2>1. artifact' \in [Windows -> Commands \cup {None}]
    <3>1. command \in Commands /\ win \in Windows
      BY <1>3, CommandType DEF PutArtifact, TasksSynced, Handling
    <3> QED
      BY <1>3, <3>1 DEF PutArtifact, StoreArtifact, StoresOK
  <2>2. StoresOK'
    BY <1>3, <2>1 DEF PutArtifact, StoresOK, output
  <2>3. PlaceOK'
    BY <1>3 DEF PutArtifact, TasksSynced, PlaceOK, Handling, PcStates, bus
  <2>4. LocalsOK'
    BY <1>3 DEF PutArtifact, TasksSynced, LocalsOK, Syncing, Announcing, locals
  <2> QED
    BY <1>3, <2>2, <2>3, <2>4, TypeFrame DEF PutArtifact
<1> QED
  BY <1>1, <1>2, <1>3

\* COMMIT leaves well-typed tables, and an interaction to announce.
LEMMA TransactionType ==
  ASSUME TypeInv, pc = "commit", ApplyTransaction
  PROVE  /\ WindowTablesOK' /\ TasksOK'
         /\ interaction' \in 1..Len(interactions')
<1> USE TypeInvParts DEF PartsOK
<1>1. /\ command \in Commands /\ win \in Windows /\ chat \in Chats
      /\ StartOf[win] \in Nat /\ Elements(Senders[win]) \subseteq People
  <2>1. Handling
    BY DEF Handling
  <2>2. Senders[win] \in Seq(People)
    BY <2>1, CommandType
  <2> QED
    BY <2>1, <2>2, CommandType DEF Elements
<1>2. processed' \subseteq Commands /\ audit' \in Seq(Commands)
  BY <1>1, AppendKeeps DEF ApplyTransaction, WindowTablesOK
<1>3. persons' \subseteq People /\ members' \subseteq Chats \X People
  BY <1>1 DEF ApplyTransaction, WindowTablesOK
<1>4. \A old, n : ReplacedRows(old, n) \in SUBSET ({command} \X (1..n))
  BY DEF ReplacedRows
<1>5. ReplacedRows(facts[win], Claims[command]) \in SUBSET Content
  BY <1>1, <1>4, ProjectorAssumption DEF Content
<1>6. ReplacedRows(signals[win], Signals[command]) \in SUBSET Content
  BY <1>1, <1>4, ProjectorAssumption DEF Content
<1>7. /\ rows' \in [Windows -> Commands \cup {None}]
      /\ facts' \in [Windows -> SUBSET Content]
      /\ signals' \in [Windows -> SUBSET Content]
  BY <1>1, <1>5, <1>6 DEF ApplyTransaction, WindowTablesOK
<1>8. interactions' \in Seq(InteractionRows) /\ interaction' \in 1..Len(interactions')
  <2> DEFINE row == [chat |-> chat, start |-> StartOf[win], by |-> command,
                     tasks |-> taskIds, stored |-> HasStore]
             merged(k) == [row EXCEPT !.stored = @ \/ interactions[k].stored]
  <2>1. row \in InteractionRows
    BY <1>1, ProjectorAssumption DEF InteractionRows, LocalsOK
  <2>2. Len(interactions) \in Nat
    BY LenProperties DEF WindowTablesOK
  <2>3. CASE \E k \in FindInteraction :
               interactions' = [interactions EXCEPT ![k] = merged(k)] /\ interaction' = k
    <3>1. PICK k \in FindInteraction :
            interactions' = [interactions EXCEPT ![k] = merged(k)] /\ interaction' = k
      BY <2>3
    <3>2. k \in 1..Len(interactions)
      BY LenProperties DEF FindInteraction, WindowTablesOK
    <3>3. interactions[k] \in InteractionRows
      BY <3>2, ElementOfSeq DEF WindowTablesOK
    <3>4. (HasStore \/ interactions[k].stored) \in BOOLEAN
      OBVIOUS
    <3>5. merged(k) = [row EXCEPT !.stored = HasStore \/ interactions[k].stored]
      OBVIOUS
    <3>6. merged(k) \in InteractionRows
      BY <2>1, <3>4, <3>5 DEF InteractionRows
    <3> HIDE DEF merged
    <3> QED
      BY <3>1, <3>2, <3>6, ExceptKeeps DEF WindowTablesOK
  <2>4. CASE interactions' = Append(interactions, row)
             /\ interaction' = Len(interactions) + 1
    <3> HIDE DEF row
    <3> QED
      BY <2>1, <2>2, <2>4, AppendKeeps DEF WindowTablesOK
  <2> QED
    BY <2>3, <2>4 DEF ApplyTransaction, UpsertInteraction
<1>9. WindowTablesOK'
  BY <1>2, <1>3, <1>7, <1>8 DEF WindowTablesOK
<1>10. TasksOK'
  BY DEF ApplyTransaction, TasksOK, LocalsOK
<1> QED
  BY <1>8, <1>9, <1>10

LEMMA TypeCommit ==
  ASSUME TypeInv, Commit \/ LoseCommitReply
  PROVE  TypeInv'
<1> USE TypeInvParts DEF PartsOK
<1>1. /\ pc = "commit" /\ ApplyTransaction /\ pc' \in {"graph", "ack"}
      /\ UNCHANGED <<bus, stores, output, todo, entry, owner, draft, taskIds>>
  BY DEF Commit, LoseCommitReply, Goto
<1>2. WindowTablesOK' /\ TasksOK' /\ interaction' \in 1..Len(interactions')
  BY <1>1, TransactionType
<1>3. PlaceOK'
  BY <1>1 DEF PlaceOK, Handling, PcStates, bus
<1>4. Len(interactions') \in Nat
  BY <1>2, LenProperties DEF WindowTablesOK
<1>5. LocalsOK'
  BY <1>1, <1>2, <1>4 DEF LocalsOK, Syncing
<1>6. BusOK'
  <2>1. CASE Commit
    BY <2>1, TypeFrame DEF Commit
  <2>2. CASE LoseCommitReply
    BY <2>2, StrikeType DEF LoseCommitReply, FaultKinds, bus, BusOK
  <2> QED
    BY <2>1, <2>2
<1>7. StoresOK'
  BY <1>1, TypeFrame
<1> QED
  BY <1>2, <1>3, <1>5, <1>6, <1>7

LEMMA TypeAnnounce ==
  ASSUME TypeInv, WriteGraph \/ EmitJob \/ EmitUpdate
  PROVE  TypeInv'
<1> USE TypeInvParts DEF PartsOK
<1>1. CASE WriteGraph
  <2>1. edges' \in [Pairs -> Nat]
    BY <1>1 DEF WriteGraph, StoresOK
  <2>2. StoresOK'
    BY <1>1, <2>1 DEF WriteGraph, StoresOK, output
  <2>3. PlaceOK'
    BY <1>1 DEF WriteGraph, Goto, PlaceOK, Handling, PcStates, bus
  <2>4. LocalsOK'
    BY <1>1 DEF WriteGraph, Goto, LocalsOK, Syncing, Announcing, locals, windowTables
  <2> QED
    BY <1>1, <2>2, <2>3, <2>4, TypeFrame DEF WriteGraph
<1>2. CASE EmitJob
  <2>1. command \in Commands
    BY <1>2, CommandType DEF EmitJob, Goto, Handling
  <2>2. jobs' \in Seq(Commands)
    BY <1>2, <2>1, AppendKeeps DEF EmitJob, StoresOK
  <2>3. StoresOK'
    BY <1>2, <2>2 DEF EmitJob, StoresOK, stores
  <2>4. PlaceOK'
    BY <1>2 DEF EmitJob, Goto, PlaceOK, Handling, PcStates, bus
  <2>5. LocalsOK'
    BY <1>2 DEF EmitJob, Goto, LocalsOK, Syncing, Announcing, locals, windowTables
  <2> QED
    BY <1>2, <2>3, <2>4, <2>5, TypeFrame DEF EmitJob
<1>3. CASE EmitUpdate
  <2>1. command \in Commands
    BY <1>3, CommandType DEF EmitUpdate, Goto, Handling
  <2>2. interaction \in Nat \ {0}
    BY <1>3 DEF EmitUpdate, Goto, LocalsOK, Announcing
  <2>3. [id |-> interaction, by |-> command] \in Updates
    BY <2>1, <2>2 DEF Updates
  <2>4. updates' \in Seq(Updates)
    BY <1>3, <2>3, AppendKeeps DEF EmitUpdate, StoresOK
  <2>5. StoresOK'
    BY <1>3, <2>4 DEF EmitUpdate, StoresOK, stores
  <2>6. PlaceOK' /\ LocalsOK'
    BY <1>3, TypeOnwards DEF EmitUpdate, Goto, Handling, PcStates, bus
  <2> QED
    BY <1>3, <2>5, <2>6, TypeFrame DEF EmitUpdate
<1> QED
  BY <1>1, <1>2, <1>3

LEMMA TypeFault ==
  ASSUME TypeInv, Abort \/ GraphError \/ EmitError \/ LoseReply \/ Crash \/ Cancel
  PROVE  TypeInv'
<1> USE TypeInvParts DEF PartsOK
<1> USE DEF FaultKinds
<1>1. CASE Abort
  <2>1. artifact' \in [Windows -> Commands \cup {None}]
    <3>1. command \in Commands /\ win \in Windows
      BY <1>1, CommandType DEF Abort, Handling
    <3>2. CASE artifact' = artifact
      BY <3>2 DEF StoresOK
    <3>3. CASE StoreArtifact
      BY <3>1, <3>3 DEF StoreArtifact, StoresOK
    <3> QED
      BY <1>1, <3>2, <3>3 DEF Abort
  <2>2. StoresOK'
    BY <1>1, <2>1 DEF Abort, StoresOK, output
  <2>3. PlaceOK' /\ LocalsOK'
    BY <1>1, TypeOnwards DEF Abort, Handling, PcStates, bus
  <2>4. BusOK'
    BY <1>1, StrikeType DEF Abort, bus, BusOK
  <2> QED
    BY <1>1, <2>2, <2>3, <2>4, TypeFrame DEF Abort
<1>2. CASE GraphError
  <2>1. PlaceOK'
    BY <1>2 DEF GraphError, Goto, PlaceOK, Handling, PcStates, bus
  <2>2. LocalsOK'
    BY <1>2 DEF GraphError, Goto, LocalsOK, Syncing, Announcing, locals, windowTables
  <2>3. BusOK'
    BY <1>2, StrikeType DEF GraphError, bus, BusOK
  <2> QED
    BY <1>2, <2>1, <2>2, <2>3, TypeFrame DEF GraphError
<1>3. CASE EmitError
  <2>1. PlaceOK' /\ LocalsOK'
    BY <1>3, TypeOnwards DEF EmitError, Handling, PcStates, bus
  <2>2. BusOK'
    BY <1>3, StrikeType DEF EmitError, bus, BusOK
  <2> QED
    BY <1>3, <2>1, <2>2, TypeFrame DEF EmitError
<1>4. CASE LoseReply
  <2>1. /\ cursor + Len(NextEntries) \in Nat /\ cursor + Len(NextEntries) <= Len(stream)
        /\ Len(NextEntries) \in Nat
    BY <1>4, NextEntriesType, LenProperties DEF LoseReply, BusOK
  <2>2. BusOK'
    BY <1>4, <2>1, StrikeType DEF LoseReply, BusOK
  <2>3. PlaceOK'
    BY <1>4, <2>1 DEF LoseReply, PlaceOK, Handling, BusOK
  <2>4. LocalsOK'
    BY <1>4 DEF LoseReply, LocalsOK, Syncing, Announcing, locals, windowTables
  <2> QED
    BY <1>4, <2>2, <2>3, <2>4, TypeFrame DEF LoseReply
<1>5. CASE Crash
  <2>1. PlaceOK' /\ LocalsOK'
    BY <1>5, TypeLeave DEF Crash, bus
  <2>2. BusOK'
    BY <1>5, StrikeType DEF Crash, bus, BusOK
  <2> QED
    BY <1>5, <2>1, <2>2, TypeFrame DEF Crash
<1>6. CASE Cancel
  <2>1. PlaceOK' /\ LocalsOK'
    BY <1>6, TypeLeave DEF Cancel
  <2>2. acked' \subseteq Nat
    BY <1>6 DEF Cancel, BusOK, PlaceOK
  <2>3. BusOK'
    BY <1>6, <2>2, StrikeType DEF Cancel, BusOK
  <2> QED
    BY <1>6, <2>1, <2>3, TypeFrame DEF Cancel
<1> QED
  BY <1>1, <1>2, <1>3, <1>4, <1>5, <1>6

LEMMA TypeInit == Init => TypeInv
<1> SUFFICES ASSUME Init PROVE PartsOK
  BY TypeInvParts
<1>1. BusOK
  <2>1. grouped \in BOOLEAN
    BY Zenon DEF Init
  <2>2. stream = <<>> /\ cursor = 0 /\ acked = {} /\ faults = [k \in FaultKinds |-> 0]
    BY Zenon DEF Init
  <2> QED
    BY <2>1, <2>2 DEF BusOK
<1>2. PlaceOK
  BY DEF Init, PlaceOK, Handling, PcStates
<1>3. WindowTablesOK
  BY DEF Init, WindowTablesOK
<1>4. TasksOK /\ LocalsOK
  BY DEF Init, TasksOK, LocalsOK, Syncing, Announcing
<1>5. StoresOK
  BY DEF Init, StoresOK
<1> QED
  BY <1>1, <1>2, <1>3, <1>4, <1>5 DEF PartsOK

LEMMA TypeStep == TypeInv /\ [Next]_vars => TypeInv'
<1> SUFFICES ASSUME TypeInv, [Next]_vars PROVE TypeInv'
  OBVIOUS
<1>1. CASE UNCHANGED vars
  <2>1. PartsOK'
    BY <1>1, TypeInvParts
    DEF vars, bus, windowTables, stores, output, locals, PartsOK, BusOK,
        WindowTablesOK, TasksOK, StoresOK, PlaceOK, LocalsOK, Handling, Syncing, Announcing
  <2> QED
    BY <2>1, TypeInvParts
<1>2. CASE Next
  BY <1>2, TypeEnvironment, TypeLoop, TypePrepare, TypeCommit, TypeAnnounce, TypeFault
  DEF Next, Consume, Fault
<1> QED
  BY <1>1, <1>2

\* Every variable keeps its type, and the consumer is never at a step whose
\* command, row or interaction is missing.
THEOREM TypeCorrect == Spec => []TypeOK
<1>1. Spec => []TypeInv
  BY TypeInit, TypeStep, PTL DEF Spec
<1>2. TypeInv => TypeOK
  BY DEF TypeInv
<1> QED
  BY <1>1, <1>2, PTL

-----------------------------------------------------------------------------
(***************************************************************************)
(* Which steps can change what.                                            *)
(***************************************************************************)

\* The environment leaves the consumer where it is.
LEMMA EnvironmentEffect ==
  ASSUME TypeInv,
         (\E c \in Commands : Emit(c))
           \/ (\E t \in DOMAIN tasks, s \in Statuses : PatchTask(t, s))
  PROVE  /\ UNCHANGED <<windowTables, stores, output, pc, todo, entry, owner, taskIds,
                        interaction, faults>>
         /\ \A i \in 1..Len(stream) : stream'[i] = stream[i]
         /\ \/ UNCHANGED <<tasks, draft>>
            \/ \E t \in DOMAIN tasks, s \in Statuses : PatchTask(t, s)
<1>1. CASE \E c \in Commands : Emit(c)
  <2>1. PICK c \in Commands : Emit(c)
    BY <1>1
  <2>2. stream' = Append(stream, c) /\ stream \in Seq(Commands)
    BY <2>1 DEF Emit, TypeInv, TypeOK
  <2>3. \A i \in 1..Len(stream) : stream'[i] = stream[i]
    BY <2>2, AppendKeeps
  <2> QED
    BY <2>1, <2>3 DEF Emit, locals
<1>2. CASE \E t \in DOMAIN tasks, s \in Statuses : PatchTask(t, s)
  BY <1>2 DEF PatchTask, bus
<1> QED
  BY <1>1, <1>2

\* While a command is in hand it stays the same.
LEMMA CommandEffect ==
  ASSUME TypeInv, Next, Handling, Handling'
  PROVE  command' = command /\ win' = win /\ chat' = chat
<1>1. entry \in 1..Len(stream)
  BY DEF TypeInv, Control
<1>2. entry' = entry /\ stream'[entry] = stream[entry]
  <2>1. CASE (\E c \in Commands : Emit(c))
               \/ (\E t \in DOMAIN tasks, s \in Statuses : PatchTask(t, s))
    BY <1>1, <2>1, EnvironmentEffect
  <2>2. CASE Consume
    BY <2>2
    DEF Consume, Start, Fetch, Take, Check, Begin, SyncTask, PutArtifact, Commit, WriteGraph,
        EmitJob, EmitUpdate, Ack, Goto, Handling, bus
  <2>3. CASE Fault
    BY <2>3
    DEF Fault, Abort, LoseCommitReply, GraphError, EmitError, LoseReply, Crash, Cancel, Goto,
        Handling, bus
  <2> QED
    BY <2>1, <2>2, <2>3 DEF Next
<1>3. command' = command
  BY <1>2 DEF command
<1> QED
  BY <1>3 DEF win, chat

\* The tables of the transaction change by its COMMIT only.
LEMMA TablesEffect ==
  ASSUME TypeInv, Next
  PROVE  \/ UNCHANGED windowTables /\ SameRows(tasks', tasks)
         \/ /\ pc = "commit" /\ pc' \in {"graph", "ack"} /\ ApplyTransaction
            /\ UNCHANGED <<bus, stores, output, entry>>
            /\ pc' = "graph" => UNCHANGED faults
            /\ pc' = "ack" => Strike("error")
<1>1. CASE (\E c \in Commands : Emit(c))
             \/ (\E t \in DOMAIN tasks, s \in Statuses : PatchTask(t, s))
  BY <1>1, EnvironmentEffect, PatchEffect DEF SameRows
<1>2. CASE Consume
  BY <1>2
  DEF Consume, Start, Fetch, Take, Check, Begin, SyncTask, PutArtifact, Commit, WriteGraph,
      EmitJob, EmitUpdate, Ack, Goto, SameRows
<1>3. CASE Fault
  BY <1>3
  DEF Fault, Abort, LoseCommitReply, GraphError, EmitError, LoseReply, Crash, Cancel, Goto,
      SameRows
<1> QED
  BY <1>1, <1>2, <1>3 DEF Next

\* A transaction is entered from a check that found no mark.
LEMMA TransactionEffect ==
  ASSUME TypeInv, Next, InTransaction'
  PROVE  /\ Handling /\ UNCHANGED processed
         /\ InTransaction \/ command \notin processed
<1>1. CASE (\E c \in Commands : Emit(c))
             \/ (\E t \in DOMAIN tasks, s \in Statuses : PatchTask(t, s))
  BY <1>1, EnvironmentEffect DEF InTransaction, Handling, windowTables
<1>2. CASE Consume
  <2>1. CASE Check
    BY <2>1 DEF Check, Goto, windowTables, InTransaction, Handling, IsProcessed
  <2>2. CASE Begin \/ SyncTask \/ PutArtifact
    BY <2>2
    DEF Begin, SyncTask, PutArtifact, TasksSynced, Goto, windowTables, InTransaction, Handling
  <2>3. CASE Start \/ Fetch \/ Take \/ Commit \/ WriteGraph \/ EmitJob \/ EmitUpdate \/ Ack
    BY <2>3
    DEF Start, Fetch, Take, Commit, WriteGraph, EmitJob, EmitUpdate, Ack, Goto, InTransaction
  <2> QED
    BY <1>2, <2>1, <2>2, <2>3 DEF Consume
<1>3. CASE Fault
  BY <1>3
  DEF Fault, Abort, LoseCommitReply, GraphError, EmitError, LoseReply, Crash, Cancel, Goto,
      InTransaction
<1> QED
  BY <1>1, <1>2, <1>3 DEF Next

-----------------------------------------------------------------------------
(***************************************************************************)
(* A command is projected once, and its window holds it whole.             *)
(***************************************************************************)

\* Who writes the two streams, and how a step of the announcements goes on.
LEMMA OutputEffect ==
  ASSUME TypeInv, Next
  PROVE  /\ UNCHANGED jobs \/ EmitJob
         /\ UNCHANGED updates \/ EmitUpdate
         /\ Announcing' => \/ Commit
                           \/ /\ Announcing /\ UNCHANGED <<windowTables, interaction>>
                              /\ pc = "update" => pc' = "update"
                              /\ pc # "update" /\ pc' = "update" => EmitJob
                              /\ EmitJob => pc' = "update"
<1>1. CASE (\E c \in Commands : Emit(c))
             \/ (\E t \in DOMAIN tasks, s \in Statuses : PatchTask(t, s))
  <2>1. UNCHANGED <<windowTables, jobs, updates, pc, interaction>>
    BY <1>1, EnvironmentEffect DEF output
  <2> QED
    BY <2>1 DEF Announcing, EmitJob, Goto
<1>2. CASE Consume
  BY <1>2
  DEF Consume, Start, Fetch, Take, Check, Begin, SyncTask, PutArtifact, TasksSynced, Commit,
      WriteGraph, EmitJob, EmitUpdate, Ack, Goto, Announcing, output, locals
<1>3. CASE Fault
  BY <1>3
  DEF Fault, Abort, LoseCommitReply, GraphError, EmitError, LoseReply, Crash, Cancel, Goto,
      Announcing, output, locals, EmitJob
<1> QED
  BY <1>1, <1>2, <1>3 DEF Next

LEMMA MarkingStep ==
  ASSUME TypeInv, Marking, Next
  PROVE  Marking'
<1>1. ASSUME InTransaction'
      PROVE  command' \notin processed'
  <2>1. Handling /\ Handling' /\ processed' = processed
    BY <1>1, TransactionEffect DEF InTransaction, Handling
  <2>2. command' = command
    BY <2>1, CommandEffect
  <2> QED
    BY <1>1, <2>1, <2>2, TransactionEffect DEF Marking
<1>2. ProjectedOnce'
  <2>1. CASE UNCHANGED windowTables
    BY <2>1 DEF Marking, ProjectedOnce, Elements, windowTables
  <2>2. CASE pc = "commit" /\ ApplyTransaction
    <3>1. command \in Commands /\ command \notin processed
      BY <2>2, CommandType DEF Handling, Marking, InTransaction
    <3>2. audit \in Seq(Commands) /\ DOMAIN audit = 1..Len(audit) /\ Len(audit) \in Nat
      BY LenProperties DEF TypeInv, TypeOK
    <3>3. audit' = Append(audit, command) /\ processed' = processed \cup {command}
      BY <2>2 DEF ApplyTransaction
    <3>4. processed' = Elements(audit')
      BY <3>1, <3>2, <3>3, AppendElements DEF Marking, ProjectedOnce
    <3>5. /\ DOMAIN audit' = 1..(Len(audit) + 1)
          /\ \A i \in 1..Len(audit) : audit'[i] = audit[i]
          /\ audit'[Len(audit) + 1] = command
      BY <3>1, <3>2, <3>3, AppendKeeps
    <3>6. \A i \in 1..Len(audit) : audit[i] # command
      BY <3>1, <3>2 DEF Marking, ProjectedOnce, Elements
    <3>7. \A i, j \in DOMAIN audit' : audit'[i] = audit'[j] => i = j
      <4> SUFFICES ASSUME NEW i \in DOMAIN audit', NEW j \in DOMAIN audit',
                          audit'[i] = audit'[j]
                   PROVE  i = j
        OBVIOUS
      <4>1. \A k, l \in 1..Len(audit) : audit[k] = audit[l] => k = l
        BY <3>2 DEF Marking, ProjectedOnce
      <4> QED
        BY <3>2, <3>5, <3>6, <4>1
    <3>8. (processed = Elements(audit))'
      BY <3>4 DEF Elements
    <3> QED
      BY <3>7, <3>8 DEF ProjectedOnce
  <2> QED
    BY <2>1, <2>2, TablesEffect
<1>3. ASSUME Announcing'
      PROVE  command' \in processed'
  <2>1. CASE Commit
    BY <2>1 DEF Commit, ApplyTransaction, command, bus
  <2>2. CASE Announcing /\ UNCHANGED windowTables
    <3>1. command' = command
      BY <1>3, <2>2, CommandEffect DEF Announcing, Handling
    <3> QED
      BY <2>2, <3>1 DEF Marking, windowTables
  <2> QED
    BY <1>3, <2>1, <2>2, OutputEffect
<1> QED
  BY <1>1, <1>2, <1>3 DEF Marking

\* The last entry of a log is its last in every set it belongs to.
LEMMA LastInAppend ==
  ASSUME NEW S, NEW log \in Seq(S), NEW e \in S, NEW T
  PROVE  /\ e \in T => LastIn(Append(log, e), T, e)
         /\ \A c \in S : e \notin T /\ LastIn(log, T, c) => LastIn(Append(log, e), T, c)
         /\ e \notin T /\ Elements(log) \cap T = {} => Elements(Append(log, e)) \cap T = {}
<1>1. /\ DOMAIN Append(log, e) = 1..(Len(log) + 1) /\ DOMAIN log = 1..Len(log)
      /\ Len(log) \in Nat
      /\ \A i \in 1..Len(log) : Append(log, e)[i] = log[i]
      /\ Append(log, e)[Len(log) + 1] = e
  BY AppendKeeps, LenProperties
<1>2. e \in T => LastIn(Append(log, e), T, e)
  BY <1>1 DEF LastIn
<1>3. ASSUME NEW c \in S, e \notin T, LastIn(log, T, c)
      PROVE  LastIn(Append(log, e), T, c)
  <2>1. PICK i \in DOMAIN log : log[i] = c /\ \A j \in DOMAIN log : log[j] \in T => j <= i
    BY <1>3 DEF LastIn
  <2>2. i \in DOMAIN Append(log, e) /\ Append(log, e)[i] = c
    BY <1>1, <2>1
  <2>3. ASSUME NEW j \in DOMAIN Append(log, e), Append(log, e)[j] \in T
        PROVE  j <= i
    BY <1>1, <1>3, <2>1, <2>3
  <2> QED
    BY <1>3, <2>2, <2>3 DEF LastIn
<1>4. e \notin T /\ Elements(log) \cap T = {} => Elements(Append(log, e)) \cap T = {}
  BY AppendElements
<1> QED
  BY <1>2, <1>3, <1>4

LEMMA WindowWholeStep ==
  ASSUME TypeInv, WindowWhole, Next
  PROVE  WindowWhole'
<1>1. CASE UNCHANGED windowTables
  BY <1>1 DEF WindowWhole, LastIn, Elements, OfWindow, windowTables
<1>2. CASE pc = "commit" /\ ApplyTransaction
  <2>1. command \in Commands /\ win \in Windows
    BY <1>2, CommandType DEF Handling
  <2>2. audit \in Seq(Commands) /\ audit' = Append(audit, command)
    BY <1>2 DEF ApplyTransaction, TypeInv, TypeOK
  <2>3. /\ rows' = [rows EXCEPT ![win] = command]
        /\ facts' = [facts EXCEPT ![win] = {<<command, n>> : n \in 1..Claims[command]}]
        /\ signals' = [signals EXCEPT ![win] = {<<command, n>> : n \in 1..Signals[command]}]
    BY <1>2 DEF ApplyTransaction, ReplacedRows
  <2>4. /\ rows \in [Windows -> Commands \cup {None}]
        /\ facts \in [Windows -> SUBSET Content] /\ signals \in [Windows -> SUBSET Content]
        /\ None \notin Commands
    BY ProjectorAssumption DEF TypeInv, TypeOK
  <2> SUFFICES ASSUME NEW w \in Windows
               PROVE  IF rows'[w] = None
                      THEN /\ Elements(audit') \cap OfWindow(w) = {}
                           /\ facts'[w] = {} /\ signals'[w] = {}
                      ELSE /\ LastIn(audit', OfWindow(w), rows'[w])
                           /\ facts'[w] = {<<rows'[w], n>> : n \in 1..Claims[rows'[w]]}
                           /\ signals'[w] = {<<rows'[w], n>> : n \in 1..Signals[rows'[w]]}
    BY DEF WindowWhole, Elements, LastIn, OfWindow
  <2>5. CASE w = win
    <3>1. rows'[w] = command /\ command # None
      BY <2>1, <2>3, <2>4, <2>5
    <3>2. command \in OfWindow(w)
      BY <2>1, <2>5 DEF OfWindow, win
    <3>3. LastIn(audit', OfWindow(w), command)
      BY <2>1, <2>2, <3>2, LastInAppend
    <3>4. /\ facts'[w] = {<<command, n>> : n \in 1..Claims[command]}
          /\ signals'[w] = {<<command, n>> : n \in 1..Signals[command]}
      BY <2>1, <2>3, <2>4, <2>5
    <3> QED
      BY <3>1, <3>3, <3>4
  <2>6. CASE w # win
    <3>1. rows'[w] = rows[w] /\ facts'[w] = facts[w] /\ signals'[w] = signals[w]
      BY <2>1, <2>3, <2>4, <2>6
    <3>2. command \notin OfWindow(w)
      BY <2>6 DEF OfWindow, win
    <3>3. Elements(audit) \cap OfWindow(w) = {} => Elements(audit') \cap OfWindow(w) = {}
      BY <2>1, <2>2, <3>2, LastInAppend
    <3>4. rows[w] # None /\ LastIn(audit, OfWindow(w), rows[w]) =>
            LastIn(audit', OfWindow(w), rows[w])
      BY <2>1, <2>2, <2>4, <3>2, LastInAppend
    <3> QED
      BY <3>1, <3>3, <3>4 DEF WindowWhole
  <2> QED
    BY <2>5, <2>6
<1> QED
  BY <1>1, <1>2, TablesEffect

-----------------------------------------------------------------------------
(***************************************************************************)
(* A message is the evidence of one task.                                  *)
(***************************************************************************)

\* The transaction's view of the tasks starts as the table, and changes by the
\* loop only.
LEMMA DraftEffect ==
  ASSUME TypeInv, Next, Syncing'
  PROVE  \/ ~ Syncing /\ draft' = tasks /\ tasks' = tasks
         \/ SyncTask
         \/ Syncing /\ UNCHANGED <<draft, tasks>>
         \/ Syncing /\ \E t \in DOMAIN tasks, s \in Statuses : PatchTask(t, s)
<1>1. CASE (\E c \in Commands : Emit(c))
             \/ (\E t \in DOMAIN tasks, s \in Statuses : PatchTask(t, s))
  BY <1>1, EnvironmentEffect DEF Syncing
<1>2. CASE Consume
  <2>1. CASE Begin
    BY <2>1 DEF Begin, Goto, Syncing
  <2>2. CASE PutArtifact
    BY <2>2 DEF PutArtifact, TasksSynced, Syncing, locals
  <2>3. CASE Start \/ Fetch \/ Take \/ Check \/ Commit \/ WriteGraph \/ EmitJob \/ EmitUpdate
             \/ Ack
    BY <2>3
    DEF Start, Fetch, Take, Check, Commit, WriteGraph, EmitJob, EmitUpdate, Ack, Goto, Syncing
  <2> QED
    BY <1>2, <2>1, <2>2, <2>3 DEF Consume
<1>3. CASE Fault
  BY <1>3
  DEF Fault, Abort, LoseCommitReply, GraphError, EmitError, LoseReply, Crash, Cancel, Goto,
      Syncing
<1> QED
  BY <1>1, <1>2, <1>3 DEF Next

\* A row is found whenever there is one.
LEMMA FoundIfPresent ==
  ASSUME NEW e, FindTask(e) = {}
  PROVE  \A t \in DOMAIN draft : ~ (draft[t].chat = chat /\ draft[t].evidence = e)
<1> SUFFICES ASSUME NEW t \in DOMAIN draft, draft[t].chat = chat, draft[t].evidence = e
             PROVE  FALSE
  OBVIOUS
<1>1. CASE \E u \in DOMAIN draft :
             draft[u].chat = chat /\ draft[u].evidence = e /\ draft[u].owner # None
  BY <1>1 DEF FindTask
<1>2. CASE \A u \in DOMAIN draft :
             draft[u].chat = chat /\ draft[u].evidence = e => draft[u].owner = None
  BY <1>2 DEF FindTask
<1> QED
  BY <1>1, <1>2

LEMMA SyncTaskDistinct ==
  ASSUME TypeInv, SyncTask, Distinct(draft)
  PROVE  Distinct(draft')
<1> DEFINE e == Tasks[command][Len(taskIds) + 1]
           counterpart == IF Senders[win] = <<>> THEN None ELSE Senders[win][1]
           row == [chat |-> chat, evidence |-> e, by |-> command,
                   owner |-> owner, counterpart |-> counterpart, status |-> "open"]
           merged(t) == UpdatedRow(row, draft[t])
<1>1. draft \in Seq(TaskRows) /\ DOMAIN draft = 1..Len(draft) /\ Len(draft) \in Nat
  BY LenProperties DEF TypeInv, TypeOK
<1>2. CASE \E t \in FindTask(e) : draft' = [draft EXCEPT ![t] = merged(t)]
  <2>1. PICK t \in FindTask(e) : draft' = [draft EXCEPT ![t] = merged(t)]
    BY <1>2
  <2>2. t \in DOMAIN draft /\ draft[t].chat = chat /\ draft[t].evidence = e
    BY DEF FindTask
  <2>3. merged(t).chat = chat /\ merged(t).evidence = e
    BY DEF UpdatedRow
  <2>4. \A u \in DOMAIN draft' :
          u \in DOMAIN draft /\ draft'[u].chat = draft[u].chat
                             /\ draft'[u].evidence = draft[u].evidence
    <3> HIDE DEF merged
    <3> QED  BY <2>1, <2>2, <2>3
  <2> QED
    BY <2>4 DEF Distinct
<1>3. CASE FindTask(e) = {} /\ draft' = Append(draft, row)
  <2>1. Len(draft') = Len(draft) + 1 /\ DOMAIN draft' = 1..(Len(draft) + 1)
        /\ \A u \in 1..Len(draft) : draft'[u] = draft[u]
        /\ draft'[Len(draft) + 1] = row
    BY <1>1, <1>3
  <2>2. row.chat = chat /\ row.evidence = e
    OBVIOUS
  <2>3. \A u \in 1..Len(draft) : ~ (draft[u].chat = row.chat /\ draft[u].evidence = row.evidence)
    BY <1>1, <1>3, <2>2, FoundIfPresent
  <2> HIDE DEF row, e
  <2> SUFFICES ASSUME NEW t \in DOMAIN draft', NEW u \in DOMAIN draft',
                      draft'[t].chat = draft'[u].chat, draft'[t].evidence = draft'[u].evidence
               PROVE  t = u
    BY DEF Distinct
  <2> QED
    BY <1>1, <2>1, <2>3 DEF Distinct
<1> QED
  BY <1>2, <1>3 DEF SyncTask

LEMMA EvidenceStep ==
  ASSUME TypeInv, Evidence, Next
  PROVE  Evidence'
<1>1. Distinct(tasks)'
  <2>1. CASE SameRows(tasks', tasks)
    BY <2>1 DEF Evidence, Distinct, SameRows
  <2>2. CASE pc = "commit" /\ ApplyTransaction
    BY <2>2 DEF Evidence, Distinct, Syncing, ApplyTransaction
  <2> QED
    BY <2>1, <2>2, TablesEffect
<1>2. ASSUME Syncing'
      PROVE  Distinct(draft)'
  <2>1. CASE draft' = tasks
    BY <2>1 DEF Evidence, Distinct
  <2>2. CASE SyncTask
    <3>1. Distinct(draft)
      BY <2>2 DEF SyncTask, Syncing, Evidence
    <3>2. Distinct(draft')
      BY <2>2, <3>1, SyncTaskDistinct
    <3> QED
      BY <3>2 DEF Distinct
  <2>3. CASE Syncing /\ SameRows(draft', draft)
    BY <2>3 DEF Evidence, Distinct, SameRows
  <2> QED
    BY <1>2, <2>1, <2>2, <2>3, DraftEffect, PatchEffect DEF SameRows
<1> QED
  BY <1>1, <1>2 DEF Evidence

-----------------------------------------------------------------------------
(***************************************************************************)
(* The object of a window is never behind its row.                         *)
(***************************************************************************)

LEMMA ArtifactEffect ==
  ASSUME TypeInv, Next
  PROVE  \/ UNCHANGED artifact /\ (pc' = "commit" => pc = "commit")
         \/ /\ pc = "tasks" /\ StoreArtifact /\ pc' \in {"commit", "ack"}
            /\ UNCHANGED windowTables
<1>1. CASE (\E c \in Commands : Emit(c))
             \/ (\E t \in DOMAIN tasks, s \in Statuses : PatchTask(t, s))
  BY <1>1, EnvironmentEffect DEF stores
<1>2. CASE Consume
  BY <1>2
  DEF Consume, Start, Fetch, Take, Check, Begin, SyncTask, PutArtifact, TasksSynced, Commit,
      WriteGraph, EmitJob, EmitUpdate, Ack, Goto, stores
<1>3. CASE Fault
  BY <1>3
  DEF Fault, Abort, TasksSynced, LoseCommitReply, GraphError, EmitError, LoseReply, Crash,
      Cancel, Goto, stores
<1> QED
  BY <1>1, <1>2, <1>3 DEF Next

LEMMA ArtifactsStep ==
  ASSUME TypeInv, Marking, Artifacts, Next
  PROVE  Artifacts'
<1>1. artifact \in [Windows -> Commands \cup {None}] /\ rows \in [Windows -> Commands \cup {None}]
  BY DEF TypeInv, TypeOK
<1>2. CASE /\ pc = "tasks" /\ StoreArtifact /\ pc' \in {"commit", "ack"}
           /\ UNCHANGED windowTables
  <2>1. command \in Commands /\ win \in Windows /\ win = WindowOf[command]
    BY <1>2, CommandType DEF Handling, win
  <2>2. command \notin processed /\ command # None
    BY <1>2, <2>1, ProjectorAssumption DEF Marking, InTransaction
  <2>3. command' = command /\ win' = win
    BY <1>2, CommandEffect DEF Handling
  <2>4. rows' = rows /\ processed' = processed
    BY <1>2 DEF windowTables
  <2>5. CASE HasStore
    <3>1. artifact' = [artifact EXCEPT ![win] = command]
      BY <1>2, <2>5 DEF StoreArtifact
    <3>2. \A w \in Windows : artifact'[w] # None => WindowOf[artifact'[w]] = w
      BY <1>1, <2>1, <3>1 DEF Artifacts
    <3>3. artifact'[win'] = command'
      BY <1>1, <2>1, <2>3, <3>1
    <3>4. ArtifactNeverBehind'
      BY <1>1, <2>1, <2>2, <2>4, <3>1 DEF Artifacts, ArtifactNeverBehind
    <3> QED
      BY <3>2, <3>3, <3>4 DEF Artifacts
  <2>6. CASE ~ HasStore
    <3>1. artifact' = artifact
      BY <1>2, <2>6 DEF StoreArtifact
    <3> QED
      BY <2>6, <3>1 DEF Artifacts, ArtifactNeverBehind
  <2> QED
    BY <2>5, <2>6
<1>3. CASE UNCHANGED artifact /\ (pc' = "commit" => pc = "commit")
  <2>1. ASSUME pc' = "commit", HasStore
        PROVE  artifact'[win'] = command'
    <3>1. Handling /\ Handling' /\ pc = "commit"
      BY <1>3, <2>1 DEF Handling
    <3>2. command' = command /\ win' = win
      BY <3>1, CommandEffect
    <3> QED
      BY <1>3, <2>1, <3>1, <3>2 DEF Artifacts
  <2>2. ArtifactNeverBehind'
    <3>1. CASE UNCHANGED windowTables
      BY <1>3, <3>1 DEF Artifacts, ArtifactNeverBehind, windowTables
    <3>2. CASE pc = "commit" /\ ApplyTransaction
      <4>1. command \in Commands /\ win \in Windows /\ win = WindowOf[command]
            /\ command # None
        BY <3>2, CommandType, ProjectorAssumption DEF Handling, win
      <4>2. rows' = [rows EXCEPT ![win] = command] /\ processed' = processed \cup {command}
        BY <3>2 DEF ApplyTransaction
      <4> SUFFICES ASSUME HasStore, NEW w \in Windows, rows'[w] # None
                   PROVE  artifact'[w] = rows'[w] \/ artifact'[w] \notin processed' \cup {None}
        BY DEF ArtifactNeverBehind
      <4>3. CASE w = win
        BY <1>1, <1>3, <3>2, <4>1, <4>2, <4>3 DEF Artifacts
      <4>4. CASE w # win
        <5>1. rows'[w] = rows[w]
          BY <1>1, <4>1, <4>2, <4>4
        <5>2. artifact[w] = rows[w] \/ artifact[w] \notin processed \cup {None}
          BY <5>1 DEF Artifacts, ArtifactNeverBehind
        <5>3. artifact[w] # command
          BY <4>1, <4>4 DEF Artifacts
        <5> QED
          BY <1>3, <4>2, <5>1, <5>2, <5>3
      <4> QED
        BY <4>3, <4>4
    <3> QED
      BY <3>1, <3>2, TablesEffect
  <2> QED
    BY <1>3, <2>1, <2>2 DEF Artifacts
<1> QED
  BY <1>2, <1>3, ArtifactEffect

-----------------------------------------------------------------------------
(***************************************************************************)
(* A fault costs the emissions of one command at most.                     *)
(***************************************************************************)

LEMMA FaultCount ==
  ASSUME TypeInv
  PROVE  /\ AllFaults \in Nat
         /\ \A k \in FaultKinds : Strike(k) => AllFaults' = AllFaults + 1
         /\ UNCHANGED faults => AllFaults' = AllFaults
<1>1. faults \in [FaultKinds -> Nat]
  BY DEF TypeInv, TypeOK
<1>2. ASSUME NEW k \in FaultKinds, Strike(k)
      PROVE  AllFaults' = AllFaults + 1
  <2>1. faults' = [faults EXCEPT ![k] = @ + 1]
    BY <1>2 DEF Strike
  <2>2. CASE k = "error"
    BY <1>1, <2>1, <2>2 DEF AllFaults, FaultKinds
  <2>3. CASE k = "crash"
    BY <1>1, <2>1, <2>3 DEF AllFaults, FaultKinds
  <2> QED
    BY <2>2, <2>3 DEF FaultKinds
<1> QED
  BY <1>1, <1>2 DEF AllFaults, FaultKinds

LEMMA AnnouncedSame == UNCHANGED output => Announced' = Announced
  BY DEF Announced, Elements, output

\* What a step does to the commands that are committed, requested and in flight.
LEMMA UnannouncedEffect ==
  ASSUME TypeInv, Announcements, Next
  PROVE  \/ Unannounced' \subseteq Unannounced /\ AllFaults' \in Nat /\ AllFaults' >= AllFaults
         \/ Unannounced' \subseteq Unannounced \cup {command} /\ AllFaults' = AllFaults + 1
<1>0. /\ AllFaults \in Nat
      /\ Strike("error") \/ Strike("crash") => AllFaults' = AllFaults + 1
      /\ UNCHANGED faults => AllFaults' = AllFaults
  BY FaultCount DEF FaultKinds
<1>1. CASE UNCHANGED windowTables
  <2>1. Elements(audit') = Elements(audit)
    BY <1>1 DEF Elements, windowTables
  <2>2. CASE ~ Announcing /\ ~ Announcing'
    <3>1. InFlight = {} /\ InFlight' = {}
      BY <2>2 DEF InFlight, Announcing
    <3>2. UNCHANGED output /\ (UNCHANGED faults \/ Strike("error") \/ Strike("crash"))
      <4>1. CASE (\E c \in Commands : Emit(c))
                   \/ (\E t \in DOMAIN tasks, s \in Statuses : PatchTask(t, s))
        BY <4>1, EnvironmentEffect DEF output
      <4>2. CASE Consume
        BY <2>2, <4>2
        DEF Consume, Start, Fetch, Take, Check, Begin, SyncTask, PutArtifact, Commit,
            WriteGraph, EmitJob, EmitUpdate, Ack, Goto, Announcing, output
      <4>3. CASE Fault
        BY <4>3
        DEF Fault, Abort, LoseCommitReply, GraphError, EmitError, LoseReply, Crash, Cancel,
            output
      <4> QED
        BY <4>1, <4>2, <4>3 DEF Next
    <3>3. Unannounced' = Unannounced
      BY <2>1, <3>1, <3>2, AnnouncedSame DEF Unannounced
    <3>4. AllFaults' \in Nat /\ AllFaults' >= AllFaults
      BY <1>0, <3>2
    <3> QED
      BY <3>3, <3>4
  <2>3. CASE Announcing /\ Announcing'
    <3>1. command' = command
      BY <2>3, CommandEffect DEF Announcing, Handling
    <3>2. InFlight' = InFlight
      BY <2>3, <3>1 DEF InFlight, Announcing
    <3>3. Elements(jobs) \subseteq Elements(jobs')
      <4>1. jobs \in Seq(Commands) /\ command \in Commands
        BY <2>3, CommandType DEF TypeInv, TypeOK, Announcing, Handling
      <4>2. jobs' = jobs \/ jobs' = Append(jobs, command)
        <5>1. CASE (\E c \in Commands : Emit(c))
                     \/ (\E t \in DOMAIN tasks, s \in Statuses : PatchTask(t, s))
          BY <5>1, EnvironmentEffect DEF output
        <5>2. CASE Consume
          BY <2>3, <5>2
          DEF Consume, Start, Fetch, Take, Check, Begin, SyncTask, PutArtifact, Commit,
              WriteGraph, EmitJob, EmitUpdate, Ack, Goto, Announcing, output
        <5>3. CASE Fault
          BY <5>3
          DEF Fault, Abort, LoseCommitReply, GraphError, EmitError, LoseReply, Crash, Cancel,
              output
        <5> QED
          BY <5>1, <5>2, <5>3 DEF Next
      <4>3. CASE jobs' = jobs
        BY <4>3 DEF Elements
      <4>4. CASE jobs' = Append(jobs, command)
        BY <4>1, <4>4, AppendElements
      <4> QED
        BY <4>2, <4>3, <4>4
    <3>6. UNCHANGED updates
      <4>1. ~ EmitUpdate
        BY <2>3 DEF EmitUpdate, Goto, Announcing
      <4> QED
        BY <4>1, OutputEffect
    <3>7. Announced \subseteq Announced'
      BY <3>3, <3>6 DEF Announced
    <3>4. Unannounced' \subseteq Unannounced
      BY <2>1, <3>2, <3>7 DEF Unannounced
    <3>5. UNCHANGED faults \/ Strike("error")
      <4>1. CASE (\E c \in Commands : Emit(c))
                   \/ (\E t \in DOMAIN tasks, s \in Statuses : PatchTask(t, s))
        BY <4>1, EnvironmentEffect
      <4>2. CASE Consume
        BY <2>3, <4>2
        DEF Consume, Start, Fetch, Take, Check, Begin, SyncTask, PutArtifact, Commit,
            WriteGraph, EmitJob, EmitUpdate, Ack, Goto, Announcing
      <4>3. CASE Fault
        BY <2>3, <4>3
        DEF Fault, Abort, LoseCommitReply, GraphError, EmitError, LoseReply, Crash, Cancel,
            Announcing
      <4> QED
        BY <4>1, <4>2, <4>3 DEF Next
    <3> QED
      BY <1>0, <3>4, <3>5
  <2>4. CASE Announcing /\ ~ Announcing'
    <3>1. InFlight = {command} /\ InFlight' = {}
      BY <2>4 DEF InFlight, Announcing
    <3>2. EmitUpdate \/ (UNCHANGED output /\ (Strike("error") \/ Strike("crash")))
      <4>1. CASE (\E c \in Commands : Emit(c))
                   \/ (\E t \in DOMAIN tasks, s \in Statuses : PatchTask(t, s))
        BY <2>4, <4>1, EnvironmentEffect DEF Announcing
      <4>2. CASE EmitUpdate
        BY <4>2 DEF EmitUpdate
      <4>3. CASE Consume /\ ~ EmitUpdate
        <5>1. \/ Start \/ Fetch \/ Take \/ Check \/ Begin \/ SyncTask \/ PutArtifact \/ Commit
              \/ WriteGraph \/ EmitJob \/ Ack
          BY <4>3 DEF Consume
        <5> QED
          BY <2>4, <5>1
          DEF Start, Fetch, Take, Check, Begin, SyncTask, PutArtifact, TasksSynced, Commit,
              WriteGraph, EmitJob, Ack, Goto, Announcing
      <4>4. CASE Fault
        BY <4>4
        DEF Fault, Abort, LoseCommitReply, GraphError, EmitError, LoseReply, Crash, Cancel,
            output
      <4> QED
        BY <4>1, <4>2, <4>3, <4>4 DEF Next
    <3>3. CASE EmitUpdate
      <4>1. /\ command \in Elements(jobs) /\ UNCHANGED faults /\ UNCHANGED jobs
            /\ updates' = Append(updates, [id |-> interaction, by |-> command])
        BY <3>3 DEF EmitUpdate, Goto, Announcements
      <4>3. Announced \cup {command} \subseteq Announced'
        <5>1. updates \in Seq(Updates) /\ [id |-> interaction, by |-> command] \in Updates
          <6>1. Handling /\ Announcing
            BY <3>3 DEF EmitUpdate, Goto, Handling, Announcing
          <6>2. command \in Commands /\ interaction \in 1..Len(interactions)
                /\ Len(interactions) \in Nat
            BY <6>1, CommandType, LenProperties DEF TypeInv, TypeOK, Control
          <6>3. interaction \in Nat \ {0}
            BY <6>2
          <6> QED
            BY <6>2, <6>3 DEF TypeInv, TypeOK, Updates
        <5>2. /\ \A k \in DOMAIN updates : k \in DOMAIN updates' /\ updates'[k] = updates[k]
              /\ \E k \in DOMAIN updates' : updates'[k] = [id |-> interaction, by |-> command]
          BY <4>1, <5>1, AppendKeeps, LenProperties
        <5>3. Elements(jobs') = Elements(jobs)
          BY <4>1 DEF Elements
        <5> QED
          BY <4>1, <5>2, <5>3 DEF Announced
      <4>2. Unannounced' \subseteq Unannounced
        BY <2>1, <3>1, <4>3 DEF Unannounced
      <4> QED
        BY <1>0, <4>1, <4>2
    <3>4. CASE UNCHANGED output /\ (Strike("error") \/ Strike("crash"))
      <4>1. Unannounced' \subseteq Unannounced \cup {command}
        BY <2>1, <3>1, <3>4, AnnouncedSame DEF Unannounced
      <4> QED
        BY <1>0, <3>4, <4>1
    <3> QED
      BY <3>2, <3>3, <3>4
  <2>5. CASE ~ Announcing /\ Announcing'
    <3>1. Commit
      <4>1. CASE (\E c \in Commands : Emit(c))
                   \/ (\E t \in DOMAIN tasks, s \in Statuses : PatchTask(t, s))
        BY <2>5, <4>1, EnvironmentEffect DEF Announcing
      <4>2. CASE Consume
        BY <2>5, <4>2
        DEF Consume, Start, Fetch, Take, Check, Begin, SyncTask, PutArtifact,
            WriteGraph, EmitJob, EmitUpdate, Ack, Goto, Announcing
      <4>3. CASE Fault
        BY <2>5, <4>3
        DEF Fault, Abort, LoseCommitReply, GraphError, EmitError, LoseReply, Crash, Cancel,
            Goto, Announcing
      <4> QED
        BY <4>1, <4>2, <4>3 DEF Next
    <3>2. audit' = Append(audit, command) /\ audit' = audit
      BY <1>1, <3>1 DEF Commit, ApplyTransaction, windowTables
    <3>3. audit \in Seq(Commands) /\ command \in Commands
      BY <3>1, CommandType DEF Commit, Goto, Handling, TypeInv, TypeOK
    <3>4. Len(Append(audit, command)) = Len(audit) + 1 /\ Len(audit) \in Nat
      BY <3>3, AppendKeeps, LenProperties
    <3>5. Append(audit, command) = audit
      BY <3>2
    <3>6. FALSE
      BY <3>4, <3>5
    <3> QED
      BY <3>6
  <2> QED
    BY <2>2, <2>3, <2>4, <2>5
<1>2. CASE /\ pc = "commit" /\ pc' \in {"graph", "ack"} /\ ApplyTransaction
           /\ UNCHANGED <<bus, stores, output, entry>>
           /\ pc' = "graph" => UNCHANGED faults
           /\ pc' = "ack" => Strike("error")
  <2>1. audit \in Seq(Commands) /\ command \in Commands
    BY <1>2, CommandType DEF Handling, TypeInv, TypeOK
  <2>2. Elements(audit') = Elements(audit) \cup {command}
    BY <1>2, <2>1, AppendElements DEF ApplyTransaction
  <2>3. Announced' = Announced /\ InFlight = {} /\ command' = command
    BY <1>2, AnnouncedSame DEF bus, InFlight, command
  <2>4. CASE pc' = "graph"
    <3>1. InFlight' = {command}
      BY <2>3, <2>4 DEF InFlight
    <3>2. Unannounced' \subseteq Unannounced
      BY <2>2, <2>3, <3>1 DEF Unannounced
    <3> QED
      BY <1>0, <1>2, <2>4, <3>2
  <2>5. CASE pc' = "ack"
    <3>1. Unannounced' \subseteq Unannounced \cup {command}
      BY <2>2, <2>3 DEF Unannounced
    <3> QED
      BY <1>0, <1>2, <2>5, <3>1
  <2> QED
    BY <1>2, <2>4, <2>5
<1> QED
  BY <1>1, <1>2, TablesEffect

\* Entries are acknowledged that were handled.
LEMMA AckedStep ==
  ASSUME TypeInv, acked \subseteq DOMAIN stream, Next
  PROVE  acked' \subseteq DOMAIN stream'
<1>1. stream \in Seq(Commands) /\ DOMAIN stream = 1..Len(stream)
      /\ (Handling => entry \in DOMAIN stream)
  BY LenProperties DEF TypeInv, TypeOK, Control
<1>2. CASE \E c \in Commands : Emit(c)
  <2>1. PICK c \in Commands : Emit(c)
    BY <1>2
  <2>2. stream' = Append(stream, c) /\ acked' = acked
    BY <2>1 DEF Emit
  <2> QED
    BY <1>1, <2>2, AppendKeeps
<1>3. CASE \E t \in DOMAIN tasks, s \in Statuses : PatchTask(t, s)
  BY <1>3, PatchEffect DEF bus
<1>4. CASE Consume
  BY <1>1, <1>4
  DEF Consume, Start, Fetch, Take, Check, Begin, SyncTask, PutArtifact, Commit, WriteGraph,
      EmitJob, EmitUpdate, Ack, Goto, Handling, bus
<1>5. CASE Fault
  BY <1>1, <1>5
  DEF Fault, Abort, LoseCommitReply, GraphError, EmitError, LoseReply, Crash, Cancel, Goto,
      Handling, bus
<1> QED
  BY <1>2, <1>3, <1>4, <1>5 DEF Next

\* The entries that are acknowledged, or about to be.
SettledAt == IF pc = "ack" THEN acked \cup {entry} ELSE acked

\* What a step does to the commands that are given up unprojected.
LEMMA ForfeitedEffect ==
  ASSUME TypeInv, Marking, acked \subseteq DOMAIN stream, Next
  PROVE  \/ Forfeited' \subseteq Forfeited
         \/ Forfeited' \subseteq Forfeited \cup {command} /\ AllFaults' = AllFaults + 1
<1>1. /\ Strike("error") \/ Strike("crash") => AllFaults' = AllFaults + 1
      /\ processed \subseteq processed'
  BY FaultCount, TablesEffect DEF FaultKinds, windowTables, ApplyTransaction
<1>2. Settled = {stream[i] : i \in SettledAt} /\ Settled' = {stream'[i] : i \in SettledAt'}
  BY DEF Settled, SettledAt
<1>3. CASE (\E c \in Commands : Emit(c))
             \/ (\E t \in DOMAIN tasks, s \in Statuses : PatchTask(t, s))
  <2>1. SettledAt' = SettledAt /\ SettledAt \subseteq 1..Len(stream)
    <3>1. acked' = acked
      BY <1>3, PatchEffect DEF Emit, bus
    <3>2. pc = "ack" => entry \in 1..Len(stream)
      BY DEF TypeInv, Control, Handling
    <3>3. DOMAIN stream = 1..Len(stream)
      BY LenProperties DEF TypeInv, TypeOK
    <3> QED
      BY <1>3, <3>1, <3>2, <3>3, EnvironmentEffect DEF SettledAt
  <2>2. \A i \in SettledAt : stream'[i] = stream[i]
    BY <1>3, <2>1, EnvironmentEffect
  <2>3. Settled' = Settled
    BY <1>2, <2>1, <2>2
  <2> QED
    BY <1>1, <2>3 DEF Forfeited
<1>4. ASSUME UNCHANGED stream, SettledAt' \subseteq SettledAt
      PROVE  Forfeited' \subseteq Forfeited
  BY <1>1, <1>2, <1>4 DEF Forfeited
<1>5. ASSUME UNCHANGED stream, SettledAt' \subseteq SettledAt \cup {entry}
      PROVE  /\ Forfeited' \subseteq Forfeited \cup {command}
             /\ command \in processed' => Forfeited' \subseteq Forfeited
  <2>1. Settled' \subseteq Settled \cup {command}
    BY <1>2, <1>5 DEF command
  <2> QED
    BY <1>1, <2>1 DEF Forfeited
<1>6. CASE Consume
  <2>1. CASE Start \/ Fetch \/ Take \/ Begin \/ SyncTask \/ PutArtifact \/ Commit
             \/ WriteGraph \/ EmitJob \/ Ack
    <3>1. UNCHANGED stream /\ SettledAt' \subseteq SettledAt
      BY <2>1
      DEF Start, Fetch, Take, Begin, SyncTask, PutArtifact, TasksSynced, Commit, WriteGraph,
          EmitJob, Ack, Goto, bus, SettledAt
    <3> QED
      BY <1>4, <3>1
  <2>2. CASE Check \/ EmitUpdate
    <3>1. /\ UNCHANGED stream /\ SettledAt' \subseteq SettledAt \cup {entry}
          /\ pc' # "ack" => SettledAt' \subseteq SettledAt
          /\ pc' = "ack" => command \in processed
      BY <2>2 DEF Check, EmitUpdate, Goto, bus, SettledAt, IsProcessed, Marking, Announcing
    <3> QED
      BY <1>1, <1>4, <1>5, <3>1
  <2> QED
    BY <1>6, <2>1, <2>2 DEF Consume
<1>7. CASE Fault
  <2>1. CASE GraphError \/ LoseReply \/ Crash
    <3>1. UNCHANGED stream /\ SettledAt' \subseteq SettledAt
      BY <2>1 DEF GraphError, LoseReply, Crash, Goto, bus, SettledAt
    <3> QED
      BY <1>4, <3>1
  <2>2. CASE Abort \/ LoseCommitReply \/ EmitError \/ Cancel
    <3>1. /\ UNCHANGED stream /\ SettledAt' \subseteq SettledAt \cup {entry}
          /\ Strike("error") \/ Strike("crash")
      BY <2>2 DEF Abort, LoseCommitReply, EmitError, Cancel, bus, SettledAt
    <3> QED
      BY <1>1, <1>5, <3>1
  <2> QED
    BY <1>7, <2>1, <2>2 DEF Fault
<1> QED
  BY <1>3, <1>6, <1>7 DEF Next

LEMMA AnnouncementsStep ==
  ASSUME TypeInv, Marking, Announcements, Next
  PROVE  Announcements'
<1> DEFINE lost == Forfeited \cup Unannounced
<1>1. ASSUME pc' = "update"
      PROVE  command' \in Elements(jobs')
  <2>1. Handling'
    BY <1>1 DEF Handling
  <2>2. CASE EmitJob
    <3>1. jobs \in Seq(Commands) /\ command \in Commands /\ Handling
      BY <2>2, CommandType DEF EmitJob, Goto, Handling, TypeInv, TypeOK
    <3>2. jobs' = Append(jobs, command)
      BY <2>2 DEF EmitJob
    <3>3. command' = command
      BY <2>1, <3>1, CommandEffect
    <3> QED
      BY <3>1, <3>2, <3>3, AppendElements
  <2>3. CASE pc = "update" /\ jobs' = jobs
    <3>1. command' = command
      BY <2>1, <2>3, CommandEffect DEF Handling
    <3> QED
      BY <2>3, <3>1 DEF Announcements, Elements
  <2>4. EmitJob \/ (pc = "update" /\ jobs' = jobs)
    <3>1. CASE (\E c \in Commands : Emit(c))
                 \/ (\E t \in DOMAIN tasks, s \in Statuses : PatchTask(t, s))
      BY <1>1, <3>1, EnvironmentEffect DEF output
    <3>2. CASE Consume
      BY <1>1, <3>2
      DEF Consume, Start, Fetch, Take, Check, Begin, SyncTask, PutArtifact, TasksSynced,
          Commit, WriteGraph, EmitUpdate, Ack, Goto
    <3>3. CASE Fault
      BY <1>1, <3>3
      DEF Fault, Abort, LoseCommitReply, GraphError, EmitError, LoseReply, Crash, Cancel, Goto
    <3> QED
      BY <3>1, <3>2, <3>3 DEF Next
  <2> QED
    BY <2>2, <2>3, <2>4
<1>2. /\ IsFiniteSet(lost) /\ Cardinality(lost) \in Nat
      /\ Cardinality(lost) <= AllFaults /\ AllFaults \in Nat
  BY FS_CardinalityType, FaultCount
  DEF Announcements, CommandLossBound, Forfeited, Unannounced
<1>3. \/ lost' \subseteq lost /\ AllFaults' \in Nat /\ AllFaults' >= AllFaults
      \/ lost' \subseteq lost \cup {command} /\ AllFaults' = AllFaults + 1
  <2>1. \/ Forfeited' \subseteq Forfeited
        \/ Forfeited' \subseteq Forfeited \cup {command} /\ AllFaults' = AllFaults + 1
    BY ForfeitedEffect DEF Announcements
  <2> QED
    BY <1>2, <2>1, UnannouncedEffect
<1>4. IsFiniteSet(lost') /\ Cardinality(lost') <= AllFaults'
  <2> HIDE DEF lost
  <2>1. CASE lost' \subseteq lost /\ AllFaults' \in Nat /\ AllFaults' >= AllFaults
    <3>1. IsFiniteSet(lost') /\ Cardinality(lost') <= Cardinality(lost)
      BY <1>2, <2>1, FS_Subset
    <3>2. Cardinality(lost') \in Nat
      BY <3>1, FS_CardinalityType
    <3> QED
      BY <1>2, <2>1, <3>1, <3>2
  <2>2. CASE lost' \subseteq lost \cup {command} /\ AllFaults' = AllFaults + 1
    <3>1. IsFiniteSet(lost \cup {command}) /\ Cardinality(lost \cup {command}) <= Cardinality(lost) + 1
      <4>1. /\ IsFiniteSet(lost \cup {command})
            /\ Cardinality(lost \cup {command}) =
                 IF command \in lost THEN Cardinality(lost) ELSE Cardinality(lost) + 1
        BY <1>2, FS_AddElement, Zenon
      <4> QED
        BY <1>2, <4>1
    <3>2. IsFiniteSet(lost') /\ Cardinality(lost') <= Cardinality(lost \cup {command})
      <4>1. lost' \in SUBSET (lost \cup {command})
        BY <2>2
      <4> QED
        BY <3>1, <4>1, FS_Subset
    <3>3. Cardinality(lost') \in Nat /\ Cardinality(lost \cup {command}) \in Nat
      BY <3>1, <3>2, FS_CardinalityType
    <3> QED
      BY <1>2, <2>2, <3>1, <3>2, <3>3
  <2> QED
    BY <1>3, <2>1, <2>2
<1>5. acked' \subseteq DOMAIN stream'
  BY AckedStep DEF Announcements
<1> QED
  BY <1>1, <1>4, <1>5 DEF Announcements, CommandLossBound, Forfeited, Unannounced

\* The part of it that a search index can miss.
LEMMA UnannouncedBound ==
  ASSUME TypeInv, Announcements
  PROVE  IsFiniteSet(Unannounced) /\ Cardinality(Unannounced) <= AllFaults
<1>1. IsFiniteSet(Forfeited \cup Unannounced) /\ Cardinality(Forfeited \cup Unannounced) <= AllFaults
  BY DEF Announcements, CommandLossBound, Forfeited, Unannounced
<1>2. Unannounced \in SUBSET (Forfeited \cup Unannounced)
  OBVIOUS
<1>3. /\ IsFiniteSet(Unannounced)
      /\ Cardinality(Unannounced) <= Cardinality(Forfeited \cup Unannounced)
  BY <1>1, <1>2, FS_Subset
<1>4. Cardinality(Unannounced) \in Nat /\ Cardinality(Forfeited \cup Unannounced) \in Nat
  BY <1>1, <1>3, FS_CardinalityType
<1> QED
  BY <1>1, <1>3, <1>4, FaultCount

-----------------------------------------------------------------------------
(***************************************************************************)
(* What a transaction has collected of its tasks.                          *)
(***************************************************************************)

\* The ids change by the loop only, and are forgotten with the command.
LEMMA TaskIdsEffect ==
  ASSUME TypeInv, Next
  PROVE  \/ SyncTask
         \/ /\ taskIds' = taskIds
            /\ pc' \in {"off", "idle", "check", "begin"} =>
                 pc \in {"off", "idle", "check", "begin"}
            /\ pc' = "commit" => pc = "commit" \/ TasksSynced
            /\ Syncing' => pc = "begin" \/ Syncing
         \/ taskIds' = <<>> /\ pc' \in {"off", "idle"}
<1>1. CASE (\E c \in Commands : Emit(c))
             \/ (\E t \in DOMAIN tasks, s \in Statuses : PatchTask(t, s))
  BY <1>1, EnvironmentEffect DEF Syncing
<1>2. CASE Consume
  <2>1. CASE Ack
    BY <2>1 DEF Ack, Forget, Goto
  <2>2. CASE Start \/ Fetch \/ Take \/ Check \/ Begin \/ PutArtifact \/ Commit \/ WriteGraph
             \/ EmitJob \/ EmitUpdate
    BY <2>2
    DEF Start, Fetch, Take, Check, Begin, PutArtifact, TasksSynced, Commit, WriteGraph,
        EmitJob, EmitUpdate, Goto, locals, Syncing
  <2> QED
    BY <1>2, <2>1, <2>2 DEF Consume
<1>3. CASE Fault
  <2>1. CASE Crash \/ Cancel
    BY <2>1 DEF Crash, Cancel, Forget
  <2>2. CASE Abort \/ LoseCommitReply \/ GraphError \/ EmitError \/ LoseReply
    BY <2>2 DEF Abort, LoseCommitReply, GraphError, EmitError, LoseReply, Goto, locals, Syncing
  <2> QED
    BY <1>3, <2>1, <2>2 DEF Fault
<1> QED
  BY <1>1, <1>2, <1>3 DEF Next

\* One iteration of the loop.
LEMMA SyncTaskEffect ==
  ASSUME TypeInv, SyncTask
  PROVE  /\ DOMAIN draft \subseteq DOMAIN draft'
         /\ \A u \in DOMAIN draft :
              /\ draft'[u].chat = draft[u].chat /\ draft'[u].evidence = draft[u].evidence
              /\ draft'[u].status = draft[u].status
         /\ \E t \in DOMAIN draft' :
              /\ taskIds' = Append(taskIds, t) /\ t \in Nat \ {0}
              /\ draft'[t].chat = chat
              /\ draft'[t].evidence = Tasks[command][Len(taskIds) + 1]
<1> DEFINE e == Tasks[command][Len(taskIds) + 1]
           counterpart == IF Senders[win] = <<>> THEN None ELSE Senders[win][1]
           row == [chat |-> chat, evidence |-> e, by |-> command,
                   owner |-> owner, counterpart |-> counterpart, status |-> "open"]
           merged(t) == UpdatedRow(row, draft[t])
<1>1. draft \in Seq(TaskRows) /\ DOMAIN draft = 1..Len(draft) /\ Len(draft) \in Nat
  BY LenProperties DEF TypeInv, TypeOK
<1>2. CASE \E t \in FindTask(e) : /\ draft' = [draft EXCEPT ![t] = merged(t)]
                                  /\ taskIds' = Append(taskIds, t)
  <2>1. PICK t \in FindTask(e) : /\ draft' = [draft EXCEPT ![t] = merged(t)]
                                 /\ taskIds' = Append(taskIds, t)
    BY <1>2
  <2>2. t \in DOMAIN draft /\ draft[t].chat = chat /\ draft[t].evidence = e
    BY DEF FindTask
  <2>3. merged(t).chat = chat /\ merged(t).evidence = e /\ merged(t).status = draft[t].status
    BY DEF UpdatedRow
  <2>4. DOMAIN draft' = DOMAIN draft /\ t \in Nat \ {0}
    BY <1>1, <2>1, <2>2
  <2>5. \A u \in DOMAIN draft :
          /\ draft'[u].chat = draft[u].chat /\ draft'[u].evidence = draft[u].evidence
          /\ draft'[u].status = draft[u].status
    <3> HIDE DEF merged, e
    <3> QED  BY <2>1, <2>2, <2>3
  <2> QED
    BY <2>1, <2>2, <2>4, <2>5
<1>3. CASE /\ FindTask(e) = {} /\ draft' = Append(draft, row)
           /\ taskIds' = Append(taskIds, Len(draft) + 1)
  <2>1. DOMAIN draft' = 1..(Len(draft) + 1)
        /\ \A u \in 1..Len(draft) : draft'[u] = draft[u]
        /\ draft'[Len(draft) + 1] = row
    BY <1>1, <1>3
  <2>2. row.chat = chat /\ row.evidence = e
    OBVIOUS
  <2> HIDE DEF row, e
  <2>3. Len(draft) + 1 \in DOMAIN draft' /\ Len(draft) + 1 \in Nat \ {0}
    BY <1>1, <2>1
  <2>4. DOMAIN draft \subseteq DOMAIN draft'
    BY <1>1, <2>1
  <2> QED
    BY <1>1, <1>3, <2>1, <2>2, <2>3, <2>4 DEF e
<1> QED
  BY <1>2, <1>3 DEF SyncTask

\* What a transaction about to look at its tasks, or in the loop, sees of the table.
LEMMA DraftRows ==
  ASSUME TypeInv, Synced, Next, Syncing', NEW t \in DOMAIN tasks
  PROVE  /\ t \in DOMAIN tasks' /\ t \in DOMAIN draft'
         /\ draft'[t].chat = tasks'[t].chat /\ draft'[t].evidence = tasks'[t].evidence
         /\ draft'[t].status = tasks'[t].status
<1>1. CASE draft' = tasks /\ tasks' = tasks
  BY <1>1
<1>2. ASSUME Syncing
      PROVE  /\ t \in DOMAIN draft /\ draft[t].chat = tasks[t].chat
             /\ draft[t].evidence = tasks[t].evidence /\ draft[t].status = tasks[t].status
  <2>1. DOMAIN tasks = 1..Len(tasks) /\ Len(tasks) \in Nat
        /\ DOMAIN draft = 1..Len(draft) /\ Len(draft) \in Nat
    BY LenProperties DEF TypeInv, TypeOK
  <2>2. t \in DOMAIN draft
    BY <1>2, <2>1 DEF TypeInv, Control
  <2> QED
    BY <1>2, <2>2 DEF Synced
<1>3. CASE SyncTask
  <2>1. Syncing /\ tasks' = tasks
    BY <1>3 DEF SyncTask, Syncing
  <2> QED
    BY <1>2, <1>3, <2>1, SyncTaskEffect
<1>4. CASE Syncing /\ UNCHANGED <<draft, tasks>>
  BY <1>2, <1>4
<1>5. CASE Syncing /\ \E u \in DOMAIN tasks, s \in Statuses : PatchTask(u, s)
  <2>1. PICK u \in DOMAIN tasks, s \in Statuses : PatchTask(u, s)
    BY <1>5
  <2>2. /\ SameRows(tasks', tasks) /\ SameRows(draft', draft)
        /\ draft[t].status = tasks[t].status => draft'[t].status = tasks'[t].status
    BY <1>5, <2>1, PatchEffect
  <2> QED
    BY <1>2, <1>5, <2>2 DEF SameRows
<1> QED
  BY <1>1, <1>3, <1>4, <1>5, DraftEffect

LEMMA SyncedStep ==
  ASSUME TypeInv, Synced, Next
  PROVE  Synced'
<1>1. /\ taskIds \in Seq(Nat \ {0}) /\ Len(taskIds) \in Nat
      /\ DOMAIN taskIds = 1..Len(taskIds)
  BY LenProperties DEF TypeInv, TypeOK
<1>2. ASSUME pc' \in {"off", "idle", "check", "begin"}
      PROVE  taskIds' = <<>>
  <2>1. ~ SyncTask
    BY <1>2 DEF SyncTask
  <2> QED
    BY <1>2, <2>1, TaskIdsEffect DEF Synced
<1>3. ASSUME pc' = "commit"
      PROVE  Len(taskIds') = Len(Tasks[command'])
  <2>1. ~ SyncTask
    BY <1>3 DEF SyncTask
  <2>2. taskIds' = taskIds /\ (pc = "commit" \/ TasksSynced)
    BY <1>3, <2>1, TaskIdsEffect
  <2>3. command' = command
    BY <1>3, <2>2, CommandEffect DEF Handling, TasksSynced
  <2> QED
    BY <2>2, <2>3 DEF Synced, TasksSynced
<1>4. ASSUME Syncing'
      PROVE  DOMAIN tasks' = DOMAIN tasks /\ (pc = "begin" \/ Syncing)
  <2>1. DOMAIN tasks' = DOMAIN tasks
    BY <1>4, TablesEffect DEF Syncing, SameRows
  <2> QED
    BY <1>4, <2>1, TaskIdsEffect DEF Syncing, SyncTask
<1>5. ASSUME Syncing', NEW t \in DOMAIN tasks'
      PROVE  /\ draft'[t].chat = tasks'[t].chat /\ draft'[t].evidence = tasks'[t].evidence
             /\ draft'[t].status = tasks'[t].status
  BY <1>4, <1>5, DraftRows
<1>6. ASSUME Syncing', NEW n \in DOMAIN taskIds'
      PROVE  /\ taskIds'[n] \in DOMAIN draft'
             /\ draft'[taskIds'[n]].chat = chat'
             /\ draft'[taskIds'[n]].evidence = Tasks[command'][n]
  <2>1. command' = command /\ chat' = chat
    BY <1>4, <1>6, CommandEffect DEF Syncing, Handling
  <2>2. CASE SyncTask
    <3>1. Syncing
      BY <2>2 DEF SyncTask, Syncing
    <3>2. PICK t \in DOMAIN draft' :
            /\ taskIds' = Append(taskIds, t) /\ t \in Nat \ {0}
            /\ draft'[t].chat = chat
            /\ draft'[t].evidence = Tasks[command][Len(taskIds) + 1]
      BY <2>2, SyncTaskEffect
    <3>3. CASE n = Len(taskIds) + 1
      BY <1>1, <2>1, <3>2, <3>3, AppendKeeps
    <3>4. CASE n # Len(taskIds) + 1
      <4>1. n \in DOMAIN taskIds /\ taskIds'[n] = taskIds[n]
        BY <1>1, <3>2, <3>4, AppendKeeps
      <4>2. PICK u \in DOMAIN draft : /\ u = taskIds[n]
                                      /\ draft[u].chat = chat
                                      /\ draft[u].evidence = Tasks[command][n]
        BY <3>1, <4>1 DEF Synced
      <4>3. u \in DOMAIN draft' /\ draft'[u].chat = chat
                                /\ draft'[u].evidence = Tasks[command][n]
        BY <2>2, <4>2, SyncTaskEffect
      <4> QED
        BY <2>1, <4>1, <4>2, <4>3
    <3> QED
      BY <3>3, <3>4
  <2>3. CASE ~ SyncTask
    <3>1. taskIds' = taskIds
      BY <1>6, <2>3, TaskIdsEffect DEF Syncing
    <3>2. CASE pc = "begin"
      BY <1>6, <3>1, <3>2 DEF Synced
    <3>3. CASE Syncing
      <4>1. SameRows(draft', draft)
        BY <1>6, <2>3, <3>3, DraftEffect, PatchEffect DEF SameRows
      <4> QED
        BY <1>6, <2>1, <3>1, <3>3, <4>1 DEF Synced, SameRows
    <3> QED
      BY <1>4, <1>6, <3>2, <3>3
  <2> QED
    BY <2>2, <2>3
<1> QED
  BY <1>2, <1>3, <1>5, <1>6 DEF Synced

-----------------------------------------------------------------------------
(***************************************************************************)
(* Interactions.                                                           *)
(***************************************************************************)

\* One row is written by a COMMIT, and every row stands for the same chat and
\* start as before.
LEMMA UpsertEffect ==
  ASSUME TypeInv, pc = "commit", UpsertInteraction
  PROVE  /\ interaction' \in DOMAIN interactions'
         /\ interactions'[interaction'].chat = chat
         /\ interactions'[interaction'].start = StartOf[win]
         /\ interactions'[interaction'].by = command
         /\ interactions'[interaction'].tasks = taskIds
         /\ \A k \in DOMAIN interactions :
              /\ k \in DOMAIN interactions'
              /\ interactions'[k].chat = interactions[k].chat
              /\ interactions'[k].start = interactions[k].start
         /\ \A k \in DOMAIN interactions' : k # interaction' =>
              k \in DOMAIN interactions /\ interactions'[k] = interactions[k]
         /\ \/ interaction' \in DOMAIN interactions
            \/ \A k \in DOMAIN interactions :
                 ~ (interactions[k].chat = chat /\ interactions[k].start = StartOf[win])
<1> DEFINE row == [chat |-> chat, start |-> StartOf[win], by |-> command,
                   tasks |-> taskIds, stored |-> HasStore]
           merged(k) == [row EXCEPT !.stored = @ \/ interactions[k].stored]
<1>1. /\ interactions \in Seq(InteractionRows)
      /\ DOMAIN interactions = 1..Len(interactions) /\ Len(interactions) \in Nat
  BY LenProperties DEF TypeInv, TypeOK
<1>2. CASE \E k \in FindInteraction :
             interactions' = [interactions EXCEPT ![k] = merged(k)] /\ interaction' = k
  <2>1. PICK k \in FindInteraction :
          interactions' = [interactions EXCEPT ![k] = merged(k)] /\ interaction' = k
    BY <1>2
  <2>2. k \in DOMAIN interactions /\ interactions[k].chat = chat
                                  /\ interactions[k].start = StartOf[win]
    BY DEF FindInteraction
  <2>3. PICK r : r = merged(k)
    OBVIOUS
  <2>4. r.chat = chat /\ r.start = StartOf[win] /\ r.by = command /\ r.tasks = taskIds
    BY <2>3
  <2>5. interactions' = [interactions EXCEPT ![k] = r]
    BY <2>1, <2>3
  <2>6. DOMAIN interactions' = DOMAIN interactions /\ interactions'[k] = r
    BY <2>2, <2>5
  <2>7. \A l \in DOMAIN interactions : l # k => interactions'[l] = interactions[l]
    BY <2>5
  <2> QED
    BY <2>1, <2>2, <2>4, <2>6, <2>7
<1>3. CASE /\ FindInteraction = {}
           /\ interactions' = Append(interactions, row)
           /\ interaction' = Len(interactions) + 1
  <2>1. PICK r : r = row
    OBVIOUS
  <2>2. r.chat = chat /\ r.start = StartOf[win] /\ r.by = command /\ r.tasks = taskIds
    BY <2>1
  <2>3. /\ DOMAIN interactions' = 1..(Len(interactions) + 1)
        /\ interactions'[Len(interactions) + 1] = r
        /\ \A k \in 1..Len(interactions) : interactions'[k] = interactions[k]
    BY <1>1, <1>3, <2>1
  <2>4. \A k \in DOMAIN interactions :
          ~ (interactions[k].chat = chat /\ interactions[k].start = StartOf[win])
    BY <1>3 DEF FindInteraction
  <2> QED
    BY <1>1, <1>3, <2>2, <2>3, <2>4
<1> QED
  BY <1>2, <1>3 DEF UpsertInteraction

LEMMA InteractionsStep ==
  ASSUME TypeInv, Synced, InteractionsCoherent, Next
  PROVE  InteractionsCoherent'
<1>1. CASE UNCHANGED windowTables /\ SameRows(tasks', tasks)
  BY <1>1 DEF InteractionsCoherent, LastIn, Elements, OfInteraction, windowTables, SameRows
<1>2. CASE pc = "commit" /\ ApplyTransaction
  <2> USE <1>2
  <2>1. command \in Commands /\ win \in Windows /\ Tasks[command] \in Seq(Messages)
    BY CommandType DEF Handling
  <2>2. audit \in Seq(Commands) /\ audit' = Append(audit, command)
    BY DEF ApplyTransaction, TypeInv, TypeOK
  <2>3. PICK n : n = interaction'
    OBVIOUS
  <2>4. /\ n \in DOMAIN interactions'
        /\ interactions'[n].chat = chat /\ interactions'[n].start = StartOf[win]
        /\ interactions'[n].by = command /\ interactions'[n].tasks = taskIds
    BY <2>3, UpsertEffect DEF ApplyTransaction
  <2>5. \A k \in DOMAIN interactions :
          /\ k \in DOMAIN interactions'
          /\ interactions'[k].chat = interactions[k].chat
          /\ interactions'[k].start = interactions[k].start
    BY UpsertEffect DEF ApplyTransaction
  <2>6. \A k \in DOMAIN interactions' : k # n =>
          k \in DOMAIN interactions /\ interactions'[k] = interactions[k]
    BY <2>3, UpsertEffect DEF ApplyTransaction
  <2>7. \/ n \in DOMAIN interactions
        \/ \A k \in DOMAIN interactions :
             ~ (interactions[k].chat = chat /\ interactions[k].start = StartOf[win])
    BY <2>3, UpsertEffect DEF ApplyTransaction
  <2>8. ASSUME NEW k \in DOMAIN interactions', NEW l \in DOMAIN interactions',
               interactions'[k].chat = interactions'[l].chat,
               interactions'[k].start = interactions'[l].start
        PROVE  k = l
    <3>1. \A i \in DOMAIN interactions' : i # n =>
            ~ (interactions'[i].chat = chat /\ interactions'[i].start = StartOf[win])
      BY <2>4, <2>5, <2>6, <2>7 DEF InteractionsCoherent
    <3>2. CASE k = n \/ l = n
      BY <2>4, <2>8, <3>1, <3>2
    <3>3. CASE k # n /\ l # n
      BY <2>6, <2>8, <3>3 DEF InteractionsCoherent
    <3> QED
      BY <3>2, <3>3
  <2>9. Elements(audit') = Elements(audit) \cup {command}
    BY <2>1, <2>2, AppendElements
  <2>10. ASSUME NEW c \in Elements(audit')
         PROVE  \E k \in DOMAIN interactions' : c \in OfInteraction(interactions'[k])
    <3>1. CASE c = command
      BY <2>1, <2>4, <3>1 DEF OfInteraction, chat, win
    <3>2. CASE c \in Elements(audit)
      <4>1. PICK k \in DOMAIN interactions : c \in OfInteraction(interactions[k])
        BY <3>2 DEF InteractionsCoherent
      <4> QED
        BY <2>5, <4>1 DEF OfInteraction
    <3> QED
      BY <2>9, <3>1, <3>2
  <2>11. ASSUME NEW k \in DOMAIN interactions', NEW r, r = interactions'[k]
         PROVE  /\ LastIn(audit', OfInteraction(r), r.by)
                /\ Len(r.tasks) = Len(Tasks[r.by])
                /\ \A i \in DOMAIN r.tasks :
                     /\ r.tasks[i] \in DOMAIN tasks'
                     /\ tasks'[r.tasks[i]].chat = r.chat
                     /\ tasks'[r.tasks[i]].evidence = Tasks[r.by][i]
    <3>1. tasks' = draft /\ Syncing
      BY DEF ApplyTransaction, Syncing
    <3>2. CASE k = n
      <4>1. r.by = command /\ r.chat = chat /\ r.start = StartOf[win] /\ r.tasks = taskIds
        BY <2>4, <2>11, <3>2
      <4>2. command \in OfInteraction(r)
        BY <2>1, <4>1 DEF OfInteraction, chat, win
      <4>3. LastIn(audit', OfInteraction(r), r.by)
        BY <2>1, <2>2, <4>1, <4>2, LastInAppend
      <4>4. Len(r.tasks) = Len(Tasks[r.by])
        BY <4>1 DEF Synced
      <4> QED
        BY <3>1, <4>1, <4>3, <4>4 DEF Synced
    <3>3. CASE k # n
      <4>1. k \in DOMAIN interactions /\ r = interactions[k]
        BY <2>6, <2>11, <3>3
      <4>2. command \notin OfInteraction(r)
        <5>1. ~ (r.chat = chat /\ r.start = StartOf[win])
          BY <2>4, <2>8, <2>11, <3>3
        <5> QED
          BY <5>1 DEF OfInteraction, chat, win
      <4>3. r.by \in Commands
        <5>1. interactions \in Seq(InteractionRows) /\ interactions[k] \in InteractionRows
          BY <4>1 DEF TypeInv, TypeOK
        <5> QED
          BY <4>1, <5>1 DEF InteractionRows
      <4>4. LastIn(audit', OfInteraction(r), r.by)
        BY <2>1, <2>2, <4>1, <4>2, <4>3, LastInAppend DEF InteractionsCoherent
      <4>5. ASSUME NEW i \in DOMAIN r.tasks
            PROVE  /\ r.tasks[i] \in DOMAIN tasks'
                   /\ tasks'[r.tasks[i]].chat = r.chat
                   /\ tasks'[r.tasks[i]].evidence = Tasks[r.by][i]
        <5>1. PICK t : t = r.tasks[i]
          OBVIOUS
        <5>2. t \in DOMAIN tasks /\ tasks[t].chat = r.chat
                                 /\ tasks[t].evidence = Tasks[r.by][i]
          BY <4>1, <5>1 DEF InteractionsCoherent
        <5>3. DOMAIN tasks \subseteq DOMAIN draft
          <6>1. DOMAIN tasks = 1..Len(tasks) /\ Len(tasks) \in Nat
                /\ DOMAIN draft = 1..Len(draft) /\ Len(draft) \in Nat
            BY LenProperties DEF TypeInv, TypeOK
          <6> QED
            BY <3>1, <6>1 DEF TypeInv, Control
        <5> QED
          BY <3>1, <5>1, <5>2, <5>3 DEF Synced
      <4> QED
        BY <4>1, <4>4, <4>5 DEF InteractionsCoherent
    <3> QED
      BY <3>2, <3>3
  <2> QED
    BY <2>8, <2>10, <2>11 DEF InteractionsCoherent, LastIn, Elements, OfInteraction
<1> QED
  BY <1>1, <1>2, TablesEffect

-----------------------------------------------------------------------------
(***************************************************************************)
(* Announcements follow the commits.                                       *)
(***************************************************************************)

LEMMA LatestStep ==
  ASSUME TypeInv, Marking, Latest, EmissionsFollowCommits, Next
  PROVE  Latest'
<1> SUFFICES ASSUME Announcing'
             PROVE  /\ audit' # <<>> /\ audit'[Len(audit')] = command'
                    /\ command' \in OfInteraction(interactions'[interaction'])
                    /\ pc' # "update" => command' \notin Elements(jobs')
  BY DEF Latest, OfInteraction, Elements
<1>1. audit \in Seq(Commands) /\ jobs \in Seq(Commands)
  BY DEF TypeInv, TypeOK
<1>2. CASE Commit
  <2>1. pc = "commit" /\ ApplyTransaction /\ Handling /\ Handling'
    BY <1>2 DEF Commit, Goto, Handling
  <2>2. command' = command /\ command \in Commands
    BY <2>1, CommandEffect, CommandType
  <2>3. audit' = Append(audit, command)
    BY <2>1 DEF ApplyTransaction
  <2>4. audit' # <<>> /\ audit'[Len(audit')] = command
    BY <1>1, <2>2, <2>3, AppendKeeps
  <2>5. command \in OfInteraction(interactions'[interaction'])
    <3>1. interactions'[interaction'].chat = chat /\ interactions'[interaction'].start = StartOf[win]
      BY <2>1, UpsertEffect DEF ApplyTransaction
    <3> QED
      BY <2>2, <3>1 DEF OfInteraction, chat, win
  <2>6. command \notin Elements(jobs')
    <3>1. command \notin processed
      BY <2>1 DEF Marking, InTransaction
    <3>2. jobs' = jobs
      BY <1>2 DEF Commit, output
    <3> QED
      BY <3>1, <3>2 DEF EmissionsFollowCommits, Elements
  <2> QED
    BY <2>2, <2>4, <2>5, <2>6
<1>3. CASE /\ Announcing /\ UNCHANGED <<windowTables, interaction>>
           /\ pc = "update" => pc' = "update"
           /\ pc # "update" /\ pc' = "update" => EmitJob
           /\ EmitJob => pc' = "update"
  <2>1. command' = command
    BY <1>3, CommandEffect DEF Announcing, Handling
  <2>2. UNCHANGED <<audit, interactions, interaction>>
    BY <1>3 DEF windowTables
  <2>3. ASSUME pc' # "update"
        PROVE  command \notin Elements(jobs')
    <3>1. jobs' = jobs /\ pc # "update"
      BY <1>3, <2>3, OutputEffect
    <3> QED
      BY <1>3, <3>1 DEF Latest
  <2> QED
    BY <1>3, <2>1, <2>2, <2>3 DEF Latest
<1> QED
  BY <1>2, <1>3, OutputEffect

LEMMA EmissionsStep ==
  ASSUME TypeInv, Marking, Announcements, Latest, EmissionsFollowCommits, Next
  PROVE  EmissionsFollowCommits'
<1>1. /\ audit \in Seq(Commands) /\ jobs \in Seq(Commands) /\ updates \in Seq(Updates)
      /\ DOMAIN audit = 1..Len(audit) /\ Len(audit) \in Nat
      /\ DOMAIN jobs = 1..Len(jobs) /\ Len(jobs) \in Nat
      /\ DOMAIN updates = 1..Len(updates) /\ Len(updates) \in Nat
  BY LenProperties DEF TypeInv, TypeOK
<1>2. ASSUME NEW c \in processed
      PROVE  c \in processed'
  BY TablesEffect DEF ApplyTransaction, windowTables
<1>3. ASSUME NEW i \in DOMAIN audit
      PROVE  i \in DOMAIN audit' /\ audit'[i] = audit[i]
  <2>1. CASE UNCHANGED windowTables
    BY <2>1 DEF windowTables
  <2>2. CASE pc = "commit" /\ ApplyTransaction
    <3>1. command \in Commands /\ audit' = Append(audit, command)
      BY <2>2, CommandType DEF Handling, ApplyTransaction
    <3> QED
      BY <1>1, <3>1, AppendKeeps
  <2> QED
    BY <2>1, <2>2, TablesEffect
<1>4. ASSUME NEW k \in DOMAIN interactions
      PROVE  /\ k \in DOMAIN interactions'
             /\ OfInteraction(interactions'[k]) = OfInteraction(interactions[k])
  <2>1. CASE UNCHANGED windowTables
    BY <2>1 DEF windowTables
  <2>2. CASE pc = "commit" /\ ApplyTransaction
    <3>1. /\ k \in DOMAIN interactions'
          /\ interactions'[k].chat = interactions[k].chat
          /\ interactions'[k].start = interactions[k].start
      BY <2>2, UpsertEffect DEF ApplyTransaction
    <3> QED
      BY <3>1 DEF OfInteraction
  <2> QED
    BY <2>1, <2>2, TablesEffect
<1>5. ASSUME EmitJob
      PROVE  /\ jobs' = Append(jobs, command) /\ command \in Commands
             /\ command \in processed
             /\ Len(audit) \in DOMAIN audit /\ audit[Len(audit)] = command
             /\ command \notin Elements(jobs)
  <2>1. pc = "job" /\ Announcing /\ Handling /\ jobs' = Append(jobs, command)
    BY <1>5 DEF EmitJob, Goto, Announcing, Handling
  <2>2. audit # <<>> /\ audit[Len(audit)] = command /\ command \notin Elements(jobs)
    BY <2>1 DEF Latest
  <2>3. Len(audit) \in DOMAIN audit
    BY <1>1, <2>2, EmptySeq
  <2>4. command \in processed
    BY <2>2, <2>3 DEF Marking, ProjectedOnce, Elements
  <2> QED
    BY <2>1, <2>2, <2>3, <2>4, CommandType
<1>6. /\ \A k \in DOMAIN jobs' : jobs'[k] \in processed'
      /\ \A k, l \in DOMAIN jobs' : k < l =>
           \E i, j \in DOMAIN audit' : i < j /\ audit'[i] = jobs'[k] /\ audit'[j] = jobs'[l]
  <2>1. CASE UNCHANGED jobs
    <3>1. \A k \in DOMAIN jobs' : jobs'[k] \in processed'
      BY <1>2, <2>1 DEF EmissionsFollowCommits
    <3>2. ASSUME NEW k \in DOMAIN jobs', NEW l \in DOMAIN jobs', k < l
          PROVE  \E i, j \in DOMAIN audit' :
                   i < j /\ audit'[i] = jobs'[k] /\ audit'[j] = jobs'[l]
      <4>1. PICK i \in DOMAIN audit, j \in DOMAIN audit :
              i < j /\ audit[i] = jobs[k] /\ audit[j] = jobs[l]
        BY <2>1, <3>2 DEF EmissionsFollowCommits
      <4> QED
        BY <1>3, <2>1, <4>1
    <3> QED
      BY <3>1, <3>2
  <2>2. CASE EmitJob
    <3>1. /\ DOMAIN jobs' = 1..(Len(jobs) + 1) /\ jobs'[Len(jobs) + 1] = command
          /\ \A k \in 1..Len(jobs) : jobs'[k] = jobs[k]
      BY <1>1, <1>5, <2>2, AppendKeeps
    <3>2. \A k \in DOMAIN jobs' : jobs'[k] \in processed'
      BY <1>1, <1>2, <1>5, <2>2, <3>1 DEF EmissionsFollowCommits
    <3>3. ASSUME NEW k \in DOMAIN jobs', NEW l \in DOMAIN jobs', k < l
          PROVE  \E i, j \in DOMAIN audit' :
                   i < j /\ audit'[i] = jobs'[k] /\ audit'[j] = jobs'[l]
      <4>0. k \in DOMAIN jobs /\ jobs'[k] = jobs[k]
        BY <1>1, <3>1, <3>3
      <4>1. CASE l = Len(jobs) + 1
        <5>1. jobs[k] \in processed
          BY <4>0 DEF EmissionsFollowCommits
        <5>2. PICK i \in DOMAIN audit : audit[i] = jobs[k]
          BY <5>1 DEF Marking, ProjectedOnce, Elements
        <5>3. jobs[k] # command
          BY <1>5, <2>2, <4>0 DEF Elements
        <5>4. i < Len(audit)
          BY <1>1, <1>5, <2>2, <5>2, <5>3
        <5>5. Len(audit) \in DOMAIN audit /\ audit[Len(audit)] = command
          BY <1>5, <2>2
        <5> QED
          BY <1>3, <3>1, <4>0, <4>1, <5>2, <5>4, <5>5
      <4>2. CASE l # Len(jobs) + 1
        <5>1. l \in DOMAIN jobs /\ jobs'[l] = jobs[l]
          BY <1>1, <3>1, <4>2
        <5>2. PICK i \in DOMAIN audit, j \in DOMAIN audit :
                i < j /\ audit[i] = jobs[k] /\ audit[j] = jobs[l]
          BY <3>3, <4>0, <5>1 DEF EmissionsFollowCommits
        <5> QED
          BY <1>3, <4>0, <5>1, <5>2
      <4> QED
        BY <4>1, <4>2
    <3> QED
      BY <3>2, <3>3
  <2> QED
    BY <2>1, <2>2, OutputEffect
<1>7. Elements(jobs) \subseteq Elements(jobs')
  <2>1. CASE UNCHANGED jobs
    BY <2>1 DEF Elements
  <2>2. CASE EmitJob
    <3>1. jobs' = Append(jobs, command) /\ command \in Commands
      BY <1>5, <2>2
    <3> QED
      BY <1>1, <3>1, AppendElements
  <2> QED
    BY <2>1, <2>2, OutputEffect
<1>8. ASSUME NEW k \in DOMAIN updates'
      PROVE  /\ updates'[k].by \in Elements(jobs')
             /\ updates'[k].id \in DOMAIN interactions'
             /\ updates'[k].by \in OfInteraction(interactions'[updates'[k].id])
  <2>1. PICK u : u = updates'[k]
    OBVIOUS
  <2>2. /\ u.by \in Elements(jobs) /\ u.id \in DOMAIN interactions
        /\ u.by \in OfInteraction(interactions[u.id])
    <3>1. CASE k \in DOMAIN updates /\ updates'[k] = updates[k]
      BY <2>1, <3>1 DEF EmissionsFollowCommits
    <3>2. CASE EmitUpdate /\ k = Len(updates) + 1
      <4>1. pc = "update" /\ Announcing /\ updates' = Append(updates, [id |-> interaction, by |-> command])
        BY <3>2 DEF EmitUpdate, Goto, Announcing
      <4>2. u = [id |-> interaction, by |-> command]
        BY <1>1, <2>1, <3>2, <4>1
      <4>3. interaction \in DOMAIN interactions
        <5>1. DOMAIN interactions = 1..Len(interactions)
          BY LenProperties DEF TypeInv, TypeOK
        <5> QED
          BY <4>1, <5>1 DEF TypeInv, Control
      <4>4. command \in Elements(jobs) /\ command \in OfInteraction(interactions[interaction])
        BY <4>1 DEF Announcements, Latest
      <4> QED
        BY <4>2, <4>3, <4>4
    <3>3. (k \in DOMAIN updates /\ updates'[k] = updates[k]) \/ (EmitUpdate /\ k = Len(updates) + 1)
      <4>1. CASE UNCHANGED updates
        BY <4>1
      <4>2. CASE EmitUpdate
        <5>1. updates' = Append(updates, [id |-> interaction, by |-> command])
          BY <4>2 DEF EmitUpdate
        <5> QED
          BY <1>1, <4>2, <5>1
      <4> QED
        BY <4>1, <4>2, OutputEffect
    <3> QED
      BY <3>1, <3>2, <3>3
  <2> QED
    BY <1>4, <1>7, <2>1, <2>2
<1> QED
  BY <1>6, <1>7, <1>8 DEF EmissionsFollowCommits, Elements, OfInteraction

-----------------------------------------------------------------------------
(***************************************************************************)
(* The graph's weights.                                                    *)
(***************************************************************************)

\* Apart from a COMMIT, the weights, or what they are to count, change with
\* WriteGraph, and a handler leaves the graph without it by a fault.
LEMMA GraphEffect ==
  ASSUME TypeInv, Next
  PROVE  \/ pc = "commit" /\ ApplyTransaction
         \/ WriteGraph
         \/ /\ UNCHANGED <<windowTables, edges>> /\ pc' # "graph"
            /\ pc = "graph" => Strike("error") \/ Strike("crash")
            /\ UNCHANGED faults \/ Strike("error") \/ Strike("crash")
         \/ /\ UNCHANGED <<windowTables, edges, faults>> /\ pc' = "graph" /\ pc = "graph"
<1>1. CASE (\E c \in Commands : Emit(c))
             \/ (\E t \in DOMAIN tasks, s \in Statuses : PatchTask(t, s))
  <2>1. UNCHANGED <<windowTables, edges, faults, pc>>
    BY <1>1, EnvironmentEffect DEF stores
  <2> QED
    BY <2>1
<1>2. CASE Consume
  BY <1>2
  DEF Consume, Start, Fetch, Take, Check, Begin, SyncTask, PutArtifact, TasksSynced, Commit,
      EmitJob, EmitUpdate, Ack, Goto, stores
<1>3. CASE Fault
  BY <1>3
  DEF Fault, Abort, LoseCommitReply, GraphError, EmitError, LoseReply, Crash, Cancel, Goto,
      stores
<1> QED
  BY <1>1, <1>2, <1>3 DEF Next

\* The meetings of two people are finitely many.
LEMMA MeetingsFinite ==
  ASSUME NEW log \in Seq(Commands), NEW e
  PROVE  IsFiniteSet(MeetingsIn(log, e)) /\ Cardinality(MeetingsIn(log, e)) \in Nat
<1>1. DOMAIN log = 1..Len(log) /\ Len(log) \in Nat
  BY LenProperties
<1>2. IsFiniteSet(1..Len(log))
  BY <1>1, FS_Interval
<1>3. MeetingsIn(log, e) \subseteq 1..Len(log)
  BY <1>1 DEF MeetingsIn
<1>4. IsFiniteSet(MeetingsIn(log, e))
  BY <1>2, <1>3, FS_Subset
<1> QED
  BY <1>4, FS_CardinalityType

\* A log that has grown by one has at most one more of them.
LEMMA MeetingsOfAppend ==
  ASSUME NEW log \in Seq(Commands), NEW c \in Commands, NEW e
  PROVE  Cardinality(MeetingsIn(Append(log, c), e)) =
           Cardinality(MeetingsIn(log, e)) + (IF e \in Met(WindowOf[c]) THEN 1 ELSE 0)
<1>1. /\ DOMAIN log = 1..Len(log) /\ Len(log) \in Nat
      /\ DOMAIN Append(log, c) = 1..(Len(log) + 1)
      /\ \A i \in 1..Len(log) : Append(log, c)[i] = log[i]
      /\ Append(log, c)[Len(log) + 1] = c
  BY AppendKeeps, LenProperties
<1>2. IsFiniteSet(MeetingsIn(log, e)) /\ Cardinality(MeetingsIn(log, e)) \in Nat
  BY MeetingsFinite
<1>3. CASE e \in Met(WindowOf[c])
  <2>1. MeetingsIn(Append(log, c), e) = MeetingsIn(log, e) \cup {Len(log) + 1}
    BY <1>1, <1>3 DEF MeetingsIn
  <2>2. Len(log) + 1 \notin MeetingsIn(log, e)
    BY <1>1 DEF MeetingsIn
  <2>3. Cardinality(MeetingsIn(log, e) \cup {Len(log) + 1}) = Cardinality(MeetingsIn(log, e)) + 1
    BY <1>2, <2>2, FS_AddElement
  <2> QED
    BY <1>3, <2>1, <2>3
<1>4. CASE e \notin Met(WindowOf[c])
  <2>1. MeetingsIn(Append(log, c), e) = MeetingsIn(log, e)
    BY <1>1, <1>4 DEF MeetingsIn
  <2> QED
    BY <1>2, <1>4, <2>1
<1> QED
  BY <1>3, <1>4

LEMMA WeightsStep ==
  ASSUME TypeInv, Weights, Next
  PROVE  Weights'
<1> SUFFICES ASSUME NEW e \in Pairs
             PROVE  /\ edges'[e] + Unwritten(e)' <= Cardinality(Meetings(e)')
                    /\ HasGraph => Cardinality(Meetings(e)') <=
                                     edges'[e] + AllFaults' + Unwritten(e)'
  BY DEF Weights
<1>1. /\ edges \in [Pairs -> Nat] /\ edges[e] \in Nat
      /\ audit \in Seq(Commands) /\ DOMAIN audit = 1..Len(audit) /\ Len(audit) \in Nat
  BY LenProperties DEF TypeInv, TypeOK
<1>2. /\ AllFaults \in Nat
      /\ Strike("error") \/ Strike("crash") => AllFaults' = AllFaults + 1
      /\ UNCHANGED faults => AllFaults' = AllFaults
  BY FaultCount DEF FaultKinds
<1>3. PICK m : m = Cardinality(Meetings(e))
  OBVIOUS
<1>4. m \in Nat
  BY <1>1, <1>3, MeetingsFinite DEF Meetings
<1>5. /\ edges[e] + Unwritten(e) <= m
      /\ HasGraph => m <= edges[e] + AllFaults + Unwritten(e)
      /\ Unwritten(e) \in {0, 1}
  BY <1>3 DEF Weights, Unwritten
<1>6. UNCHANGED windowTables => Cardinality(Meetings(e)') = m
  BY <1>3 DEF windowTables, Meetings, MeetingsIn
<1>7. CASE pc = "commit" /\ ApplyTransaction
  <2>1. command \in Commands /\ audit' = Append(audit, command)
    BY <1>7, CommandType DEF Handling, ApplyTransaction
  <2>6. ~ UNCHANGED audit
    <3> SUFFICES ASSUME audit' = audit PROVE FALSE
      OBVIOUS
    <3>1. Len(Append(audit, command)) = Len(audit) + 1
      BY <1>1, <2>1, AppendKeeps
    <3>2. Append(audit, command) = audit
      BY <2>1
    <3> QED
      BY <1>1, <3>1, <3>2
  <2>2. Cardinality(Meetings(e)') = m + (IF e \in Met(win) THEN 1 ELSE 0)
    <3>1. Meetings(e)' = MeetingsIn(Append(audit, command), e)
      BY <2>1 DEF Meetings, MeetingsIn
    <3> QED
      BY <1>1, <1>3, <2>1, <3>1, MeetingsOfAppend DEF Meetings, win
  <2>3. Unwritten(e) = 0
    BY <1>7 DEF Unwritten
  <2>4. edges' = edges
    <3>1. \/ UNCHANGED windowTables
          \/ UNCHANGED stores
      BY TablesEffect
    <3> QED
      BY <2>6, <3>1 DEF windowTables, stores
  <2>5. \/ Unwritten(e)' = (IF e \in Met(win) THEN 1 ELSE 0) /\ AllFaults' = AllFaults
        \/ Unwritten(e)' = 0 /\ AllFaults' = AllFaults + 1
    <3>2. CASE pc' = "graph" /\ UNCHANGED faults
      <4>1. win' = win
        BY <1>7, <3>2, CommandEffect DEF Handling
      <4> QED
        BY <1>2, <3>2, <4>1 DEF Unwritten
    <3>3. CASE pc' = "ack" /\ Strike("error")
      BY <1>2, <3>3 DEF Unwritten
    <3> QED
      BY <2>6, <3>2, <3>3, TablesEffect DEF windowTables
  <2> QED
    BY <1>1, <1>2, <1>4, <1>5, <2>2, <2>3, <2>4, <2>5
<1>8. CASE WriteGraph
  <2>1. /\ pc = "graph" /\ pc' = "job" /\ UNCHANGED <<windowTables, faults>>
        /\ edges' = IF HasGraph
                    THEN [f \in Pairs |-> IF f \in Met(win) THEN edges[f] + 1 ELSE edges[f]]
                    ELSE edges
    BY <1>8 DEF WriteGraph, Goto
  <2>2. Unwritten(e)' = 0 /\ Unwritten(e) = IF e \in Met(win) THEN 1 ELSE 0
    BY <2>1 DEF Unwritten
  <2>3. \/ HasGraph /\ edges'[e] = edges[e] + Unwritten(e)
        \/ ~ HasGraph /\ edges'[e] = edges[e]
    BY <1>1, <2>1, <2>2
  <2> QED
    BY <1>1, <1>2, <1>4, <1>5, <1>6, <2>1, <2>2, <2>3
<1>9. CASE /\ UNCHANGED <<windowTables, edges>> /\ pc' # "graph"
           /\ pc = "graph" => Strike("error") \/ Strike("crash")
           /\ UNCHANGED faults \/ Strike("error") \/ Strike("crash")
  <2>1. Unwritten(e)' = 0 /\ (pc # "graph" => Unwritten(e) = 0)
    BY <1>9 DEF Unwritten
  <2>2. AllFaults' \in Nat /\ AllFaults + Unwritten(e) <= AllFaults'
    BY <1>2, <1>5, <1>9, <2>1
  <2> QED
    BY <1>1, <1>2, <1>4, <1>5, <1>6, <1>9, <2>1, <2>2
<1>10. CASE UNCHANGED <<windowTables, edges, faults>> /\ pc' = "graph" /\ pc = "graph"
  <2>1. win' = win
    BY <1>10, CommandEffect DEF Handling
  <2>2. Unwritten(e)' = Unwritten(e)
    BY <1>10, <2>1 DEF Unwritten
  <2> QED
    BY <1>2, <1>5, <1>6, <1>10, <2>2
<1> QED
  BY <1>7, <1>8, <1>9, <1>10, GraphEffect

-----------------------------------------------------------------------------
(***************************************************************************)
(* The invariant and its consequences.                                     *)
(***************************************************************************)

LEMMA InvInit == Init => Inv
<1> SUFFICES ASSUME Init PROVE Inv
  OBVIOUS
<1>1. TypeInv
  BY TypeInit
<1>2. Elements(audit) = {} /\ processed = {} /\ audit = <<>>
  BY DEF Init, Elements
<1>3. Marking
  BY <1>2 DEF Init, Marking, InTransaction, Announcing, ProjectedOnce
<1>4. WindowWhole
  BY <1>2 DEF Init, WindowWhole
<1>5. Evidence
  BY DEF Init, Evidence, Distinct, Syncing
<1>6. Artifacts
  BY DEF Init, Artifacts, ArtifactNeverBehind
<1>7. Announcements
  <2>1. Forfeited \cup Unannounced = {} /\ acked = {}
    BY <1>2 DEF Init, Forfeited, Settled, Unannounced
  <2>2. AllFaults = 0
    BY DEF Init, AllFaults, FaultKinds
  <2>3. pc # "update"
    BY DEF Init
  <2>4. IsFiniteSet(Forfeited \cup Unannounced) /\ Cardinality(Forfeited \cup Unannounced) = 0
    BY <2>1, FS_EmptySet, Zenon
  <2>5. CommandLossBound
    BY <2>2, <2>4, SMT DEF CommandLossBound, Forfeited, Unannounced
  <2> QED
    BY <2>1, <2>3, <2>4, <2>5 DEF Announcements
<1> QED
  BY <1>1, <1>3, <1>4, <1>5, <1>6, <1>7 DEF Inv

LEMMA InvStutter ==
  ASSUME Inv, UNCHANGED vars
  PROVE  Inv'
<1> USE DEF vars, bus, windowTables, stores, output, locals
<1>1. TypeInv'
  BY TypeStep DEF Inv
<1>2. command' = command /\ win' = win
  BY DEF command, win
<1>3. Marking' /\ WindowWhole'
  BY <1>2 DEF Inv, Marking, InTransaction, Announcing, ProjectedOnce, WindowWhole, LastIn,
              OfWindow, Elements
<1>4. Evidence'
  BY DEF Inv, Evidence, Distinct, Syncing
<1>5. Artifacts'
  BY <1>2 DEF Inv, Artifacts, ArtifactNeverBehind
<1>6. Announcements'
  <2>1. InFlight' = InFlight /\ AllFaults' = AllFaults
    BY <1>2 DEF InFlight, AllFaults
  <2>2. Elements(audit)' = Elements(audit) /\ Announced' = Announced
    BY AnnouncedSame DEF Elements
  <2>3. Unannounced' = Unannounced /\ Forfeited' = Forfeited
    BY <2>1, <2>2 DEF Unannounced, Forfeited, Settled
  <2> QED
    BY <1>2, <2>1, <2>2, <2>3
    DEF Inv, Announcements, CommandLossBound, Forfeited, Unannounced, Elements
<1> QED
  BY <1>1, <1>3, <1>4, <1>5, <1>6 DEF Inv

LEMMA InvStep == Inv /\ [Next]_vars => Inv'
<1> SUFFICES ASSUME Inv, [Next]_vars PROVE Inv'
  OBVIOUS
<1>1. CASE Next
  <2>1. TypeInv'
    BY <1>1, TypeStep DEF Inv
  <2>2. Marking' /\ WindowWhole' /\ Evidence' /\ Artifacts' /\ Announcements'
    BY <1>1, MarkingStep, WindowWholeStep, EvidenceStep, ArtifactsStep, AnnouncementsStep
    DEF Inv
  <2> QED
    BY <2>1, <2>2 DEF Inv
<1>2. CASE UNCHANGED vars
  BY <1>2, InvStutter
<1> QED
  BY <1>1, <1>2

\* The invariant holds in every state the projector can reach.
THEOREM Invariance == Spec => []Inv
  BY InvInit, InvStep, PTL DEF Spec

\* A command is projected at most once, however often it is delivered and
\* wherever its handler was interrupted, and marked exactly when it is.
THEOREM ProjectedOnceHolds == Spec => []ProjectedOnce
<1>1. Inv => ProjectedOnce
  BY DEF Inv, Marking
<1> QED
  BY <1>1, Invariance, PTL

\* A window's row, facts and signals are those of the last command committed
\* for it.
THEOREM WindowWholeHolds == Spec => []WindowWhole
<1>1. Inv => WindowWhole
  BY DEF Inv
<1> QED
  BY <1>1, Invariance, PTL

\* No two tasks of a chat rest on one message, whatever was projected and
\* reprocessed.
THEOREM OneTaskPerEvidenceHolds == Spec => []OneTaskPerEvidence
<1>1. Inv => OneTaskPerEvidence
  BY DEF Inv, Evidence, Distinct, OneTaskPerEvidence
<1> QED
  BY <1>1, Invariance, PTL

\* The S3 object of a window is never older than its row.
THEOREM ArtifactNeverBehindHolds == Spec => []ArtifactNeverBehind
<1>1. Inv => ArtifactNeverBehind
  BY DEF Inv, Artifacts
<1> QED
  BY <1>1, Invariance, PTL

\* Each fault, of any number of them, costs at most one command: acknowledged
\* unprojected, or committed without one of its emissions.
THEOREM CommandLossBoundHolds == Spec => []CommandLossBound
<1>1. Inv => CommandLossBound
  BY DEF Inv, Announcements
<1> QED
  BY <1>1, Invariance, PTL

-----------------------------------------------------------------------------
(***************************************************************************)
(* Interactions, announcements and weights: Inv /\ Records is inductive.   *)
(***************************************************************************)

LEMMA RecordsInit == Init => Records
<1> SUFFICES ASSUME Init PROVE Records
  OBVIOUS
<1>1. /\ pc = "off" /\ taskIds = <<>> /\ audit = <<>> /\ interactions = <<>>
      /\ jobs = <<>> /\ updates = <<>> /\ \A e \in Pairs : edges[e] = 0
  BY DEF Init
<1>2. Synced /\ Latest
  BY <1>1 DEF Synced, Latest, Syncing, Announcing
<1>3. InteractionsCoherent
  BY <1>1 DEF InteractionsCoherent, Elements
<1>4. EmissionsFollowCommits
  BY <1>1 DEF EmissionsFollowCommits
<1>5. Weights
  <2> SUFFICES ASSUME NEW e \in Pairs
               PROVE  /\ edges[e] + Unwritten(e) <= Cardinality(Meetings(e))
                      /\ HasGraph => Cardinality(Meetings(e)) <=
                                       edges[e] + AllFaults + Unwritten(e)
    BY DEF Weights
  <2>1. Meetings(e) = {}
    BY <1>1 DEF Meetings, MeetingsIn
  <2>2. Cardinality(Meetings(e)) = 0
    BY <2>1, FS_EmptySet
  <2>3. Unwritten(e) = 0 /\ edges[e] = 0 /\ AllFaults = 0
    BY <1>1 DEF Unwritten, Init, AllFaults, FaultKinds
  <2> QED
    BY <2>2, <2>3
<1> QED
  BY <1>2, <1>3, <1>4, <1>5 DEF Records

LEMMA RecordsStutter ==
  ASSUME Records, UNCHANGED vars
  PROVE  Records'
<1> USE DEF vars, bus, windowTables, stores, output, locals
<1>1. command' = command /\ win' = win /\ chat' = chat
  BY DEF command, win, chat
<1>2. Synced'
  BY <1>1 DEF Records, Synced, Syncing
<1>3. InteractionsCoherent' /\ Latest'
  BY <1>1 DEF Records, InteractionsCoherent, Latest, LastIn, Elements, OfInteraction, Announcing
<1>4. EmissionsFollowCommits'
  BY DEF Records, EmissionsFollowCommits, Elements, OfInteraction
<1>5. Weights'
  <2>1. AllFaults' = AllFaults
    BY DEF AllFaults
  <2>2. \A e : Meetings(e)' = Meetings(e) /\ Unwritten(e)' = Unwritten(e)
    BY <1>1 DEF Meetings, MeetingsIn, Unwritten
  <2>3. edges' = edges
    OBVIOUS
  <2> QED
    BY <2>1, <2>2, <2>3 DEF Records, Weights
<1> QED
  BY <1>2, <1>3, <1>4, <1>5 DEF Records

LEMMA RecordsStep == Inv /\ Records /\ [Next]_vars => Records'
<1> SUFFICES ASSUME Inv, Records, [Next]_vars PROVE Records'
  OBVIOUS
<1>1. CASE Next
  BY <1>1, SyncedStep, InteractionsStep, LatestStep, EmissionsStep, WeightsStep DEF Inv, Records
<1>2. CASE UNCHANGED vars
  BY <1>2, RecordsStutter
<1> QED
  BY <1>1, <1>2

LEMMA RecordsInvariance == Spec => []Records
  BY RecordsInit, RecordsStep, Invariance, PTL DEF Spec

\* No commit of a projection reopens a task that the admin closed, before or
\* while its transaction was open, or puts an open one for its message beside it.
THEOREM ClosedStaysClosedHolds == Spec => ClosedStaysClosed
<1>1. Inv /\ Records /\ [Next]_vars =>
        [audit' # audit =>
           \A t \in DOMAIN tasks : tasks[t].status # "open" =>
             \A u \in DOMAIN tasks' :
               tasks'[u].chat = tasks[t].chat /\ tasks'[u].evidence = tasks[t].evidence
                 => tasks'[u].status = tasks[t].status]_vars
  <2> SUFFICES ASSUME Inv, Records, Next, audit' # audit, NEW t \in DOMAIN tasks,
                      NEW u \in DOMAIN tasks', tasks'[u].chat = tasks[t].chat,
                      tasks'[u].evidence = tasks[t].evidence
               PROVE  tasks'[u].status = tasks[t].status
    OBVIOUS
  <2>1. pc = "commit" /\ ApplyTransaction
    BY TablesEffect DEF Inv, windowTables
  <2>2. tasks' = draft /\ Syncing /\ Distinct(draft)
    BY <2>1 DEF ApplyTransaction, Syncing, Inv, Evidence
  <2>3. t \in DOMAIN draft
    <3>1. DOMAIN tasks = 1..Len(tasks) /\ Len(tasks) \in Nat
          /\ DOMAIN draft = 1..Len(draft) /\ Len(draft) \in Nat
      BY LenProperties DEF Inv, TypeInv, TypeOK
    <3> QED
      BY <2>2, <3>1 DEF Inv, TypeInv, Control
  <2>4. /\ draft[t].chat = tasks[t].chat /\ draft[t].evidence = tasks[t].evidence
        /\ draft[t].status = tasks[t].status
    BY <2>2 DEF Records, Synced
  <2>5. u = t
    BY <2>2, <2>3, <2>4 DEF Distinct
  <2> QED
    BY <2>2, <2>4, <2>5
<1> QED
  BY <1>1, Invariance, RecordsInvariance, PTL DEF Spec, ClosedStaysClosed

\* One interaction per chat and start, holding what was committed last for them
\* and listing tasks of its own messages, whatever windows share it and whatever
\* is reprocessed.
THEOREM InteractionsCoherentHolds == Spec => []InteractionsCoherent
<1>1. Records => InteractionsCoherent
  BY DEF Records
<1> QED
  BY <1>1, RecordsInvariance, PTL

\* What is announced is committed, is announced in the order of the commits, and
\* the interaction after the embedding job.
THEOREM EmissionsFollowCommitsHolds == Spec => []EmissionsFollowCommits
<1>1. Records => EmissionsFollowCommits
  BY DEF Records
<1> QED
  BY <1>1, RecordsInvariance, PTL

\* A weight in the graph counts the committed windows in which two people met,
\* less at most one for each fault.
THEOREM EdgeWeightsHolds == Spec => []EdgeWeights
<1>1. ASSUME Inv, Records
      PROVE  EdgeWeights
  <2> SUFFICES ASSUME NEW e \in Pairs
               PROVE  /\ edges[e] <= Cardinality(Meetings(e))
                      /\ HasGraph => Cardinality(Meetings(e)) <=
                                       edges[e] + AllFaults + Cardinality(InFlight)
    BY DEF EdgeWeights, Meetings, MeetingsIn
  <2>1. edges[e] \in Nat /\ AllFaults \in Nat
    BY <1>1, FaultCount DEF Inv, TypeInv, TypeOK
  <2>2. /\ edges[e] + Unwritten(e) <= Cardinality(Meetings(e))
        /\ HasGraph => Cardinality(Meetings(e)) <= edges[e] + AllFaults + Unwritten(e)
    BY <1>1 DEF Records, Weights
  <2>3. Unwritten(e) \in {0, 1} /\ (pc # "graph" => Unwritten(e) = 0)
    BY DEF Unwritten
  <2>4. Cardinality(InFlight) \in Nat /\ (pc = "graph" => Cardinality(InFlight) = 1)
    <3>1. InFlight = {} \/ InFlight = {command}
      BY DEF InFlight
    <3>2. pc = "graph" => InFlight = {command}
      BY DEF InFlight
    <3>3. Cardinality({}) = 0 /\ Cardinality({command}) = 1
      BY FS_EmptySet, FS_Singleton
    <3> QED
      BY <3>1, <3>2, <3>3
  <2>5. Cardinality(Meetings(e)) \in Nat
    <3>1. audit \in Seq(Commands)
      BY <1>1 DEF Inv, TypeInv, TypeOK
    <3> QED
      BY <3>1, MeetingsFinite DEF Meetings
  <2> QED
    BY <2>1, <2>2, <2>3, <2>4, <2>5
<1> QED
  BY <1>1, Invariance, RecordsInvariance, PTL

-----------------------------------------------------------------------------
(***************************************************************************)
(* Projector and indexer together.  The indexer's theorems are used as     *)
(* they are, through an instance of their module.                          *)
(***************************************************************************)
Ix == INSTANCE EmbeddingIndexerProofs WITH
  Jobs <- Commands, PointOf <- WindowOf, Models <- {EmbeddingModel},
  ModelOf <- [c \in Commands |-> EmbeddingModel], Dim <- [m \in {EmbeddingModel} |-> 1],
  BatchSize <- IndexBatch, MaxJobs <- 0, MaxFaults <- IndexFaults,
  grouped <- ixGrouped, cursor <- ixCursor, acked <- ixAcked, model <- ixModel,
  pc <- ixPc, todo <- ixTodo, entry <- ixEntry, faults <- ixFaults

LEMMA IxAssumption == Ix!IndexerAssumption
  BY ProjectorAssumption, PipelineAssumption DEF Ix!IndexerAssumption, Ix!FaultKinds, FaultKinds

PipelineInv == Inv /\ Records /\ Ix!Inv

\* What the indexer does is a step of the indexer, and a step of the projector
\* is one of its environment.
LEMMA SearchIsStep == Indexer!Index => Ix!Step
<1> USE DEF Indexer!bus, Ix!bus, Indexer!qdrant, Ix!qdrant, Indexer!Goto, Ix!Goto,
            Indexer!Strike, Ix!Strike, Indexer!NextEntries, Ix!NextEntries
<1>1. Indexer!Start => Ix!Start
  BY DEF Indexer!Start, Ix!Start
<1>2. Indexer!Probe => Ix!Probe
  BY DEF Indexer!Probe, Ix!Probe
<1>3. Indexer!EnsureCollection => Ix!EnsureCollection
  BY DEF Indexer!EnsureCollection, Ix!EnsureCollection
<1>4. Indexer!EnsureAlias => Ix!EnsureAlias
  BY DEF Indexer!EnsureAlias, Ix!EnsureAlias
<1>5. Indexer!Fetch => Ix!Fetch
  BY DEF Indexer!Fetch, Ix!Fetch
<1>6. Indexer!Take => Ix!Take
  BY DEF Indexer!Take, Ix!Take
<1>7. Indexer!Embed => Ix!Embed
  BY DEF Indexer!Embed, Ix!Embed
<1>8. (Indexer!Fits <=> Ix!Fits) /\ (Indexer!Write <=> Ix!Write)
  BY DEF Indexer!Fits, Ix!Fits, Indexer!Write, Ix!Write, Indexer!job, Ix!job
<1>9. Indexer!Upsert => Ix!Upsert
  BY <1>8 DEF Indexer!Upsert, Ix!Upsert
<1>10. Indexer!Ack => Ix!Ack
  BY DEF Indexer!Ack, Ix!Ack
<1>11. Indexer!Error => Ix!Error
  BY <1>8 DEF Indexer!Error, Ix!Error
<1>12. Indexer!LoseReply => Ix!LoseReply
  BY DEF Indexer!LoseReply, Ix!LoseReply
<1>13. Indexer!Crash => Ix!Crash
  BY DEF Indexer!Crash, Ix!Crash
<1>14. Indexer!Cancel => Ix!Cancel
  BY DEF Indexer!Cancel, Ix!Cancel
<1>15. Indexer!Redeploy => Ix!Redeploy
  BY DEF Indexer!Redeploy, Ix!Redeploy
<1> QED
  BY <1>1, <1>2, <1>3, <1>4, <1>5, <1>6, <1>7, <1>9, <1>10, <1>11, <1>12, <1>13, <1>14, <1>15
  DEF Indexer!Index, Indexer!Consume, Indexer!Fault, Ix!Step, Ix!Index, Ix!Consume, Ix!Fault

LEMMA ProjectIsStep ==
  ASSUME Inv, [Next]_vars, UNCHANGED indexer
  PROVE  [Ix!Step]_(Ix!vars)
<1>1. jobs' = jobs \/ (EmitJob /\ Next)
  BY OutputEffect DEF Inv, vars, output
<1>2. CASE jobs' = jobs
  BY <1>2 DEF indexer, Ix!vars, Ix!bus, Ix!qdrant
<1>3. CASE EmitJob /\ Next
  <2>1. command \in Commands /\ jobs' = Append(jobs, command)
    BY <1>3, CommandType DEF Inv, EmitJob, Goto, Handling
  <2>2. Ix!Request(command)
    BY <2>1 DEF indexer, Ix!Request, Ix!qdrant
  <2> QED
    BY <2>1, <2>2 DEF Ix!Step
<1> QED
  BY <1>1, <1>2, <1>3

\* A step of the pipeline is one of each service, or of one and of nothing the
\* other has.
LEMMA PipelineSteps ==
  ASSUME PipelineInv, [NextPipeline]_<<vars, indexer>>
  PROVE  /\ [Next]_vars /\ [Ix!Step]_(Ix!vars)
         /\ UNCHANGED indexer \/ (Indexer!Index /\ UNCHANGED <<projectorOnly, jobs>>)
<1>1. CASE Project \/ UNCHANGED <<vars, indexer>>
  <2>1. [Next]_vars /\ UNCHANGED indexer
    BY <1>1 DEF Project
  <2> QED
    BY <2>1, ProjectIsStep DEF PipelineInv
<1>2. CASE Search
  <2>1. jobs' = jobs
    BY <1>2 DEF Search, Indexer!Index, Indexer!Consume, Indexer!Fault, Indexer!Start, Indexer!Probe,
       Indexer!EnsureCollection, Indexer!EnsureAlias, Indexer!Fetch, Indexer!Take, Indexer!Embed,
       Indexer!Upsert, Indexer!Ack, Indexer!Error, Indexer!LoseReply, Indexer!Crash,
       Indexer!Cancel, Indexer!Redeploy, Indexer!bus
  <2>2. UNCHANGED vars
    BY <1>2, <2>1 DEF Search, projectorOnly, vars, output
  <2> QED
    BY <1>2, <2>1, <2>2, SearchIsStep DEF Search
<1> QED
  BY <1>1, <1>2 DEF NextPipeline

LEMMA PipelineInit == InitPipeline => PipelineInv
<1> SUFFICES ASSUME InitPipeline PROVE PipelineInv
  OBVIOUS
<1>1. Inv /\ Records
  BY InvInit, RecordsInit DEF InitPipeline
<1>2. Ix!Init
  BY DEF InitPipeline, Init, Indexer!InitIndexer, Ix!Init, Ix!InitIndexer, Indexer!Points, Ix!Points,
     Indexer!FaultKinds, Ix!FaultKinds
<1>3. Ix!Inv
  BY <1>2, IxAssumption, Ix!InvInit
<1> QED
  BY <1>1, <1>3 DEF PipelineInv

LEMMA PipelineStep == PipelineInv /\ [NextPipeline]_<<vars, indexer>> => PipelineInv'
<1> SUFFICES ASSUME PipelineInv, [NextPipeline]_<<vars, indexer>> PROVE PipelineInv'
  OBVIOUS
<1>1. [Next]_vars /\ [Ix!Step]_(Ix!vars)
  BY PipelineSteps
<1>2. Inv' /\ Records'
  BY <1>1, InvStep, RecordsStep DEF PipelineInv
<1>3. Ix!Inv'
  BY <1>1, IxAssumption, Ix!InvStep DEF PipelineInv
<1> QED
  BY <1>2, <1>3 DEF PipelineInv

LEMMA PipelineInvariance == PipelineSpec => []PipelineInv
  BY PipelineInit, PipelineStep, PTL DEF PipelineSpec

\* Each service keeps its types in the other's company: the stream it shares with
\* the other is all it sees of it.
THEOREM PipelineTypeCorrect == PipelineSpec => [](TypeOK /\ Indexer!TypeOK)
<1>1. PipelineInv => TypeOK /\ Indexer!TypeOK
  <2> SUFFICES ASSUME PipelineInv PROVE TypeOK /\ Indexer!TypeOK
    OBVIOUS
  <2>1. TypeOK /\ Ix!TypeOK
    BY DEF PipelineInv, Inv, TypeInv, Ix!Inv, Ix!TypeInv
  <2> QED
    BY <2>1 DEF Ix!TypeOK, Indexer!TypeOK, Ix!Points, Indexer!Points, Ix!PcStates, Indexer!PcStates,
       Ix!FaultKinds, Indexer!FaultKinds
<1> QED
  BY <1>1, PipelineInvariance, PTL

\* What search shows of a window is a job of that window that has been delivered,
\* and one of its commits.
Position(w) == points[alias][w]

Versioned ==
  \A w \in Windows :
    IF Indexed(w)
    THEN /\ w \in Ix!Points
         /\ alias = EmbeddingModel
         /\ Position(w) \in DOMAIN jobs
         /\ Found(w) = jobs[Position(w)] /\ WindowOf[Found(w)] = w
         /\ VersionFound(w) \in DOMAIN audit /\ audit[VersionFound(w)] = Found(w)
    ELSE VersionFound(w) = 0

LEMMA IndexedFacts ==
  ASSUME Ix!Inv, NEW w \in Windows, Indexed(w)
  PROVE  /\ w \in Ix!Points /\ alias = EmbeddingModel
         /\ points[EmbeddingModel][w] \in 1..ixCursor
         /\ points[EmbeddingModel][w] \in DOMAIN jobs
         /\ WindowOf[jobs[points[EmbeddingModel][w]]] = w
<1>1. w \in Ix!Points /\ alias = EmbeddingModel
  BY DEF Indexed, Indexer!Points, Ix!Points, Ix!Inv, Ix!TypeInv, Ix!TypeOK
<1> DEFINE i == points[EmbeddingModel][w]
<1>2. i \in Nat
  BY <1>1 DEF Ix!Inv, Ix!TypeInv, Ix!TypeOK
<1>3. i # 0
  BY <1>1 DEF Indexed
<1>4. i <= ixCursor /\ WindowOf[jobs[i]] = w
  <2>1. EmbeddingModel \in {EmbeddingModel}
    OBVIOUS
  <2> QED
    BY <1>1, <1>3, <2>1 DEF Ix!Inv, Ix!PointsSound
<1>5. /\ ixCursor \in Nat /\ ixCursor <= Len(jobs) /\ Len(jobs) \in Nat
      /\ DOMAIN jobs = 1..Len(jobs)
  BY LenProperties DEF Ix!Inv, Ix!TypeInv, Ix!TypeOK, Ix!Control
<1> HIDE DEF i
<1>6. i \in 1..ixCursor /\ i \in DOMAIN jobs
  BY <1>2, <1>3, <1>4, <1>5
<1> QED
  BY <1>1, <1>4, <1>6 DEF i

LEMMA VersionedHolds == PipelineInv => Versioned
<1> SUFFICES ASSUME PipelineInv, NEW w \in Windows
             PROVE  IF Indexed(w)
                    THEN /\ w \in Ix!Points
                         /\ alias = EmbeddingModel
                         /\ Position(w) \in DOMAIN jobs
                         /\ Found(w) = jobs[Position(w)] /\ WindowOf[Found(w)] = w
                         /\ VersionFound(w) \in DOMAIN audit /\ audit[VersionFound(w)] = Found(w)
                    ELSE VersionFound(w) = 0
  BY DEF Versioned
<1>1. CASE ~ Indexed(w)
  BY <1>1 DEF VersionFound
<1>2. CASE Indexed(w)
  <2>1. /\ w \in Ix!Points /\ alias = EmbeddingModel
        /\ points[EmbeddingModel][w] \in DOMAIN jobs
        /\ WindowOf[jobs[points[EmbeddingModel][w]]] = w
    BY <1>2, IndexedFacts DEF PipelineInv
  <2>2. Found(w) = jobs[Position(w)] /\ Position(w) = points[EmbeddingModel][w]
    BY <1>2, <2>1 DEF Found, Position
  <2>3. Found(w) \in Elements(audit)
    BY <2>1, <2>2 DEF PipelineInv, Inv, Marking, ProjectedOnce, Records, EmissionsFollowCommits
  <2>4. \E i \in DOMAIN audit : audit[i] = Found(w)
    BY <2>3 DEF Elements
  <2>5. VersionFound(w) = CHOOSE i \in DOMAIN audit : audit[i] = Found(w)
    BY <1>2 DEF VersionFound
  <2>6. VersionFound(w) \in DOMAIN audit /\ audit[VersionFound(w)] = Found(w)
    BY <2>4, <2>5
  <2> QED
    BY <1>2, <2>1, <2>2, <2>6
<1> QED
  BY <1>1, <1>2

LEMMA VersionedNext == PipelineInv' => Versioned'
<1>1. PipelineInv => Versioned
  BY VersionedHolds
<1> QED
  BY <1>1, PTL

\* A version that stays the one found keeps its place in the log.
LEMMA SameVersion ==
  ASSUME PipelineInv, PipelineInv', NEW w \in Windows,
         (Indexed(w)' <=> Indexed(w)), Found(w)' = Found(w),
         \A i \in DOMAIN audit : i \in DOMAIN audit' /\ audit'[i] = audit[i]
  PROVE  VersionFound(w)' = VersionFound(w)
<1>1. Versioned /\ Versioned'
  BY VersionedHolds, VersionedNext
<1>2. CASE ~ Indexed(w)
  BY <1>1, <1>2 DEF Versioned
<1>3. CASE Indexed(w)
  <2> DEFINE v == VersionFound(w)
             u == VersionFound(w)'
  <2>1. v \in DOMAIN audit /\ audit[v] = Found(w)
    BY <1>1, <1>3 DEF Versioned
  <2>2. u \in DOMAIN audit' /\ audit'[u] = Found(w)'
    BY <1>1, <1>3 DEF Versioned
  <2>3. ProjectedOnce'
    BY DEF PipelineInv, Inv, Marking
  <2> HIDE DEF v, u
  <2>4. u = v
    BY <2>1, <2>2, <2>3 DEF ProjectedOnce
  <2> QED
    BY <2>4 DEF u, v
<1> QED
  BY <1>2, <1>3

Shown == [w \in Windows |-> VersionFound(w)]

LEMMA SameShown ==
  ASSUME \A w \in Windows : VersionFound(w)' = VersionFound(w)
  PROVE  Shown' = Shown
BY DEF Shown

LEMMA ProjectRefines ==
  ASSUME PipelineInv, PipelineInv', [Next]_vars, UNCHANGED indexer
  PROVE  [Searchable!PutOrShow]_<<audit, Shown>>
<1>1. CASE UNCHANGED vars
  <2>1. \A w \in Windows : VersionFound(w)' = VersionFound(w)
    BY <1>1 DEF VersionFound, Indexed, Found, indexer, vars, windowTables, output, Indexer!Points
  <2> QED
    BY <1>1, <2>1, SameShown DEF vars, windowTables
<1>2. CASE Next
  <2>1. /\ audit' = audit \/ (pc = "commit" /\ ApplyTransaction)
        /\ jobs' = jobs \/ EmitJob
    BY <1>2, TablesEffect, OutputEffect DEF PipelineInv, Inv, windowTables
  <2>2. /\ audit \in Seq(Commands) /\ jobs \in Seq(Commands)
        /\ DOMAIN audit = 1..Len(audit) /\ DOMAIN jobs = 1..Len(jobs)
        /\ Len(audit) \in Nat /\ Len(jobs) \in Nat
    BY LenProperties DEF PipelineInv, Inv, TypeInv, TypeOK
  <2>3. \A i \in DOMAIN audit : i \in DOMAIN audit' /\ audit'[i] = audit[i]
    <3>1. CASE audit' = audit
      BY <3>1
    <3>2. CASE pc = "commit" /\ ApplyTransaction
      <4>1. command \in Commands /\ audit' = Append(audit, command)
        BY <3>2, CommandType DEF PipelineInv, Inv, Handling, ApplyTransaction
      <4> QED
        BY <2>2, <4>1, AppendProperties
    <3> QED
      BY <2>1, <3>1, <3>2
  <2>4. \A i \in DOMAIN jobs : jobs'[i] = jobs[i]
    <3>1. CASE jobs' = jobs
      BY <3>1
    <3>2. CASE EmitJob
      <4>1. command \in Commands /\ jobs' = Append(jobs, command)
        BY <3>2, CommandType DEF PipelineInv, Inv, Handling, EmitJob, Goto
      <4> QED
        BY <2>2, <4>1, AppendProperties
    <3> QED
      BY <2>1, <3>1, <3>2
  <2>5. ASSUME NEW w \in Windows
        PROVE  VersionFound(w)' = VersionFound(w)
    <3>1. (Indexed(w)' <=> Indexed(w))
      BY DEF Indexed, indexer, Indexer!Points
    <3>2. Found(w)' = Found(w)
      <4>1. CASE Indexed(w)
        <5>1. points[alias][w] \in DOMAIN jobs
          BY <4>1, VersionedHolds DEF Versioned, Position
        <5>2. points'[alias'][w] = points[alias][w]
          BY DEF indexer
        <5> QED
          BY <2>4, <3>1, <4>1, <5>1, <5>2 DEF Found
      <4>2. CASE ~ Indexed(w)
        BY <3>1, <4>2 DEF Found
      <4> QED
        BY <4>1, <4>2
    <3> QED
      BY <2>3, <3>1, <3>2, SameVersion
  <2>6. Shown' = Shown
    BY <2>5, SameShown
  <2>7. CASE audit' = audit
    BY <2>6, <2>7
  <2>8. CASE pc = "commit" /\ ApplyTransaction
    <3>1. command \in Commands /\ audit' = Append(audit, command)
      BY <2>8, CommandType DEF PipelineInv, Inv, Handling, ApplyTransaction
    <3>2. command \notin Elements(audit)
      BY <2>8 DEF PipelineInv, Inv, Marking, ProjectedOnce, InTransaction
    <3>3. Searchable!Put(command)
      BY <2>6, <3>1, <3>2 DEF Searchable!Put, Elements, Shown
    <3> QED
      BY <3>1, <3>3 DEF Searchable!PutOrShow
  <2> QED
    BY <2>1, <2>7, <2>8
<1> QED
  BY <1>1, <1>2

\* An upsert moves what is shown of its window to a later commit, or nowhere.
LEMMA SearchRefines ==
  ASSUME PipelineInv, PipelineInv', Indexer!Index, UNCHANGED <<projectorOnly, jobs>>
  PROVE  [Searchable!PutOrShow]_<<audit, Shown>>
<1>1. audit' = audit /\ jobs' = jobs
  BY DEF projectorOnly, windowTables
<1>2. /\ points' = points \/ (Ix!Wrote /\ UNCHANGED alias)
      /\ alias' = alias \/ alias' = ixModel
  BY SearchIsStep, IxAssumption, Ix!ShownEffect DEF PipelineInv
<1>3. /\ points \in [{EmbeddingModel} -> [Ix!Points -> Nat]]
      /\ alias \in {EmbeddingModel, None} /\ ixModel = EmbeddingModel
  BY DEF PipelineInv, Ix!Inv, Ix!TypeInv, Ix!TypeOK
<1>4. Versioned /\ Versioned'
  BY VersionedHolds, VersionedNext
<1>5. Indexer!Points = Ix!Points
  BY DEF Indexer!Points, Ix!Points
<1>6. ASSUME NEW w \in Windows, (Indexed(w)' <=> Indexed(w)), Found(w)' = Found(w)
      PROVE  VersionFound(w)' = VersionFound(w)
  BY <1>1, <1>6, SameVersion
<1>7. CASE points' = points
  <2>1. ASSUME NEW w \in Windows
        PROVE  (Indexed(w)' <=> Indexed(w)) /\ Found(w)' = Found(w)
    <3>1. CASE alias' = alias
      BY <1>1, <1>7, <3>1 DEF Indexed, Found, Indexer!Points
    <3>2. CASE alias' # alias
      <4>1. alias = None /\ alias' = EmbeddingModel
        BY <1>2, <1>3, <3>2
      <4>2. w \in Ix!Points => points[EmbeddingModel][w] = 0
        <5>1. EmbeddingModel \in {EmbeddingModel}
          OBVIOUS
        <5> QED
          BY <4>1, <5>1 DEF PipelineInv, Ix!Inv, Ix!Forward
      <4>3. ~ Indexed(w) /\ ~ Indexed(w)'
        BY <1>5, <1>7, <4>1, <4>2 DEF Indexed, Indexer!Points, Ix!Points
      <4> QED
        BY <4>3 DEF Found
    <3> QED
      BY <3>1, <3>2
  <2>2. Shown' = Shown
    BY <1>6, <2>1, SameShown
  <2> QED
    BY <1>1, <2>2
<1>8. CASE Ix!Wrote /\ UNCHANGED alias
  <2>0. /\ ixEntry \in DOMAIN jobs /\ ixEntry \in Nat \ {0}
        /\ WindowOf[jobs[ixEntry]] \in Ix!Points
        /\ alias = EmbeddingModel /\ alias # None
    BY <1>3, <1>8, IxAssumption, Ix!JobType, PipelineAssumption
    DEF PipelineInv, Ix!Inv, Ix!Wrote, Ix!job
  <2>2. PICK v \in Windows : v = WindowOf[jobs[ixEntry]]
    BY <2>0, ProjectorAssumption DEF Ix!Points
  <2>1. /\ ixEntry \in DOMAIN jobs /\ ixEntry \in Nat \ {0} /\ v \in Ix!Points
        /\ alias = EmbeddingModel /\ alias # None
    BY <2>0, <2>2
  <2>3. points' = [points EXCEPT ![alias] = [@ EXCEPT ![v] = ixEntry]]
    BY <1>8, <2>2 DEF Ix!Wrote, Ix!Write, Ix!job
  <2>5. /\ points'[EmbeddingModel][v] = ixEntry
        /\ \A w \in Ix!Points : w # v => points'[EmbeddingModel][w] = points[EmbeddingModel][w]
    BY <1>3, <2>1, <2>3
  <2>6. ASSUME NEW w \in Windows, w # v
        PROVE  VersionFound(w)' = VersionFound(w)
    <3>1. w \in Ix!Points => points'[alias'][w] = points[alias][w]
      BY <1>8, <2>1, <2>5, <2>6
    <3>2. Indexed(w)' <=> Indexed(w)
      BY <1>5, <1>8, <3>1 DEF Indexed, Indexer!Points
    <3>3. Found(w)' = Found(w)
      <4>1. CASE Indexed(w)
        <5>1. w \in Ix!Points
          BY <1>4, <2>6, <4>1 DEF Versioned
        <5> QED
          BY <1>1, <3>1, <3>2, <4>1, <5>1 DEF Found
      <4>2. CASE ~ Indexed(w)
        BY <3>2, <4>2 DEF Found
      <4> QED
        BY <4>1, <4>2
    <3> QED
      BY <1>6, <2>6, <3>2, <3>3
  <2>7. Indexed(v)' /\ Found(v)' = jobs[ixEntry]
    <3>1. alias' = alias /\ points'[alias'][v] = ixEntry
      BY <1>8, <2>1, <2>5
    <3>2. Indexed(v)'
      BY <1>5, <2>1, <3>1 DEF Indexed, Indexer!Points
    <3> QED
      BY <1>1, <3>1, <3>2 DEF Found
  <2> DEFINE n == VersionFound(v)'
             k == VersionFound(v)
  <2>8. n \in DOMAIN audit /\ audit[n] = jobs[ixEntry] /\ WindowOf[audit[n]] = v
    BY <1>1, <1>4, <2>2, <2>7 DEF Versioned
  <2>9. DOMAIN audit \subseteq Nat \ {0} /\ DOMAIN jobs \subseteq Nat
    <3>1. audit \in Seq(Commands) /\ jobs \in Seq(Commands)
      BY DEF PipelineInv, Inv, TypeInv, TypeOK
    <3>2. DOMAIN audit = 1..Len(audit) /\ DOMAIN jobs = 1..Len(jobs)
      BY <3>1, LenProperties
    <3> QED
      BY <3>2
  <2>10. n = k \/ n > k
    <3>1. CASE ~ Indexed(v)
      <4>1. k = 0
        BY <1>4, <2>2, <3>1 DEF Versioned
      <4> HIDE DEF n, k
      <4> QED
        BY <2>8, <2>9, <4>1
    <3>2. CASE Indexed(v)
      <4> DEFINE p == points[EmbeddingModel][v]
      <4>1. /\ p \in DOMAIN jobs /\ k \in DOMAIN audit /\ audit[k] = jobs[p]
        BY <1>4, <2>1, <2>2, <3>2 DEF Versioned, Position
      <4>2. p <= ixEntry
        <5>1. Ix!Handling /\ EmbeddingModel \in {EmbeddingModel}
          BY <1>8 DEF Ix!Wrote
        <5> QED
          BY <2>1, <5>1 DEF PipelineInv, Ix!Inv, Ix!Forward
      <4> HIDE DEF n, k, p
      <4>4. CASE p = ixEntry
        <5>1. audit[k] = audit[n]
          BY <2>8, <4>1, <4>4
        <5>2. k = n
          BY <2>8, <4>1, <5>1 DEF PipelineInv, Inv, Marking, ProjectedOnce
        <5> QED
          BY <5>2
      <4>5. CASE p # ixEntry
        <5>1. p < ixEntry
          BY <2>1, <2>9, <4>1, <4>2, <4>5
        <5>2. PICK i \in DOMAIN audit, j \in DOMAIN audit :
                i < j /\ audit[i] = jobs[p] /\ audit[j] = jobs[ixEntry]
          BY <2>1, <4>1, <5>1 DEF PipelineInv, Records, EmissionsFollowCommits
        <5>3. i = k /\ j = n
          BY <2>8, <4>1, <5>2 DEF PipelineInv, Inv, Marking, ProjectedOnce
        <5> QED
          BY <2>9, <5>2, <5>3
      <4> QED
        BY <4>4, <4>5
    <3> QED
      BY <3>1, <3>2
  <2>11. CASE n = k
    <3>1. \A w \in Windows : VersionFound(w)' = VersionFound(w)
      BY <2>6, <2>11
    <3>2. Shown' = Shown
      BY <3>1, SameShown
    <3> QED
      BY <1>1, <3>2
  <2>12. CASE n > k
    <3>1. Shown' = [Shown EXCEPT ![v] = n]
      <4>1. \A w \in Windows : VersionFound(w)' = IF w = v THEN n ELSE VersionFound(w)
        BY <2>6
      <4> HIDE DEF n
      <4> QED
        BY <2>2, <4>1 DEF Shown
    <3>2. Shown[v] = k
      BY <2>2 DEF Shown
    <3> HIDE DEF n, k
    <3>3. Searchable!Show(v)
      BY <1>1, <2>8, <2>12, <3>1, <3>2 DEF Searchable!Show, Shown
    <3> QED
      BY <2>2, <3>3 DEF Searchable!PutOrShow
  <2> QED
    BY <2>10, <2>11, <2>12
<1> QED
  BY <1>2, <1>7, <1>8

\* Search shows of each window a version that was committed, and only ever moves to
\* a later one, whatever fails in either service and whenever.
THEOREM SearchableImplemented == PipelineSpec => ImplementsSearchable
<1>1. InitPipeline => Searchable!InitMemory
  <2> SUFFICES ASSUME InitPipeline PROVE Searchable!InitMemory
    OBVIOUS
  <2>1. audit = <<>> /\ alias = None
    BY DEF InitPipeline, Init, Indexer!InitIndexer
  <2>2. \A w \in Windows : VersionFound(w) = 0
    BY <2>1 DEF VersionFound, Indexed
  <2> QED
    BY <2>1, <2>2 DEF Searchable!InitMemory
<1>2. PipelineInv /\ PipelineInv' /\ [NextPipeline]_<<vars, indexer>>
        => [Searchable!PutOrShow]_<<audit, Shown>>
  BY PipelineSteps, ProjectRefines, SearchRefines
<1> QED
  BY <1>1, <1>2, PipelineInvariance, PTL
  DEF PipelineSpec, ImplementsSearchable, Searchable!SearchableSpec, Shown

-----------------------------------------------------------------------------
(***************************************************************************)
(* What is behind when both services have caught up.                       *)
(***************************************************************************)

\* The image of a finite set is no larger.
LEMMA ImageBound ==
  ASSUME NEW S, IsFiniteSet(S), NEW f, DOMAIN f = S
  PROVE  LET T == {f[x] : x \in S}
         IN  /\ IsFiniteSet(T)
             /\ Cardinality(T) \in Nat /\ Cardinality(S) \in Nat
             /\ Cardinality(T) <= Cardinality(S)
<1> DEFINE T == {f[x] : x \in S}
<1> HIDE DEF T
<1>1. [x \in S |-> f[x]] \in Surjection(S, T)
  BY DEF Surjection, T
<1>2. IsFiniteSet(T) /\ Cardinality(T) <= Cardinality(S)
  BY <1>1, FS_Surjection
<1>3. Cardinality(T) \in Nat /\ Cardinality(S) \in Nat
  BY <1>2, FS_CardinalityType
<1> QED
  BY <1>2, <1>3 DEF T

\* The instance has an operator of its own for the size of a set.
LEMMA SameSize == \A S : (Ix!IsFiniteSet(S) <=> IsFiniteSet(S)) /\ Ix!Cardinality(S) = Cardinality(S)
  BY DEF IsFiniteSet, Ix!IsFiniteSet, Cardinality, Ix!Cardinality

LagInv == PipelineInv /\ Ix!Batches /\ Ix!SkippedBound /\ ixFaults["switch"] = 0

LEMMA LagInit == InitPipeline => LagInv
<1> SUFFICES ASSUME InitPipeline PROVE LagInv
  OBVIOUS
<1>1. Ix!Init
  BY DEF InitPipeline, Init, Indexer!InitIndexer, Ix!Init, Ix!InitIndexer, Indexer!Points, Ix!Points,
     Indexer!FaultKinds, Ix!FaultKinds
<1>2. Ix!Batches /\ Ix!SkippedBound
  BY <1>1, IxAssumption, Ix!SkippedInit
<1>3. ixFaults["switch"] = 0
  BY <1>1 DEF Ix!Init, Ix!InitIndexer, Ix!FaultKinds
<1> QED
  BY <1>2, <1>3, PipelineInit DEF LagInv

LEMMA LagStep == LagInv /\ IndexerFirst /\ [NextPipeline]_<<vars, indexer>> => LagInv'
<1> SUFFICES ASSUME LagInv, IndexerFirst, [NextPipeline]_<<vars, indexer>> PROVE LagInv'
  OBVIOUS
<1>1. PipelineInv' /\ [Ix!Step]_(Ix!vars)
  BY PipelineStep, PipelineSteps DEF LagInv
<1>2. Ix!Served
  BY DEF Ix!Served, IndexerFirst
<1>3. Ix!Batches' /\ Ix!SkippedBound'
  BY <1>1, <1>2, IxAssumption, Ix!SkippedBounds DEF LagInv, PipelineInv
<1>4. ixFaults'["switch"] = 0
  <2>1. ixFaults'["switch"] = ixFaults["switch"] \/ ixModel' # ixModel
    BY <1>1, IxAssumption, Ix!SwitchEffect DEF LagInv, PipelineInv, Ix!Inv
  <2>2. ixModel = EmbeddingModel /\ ixModel' = EmbeddingModel
    BY <1>1 DEF LagInv, PipelineInv, Ix!Inv, Ix!TypeInv, Ix!TypeOK
  <2> QED
    BY <2>1, <2>2 DEF LagInv
<1> QED
  BY <1>1, <1>3, <1>4 DEF LagInv

\* A point made from a job is that of the last commit of its window, or another
\* of the window comes later.
LEMMA LastCommitLastJob ==
  ASSUME PipelineInv, NEW w \in Windows, rows[w] # None,
         NEW k \in DOMAIN jobs, jobs[k] = rows[w],
         NEW p \in DOMAIN jobs, WindowOf[jobs[p]] = w
  PROVE  p <= k
<1>1. LastIn(audit, OfWindow(w), rows[w])
  BY DEF PipelineInv, Inv, WindowWhole
<1>2. PICK n \in DOMAIN audit :
        audit[n] = rows[w] /\ \A j \in DOMAIN audit : audit[j] \in OfWindow(w) => j <= n
  BY <1>1 DEF LastIn
<1>3. /\ jobs \in Seq(Commands) /\ audit \in Seq(Commands)
      /\ DOMAIN jobs = 1..Len(jobs) /\ DOMAIN audit = 1..Len(audit)
      /\ Len(jobs) \in Nat /\ Len(audit) \in Nat
  BY LenProperties DEF PipelineInv, Inv, TypeInv, TypeOK
<1>4. SUFFICES ASSUME k < p PROVE FALSE
  BY <1>3
<1>5. PICK i \in DOMAIN audit, j \in DOMAIN audit :
        i < j /\ audit[i] = jobs[k] /\ audit[j] = jobs[p]
  BY <1>4 DEF PipelineInv, Records, EmissionsFollowCommits
<1>6. audit[j] \in OfWindow(w)
  BY <1>3, <1>5 DEF OfWindow
<1>7. i = n
  BY <1>2, <1>5 DEF PipelineInv, Inv, Marking, ProjectedOnce
<1> QED
  BY <1>2, <1>3, <1>5, <1>6, <1>7

\* A window of which search shows another version than its row was not announced,
\* or its job was delivered and lost.
LEMMA LagCauses ==
  ASSUME LagInv, Quiet, NEW w \in Windows, rows[w] # Found(w)
  PROVE  \/ \E c \in Unannounced : w = WindowOf[c]
         \/ \E k \in Ix!Skipped : w = WindowOf[jobs[k]]
<1>1. /\ jobs \in Seq(Commands) /\ audit \in Seq(Commands)
      /\ DOMAIN jobs = 1..Len(jobs) /\ Len(jobs) \in Nat
  BY LenProperties DEF LagInv, PipelineInv, Inv, TypeInv, TypeOK
<1>2. ixModel = EmbeddingModel /\ alias = EmbeddingModel /\ alias # None
  BY PipelineAssumption
  DEF LagInv, PipelineInv, Ix!Inv, Ix!TypeInv, Ix!TypeOK, Ix!Control, Quiet
<1>3. Versioned
  BY VersionedHolds DEF LagInv
<1>4. CASE rows[w] = None
  <2>1. Found(w) # None
    BY <1>4
  <2>2. Indexed(w)
    BY <2>1 DEF Found
  <2>3. /\ Position(w) \in DOMAIN jobs /\ Found(w) = jobs[Position(w)] /\ WindowOf[Found(w)] = w
        /\ Found(w) \in Elements(audit)
    BY <1>3, <2>2 DEF Versioned, Elements
  <2>4. Found(w) \in OfWindow(w)
    BY <1>1, <2>3 DEF OfWindow
  <2>5. Elements(audit) \cap OfWindow(w) = {}
    BY <1>4 DEF LagInv, PipelineInv, Inv, WindowWhole
  <2> QED
    BY <2>3, <2>4, <2>5
<1>5. CASE rows[w] # None
  <2>1. LastIn(audit, OfWindow(w), rows[w])
    BY <1>5 DEF LagInv, PipelineInv, Inv, WindowWhole
  <2>2. rows[w] \in Commands /\ WindowOf[rows[w]] = w /\ rows[w] \in Elements(audit)
    BY <2>1 DEF LastIn, OfWindow, Elements
  <2>3. CASE rows[w] \notin Elements(jobs)
    <3>1. InFlight = {}
      BY DEF InFlight, Quiet
    <3>2. rows[w] \in Unannounced
      BY <2>2, <2>3, <3>1 DEF Unannounced, Announced
    <3> QED
      BY <2>2, <3>2
  <2>4. CASE rows[w] \in Elements(jobs)
    <3>1. PICK k \in DOMAIN jobs : jobs[k] = rows[w]
      BY <2>4 DEF Elements
    <3> DEFINE p == points[EmbeddingModel][w]
    <3>2. w \in Ix!Points /\ w \in Indexer!Points
      BY <2>2 DEF Ix!Points, Indexer!Points
    <3>3. p \in Nat
      BY <3>2 DEF LagInv, PipelineInv, Ix!Inv, Ix!TypeInv, Ix!TypeOK
    <3>4. k \in Nat \ {0} /\ k \in 1..ixCursor
      BY <1>1, <3>1 DEF Quiet
    <3>5. p < k
      <4>1. CASE p = 0
        BY <3>4, <4>1
      <4>2. CASE p # 0
        <5>1. Indexed(w) /\ Found(w) = jobs[p]
          BY <1>2, <3>2, <4>2 DEF Indexed, Found
        <5>2. p \in DOMAIN jobs /\ WindowOf[jobs[p]] = w
          BY <5>1, IndexedFacts DEF LagInv, PipelineInv
        <5>3. p <= k
          BY <1>5, <3>1, <5>2, LastCommitLastJob DEF LagInv
        <5>4. p # k
          BY <3>1, <5>1
        <5> HIDE DEF p
        <5> QED
          BY <3>3, <3>4, <5>3, <5>4
      <4> QED
        BY <4>1, <4>2
    <3>6. k \in Ix!Skipped
      <4>1. WindowOf[jobs[k]] = w
        BY <2>2, <3>1
      <4> HIDE DEF p
      <4>2. points[ixModel][WindowOf[jobs[k]]] < k
        BY <1>2, <3>5, <4>1 DEF p
      <4> QED
        BY <3>4, <4>2 DEF Ix!Skipped, Ix!Delivered, Quiet
    <3> QED
      BY <2>2, <3>1, <3>6
  <2> QED
    BY <2>3, <2>4
<1> QED
  BY <1>4, <1>5

LEMMA LagBounded == LagInv => LagBound
<1> SUFFICES ASSUME LagInv, Quiet
             PROVE  Cardinality({w \in Windows : rows[w] # Found(w)})
                      <= AllFaults + IndexBatch * (ixFaults["error"] + ixFaults["crash"])
  BY DEF LagBound
<1> DEFINE Lag == {w \in Windows : rows[w] # Found(w)}
           f == [c \in Unannounced |-> WindowOf[c]]
           g == [k \in Ix!Skipped |-> WindowOf[jobs[k]]]
           A == {f[c] : c \in Unannounced}
           B == {g[k] : k \in Ix!Skipped}
           b == IndexBatch * (ixFaults["error"] + ixFaults["crash"])
<1>1. IsFiniteSet(Unannounced) /\ Cardinality(Unannounced) <= AllFaults
  BY UnannouncedBound DEF LagInv, PipelineInv, Inv
<1>2. IsFiniteSet(Ix!Skipped) /\ Cardinality(Ix!Skipped) <= b
  <2>1. IsFiniteSet(Ix!Skipped)
    BY IxAssumption, Ix!SkippedFinite, SameSize DEF LagInv, PipelineInv, Ix!Inv
  <2>2. Ix!SameModel
    <3>1. ixModel = EmbeddingModel
      BY DEF LagInv, PipelineInv, Ix!Inv, Ix!TypeInv, Ix!TypeOK
    <3>2. \A i \in DOMAIN jobs : jobs[i] \in Commands
      <4>1. jobs \in Seq(Commands)
        BY DEF LagInv, PipelineInv, Inv, TypeInv, TypeOK
      <4> QED
        BY <4>1, LenProperties
    <3> QED
      BY <3>1, <3>2 DEF LagInv, Ix!SameModel
  <2> QED
    BY <2>1, <2>2, SameSize DEF LagInv, Ix!SkippedBound
<1>3. Lag \subseteq A \cup B
  BY LagCauses
<1>4. AllFaults \in Nat /\ b \in Nat
  <2>1. ixFaults["error"] \in Nat /\ ixFaults["crash"] \in Nat
    BY DEF LagInv, PipelineInv, Ix!Inv, Ix!TypeInv, Ix!TypeOK, Ix!FaultKinds
  <2>2. AllFaults \in Nat
    BY DEF LagInv, PipelineInv, Inv, TypeInv, TypeOK, AllFaults, FaultKinds
  <2>3. PICK n \in Nat : n = ixFaults["error"] + ixFaults["crash"]
    BY <2>1
  <2>4. IndexBatch * n \in Nat
    BY <2>3, PipelineAssumption
  <2> QED
    BY <2>2, <2>3, <2>4
<1>5. /\ IsFiniteSet(A) /\ Cardinality(A) \in Nat /\ Cardinality(Unannounced) \in Nat
      /\ Cardinality(A) <= Cardinality(Unannounced)
  <2>1. DOMAIN f = Unannounced
    OBVIOUS
  <2> HIDE DEF f
  <2> QED
    BY <1>1, <2>1, ImageBound
<1>6. /\ IsFiniteSet(B) /\ Cardinality(B) \in Nat /\ Cardinality(Ix!Skipped) \in Nat
      /\ Cardinality(B) <= Cardinality(Ix!Skipped)
  <2>1. DOMAIN g = Ix!Skipped
    OBVIOUS
  <2> HIDE DEF g, b
  <2> QED
    BY <1>2, <2>1, ImageBound
<1> HIDE DEF Lag, A, B, b
<1>7. IsFiniteSet(A \cup B) /\ Cardinality(A \cup B) = Cardinality(A) + Cardinality(B) - Cardinality(A \cap B)
  BY <1>5, <1>6, FS_Union
<1>8. IsFiniteSet(A \cap B) /\ Cardinality(A \cap B) \in Nat
  <2>1. A \cap B \in SUBSET A
    OBVIOUS
  <2>2. IsFiniteSet(A \cap B)
    BY <1>5, <2>1, FS_Subset
  <2> QED
    BY <2>2, FS_CardinalityType
<1>9. IsFiniteSet(Lag) /\ Cardinality(Lag) <= Cardinality(A \cup B)
  <2>1. Lag \in SUBSET (A \cup B)
    BY <1>3
  <2> QED
    BY <1>7, <2>1, FS_Subset
<1>10. Cardinality(Lag) \in Nat
  BY <1>9, FS_CardinalityType
<1>11. Cardinality(Lag) <= AllFaults + b
  BY <1>1, <1>2, <1>4, <1>5, <1>6, <1>7, <1>8, <1>9, <1>10
<1> QED
  BY <1>11 DEF Lag, b

\* Once both services are idle and the stream is read, search shows every row as it
\* is, but for one window per fault of the projector and one batch per fault of the
\* indexer; provided that the indexer's group was there before the first job.
THEOREM LagBoundHolds == PipelineSpec /\ []IndexerFirst => []LagBound
BY LagInit, LagStep, LagBounded, PTL DEF PipelineSpec
==============================================================================
