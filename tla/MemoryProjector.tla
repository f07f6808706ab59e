--------------------------- MODULE MemoryProjector ---------------------------
(***************************************************************************)
(* memory-projector: the consumer that turns a projection command into one *)
(* Postgres transaction (chat, people, window, facts, signals, tasks,      *)
(* interaction, audit, processed_event), an S3 artifact written inside it, *)
(* a graph update after it, and two events after that.                     *)
(*                                                                         *)
(* The tables of the transaction are written by this one process, but for  *)
(* a task's status, which the admin API sets.  So the statements of the    *)
(* transaction are one step at COMMIT, except the loop over the tasks,     *)
(* which reads what it wrote before, and the artifact, which a rollback    *)
(* does not undo.  A command's texts and scores are abstracted: a row      *)
(* holds the command its content came from.                                *)
(***************************************************************************)
EXTENDS Naturals, Sequences, FiniteSets

CONSTANTS
  Commands,     \* projection commands, one per command_id
  Windows,      \* source_window_id values
  Chats, People,
  Messages,     \* tg_message_id values that serve as evidence of a task
  WindowOf,     \* the window of a command
  ChatOf,       \* a window's chat
  StartOf,      \* occurred_at of a window's first message
  Senders,      \* a window's senders, in order of first appearance
  Tasks,        \* the first evidence message of each task of a command
  Claims,       \* how many claims a command has
  Signals,      \* how many analytics signals it has
  Owners,       \* the people _matches_owner_identity accepts
  HasGraph,     \* settings.neo4j_password is set
  HasStore,     \* S3Client.is_configured
  BatchSize,    \* settings.projection_batch_size
  MaxCopies,    \* bound: how often one command is put on the stream
  MaxFaults,    \* bound: how often each kind of fault may strike
  None

FaultKinds == {"error", "crash"}
Statuses == {"open", "done", "dropped"}

(***************************************************************************)
(* Every command of a window carries the same chat and the same messages   *)
(* (Orchestrator's WindowContentStable, a theorem), so chat, start and     *)
(* senders are the window's.  The analysis keeps only tasks with evidence  *)
(* in the window (_sanitize_result).                                       *)
(***************************************************************************)
ASSUME ProjectorAssumption ==
  /\ WindowOf \in [Commands -> Windows]
  /\ ChatOf \in [Windows -> Chats]
  /\ StartOf \in [Windows -> Nat]
  /\ Senders \in [Windows -> Seq(People)]
  /\ \A w \in Windows : \A i, j \in DOMAIN Senders[w] :
       Senders[w][i] = Senders[w][j] => i = j
  /\ Tasks \in [Commands -> Seq(Messages)]
  /\ Claims \in [Commands -> Nat]
  /\ Signals \in [Commands -> Nat]
  /\ Owners \subseteq People
  /\ HasGraph \in BOOLEAN /\ HasStore \in BOOLEAN
  /\ BatchSize \in Nat \ {0}
  /\ MaxCopies \in Nat
  /\ MaxFaults \in [FaultKinds -> Nat]
  /\ None \notin Commands \cup People

VARIABLES
  stream,        \* events.ai.projection_command
  grouped,       \* the consumer group exists
  cursor,        \* last entry of stream delivered to the group
  acked,         \* positions of the acknowledged entries
  processed,     \* processed_event rows of consumer "memory-projector"
  audit,         \* audit_log rows "project_analysis"
  persons,       \* person rows
  members,       \* chat_membership rows
  rows,          \* analysis_window: the command a window's row was written from
  facts,         \* extracted_fact rows of a window
  signals,       \* analytics_signal rows of a window
  interactions,  \* interaction rows; a row's id is its position
  tasks,         \* task rows, likewise
  artifact,      \* S3: the command the object of a window was written from
  edges,         \* Neo4j: weight of COMMUNICATED_WITH between two people
  jobs,          \* events.ai.embedding_requested
  updates,       \* events.processing.interaction_updated
  pc,            \* where the consumer stands
  todo,          \* entries left of its batch
  entry,         \* the entry it handles, 0 if none
  owner,         \* owner_person_id of _sync_tasks
  draft,         \* the task rows as the open transaction sees them
  taskIds,       \* ids of the command's tasks synchronised so far
  interaction,   \* interaction_id, once committed
  faults         \* faults so far, by kind

bus == <<stream, grouped, cursor, acked>>
windowTables == <<processed, audit, persons, members, rows, facts, signals, interactions>>
stores == <<artifact, edges>>
output == <<jobs, updates>>
locals == <<owner, draft, taskIds, interaction>>
vars == <<bus, windowTables, tasks, stores, output, pc, todo, entry, locals, faults>>

Pairs == {{p, q} : p \in People, q \in People}
Content == Commands \X (Nat \ {0})
InteractionRows ==
  [chat : Chats, start : Nat, by : Commands, tasks : Seq(Nat \ {0}), stored : BOOLEAN]
TaskRows ==
  [chat : Chats, evidence : Messages, by : Commands, owner : People \cup {None},
   counterpart : People \cup {None}, status : Statuses]
Updates == [id : Nat \ {0}, by : Commands]
PcStates == {"off", "idle", "check", "begin", "tasks", "commit", "graph", "job",
             "update", "ack"}

TypeOK ==
  /\ stream \in Seq(Commands)
  /\ grouped \in BOOLEAN
  /\ cursor \in Nat
  /\ acked \subseteq Nat
  /\ processed \subseteq Commands
  /\ audit \in Seq(Commands)
  /\ persons \subseteq People
  /\ members \subseteq Chats \X People
  /\ rows \in [Windows -> Commands \cup {None}]
  /\ facts \in [Windows -> SUBSET Content]
  /\ signals \in [Windows -> SUBSET Content]
  /\ interactions \in Seq(InteractionRows)
  /\ tasks \in Seq(TaskRows)
  /\ artifact \in [Windows -> Commands \cup {None}]
  /\ edges \in [Pairs -> Nat]
  /\ jobs \in Seq(Commands)
  /\ updates \in Seq(Updates)
  /\ pc \in PcStates
  /\ todo \in Seq(Nat \ {0})
  /\ entry \in Nat
  /\ owner \in People \cup {None}
  /\ draft \in Seq(TaskRows)
  /\ taskIds \in Seq(Nat \ {0})
  /\ interaction \in Nat
  /\ faults \in [FaultKinds -> Nat]

Init ==
  /\ stream = <<>> /\ grouped = FALSE /\ cursor = 0 /\ acked = {}
  /\ processed = {} /\ audit = <<>> /\ persons = {} /\ members = {}
  /\ rows = [w \in Windows |-> None]
  /\ facts = [w \in Windows |-> {}]
  /\ signals = [w \in Windows |-> {}]
  /\ interactions = <<>> /\ tasks = <<>>
  /\ artifact = [w \in Windows |-> None]
  /\ edges = [e \in Pairs |-> 0]
  /\ jobs = <<>> /\ updates = <<>>
  /\ pc = "off" /\ todo = <<>> /\ entry = 0
  /\ owner = None /\ draft = <<>> /\ taskIds = <<>> /\ interaction = 0
  /\ faults = [k \in FaultKinds |-> 0]

-----------------------------------------------------------------------------
Elements(s) == {s[i] : i \in DOMAIN s}

Goto(from, to) == pc = from /\ pc' = to

\* The command under way, its window and that window's chat.
command == stream[entry]
win == WindowOf[command]
chat == ChatOf[win]

Forget ==
  /\ owner' = None /\ draft' = <<>> /\ taskIds' = <<>> /\ interaction' = 0

Strike(kind) ==
  /\ faults[kind] < MaxFaults[kind]
  /\ faults' = [faults EXCEPT ![kind] = @ + 1]

\* Mutant: nothing is remembered.
NeverProcessed(c) == FALSE

IsProcessed(c) == c \in processed

\* The entries one XREADGROUP returns, as positions in the stream.
NextEntries ==
  LET n == IF Len(stream) < cursor + BatchSize THEN Len(stream) - cursor ELSE BatchSize
  IN  [i \in 1..n |-> cursor + i]

-----------------------------------------------------------------------------
(***************************************************************************)
(* The environment.                                                        *)
(***************************************************************************)

\* ai-orchestrator analyses a new window, or reprocesses one whose row it has
\* read.  One command may be put on the stream again: the operator's retry.
Emit(c) ==
  /\ Cardinality({i \in DOMAIN stream : stream[i] = c}) < MaxCopies
  /\ \/ \A i \in DOMAIN stream : WindowOf[stream[i]] # WindowOf[c]
     \/ rows[WindowOf[c]] # None
     \/ c \in Elements(stream)
  /\ stream' = Append(stream, c)
  /\ UNCHANGED <<grouped, cursor, acked, windowTables, tasks, stores, output,
                 pc, todo, entry, locals, faults>>

\* The open transaction has written the row, and holds its lock until COMMIT.
Locked(t) == pc \in {"tasks", "commit"} /\ t \in Elements(taskIds)

\* update_task_status: any status, whatever the old one was, of a row that is
\* committed; it waits for the row's lock.  A transaction that is open sees it
\* at once (READ COMMITTED).
PatchTask(t, s) ==
  /\ t \in DOMAIN tasks
  /\ ~Locked(t)
  /\ tasks' = [tasks EXCEPT ![t].status = s]
  /\ draft' = IF pc \in {"tasks", "commit"} THEN [draft EXCEPT ![t].status = s] ELSE draft
  /\ UNCHANGED <<bus, windowTables, stores, output, pc, todo, entry,
                 owner, taskIds, interaction, faults>>

-----------------------------------------------------------------------------
(***************************************************************************)
(* The consumer's loop.                                                    *)
(***************************************************************************)

\* The group is created at "$": entries older than it are never delivered.
Start ==
  /\ Goto("off", "idle")
  /\ grouped' = TRUE
  /\ cursor' = IF grouped THEN cursor ELSE Len(stream)
  /\ UNCHANGED <<stream, acked, windowTables, tasks, stores, output,
                 todo, entry, locals, faults>>

Fetch ==
  /\ pc = "idle" /\ todo = <<>>
  /\ cursor < Len(stream)
  /\ todo' = NextEntries
  /\ cursor' = cursor + Len(NextEntries)
  /\ UNCHANGED <<stream, grouped, acked, windowTables, tasks, stores, output,
                 pc, entry, locals, faults>>

Take ==
  /\ todo # <<>>
  /\ Goto("idle", "check")
  /\ entry' = Head(todo)
  /\ todo' = Tail(todo)
  /\ UNCHANGED <<bus, windowTables, tasks, stores, output, locals, faults>>

\* The SELECT runs before the transaction, on its own.
Check ==
  /\ Goto("check", IF IsProcessed(command) THEN "ack" ELSE "begin")
  /\ UNCHANGED <<bus, windowTables, tasks, stores, output, todo, entry, locals, faults>>

Ack ==
  /\ Goto("ack", "idle")
  /\ acked' = acked \cup {entry}
  /\ entry' = 0
  /\ Forget
  /\ UNCHANGED <<stream, grouped, cursor, windowTables, tasks, stores, output,
                 todo, faults>>

-----------------------------------------------------------------------------
(***************************************************************************)
(* The transaction.                                                        *)
(***************************************************************************)

\* BEGIN: _ensure_participants, then the owner _sync_tasks looks up, one of
\* the people known by now (the most recently updated one, where several are).
Begin ==
  /\ Goto("begin", "tasks")
  /\ draft' = tasks
  /\ LET known == (persons \cup Elements(Senders[win])) \cap Owners
     IN  owner' \in IF known = {} THEN {None} ELSE known
  /\ UNCHANGED <<bus, windowTables, tasks, stores, output, todo, entry,
                 taskIds, interaction, faults>>

\* Mutant: rows the open transaction has inserted are not seen.
FindCommittedTask(e) ==
  {t \in DOMAIN tasks : tasks[t].chat = chat /\ tasks[t].evidence = e}

\* The row _find_task_for_evidence selects, if there is one: an owned row is
\* preferred (and among those the one updated last).
FindTask(e) ==
  {t \in DOMAIN draft :
     /\ draft[t].chat = chat /\ draft[t].evidence = e
     /\ \/ draft[t].owner # None
        \/ \A u \in DOMAIN draft :
             draft[u].chat = chat /\ draft[u].evidence = e => draft[u].owner = None}

Coalesce(new, old) == IF new = None THEN old ELSE new

\* Mutant: the UPDATE sets the status, as the INSERT does.
ReopenedRow(row, old) ==
  [row EXCEPT !.owner = Coalesce(@, old.owner),
              !.counterpart = Coalesce(@, old.counterpart)]

\* The row old after the UPDATE, which does not name the status column.
UpdatedRow(row, old) ==
  [row EXCEPT !.owner = Coalesce(@, old.owner),
              !.counterpart = Coalesce(@, old.counterpart),
              !.status = old.status]

\* One iteration of the loop of _sync_tasks: the row of the task's first
\* evidence message is updated, or a new one inserted.
SyncTask ==
  /\ pc = "tasks"
  /\ Len(taskIds) < Len(Tasks[command])
  /\ LET e == Tasks[command][Len(taskIds) + 1]
         counterpart == IF Senders[win] = <<>> THEN None ELSE Senders[win][1]
         row == [chat |-> chat, evidence |-> e, by |-> command,
                 owner |-> owner, counterpart |-> counterpart, status |-> "open"]
     IN  \/ \E t \in FindTask(e) :
              /\ draft' = [draft EXCEPT ![t] = UpdatedRow(row, @)]
              /\ taskIds' = Append(taskIds, t)
         \/ /\ FindTask(e) = {}
            /\ draft' = Append(draft, row)
            /\ taskIds' = Append(taskIds, Len(draft) + 1)
  /\ UNCHANGED <<bus, windowTables, tasks, stores, output, pc, todo, entry,
                 owner, interaction, faults>>

TasksSynced == pc = "tasks" /\ Len(taskIds) = Len(Tasks[command])

\* Mutant: an object that exists is not written again.
StoreArtifactOnce ==
  artifact' = IF HasStore /\ artifact[win] = None
              THEN [artifact EXCEPT ![win] = command] ELSE artifact

StoreArtifact ==
  artifact' = IF HasStore THEN [artifact EXCEPT ![win] = command] ELSE artifact

\* _write_artifact: the object is there from now on, whatever the transaction
\* comes to.
PutArtifact ==
  /\ TasksSynced
  /\ pc' = "commit"
  /\ StoreArtifact
  /\ UNCHANGED <<bus, windowTables, tasks, edges, output, todo, entry, locals, faults>>

\* Mutant: the DELETE is missing.
AddedRows(old, count) == old \cup {<<command, n>> : n \in 1..count}

\* DELETE, then one INSERT per claim or signal.
ReplacedRows(old, count) == {<<command, n>> : n \in 1..count}

\* Mutant: interactions are looked up by window.
FindInteractionOfWindow == {k \in DOMAIN interactions : WindowOf[interactions[k].by] = win}

\* The row _upsert_interaction selects: same chat, same window_start.
FindInteraction ==
  {k \in DOMAIN interactions :
     interactions[k].chat = chat /\ interactions[k].start = StartOf[win]}

UpsertInteraction ==
  LET row == [chat |-> chat, start |-> StartOf[win], by |-> command,
              tasks |-> taskIds, stored |-> HasStore]
  IN  \/ \E k \in FindInteraction :
           /\ interactions' = [interactions EXCEPT ![k] =
                [row EXCEPT !.stored = @ \/ interactions[k].stored]]
           /\ interaction' = k
      \/ /\ FindInteraction = {}
         /\ interactions' = Append(interactions, row)
         /\ interaction' = Len(interactions) + 1

\* COMMIT of everything the transaction wrote.
ApplyTransaction ==
  /\ persons' = persons \cup Elements(Senders[win])
  /\ members' = members \cup ({chat} \X Elements(Senders[win]))
  /\ rows' = [rows EXCEPT ![win] = command]
  /\ facts' = [facts EXCEPT ![win] = ReplacedRows(@, Claims[command])]
  /\ signals' = [signals EXCEPT ![win] = ReplacedRows(@, Signals[command])]
  /\ tasks' = draft
  /\ UpsertInteraction
  /\ audit' = Append(audit, command)
  /\ processed' = processed \cup {command}

Commit ==
  /\ Goto("commit", "graph")
  /\ ApplyTransaction
  /\ UNCHANGED <<bus, stores, output, todo, entry, owner, draft, taskIds, faults>>

-----------------------------------------------------------------------------
(***************************************************************************)
(* What follows the transaction.                                           *)
(***************************************************************************)

\* combinations(participants, 2): every two different senders.
Met(w) ==
  {{p, q} : p \in Elements(Senders[w]), q \in Elements(Senders[w])}
    \ {{p} : p \in People}

\* Mutant: permutations(participants, 2).
WriteGraphBothWays ==
  /\ Goto("graph", "job")
  /\ edges' = IF HasGraph
              THEN [e \in Pairs |-> IF e \in Met(win) THEN edges[e] + 2 ELSE edges[e]]
              ELSE edges
  /\ UNCHANGED <<bus, windowTables, tasks, artifact, output, todo, entry, locals, faults>>

WriteGraph ==
  /\ Goto("graph", "job")
  /\ edges' = IF HasGraph
              THEN [e \in Pairs |-> IF e \in Met(win) THEN edges[e] + 1 ELSE edges[e]]
              ELSE edges
  /\ UNCHANGED <<bus, windowTables, tasks, artifact, output, todo, entry, locals, faults>>

\* Mutant: the embedding is requested once for a window.
EmitJobOnce ==
  /\ Goto("job", "update")
  /\ jobs' = IF \E k \in DOMAIN jobs : WindowOf[jobs[k]] = win
             THEN jobs ELSE Append(jobs, command)
  /\ UNCHANGED <<bus, windowTables, tasks, stores, updates, todo, entry, locals, faults>>

EmitJob ==
  /\ Goto("job", "update")
  /\ jobs' = Append(jobs, command)
  /\ UNCHANGED <<bus, windowTables, tasks, stores, updates, todo, entry, locals, faults>>

EmitUpdate ==
  /\ Goto("update", "ack")
  /\ updates' = Append(updates, [id |-> interaction, by |-> command])
  /\ UNCHANGED <<bus, windowTables, tasks, stores, jobs, todo, entry, locals, faults>>

-----------------------------------------------------------------------------
(***************************************************************************)
(* Faults.                                                                 *)
(***************************************************************************)

\* An exception before or inside the transaction: ROLLBACK, and the loop logs
\* the error and acknowledges the entry.  A put that fails may have stored the
\* object.
Abort ==
  /\ pc \in {"check", "begin", "tasks", "commit"}
  /\ Strike("error")
  /\ pc' = "ack"
  /\ \/ artifact' = artifact
     \/ TasksSynced /\ StoreArtifact
  /\ UNCHANGED <<bus, windowTables, tasks, edges, output, todo, entry, locals>>

\* The reply to COMMIT is lost after the server has committed.
LoseCommitReply ==
  /\ pc = "commit"
  /\ Strike("error")
  /\ pc' = "ack"
  /\ ApplyTransaction
  /\ UNCHANGED <<bus, stores, output, todo, entry, owner, draft, taskIds>>

\* A graph error is logged, and the handler goes on.
GraphError ==
  /\ Goto("graph", "job")
  /\ HasGraph
  /\ Strike("error")
  /\ UNCHANGED <<bus, windowTables, tasks, stores, output, todo, entry, locals>>

\* Mutant: the first XADD has a handler of its own, and the second follows.
EmitErrorSwallowed ==
  /\ pc \in {"job", "update"}
  /\ Strike("error")
  /\ pc' = IF pc = "job" THEN "update" ELSE "ack"
  /\ UNCHANGED <<bus, windowTables, tasks, stores, output, todo, entry, locals>>

\* An XADD raises, and what follows it is skipped.
EmitError ==
  /\ pc \in {"job", "update"}
  /\ Strike("error")
  /\ pc' = "ack"
  /\ UNCHANGED <<bus, windowTables, tasks, stores, output, todo, entry, locals>>

\* The entries went to the consumer's pending list, their reply to nobody.
LoseReply ==
  /\ pc = "idle" /\ todo = <<>>
  /\ cursor < Len(stream)
  /\ Strike("error")
  /\ cursor' = cursor + Len(NextEntries)
  /\ UNCHANGED <<stream, grouped, acked, windowTables, tasks, stores, output,
                 pc, todo, entry, locals>>

\* The process dies (it does, too, when XACK raises): the transaction is rolled
\* back, the batch and the entry stay in the pending list.
Crash ==
  /\ pc # "off"
  /\ Strike("crash")
  /\ pc' = "off"
  /\ todo' = <<>> /\ entry' = 0
  /\ Forget
  /\ UNCHANGED <<bus, windowTables, tasks, stores, output>>

\* SIGTERM: the task is cancelled at its await, "finally" still acknowledges
\* the entry, and the rest of the batch is dropped.
Cancel ==
  /\ pc \notin {"off", "idle"}
  /\ Strike("crash")
  /\ pc' = "off"
  /\ acked' = acked \cup {entry}
  /\ todo' = <<>> /\ entry' = 0
  /\ Forget
  /\ UNCHANGED <<stream, grouped, cursor, windowTables, tasks, stores, output>>

-----------------------------------------------------------------------------
Consume ==
  \/ Start \/ Fetch \/ Take \/ Check
  \/ Begin \/ SyncTask \/ PutArtifact \/ Commit
  \/ WriteGraph \/ EmitJob \/ EmitUpdate \/ Ack

Fault ==
  \/ Abort \/ LoseCommitReply \/ GraphError \/ EmitError \/ LoseReply \/ Crash \/ Cancel

Next ==
  \/ \E c \in Commands : Emit(c)
  \/ \E t \in DOMAIN tasks, s \in Statuses : PatchTask(t, s)
  \/ Consume
  \/ Fault

Spec == Init /\ [][Next]_vars

-----------------------------------------------------------------------------
(***************************************************************************)
(* Vocabulary of the properties.                                           *)
(***************************************************************************)

\* c is the last element of log that is in S.
LastIn(log, S, c) ==
  /\ c \in S
  /\ \E i \in DOMAIN log :
       log[i] = c /\ \A j \in DOMAIN log : log[j] \in S => j <= i

OfWindow(w) == {c \in Commands : WindowOf[c] = w}
OfInteraction(r) ==
  {c \in Commands : ChatOf[WindowOf[c]] = r.chat /\ StartOf[WindowOf[c]] = r.start}

\* The command whose emissions are still to come.
InFlight == IF pc \in {"graph", "job", "update"} THEN {command} ELSE {}

\* The commands both of whose emissions were sent.
Announced == {c \in Elements(jobs) : \E k \in DOMAIN updates : updates[k].by = c}

\* The commands whose entry is acknowledged, or about to be.
Settled == {stream[i] : i \in IF pc = "ack" THEN acked \cup {entry} ELSE acked}

AllFaults == faults["error"] + faults["crash"]

(***************************************************************************)
(* Safety.                                                                 *)
(***************************************************************************)

\* However often a command is put on the stream, and wherever its handler was
\* interrupted, it is projected at most once: there is one audit row for each
\* processed_event row, and no other.
ProjectedOnce ==
  /\ processed = Elements(audit)
  /\ \A i, j \in DOMAIN audit : audit[i] = audit[j] => i = j

\* A window's row, its facts and its signals are those of one command, the one
\* committed last for it: never a mixture of two, and none left of an earlier.
WindowWhole ==
  \A w \in Windows :
    IF rows[w] = None
    THEN /\ Elements(audit) \cap OfWindow(w) = {}
         /\ facts[w] = {} /\ signals[w] = {}
    ELSE /\ LastIn(audit, OfWindow(w), rows[w])
         /\ facts[w] = {<<rows[w], n>> : n \in 1..Claims[rows[w]]}
         /\ signals[w] = {<<rows[w], n>> : n \in 1..Signals[rows[w]]}

\* One interaction per chat and start, holding what was committed last for
\* them; the tasks it lists are rows of that chat, of the messages the tasks of
\* its command rest on.  (Two windows that start alike share one interaction.)
InteractionsCoherent ==
  /\ \A k, l \in DOMAIN interactions :
       /\ interactions[k].chat = interactions[l].chat
       /\ interactions[k].start = interactions[l].start
       => k = l
  /\ \A c \in Elements(audit) : \E k \in DOMAIN interactions : c \in OfInteraction(interactions[k])
  /\ \A k \in DOMAIN interactions :
       LET r == interactions[k]
       IN  /\ LastIn(audit, OfInteraction(r), r.by)
           /\ Len(r.tasks) = Len(Tasks[r.by])
           /\ \A n \in DOMAIN r.tasks :
                /\ r.tasks[n] \in DOMAIN tasks
                /\ tasks[r.tasks[n]].chat = r.chat
                /\ tasks[r.tasks[n]].evidence = Tasks[r.by][n]

\* A message is the evidence of at most one task of its chat, across commands,
\* reprocessing and repeated evidence inside one command.
OneTaskPerEvidence ==
  \A t, u \in DOMAIN tasks :
    tasks[t].chat = tasks[u].chat /\ tasks[t].evidence = tasks[u].evidence => t = u

\* Nothing is announced that is not committed, in another order than it was
\* committed, or (an interaction) before its window's embedding was requested.
EmissionsFollowCommits ==
  /\ \A k \in DOMAIN jobs : jobs[k] \in processed
  /\ \A k, l \in DOMAIN jobs : k < l =>
       \E i, j \in DOMAIN audit : i < j /\ audit[i] = jobs[k] /\ audit[j] = jobs[l]
  /\ \A k \in DOMAIN updates :
       /\ updates[k].by \in Elements(jobs)
       /\ updates[k].id \in DOMAIN interactions
       /\ updates[k].by \in OfInteraction(interactions[updates[k].id])

\* The object of a window is never older than its row: it is the row's own, or
\* that of a command whose transaction has not committed (and never may).
ArtifactNeverBehind ==
  HasStore => \A w \in Windows :
    rows[w] # None => artifact[w] = rows[w] \/ artifact[w] \notin processed \cup {None}

\* A weight counts the committed commands that bring the two people together,
\* but for those whose graph update failed or never came.
EdgeWeights ==
  \A e \in Pairs :
    LET meetings == {i \in DOMAIN audit : e \in Met(WindowOf[audit[i]])}
    IN  /\ edges[e] <= Cardinality(meetings)
        /\ HasGraph => Cardinality(meetings) <= edges[e] + AllFaults + Cardinality(InFlight)

\* A fault costs at most one command: it is acknowledged without having been
\* projected, or committed without its embedding job, its interaction update or
\* both.
CommandLossBound ==
  Cardinality((Settled \ processed) \cup (Elements(audit) \ (Announced \cup InFlight)))
    <= AllFaults

\* What the admin closed stays as the admin left it, also when that happened
\* while the command's transaction was open: no commit of a projection reopens
\* a task, or puts an open one for the same message beside it.
ClosedStaysClosed ==
  [][audit' # audit =>
       \A t \in DOMAIN tasks : tasks[t].status # "open" =>
         \A u \in DOMAIN tasks' :
           tasks'[u].chat = tasks[t].chat /\ tasks'[u].evidence = tasks[t].evidence
             => tasks'[u].status = tasks[t].status]_vars
==============================================================================
