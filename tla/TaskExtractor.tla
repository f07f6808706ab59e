---------------------------- MODULE TaskExtractor ----------------------------
(***************************************************************************)
(* task-extractor: one consumer of three streams (messages, edits,         *)
(* deletions) that turns messages into task rows and closes them, one      *)
(* autocommitted statement after another, and announces what it did on two *)
(* streams.  The event is marked processed last.                           *)
(*                                                                         *)
(* The task table is shared: memory-projector inserts and updates rows in  *)
(* transactions of its own, and the admin API sets a row's status.  What   *)
(* the regular expressions say of a text is a constant; whom a task        *)
(* belongs to is left out, and the one chat too.                           *)
(***************************************************************************)
EXTENDS Naturals, Sequences, FiniteSets

CONSTANTS
  Events,         \* telegram.message, .message_edited and .message_deleted events
  Kind,           \* which of the three streams an event is on
  Refs,           \* its tg_message_id, or the tg_message_ids of a deletion
  ReplyTo,        \* reply_to_message_id of a message
  Blank,          \* events without text
  Resolving,      \* texts that match RESOLUTION_PATTERNS
  Promising,      \* texts that match PROMISE_PATTERNS
  Requesting,     \* texts that match REQUEST_PATTERNS
  Dated,          \* texts in which a due date is found
  Projected,      \* messages memory-projector has a task for
  MinConfidence,  \* settings.task_min_confidence, in hundredths
  BatchSize,      \* settings.task_batch_size, per stream
  MaxCopies,      \* bound: how often one event is put on its stream
  MaxPatches,     \* bound: status updates by the admin
  MaxFaults,      \* bound: how often each kind of fault may strike
  None

Kinds == {"message", "edited", "deleted"}
FaultKinds == {"error", "crash"}
Statuses == {"open", "done", "dropped"}
Messages == UNION {Refs[e] : e \in Events}

ASSUME ExtractorAssumption ==
  /\ Kind \in [Events -> Kinds]
  /\ IsFiniteSet(Messages)
  /\ \A e \in Events : Kind[e] # "deleted" => Cardinality(Refs[e]) = 1
  /\ ReplyTo \in [Events -> Messages \cup {None}]
  /\ Blank \subseteq Events
  \* No pattern matches an event without text.
  /\ UNION {Resolving, Promising, Requesting, Dated} \subseteq Events \ Blank
  /\ Projected \subseteq Messages
  /\ MinConfidence \in Nat /\ BatchSize \in Nat \ {0}
  /\ MaxCopies \in Nat /\ MaxPatches \in Nat
  /\ MaxFaults \in [FaultKinds -> Nat]
  /\ None \notin Messages

VARIABLES
  log,        \* the three streams
  cursor,     \* last entry of each stream delivered to the group
  acked,      \* the acknowledged entries, as <<stream, position>>
  dlq,        \* events of STREAM_DLQ_TASK
  processed,  \* processed_event rows of consumer "task-extractor"
  tasks,      \* task rows; a row's id is its position
  created,    \* events.task.created: the ids
  resolved,   \* events.task.resolved: id and resolution
  pc,         \* where the consumer stands
  todo,       \* entries left of its batch
  entry,      \* the entry it handles, <<>> if none
  ids,        \* rows it has changed and has yet to announce
  patches,    \* status updates by the admin so far
  overflow,   \* history: a stream once held more than one batch could return
  faults      \* faults so far, by kind

bus == <<log, cursor, acked, dlq, overflow>>
output == <<created, resolved>>
vars == <<bus, processed, tasks, output, pc, todo, entry, ids, patches, faults>>

\* by: who inserted the row; setBy: who set its status last.
TaskRows ==
  [ref : Messages, by : {"task-extractor", "memory-projector"}, text : Events \cup {None},
   status : Statuses, setBy : {"service", "admin"}]
PcStates == {"off", "idle", "check", "resolve", "find", "create", "announce", "created",
             "update", "drop", "mark", "ack"}
Entries == Kinds \X (Nat \ {0})

TypeOK ==
  /\ log \in [Kinds -> Seq(Events)]
  /\ cursor \in [Kinds -> Nat]
  /\ acked \subseteq Entries
  /\ dlq \subseteq Events
  /\ processed \subseteq Events
  /\ tasks \in Seq(TaskRows)
  /\ created \in Seq(Nat \ {0})
  /\ resolved \in Seq((Nat \ {0}) \X {"done", "dropped"})
  /\ pc \in PcStates
  /\ todo \in Seq(Entries)
  /\ entry \in Entries \cup {<<>>}
  /\ ids \in Seq(Nat \ {0})
  /\ patches \in Nat
  /\ overflow \in BOOLEAN
  /\ faults \in [FaultKinds -> Nat]

Init ==
  /\ log = [k \in Kinds |-> <<>>] /\ cursor = [k \in Kinds |-> 0]
  /\ acked = {} /\ dlq = {} /\ processed = {}
  /\ tasks = <<>> /\ created = <<>> /\ resolved = <<>>
  /\ pc = "off" /\ todo = <<>> /\ entry = <<>> /\ ids = <<>>
  /\ patches = 0 /\ overflow = FALSE
  /\ faults = [k \in FaultKinds |-> 0]

-----------------------------------------------------------------------------
Elements(s) == {s[i] : i \in DOMAIN s}
Count(s, x) == Cardinality({i \in DOMAIN s : s[i] = x})

Goto(from, to) == pc = from /\ pc' = to

event == log[entry[1]][entry[2]]
ref == CHOOSE m \in Refs[event] : TRUE

Strike(kind) ==
  /\ faults[kind] < MaxFaults[kind]
  /\ faults' = [faults EXCEPT ![kind] = @ + 1]

\* extract_task_candidate: a promise is looked for first, a due date raises
\* the confidence.  0 stands for no candidate.
Confidence(e) ==
  IF e \notin Promising \cup Requesting THEN 0
  ELSE IF e \in Dated THEN 70
  ELSE IF e \in Promising THEN 65 ELSE 55

Rows(m) == {t \in DOMAIN tasks : tasks[t].ref = m}
OpenRows(ms) == {t \in DOMAIN tasks : tasks[t].ref \in ms /\ tasks[t].status = "open"}

\* Mutant: only open rows are found.
FindOpenTask(m) == IF OpenRows({m}) = {} THEN 0 ELSE CHOOSE t \in OpenRows({m}) : TRUE

\* The row _find_task_by_source_message returns, 0 if there is none: whatever
\* its status, the one created last.
FindTask(m) == IF Rows(m) = {} THEN 0 ELSE CHOOSE t \in Rows(m) : \A u \in Rows(m) : u <= t

\* A set of ids in the order of the rows.
InOrder(S) == CHOOSE s \in [1..Cardinality(S) -> S] : \A i, j \in DOMAIN s : i < j => s[i] < s[j]

Closed(S, s) ==
  [t \in DOMAIN tasks |->
     IF t \in S THEN [tasks[t] EXCEPT !.status = s, !.setBy = "service"] ELSE tasks[t]]

-----------------------------------------------------------------------------
(***************************************************************************)
(* The environment.                                                        *)
(***************************************************************************)

\* telegram-ingestor: a message comes before its edits and its deletion.
Publish(e) ==
  /\ e \notin Elements(log[Kind[e]])
  /\ Kind[e] # "message" =>
       \A m \in Refs[e] : \E f \in Elements(log["message"]) : m \in Refs[f]
  /\ log' = [log EXCEPT ![Kind[e]] = Append(@, e)]
  /\ UNCHANGED <<cursor, acked, dlq, overflow, processed, tasks, output, pc, todo, entry,
                 ids, patches, faults>>

\* The operator puts a dead letter back on its stream.
Requeue(e) ==
  /\ e \in dlq
  /\ Count(log[Kind[e]], e) < MaxCopies
  /\ log' = [log EXCEPT ![Kind[e]] = Append(@, e)]
  /\ dlq' = dlq \ {e}
  /\ UNCHANGED <<cursor, acked, overflow, processed, tasks, output, pc, todo, entry,
                 ids, patches, faults>>

\* _sync_tasks of memory-projector, in its transaction: the message's row is
\* updated, its status left alone, or a new one inserted.  Other statements may
\* run between its lookup and its COMMIT; a new row counts from the lookup here,
\* because its created_at, by which FindTask orders, is that of the BEGIN.
ProjectTask(m) ==
  /\ \E f \in Elements(log["message"]) : m \in Refs[f]
  /\ \/ \E t \in Rows(m) : tasks' = [tasks EXCEPT ![t].text = None]
     \/ /\ Rows(m) = {}
        /\ tasks' = Append(tasks, [ref |-> m, by |-> "memory-projector", text |-> None,
                                   status |-> "open", setBy |-> "service"])
  /\ UNCHANGED <<bus, processed, output, pc, todo, entry, ids, patches, faults>>

\* update_task_status: any status, whatever the old one was.
PatchTask(t, s) ==
  /\ patches < MaxPatches
  /\ t \in DOMAIN tasks
  /\ tasks' = [tasks EXCEPT ![t].status = s, ![t].setBy = "admin"]
  /\ patches' = patches + 1
  /\ UNCHANGED <<bus, processed, output, pc, todo, entry, ids, faults>>

-----------------------------------------------------------------------------
(***************************************************************************)
(* The consumer's loop.                                                    *)
(***************************************************************************)

\* The groups exist already or are created at "$", before anything is there.
Start ==
  /\ Goto("off", "idle")
  /\ UNCHANGED <<bus, processed, tasks, output, todo, entry, ids, patches, faults>>

Backlog(k) == Len(log[k]) - cursor[k]

Chunk(k) ==
  [i \in 1..(IF Backlog(k) < BatchSize THEN Backlog(k) ELSE BatchSize) |-> <<k, cursor[k] + i>>]

\* Mutant: the deletions of a batch come before its messages.
NextEntriesByName == Chunk("deleted") \o Chunk("edited") \o Chunk("message")

\* One XREADGROUP reads up to count entries of each stream, and returns the
\* streams in the order it was given them.
NextEntries == Chunk("message") \o Chunk("edited") \o Chunk("deleted")

Fetch ==
  /\ pc = "idle" /\ todo = <<>>
  /\ NextEntries # <<>>
  /\ todo' = NextEntries
  /\ cursor' = [k \in Kinds |-> cursor[k] + Len(Chunk(k))]
  /\ overflow' = (overflow \/ \E k \in Kinds : Backlog(k) > BatchSize)
  /\ UNCHANGED <<log, acked, dlq, processed, tasks, output, pc, entry, ids, patches, faults>>

Take ==
  /\ todo # <<>>
  /\ Goto("idle", "check")
  /\ entry' = Head(todo)
  /\ todo' = Tail(todo)
  /\ UNCHANGED <<bus, processed, tasks, output, ids, patches, faults>>

\* An event without text or without message ids, and one that is known, return
\* at once, without a mark.
Empty(e) == IF Kind[e] = "deleted" THEN Refs[e] = {} ELSE e \in Blank

Check ==
  /\ Goto("check",
          IF Empty(event) \/ event \in processed THEN "ack"
          ELSE CASE Kind[event] = "edited" -> "find"
                 [] Kind[event] = "deleted" -> "drop"
                 [] Kind[event] = "message" ->
                      IF event \in Resolving THEN "resolve" ELSE "find")
  /\ UNCHANGED <<bus, processed, tasks, output, todo, entry, ids, patches, faults>>

Mark ==
  /\ Goto("mark", "ack")
  /\ processed' = processed \cup {event}
  /\ UNCHANGED <<bus, tasks, output, todo, entry, ids, patches, faults>>

Ack ==
  /\ Goto("ack", "idle")
  /\ acked' = acked \cup {entry}
  /\ entry' = <<>> /\ ids' = <<>>
  /\ UNCHANGED <<log, cursor, dlq, overflow, processed, tasks, output, todo, patches, faults>>

-----------------------------------------------------------------------------
(***************************************************************************)
(* _handle_message.                                                        *)
(***************************************************************************)

\* A resolving reply closes the rows of the message it replies to.  Of the ids
\* it gets back it announces the first.
Resolve ==
  LET hit == IF ReplyTo[event] = None THEN {} ELSE OpenRows({ReplyTo[event]})
  IN  /\ Goto("resolve", IF hit = {} THEN "find" ELSE "announce")
      /\ tasks' = Closed(hit, "done")
      /\ \/ hit = {} /\ UNCHANGED ids
         \/ \E t \in hit : ids' = <<t>>
      /\ UNCHANGED <<bus, processed, output, todo, entry, patches, faults>>

\* A new message without a candidate, or with a row already, is only marked;
\* an edit looks for the row first, and for a candidate if there is one.
Find ==
  /\ Goto("find",
          IF Kind[event] = "message"
          THEN IF \/ Confidence(event) = 0 \/ Confidence(event) < MinConfidence
                  \/ FindTask(ref) # 0
               THEN "mark" ELSE "create"
          ELSE IF FindTask(ref) = 0 \/ Confidence(event) = 0 THEN "mark" ELSE "update")
  /\ ids' = IF Kind[event] = "message" \/ FindTask(ref) = 0 THEN <<>> ELSE <<FindTask(ref)>>
  /\ UNCHANGED <<bus, processed, tasks, output, todo, entry, patches, faults>>

Create ==
  /\ Goto("create", "created")
  /\ tasks' = Append(tasks, [ref |-> ref, by |-> "task-extractor", text |-> event,
                             status |-> "open", setBy |-> "service"])
  /\ ids' = <<Len(tasks) + 1>>
  /\ UNCHANGED <<bus, processed, output, todo, entry, patches, faults>>

\* Mutant: the event is marked, and the announcement left for later.
AnnounceCreatedLate ==
  /\ Goto("created", "ack")
  /\ processed' = processed \cup {event}
  /\ ids' = <<>>
  /\ UNCHANGED <<bus, tasks, output, todo, entry, patches, faults>>

AnnounceCreated ==
  /\ Goto("created", "mark")
  /\ created' = Append(created, ids[1])
  /\ ids' = <<>>
  /\ UNCHANGED <<bus, processed, tasks, resolved, todo, entry, patches, faults>>

-----------------------------------------------------------------------------
(***************************************************************************)
(* _handle_message_edited and _handle_message_deleted.                     *)
(***************************************************************************)

\* The UPDATE has the status in its WHERE clause; the candidate's confidence
\* is not looked at.
Update ==
  /\ Goto("update", "mark")
  /\ tasks' = [t \in DOMAIN tasks |->
                 IF t = ids[1] /\ tasks[t].status = "open"
                 THEN [tasks[t] EXCEPT !.text = event] ELSE tasks[t]]
  /\ ids' = <<>>
  /\ UNCHANGED <<bus, processed, output, todo, entry, patches, faults>>

Drop ==
  LET hit == OpenRows(Refs[event])
  IN  /\ Goto("drop", IF hit = {} THEN "mark" ELSE "announce")
      /\ tasks' = Closed(hit, "dropped")
      /\ ids' = InOrder(hit)
      /\ UNCHANGED <<bus, processed, output, todo, entry, patches, faults>>

\* Mutant: one event is sent, whatever the number of rows.
AnnounceFirst ==
  /\ Goto("announce", "mark")
  /\ resolved' = Append(resolved,
                   <<ids[1], IF Kind[event] = "deleted" THEN "dropped" ELSE "done">>)
  /\ ids' = <<>>
  /\ UNCHANGED <<bus, processed, tasks, created, todo, entry, patches, faults>>

\* One XADD per row.
Announce ==
  /\ Goto("announce", IF Len(ids) = 1 THEN "mark" ELSE "announce")
  /\ resolved' = Append(resolved,
                   <<ids[1], IF Kind[event] = "deleted" THEN "dropped" ELSE "done">>)
  /\ ids' = Tail(ids)
  /\ UNCHANGED <<bus, processed, tasks, created, todo, entry, patches, faults>>

-----------------------------------------------------------------------------
(***************************************************************************)
(* Faults.                                                                 *)
(***************************************************************************)
Handling == pc \notin {"off", "idle", "ack"}

\* A statement raises: the event goes to the dead letters, unless that fails
\* too, and its entry is acknowledged.
Error ==
  /\ Handling
  /\ Strike("error")
  /\ pc' = "ack"
  /\ dlq' \in {dlq, dlq \cup {event}}
  /\ ids' = <<>>
  /\ UNCHANGED <<log, cursor, acked, overflow, processed, tasks, output, todo, entry, patches>>

\* The process dies, or is stopped: then the entry under way is acknowledged.
\* What it had read is pending, and it reads only new entries when it is back.
Crash ==
  /\ pc # "off"
  /\ Strike("crash")
  /\ pc' = "off" /\ todo' = <<>> /\ entry' = <<>> /\ ids' = <<>>
  /\ acked' \in {acked, acked \cup ({entry} \ {<<>>})}
  /\ UNCHANGED <<log, cursor, dlq, overflow, processed, tasks, output, patches>>

Consume ==
  \/ Start \/ Fetch \/ Take \/ Check \/ Mark \/ Ack
  \/ Resolve \/ Find \/ Create \/ AnnounceCreated
  \/ Update \/ Drop \/ Announce

Environment ==
  \/ \E e \in Events : Publish(e) \/ Requeue(e)
  \/ \E m \in Projected : ProjectTask(m)
  \/ \E t \in DOMAIN tasks, s \in Statuses : PatchTask(t, s)

Next == Environment \/ Consume \/ Error \/ Crash

Spec == Init /\ [][Next]_vars

-----------------------------------------------------------------------------
(***************************************************************************)
(* Properties.                                                             *)
(***************************************************************************)

\* A message has at most one task of this service's making, however often it
\* is delivered, edited, closed or retried; a second row can only be
\* memory-projector's, inserted between the lookup and the INSERT.
OneTaskPerMessage ==
  \A t, u \in DOMAIN tasks :
    tasks[t].ref = tasks[u].ref /\ t # u => tasks[t].by # tasks[u].by

Made == {t \in DOMAIN tasks : tasks[t].by = "task-extractor"}
UnderWay(t) == t \in Elements(ids) /\ pc \in {"created", "announce"}
FaultsSoFar == faults["error"] + faults["crash"]

\* A task is announced as created once at most, and one that is not announced
\* took a fault: no retry makes up for it, since the retry finds the row.
CreationLossBound ==
  /\ \A t \in DOMAIN tasks : Count(created, t) <= (IF t \in Made THEN 1 ELSE 0)
  /\ Cardinality({t \in Made : Count(created, t) = 0 /\ ~UnderWay(t)}) <= FaultsSoFar

\* A closure by this service that nobody is told of took a fault, or closed two
\* rows of one message, of which a reply announces one.
ClosureLossBound ==
  Cardinality({t \in DOMAIN tasks :
                 /\ tasks[t].status # "open" /\ tasks[t].setBy = "service"
                 /\ <<t, tasks[t].status>> \notin Elements(resolved)
                 /\ ~UnderWay(t)
                 /\ \A u \in Rows(tasks[t].ref) : u = t})
    <= FaultsSoFar * Cardinality(Messages)

\* One event announces message m.
SentOnce(m) ==
  \A f, g \in Elements(log["message"]) : m \in Refs[f] /\ m \in Refs[g] => f = g

\* What comes after a message applies to the task made from it: once a deletion
\* is handled the task is not open, once an edit is handled it does not have
\* the old text, unless the admin has set its status.  Both may overtake their
\* message, but only when a stream held more than one batch returns, or when a
\* message that made no row comes again under a second event id.
LaterEventsApply ==
  overflow \/ FaultsSoFar > 0 \/
  \A k \in {"edited", "deleted"} : \A i \in DOMAIN log[k], t \in Made :
    /\ <<k, i>> \in acked
    /\ tasks[t].ref \in Refs[log[k][i]] /\ SentOnce(tasks[t].ref)
    /\ tasks[t].status = "open" /\ tasks[t].setBy = "service"
    => /\ k = "edited"
       /\ Confidence(log[k][i]) = 0 \/ tasks[t].text = None
          \/ Kind[tasks[t].text] = "edited"
==============================================================================
