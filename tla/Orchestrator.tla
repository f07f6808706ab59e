---------------------------- MODULE Orchestrator ----------------------------
(***************************************************************************)
(* ai-orchestrator: the consumer that gathers telegram.message events into *)
(* one Redis list per chat (the open window), has a full or a timed-out    *)
(* window analysed, and emits the analysis on four streams; and the        *)
(* backfill script, which replays the whole message stream through the     *)
(* same handler from a process of its own, sharing the Redis lists and the *)
(* Postgres tables but no lock with the live consumer.                     *)
(*                                                                         *)
(* Every await of a handler is a step of its own: another worker, a crash  *)
(* or an exception may come between any two of them.  The text of a        *)
(* message, what the model answers and everything derived from it are      *)
(* abstracted; which payload is in which list, and in which event, is not. *)
(***************************************************************************)
EXTENDS WindowOps, FiniteSets

CONSTANTS
  Commands,    \* ai.reprocess_window commands, one per command_id
  Target,      \* the window each command names (it may not exist)
  Chats,
  Chat,        \* tg_chat_id of a message
  Blank,       \* messages with neither text nor media
  Filtered,    \* messages the backfill's options exclude
  WindowSize,  \* settings.analysis_window_size
  BatchSize,   \* settings.analysis_batch_size
  MaxSignals,  \* bound: analytics signals in one analysis result
  Live,        \* the consumer process of the service
  Backfills,   \* runs of the backfill script, each a process of its own
  MaxFaults,   \* bound: how often each kind of fault may strike
  None

FaultKinds == {"error", "crash", "expiry"}

ASSUME OrchestratorAssumption ==
  /\ Messages \cap Commands = {}
  /\ Target \in [Commands -> Nat]
  /\ Chat \in [Messages -> Chats]
  /\ Blank \subseteq Messages
  /\ Filtered \subseteq Messages
  /\ WindowSize \in Nat \ {0}
  /\ BatchSize \in Nat \ {0}
  /\ MaxSignals \in Nat
  /\ Live \notin Backfills
  /\ MaxFaults \in [FaultKinds -> Nat]
  /\ None \notin Messages \cup Commands \cup Chats

Workers == {Live} \cup Backfills

VARIABLES
  stream,        \* events.telegram.message
  requests,      \* events.ai.reprocess_window
  grouped,       \* the consumer group exists on both streams
  msgCursor,     \* last entry of stream delivered to the group
  cmdCursor,     \* last entry of requests delivered to the group
  pending,       \* entries delivered and not acknowledged: the group's pending list
  acked,         \* entries acknowledged
  processed,     \* processed_event rows of consumer "ai-orchestrator"
  window,        \* the Redis list of each chat
  preprocessed,  \* events.telegram.preprocessed
  completed,     \* events.ai.analysis_completed
  signals,       \* events.ai.analytics_signal
  commands,      \* events.ai.projection_command
  applied,       \* projection commands memory-projector has dealt with
  rows,          \* analysis_window rows it has written
  nextWin,       \* the next unused window id
  pc,            \* where each worker stands
  todo,          \* what it has left of its batch, or of its snapshot
  item,          \* the event or command it handles
  why,           \* what the analysis under way is for
  dest,          \* the chat whose window it works on
  held,          \* the payloads it read from Redis or Postgres
  win,           \* the id of the window it analyses
  sigs,          \* analytics signals it has left to emit
  seenChats,     \* a backfill's chats, in order of first appearance
  faults         \* faults so far, by kind

input == <<stream, requests>>
group == <<grouped, msgCursor, cmdCursor, pending, acked>>
output == <<preprocessed, completed, signals, commands>>
projector == <<applied, rows>>
queue == <<todo, seenChats>>
analysis == <<why, dest, held, win, sigs>>
vars == <<input, group, processed, window, output, projector, nextWin,
          pc, queue, item, analysis, faults>>

PcStates == {"off", "idle", "check", "mark", "load", "flush", "graph", "completed",
             "signals", "command", "delete", "push", "size", "ack", "done"}

Analyses == [win : Nat, chat : Chats, msgs : Seq(Messages)]

TypeOK ==
  /\ stream \in Seq(Messages)
  /\ requests \in Seq(Commands)
  /\ grouped \in BOOLEAN
  /\ msgCursor \in Nat
  /\ cmdCursor \in Nat
  /\ pending \subseteq Messages \cup Commands
  /\ acked \subseteq Messages \cup Commands
  /\ processed \subseteq Messages \cup Commands
  /\ window \in [Chats -> Seq(Messages)]
  /\ preprocessed \in Seq(Analyses)
  /\ completed \in Seq(Nat)
  /\ signals \in Seq(Nat)
  /\ commands \in Seq(Analyses)
  /\ applied \in Nat
  /\ rows \subseteq Analyses
  /\ nextWin \in Nat \ {0}
  /\ pc \in [Workers -> PcStates]
  /\ todo \in [Workers -> Seq(Messages \cup Commands)]
  /\ \A b \in Backfills : todo[b] \in Seq(Messages)
  /\ item \in [Workers -> Messages \cup Commands \cup {None}]
  /\ why \in [Workers -> {"rollover", "full", "residual", "reprocess", "missing", "none"}]
  /\ dest \in [Workers -> Chats \cup {None}]
  /\ held \in [Workers -> Seq(Messages)]
  /\ win \in [Workers -> Nat]
  /\ sigs \in [Workers -> 0..MaxSignals]
  /\ seenChats \in [Workers -> Seq(Chats)]
  /\ faults \in [FaultKinds -> Nat]

Init ==
  /\ stream = <<>> /\ requests = <<>>
  /\ grouped = FALSE /\ msgCursor = 0 /\ cmdCursor = 0
  /\ pending = {} /\ acked = {} /\ processed = {}
  /\ window = [c \in Chats |-> <<>>]
  /\ preprocessed = <<>> /\ completed = <<>> /\ signals = <<>> /\ commands = <<>>
  /\ applied = 0 /\ rows = {}
  /\ nextWin = 1
  /\ pc = [p \in Workers |-> "off"]
  /\ todo = [p \in Workers |-> <<>>]
  /\ item = [p \in Workers |-> None]
  /\ why = [p \in Workers |-> "none"]
  /\ dest = [p \in Workers |-> None]
  /\ held = [p \in Workers |-> <<>>]
  /\ win = [p \in Workers |-> 0]
  /\ sigs = [p \in Workers |-> 0]
  /\ seenChats = [p \in Workers |-> <<>>]
  /\ faults = [k \in FaultKinds |-> 0]

-----------------------------------------------------------------------------
Goto(p, from, to) ==
  /\ pc[p] = from
  /\ pc' = [pc EXCEPT ![p] = to]

\* Local variables of the handler go out of scope.
Forget(p) ==
  /\ why' = [why EXCEPT ![p] = "none"]
  /\ dest' = [dest EXCEPT ![p] = None]
  /\ held' = [held EXCEPT ![p] = <<>>]
  /\ win' = [win EXCEPT ![p] = 0]
  /\ sigs' = [sigs EXCEPT ![p] = 0]

\* The handler returns or raises.  The live loop acknowledges the entry in its
\* "finally" in both cases; the backfill loop counts the event and goes on.
Return(p) ==
  /\ pc' = [pc EXCEPT ![p] = IF p = Live THEN "ack" ELSE "idle"]
  /\ item' = IF p = Live THEN item ELSE [item EXCEPT ![p] = None]
  /\ Forget(p)

Strike(kind) ==
  /\ faults[kind] < MaxFaults[kind]
  /\ faults' = [faults EXCEPT ![kind] = @ + 1]

\* Mutant: one entry is skipped at each read.
NextEntriesSkipping(s, cursor) ==
  SubSeq(s, cursor + 2, IF Len(s) < cursor + BatchSize THEN Len(s) ELSE cursor + BatchSize)

\* The entries one XREADGROUP returns of a stream.
NextEntries(s, cursor) ==
  SubSeq(s, cursor + 1, IF Len(s) < cursor + BatchSize THEN Len(s) ELSE cursor + BatchSize)

Stored(c) == Elements(window[c])

IsProcessed(e) == e \in processed

\* Mutant: LRANGE 0 -2.
ReadAllButLast(c) == SubSeq(window[c], 1, Len(window[c]) - 1)

\* LRANGE 0 -1.
ReadWindow(c) == window[c]

\* Mutant: the comparison of the LLEN reply with the window size.
WindowOverfull(c) == Len(window[c]) > WindowSize

WindowFull(c) == Len(window[c]) >= WindowSize

-----------------------------------------------------------------------------
(***************************************************************************)
(* The environment: telegram-ingestor appends messages, the admin API      *)
(* appends reprocess commands.                                             *)
(***************************************************************************)
Ingest(m) ==
  /\ m \notin Elements(stream)
  /\ stream' = Append(stream, m)
  /\ UNCHANGED <<requests, group, processed, window, output, projector, nextWin,
                 pc, queue, item, analysis, faults>>

Request(c) ==
  /\ c \notin Elements(requests)
  /\ requests' = Append(requests, c)
  /\ UNCHANGED <<stream, group, processed, window, output, projector, nextWin,
                 pc, queue, item, analysis, faults>>

\* memory-projector deals with the next command: it writes the window's row, or
\* its handler fails and the command is dropped.
Project ==
  /\ applied < Len(commands)
  /\ applied' = applied + 1
  /\ LET cmd == commands[applied + 1]
     IN  \/ rows' = rows
         \/ /\ \E r \in rows : r.win = cmd.win
            /\ rows' = {IF r.win = cmd.win THEN [r EXCEPT !.msgs = cmd.msgs] ELSE r : r \in rows}
         \/ /\ \A r \in rows : r.win # cmd.win
            /\ rows' = rows \cup {cmd}
  /\ UNCHANGED <<input, group, processed, window, output, nextWin,
                 pc, queue, item, analysis, faults>>

-----------------------------------------------------------------------------
(***************************************************************************)
(* The live consumer's loop.                                               *)
(***************************************************************************)

\* The group is created at "$": entries older than it are never delivered.
Start ==
  /\ Goto(Live, "off", "idle")
  /\ grouped' = TRUE
  /\ IF grouped THEN UNCHANGED <<msgCursor, cmdCursor>>
                ELSE msgCursor' = Len(stream) /\ cmdCursor' = Len(requests)
  /\ UNCHANGED <<input, pending, acked, processed, window, output, projector, nextWin,
                 queue, item, analysis, faults>>

\* XREADGROUP with ">" on both streams: only entries never delivered before.
Fetch ==
  /\ pc[Live] = "idle"
  /\ todo[Live] = <<>>
  /\ LET msgs == NextEntries(stream, msgCursor)
         cmds == NextEntries(requests, cmdCursor)
     IN  /\ msgs \o cmds # <<>>
         /\ todo' = [todo EXCEPT ![Live] = msgs \o cmds]
         /\ msgCursor' = msgCursor + Len(msgs)
         /\ cmdCursor' = cmdCursor + Len(cmds)
         /\ pending' = pending \cup Elements(msgs \o cmds)
  /\ UNCHANGED <<input, grouped, acked, processed, window, output, projector, nextWin,
                 pc, seenChats, item, analysis, faults>>

Take ==
  /\ todo[Live] # <<>>
  /\ Goto(Live, "idle", IF Head(todo[Live]) \in Blank THEN "ack" ELSE "check")
  /\ todo' = [todo EXCEPT ![Live] = Tail(@)]
  /\ item' = [item EXCEPT ![Live] = Head(todo[Live])]
  /\ UNCHANGED <<input, group, processed, window, output, projector, nextWin,
                 seenChats, analysis, faults>>

Ack ==
  /\ Goto(Live, "ack", "idle")
  /\ pending' = pending \ {item[Live]}
  /\ acked' = acked \cup {item[Live]}
  /\ item' = [item EXCEPT ![Live] = None]
  /\ UNCHANGED <<input, grouped, msgCursor, cmdCursor, processed, window, output, projector,
                 nextWin, queue, analysis, faults>>

-----------------------------------------------------------------------------
(***************************************************************************)
(* The backfill script: a snapshot of the whole stream, every event of it  *)
(* through the live handler, then the windows of the chats it met.         *)
(***************************************************************************)

\* One run of the script; an ended or a killed one is not resumed.
StartBackfill(b) ==
  /\ b \in Backfills
  /\ stream # <<>>
  /\ Goto(b, "off", "idle")
  /\ todo' = [todo EXCEPT ![b] = stream]
  /\ UNCHANGED <<input, group, processed, window, output, projector, nextWin,
                 seenChats, item, analysis, faults>>

Replay(b) ==
  /\ b \in Backfills
  /\ pc[b] = "idle"
  /\ todo[b] # <<>>
  /\ todo' = [todo EXCEPT ![b] = Tail(@)]
  /\ LET m == Head(todo[b])
     IN  /\ seenChats' = IF m \in Filtered \/ Chat[m] \in Elements(seenChats[b])
                         THEN seenChats
                         ELSE [seenChats EXCEPT ![b] = Append(@, Chat[m])]
         /\ IF m \in Filtered \cup Blank
            THEN UNCHANGED <<pc, item>>
            ELSE /\ pc' = [pc EXCEPT ![b] = "check"]
                 /\ item' = [item EXCEPT ![b] = m]
  /\ UNCHANGED <<input, group, processed, window, output, projector, nextWin,
                 analysis, faults>>

\* After the last event: one more chat whose window is flushed unless empty.
FlushResidual(b) ==
  /\ b \in Backfills
  /\ pc[b] = "idle"
  /\ todo[b] = <<>>
  /\ seenChats[b] # <<>>
  /\ seenChats' = [seenChats EXCEPT ![b] = Tail(@)]
  /\ LET c == Head(seenChats[b])
     IN  IF ReadWindow(c) = <<>>
         THEN UNCHANGED <<pc, analysis>>
         ELSE /\ pc' = [pc EXCEPT ![b] = "flush"]
              /\ why' = [why EXCEPT ![b] = "residual"]
              /\ dest' = [dest EXCEPT ![b] = c]
              /\ UNCHANGED <<held, win, sigs>>
  /\ UNCHANGED <<input, group, processed, window, output, projector, nextWin,
                 todo, item, faults>>

EndBackfill(b) ==
  /\ b \in Backfills
  /\ todo[b] = <<>> /\ seenChats[b] = <<>>
  /\ Goto(b, "idle", "done")
  /\ UNCHANGED <<input, group, processed, window, output, projector, nextWin,
                 queue, item, analysis, faults>>

-----------------------------------------------------------------------------
(***************************************************************************)
(* _handle_message, in either process.                                     *)
(***************************************************************************)
CheckMessage(p) ==
  /\ pc[p] = "check"
  /\ item[p] \in Messages
  /\ IF IsProcessed(item[p])
     THEN Return(p)
     ELSE /\ pc' = [pc EXCEPT ![p] = "mark"]
          /\ dest' = [dest EXCEPT ![p] = Chat[item[p]]]
          /\ UNCHANGED <<item, why, held, win, sigs>>
  /\ UNCHANGED <<input, group, processed, window, output, projector, nextWin,
                 queue, faults>>

\* Mutant: the INSERT is missing.
MarkNothing(p) ==
  /\ item[p] \in Messages
  /\ Goto(p, "mark", "load")
  /\ UNCHANGED <<input, group, processed, window, output, projector, nextWin,
                 queue, item, analysis, faults>>

\* The INSERT: a second worker past its own check inserts again, unnoticed.
MarkMessage(p) ==
  /\ item[p] \in Messages
  /\ Goto(p, "mark", "load")
  /\ processed' = processed \cup {item[p]}
  /\ UNCHANGED <<input, group, window, output, projector, nextWin,
                 queue, item, analysis, faults>>

Load(p) ==
  /\ pc[p] = "load"
  /\ LET list == ReadWindow(dest[p])
         rollover == list # <<>> /\ NeedsRollover(list[Len(list)], item[p])
     IN  /\ pc' = [pc EXCEPT ![p] = IF rollover THEN "flush" ELSE "push"]
         /\ why' = [why EXCEPT ![p] = IF rollover THEN "rollover" ELSE "none"]
  /\ UNCHANGED <<input, group, processed, window, output, projector, nextWin,
                 queue, item, dest, held, win, sigs, faults>>

\* RPUSH, and the EXPIRE after it.
Push(p) ==
  /\ Goto(p, "push", "size")
  /\ window' = [window EXCEPT ![dest[p]] = Append(@, item[p])]
  /\ UNCHANGED <<input, group, processed, output, projector, nextWin,
                 queue, item, analysis, faults>>

\* LLEN: the list as every worker has left it, not only this one's message.
Measure(p) ==
  /\ pc[p] = "size"
  /\ IF WindowFull(dest[p])
     THEN /\ pc' = [pc EXCEPT ![p] = "flush"]
          /\ why' = [why EXCEPT ![p] = "full"]
          /\ UNCHANGED <<item, dest, held, win, sigs>>
     ELSE Return(p)
  /\ UNCHANGED <<input, group, processed, window, output, projector, nextWin,
                 queue, faults>>

-----------------------------------------------------------------------------
(***************************************************************************)
(* _handle_reprocess: only the live consumer reads commands.               *)
(***************************************************************************)
CheckCommand ==
  /\ pc[Live] = "check"
  /\ item[Live] \in Commands
  /\ LET w == Target[item[Live]]
     IN  \/ /\ IsProcessed(item[Live])
            /\ Return(Live)
         \/ /\ ~ IsProcessed(item[Live])
            /\ \A r \in rows : r.win # w
            /\ pc' = [pc EXCEPT ![Live] = "mark"]
            /\ why' = [why EXCEPT ![Live] = "missing"]
            /\ UNCHANGED <<item, dest, held, win, sigs>>
         \/ /\ ~ IsProcessed(item[Live])
            /\ \E r \in rows :
                 /\ r.win = w
                 /\ held' = [held EXCEPT ![Live] = r.msgs]
                 /\ dest' = [dest EXCEPT ![Live] = r.chat]
            /\ win' = [win EXCEPT ![Live] = w]
            /\ pc' = [pc EXCEPT ![Live] = "mark"]
            /\ why' = [why EXCEPT ![Live] = "reprocess"]
            /\ UNCHANGED <<item, sigs>>
  /\ UNCHANGED <<input, group, processed, window, output, projector, nextWin,
                 queue, faults>>

MarkCommand ==
  /\ pc[Live] = "mark"
  /\ item[Live] \in Commands
  /\ processed' = processed \cup {item[Live]}
  /\ IF why[Live] = "missing"
     THEN Return(Live)
     ELSE /\ pc' = [pc EXCEPT ![Live] = "graph"]
          /\ UNCHANGED <<item, analysis>>
  /\ UNCHANGED <<input, group, window, output, projector, nextWin, queue, faults>>

-----------------------------------------------------------------------------
(***************************************************************************)
(* _flush_window and _run_analysis.                                        *)
(***************************************************************************)

\* What the caller of _flush_window does next.
AfterFlush(p) ==
  IF why[p] = "rollover"
  THEN /\ pc' = [pc EXCEPT ![p] = "push"]
       /\ why' = [why EXCEPT ![p] = "none"]
       /\ held' = [held EXCEPT ![p] = <<>>]
       /\ win' = [win EXCEPT ![p] = 0]
       /\ UNCHANGED <<item, dest, sigs>>
  ELSE Return(p)

\* Mutant: the list is taken and deleted before it is analysed.
FlushDeletingFirst(p) ==
  /\ pc[p] = "flush"
  /\ window[dest[p]] # <<>>
  /\ pc' = [pc EXCEPT ![p] = "graph"]
  /\ held' = [held EXCEPT ![p] = window[dest[p]]]
  /\ win' = [win EXCEPT ![p] = nextWin]
  /\ nextWin' = nextWin + 1
  /\ window' = [window EXCEPT ![dest[p]] = <<>>]
  /\ UNCHANGED <<item, why, dest, sigs>>
  /\ UNCHANGED <<input, group, processed, output, projector, queue, faults>>

\* Mutant: the window id is not fresh.
FlushReusingId(p) ==
  /\ pc[p] = "flush"
  /\ window[dest[p]] # <<>>
  /\ pc' = [pc EXCEPT ![p] = "graph"]
  /\ held' = [held EXCEPT ![p] = window[dest[p]]]
  /\ win' = [win EXCEPT ![p] = nextWin]
  /\ UNCHANGED <<item, why, dest, sigs>>
  /\ UNCHANGED <<input, group, processed, window, output, projector, nextWin, queue, faults>>

Flush(p) ==
  /\ pc[p] = "flush"
  /\ IF ReadWindow(dest[p]) = <<>>
     THEN AfterFlush(p) /\ UNCHANGED nextWin
     ELSE /\ pc' = [pc EXCEPT ![p] = "graph"]
          /\ held' = [held EXCEPT ![p] = ReadWindow(dest[p])]
          /\ win' = [win EXCEPT ![p] = nextWin]
          /\ nextWin' = nextWin + 1
          /\ UNCHANGED <<item, why, dest, sigs>>
  /\ UNCHANGED <<input, group, processed, window, output, projector, queue, faults>>

\* Mutant: the event reads the list again.
EmitPreprocessedRereading(p) ==
  /\ Goto(p, "graph", "completed")
  /\ preprocessed' = Append(preprocessed, [win |-> win[p], chat |-> dest[p],
                                          msgs |-> window[dest[p]]])
  /\ UNCHANGED <<input, group, processed, window, completed, signals, commands, projector,
                 nextWin, queue, item, analysis, faults>>

\* The graph runs, then the first XADD; the event carries the list as read.
EmitPreprocessed(p) ==
  /\ Goto(p, "graph", "completed")
  /\ preprocessed' = Append(preprocessed, [win |-> win[p], chat |-> dest[p], msgs |-> held[p]])
  /\ UNCHANGED <<input, group, processed, window, completed, signals, commands, projector,
                 nextWin, queue, item, analysis, faults>>

EmitCompleted(p) ==
  /\ pc[p] = "completed"
  /\ completed' = Append(completed, win[p])
  /\ \E n \in 0..MaxSignals :
       /\ sigs' = [sigs EXCEPT ![p] = n]
       /\ pc' = [pc EXCEPT ![p] = IF n = 0 THEN "command" ELSE "signals"]
  /\ UNCHANGED <<input, group, processed, window, preprocessed, signals, commands, projector,
                 nextWin, queue, item, why, dest, held, win, faults>>

EmitSignal(p) ==
  /\ Goto(p, "signals", IF sigs[p] = 1 THEN "command" ELSE "signals")
  /\ signals' = Append(signals, win[p])
  /\ sigs' = [sigs EXCEPT ![p] = @ - 1]
  /\ UNCHANGED <<input, group, processed, window, preprocessed, completed, commands, projector,
                 nextWin, queue, item, why, dest, held, win, faults>>

\* The last XADD; the command carries the normalised list.
EmitCommand(p) ==
  /\ pc[p] = "command"
  /\ \E list \in NormalForms(held[p]) :
       commands' = Append(commands, [win |-> win[p], chat |-> dest[p], msgs |-> list])
  /\ IF why[p] = "reprocess"
     THEN Return(p)
     ELSE /\ pc' = [pc EXCEPT ![p] = "delete"]
          /\ UNCHANGED <<item, analysis>>
  /\ UNCHANGED <<input, group, processed, window, preprocessed, completed, signals, projector,
                 nextWin, queue, faults>>

\* Mutant: the list is left as it is.
DeleteNothing(p) ==
  /\ pc[p] = "delete"
  /\ AfterFlush(p)
  /\ UNCHANGED <<input, group, processed, window, output, projector, nextWin, queue, faults>>

\* DEL of the whole list, whatever was pushed since Flush read it.
Delete(p) ==
  /\ pc[p] = "delete"
  /\ window' = [window EXCEPT ![dest[p]] = <<>>]
  /\ AfterFlush(p)
  /\ UNCHANGED <<input, group, processed, output, projector, nextWin, queue, faults>>

-----------------------------------------------------------------------------
(***************************************************************************)
(* Faults.  An effect followed by a fault of its await is the step of the  *)
(* effect followed by a fault at the next one.                             *)
(***************************************************************************)
Busy(p) == pc[p] \notin {"off", "idle", "ack", "done"}

\* Redis, Postgres or the analysis raises: logged, and acknowledged.
Error(p) ==
  /\ Busy(p)
  /\ Strike("error")
  /\ Return(p)
  /\ UNCHANGED <<input, group, processed, window, output, projector, nextWin, queue>>

\* The process dies, or its XACK raises and ends run().
Crash(p) ==
  /\ pc[p] \notin {"off", "done"}
  /\ Strike("crash")
  /\ pc' = [pc EXCEPT ![p] = IF p = Live THEN "off" ELSE "done"]
  /\ todo' = [todo EXCEPT ![p] = <<>>]
  /\ seenChats' = [seenChats EXCEPT ![p] = <<>>]
  /\ item' = [item EXCEPT ![p] = None]
  /\ Forget(p)
  /\ UNCHANGED <<input, group, processed, window, output, projector, nextWin>>

\* The reply of XREADGROUP is lost on its way: Redis counts its entries as
\* delivered, the loop logs the error and asks for the ones after them.
LoseReply ==
  /\ pc[Live] = "idle"
  /\ todo[Live] = <<>>
  /\ Strike("error")
  /\ LET msgs == NextEntries(stream, msgCursor)
         cmds == NextEntries(requests, cmdCursor)
     IN  /\ msgs \o cmds # <<>>
         /\ msgCursor' = msgCursor + Len(msgs)
         /\ cmdCursor' = cmdCursor + Len(cmds)
         /\ pending' = pending \cup Elements(msgs \o cmds)
  /\ UNCHANGED <<input, grouped, acked, processed, window, output, projector, nextWin,
                 pc, queue, item, analysis>>

\* SIGTERM: the task is cancelled at its await, "finally" still acknowledges
\* the entry, and the rest of the batch is dropped.
Cancel ==
  /\ Busy(Live)
  /\ Strike("crash")
  /\ pc' = [pc EXCEPT ![Live] = "off"]
  /\ pending' = pending \ {item[Live]}
  /\ acked' = acked \cup {item[Live]}
  /\ todo' = [todo EXCEPT ![Live] = <<>>]
  /\ item' = [item EXCEPT ![Live] = None]
  /\ Forget(Live)
  /\ UNCHANGED <<input, grouped, msgCursor, cmdCursor, processed, window, output, projector,
                 nextWin, seenChats>>

\* The key's time to live runs out, or allkeys-lru evicts it.
Expire(c) ==
  /\ window[c] # <<>>
  /\ Strike("expiry")
  /\ window' = [window EXCEPT ![c] = <<>>]
  /\ UNCHANGED <<input, group, processed, output, projector, nextWin,
                 pc, queue, item, analysis>>

-----------------------------------------------------------------------------
Analyse(p) ==
  \/ Flush(p)
  \/ EmitPreprocessed(p)
  \/ EmitCompleted(p)
  \/ EmitSignal(p)
  \/ EmitCommand(p)
  \/ Delete(p)

HandleMessage(p) ==
  \/ CheckMessage(p)
  \/ MarkMessage(p)
  \/ Load(p)
  \/ Push(p)
  \/ Measure(p)

Consume ==
  \/ Start
  \/ Fetch
  \/ Take
  \/ Ack
  \/ CheckCommand
  \/ MarkCommand
  \/ HandleMessage(Live)
  \/ Analyse(Live)

Backfill(b) ==
  \/ StartBackfill(b)
  \/ Replay(b)
  \/ FlushResidual(b)
  \/ EndBackfill(b)
  \/ HandleMessage(b)
  \/ Analyse(b)

Next ==
  \/ \E m \in Messages : Ingest(m)
  \/ \E c \in Commands : Request(c)
  \/ Project
  \/ Consume
  \/ \E b \in Backfills : Backfill(b)
  \/ \E p \in Workers : Error(p) \/ Crash(p)
  \/ LoseReply
  \/ Cancel
  \/ \E c \in Chats : Expire(c)

Spec == Init /\ [][Next]_vars

\* asyncio keeps resuming the consumer task, and compose restarts the process.
FairSpec == Spec /\ WF_vars(Consume)

-----------------------------------------------------------------------------
(***************************************************************************)
(* Vocabulary of the properties.                                           *)
(***************************************************************************)
Handled == processed \cap Messages

\* Marked by p, and not yet in the list: the handler still has to push it.
InHand(m) ==
  \E p \in Workers :
    item[p] = m /\ (pc[p] \in {"load", "push"} \/ why[p] = "rollover")

\* The windows whose projection command stands for m (m itself, or a payload
\* with the same tg_message_id, is in its list).
WindowsOf(m) ==
  {w \in {commands[k].win : k \in DOMAIN commands} :
     \E i \in DOMAIN preprocessed :
       preprocessed[i].win = w /\ m \in Elements(preprocessed[i].msgs)}

Lost == {m \in Handled : /\ ~ InHand(m)
                         /\ m \notin Stored(Chat[m])
                         /\ WindowsOf(m) = {}}

\* Delivered to the consumer, and neither marked nor in its hands any more: a
\* backfill is all that can still bring it into a window.
OnItsWay(m) == m \in Elements(todo[Live]) \/ (Busy(Live) /\ item[Live] = m)

Unhandled == {m \in (pending \cup acked) \cap (Messages \ Blank) :
                m \notin processed /\ ~ OnItsWay(m)}

\* p has pushed a message, and flushes the list if that makes it a full one.
Filling(p) == pc[p] = "size" \/ why[p] = "full"

\* Faults that interrupt a handler.
Interruptions == faults["error"] + faults["crash"]

(***************************************************************************)
(* Safety.                                                                 *)
(***************************************************************************)

\* A payload reaches a list, a handler or an event of the orchestrator only
\* after its event is in processed_event: the INSERT comes first, so an event
\* seen again by either process can never enter a window it has not marked.
MarkedFirst ==
  /\ \A c \in Chats : Stored(c) \subseteq processed
  /\ \A p \in Workers : Elements(held[p]) \subseteq processed
  /\ \A i \in DOMAIN preprocessed : Elements(preprocessed[i].msgs) \subseteq processed
  /\ \A i \in DOMAIN commands : Elements(commands[i].msgs) \subseteq processed
  /\ \A r \in rows : Elements(r.msgs) \subseteq processed

\* Whatever fails in between, a projection command is only ever on its stream
\* after the preprocessed event of its window, whose list it normalises, and
\* after the analysis_completed event of its window.
CommandBacked ==
  \A k \in DOMAIN commands :
    /\ \E i \in DOMAIN preprocessed :
         /\ preprocessed[i].win = commands[k].win
         /\ preprocessed[i].chat = commands[k].chat
         /\ commands[k].msgs \in NormalForms(preprocessed[i].msgs)
    /\ \E i \in DOMAIN completed : completed[i] = commands[k].win

\* Every command for a window carries the same messages of the same chat:
\* reading them back from Postgres and normalising them again (reprocess)
\* changes nothing, and no two windows ever get one id.
WindowContentStable ==
  \A k, l \in DOMAIN commands :
    commands[k].win = commands[l].win =>
      /\ commands[k].chat = commands[l].chat
      /\ Elements(commands[k].msgs) = Elements(commands[l].msgs)

\* Every handled message is in hand, in its chat's list, or projected.
NothingLost == Lost = {}

\* No message is analysed in two windows.
AnalysedOnce == \A m \in Messages : Cardinality(WindowsOf(m)) <= 1

\* event-schema.md: the processed_event protocol makes delivery effectively
\* once; without faults and without an overlapping backfill it does.
EffectivelyOnce == NothingLost /\ AnalysedOnce

\* With one worker, an interrupted handler loses at most the one message it had
\* marked, and replays the window it was flushing at most once, because the list
\* is deleted only after the last event of its analysis is out.  An expired key
\* loses its list.  What is acknowledged after an exception, or stays pending for
\* good after a crash or a lost reply, is at most one batch each time.  A list
\* that a failed flush has left full is flushed with the next message: at rest
\* it is longer than a window by no more than the failures.
LossBound ==
  /\ Cardinality(Lost) <= Interruptions + faults["expiry"] * (WindowSize + Interruptions)
  /\ Cardinality(Unhandled) <= BatchSize * Interruptions
  /\ \A m \in Messages : Cardinality(WindowsOf(m)) <= 1 + Interruptions
  /\ \A c \in Chats :
       Len(window[c]) < WindowSize + Interruptions \/ \E p \in Workers : Filling(p) /\ dest[p] = c

\* With one worker, neighbours in a list are less than the rollover gap apart.
NoGapInsideWindow ==
  \A c \in Chats : \A i \in 1..(Len(window[c]) - 1) :
    At[window[c][i + 1]] < At[window[c][i]] + Gap

(***************************************************************************)
(* Liveness, under FairSpec.                                               *)
(***************************************************************************)
Delivered(m) == \E i \in 1..msgCursor : stream[i] = m

\* The consumer keeps up: an entry published once the group exists is handled
\* and acknowledged.
EveryEntryAcked ==
  \A m \in Messages : (grouped /\ m \in Elements(stream) /\ ~ Delivered(m)) ~> m \in acked

\* A full window does not stay: it is analysed and its list deleted.
FullWindowFlushed ==
  \A c \in Chats : Len(window[c]) >= WindowSize ~> window[c] = <<>>

\* event-schema.md: delivery is at least once, so an entry the group has to
\* handle is handled in the end, a restart in the middle included.
AtLeastOnce ==
  \A m \in Messages \ Blank :
    (grouped /\ m \in Elements(stream) /\ ~ Delivered(m)) ~> m \in processed
==============================================================================
