--------------------------- MODULE ChatSummarizer ---------------------------
(***************************************************************************)
(* chat-summarizer: one consumer of messages and edits that collects a     *)
(* chat's messages in a Redis list and, when the list is full or a message *)
(* comes late enough, summarises the list into an interaction row, an S3   *)
(* object and an event.  The row is found by chat and window start; the    *)
(* object and the event leave before the row's transaction commits.        *)
(*                                                                         *)
(* A text is the event it came with; what a summary says, the people and   *)
(* the task ids a row names are left out.                                  *)
(***************************************************************************)
EXTENDS Naturals, Sequences, FiniteSets

CONSTANTS
  Events,       \* telegram.message and telegram.message_edited events
  Kind,         \* which of the two an event is
  Id,           \* its tg_message_id
  At,           \* tg_date of a message
  Chat,
  Blank,        \* events without text
  Rolls,        \* settings.summarizer_strategy is by_time_window or hybrid
  Gap,          \* rollover gap, max(60, time_window_minutes * 60)
  WindowSize,   \* settings.summarizer_window_size
  Mode,         \* ChatSummaryEngine.mode: "local", "hybrid" or "cloud"
  HasStore,     \* S3Client.is_configured
  BatchSize,    \* settings.summarizer_batch_size, per stream
  MaxCopies,    \* bound: how often one event is put on its stream
  MaxFaults     \* bound: how often each kind of fault may strike

Kinds == {"message", "edited"}
FaultKinds == {"error", "crash", "expiry"}
Chats == {Chat[e] : e \in Events}

ASSUME SummarizerAssumption ==
  /\ Kind \in [Events -> Kinds]
  /\ At \in [Events -> Nat]
  /\ DOMAIN Id = Events /\ DOMAIN Chat = Events
  /\ Blank \subseteq Events
  /\ Rolls \in BOOLEAN /\ HasStore \in BOOLEAN
  /\ Gap \in Nat /\ WindowSize \in Nat \ {0} /\ BatchSize \in Nat \ {0}
  /\ Mode \in {"local", "hybrid", "cloud"}
  /\ MaxCopies \in Nat
  /\ MaxFaults \in [FaultKinds -> Nat]

VARIABLES
  log,           \* the two streams
  cursor,        \* last entry of each stream delivered to the group
  acked,         \* the acknowledged entries, as <<stream, position>>
  dlq,           \* events of STREAM_DLQ_SUMMARIZER
  processed,     \* processed_event rows of consumer "chat-summarizer"
  window,        \* pil:summarizer:{chat}:window
  interactions,  \* interaction rows by chat and window start: what they cover
  ids,           \* and their ids, numbered in the order of the INSERTs; 0 if no row
  artifact,      \* S3: content of interaction-windows/{id}.json, of every id so far
  updates,       \* events.processing.interaction_updated
  pc,            \* where the consumer stands
  todo,          \* entries left of its batch
  entry,         \* the entry it handles, <<>> if none
  batch,         \* the list as it has read it
  after,         \* what follows the flush
  overflow,      \* history: a stream once held more than one batch could return
  faults         \* faults so far, by kind

bus == <<log, cursor, acked, dlq, overflow>>
stores == <<interactions, ids, artifact, updates>>
vars == <<bus, processed, window, stores, pc, todo, entry, batch, after, faults>>

\* of: the event a list entry was made from; text: the event its text is of.
ListEntries == [of : Events, text : Events]
Keys == Chats \X {At[e] : e \in Events}
PcStates == {"off", "idle", "check", "mark", "roll", "read", "summarize", "store", "emit",
             "commit", "delete", "push", "full", "scan", "clear", "rewrite", "ack"}

TypeOK ==
  /\ log \in [Kinds -> Seq(Events)]
  /\ cursor \in [Kinds -> Nat]
  /\ acked \subseteq Kinds \X (Nat \ {0})
  /\ dlq \subseteq Events
  /\ processed \subseteq Events
  /\ window \in [Chats -> Seq(ListEntries)]
  /\ interactions \in [Keys -> Seq(ListEntries)]
  /\ ids \in [Keys -> Nat]
  /\ artifact \in Seq(Seq(ListEntries))
  /\ updates \in Seq([id : Nat, key : Keys, covers : Seq(ListEntries)])
  /\ pc \in PcStates
  /\ todo \in Seq(Kinds \X (Nat \ {0}))
  /\ entry \in (Kinds \X (Nat \ {0})) \cup {<<>>}
  /\ batch \in Seq(ListEntries)
  /\ after \in {"push", "ack"}
  /\ overflow \in BOOLEAN
  /\ faults \in [FaultKinds -> Nat]

Init ==
  /\ log = [k \in Kinds |-> <<>>] /\ cursor = [k \in Kinds |-> 0]
  /\ acked = {} /\ dlq = {} /\ processed = {}
  /\ window = [c \in Chats |-> <<>>]
  /\ interactions = [k \in Keys |-> <<>>] /\ ids = [k \in Keys |-> 0]
  /\ artifact = <<>> /\ updates = <<>>
  /\ pc = "off" /\ todo = <<>> /\ entry = <<>> /\ batch = <<>> /\ after = "ack"
  /\ overflow = FALSE
  /\ faults = [k \in FaultKinds |-> 0]

-----------------------------------------------------------------------------
Elements(s) == {s[i] : i \in DOMAIN s}

Goto(from, to) == pc = from /\ pc' = to

event == log[entry[1]][entry[2]]
chat == Chat[event]

\* The row of the list being flushed: its chat, and when its first message was.
key == <<chat, At[batch[1].of]>>

\* Its id in the transaction under way: the one found, or the one just inserted.
interactionId == IF ids[key] # 0 THEN ids[key] ELSE Len(artifact)

Strike(kind) ==
  /\ faults[kind] < MaxFaults[kind]
  /\ faults' = [faults EXCEPT ![kind] = @ + 1]

\* Times only grow apart; an out-of-order message has a negative gap.
NeedsRollover(last, now) == Rolls /\ now >= last /\ now - last >= Gap

-----------------------------------------------------------------------------
(***************************************************************************)
(* The environment: telegram-ingestor, the operator, and time.             *)
(***************************************************************************)
Publish(e) ==
  /\ e \notin Elements(log[Kind[e]])
  /\ Kind[e] = "edited" =>
       \E m \in Elements(log["message"]) : Id[m] = Id[e] /\ Chat[m] = Chat[e]
  /\ log' = [log EXCEPT ![Kind[e]] = Append(@, e)]
  /\ UNCHANGED <<cursor, acked, dlq, overflow, processed, window, stores, pc, todo, entry,
                 batch, after, faults>>

\* The operator puts a dead letter back on its stream.
Requeue(e) ==
  /\ e \in dlq
  /\ Cardinality({i \in DOMAIN log[Kind[e]] : log[Kind[e]][i] = e}) < MaxCopies
  /\ log' = [log EXCEPT ![Kind[e]] = Append(@, e)]
  /\ dlq' = dlq \ {e}
  /\ UNCHANGED <<cursor, acked, overflow, processed, window, stores, pc, todo, entry,
                 batch, after, faults>>

\* Nothing was pushed for as long as the list lives.
Expire(c) ==
  /\ window[c] # <<>>
  /\ Strike("expiry")
  /\ window' = [window EXCEPT ![c] = <<>>]
  /\ UNCHANGED <<bus, processed, stores, pc, todo, entry, batch, after>>

-----------------------------------------------------------------------------
(***************************************************************************)
(* The consumer's loop.                                                    *)
(***************************************************************************)

\* The groups exist already or are created at "$", before anything is there.
Start ==
  /\ Goto("off", "idle")
  /\ UNCHANGED <<bus, processed, window, stores, todo, entry, batch, after, faults>>

Backlog(k) == Len(log[k]) - cursor[k]

Chunk(k) ==
  [i \in 1..(IF Backlog(k) < BatchSize THEN Backlog(k) ELSE BatchSize) |-> <<k, cursor[k] + i>>]

\* Mutant: edits are read before messages.
NextEntriesByName == Chunk("edited") \o Chunk("message")

\* One XREADGROUP reads up to count entries of each stream, and returns the
\* streams in the order it was given them.
NextEntries == Chunk("message") \o Chunk("edited")

Fetch ==
  /\ pc = "idle" /\ todo = <<>>
  /\ NextEntries # <<>>
  /\ todo' = NextEntries
  /\ cursor' = [k \in Kinds |-> cursor[k] + Len(Chunk(k))]
  /\ overflow' = (overflow \/ \E k \in Kinds : Backlog(k) > BatchSize)
  /\ UNCHANGED <<log, acked, dlq, processed, window, stores, pc, entry, batch, after, faults>>

Take ==
  /\ todo # <<>>
  /\ Goto("idle", "check")
  /\ entry' = Head(todo)
  /\ todo' = Tail(todo)
  /\ UNCHANGED <<bus, processed, window, stores, batch, after, faults>>

Check ==
  /\ Goto("check", IF event \in Blank \/ event \in processed THEN "ack" ELSE "mark")
  /\ UNCHANGED <<bus, processed, window, stores, todo, entry, batch, after, faults>>

\* The event is marked before anything is done about it.
Mark ==
  /\ Goto("mark", IF Kind[event] = "message" THEN "roll" ELSE "scan")
  /\ processed' = processed \cup {event}
  /\ UNCHANGED <<bus, window, stores, todo, entry, batch, after, faults>>

Ack ==
  /\ Goto("ack", "idle")
  /\ acked' = acked \cup {entry}
  /\ entry' = <<>> /\ batch' = <<>> /\ after' = "ack"
  /\ UNCHANGED <<log, cursor, dlq, overflow, processed, window, stores, todo, faults>>

-----------------------------------------------------------------------------
(***************************************************************************)
(* _handle_message.                                                        *)
(***************************************************************************)

\* LINDEX -1.
Roll ==
  /\ LET w == window[chat]
         late == w # <<>> /\ NeedsRollover(At[w[Len(w)].of], At[event])
     IN  Goto("roll", IF late THEN "read" ELSE "push")
  /\ after' = "push"
  /\ UNCHANGED <<bus, processed, window, stores, todo, entry, batch, faults>>

Push ==
  /\ Goto("push", "full")
  /\ window' = [window EXCEPT ![chat] = Append(@, [of |-> event, text |-> event])]
  /\ UNCHANGED <<bus, processed, stores, todo, entry, batch, after, faults>>

\* LLEN.
Full ==
  /\ Goto("full", IF Len(window[chat]) >= WindowSize THEN "read" ELSE "ack")
  /\ after' = "ack"
  /\ UNCHANGED <<bus, processed, window, stores, todo, entry, batch, faults>>

-----------------------------------------------------------------------------
(***************************************************************************)
(* _flush_window.                                                          *)
(***************************************************************************)

\* Mutant: the list is taken rather than read.
ReadAndDelete ==
  /\ Goto("read", IF window[chat] = <<>> THEN after ELSE "summarize")
  /\ batch' = window[chat]
  /\ window' = [window EXCEPT ![chat] = <<>>]
  /\ UNCHANGED <<bus, processed, stores, todo, entry, after, faults>>

\* The list may have expired since it was looked at.
Read ==
  /\ Goto("read", IF window[chat] = <<>> THEN after ELSE "summarize")
  /\ batch' = window[chat]
  /\ UNCHANGED <<bus, processed, window, stores, todo, entry, after, faults>>

\* The request to the model, or the heuristic in its place.
Summarize ==
  /\ Goto("summarize", "store")
  /\ UNCHANGED <<bus, processed, window, stores, todo, entry, batch, after, faults>>

\* Mutant: an object that exists is not written again.
StoreOnce ==
  /\ Goto("store", "emit")
  /\ LET object == IF HasStore THEN batch ELSE <<>>
     IN  artifact' = IF ids[key] = 0 THEN Append(artifact, object) ELSE artifact
  /\ UNCHANGED <<bus, processed, window, interactions, ids, updates, todo, entry, batch, after,
                 faults>>

\* The row of the same chat and start is found, or inserted under a new id.  The
\* object is put under that id inside the transaction, but not undone with it.
Store ==
  /\ Goto("store", "emit")
  /\ LET object == IF HasStore THEN batch ELSE <<>>
     IN  artifact' = IF ids[key] = 0 THEN Append(artifact, object)
                                    ELSE [artifact EXCEPT ![ids[key]] = object]
  /\ UNCHANGED <<bus, processed, window, interactions, ids, updates, todo, entry, batch, after,
                 faults>>

\* Still inside the transaction.
Emit ==
  /\ Goto("emit", "commit")
  /\ updates' = Append(updates, [id |-> interactionId, key |-> key, covers |-> batch])
  /\ UNCHANGED <<bus, processed, window, interactions, ids, artifact, todo, entry, batch, after,
                 faults>>

Commit ==
  /\ Goto("commit", "delete")
  /\ interactions' = [interactions EXCEPT ![key] = batch]
  /\ ids' = [ids EXCEPT ![key] = interactionId]
  /\ UNCHANGED <<bus, processed, window, artifact, updates, todo, entry, batch, after, faults>>

Delete ==
  /\ Goto("delete", after)
  /\ window' = [window EXCEPT ![chat] = <<>>]
  /\ batch' = <<>>
  /\ UNCHANGED <<bus, processed, stores, todo, entry, after, faults>>

-----------------------------------------------------------------------------
(***************************************************************************)
(* _handle_edited_message: the list is read, deleted and pushed again.     *)
(***************************************************************************)

Edited(w) ==
  [i \in DOMAIN w |-> IF Id[w[i].of] = Id[event] THEN [w[i] EXCEPT !.text = event] ELSE w[i]]

Scan ==
  /\ Goto("scan", IF \E i \in DOMAIN window[chat] : Id[window[chat][i].of] = Id[event]
                  THEN "clear" ELSE "ack")
  /\ batch' = window[chat]
  /\ UNCHANGED <<bus, processed, window, stores, todo, entry, after, faults>>

Clear ==
  /\ Goto("clear", "rewrite")
  /\ window' = [window EXCEPT ![chat] = <<>>]
  /\ UNCHANGED <<bus, processed, stores, todo, entry, batch, after, faults>>

Rewrite ==
  /\ Goto("rewrite", "ack")
  /\ window' = [window EXCEPT ![chat] = Edited(batch)]
  /\ UNCHANGED <<bus, processed, stores, todo, entry, batch, after, faults>>

-----------------------------------------------------------------------------
(***************************************************************************)
(* Faults.                                                                 *)
(***************************************************************************)

\* A call raises: the transaction is rolled back, the event goes to the dead
\* letters, unless that fails too, and its entry is acknowledged.  A model that
\* does not answer is an error only in the cloud mode.
Error ==
  /\ pc \notin {"off", "idle", "ack"}
  /\ pc = "summarize" => Mode = "cloud"
  /\ Strike("error")
  /\ pc' = "ack"
  /\ dlq' \in {dlq, dlq \cup {event}}
  /\ UNCHANGED <<log, cursor, acked, overflow, processed, window, stores, todo, entry,
                 batch, after>>

\* The process dies, or is stopped: then the entry under way is acknowledged.
Crash ==
  /\ pc # "off"
  /\ Strike("crash")
  /\ pc' = "off" /\ todo' = <<>> /\ entry' = <<>> /\ batch' = <<>> /\ after' = "ack"
  /\ acked' \in {acked, acked \cup ({entry} \ {<<>>})}
  /\ UNCHANGED <<log, cursor, dlq, overflow, processed, window, stores>>

Consume ==
  \/ Start \/ Fetch \/ Take \/ Check \/ Mark \/ Ack
  \/ Roll \/ Push \/ Full
  \/ Read \/ Summarize \/ Store \/ Emit \/ Commit \/ Delete
  \/ Scan \/ Clear \/ Rewrite

Next ==
  \/ \E e \in Events : Publish(e) \/ Requeue(e)
  \/ \E c \in Chats : Expire(c)
  \/ Consume \/ Error \/ Crash

Spec == Init /\ [][Next]_vars

-----------------------------------------------------------------------------
(***************************************************************************)
(* Properties.                                                             *)
(***************************************************************************)
Of(s) == {s[i].of : i \in DOMAIN s}
FaultsSoFar == faults["error"] + faults["crash"] + faults["expiry"]
LongestList == WindowSize + FaultsSoFar

\* Messages marked processed that are in no list, no row, and not in the
\* consumer's hands, nor in a row that a later window of the same start has
\* replaced.
Lost ==
  {m \in processed :
     /\ Kind[m] = "message"
     /\ ~(pc \notin {"off", "idle", "ack"} /\ m = event)
     /\ \A c \in Chats : m \notin Of(window[c])
     /\ ~(pc = "rewrite" /\ m \in Of(batch))
     /\ \A k \in Keys : m \notin Of(interactions[k])
     /\ \A i \in DOMAIN updates :
          m \in Of(updates[i].covers) =>
            \A j \in DOMAIN updates : j > i => updates[j].key # updates[i].key}

\* A fault costs the message under way; only an expiry, or a fault while an
\* edit rewrites the list, costs a whole list.
LossBound ==
  Cardinality(Lost) <=
    (faults["error"] + faults["crash"])
      * (IF \E e \in processed : Kind[e] = "edited" THEN LongestList ELSE 1)
    + faults["expiry"] * LongestList

\* Once an edit is handled the list does not hold the old text of its message,
\* unless Telegram has delivered that message twice.  An edit may overtake its
\* message, but only when a stream held more than one batch returns.
NewestText ==
  overflow \/ FaultsSoFar > 0 \/
  \A i \in DOMAIN log["edited"], c \in Chats : \A n \in DOMAIN window[c] :
    LET e == log["edited"][i]
        x == window[c][n]
    IN  /\ <<"edited", i>> \in acked /\ e \notin Blank
        /\ Id[x.of] = Id[e] /\ c = Chat[e]
        /\ \A m \in Elements(log["message"]) : Id[m] = Id[e] => m = x.of
        => Kind[x.text] = "edited"

LastUpdate(n) ==
  LET own == {i \in DOMAIN updates : updates[i].id = n}
  IN  IF own = {} THEN <<>> ELSE updates[CHOOSE i \in own : \A j \in own : j <= i].covers

\* The committed row with id n covers s; without a row there is nothing to cover.
RowCovers(n, s) ==
  \/ \E k \in Keys : ids[k] = n /\ interactions[k] = s
  \/ s = <<>> /\ \A k \in Keys : ids[k] # n

\* Row, object and last event of an interaction say the same, but for the one
\* under way and one per fault that rolled a flush back: its object and its event
\* are out, and the row is the one from before, or there is none.
StoresAgree ==
  Cardinality({n \in DOMAIN artifact :
      /\ ~(pc \in {"emit", "commit"} /\ n = interactionId)
      /\ \/ ~ RowCovers(n, LastUpdate(n))
         \/ HasStore /\ ~ RowCovers(n, artifact[n])})
    <= faults["error"] + faults["crash"]
==============================================================================
