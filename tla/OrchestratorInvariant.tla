------------------------ MODULE OrchestratorInvariant ------------------------
(***************************************************************************)
(* The inductive invariant behind the theorems about Orchestrator, in      *)
(* named parts.  None of MarkedFirst, CommandBacked, WindowContentStable   *)
(* is inductive alone: each depends on what a worker in the middle of a    *)
(* handler has read, marked and already emitted.  The second part holds    *)
(* while the consumer and the script take turns: behind NoGapInsideWindow, *)
(* LossBound and EffectivelyOnce; the third without faults as well: behind *)
(* the refinement of Batcher.  Batch, about the entries of one read, holds *)
(* for any number of workers and is part of LossBound's proof.             *)
(***************************************************************************)
EXTENDS Orchestrator

\* Where the local variables of a worker stand at each of its steps.
Analysing(p) == pc[p] \in {"graph", "completed", "signals", "command"}

Control(p) ==
  /\ ~ Analysing(p) /\ pc[p] # "delete" /\ why[p] # "reprocess" =>
       held[p] = <<>> /\ win[p] = 0
  /\ pc[p] \in {"off", "idle", "check", "ack", "done"} => why[p] = "none"
  /\ pc[p] = "mark" /\ item[p] \in Messages => why[p] = "none" /\ dest[p] \in Chats
  /\ pc[p] = "mark" /\ item[p] \in Commands =>
       why[p] = "missing" \/ (why[p] = "reprocess" /\ dest[p] \in Chats)
  /\ pc[p] = "mark" => item[p] # None
  /\ why[p] \in {"missing", "reprocess"} => item[p] \in Commands
  /\ pc[p] \in {"load", "push", "size"} =>
       why[p] = "none" /\ item[p] \in Messages /\ dest[p] \in Chats
  /\ pc[p] \in {"flush", "delete"} =>
       why[p] \in {"rollover", "full", "residual"} /\ dest[p] \in Chats
  /\ Analysing(p) =>
       why[p] \in {"rollover", "full", "residual", "reprocess"} /\ dest[p] \in Chats
  /\ why[p] = "rollover" => item[p] \in Messages
  /\ pc[p] = "signals" => sigs[p] > 0
  /\ p = Live /\ pc[p] \notin {"off", "idle", "done"} => item[p] # None

TypeInv == TypeOK /\ \A p \in Workers : Control(p)

\* A message in hand is marked, and so is everything stored, held or emitted.
Marking ==
  /\ \A p \in Workers :
       pc[p] \in {"load", "push"} \/ why[p] = "rollover" => item[p] \in processed
  /\ MarkedFirst

\* Window ids in use are smaller than the next fresh one.
Fresh ==
  /\ \A p \in Workers : win[p] < nextWin
  /\ \A k \in DOMAIN commands : commands[k].win < nextWin

\* A worker that analyses a window of its own has an id no one else holds, and
\* no command carries it yet.
Owning(p) == Analysing(p) /\ why[p] # "reprocess"

Owned ==
  \A p \in Workers : Owning(p) =>
    /\ win[p] # 0
    /\ \A k \in DOMAIN commands : commands[k].win # win[p]
    /\ \A q \in Workers \ {p} : win[q] # win[p]

\* A worker that reprocesses holds what some command for that window carried;
\* so does every row.
Repeats(p) ==
  \E k \in DOMAIN commands :
    /\ commands[k].win = win[p]
    /\ commands[k].chat = dest[p]
    /\ commands[k].msgs = held[p]
    /\ Kept(held[p]) = Elements(held[p])

Reprocessing ==
  /\ \A p \in Workers : why[p] = "reprocess" => Repeats(p)
  /\ \A r \in rows : \E k \in DOMAIN commands : commands[k] = r
  /\ \A k \in DOMAIN commands : Kept(commands[k].msgs) = Elements(commands[k].msgs)

\* What the events already emitted for the analysis under way say.
Emitting(p) ==
  /\ pc[p] \in {"completed", "signals", "command"} =>
       \E i \in DOMAIN preprocessed :
         preprocessed[i] = [win |-> win[p], chat |-> dest[p], msgs |-> held[p]]
  /\ pc[p] \in {"signals", "command"} => \E i \in DOMAIN completed : completed[i] = win[p]

Backing == CommandBacked /\ \A p \in Workers : Emitting(p)

\* What the consumer has of its batch was delivered to it, at most one batch of
\* messages; past the INSERT the message it handles is marked.
Hand ==
  Messages \cap (Elements(todo[Live]) \cup (IF Busy(Live) THEN {item[Live]} ELSE {}))

Batch ==
  /\ Elements(todo[Live]) \subseteq pending \cup acked
  /\ pc[Live] \notin {"off", "idle"} => item[Live] \in pending \cup acked
  /\ IsFiniteSet(Hand) /\ Cardinality(Hand) <= BatchSize
  /\ Busy(Live) /\ pc[Live] \notin {"check", "mark"} /\ item[Live] \in Messages =>
       item[Live] \in processed
  /\ IsFiniteSet(Unhandled) /\ Cardinality(Unhandled) <= BatchSize * Interruptions

Inv ==
  /\ TypeInv
  /\ Marking
  /\ Fresh
  /\ Owned
  /\ Reprocessing
  /\ WindowContentStable
  /\ Backing

-----------------------------------------------------------------------------
(***************************************************************************)
(* One worker at a time: the script is run while the consumer is down.     *)
(***************************************************************************)
Active(p) == pc[p] \notin {"off", "done"}

Alone == \A p, q \in Workers : Active(p) /\ Active(q) => p = q

\* Nothing has failed.
Faultless == \A k \in FaultKinds : faults[k] = 0

\* A worker about to push has compared its message with the end of the list, or
\* has deleted the list.
Pushing ==
  \A p \in Workers : pc[p] = "push" =>
    LET list == window[dest[p]]
    IN  list = <<>> \/ ~ NeedsRollover(list[Len(list)], item[p])

GapInv == Pushing /\ NoGapInsideWindow

\* A message is unmarked until its handler marks it, and goes to the list of its
\* own chat; until then it is in no list, in no analysis and in no event.
Marked(p) == pc[p] \in {"load", "push"} \/ why[p] = "rollover"

Marks(p) == pc[p] = "mark" /\ item[p] \in Messages

\* From the read of a window to the deletion of its list.
Flushing(p) == Owning(p) \/ pc[p] = "delete"

Placed ==
  /\ \A p \in Workers : Marks(p) => item[p] \notin processed
  /\ \A p \in Workers : Marks(p) \/ Marked(p) => dest[p] = Chat[item[p]]
  /\ \A c \in Chats : \A m \in Stored(c) : Chat[m] = c
  /\ \A p \in Workers : Flushing(p) => \A m \in Elements(held[p]) : Chat[m] = dest[p]

Unseen ==
  \A p \in Workers : Marked(p) =>
    /\ \A c \in Chats : item[p] \notin Stored(c)
    /\ item[p] \notin Elements(held[p])
    /\ \A i \in DOMAIN preprocessed : item[p] \notin Elements(preprocessed[i].msgs)

\* A list that is being flushed holds what was read of it, or has expired; when it
\* is deleted, the events of what was read are out.
Covered ==
  \A p \in Workers : Flushing(p) => Stored(dest[p]) \subseteq Elements(held[p])

Deleting ==
  \A p \in Workers : pc[p] = "delete" =>
    /\ \E i \in DOMAIN preprocessed :
         preprocessed[i].win = win[p] /\ preprocessed[i].msgs = held[p]
    /\ \E k \in DOMAIN commands : commands[k].win = win[p]

\* The windows whose first event carries m.
Emitted(m) ==
  {preprocessed[i].win :
     i \in {j \in DOMAIN preprocessed : m \in Elements(preprocessed[j].msgs)}}

\* The analysis under way has emitted m, and will delete it from its list.
Leaving(m) ==
  \E p \in Workers : Flushing(p) /\ pc[p] # "graph" /\ m \in Elements(held[p])

\* m is in an analysis that has emitted nothing, or in a list.
Remaining(m) ==
  \/ m \in Stored(Chat[m])
  \/ \E p \in Workers : Owning(p) /\ pc[p] = "graph" /\ m \in Elements(held[p])

\* As long as m may be emitted once more, each emission so far was interrupted.
Repeated ==
  \A m \in Messages :
    /\ IsFiniteSet(Emitted(m))
    /\ Cardinality(Emitted(m)) <= Interruptions + 1
    /\ Remaining(m) /\ ~ Leaving(m) => Cardinality(Emitted(m)) <= Interruptions

\* A full list is flushed at once; each interruption leaves room for one more.
Short ==
  \A c \in Chats :
    \/ Len(window[c]) < WindowSize + Interruptions
    \/ /\ Len(window[c]) <= WindowSize + Interruptions
       /\ \E p \in Workers : Filling(p) /\ dest[p] = c

Losses ==
  /\ IsFiniteSet(Lost)
  /\ Cardinality(Lost) <= Interruptions + faults["expiry"] * (WindowSize + Interruptions)

LossInv ==
  /\ Placed /\ Unseen /\ Covered /\ Deleting
  /\ Repeated /\ Short /\ Losses

-----------------------------------------------------------------------------
(***************************************************************************)
(* Without faults, too: behind ImplementsBatcher.                          *)
(***************************************************************************)

\* The list stays as it was read until it is deleted.
Intact ==
  \A p \in Workers : Flushing(p) => held[p] # <<>> /\ window[dest[p]] = held[p]

\* What is announced for a window under analysis is what its worker holds.
Announced ==
  /\ \A i \in DOMAIN preprocessed : preprocessed[i].win < nextWin
  /\ \A p \in Workers : Owning(p) =>
       \A i \in DOMAIN preprocessed : preprocessed[i].win = win[p] => preprocessed[i].msgs = held[p]

BatchInv == Intact /\ Announced
==============================================================================
