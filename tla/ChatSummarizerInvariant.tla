----------------------- MODULE ChatSummarizerInvariant -----------------------
(***************************************************************************)
(* The inductive invariant behind the theorems about ChatSummarizer, in    *)
(* named parts.                                                            *)
(***************************************************************************)
EXTENDS ChatSummarizer

Handling == pc \notin {"off", "idle"}
Flushing == pc \in {"read", "summarize", "store", "emit", "commit", "delete"}
HasBatch == pc \in {"summarize", "store", "emit", "commit", "delete"}
Delivered == UNION {{<<k, i>> : i \in 1..cursor[k]} : k \in Kinds}

\* Where the consumer's locals stand.
Control ==
  /\ \A k \in Kinds : /\ cursor[k] <= Len(log[k])
                      /\ \A i \in DOMAIN log[k] : Kind[log[k][i]] = k
  /\ acked \subseteq Delivered
  /\ \A i \in DOMAIN todo : todo[i] \in Delivered
  /\ IF Handling THEN entry \in Delivered ELSE entry = <<>>
  /\ pc = "off" => todo = <<>>
  /\ pc \in {"roll", "push", "full"} \/ Flushing => entry[1] = "message"
  /\ pc \in {"scan", "clear", "rewrite"} => entry[1] = "edited" /\ event \in processed
  /\ pc = "mark" => event \notin processed
  /\ HasBatch => batch # <<>> /\ window[chat] \in {batch, <<>>}
  /\ pc = "clear" => window[chat] \in {batch, <<>>}
  /\ pc = "rewrite" => window[chat] = <<>>

TypeInv == TypeOK /\ Control

-----------------------------------------------------------------------------
\* The interactions whose row, object and last event differ.
Torn ==
  {n \in DOMAIN artifact : /\ ~(pc \in {"emit", "commit"} /\ n = interactionId)
                           /\ \/ ~ RowCovers(n, LastUpdate(n))
                              \/ HasStore /\ ~ RowCovers(n, artifact[n])}

\* What a flush has put out before its commit is what it will commit.
Agreement ==
  /\ \A k \in Keys : ids[k] \in 0..Len(artifact)
  /\ pc \in {"emit", "commit"} => interactionId \in DOMAIN artifact
  /\ pc \in {"emit", "commit"} /\ HasStore => artifact[interactionId] = batch
  /\ pc = "commit" => LastUpdate(interactionId) = batch
  /\ IsFiniteSet(Torn)
  /\ Cardinality(Torn) <= faults["error"] + faults["crash"]

-----------------------------------------------------------------------------
\* The list a message has just been pushed to, until it is flushed.
Brim(c) == (pc = "full" \/ (Flushing /\ after = "ack")) /\ c = chat

\* A list is full once too often for every fault that undid a flush.
Lengths ==
  /\ \A c \in Chats :
       /\ Len(window[c]) <= LongestList
       /\ ~ Brim(c) => Len(window[c]) < LongestList
  /\ pc \in {"clear", "rewrite"} => Len(batch) < LongestList

\* Every row was announced, and the row about to be written is the last one.
RowsAnnounced ==
  /\ \A k \in Keys : interactions[k] # <<>> =>
       \E i \in DOMAIN updates : updates[i].key = k /\ updates[i].covers = interactions[k]
  /\ pc = "commit" => /\ updates # <<>>
                      /\ updates[Len(updates)].key = key
                      /\ updates[Len(updates)].covers = batch
  /\ pc = "delete" => interactions[key] = batch

\* The message in hand is marked and not on its list yet.
Unpushed == pc \in {"roll", "push"} \/ (Flushing /\ after = "push")

Superseded(m) ==
  \E i, j \in DOMAIN updates :
    i < j /\ updates[j].key = updates[i].key /\ m \in Of(updates[i].covers)

\* Message m is in a list, in a list about to be written back, in a row, or in
\* one that was replaced.
Kept(m) ==
  \/ \E c \in Chats : m \in Of(window[c])
  \/ pc = "rewrite" /\ m \in Of(batch)
  \/ \E k \in Keys : m \in Of(interactions[k])
  \/ Superseded(m)

\* What is lost, of the messages whose handling is over as well as under way.
Gone == {m \in processed : Kind[m] = "message" /\ ~(Unpushed /\ m = event) /\ ~ Kept(m)}

PerFault == IF \E e \in processed : Kind[e] = "edited" THEN LongestList ELSE 1

Losses ==
  /\ IsFiniteSet(Gone)
  /\ Cardinality(Gone) <= (faults["error"] + faults["crash"]) * PerFault
                            + faults["expiry"] * LongestList

-----------------------------------------------------------------------------
\* No entry is handled twice.
Fresh ==
  /\ entry \notin acked
  /\ \A i \in DOMAIN todo : todo[i] \notin acked /\ todo[i] # entry
  /\ \A i, j \in DOMAIN todo : i # j => todo[i] # todo[j]

Calm == ~ overflow /\ FaultsSoFar = 0

\* Without faults an event is on its stream once and is handled once.
Once ==
  /\ dlq = {}
  /\ \A k \in Kinds : \A i, j \in DOMAIN log[k] : log[k][i] = log[k][j] => i = j
  /\ \A d \in Delivered : d \in acked \/ d = entry \/ d \in Elements(todo)
  /\ \A e \in processed : \E d \in Delivered :
       /\ log[d[1]][d[2]] = e
       /\ d \in acked \/ (d = entry /\ pc \notin {"check", "mark"})

\* The message an edit is of has been handled when the edit is.
MessageFirst ==
  /\ \A i, j \in DOMAIN todo : i < j /\ todo[i][1] = "edited" => todo[j][1] = "edited"
  /\ Handling /\ entry[1] = "edited" => \A i \in DOMAIN todo : todo[i][1] = "edited"
  /\ \A i \in DOMAIN log["edited"] : \E j \in DOMAIN log["message"] :
       LET e == log["edited"][i]
           m == log["message"][j]
       IN  /\ Id[m] = Id[e] /\ Chat[m] = Chat[e]
           /\ i <= cursor["edited"] => j <= cursor["message"]
           /\ <<"edited", i>> \in acked \cup {entry} => <<"message", j>> \in acked

\* The list as it stands, or as it was read to be written back.
Listed(c) == IF pc \in {"clear", "rewrite"} /\ c = chat THEN batch ELSE window[c]

Settled(i) == <<"edited", i>> \in acked \/ (pc = "ack" /\ entry = <<"edited", i>>)

NewTexts ==
  \A i \in DOMAIN log["edited"], c \in Chats : \A n \in DOMAIN Listed(c) :
    LET e == log["edited"][i]
        x == Listed(c)[n]
    IN  /\ Settled(i) /\ e \notin Blank
        /\ Id[x.of] = Id[e] /\ c = Chat[e]
        /\ \A m \in Elements(log["message"]) : Id[m] = Id[e] => m = x.of
        => Kind[x.text] = "edited"

CalmInv == Calm => Once /\ MessageFirst /\ NewTexts

Inv ==
  /\ TypeInv
  /\ Agreement
  /\ Lengths
  /\ RowsAnnounced
  /\ Losses
  /\ Fresh
  /\ CalmInv
==============================================================================
