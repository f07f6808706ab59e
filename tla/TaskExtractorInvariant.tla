------------------------ MODULE TaskExtractorInvariant ------------------------
(***************************************************************************)
(* The inductive invariant behind the theorems about TaskExtractor, in     *)
(* named parts.                                                            *)
(***************************************************************************)
EXTENDS TaskExtractor

\* An entry that is on its stream.
OnStream(x) == x \in Entries /\ x[2] <= Len(log[x[1]])

\* Where the consumer's locals stand at each of its steps.
Control ==
  /\ \A k \in Kinds : \A i \in DOMAIN log[k] : Kind[log[k][i]] = k
  /\ \A k \in Kinds : cursor[k] <= Len(log[k])
  /\ \A i \in DOMAIN todo : OnStream(todo[i])
  /\ pc \notin {"off", "idle"} => OnStream(entry)
  /\ pc \in {"resolve", "create", "created"} => entry[1] = "message"
  /\ pc = "find" => entry[1] # "deleted"
  /\ pc = "update" => entry[1] = "edited"
  /\ pc = "drop" => entry[1] = "deleted"
  /\ pc = "announce" => entry[1] # "edited"
  /\ pc \in {"created", "update", "announce"} => ids # <<>>
  /\ Elements(ids) \subseteq DOMAIN tasks

TypeInv == TypeOK /\ Control

\* Between lookup and INSERT only memory-projector can have made a row.
Single ==
  /\ OneTaskPerMessage
  /\ pc = "create" => \A t \in Rows(ref) : tasks[t].by = "memory-projector"

\* The tasks of this service's making that are not announced, and will not be.
Unannounced ==
  {t \in Made \ Elements(created) : ~ (pc = "created" /\ t = ids[1])}

Creation ==
  /\ \A i, j \in DOMAIN created : created[i] = created[j] => i = j
  /\ Elements(created) \subseteq Made
  /\ pc = "created" => ids[1] \in Made \ Elements(created)
  /\ Cardinality(Unannounced) <= FaultsSoFar

\* The only rows of their messages that this service has closed and will not
\* tell of.
Untold ==
  {t \in DOMAIN tasks :
     /\ tasks[t].status # "open" /\ tasks[t].setBy = "service"
     /\ <<t, tasks[t].status>> \notin Elements(resolved)
     /\ ~ (pc = "announce" /\ t \in Elements(ids))
     /\ Rows(tasks[t].ref) = {t}}

\* What is being announced is what the row says, unless the admin has changed it.
Closing == IF Kind[event] = "deleted" THEN "dropped" ELSE "done"

Closure ==
  /\ pc = "announce" =>
       \A t \in Elements(ids) : tasks[t].setBy = "service" => tasks[t].status = Closing
  /\ Cardinality(Untold) <= FaultsSoFar * Cardinality(Messages)

-----------------------------------------------------------------------------
(***************************************************************************)
(* A run without faults whose streams never hold more than a batch returns. *)
(***************************************************************************)
Calm == ~ overflow /\ FaultsSoFar = 0

Delivered == UNION {{<<k, i>> : i \in 1..cursor[k]} : k \in Kinds}

\* No entry is handled twice.
Fresh ==
  /\ acked \subseteq Delivered /\ Elements(todo) \subseteq Delivered
  /\ IF pc \in {"off", "idle"} THEN entry = <<>> ELSE entry \in Delivered \ acked
  /\ \A i \in DOMAIN todo : todo[i] \notin acked /\ todo[i] # entry
  /\ \A i, j \in DOMAIN todo : i # j => todo[i] # todo[j]

\* An entry whose event has had its effect on the task table.
Settled(x) == x \in acked \/ (x = entry /\ pc \in {"announce", "mark", "ack"})

\* An event is on its stream once, and handled once.
Once ==
  /\ dlq = {}
  /\ \A k \in Kinds : \A i, j \in DOMAIN log[k] : log[k][i] = log[k][j] => i = j
  /\ Delivered \subseteq acked \cup Elements(todo) \cup {entry}
  /\ \A e \in processed : \E x \in Delivered : Settled(x) /\ log[x[1]][x[2]] = e

Later == {"edited", "deleted"}

\* Entry j announces message m, and is handled before entry i of stream k.
Precedes(j, m, k, i) ==
  /\ m \in Refs[log["message"][j]]
  /\ i <= cursor[k] => j <= cursor["message"]
  /\ <<k, i>> \in acked \cup {entry} => <<"message", j>> \in acked

\* The messages a later event is about have been handled when it is.
MessageFirst ==
  /\ \A i, j \in DOMAIN todo : i < j /\ todo[j][1] = "message" => todo[i][1] = "message"
  /\ entry # <<>> /\ entry[1] # "message" => \A i \in DOMAIN todo : todo[i][1] # "message"
  /\ \A k \in Later : \A i \in DOMAIN log[k] : \A m \in Refs[log[k][i]] :
       \E j \in DOMAIN log["message"] : Precedes(j, m, k, i)

\* Of the rows of one message, this service's is the last.
MadeLast == \A t \in Made, u \in DOMAIN tasks : tasks[u].ref = tasks[t].ref => u <= t

\* Row t is as an event handled later than its message left it.
UpToDate(t, k, i) ==
  tasks[t].status = "open" /\ tasks[t].setBy = "service" =>
    /\ k = "edited"
    /\ Confidence(log[k][i]) = 0 \/ tasks[t].text = None \/ Kind[tasks[t].text] = "edited"

Applied ==
  /\ pc = "update" => \A t \in Made : tasks[t].ref = ref => ids[1] = t
  /\ \A k \in Later : \A i \in DOMAIN log[k], t \in Made :
       /\ Settled(<<k, i>>)
       /\ tasks[t].ref \in Refs[log[k][i]] /\ SentOnce(tasks[t].ref)
       => UpToDate(t, k, i)

CalmInv == Calm => Fresh /\ Once /\ MessageFirst /\ MadeLast /\ Applied

Inv ==
  /\ TypeInv
  /\ Single
  /\ Creation
  /\ Closure
  /\ CalmInv
==============================================================================
