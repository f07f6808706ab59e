--------------------------- MODULE EmbeddingIndexer ---------------------------
(***************************************************************************)
(* embedding-indexer: the consumer that embeds the narrative of a window   *)
(* and upserts it as the window's point into the Qdrant collection that    *)
(* the alias pil_memory_active names; and the start-up that creates the    *)
(* collection of the configured model and moves the alias to it.           *)
(*                                                                         *)
(* It keeps no processed_event rows: a point's id is the window's id, and  *)
(* an upsert replaces what was there.  A vector and its payload are        *)
(* abstracted to the position of the job they were made from.              *)
(***************************************************************************)
EXTENDS Naturals, Sequences, FiniteSets

CONSTANTS
  Jobs,         \* embedding jobs that can be requested
  PointOf,      \* analysis_window_id of a job
  Models,       \* embedding models; each has a collection of its own
  ModelOf,      \* profile_model of a job: the projector's setting at the time
  Dim,          \* length of a model's vectors
  BatchSize,    \* settings.embedding_batch_size
  MaxJobs,      \* bound: length of the stream
  MaxFaults,    \* bound: how often each kind of fault may strike
  None

FaultKinds == {"error", "crash", "switch"}

ASSUME IndexerAssumption ==
  /\ ModelOf \in [Jobs -> Models]
  /\ Dim \in [Models -> Nat]
  /\ BatchSize \in Nat \ {0}
  /\ MaxJobs \in Nat
  /\ MaxFaults \in [FaultKinds -> Nat]
  /\ None \notin Models

Points == {PointOf[j] : j \in Jobs}

VARIABLES
  jobs,         \* events.ai.embedding_requested
  grouped,      \* the consumer group exists
  cursor,       \* last entry of jobs delivered to the group
  acked,        \* positions of the acknowledged entries
  model,        \* settings.wormsoft_embedding_model
  created,      \* the models whose collection exists
  alias,        \* the model whose collection pil_memory_active names
  points,       \* each collection: the position of the job of each point, or 0
  pc, todo,     \* where the consumer stands, and what is left of its batch
  entry,        \* the entry it handles, 0 if none
  faults        \* faults so far, by kind

bus == <<jobs, grouped, cursor, acked>>
qdrant == <<created, alias, points>>
vars == <<bus, model, qdrant, pc, todo, entry, faults>>

PcStates == {"off", "probe", "collection", "alias", "idle", "embed", "upsert", "ack"}

TypeOK ==
  /\ jobs \in Seq(Jobs)
  /\ grouped \in BOOLEAN
  /\ cursor \in Nat
  /\ acked \subseteq Nat
  /\ model \in Models
  /\ created \subseteq Models
  /\ alias \in Models \cup {None}
  /\ points \in [Models -> [Points -> Nat]]
  /\ pc \in PcStates
  /\ todo \in Seq(Nat \ {0})
  /\ entry \in Nat
  /\ faults \in [FaultKinds -> Nat]

\* The consumer's part of the initial states; jobs is the projector's.
InitIndexer ==
  /\ grouped = FALSE /\ cursor = 0 /\ acked = {}
  /\ model \in Models
  /\ created = {} /\ alias = None
  /\ points = [m \in Models |-> [p \in Points |-> 0]]
  /\ pc = "off" /\ todo = <<>> /\ entry = 0
  /\ faults = [k \in FaultKinds |-> 0]

Init == jobs = <<>> /\ InitIndexer

-----------------------------------------------------------------------------
Goto(from, to) == pc = from /\ pc' = to

Strike(kind) ==
  /\ faults[kind] < MaxFaults[kind]
  /\ faults' = [faults EXCEPT ![kind] = @ + 1]

\* Mutant: the last entry of a batch comes first.
NextEntriesReversed ==
  LET n == IF Len(jobs) < cursor + BatchSize THEN Len(jobs) - cursor ELSE BatchSize
  IN  [i \in 1..n |-> cursor + n + 1 - i]

\* The entries one XREADGROUP returns, as positions in the stream.
NextEntries ==
  LET n == IF Len(jobs) < cursor + BatchSize THEN Len(jobs) - cursor ELSE BatchSize
  IN  [i \in 1..n |-> cursor + i]

\* memory-projector requests an embedding.
Request(j) ==
  /\ jobs' = Append(jobs, j)
  /\ UNCHANGED <<grouped, cursor, acked, model, qdrant, pc, todo, entry, faults>>

Publish(j) == Len(jobs) < MaxJobs /\ Request(j)

-----------------------------------------------------------------------------
(***************************************************************************)
(* Start-up.                                                               *)
(***************************************************************************)

\* The group is created at "$": entries older than it are never delivered.
Start ==
  /\ Goto("off", "probe")
  /\ grouped' = TRUE
  /\ cursor' = IF grouped THEN cursor ELSE Len(jobs)
  /\ UNCHANGED <<jobs, acked, model, qdrant, todo, entry, faults>>

\* One request tells the length of the model's vectors.
Probe ==
  /\ Goto("probe", "collection")
  /\ UNCHANGED <<bus, model, qdrant, todo, entry, faults>>

EnsureCollection ==
  /\ Goto("collection", "alias")
  /\ created' = created \cup {model}
  /\ UNCHANGED <<bus, model, alias, points, todo, entry, faults>>

\* Delete and create are one request: the alias moves, or is created.
EnsureAlias ==
  /\ Goto("alias", "idle")
  /\ alias' = model
  /\ UNCHANGED <<bus, model, created, points, todo, entry, faults>>

-----------------------------------------------------------------------------
(***************************************************************************)
(* The consumer's loop.                                                    *)
(***************************************************************************)
Fetch ==
  /\ pc = "idle" /\ todo = <<>>
  /\ cursor < Len(jobs)
  /\ todo' = NextEntries
  /\ cursor' = cursor + Len(NextEntries)
  /\ UNCHANGED <<jobs, grouped, acked, model, qdrant, pc, entry, faults>>

Take ==
  /\ todo # <<>>
  /\ Goto("idle", "embed")
  /\ entry' = Head(todo)
  /\ todo' = Tail(todo)
  /\ UNCHANGED <<bus, model, qdrant, faults>>

\* The vector is the job's model's, not the configured one's.
Embed ==
  /\ Goto("embed", "upsert")
  /\ UNCHANGED <<bus, model, qdrant, todo, entry, faults>>

job == jobs[entry]

\* Mutant: the length is not looked at.
FitsAnything == TRUE

\* Qdrant refuses a vector whose length is not the collection's.
Fits == Dim[ModelOf[job]] = Dim[alias]

Write == points' = [points EXCEPT ![alias] = [@ EXCEPT ![PointOf[job]] = entry]]

\* Mutant: a point that exists is not replaced.
InsertOnly ==
  /\ Goto("upsert", "ack")
  /\ IF Fits /\ points[alias][PointOf[job]] = 0 THEN Write ELSE UNCHANGED points
  /\ UNCHANGED <<bus, model, created, alias, todo, entry, faults>>

\* Refused or not, the entry is acknowledged next.
Upsert ==
  /\ Goto("upsert", "ack")
  /\ IF Fits THEN Write ELSE UNCHANGED points
  /\ UNCHANGED <<bus, model, created, alias, todo, entry, faults>>

Ack ==
  /\ Goto("ack", "idle")
  /\ acked' = acked \cup {entry}
  /\ entry' = 0
  /\ UNCHANGED <<jobs, grouped, cursor, model, qdrant, todo, faults>>

-----------------------------------------------------------------------------
(***************************************************************************)
(* Faults.                                                                 *)
(***************************************************************************)

\* The embedding request or the upsert raises; the upsert may have been done.
Error ==
  /\ pc \in {"embed", "upsert"}
  /\ Strike("error")
  /\ pc' = "ack"
  /\ \/ UNCHANGED points
     \/ pc = "upsert" /\ Fits /\ Write
  /\ UNCHANGED <<bus, model, created, alias, todo, entry>>

\* The entries went to the consumer's pending list, their reply to nobody.
LoseReply ==
  /\ pc = "idle" /\ todo = <<>>
  /\ cursor < Len(jobs)
  /\ Strike("error")
  /\ cursor' = cursor + Len(NextEntries)
  /\ UNCHANGED <<jobs, grouped, acked, model, qdrant, pc, todo, entry>>

\* The process dies, or an exception at start-up ends it.
Crash ==
  /\ pc # "off"
  /\ Strike("crash")
  /\ pc' = "off"
  /\ todo' = <<>> /\ entry' = 0
  /\ UNCHANGED <<bus, model, qdrant>>

\* SIGTERM while a job is handled: "finally" still acknowledges the entry.
Cancel ==
  /\ pc \in {"embed", "upsert", "ack"}
  /\ Strike("crash")
  /\ pc' = "off"
  /\ acked' = acked \cup {entry}
  /\ todo' = <<>> /\ entry' = 0
  /\ UNCHANGED <<jobs, grouped, cursor, model, qdrant>>

\* The service is deployed with another model; jobs of the old one may still be
\* on the stream.
Redeploy ==
  /\ pc = "off"
  /\ Strike("switch")
  /\ model' \in Models \ {model}
  /\ UNCHANGED <<bus, qdrant, pc, todo, entry>>

-----------------------------------------------------------------------------
Consume ==
  \/ Start \/ Probe \/ EnsureCollection \/ EnsureAlias
  \/ Fetch \/ Take \/ Embed \/ Upsert \/ Ack

Fault == Error \/ LoseReply \/ Crash \/ Cancel \/ Redeploy

Index == Consume \/ Fault

Next == (\E j \in Jobs : Publish(j)) \/ Index

Spec == Init /\ [][Next]_vars

\* asyncio keeps resuming the consumer task, and compose restarts the process.
FairSpec == Spec /\ WF_vars(Consume)

-----------------------------------------------------------------------------
\* The last job for point p that has been acknowledged.
LastAcked(p) ==
  LET S == {i \in acked : PointOf[jobs[i]] = p}
  IN  IF S = {} THEN 0 ELSE CHOOSE i \in S : \A k \in S : k <= i

\* A point was made from a job of its window that has been delivered, and lives
\* in a collection that exists and whose vectors have its length.
PointsSound ==
  \A m \in Models : \A p \in Points :
    LET i == points[m][p]
    IN  i # 0 => /\ m \in created
                 /\ i <= cursor
                 /\ PointOf[jobs[i]] = p
                 /\ Dim[ModelOf[jobs[i]]] = Dim[m]

\* Projector and indexer have had one and the same model all along.
SameModel == faults["switch"] = 0 /\ \A i \in DOMAIN jobs : ModelOf[jobs[i]] = model

\* While both services are configured with one model, each point that is behind
\* the last acknowledged job of its window costs a fault of its own.
BehindOnlyByFault ==
  SameModel /\ alias # None =>
    Cardinality({p \in Points : points[alias][p] < LastAcked(p)})
      <= faults["error"] + faults["crash"]

\* Without faults, and with one model, a job requested once the group exists is
\* searchable in the end, or a newer one of its window is.
EveryJobIndexed ==
  \A p \in Points : \A n \in 1..MaxJobs :
    (grouped /\ n > cursor /\ n <= Len(jobs) /\ PointOf[jobs[n]] = p) ~>
      \/ alias # None /\ points[alias][p] >= n
      \/ \E k \in FaultKinds : faults[k] > 0
      \/ ~ SameModel
==============================================================================
