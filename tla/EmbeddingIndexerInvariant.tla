---------------------- MODULE EmbeddingIndexerInvariant ----------------------
(***************************************************************************)
(* The inductive invariant behind the theorems about EmbeddingIndexer, in  *)
(* named parts.                                                            *)
(***************************************************************************)
EXTENDS EmbeddingIndexer

\* The steps, whatever the bound on the stream.
Step == (\E j \in Jobs : Request(j)) \/ Index

Handling == pc \in {"embed", "upsert", "ack"}
Delivered == 1..cursor

\* Where the consumer's locals stand, and that the alias leads somewhere.
Control ==
  /\ cursor <= Len(jobs)
  /\ acked \subseteq Delivered
  /\ \A i \in DOMAIN todo : todo[i] \in Delivered
  /\ IF Handling THEN entry \in Delivered ELSE entry = 0
  /\ pc \in {"off", "probe", "collection", "alias"} => todo = <<>>
  /\ pc = "alias" => model \in created
  /\ pc \in {"idle", "embed", "upsert", "ack"} => alias # None
  /\ alias # None => alias \in created
  /\ alias = None => acked = {}

TypeInv == TypeOK /\ Control

\* Entries are handled in the order of the stream.
InTurn ==
  /\ \A i \in DOMAIN todo : \A a \in acked : a < todo[i]
  /\ \A i, j \in DOMAIN todo : i < j => todo[i] < todo[j]
  /\ Handling => /\ \A a \in acked : a < entry
                 /\ \A i \in DOMAIN todo : entry < todo[i]

\* An upsert never replaces a later one: nothing is in a collection that was made
\* from a job after the one in hand, or from one that is still to be handled.
Forward ==
  \A m \in Models : \A p \in Points :
    /\ alias = None => points[m][p] = 0
    /\ \A i \in DOMAIN todo : points[m][p] < todo[i]
    /\ Handling => points[m][p] <= entry

\* Until a deployment changes the model the alias is its collection's.
Named == faults["switch"] = 0 => alias \in {None, model}

\* The points that are behind, and the one that will be once the entry in hand
\* is acknowledged.
Behind ==
  {p \in Points : \/ points[alias][p] < LastAcked(p)
                  \/ pc = "ack" /\ p = PointOf[job] /\ points[alias][p] < entry}

Owed ==
  SameModel /\ alias # None => Cardinality(Behind) <= faults["error"] + faults["crash"]

(***************************************************************************)
(* What is behind when the service is idle.  Unlike BehindOnlyByFault it   *)
(* counts entries that were never acknowledged, and so a fault may cost a  *)
(* batch.  The group has to exist before the first job is sent: an entry   *)
(* older than the group is not delivered, and no fault.                    *)
(***************************************************************************)
Served == jobs # <<>> => grouped

\* Jobs that were delivered, are not in hand or to come, and did not get into
\* the collection, nor did a later one of their window.
Skipped ==
  {i \in Delivered :
     /\ points[model][PointOf[jobs[i]]] < i
     /\ \A n \in DOMAIN todo : todo[n] # i
     /\ ~ (pc \in {"embed", "upsert"} /\ i = entry)}

SkippedBound ==
  SameModel => Cardinality(Skipped) <= BatchSize * (faults["error"] + faults["crash"])

\* A group that does not exist has delivered nothing.
Ungrouped == ~ grouped => pc = "off" /\ cursor = 0

\* The process has at most one batch of entries.
Batches ==
  /\ Ungrouped
  /\ IF Handling THEN Len(todo) < BatchSize ELSE Len(todo) <= BatchSize

Inv ==
  /\ TypeInv
  /\ PointsSound
  /\ InTurn
  /\ Forward
  /\ Named
  /\ Owed
==============================================================================
