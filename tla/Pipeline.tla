------------------------------- MODULE Pipeline -------------------------------
(***************************************************************************)
(* memory-projector and embedding-indexer together, joined by the stream   *)
(* events.ai.embedding_requested: what search shows of the windows that    *)
(* Postgres holds.  One embedding model is configured throughout; changes  *)
(* of it are EmbeddingIndexer's own runs.                                  *)
(***************************************************************************)
EXTENDS MemoryProjector

CONSTANTS
  EmbeddingModel,  \* the one model
  IndexBatch,      \* settings.embedding_batch_size
  IndexFaults      \* bound: faults of the indexer, by kind

ASSUME PipelineAssumption ==
  /\ IndexBatch \in Nat \ {0}
  /\ IndexFaults \in [FaultKinds \cup {"switch"} -> Nat]
  /\ EmbeddingModel # None

VARIABLES
  ixGrouped, ixCursor, ixAcked, ixModel, created, alias, points,
  ixPc, ixTodo, ixEntry, ixFaults

indexer == <<ixGrouped, ixCursor, ixAcked, ixModel, created, alias, points,
             ixPc, ixTodo, ixEntry, ixFaults>>

Indexer == INSTANCE EmbeddingIndexer WITH
  Jobs <- Commands, PointOf <- WindowOf, Models <- {EmbeddingModel},
  ModelOf <- [c \in Commands |-> EmbeddingModel], Dim <- [m \in {EmbeddingModel} |-> 1],
  BatchSize <- IndexBatch, MaxJobs <- 0, MaxFaults <- IndexFaults,
  grouped <- ixGrouped, cursor <- ixCursor, acked <- ixAcked, model <- ixModel,
  pc <- ixPc, todo <- ixTodo, entry <- ixEntry, faults <- ixFaults

\* Everything of the projector but the stream the indexer reads.
projectorOnly == <<bus, windowTables, tasks, stores, updates, pc, todo, entry,
                   locals, faults>>

InitPipeline == Init /\ Indexer!InitIndexer

Project == Next /\ UNCHANGED indexer

Search == Indexer!Index /\ UNCHANGED projectorOnly

NextPipeline == Project \/ Search

PipelineSpec == InitPipeline /\ [][NextPipeline]_<<vars, indexer>>

FairPipelineSpec ==
  /\ PipelineSpec
  /\ WF_<<vars, indexer>>(Consume /\ UNCHANGED indexer)
  /\ WF_<<vars, indexer>>(Indexer!Consume /\ UNCHANGED projectorOnly)

-----------------------------------------------------------------------------
\* The command whose narrative the point of window w was made from.
Indexed(w) == alias # None /\ w \in Indexer!Points /\ points[alias][w] # 0
Found(w) == IF Indexed(w) THEN jobs[points[alias][w]] ELSE None

\* The versions of the windows are the projections, as the audit log has them.
VersionFound(w) ==
  IF Indexed(w) THEN CHOOSE i \in DOMAIN audit : audit[i] = Found(w) ELSE 0

Searchable == INSTANCE SearchableMemory WITH
  Keys <- Windows, Values <- Commands, KeyOf <- WindowOf,
  history <- audit,
  shown <- [w \in Windows |-> VersionFound(w)]

\* Whatever fails in either service, search never shows a version of a window
\* that is not committed, and never goes back to an older one.
ImplementsSearchable == Searchable!SearchableSpec

Quiet ==
  /\ pc = "idle" /\ todo = <<>>
  /\ ixPc = "idle" /\ ixTodo = <<>> /\ ixCursor = Len(jobs)

\* The indexer is started before the first job is sent: jobs older than its
\* group are never read.
IndexerFirst == jobs # <<>> => ixGrouped

\* When both services have caught up, search shows every row as it is, but for
\* one window per fault of the projector and one batch per fault of the indexer.
LagBound ==
  Quiet =>
    Cardinality({w \in Windows : rows[w] # Found(w)})
      <= AllFaults + IndexBatch * (ixFaults["error"] + ixFaults["crash"])

\* Without faults, a version committed while the indexer's group exists is found
\* in the end, unless a newer one of its window is committed.
EventuallySearchable ==
  \A w \in Windows : \A c \in Commands :
    (ixGrouped /\ rows[w] = c /\ c \notin Elements(jobs)) ~>
      \/ Found(w) = c
      \/ rows[w] # c
      \/ AllFaults + ixFaults["error"] + ixFaults["crash"] > 0
==============================================================================
