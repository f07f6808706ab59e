------------------------------- MODULE Erasure -------------------------------
(***************************************************************************)
(* The erasure of a person: mcp-rest-api's background job (and the admin   *)
(* page, which runs the same cascade inline), next to memory-projector and *)
(* embedding-indexer, which go on writing about the person.                *)
(*                                                                         *)
(* The cascade deletes in one Postgres transaction, then cleans Qdrant,    *)
(* Neo4j and the object store, each on its own and best effort, and writes *)
(* an audit entry.  Its jobs are held in the memory of the process.        *)
(*                                                                         *)
(* A person row's id is a number, used once: a person whose row is gone    *)
(* gets another row, with another id, when a window names it again.  Rows  *)
(* that follow the person row by a foreign key (memberships, mentions,     *)
(* annotations) are left out.  Projector and indexer are what this module  *)
(* needs of MemoryProjector and EmbeddingIndexer.                          *)
(***************************************************************************)
EXTENDS Naturals, Sequences, FiniteSets

CONSTANTS
  People,        \* tg_user_ids
  Owners,        \* people whose row is_owner, or backs the owner profile
  Windows,       \* analysis windows
  Senders,       \* a window's senders, in order of first appearance
  Keys,          \* chats with a window start
  KeyOf,         \* those of a window: windows may share an interaction row
  HasTask,       \* windows whose analysis has a task
  Jobs,          \* erase requests
  HasGraph,      \* a Neo4j driver is configured
  HasStore,      \* S3Client.is_configured
  MaxProjections,\* bound: how often one window is projected
  MaxFaults,     \* bound: how often each kind of fault may strike
  None

FaultKinds == {"error", "restart"}
Elements(s) == {s[i] : i \in DOMAIN s}

ASSUME ErasureAssumption ==
  /\ Owners \subseteq People
  /\ Senders \in [Windows -> Seq(People)]
  /\ KeyOf \in [Windows -> Keys]
  /\ HasTask \subseteq Windows
  /\ HasGraph \in BOOLEAN /\ HasStore \in BOOLEAN
  /\ MaxProjections \in Nat
  /\ MaxFaults \in [FaultKinds -> Nat]
  /\ None \notin Windows

VARIABLES
  ids,           \* id of a person's row, 0 if there is none
  lastId,        \* the last id given out
  rows,          \* analysis_window with its facts and signals: whom it names
  interactions,  \* interaction rows: participants and source_object_ref
  tasks,         \* the task of a window: owner and counterpart
  artifact,      \* S3: whom the object of a window names
  graph,         \* Neo4j: Person nodes
  points,        \* Qdrant: person_ids of a window's point
  commands,      \* projection commands on their stream
  sent,          \* how often a window was projected, or is about to be
  proj,          \* the command memory-projector has committed, and what is left of it
  embed,         \* embedding jobs on their stream
  job,           \* the erase jobs: step, target, what was collected, warnings
  audit,         \* audit_log rows "system.erase.person"
  started,       \* history: ids whose rows an erase has collected
  raced,         \* history: what was written of an id after that
  faults         \* faults so far, by kind

postgres == <<ids, lastId, rows, interactions, tasks>>
derived == <<artifact, graph, points>>
projector == <<commands, sent, proj, embed>>
vars == <<postgres, derived, projector, job, audit, started, raced, faults>>

Id == Nat
Steps == {"none", "queued", "collect", "commit", "points", "graph", "objects", "audit",
          "done", "failed", "lost"}
NoRow == [who |-> {}, ref |-> None]
NoTask == [owner |-> 0, counterpart |-> 0]
NoJob == [at |-> "none", person |-> None, id |-> 0, windows |-> {}, keys |-> {},
          refs |-> {}, blind |-> {}, tasks |-> {}, warned |-> FALSE]

TypeOK ==
  /\ ids \in [People -> Id] /\ lastId \in Nat
  /\ rows \in [Windows -> SUBSET Id]
  /\ interactions \in [Keys -> [who : SUBSET Id, ref : Windows \cup {None}]]
  /\ tasks \in [Windows -> [owner : Id, counterpart : Id]]
  /\ artifact \in [Windows -> SUBSET Id]
  /\ graph \subseteq Id
  /\ points \in [Windows -> SUBSET Id]
  /\ commands \in Seq(Windows)
  /\ sent \in [Windows -> Nat]
  /\ proj \in [at : {"idle", "graph", "job"}, win : Windows \cup {None}, who : SUBSET Id]
  /\ embed \in Seq([win : Windows, who : SUBSET Id])
  /\ job \in [Jobs -> [at : Steps, person : People \cup {None}, id : Id,
                       windows : SUBSET Windows, keys : SUBSET Keys, refs : SUBSET Windows,
                       blind : SUBSET Windows, tasks : SUBSET Windows, warned : BOOLEAN]]
  /\ audit \subseteq [id : Id, warned : BOOLEAN, blind : SUBSET Windows]
  /\ started \subseteq Id
  /\ raced \subseteq Windows \X Id
  /\ faults \in [FaultKinds -> Nat]

NoProj == [at |-> "idle", win |-> None, who |-> {}]

Init ==
  /\ ids = [p \in People |-> 0] /\ lastId = 0
  /\ rows = [w \in Windows |-> {}]
  /\ interactions = [k \in Keys |-> NoRow]
  /\ tasks = [w \in Windows |-> NoTask]
  /\ artifact = [w \in Windows |-> {}] /\ graph = {} /\ points = [w \in Windows |-> {}]
  /\ commands = <<>> /\ sent = [w \in Windows |-> 0]
  /\ proj = NoProj /\ embed = <<>>
  /\ job = [j \in Jobs |-> NoJob]
  /\ audit = {} /\ started = {} /\ raced = {}
  /\ faults = [k \in FaultKinds |-> 0]

-----------------------------------------------------------------------------
Strike(kind) ==
  /\ faults[kind] < MaxFaults[kind]
  /\ faults' = [faults EXCEPT ![kind] = @ + 1]

\* Written of window w, naming the ids of who.
Note(w, who) == raced' = raced \cup ({w} \X (who \cap started))

-----------------------------------------------------------------------------
(***************************************************************************)
(* memory-projector and embedding-indexer.                                 *)
(***************************************************************************)

\* A window is analysed, or one that has a row is reprocessed.
Send(w) ==
  /\ sent[w] < MaxProjections
  /\ sent[w] = 0 \/ rows[w] # {}
  /\ sent' = [sent EXCEPT ![w] = @ + 1]
  /\ commands' = Append(commands, w)
  /\ UNCHANGED <<postgres, derived, proj, embed, job, audit, started, raced, faults>>

\* The ids of the senders of w: those without a row get the next ids.
Known(w) == {p \in Elements(Senders[w]) : ids[p] # 0}
Ensured(w) ==
  LET new == Elements(Senders[w]) \ Known(w)
      rank == CHOOSE r \in [new -> 1..Cardinality(new)] :
                \A p, q \in new : r[p] = r[q] => p = q
  IN  [p \in People |-> IF p \in new THEN lastId + rank[p] ELSE ids[p]]

OwnerId(known) ==
  LET mine == {known[p] : p \in {q \in Owners : known[q] # 0}}
  IN  IF mine = {} THEN {0} ELSE mine

Coalesce(new, old) == IF new = 0 THEN old ELSE new

\* The transaction, with the artifact written inside it.
Project ==
  /\ proj.at = "idle" /\ commands # <<>>
  /\ LET w == Head(commands)
         known == Ensured(w)
         who == {known[p] : p \in Elements(Senders[w])}
     IN  /\ ids' = known
         /\ lastId' = lastId + Cardinality(who \ {ids[p] : p \in People})
         /\ rows' = [rows EXCEPT ![w] = who]
         /\ interactions' = [interactions EXCEPT ![KeyOf[w]] =
                               [who |-> who, ref |-> IF HasStore THEN w ELSE @.ref]]
         /\ \E o \in OwnerId(known) :
              tasks' = IF w \notin HasTask THEN tasks ELSE
                [tasks EXCEPT ![w] =
                   [owner |-> Coalesce(o, @.owner),
                    counterpart |-> IF Senders[w] = <<>> THEN @.counterpart
                                    ELSE known[Senders[w][1]]]]
         /\ artifact' = IF HasStore THEN [artifact EXCEPT ![w] = who] ELSE artifact
         /\ proj' = [at |-> "graph", win |-> w, who |-> who]
         /\ Note(w, who)
  /\ commands' = Tail(commands)
  /\ UNCHANGED <<graph, points, sent, embed, job, audit, started, faults>>

\* The transaction is rolled back after the artifact was written, and the
\* command is acknowledged all the same.
ProjectFails ==
  /\ proj.at = "idle" /\ commands # <<>>
  /\ Strike("error")
  /\ LET w == Head(commands)
         known == Ensured(w)
         who == {known[p] : p \in Elements(Senders[w])}
     IN  /\ lastId' = lastId + Cardinality(who \ {ids[p] : p \in People})
         /\ artifact' = IF HasStore THEN [artifact EXCEPT ![w] = who] ELSE artifact
         /\ Note(w, who)
  /\ commands' = Tail(commands)
  /\ UNCHANGED <<ids, rows, interactions, tasks, graph, points, sent, proj, embed, job, audit,
                 started>>

ProjectGraph ==
  /\ proj.at = "graph"
  /\ proj' = [proj EXCEPT !.at = "job"]
  /\ graph' = IF HasGraph THEN graph \cup proj.who ELSE graph
  /\ Note(proj.win, proj.who)
  /\ UNCHANGED <<postgres, artifact, points, commands, sent, embed, job, audit, started, faults>>

RequestEmbedding ==
  /\ proj.at = "job"
  /\ proj' = NoProj
  /\ embed' = Append(embed, [win |-> proj.win, who |-> proj.who])
  /\ UNCHANGED <<postgres, derived, commands, sent, job, audit, started, raced, faults>>

Index ==
  /\ embed # <<>>
  /\ points' = [points EXCEPT ![Head(embed).win] = Head(embed).who]
  /\ Note(Head(embed).win, Head(embed).who)
  /\ embed' = Tail(embed)
  /\ UNCHANGED <<postgres, artifact, graph, commands, sent, proj, job, audit, started, faults>>

-----------------------------------------------------------------------------
(***************************************************************************)
(* The request and the job.                                                *)
(***************************************************************************)
Goto(j, from, to) == job[j].at = from /\ job' = [job EXCEPT ![j].at = to]

\* _validate_person_erase_target.
Erasable(p, i) == ids[p] = i /\ p \notin Owners

\* erase_person_api: refused with 404 or 400, or queued.
Submit(j, p) ==
  /\ job[j].at = "none"
  /\ ids[p] # 0 /\ Erasable(p, ids[p])
  /\ job' = [job EXCEPT ![j].at = "queued", ![j].person = p, ![j].id = ids[p]]
  /\ UNCHANGED <<postgres, derived, projector, audit, started, raced, faults>>

\* The cascade validates again, on a connection of its own.
Validate(j) ==
  /\ Goto(j, "queued", IF Erasable(job[j].person, job[j].id) THEN "collect" ELSE "failed")
  /\ UNCHANGED <<postgres, derived, projector, audit, started, raced, faults>>

\* Mutant: windows are looked for among those the person has opened.
CollectOpened(j) ==
  LET i == job[j].id
      hit == {k \in Keys : i \in interactions[k].who}
  IN  /\ job[j].at = "collect"
      /\ job' = [job EXCEPT ![j] =
           [@ EXCEPT !.at = "commit",
              !.windows = {w \in Windows : rows[w] # {} /\ job[j].person = Senders[w][1]},
              !.keys = hit,
              !.refs = {interactions[k].ref : k \in hit} \ {None},
              !.blind = {w \in Windows : \A k \in hit : interactions[k].ref # w},
              !.tasks = {w \in Windows : i \in {tasks[w].owner, tasks[w].counterpart}}]]
      /\ started' = started \cup {i}
      /\ UNCHANGED <<postgres, derived, projector, audit, raced, faults>>

\* The SELECTs of the transaction: tasks by owner or counterpart, interactions
\* by participant, windows by tg_user_id.  blind: the objects they miss.
Collect(j) ==
  LET i == job[j].id
      hit == {k \in Keys : i \in interactions[k].who}
  IN  /\ job[j].at = "collect"
      /\ job' = [job EXCEPT ![j] =
           [@ EXCEPT !.at = "commit",
              !.windows = {w \in Windows : rows[w] # {} /\ job[j].person \in Elements(Senders[w])},
              !.keys = hit,
              !.refs = {interactions[k].ref : k \in hit} \ {None},
              !.blind = {w \in Windows : \A k \in hit : interactions[k].ref # w},
              !.tasks = {w \in Windows : i \in {tasks[w].owner, tasks[w].counterpart}}]]
      /\ started' = started \cup {i}
      /\ UNCHANGED <<postgres, derived, projector, audit, raced, faults>>

\* What the DELETEs leave; the foreign keys of a task row are set to NULL.
Deleted(j) ==
  /\ rows' = [w \in Windows |-> IF w \in job[j].windows THEN {} ELSE rows[w]]
  /\ interactions' = [k \in Keys |-> IF k \in job[j].keys THEN NoRow ELSE interactions[k]]
  /\ tasks' = [w \in Windows |->
       IF w \in job[j].tasks THEN NoTask
       ELSE [f \in {"owner", "counterpart"} |->
               IF tasks[w][f] = job[j].id THEN 0 ELSE tasks[w][f]]]
  /\ ids' = [p \in People |-> IF ids[p] = job[j].id THEN 0 ELSE ids[p]]

\* Mutant: the number of deleted person rows is not looked at.
CommitUnchecked(j) ==
  /\ job[j].at = "commit"
  /\ job' = [job EXCEPT ![j].at = "points"]
  /\ Deleted(j)
  /\ UNCHANGED <<lastId, derived, projector, audit, started, raced, faults>>

\* No person row to delete: 404, and everything is rolled back.
Commit(j) ==
  /\ job[j].at = "commit"
  /\ \/ /\ ids[job[j].person] = job[j].id
        /\ job' = [job EXCEPT ![j].at = "points"]
        /\ Deleted(j)
     \/ /\ ids[job[j].person] # job[j].id
        /\ job' = [job EXCEPT ![j].at = "failed"]
        /\ UNCHANGED <<ids, rows, interactions, tasks>>
  /\ UNCHANGED <<lastId, derived, projector, audit, started, raced, faults>>

Warn(j, to) == job' = [job EXCEPT ![j].at = to, ![j].warned = TRUE]

\* Delete by filter: person_ids contains the id.
CleanPoints(j) ==
  /\ job[j].at = "points"
  /\ \/ /\ Goto(j, "points", "graph")
        /\ points' = [w \in Windows |-> IF job[j].id \in points[w] THEN {} ELSE points[w]]
        /\ UNCHANGED faults
     \/ /\ Strike("error") /\ Warn(j, "graph") /\ UNCHANGED points
  /\ UNCHANGED <<postgres, artifact, graph, projector, audit, started, raced>>

CleanGraph(j) ==
  /\ job[j].at = "graph"
  /\ \/ /\ Goto(j, "graph", "objects")
        /\ graph' = IF HasGraph THEN graph \ {job[j].id} ELSE graph
        /\ UNCHANGED faults
     \/ /\ HasGraph
        /\ Strike("error") /\ Warn(j, "objects") /\ UNCHANGED graph
  /\ UNCHANGED <<postgres, artifact, points, projector, audit, started, raced>>

Without(S) == [w \in Windows |-> IF w \in S THEN {} ELSE artifact[w]]

\* Mutant: the loop is left without a word.
CleanObjectsSilently(j) ==
  /\ Goto(j, "objects", "audit")
  /\ \/ artifact' = Without(job[j].refs) /\ UNCHANGED faults
     \/ Strike("error") /\ \E S \in SUBSET job[j].refs : artifact' = Without(S)
  /\ UNCHANGED <<postgres, graph, points, projector, audit, started, raced>>

\* The first object that cannot be deleted ends the loop.
CleanObjects(j) ==
  /\ job[j].at = "objects"
  /\ \/ /\ HasStore \/ job[j].refs = {}
        /\ Goto(j, "objects", "audit")
        /\ artifact' = Without(job[j].refs)
        /\ UNCHANGED faults
     \/ /\ HasStore /\ job[j].refs # {}
        /\ Strike("error") /\ Warn(j, "audit")
        /\ \E S \in SUBSET job[j].refs : S # job[j].refs /\ artifact' = Without(S)
     \/ /\ ~HasStore /\ job[j].refs # {}
        /\ Warn(j, "audit")
        /\ UNCHANGED <<artifact, faults>>
  /\ UNCHANGED <<postgres, graph, points, projector, audit, started, raced>>

\* The audit entry is the last thing that can fail, with everything deleted.
Audit(j) ==
  /\ job[j].at = "audit"
  /\ \/ /\ Goto(j, "audit", "done")
        /\ audit' = audit \cup {[id |-> job[j].id, warned |-> job[j].warned,
                                 blind |-> job[j].blind]}
        /\ UNCHANGED faults
     \/ Strike("error") /\ Goto(j, "audit", "failed") /\ UNCHANGED audit
  /\ UNCHANGED <<postgres, derived, projector, started, raced>>

\* A statement of the validation or the transaction raises.
JobFails(j) ==
  /\ job[j].at \in {"queued", "collect", "commit"}
  /\ Strike("error")
  /\ job' = [job EXCEPT ![j].at = "failed"]
  /\ UNCHANGED <<postgres, derived, projector, audit, started, raced>>

\* The API process restarts: its jobs, and what it knew of them, are gone.
Restart ==
  /\ \E j \in Jobs : job[j].at \notin {"none", "lost"}
  /\ Strike("restart")
  /\ job' = [j \in Jobs |-> IF job[j].at = "none" THEN job[j] ELSE [job[j] EXCEPT !.at = "lost"]]
  /\ UNCHANGED <<postgres, derived, projector, audit, started, raced>>

EraseStep(j) ==
  \/ Validate(j) \/ Collect(j) \/ Commit(j)
  \/ CleanPoints(j) \/ CleanGraph(j) \/ CleanObjects(j) \/ Audit(j)

Next ==
  \/ \E w \in Windows : Send(w)
  \/ Project \/ ProjectFails \/ ProjectGraph \/ RequestEmbedding \/ Index
  \/ \E j \in Jobs, p \in People : Submit(j, p)
  \/ \E j \in Jobs : EraseStep(j) \/ JobFails(j)
  \/ Restart

Spec == Init /\ [][Next]_vars

-----------------------------------------------------------------------------
(***************************************************************************)
(* Properties.                                                             *)
(***************************************************************************)
Past == {"points", "graph", "objects", "audit", "done"}
Erased == {job[j].id : j \in {k \in Jobs : job[k].at \in Past}} \cup {a.id : a \in audit}

\* Once an erase has committed, no row of Postgres names the person, whatever
\* becomes of the rest, except rows committed between its SELECTs and its
\* DELETEs; and no task row at all.
CommittedErase ==
  \A i \in Erased :
    /\ \A p \in People : ids[p] # i
    /\ \A w \in Windows :
         /\ i \in rows[w] => <<w, i>> \in raced
         /\ i \notin {tasks[w].owner, tasks[w].counterpart}
    /\ \A k \in Keys : i \in interactions[k].who =>
         \E w \in Windows : KeyOf[w] = k /\ <<w, i>> \in raced

\* An erase that was audited without a warning has left nothing of the person
\* in any store but what a projection or an embedding under way wrote after it
\* had collected, and objects no interaction of the person referred to: those
\* of a window whose interaction row another window has taken over, and those
\* an earlier rollback or erase had left behind.
CleanErase ==
  \A a \in audit : ~a.warned =>
    /\ \A w \in Windows :
         /\ a.id \in points[w] => <<w, a.id>> \in raced
         /\ a.id \in artifact[w] => <<w, a.id>> \in raced \/ w \in a.blind
    /\ a.id \in graph => \E w \in Windows : <<w, a.id>> \in raced

\* Of several erases of the same row one gets through; the others fail and
\* change nothing.
OneEraser ==
  \A j, k \in Jobs :
    job[j].at \in Past /\ job[k].at \in Past /\ job[j].id = job[k].id => j = k

Left(i) ==
  \/ i \in graph /\ \A w \in Windows : <<w, i>> \notin raced
  \/ \E w \in Windows : <<w, i>> \notin raced /\ i \in points[w]

\* The operator's runbook: the job is idempotent and is started again.  When an
\* erase has deleted the person's row and left something in Neo4j or Qdrant, it
\* is still at it, or an erase of the person is accepted.
ErasureCanBeFinished ==
  \A i \in started :
    Left(i) => \/ \E p \in People : Erasable(p, i)
               \/ \E j \in Jobs : job[j].id = i /\ job[j].at \in Past \ {"done"}
==============================================================================
