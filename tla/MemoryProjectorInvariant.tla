----------------------- MODULE MemoryProjectorInvariant -----------------------
(***************************************************************************)
(* The inductive invariant behind the theorems about MemoryProjector, in   *)
(* named parts.  The properties depend on what the command in hand has     *)
(* been checked for and has written so far.                                *)
(***************************************************************************)
EXTENDS MemoryProjector

Handling == pc \notin {"off", "idle"}
InTransaction == pc \in {"begin", "tasks", "commit"}
Syncing == pc \in {"tasks", "commit"}
Announcing == pc \in {"graph", "job", "update"}

\* Where the local variables stand at each step of the consumer.
Control ==
  /\ cursor <= Len(stream)
  /\ \A i \in DOMAIN todo : todo[i] <= cursor
  /\ Handling => entry \in 1..Len(stream)
  /\ Syncing => Len(tasks) <= Len(draft)
  /\ Announcing => interaction \in 1..Len(interactions)

TypeInv == TypeOK /\ Control

\* A command that passed the check is not marked before its own COMMIT, and one
\* that is announced is.
Marking ==
  /\ InTransaction => command \notin processed
  /\ Announcing => command \in processed
  /\ ProjectedOnce

\* No two rows rest on one message of one chat; nor do they inside the
\* transaction, which sees its own rows.
Distinct(s) ==
  \A t, u \in DOMAIN s : s[t].chat = s[u].chat /\ s[t].evidence = s[u].evidence => t = u

Evidence == Distinct(tasks) /\ (Syncing => Distinct(draft))

\* What the object of a window was written from, and that the command about to
\* commit has written it.
Artifacts ==
  /\ \A w \in Windows : artifact[w] # None => WindowOf[artifact[w]] = w
  /\ pc = "commit" /\ HasStore => artifact[win] = command
  /\ ArtifactNeverBehind

\* Committed commands of whose emissions one was not, and will not be, sent.
Unannounced == Elements(audit) \ (Announced \cup InFlight)

\* Commands whose entry is gone, or about to be, and that were never projected.
Forfeited == Settled \ processed

Announcements ==
  /\ acked \subseteq DOMAIN stream
  /\ pc = "update" => command \in Elements(jobs)
  /\ IsFiniteSet(Forfeited \cup Unannounced)
  /\ CommandLossBound

Inv == TypeInv /\ Marking /\ WindowWhole /\ Evidence /\ Artifacts /\ Announcements

-----------------------------------------------------------------------------
(***************************************************************************)
(* What the interactions, the announcements and the graph add to it.       *)
(***************************************************************************)

\* The transaction keeps what its rows rest on and their status, and each id it has collected is
\* that of a row of its own chat for the message it was looked up by.
Synced ==
  /\ pc \in {"off", "idle", "check", "begin"} => taskIds = <<>>
  /\ pc = "commit" => Len(taskIds) = Len(Tasks[command])
  /\ Syncing =>
       /\ \A t \in DOMAIN tasks :
            /\ draft[t].chat = tasks[t].chat /\ draft[t].evidence = tasks[t].evidence
            /\ draft[t].status = tasks[t].status
       /\ \A n \in DOMAIN taskIds :
            /\ taskIds[n] \in DOMAIN draft
            /\ draft[taskIds[n]].chat = chat
            /\ draft[taskIds[n]].evidence = Tasks[command][n]

\* What is being announced is what was committed last.
Latest ==
  Announcing =>
    /\ audit # <<>> /\ audit[Len(audit)] = command
    /\ command \in OfInteraction(interactions[interaction])
    /\ pc # "update" => command \notin Elements(jobs)

\* The commits that bring e together, and the one the graph is yet to learn of.
MeetingsIn(log, e) == {i \in DOMAIN log : e \in Met(WindowOf[log[i]])}
Meetings(e) == MeetingsIn(audit, e)

Unwritten(e) == IF pc = "graph" /\ e \in Met(win) THEN 1 ELSE 0

Weights ==
  \A e \in Pairs :
    /\ edges[e] + Unwritten(e) <= Cardinality(Meetings(e))
    /\ HasGraph => Cardinality(Meetings(e)) <= edges[e] + AllFaults + Unwritten(e)

Records == Synced /\ InteractionsCoherent /\ Latest /\ EmissionsFollowCommits /\ Weights
==============================================================================
