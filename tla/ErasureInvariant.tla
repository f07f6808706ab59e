--------------------------- MODULE ErasureInvariant ---------------------------
(***************************************************************************)
(* The inductive invariant behind the theorems about Erasure, in named     *)
(* parts.  What an erase leaves depends on whose an id is, on what the     *)
(* erase had collected when it committed, and on that everything written   *)
(* of a collected id is noted.                                             *)
(***************************************************************************)
EXTENDS Erasure

TypeInv ==
  /\ TypeOK
  /\ proj.at # "idle" => proj.win \in Windows
  /\ \A j \in Jobs : job[j].at # "none" => job[j].person \in People /\ job[j].id # 0

\* The id i was given to p, as far as a row or a job still says so.
Owns(p, i) ==
  \/ ids[p] = i
  \/ \E j \in Jobs : job[j].at # "none" /\ job[j].person = p /\ job[j].id = i

\* An id is given to one person, and names that person wherever it stands.
Identity ==
  /\ \A p \in People : ids[p] <= lastId
  /\ \A j \in Jobs : job[j].id <= lastId
  /\ \A w \in Windows : \A i \in rows[w] : i <= lastId
  /\ \A i \in 1..lastId, p \in People : Owns(p, i) =>
       /\ \A q \in People : Owns(q, i) => p = q
       /\ \A w \in Windows : i \in rows[w] => p \in Elements(Senders[w])

\* What a job has found covers all that was there, or it has been noted since.
Collected(j) ==
  /\ job[j].id \in started
  /\ \A w \in Windows \ job[j].blind : w \in job[j].refs
  /\ job[j].at = "commit" =>
       /\ \A w \in Windows \ job[j].windows :
            job[j].id \in rows[w] => <<w, job[j].id>> \in raced
       /\ \A k \in Keys \ job[j].keys : job[j].id \in interactions[k].who =>
            \E w \in Windows : KeyOf[w] = k /\ <<w, job[j].id>> \in raced

Collection == \A j \in Jobs : job[j].at \in {"commit"} \cup Past => Collected(j)

\* An erase that has committed is of an id that will not be given out again.
Audited == \A a \in audit : a.id \in started /\ a.id # 0 /\ a.id <= lastId

\* What each step of the clean-up has left, of those that gave no warning.
NoPoints(i) == \A w \in Windows : i \in points[w] => <<w, i>> \in raced
NoNode(i) == i \in graph => \E w \in Windows : <<w, i>> \in raced
NoObjects(i, blind) ==
  \A w \in Windows \ blind : i \in artifact[w] => <<w, i>> \in raced

Cleaning(j) ==
  /\ job[j].at \in {"graph", "objects", "audit"} => NoPoints(job[j].id)
  /\ job[j].at \in {"objects", "audit"} => NoNode(job[j].id)
  /\ job[j].at = "audit" => NoObjects(job[j].id, job[j].blind)

Cleaned ==
  /\ ~HasGraph => graph = {}
  /\ \A j \in Jobs : ~job[j].warned => Cleaning(j)
  /\ CleanErase

Inv ==
  /\ TypeInv
  /\ Identity
  /\ Collection
  /\ Audited
  /\ CommittedErase
  /\ OneEraser
  /\ Cleaned
==============================================================================
