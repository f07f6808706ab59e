---------------------------- MODULE ErasureProofs ----------------------------
(***************************************************************************)
(* Theorems about Erasure, for every value of its constants.               *)
(***************************************************************************)
EXTENDS ErasureInvariant, SequenceTheorems, FiniteSetTheorems, FunctionTheorems, TLAPS

(***************************************************************************)
(* Lemmas about the ids a projection gives out.                            *)
(***************************************************************************)

\* The ids a projection of w writes, and how many of them are new.
SenderIds(w) == {Ensured(w)[p] : p \in Elements(Senders[w])}
Given(w) == Cardinality(SenderIds(w) \ {ids[p] : p \in People})

\* The senders of a window are finitely many people.
LEMMA SendersFinite ==
  ASSUME NEW w \in Windows
  PROVE  /\ Elements(Senders[w]) \subseteq People
         /\ IsFiniteSet(Elements(Senders[w]))
<1> DEFINE s == Senders[w]
<1>1. s \in Seq(People)
  BY ErasureAssumption
<1>2. DOMAIN s = 1..Len(s) /\ Len(s) \in Nat /\ s \in [1..Len(s) -> People]
  BY <1>1, LenProperties
<1> HIDE DEF s
<1>3. Elements(s) \subseteq People
  BY <1>2 DEF Elements
<1>4. s \in Surjection(1..Len(s), Elements(s))
  BY <1>2 DEF Elements, Surjection
<1>5. IsFiniteSet(1..Len(s))
  BY <1>2, FS_Interval
<1>6. IsFiniteSet(Elements(s))
  BY <1>4, <1>5, FS_Surjection
<1> QED
  BY <1>3, <1>6 DEF s

\* A finite set can be numbered from 1 on, without a number used twice.
LEMMA Numbering ==
  ASSUME NEW S, IsFiniteSet(S)
  PROVE  /\ Cardinality(S) \in Nat
         /\ \E r \in [S -> 1..Cardinality(S)] : \A p, q \in S : r[p] = r[q] => p = q
<1>1. Cardinality(S) \in Nat /\ ExistsBijection(1..Cardinality(S), S)
  BY FS_CardinalityType
<1>2. PICK f \in Bijection(1..Cardinality(S), S) : TRUE
  BY <1>1 DEF ExistsBijection
<1>3. Inverse(f, 1..Cardinality(S), S) \in Bijection(S, 1..Cardinality(S))
  BY <1>2, Fun_BijInverse
<1> QED
  BY <1>1, <1>3 DEF Bijection, Injection, IsInjective

\* The people a projection ensures keep their ids, or get fresh ones, each an
\* id of its own.
LEMMA EnsuredIds ==
  ASSUME ids \in [People -> Nat], lastId \in Nat,
         \A p \in People : ids[p] <= lastId,
         NEW w \in Windows
  PROVE  /\ Given(w) \in Nat
         /\ Ensured(w) \in [People -> Nat]
         /\ \A p \in People :
              \/ Ensured(w)[p] = ids[p]
              \/ ids[p] = 0 /\ Ensured(w)[p] \in (lastId + 1)..(lastId + Given(w))
         /\ \A p, q \in People :
              Ensured(w)[p] > lastId /\ Ensured(w)[p] = Ensured(w)[q] => p = q
         /\ \A p \in Elements(Senders[w]) : Ensured(w)[p] # 0
         /\ SenderIds(w) \subseteq Nat \ {0}
<1> DEFINE new == Elements(Senders[w]) \ Known(w)
           n == Cardinality(new)
           IsRank(r) == \A p, q \in new : r[p] = r[q] => p = q
           rank == CHOOSE r \in [new -> 1..n] : IsRank(r)
           old == {ids[p] : p \in People}
           fresh == SenderIds(w) \ old
<1>1. /\ Elements(Senders[w]) \subseteq People
      /\ IsFiniteSet(Elements(Senders[w]))
  BY SendersFinite
<1>2. IsFiniteSet(new)
  BY <1>1, FS_Subset
<1>3. n \in Nat /\ \E r \in [new -> 1..n] : IsRank(r)
  <2> HIDE DEF new
  <2> QED  BY <1>2, Numbering
<1>4. rank \in [new -> 1..n] /\ IsRank(rank)
  <2> HIDE DEF new, n, IsRank
  <2> QED  BY <1>3
<1>5. Ensured(w) = [p \in People |-> IF p \in new THEN lastId + rank[p] ELSE ids[p]]
  BY DEF Ensured
<1>6. \A p \in new : p \in People /\ ids[p] = 0
  BY <1>1 DEF Known
<1>7. \A p \in Elements(Senders[w]) \ new : ids[p] # 0
  BY DEF Known
<1>8. \A p \in new : rank[p] \in 1..n
  <2> HIDE DEF new, n, rank
  <2> QED  BY <1>4
<1> HIDE DEF rank, n, new
<1>9. fresh = {lastId + rank[p] : p \in new}
  <2>1. ASSUME NEW p \in new
        PROVE  lastId + rank[p] \in fresh
    <3>1. Ensured(w)[p] = lastId + rank[p] /\ p \in Elements(Senders[w])
      BY <1>5, <1>6 DEF new
    <3>2. \A q \in People : ids[q] # lastId + rank[p]
      BY <1>3, <1>8
    <3> QED
      BY <3>1, <3>2 DEF SenderIds
  <2>2. ASSUME NEW i \in fresh
        PROVE  \E p \in new : i = lastId + rank[p]
    <3>1. PICK p \in Elements(Senders[w]) : i = Ensured(w)[p]
      BY DEF SenderIds
    <3>2. p \in new
      BY <1>1, <1>5, <3>1
    <3> QED
      BY <1>5, <1>6, <3>1, <3>2
  <2> QED
    BY <2>1, <2>2
<1>10. Cardinality(fresh) = n
  <2> DEFINE f == [p \in new |-> lastId + rank[p]]
  <2>1. f \in [new -> fresh] /\ \A i \in fresh : \E p \in new : f[p] = i
    BY <1>9
  <2>2. \A p, q \in new : f[p] = f[q] => p = q
    BY <1>3, <1>4, <1>8
  <2> HIDE DEF f
  <2>3. f \in Bijection(new, fresh)
    BY <2>1, <2>2 DEF Bijection, Injection, IsInjective, Surjection
  <2> QED
    BY <1>2, <2>3, FS_Bijection DEF ExistsBijection, n
<1>11. Given(w) = n
  BY <1>10 DEF Given
<1>12. Ensured(w) \in [People -> Nat]
  BY <1>3, <1>5, <1>8
<1>13. \A p \in Elements(Senders[w]) : Ensured(w)[p] \in Nat \ {0}
  BY <1>1, <1>3, <1>5, <1>7, <1>8
<1>14. ASSUME NEW p \in People
       PROVE  \/ Ensured(w)[p] = ids[p]
              \/ ids[p] = 0 /\ Ensured(w)[p] \in (lastId + 1)..(lastId + n)
  BY <1>3, <1>5, <1>6, <1>8
<1>15. ASSUME NEW p \in People, NEW q \in People,
              Ensured(w)[p] > lastId, Ensured(w)[p] = Ensured(w)[q]
       PROVE  p = q
  <2>1. p \in new /\ q \in new
    BY <1>5, <1>15
  <2>2. rank[p] = rank[q]
    BY <1>3, <1>5, <1>8, <1>15, <2>1
  <2> QED
    BY <1>4, <2>1, <2>2
<1> QED
  BY <1>3, <1>11, <1>12, <1>13, <1>14, <1>15 DEF SenderIds

-----------------------------------------------------------------------------
(***************************************************************************)
(* Type correctness.                                                       *)
(***************************************************************************)

JobRecords ==
  [at : Steps, person : People \cup {None}, id : Id,
   windows : SUBSET Windows, keys : SUBSET Keys, refs : SUBSET Windows,
   blind : SUBSET Windows, tasks : SUBSET Windows, warned : BOOLEAN]

\* The parts of TypeInv, by what can disturb them.
PostgresOK ==
  /\ ids \in [People -> Id] /\ lastId \in Nat
  /\ rows \in [Windows -> SUBSET Id]
  /\ interactions \in [Keys -> [who : SUBSET Id, ref : Windows \cup {None}]]
  /\ tasks \in [Windows -> [owner : Id, counterpart : Id]]

DerivedOK ==
  /\ artifact \in [Windows -> SUBSET Id]
  /\ graph \subseteq Id
  /\ points \in [Windows -> SUBSET Id]

ProjectorOK ==
  /\ commands \in Seq(Windows)
  /\ sent \in [Windows -> Nat]
  /\ proj \in [at : {"idle", "graph", "job"}, win : Windows \cup {None}, who : SUBSET Id]
  /\ embed \in Seq([win : Windows, who : SUBSET Id])
  /\ proj.at # "idle" => proj.win \in Windows

JobsOK ==
  /\ job \in [Jobs -> JobRecords]
  /\ \A j \in Jobs : job[j].at # "none" => job[j].person \in People /\ job[j].id # 0

HistoryOK ==
  /\ audit \subseteq [id : Id, warned : BOOLEAN, blind : SUBSET Windows]
  /\ started \subseteq Id
  /\ raced \subseteq Windows \X Id
  /\ faults \in [FaultKinds -> Nat]

PartsOK == PostgresOK /\ DerivedOK /\ ProjectorOK /\ JobsOK /\ HistoryOK

LEMMA TypeInvParts == (TypeInv <=> PartsOK) /\ (TypeInv' <=> PartsOK')
  BY DEF TypeInv, TypeOK, PartsOK, PostgresOK, DerivedOK, ProjectorOK, JobsOK, JobRecords,
         HistoryOK

\* A fault keeps the counters' type.
LEMMA StrikeType ==
  ASSUME HistoryOK, NEW k \in FaultKinds, Strike(k)
  PROVE  faults' \in [FaultKinds -> Nat]
  BY DEF HistoryOK, Strike

\* What is written of a window and noted keeps the history's type.
LEMMA NoteType ==
  ASSUME HistoryOK, NEW w \in Windows, NEW who, Note(w, who)
  PROVE  raced' \subseteq Windows \X Id
  BY DEF HistoryOK, Note

\* Moving a job on, or overwriting its record, keeps the jobs' types.
LEMMA JobType ==
  ASSUME JobsOK, NEW j \in Jobs, NEW r \in JobRecords,
         r.at # "none" => r.person \in People /\ r.id # 0,
         job' = [job EXCEPT ![j] = r]
  PROVE  JobsOK'
  BY DEF JobsOK

LEMMA JobOnwards ==
  ASSUME JobsOK, NEW j \in Jobs, NEW to \in Steps \ {"none"}, job[j].at # "none",
         \/ job' = [job EXCEPT ![j].at = to]
         \/ job' = [job EXCEPT ![j].at = to, ![j].warned = TRUE]
  PROVE  JobsOK'
<1>1. job[j] \in JobRecords /\ job[j].person \in People /\ job[j].id # 0
  BY DEF JobsOK
<1>2. CASE job' = [job EXCEPT ![j].at = to]
  <2> DEFINE r == [job[j] EXCEPT !.at = to]
  <2>1. r \in JobRecords /\ r.person = job[j].person /\ r.id = job[j].id
    BY <1>1 DEF JobRecords
  <2>2. job' = [job EXCEPT ![j] = r]
    BY <1>2
  <2> HIDE DEF r
  <2> QED
    BY <1>1, <2>1, <2>2, JobType
<1>3. CASE job' = [job EXCEPT ![j].at = to, ![j].warned = TRUE]
  <2> DEFINE r == [job[j] EXCEPT !.at = to, !.warned = TRUE]
  <2>1. r \in JobRecords /\ r.person = job[j].person /\ r.id = job[j].id
    BY <1>1 DEF JobRecords
  <2>2. job' = [job EXCEPT ![j] = r]
    BY <1>3 DEF JobsOK
  <2> HIDE DEF r
  <2> QED
    BY <1>1, <2>1, <2>2, JobType
<1> QED
  BY <1>2, <1>3

\* The command in hand and the people it names.
LEMMA ProjectType ==
  ASSUME PostgresOK, HistoryOK, ProjectorOK, \A p \in People : ids[p] <= lastId, commands # <<>>
  PROVE  /\ Head(commands) \in Windows /\ Tail(commands) \in Seq(Windows)
         /\ Ensured(Head(commands)) \in [People -> Id]
         /\ Elements(Senders[Head(commands)]) \subseteq People
         /\ SenderIds(Head(commands)) \subseteq Id
         /\ lastId + Given(Head(commands)) \in Nat
<1>1. Head(commands) \in Windows /\ Tail(commands) \in Seq(Windows)
  BY HeadTailProperties DEF ProjectorOK
<1> QED
  BY <1>1, EnsuredIds, SendersFinite DEF PostgresOK, Id

\* Project, with its local names expanded.
LEMMA ProjectEffect ==
  ASSUME Project
  PROVE  LET w == Head(commands)
             known == Ensured(w)
             who == SenderIds(w)
         IN  /\ ids' = known
             /\ lastId' = lastId + Given(w)
             /\ rows' = [rows EXCEPT ![w] = who]
             /\ interactions' = [interactions EXCEPT ![KeyOf[w]] =
                                   [who |-> who, ref |-> IF HasStore THEN w ELSE @.ref]]
             /\ \E o \in OwnerId(known) :
                  tasks' = IF w \notin HasTask THEN tasks ELSE
                    [tasks EXCEPT ![w] =
                       [owner |-> Coalesce(o, @.owner),
                        counterpart |-> IF Senders[w] = <<>> THEN @.counterpart
                                        ELSE known[Senders[w][1]]]]
             /\ artifact' = IF HasStore THEN [artifact EXCEPT ![w] = who] ELSE artifact
             /\ proj' = [at |-> "graph", win |-> w, who |-> who]
             /\ Note(w, who)
             /\ commands # <<>> /\ commands' = Tail(commands)
  BY DEF Project, SenderIds, Given

LEMMA ProjectFailsEffect ==
  ASSUME ProjectFails
  PROVE  LET w == Head(commands)
             who == SenderIds(w)
         IN  /\ lastId' = lastId + Given(w)
             /\ artifact' = IF HasStore THEN [artifact EXCEPT ![w] = who] ELSE artifact
             /\ Note(w, who)
             /\ commands # <<>> /\ commands' = Tail(commands)
  BY DEF ProjectFails, SenderIds, Given

LEMMA OwnerIdType ==
  ASSUME NEW known \in [People -> Id], NEW o \in OwnerId(known)
  PROVE  o \in Id /\ (o = 0 \/ \E p \in People : o = known[p])
<1> DEFINE mine == {known[p] : p \in {q \in Owners : known[q] # 0}}
<1>1. o \in IF mine = {} THEN {0} ELSE mine
  BY DEF OwnerId
<1>2. \A i \in mine : \E p \in People : i = known[p]
  BY ErasureAssumption
<1>3. o = 0 \/ o \in mine
  <2> HIDE DEF mine
  <2> QED  BY <1>1
<1> HIDE DEF mine
<1> QED
  BY <1>2, <1>3 DEF Id

LEMMA TypeProject ==
  ASSUME TypeInv, \A p \in People : ids[p] <= lastId, Project
  PROVE  TypeInv'
<1> DEFINE w == Head(commands)
           known == Ensured(w)
           who == SenderIds(w)
<1> USE ErasureAssumption
<1>1. PostgresOK /\ DerivedOK /\ ProjectorOK /\ JobsOK /\ HistoryOK
  BY TypeInvParts DEF PartsOK
<1>2. /\ w \in Windows /\ Tail(commands) \in Seq(Windows)
      /\ known \in [People -> Id] /\ who \subseteq Id
      /\ Elements(Senders[w]) \subseteq People
      /\ lastId + Given(w) \in Nat
  BY <1>1, ProjectEffect, ProjectType
<1>3. PICK o \in OwnerId(known) :
        tasks' = IF w \notin HasTask THEN tasks ELSE
          [tasks EXCEPT ![w] =
             [owner |-> Coalesce(o, @.owner),
              counterpart |-> IF Senders[w] = <<>> THEN @.counterpart ELSE known[Senders[w][1]]]]
  BY ProjectEffect
<1>4. /\ ids' = known /\ lastId' = lastId + Given(w)
      /\ rows' = [rows EXCEPT ![w] = who]
      /\ interactions' = [interactions EXCEPT ![KeyOf[w]] =
                            [who |-> who, ref |-> IF HasStore THEN w ELSE @.ref]]
      /\ artifact' = IF HasStore THEN [artifact EXCEPT ![w] = who] ELSE artifact
      /\ proj' = [at |-> "graph", win |-> w, who |-> who]
      /\ Note(w, who)
      /\ commands' = Tail(commands)
  BY ProjectEffect
<1>5. UNCHANGED <<graph, points, sent, embed, job, audit, started, faults>>
  BY DEF Project
<1>6. o \in Id
  BY <1>2, <1>3, OwnerIdType
<1>7. Senders[w] # <<>> => Senders[w][1] \in People
  BY <1>2, LenProperties, EmptySeq
<1> HIDE DEF w, known, who
<1>8. PostgresOK'
  <2>1. tasks' \in [Windows -> [owner : Id, counterpart : Id]]
    BY <1>1, <1>2, <1>3, <1>6, <1>7 DEF PostgresOK, Coalesce
  <2>2. interactions' \in [Keys -> [who : SUBSET Id, ref : Windows \cup {None}]]
    BY <1>1, <1>2, <1>4 DEF PostgresOK
  <2> QED
    BY <1>1, <1>2, <1>4, <2>1, <2>2 DEF PostgresOK
<1>9. DerivedOK'
  BY <1>1, <1>2, <1>4, <1>5 DEF DerivedOK
<1>10. ProjectorOK'
  BY <1>1, <1>2, <1>4, <1>5 DEF ProjectorOK
<1>11. JobsOK' /\ HistoryOK'
  BY <1>1, <1>2, <1>4, <1>5, NoteType DEF JobsOK, HistoryOK
<1> QED
  BY <1>8, <1>9, <1>10, <1>11, TypeInvParts DEF PartsOK

LEMMA TypeProjector ==
  ASSUME TypeInv, \A p \in People : ids[p] <= lastId,
         \/ \E w \in Windows : Send(w)
         \/ ProjectFails \/ ProjectGraph \/ RequestEmbedding \/ Index
  PROVE  TypeInv'
<1> USE ErasureAssumption
<1>1. PostgresOK /\ DerivedOK /\ ProjectorOK /\ JobsOK /\ HistoryOK
  BY TypeInvParts DEF PartsOK
<1>2. ASSUME NEW w \in Windows, Send(w)
      PROVE  TypeInv'
  <2>1. ProjectorOK'
    BY <1>1, <1>2, AppendProperties DEF Send, ProjectorOK
  <2> QED
    BY <1>1, <1>2, <2>1, TypeInvParts
    DEF PartsOK, Send, postgres, derived, PostgresOK, DerivedOK, JobsOK, HistoryOK
<1>3. CASE ProjectFails
  <2>1. /\ Head(commands) \in Windows /\ Tail(commands) \in Seq(Windows)
        /\ SenderIds(Head(commands)) \subseteq Id
        /\ lastId + Given(Head(commands)) \in Nat
    BY <1>1, <1>3, ProjectFailsEffect, ProjectType
  <2>2. /\ lastId' = lastId + Given(Head(commands))
        /\ artifact' = IF HasStore THEN [artifact EXCEPT ![Head(commands)] = SenderIds(Head(commands))]
                       ELSE artifact
        /\ Note(Head(commands), SenderIds(Head(commands)))
        /\ commands' = Tail(commands)
    BY <1>3, ProjectFailsEffect
  <2>3. Strike("error") /\ UNCHANGED <<ids, rows, interactions, tasks, graph, points, sent, proj,
                                       embed, job, audit, started>>
    BY <1>3 DEF ProjectFails
  <2>4. HistoryOK'
    BY <1>1, <2>1, <2>2, <2>3, NoteType, StrikeType DEF HistoryOK, FaultKinds
  <2> QED
    BY <1>1, <2>1, <2>2, <2>3, <2>4, TypeInvParts
    DEF PartsOK, PostgresOK, DerivedOK, ProjectorOK, JobsOK
<1>4. CASE ProjectGraph
  <2>1. HistoryOK'
    BY <1>1, <1>4, NoteType DEF ProjectGraph, ProjectorOK, HistoryOK
  <2> QED
    BY <1>1, <1>4, <2>1, TypeInvParts
    DEF PartsOK, ProjectGraph, postgres, PostgresOK, DerivedOK, ProjectorOK, JobsOK
<1>5. CASE RequestEmbedding
  <2>1. ProjectorOK'
    BY <1>1, <1>5, AppendProperties DEF RequestEmbedding, ProjectorOK, NoProj
  <2> QED
    BY <1>1, <1>5, <2>1, TypeInvParts
    DEF PartsOK, RequestEmbedding, postgres, derived, PostgresOK, DerivedOK, JobsOK, HistoryOK
<1>6. CASE Index
  <2>1. /\ Head(embed) \in [win : Windows, who : SUBSET Id]
        /\ Tail(embed) \in Seq([win : Windows, who : SUBSET Id])
    BY <1>1, <1>6, HeadTailProperties DEF Index, ProjectorOK
  <2>2. Head(embed).win \in Windows /\ Head(embed).who \subseteq Id
    BY <2>1
  <2>3. HistoryOK'
    BY <1>1, <1>6, <2>2, NoteType DEF Index, HistoryOK
  <2> QED
    BY <1>1, <1>6, <2>1, <2>2, <2>3, TypeInvParts
    DEF PartsOK, Index, postgres, PostgresOK, DerivedOK, ProjectorOK, JobsOK
<1> QED
  BY <1>2, <1>3, <1>4, <1>5, <1>6

LEMMA TypeTransaction ==
  ASSUME TypeInv, NEW j \in Jobs,
         \/ \E p \in People : Submit(j, p)
         \/ Validate(j) \/ Collect(j) \/ Commit(j) \/ JobFails(j)
  PROVE  TypeInv'
<1>1. PostgresOK /\ DerivedOK /\ ProjectorOK /\ JobsOK /\ HistoryOK
  BY TypeInvParts DEF PartsOK
<1>2. job[j] \in JobRecords
  BY <1>1 DEF JobsOK
<1>3. ASSUME NEW p \in People, Submit(j, p)
      PROVE  TypeInv'
  <2> DEFINE r == [job[j] EXCEPT !.at = "queued", !.person = p, !.id = ids[p]]
  <2>1. r \in JobRecords /\ r.person \in People /\ r.id # 0
    BY <1>1, <1>2, <1>3 DEF JobRecords, Submit, PostgresOK, Steps
  <2>2. job' = [job EXCEPT ![j] = r]
    BY <1>1, <1>3 DEF Submit, JobsOK
  <2>3. JobsOK'
    <3> HIDE DEF r
    <3> QED  BY <1>1, <2>1, <2>2, JobType
  <2> QED
    BY <1>1, <1>3, <2>3, TypeInvParts
    DEF PartsOK, Submit, postgres, derived, projector, PostgresOK, DerivedOK, ProjectorOK, HistoryOK
<1>4. CASE Validate(j)
  <2>0. /\ job[j].at # "none"
        /\ job' = [job EXCEPT ![j].at = "collect"] \/ job' = [job EXCEPT ![j].at = "failed"]
        /\ "collect" \in Steps \ {"none"} /\ "failed" \in Steps \ {"none"}
    BY <1>4 DEF Validate, Goto, Steps
  <2>1. JobsOK'
    BY <1>1, <2>0, JobOnwards, Zenon
  <2> QED
    BY <1>1, <1>4, <2>1, TypeInvParts
    DEF PartsOK, Validate, postgres, derived, projector, PostgresOK, DerivedOK, ProjectorOK, HistoryOK
<1>5. CASE Collect(j)
  <2> DEFINE i == job[j].id
             hit == {k \in Keys : i \in interactions[k].who}
             W == {w \in Windows : rows[w] # {} /\ job[j].person \in Elements(Senders[w])}
             R == {interactions[k].ref : k \in hit} \ {None}
             B == {w \in Windows : \A k \in hit : interactions[k].ref # w}
             T == {w \in Windows : i \in {tasks[w].owner, tasks[w].counterpart}}
             r == [job[j] EXCEPT !.at = "commit", !.windows = W, !.keys = hit, !.refs = R,
                                 !.blind = B, !.tasks = T]
  <2>1. /\ job[j].at = "collect"
        /\ job' = [job EXCEPT ![j] = r]
        /\ started' = started \cup {i}
    BY <1>5 DEF Collect
  <2>2. W \subseteq Windows /\ hit \subseteq Keys /\ B \subseteq Windows /\ T \subseteq Windows
    OBVIOUS
  <2>3. R \subseteq Windows
    BY <1>1 DEF PostgresOK
  <2>4. i \in Id /\ i # 0 /\ job[j].person \in People
    BY <1>1, <1>2, <2>1 DEF JobsOK, JobRecords
  <2> HIDE DEF i, hit, W, R, B, T
  <2>5. r \in JobRecords /\ r.person \in People /\ r.id # 0
    BY <1>2, <2>2, <2>3, <2>4 DEF JobRecords, Steps, i
  <2>6. JobsOK'
    <3> HIDE DEF r
    <3> QED  BY <1>1, <2>1, <2>5, JobType
  <2>7. HistoryOK'
    BY <1>1, <1>5, <2>1, <2>4 DEF Collect, HistoryOK
  <2> QED
    BY <1>1, <1>5, <2>6, <2>7, TypeInvParts
    DEF PartsOK, Collect, postgres, derived, projector, PostgresOK, DerivedOK, ProjectorOK
<1>6. CASE Commit(j)
  <2>0. /\ job[j].at # "none"
        /\ job' = [job EXCEPT ![j].at = "points"] \/ job' = [job EXCEPT ![j].at = "failed"]
        /\ "points" \in Steps \ {"none"} /\ "failed" \in Steps \ {"none"}
    BY <1>6 DEF Commit, Steps
  <2>1. JobsOK'
    BY <1>1, <2>0, JobOnwards, Zenon
  <2>2. ASSUME Deleted(j)
        PROVE  /\ ids' \in [People -> Id]
               /\ rows' \in [Windows -> SUBSET Id]
               /\ interactions' \in [Keys -> [who : SUBSET Id, ref : Windows \cup {None}]]
               /\ tasks' \in [Windows -> [owner : Id, counterpart : Id]]
    <3>1. ids' \in [People -> Id] /\ rows' \in [Windows -> SUBSET Id]
      BY <1>1, <2>2 DEF PostgresOK, Deleted, Id
    <3>2. interactions' \in [Keys -> [who : SUBSET Id, ref : Windows \cup {None}]]
      BY <1>1, <2>2 DEF PostgresOK, Deleted, NoRow
    <3>3. ASSUME NEW w \in Windows
          PROVE  (IF w \in job[j].tasks THEN NoTask
                  ELSE [f \in {"owner", "counterpart"} |->
                          IF tasks[w][f] = job[j].id THEN 0 ELSE tasks[w][f]])
                   \in [owner : Id, counterpart : Id]
      <4>1. tasks[w] \in [owner : Id, counterpart : Id]
        BY <1>1 DEF PostgresOK
      <4> QED
        BY <4>1 DEF NoTask, Id
    <3>4. tasks' \in [Windows -> [owner : Id, counterpart : Id]]
      BY <2>2, <3>3 DEF Deleted
    <3> QED
      BY <3>1, <3>2, <3>4
  <2>3. PostgresOK'
    BY <1>1, <1>6, <2>2 DEF PostgresOK, Commit
  <2> QED
    BY <1>1, <1>6, <2>1, <2>3, TypeInvParts
    DEF PartsOK, Commit, derived, projector, DerivedOK, ProjectorOK, HistoryOK
<1>7. CASE JobFails(j)
  <2>0. /\ job[j].at # "none"
        /\ job' = [job EXCEPT ![j].at = "failed"]
        /\ "failed" \in Steps \ {"none"}
    BY <1>7 DEF JobFails, Steps
  <2>1. JobsOK'
    BY <1>1, <2>0, JobOnwards, Zenon
  <2>2. HistoryOK'
    BY <1>1, <1>7, StrikeType DEF JobFails, HistoryOK, FaultKinds
  <2> QED
    BY <1>1, <1>7, <2>1, <2>2, TypeInvParts
    DEF PartsOK, JobFails, postgres, derived, projector, PostgresOK, DerivedOK, ProjectorOK
<1> QED
  BY <1>3, <1>4, <1>5, <1>6, <1>7

LEMMA TypeCleanUp ==
  ASSUME TypeInv, NEW j \in Jobs,
         CleanPoints(j) \/ CleanGraph(j) \/ CleanObjects(j) \/ Audit(j)
  PROVE  TypeInv'
<1>1. PostgresOK /\ DerivedOK /\ ProjectorOK /\ JobsOK /\ HistoryOK
  BY TypeInvParts DEF PartsOK
<1>2. job[j] \in JobRecords
  BY <1>1 DEF JobsOK
<1>3. CASE CleanPoints(j)
  <2>1. JobsOK'
    BY <1>1, <1>3, JobOnwards DEF CleanPoints, Goto, Warn, Steps
  <2>2. DerivedOK'
    BY <1>1, <1>3 DEF CleanPoints, DerivedOK
  <2>3. HistoryOK'
    BY <1>1, <1>3, StrikeType DEF CleanPoints, HistoryOK, FaultKinds
  <2> QED
    BY <1>1, <1>3, <2>1, <2>2, <2>3, TypeInvParts
    DEF PartsOK, CleanPoints, postgres, projector, PostgresOK, ProjectorOK
<1>4. CASE CleanGraph(j)
  <2>1. JobsOK'
    BY <1>1, <1>4, JobOnwards DEF CleanGraph, Goto, Warn, Steps
  <2>2. DerivedOK'
    BY <1>1, <1>4 DEF CleanGraph, DerivedOK
  <2>3. HistoryOK'
    BY <1>1, <1>4, StrikeType DEF CleanGraph, HistoryOK, FaultKinds
  <2> QED
    BY <1>1, <1>4, <2>1, <2>2, <2>3, TypeInvParts
    DEF PartsOK, CleanGraph, postgres, projector, PostgresOK, ProjectorOK
<1>5. CASE CleanObjects(j)
  <2>1. JobsOK'
    BY <1>1, <1>5, JobOnwards DEF CleanObjects, Goto, Warn, Steps
  <2>2. DerivedOK'
    BY <1>1, <1>5 DEF CleanObjects, DerivedOK, Without
  <2>3. HistoryOK'
    BY <1>1, <1>5, StrikeType DEF CleanObjects, HistoryOK, FaultKinds
  <2> QED
    BY <1>1, <1>5, <2>1, <2>2, <2>3, TypeInvParts
    DEF PartsOK, CleanObjects, postgres, projector, PostgresOK, ProjectorOK
<1>6. CASE Audit(j)
  <2>0. /\ job[j].at # "none"
        /\ job' = [job EXCEPT ![j].at = "done"] \/ job' = [job EXCEPT ![j].at = "failed"]
        /\ "done" \in Steps \ {"none"} /\ "failed" \in Steps \ {"none"}
    BY <1>6 DEF Audit, Goto, Steps
  <2>1. JobsOK'
    BY <1>1, <2>0, JobOnwards, Zenon
  <2>2. [id |-> job[j].id, warned |-> job[j].warned, blind |-> job[j].blind]
          \in [id : Id, warned : BOOLEAN, blind : SUBSET Windows]
    BY <1>2 DEF JobRecords
  <2>3. HistoryOK'
    BY <1>1, <1>6, <2>2, StrikeType DEF Audit, HistoryOK, FaultKinds
  <2> QED
    BY <1>1, <1>6, <2>1, <2>3, TypeInvParts
    DEF PartsOK, Audit, postgres, derived, projector, PostgresOK, DerivedOK, ProjectorOK
<1> QED
  BY <1>3, <1>4, <1>5, <1>6

LEMMA TypeRestart ==
  ASSUME TypeInv, Restart
  PROVE  TypeInv'
<1>1. PostgresOK /\ DerivedOK /\ ProjectorOK /\ JobsOK /\ HistoryOK
  BY TypeInvParts DEF PartsOK
<1>2. ASSUME NEW j \in Jobs
      PROVE  LET r == IF job[j].at = "none" THEN job[j] ELSE [job[j] EXCEPT !.at = "lost"]
             IN  /\ r \in JobRecords
                 /\ r.at # "none" => r.person \in People /\ r.id # 0
  BY <1>1 DEF JobsOK, JobRecords, Steps
<1>3. JobsOK'
  BY <1>2 DEF Restart, JobsOK
<1>4. HistoryOK'
  BY <1>1, StrikeType DEF Restart, HistoryOK, FaultKinds
<1> QED
  BY <1>1, <1>3, <1>4, TypeInvParts
  DEF PartsOK, Restart, postgres, derived, projector, PostgresOK, DerivedOK, ProjectorOK

LEMMA TypeInit == Init => TypeInv
<1> SUFFICES ASSUME Init PROVE TypeInv
  OBVIOUS
<1>1. PostgresOK /\ DerivedOK
  BY DEF Init, PostgresOK, DerivedOK, NoRow, NoTask, Id
<1>2. ProjectorOK /\ HistoryOK
  BY DEF Init, ProjectorOK, HistoryOK, NoProj, Id
<1>3. NoJob \in JobRecords
  BY DEF NoJob, JobRecords, Steps, Id
<1>4. JobsOK
  BY <1>3 DEF Init, JobsOK, NoJob
<1> QED
  BY <1>1, <1>2, <1>4, TypeInvParts DEF PartsOK

LEMMA TypeStep ==
  ASSUME TypeInv, Identity, Next
  PROVE  TypeInv'
<1>1. \A p \in People : ids[p] <= lastId
  BY DEF Identity
<1> QED
  BY <1>1, TypeProject, TypeProjector, TypeTransaction, TypeCleanUp, TypeRestart
  DEF Next, EraseStep

-----------------------------------------------------------------------------
(***************************************************************************)
(* What a step writes and whom it moves.                                   *)
(***************************************************************************)

\* Of an id some erase has collected nothing is written that is not noted, no
\* task is given it but through the row of a person, and no person gets it who
\* did not have it.
Noted ==
  /\ raced \subseteq raced' /\ started \subseteq started' /\ lastId <= lastId'
  /\ \A p \in People : ids'[p] \in {0, ids[p]} \/ ids'[p] > lastId
  /\ \A w \in Windows, i \in started :
       /\ i \in rows'[w] => i \in rows[w] \/ <<w, i>> \in raced'
       /\ i \in points'[w] => i \in points[w] \/ <<w, i>> \in raced'
       /\ i \in artifact'[w] => i \in artifact[w] \/ <<w, i>> \in raced'
       /\ i \in {tasks'[w].owner, tasks'[w].counterpart} =>
            \/ i \in {0, tasks[w].owner, tasks[w].counterpart}
            \/ \E p \in People : i = ids'[p]
  /\ \A i \in started :
       /\ i \in graph' => i \in graph \/ \E w \in Windows : <<w, i>> \in raced'
       /\ \A k \in Keys : i \in interactions'[k].who =>
            i \in interactions[k].who \/ \E w \in Windows : KeyOf[w] = k /\ <<w, i>> \in raced'

LEMMA NotedProject ==
  ASSUME TypeInv, Identity, Project
  PROVE  Noted
<1> DEFINE w == Head(commands)
           known == Ensured(w)
           who == SenderIds(w)
<1> USE ErasureAssumption
<1>1. PostgresOK /\ DerivedOK /\ ProjectorOK /\ HistoryOK /\ \A p \in People : ids[p] <= lastId
  BY TypeInvParts DEF PartsOK, Identity
<1>2. /\ w \in Windows
      /\ known \in [People -> Id] /\ who \subseteq Id
      /\ Elements(Senders[w]) \subseteq People
  BY <1>1, ProjectEffect, ProjectType
<1>3. PICK o \in OwnerId(known) :
        tasks' = IF w \notin HasTask THEN tasks ELSE
          [tasks EXCEPT ![w] =
             [owner |-> Coalesce(o, @.owner),
              counterpart |-> IF Senders[w] = <<>> THEN @.counterpart ELSE known[Senders[w][1]]]]
  BY ProjectEffect
<1>4. /\ ids' = known /\ lastId' = lastId + Given(w)
      /\ rows' = [rows EXCEPT ![w] = who]
      /\ interactions' = [interactions EXCEPT ![KeyOf[w]] =
                            [who |-> who, ref |-> IF HasStore THEN w ELSE @.ref]]
      /\ artifact' = IF HasStore THEN [artifact EXCEPT ![w] = who] ELSE artifact
      /\ raced' = raced \cup ({w} \X (who \cap started))
  BY ProjectEffect DEF Note
<1>5. UNCHANGED <<graph, points, started>>
  BY DEF Project
<1>6. o \in Id /\ (o = 0 \/ \E p \in People : o = known[p])
  BY <1>2, <1>3, OwnerIdType
<1>7. Senders[w] # <<>> => Senders[w][1] \in People
  BY <1>2, LenProperties, EmptySeq
<1>8. /\ Given(w) \in Nat
      /\ \A p \in People : known[p] = ids[p] \/ known[p] \in (lastId + 1)..(lastId + Given(w))
  BY <1>1, <1>2, EnsuredIds DEF PostgresOK, Id
<1> HIDE DEF w, known, who
<1>9. lastId <= lastId' /\ \A p \in People : ids'[p] \in {0, ids[p]} \/ ids'[p] > lastId
  BY <1>1, <1>2, <1>4, <1>8 DEF PostgresOK, Id
<1>10. ASSUME NEW i \in started, i \in who
       PROVE  <<w, i>> \in raced'
  BY <1>4, <1>10
<1>11. ASSUME NEW v \in Windows, NEW i \in started
       PROVE  /\ i \in rows'[v] => i \in rows[v] \/ <<v, i>> \in raced'
              /\ i \in points'[v] => i \in points[v] \/ <<v, i>> \in raced'
              /\ i \in artifact'[v] => i \in artifact[v] \/ <<v, i>> \in raced'
              /\ i \in {tasks'[v].owner, tasks'[v].counterpart} =>
                   \/ i \in {0, tasks[v].owner, tasks[v].counterpart}
                   \/ \E p \in People : i = ids'[p]
  <2>1. i \in rows'[v] => i \in rows[v] \/ <<v, i>> \in raced'
    BY <1>1, <1>4, <1>10 DEF PostgresOK
  <2>2. i \in points'[v] => i \in points[v] \/ <<v, i>> \in raced'
    BY <1>5
  <2>3. i \in artifact'[v] => i \in artifact[v] \/ <<v, i>> \in raced'
    BY <1>1, <1>4, <1>10 DEF DerivedOK
  <2>4. i \in {tasks'[v].owner, tasks'[v].counterpart} =>
                   \/ i \in {0, tasks[v].owner, tasks[v].counterpart}
                   \/ \E p \in People : i = ids'[p]
    BY <1>1, <1>3, <1>4, <1>6, <1>7 DEF PostgresOK, Coalesce
  <2> QED
    BY <2>1, <2>2, <2>3, <2>4
<1>12. ASSUME NEW k \in Keys, NEW i \in started, i \in interactions'[k].who
       PROVE  i \in interactions[k].who \/ \E v \in Windows : KeyOf[v] = k /\ <<v, i>> \in raced'
  BY <1>1, <1>2, <1>4, <1>10, <1>12 DEF PostgresOK
<1> QED
  BY <1>4, <1>5, <1>9, <1>11, <1>12 DEF Noted

LEMMA NotedProjector ==
  ASSUME TypeInv, Identity,
         \/ \E w \in Windows : Send(w)
         \/ ProjectFails \/ ProjectGraph \/ RequestEmbedding \/ Index
  PROVE  Noted
<1> USE ErasureAssumption
<1>1. PostgresOK /\ DerivedOK /\ ProjectorOK /\ HistoryOK /\ \A p \in People : ids[p] <= lastId
  BY TypeInvParts DEF PartsOK, Identity
<1>2. CASE \E w \in Windows : Send(w)
  BY <1>1, <1>2 DEF Send, Noted, postgres, derived, PostgresOK
<1>3. CASE ProjectFails
  <2> DEFINE w == Head(commands)
             who == SenderIds(w)
  <2>1. /\ w \in Windows /\ lastId + Given(w) \in Nat
    BY <1>1, <1>3, ProjectFailsEffect, ProjectType
  <2>2. Given(w) \in Nat
    BY <1>1, <2>1, EnsuredIds DEF PostgresOK, Id
  <2>3. /\ lastId' = lastId + Given(w)
        /\ artifact' = IF HasStore THEN [artifact EXCEPT ![w] = who] ELSE artifact
        /\ raced' = raced \cup ({w} \X (who \cap started))
    BY <1>3, ProjectFailsEffect DEF Note
  <2>4. UNCHANGED <<ids, rows, interactions, tasks, graph, points, started>>
    BY <1>3 DEF ProjectFails
  <2> HIDE DEF w, who
  <2> QED
    BY <1>1, <2>1, <2>2, <2>3, <2>4 DEF Noted, PostgresOK, DerivedOK
<1>4. CASE ProjectGraph
  BY <1>1, <1>4 DEF ProjectGraph, Note, Noted, postgres, PostgresOK, ProjectorOK
<1>5. CASE RequestEmbedding
  BY <1>1, <1>5 DEF RequestEmbedding, Noted, postgres, derived, PostgresOK
<1>6. CASE Index
  <2>1. Head(embed) \in [win : Windows, who : SUBSET Id]
    BY <1>1, <1>6, HeadTailProperties DEF Index, ProjectorOK
  <2> QED
    BY <1>1, <1>6, <2>1 DEF Index, Note, Noted, postgres, PostgresOK, DerivedOK
<1> QED
  BY <1>2, <1>3, <1>4, <1>5, <1>6

LEMMA NotedErase ==
  ASSUME TypeInv, NEW j \in Jobs,
         (\E p \in People : Submit(j, p)) \/ EraseStep(j) \/ JobFails(j) \/ Restart
  PROVE  Noted
<1>1. PostgresOK /\ DerivedOK /\ ProjectorOK /\ HistoryOK
  BY TypeInvParts DEF PartsOK
<1>2. CASE (\E p \in People : Submit(j, p)) \/ Validate(j) \/ JobFails(j) \/ Restart \/ Audit(j)
  <2>1. UNCHANGED <<postgres, derived, started, raced>>
    BY <1>2 DEF Submit, Validate, JobFails, Restart, Audit
  <2> QED
    BY <1>1, <2>1 DEF Noted, postgres, derived, PostgresOK
<1>3. CASE Collect(j)
  BY <1>1, <1>3 DEF Collect, Noted, postgres, derived, PostgresOK
<1>4. CASE Commit(j)
  <2>1. UNCHANGED <<lastId, artifact, graph, points, started, raced>>
    BY <1>4 DEF Commit, derived
  <2>2. CASE UNCHANGED <<ids, rows, interactions, tasks>>
    BY <1>1, <2>1, <2>2 DEF Noted, PostgresOK
  <2>3. CASE Deleted(j)
    <3>1. ASSUME NEW w \in Windows
          PROVE  /\ rows'[w] \subseteq rows[w]
                 /\ tasks'[w].owner \in {0, tasks[w].owner}
                 /\ tasks'[w].counterpart \in {0, tasks[w].counterpart}
      BY <2>3 DEF Deleted, NoTask
    <3>2. \A k \in Keys : interactions'[k].who \subseteq interactions[k].who
      BY <2>3 DEF Deleted, NoRow
    <3>3. \A p \in People : ids'[p] \in {0, ids[p]}
      BY <2>3 DEF Deleted
    <3> QED
      BY <1>1, <2>1, <3>1, <3>2, <3>3 DEF Noted, PostgresOK
  <2> QED
    BY <1>4, <2>2, <2>3 DEF Commit
<1>5. CASE CleanPoints(j)
  BY <1>1, <1>5 DEF CleanPoints, Noted, postgres, PostgresOK
<1>6. CASE CleanGraph(j)
  BY <1>1, <1>6 DEF CleanGraph, Noted, postgres, PostgresOK
<1>7. CASE CleanObjects(j)
  BY <1>1, <1>7 DEF CleanObjects, Without, Noted, postgres, PostgresOK
<1> QED
  BY <1>2, <1>3, <1>4, <1>5, <1>6, <1>7 DEF EraseStep

LEMMA NotedStep ==
  ASSUME TypeInv, Identity, Next
  PROVE  Noted
<1>1. CASE Restart
  <2>1. PICK j \in Jobs : TRUE
    BY <1>1 DEF Restart
  <2> QED
    BY <1>1, <2>1, NotedErase
<1> QED
  BY <1>1, NotedProject, NotedProjector, NotedErase DEF Next

\* How a step can move the job k.
Kept(k) ==
  /\ job[k].at # "none" /\ job'[k].at # "none"
  /\ job'[k].person = job[k].person /\ job'[k].id = job[k].id
  /\ job'[k].refs = job[k].refs /\ job'[k].blind = job[k].blind
  /\ job[k].warned => job'[k].warned

Moves(k, from, to) == Kept(k) /\ job[k].at = from /\ job'[k].at = to

JobMoves(k) ==
  \/ job'[k] = job[k]
  \/ \E p \in People : Submit(k, p)
  \/ Kept(k) /\ job'[k].at \in {"collect", "failed", "lost"}
  \/ Collect(k)
  \/ Commit(k) /\ Moves(k, "commit", "points")
  \/ CleanPoints(k) /\ Moves(k, "points", "graph")
  \/ CleanGraph(k) /\ Moves(k, "graph", "objects")
  \/ CleanObjects(k) /\ Moves(k, "objects", "audit")
  \/ Audit(k) /\ Moves(k, "audit", "done")

\* A job that only moves on keeps what it holds.
LEMMA OnwardsKept ==
  ASSUME JobsOK, NEW j \in Jobs, NEW to, job[j].at # "none", to # "none",
         \/ job' = [job EXCEPT ![j].at = to]
         \/ job' = [job EXCEPT ![j].at = to, ![j].warned = TRUE]
  PROVE  Moves(j, job[j].at, to)
<1>1. job[j] \in JobRecords
  BY DEF JobsOK
<1>2. CASE job' = [job EXCEPT ![j].at = to]
  <2>1. job'[j] = [job[j] EXCEPT !.at = to]
    BY <1>2 DEF JobsOK
  <2> QED
    BY <1>1, <2>1 DEF JobRecords, Moves, Kept
<1>3. CASE job' = [job EXCEPT ![j].at = to, ![j].warned = TRUE]
  <2>1. job'[j] = [job[j] EXCEPT !.at = to, !.warned = TRUE]
    BY <1>3 DEF JobsOK
  <2> QED
    BY <1>1, <2>1 DEF JobRecords, Moves, Kept
<1> QED
  BY <1>2, <1>3

\* A warning stays with its job.
LEMMA WarnedAfter ==
  ASSUME JobsOK, NEW j \in Jobs, NEW to, job' = [job EXCEPT ![j].at = to, ![j].warned = TRUE]
  PROVE  job'[j].warned
<1>1. job[j] \in JobRecords
  BY DEF JobsOK
<1>2. job'[j] = [job[j] EXCEPT !.at = to, !.warned = TRUE]
  BY DEF JobsOK
<1> QED
  BY <1>1, <1>2 DEF JobRecords

\* The jobs that are not at work stay as they are.
LEMMA OthersKept ==
  ASSUME JobsOK, NEW j \in Jobs, NEW k \in Jobs \ {j},
         (\E p \in People : Submit(j, p)) \/ EraseStep(j) \/ JobFails(j)
  PROVE  job'[k] = job[k]
<1>1. CASE \E p \in People : Submit(j, p)
  BY <1>1 DEF Submit, JobsOK
<1>2. CASE Validate(j) \/ Collect(j) \/ Commit(j) \/ JobFails(j)
  BY <1>2 DEF Validate, Collect, Commit, JobFails, Goto, JobsOK
<1>3. CASE CleanPoints(j) \/ CleanGraph(j)
  BY <1>3 DEF CleanPoints, CleanGraph, Goto, Warn, JobsOK
<1>4. CASE CleanObjects(j) \/ Audit(j)
  BY <1>4 DEF CleanObjects, Audit, Goto, Warn, JobsOK
<1> QED
  BY <1>1, <1>2, <1>3, <1>4 DEF EraseStep

LEMMA JobStep ==
  ASSUME TypeInv, Next, NEW k \in Jobs
  PROVE  JobMoves(k)
<1>1. JobsOK
  BY TypeInvParts DEF PartsOK
<1>2. CASE \/ \E w \in Windows : Send(w)
           \/ Project \/ ProjectFails \/ ProjectGraph \/ RequestEmbedding \/ Index
  BY <1>2 DEF Send, Project, ProjectFails, ProjectGraph, RequestEmbedding, Index, JobMoves
<1>3. CASE Restart
  <2>1. CASE job[k].at = "none"
    BY <1>3, <2>1 DEF Restart, JobMoves
  <2>2. CASE job[k].at # "none"
    <3>1. job'[k] = [job[k] EXCEPT !.at = "lost"] /\ job[k] \in JobRecords
      BY <1>1, <1>3, <2>2 DEF Restart, JobsOK
    <3> QED
      BY <2>2, <3>1 DEF JobMoves, Kept, JobRecords
  <2> QED
    BY <2>1, <2>2
<1>4. ASSUME NEW j \in Jobs, j # k,
             (\E p \in People : Submit(j, p)) \/ EraseStep(j) \/ JobFails(j)
      PROVE  JobMoves(k)
  BY <1>1, <1>4, OthersKept DEF JobMoves
<1>5. CASE \E p \in People : Submit(k, p)
  BY <1>5 DEF JobMoves
<1>6. CASE Validate(k)
  <2>1. /\ job[k].at # "none"
        /\ job' = [job EXCEPT ![k].at = "collect"] \/ job' = [job EXCEPT ![k].at = "failed"]
    BY <1>6 DEF Validate, Goto
  <2> QED
    BY <1>1, <2>1, OnwardsKept DEF JobMoves, Moves
<1>7. CASE JobFails(k)
  BY <1>1, <1>7, OnwardsKept DEF JobFails, JobMoves, Moves
<1>8. CASE Collect(k)
  BY <1>8 DEF JobMoves
<1>9. CASE Commit(k)
  <2>1. /\ job[k].at = "commit"
        /\ job' = [job EXCEPT ![k].at = "points"] \/ job' = [job EXCEPT ![k].at = "failed"]
    BY <1>9 DEF Commit
  <2> QED
    BY <1>1, <1>9, <2>1, OnwardsKept DEF JobMoves, Moves
<1>10. CASE CleanPoints(k)
  <2>1. /\ job[k].at = "points"
        /\ \/ job' = [job EXCEPT ![k].at = "graph"]
           \/ job' = [job EXCEPT ![k].at = "graph", ![k].warned = TRUE]
    BY <1>10 DEF CleanPoints, Goto, Warn
  <2> QED
    BY <1>1, <1>10, <2>1, OnwardsKept DEF JobMoves
<1>11. CASE CleanGraph(k)
  <2>1. /\ job[k].at = "graph"
        /\ \/ job' = [job EXCEPT ![k].at = "objects"]
           \/ job' = [job EXCEPT ![k].at = "objects", ![k].warned = TRUE]
    BY <1>11 DEF CleanGraph, Goto, Warn
  <2> QED
    BY <1>1, <1>11, <2>1, OnwardsKept DEF JobMoves
<1>12. CASE CleanObjects(k)
  <2>1. /\ job[k].at = "objects"
        /\ \/ job' = [job EXCEPT ![k].at = "audit"]
           \/ job' = [job EXCEPT ![k].at = "audit", ![k].warned = TRUE]
    BY <1>12 DEF CleanObjects, Goto, Warn
  <2> QED
    BY <1>1, <1>12, <2>1, OnwardsKept DEF JobMoves
<1>13. CASE Audit(k)
  <2>1. /\ job[k].at = "audit"
        /\ job' = [job EXCEPT ![k].at = "done"] \/ job' = [job EXCEPT ![k].at = "failed"]
    BY <1>13 DEF Audit, Goto
  <2> QED
    BY <1>1, <1>13, <2>1, OnwardsKept DEF JobMoves, Moves
<1> QED
  BY <1>2, <1>3, <1>4, <1>5, <1>6, <1>7, <1>8, <1>9, <1>10, <1>11, <1>12, <1>13
  DEF Next, EraseStep

\* A job starts out with the row of the person it was asked to erase.
LEMMA SubmitEffect ==
  ASSUME JobsOK, NEW j \in Jobs, NEW p \in People, Submit(j, p)
  PROVE  /\ job[j].at = "none" /\ job'[j].at = "queued"
         /\ job'[j].person = p /\ job'[j].id = ids[p]
         /\ ids' = ids
<1>1. /\ job[j].at = "none"
      /\ job'[j] = [job[j] EXCEPT !.at = "queued", !.person = p, !.id = ids[p]] /\ ids' = ids
  BY DEF Submit, JobsOK, postgres
<1>2. job[j] \in JobRecords
  BY DEF JobsOK
<1> QED
  BY <1>1, <1>2 DEF JobRecords

\* What a job finds.
LEMMA CollectEffect ==
  ASSUME JobsOK, NEW j \in Jobs, Collect(j)
  PROVE  LET i == job[j].id
             hit == {k \in Keys : i \in interactions[k].who}
         IN  /\ job[j].at = "collect" /\ job'[j].at = "commit"
             /\ job'[j].id = i /\ job'[j].person = job[j].person
             /\ job'[j].warned = job[j].warned
             /\ job'[j].windows =
                  {w \in Windows : rows[w] # {} /\ job[j].person \in Elements(Senders[w])}
             /\ job'[j].keys = hit
             /\ job'[j].refs = {interactions[k].ref : k \in hit} \ {None}
             /\ job'[j].blind = {w \in Windows : \A k \in hit : interactions[k].ref # w}
             /\ started' = started \cup {i}
             /\ UNCHANGED <<postgres, derived, audit, raced>>
<1> DEFINE i == job[j].id
           hit == {k \in Keys : i \in interactions[k].who}
           W == {w \in Windows : rows[w] # {} /\ job[j].person \in Elements(Senders[w])}
           R == {interactions[k].ref : k \in hit} \ {None}
           B == {w \in Windows : \A k \in hit : interactions[k].ref # w}
           T == {w \in Windows : i \in {tasks[w].owner, tasks[w].counterpart}}
           r == [job[j] EXCEPT !.at = "commit", !.windows = W, !.keys = hit, !.refs = R,
                               !.blind = B, !.tasks = T]
<1>1. /\ job[j].at = "collect"
      /\ job' = [job EXCEPT ![j] = r]
      /\ started' = started \cup {i}
      /\ UNCHANGED <<postgres, derived, audit, raced>>
  BY DEF Collect
<1>2. job[j] \in JobRecords /\ job'[j] = r
  BY <1>1 DEF JobsOK
<1> HIDE DEF i, hit, W, R, B, T
<1>3. /\ r.at = "commit" /\ r.id = job[j].id /\ r.person = job[j].person
      /\ r.warned = job[j].warned /\ r.windows = W /\ r.keys = hit /\ r.refs = R /\ r.blind = B
  BY <1>2 DEF JobRecords
<1> QED
  BY <1>1, <1>2, <1>3 DEF i, hit, W, R, B

\* A job gets its target when it is submitted, and keeps it.
LEMMA TargetStep ==
  ASSUME TypeInv, Next, NEW k \in Jobs
  PROVE  \/ job'[k].at = job[k].at /\ job'[k].person = job[k].person /\ job'[k].id = job[k].id
         \/ /\ job[k].at # "none" /\ job'[k].person = job[k].person /\ job'[k].id = job[k].id
         \/ \E p \in People : job'[k].person = p /\ job'[k].id = ids[p] /\ ids' = ids
                              /\ job'[k].at = "queued"
<1>1. JobsOK
  BY TypeInvParts DEF PartsOK
<1>2. ASSUME NEW p \in People, Submit(k, p)
      PROVE  /\ job'[k].person = p /\ job'[k].id = ids[p] /\ ids' = ids /\ job'[k].at = "queued"
  BY <1>1, <1>2, SubmitEffect
<1>3. CASE Collect(k)
  BY <1>1, <1>3, CollectEffect
<1> QED
  BY <1>2, <1>3, JobStep DEF JobMoves, Moves, Kept

\* But for a projection, nobody gets an id, and no row names anybody new.
LEMMA IdsShrink ==
  ASSUME TypeInv, Next, ~Project
  PROVE  /\ \A p \in People : ids'[p] \in {0, ids[p]}
         /\ \A w \in Windows : rows'[w] \subseteq rows[w]
<1>1. CASE UNCHANGED <<ids, rows>>
  BY <1>1
<1>2. ASSUME NEW j \in Jobs, Commit(j)
      PROVE  /\ \A p \in People : ids'[p] \in {0, ids[p]}
             /\ \A w \in Windows : rows'[w] \subseteq rows[w]
  BY <1>2 DEF Commit, Deleted
<1>3. ASSUME NEW w \in Windows, Send(w)
      PROVE  UNCHANGED <<ids, rows>>
  BY <1>3 DEF Send, postgres
<1>4. CASE ProjectFails \/ ProjectGraph \/ RequestEmbedding \/ Index
  BY <1>1, <1>4 DEF ProjectFails, ProjectGraph, RequestEmbedding, Index, postgres
<1>5. ASSUME NEW j \in Jobs,
             \/ \E p \in People : Submit(j, p)
             \/ Validate(j) \/ Collect(j) \/ JobFails(j)
      PROVE  UNCHANGED <<ids, rows>>
  BY <1>5 DEF Submit, Validate, Collect, JobFails, postgres
<1>6. ASSUME NEW j \in Jobs, CleanPoints(j) \/ CleanGraph(j) \/ CleanObjects(j) \/ Audit(j)
      PROVE  UNCHANGED <<ids, rows>>
  BY <1>6 DEF CleanPoints, CleanGraph, CleanObjects, Audit, postgres
<1>7. CASE Restart
  BY <1>1, <1>7 DEF Restart, postgres
<1> QED
  BY <1>1, <1>2, <1>3, <1>4, <1>5, <1>6, <1>7 DEF Next, EraseStep

LEMMA IdentityStep ==
  ASSUME TypeInv, Identity, Next
  PROVE  Identity'
<1>1. /\ PostgresOK /\ JobsOK /\ PostgresOK' /\ JobsOK'
  BY TypeStep, TypeInvParts DEF PartsOK
<1>2. Noted
  BY NotedStep
<1>3. lastId \in Nat /\ lastId' \in Nat /\ lastId <= lastId'
  BY <1>1, <1>2 DEF PostgresOK, Noted
<1>4. \A p \in People : ids[p] \in Nat /\ ids'[p] \in Nat
  BY <1>1 DEF PostgresOK, Id
<1>5. ASSUME NEW k \in Jobs
      PROVE  job'[k].id <= lastId'
  <2>1. job[k].id \in Nat /\ job'[k].id \in Nat
    BY <1>1 DEF JobsOK, JobRecords, Id
  <2> QED
    BY <1>3, <1>4, <2>1, TargetStep DEF Identity
<1>6. ASSUME NEW p \in People, NEW i \in Nat \ {0}, Owns(p, i)'
      PROVE  Owns(p, i) \/ ids'[p] = i
  <2>1. CASE ids'[p] = i
    BY <2>1
  <2>2. ASSUME NEW j \in Jobs, job'[j].at # "none", job'[j].person = p, job'[j].id = i
        PROVE  Owns(p, i)
    BY <2>2, TargetStep DEF Owns
  <2> QED
    BY <1>6, <2>1, <2>2 DEF Owns
<1>7. ASSUME NEW p \in People, NEW i \in Nat \ {0}, Owns(p, i)
      PROVE  i \in 1..lastId
  <2>1. i <= lastId
    BY <1>7 DEF Identity, Owns
  <2> QED
    BY <1>3, <2>1
<1>8. CASE ~Project
  <2>1. ASSUME NEW p \in People, NEW i \in Nat \ {0}, Owns(p, i)'
        PROVE  Owns(p, i) /\ i \in 1..lastId
    <3>1. Owns(p, i)
      BY <1>6, <1>8, <2>1, IdsShrink DEF Owns
    <3> QED
      BY <1>7, <3>1
  <2>2. \A p \in People : ids'[p] <= lastId'
    BY <1>3, <1>4, <1>8, IdsShrink DEF Identity
  <2>3. ASSUME NEW i \in 1..lastId', NEW p \in People, Owns(p, i)'
        PROVE  /\ \A q \in People : Owns(q, i)' => p = q
               /\ \A w \in Windows : i \in rows'[w] => p \in Elements(Senders[w])
    BY <1>3, <1>8, <2>1, <2>3, IdsShrink DEF Identity
  <2>4. ASSUME NEW w \in Windows, NEW i \in rows'[w]
        PROVE  i <= lastId'
    <3>1. i \in rows[w] /\ i \in Nat
      BY <1>1, <1>8, IdsShrink DEF PostgresOK, Id
    <3> QED
      BY <1>3, <3>1 DEF Identity
  <2> QED
    BY <1>5, <2>2, <2>3, <2>4 DEF Identity
<1>9. CASE Project
  <2> DEFINE w == Head(commands)
             known == Ensured(w)
             who == SenderIds(w)
  <2>1. /\ w \in Windows /\ ids' = known /\ lastId' = lastId + Given(w)
        /\ rows' = [rows EXCEPT ![w] = who]
    BY <1>9, ProjectEffect, ProjectType, TypeInvParts DEF PartsOK, Identity
  <2>2. /\ Given(w) \in Nat
        /\ \A p \in People : known[p] = ids[p] \/ known[p] \in (lastId + 1)..(lastId + Given(w))
        /\ \A p, q \in People : known[p] > lastId /\ known[p] = known[q] => p = q
        /\ who \subseteq Nat \ {0}
    BY <1>1, <2>1, EnsuredIds DEF Identity, PostgresOK, Id
  <2>3. \A i \in who : \E q \in Elements(Senders[w]) : i = known[q]
    BY DEF SenderIds
  <2>4. Elements(Senders[w]) \subseteq People
    BY <2>1, SendersFinite
  <2> HIDE DEF w, known, who
  <2>5. \A p \in People : ids'[p] <= lastId'
    BY <1>3, <1>4, <2>1, <2>2 DEF Identity
  <2>6. ASSUME NEW p \in People, NEW i \in Nat \ {0}, Owns(p, i)'
        PROVE  (Owns(p, i) /\ i \in 1..lastId) \/ (i > lastId /\ known[p] = i)
    <3>1. Owns(p, i) \/ known[p] = i
      BY <1>6, <2>1, <2>6
    <3>2. CASE Owns(p, i)
      BY <1>7, <3>2
    <3>3. CASE known[p] = i
      BY <1>3, <1>7, <2>2, <3>3 DEF Owns
    <3> QED
      BY <3>1, <3>2, <3>3
  <2>7. ASSUME NEW i \in 1..lastId', NEW p \in People, NEW q \in People,
               Owns(p, i)', Owns(q, i)'
        PROVE  p = q
    <3>1. i \in Nat \ {0}
      BY <1>3
    <3>2. CASE i \in 1..lastId
      <4>1. Owns(p, i) /\ Owns(q, i)
        BY <1>3, <2>6, <2>7, <3>1, <3>2
      <4> QED
        BY <3>2, <4>1 DEF Identity
    <3>3. CASE i > lastId
      <4>1. known[p] = i /\ known[q] = i
        BY <1>3, <2>6, <2>7, <3>1, <3>3
      <4> QED
        BY <2>2, <3>3, <4>1
    <3> QED
      BY <1>3, <3>2, <3>3
  <2>8. ASSUME NEW i \in 1..lastId', NEW p \in People, Owns(p, i)',
               NEW v \in Windows, i \in rows'[v]
        PROVE  p \in Elements(Senders[v])
    <3>1. i \in Nat \ {0}
      BY <1>3
    <3>2. CASE v = w
      <4>1. i \in who
        BY <1>1, <2>1, <2>8, <3>2 DEF PostgresOK
      <4>2. PICK q \in Elements(Senders[w]) : i = known[q]
        BY <2>3, <4>1
      <4>3. Owns(q, i)'
        BY <2>1, <4>2 DEF Owns
      <4>4. p = q
        BY <2>4, <2>7, <2>8, <4>3
      <4> QED
        BY <3>2, <4>4
    <3>3. CASE v # w
      <4>1. i \in rows[v] /\ i <= lastId
        BY <1>1, <2>1, <2>8, <3>3 DEF PostgresOK, Identity
      <4>2. Owns(p, i)
        BY <1>3, <2>6, <2>8, <3>1, <4>1
      <4> QED
        BY <1>3, <3>1, <4>1, <4>2 DEF Identity
    <3> QED
      BY <3>2, <3>3
  <2>9. ASSUME NEW v \in Windows, NEW i \in rows'[v]
        PROVE  i <= lastId'
    <3>1. CASE i \in who
      BY <2>3, <2>4, <2>5, <2>1, <3>1
    <3>2. CASE i \notin who
      <4>1. i \in rows[v] /\ i \in Nat
        BY <1>1, <2>1, <3>2 DEF PostgresOK, Id
      <4> QED
        BY <1>3, <4>1 DEF Identity
    <3> QED
      BY <3>1, <3>2
  <2> QED
    BY <1>5, <2>5, <2>7, <2>8, <2>9 DEF Identity
<1> QED
  BY <1>8, <1>9

-----------------------------------------------------------------------------
(***************************************************************************)
(* What an erase has found and what it leaves.                             *)
(***************************************************************************)

LEMMA JobFacts ==
  ASSUME TypeInv, Identity, NEW k \in Jobs, job[k].at # "none"
  PROVE  /\ job[k].id \in 1..lastId /\ job[k].person \in People
         /\ Owns(job[k].person, job[k].id)
<1>1. job[k].id \in Nat /\ job[k].id # 0 /\ job[k].person \in People /\ lastId \in Nat
  BY TypeInvParts DEF PartsOK, JobsOK, JobRecords, PostgresOK, Id
<1>2. job[k].id <= lastId
  BY DEF Identity
<1> QED
  BY <1>1, <1>2 DEF Owns

LEMMA CollectionStep ==
  ASSUME TypeInv, Identity, Collection, Next
  PROVE  Collection'
<1> SUFFICES ASSUME NEW k \in Jobs, job'[k].at \in {"commit"} \cup Past
             PROVE  Collected(k)'
  BY DEF Collection, Past
<1>1. JobMoves(k) /\ Noted /\ JobsOK
  BY JobStep, NotedStep, TypeInvParts DEF PartsOK
<1>2. CASE job'[k] = job[k]
  <2>1. Collected(k)
    BY <1>2 DEF Collection
  <2> QED
    BY <1>1, <1>2, <2>1 DEF Noted, Collected
<1>3. CASE \E p \in People : Submit(k, p)
  <2>1. job'[k].at = "queued"
    BY <1>1, <1>3, SubmitEffect
  <2> QED
    BY <2>1 DEF Past
<1>4. CASE Collect(k)
  <2> DEFINE i == job[k].id
             hit == {x \in Keys : i \in interactions[x].who}
  <2>1. /\ job[k].at = "collect" /\ job'[k].id = i
        /\ job'[k].windows =
             {w \in Windows : rows[w] # {} /\ job[k].person \in Elements(Senders[w])}
        /\ job'[k].keys = hit
        /\ job'[k].refs = {interactions[x].ref : x \in hit} \ {None}
        /\ job'[k].blind = {w \in Windows : \A x \in hit : interactions[x].ref # w}
        /\ started' = started \cup {i}
        /\ rows' = rows /\ interactions' = interactions
    BY <1>1, <1>4, CollectEffect DEF postgres
  <2>2. i \in 1..lastId /\ job[k].person \in People /\ Owns(job[k].person, i)
    BY <2>1, JobFacts
  <2>3. i \in started'
    BY <2>1
  <2>4. ASSUME NEW w \in Windows, w \notin job'[k].blind
        PROVE  w \in job'[k].refs
    <3>1. PICK x \in hit : interactions[x].ref = w
      BY <2>1, <2>4
    <3> QED
      BY <2>1, <3>1, ErasureAssumption
  <2>5. ASSUME NEW w \in Windows, i \in rows[w]
        PROVE  w \in job'[k].windows
    BY <2>1, <2>2, <2>5 DEF Identity
  <2>6. ASSUME NEW x \in Keys, i \in interactions[x].who
        PROVE  x \in job'[k].keys
    BY <2>1, <2>6
  <2> HIDE DEF i, hit
  <2> QED
    BY <2>1, <2>3, <2>4, <2>5, <2>6 DEF Collected
<1>5. CASE \E from \in Past \cup {"commit"}, to \in Past : Moves(k, from, to)
  <2>1. /\ Collected(k) /\ job'[k].at # "commit"
        /\ job'[k].id = job[k].id /\ job'[k].refs = job[k].refs /\ job'[k].blind = job[k].blind
    BY <1>5 DEF Collection, Moves, Kept, Past
  <2> QED
    BY <1>1, <2>1 DEF Collected, Noted
<1> QED
  BY <1>1, <1>2, <1>3, <1>4, <1>5 DEF JobMoves, Past

\* What an audit entry says of its erase.
LEMMA AuditEffect ==
  ASSUME JobsOK, Next
  PROVE  \/ audit' = audit
         \/ \E k \in Jobs :
              /\ job[k].at = "audit"
              /\ audit' = audit \cup {[id |-> job[k].id, warned |-> job[k].warned,
                                       blind |-> job[k].blind]}
<1>1. ASSUME NEW w \in Windows, Send(w)
      PROVE  audit' = audit
  BY <1>1 DEF Send
<1>2. CASE Project \/ ProjectFails \/ ProjectGraph \/ RequestEmbedding \/ Index \/ Restart
  BY <1>2 DEF Project, ProjectFails, ProjectGraph, RequestEmbedding, Index, Restart
<1>3. ASSUME NEW j \in Jobs,
             \/ \E p \in People : Submit(j, p)
             \/ Validate(j) \/ Collect(j) \/ JobFails(j) \/ Commit(j)
      PROVE  audit' = audit
  BY <1>3 DEF Submit, Validate, Collect, JobFails, Commit
<1>4. ASSUME NEW j \in Jobs, CleanPoints(j) \/ CleanGraph(j) \/ CleanObjects(j)
      PROVE  audit' = audit
  BY <1>4 DEF CleanPoints, CleanGraph, CleanObjects
<1>5. ASSUME NEW j \in Jobs, Audit(j)
      PROVE  \/ audit' = audit
             \/ /\ job[j].at = "audit"
                /\ audit' = audit \cup {[id |-> job[j].id, warned |-> job[j].warned,
                                         blind |-> job[j].blind]}
  BY <1>5 DEF Audit
<1> QED
  BY <1>1, <1>2, <1>3, <1>4, <1>5 DEF Next, EraseStep

LEMMA AuditedStep ==
  ASSUME TypeInv, Identity, Collection, Audited, Next
  PROVE  Audited'
<1>1. Noted /\ JobsOK /\ lastId \in Nat /\ lastId' \in Nat
  BY NotedStep, TypeStep, TypeInvParts DEF PartsOK, PostgresOK
<1>2. ASSUME NEW a \in audit'
      PROVE  a.id \in started /\ a.id # 0 /\ a.id <= lastId /\ a.id \in Nat
  <2>1. CASE a \in audit
    <3>1. a.id \in Nat
      BY <2>1, TypeInvParts DEF PartsOK, HistoryOK, Id
    <3> QED
      BY <2>1, <3>1 DEF Audited
  <2>2. CASE a \notin audit
    <3>1. PICK k \in Jobs : job[k].at = "audit" /\ a.id = job[k].id
      BY <1>1, <1>2, <2>2, AuditEffect
    <3>2. a.id \in 1..lastId
      BY <3>1, JobFacts
    <3>3. a.id \in started
      BY <3>1 DEF Collection, Collected, Past
    <3> QED
      BY <1>1, <3>2, <3>3
  <2> QED
    BY <2>1, <2>2
<1> QED
  BY <1>1, <1>2 DEF Audited, Noted

\* An id that counts as erased will not be given out again.
LEMMA ErasedFacts ==
  ASSUME TypeInv, Identity, Collection, Audited, NEW i \in Erased
  PROVE  i \in started /\ i # 0 /\ i \in Nat /\ i <= lastId
<1>1. ASSUME NEW k \in Jobs, job[k].at \in Past, i = job[k].id
      PROVE  i \in started /\ i \in 1..lastId
  <2>1. job[k].at # "none"
    BY <1>1 DEF Past
  <2> QED
    BY <1>1, <2>1, JobFacts DEF Collection, Collected
<1>2. ASSUME NEW a \in audit, i = a.id
      PROVE  i \in started /\ i # 0 /\ i \in Nat /\ i <= lastId
  BY <1>2, TypeInvParts DEF Audited, PartsOK, HistoryOK, Id
<1>3. lastId \in Nat
  BY TypeInvParts DEF PartsOK, PostgresOK
<1> QED
  BY <1>1, <1>2, <1>3 DEF Erased

LEMMA ErasedStep ==
  ASSUME TypeInv, Identity, Next, NEW i \in Erased'
  PROVE  i \in Erased
         \/ \E k \in Jobs : Commit(k) /\ Moves(k, "commit", "points") /\ i = job[k].id
<1>1. JobsOK
  BY TypeInvParts DEF PartsOK
<1>2. ASSUME NEW k \in Jobs, job'[k].at \in Past, i = job'[k].id
      PROVE  i \in Erased \/ (Commit(k) /\ Moves(k, "commit", "points") /\ i = job[k].id)
  <2>1. JobMoves(k)
    BY JobStep
  <2>2. CASE job'[k] = job[k]
    BY <1>2, <2>2 DEF Erased
  <2>3. CASE \E p \in People : Submit(k, p)
    <3>1. job'[k].at = "queued"
      BY <1>1, <2>3, SubmitEffect
    <3> QED
      BY <1>2, <3>1 DEF Past
  <2>4. CASE Collect(k)
    <3>1. job'[k].at = "commit"
      BY <1>1, <2>4, CollectEffect
    <3> QED
      BY <1>2, <3>1 DEF Past
  <2>5. CASE Commit(k) /\ Moves(k, "commit", "points")
    BY <1>2, <2>5 DEF Moves, Kept
  <2>6. CASE \E from \in Past, to \in Past : Moves(k, from, to)
    BY <1>2, <2>6 DEF Moves, Kept, Erased
  <2> QED
    BY <1>2, <2>1, <2>2, <2>3, <2>4, <2>5, <2>6 DEF JobMoves, Past
<1>3. ASSUME NEW a \in audit', i = a.id
      PROVE  i \in Erased
  <2>1. CASE a \in audit
    BY <1>3, <2>1 DEF Erased
  <2>2. CASE a \notin audit
    <3>1. PICK k \in Jobs : job[k].at = "audit" /\ a.id = job[k].id
      BY <1>1, <1>3, <2>2, AuditEffect
    <3> QED
      BY <1>3, <3>1 DEF Erased, Past
  <2> QED
    BY <2>1, <2>2
<1> QED
  BY <1>2, <1>3 DEF Erased

\* Nothing in Postgres names i, but what has been noted.
Gone(i) ==
  /\ \A p \in People : ids[p] # i
  /\ \A w \in Windows :
       /\ i \in rows[w] => <<w, i>> \in raced
       /\ i \notin {tasks[w].owner, tasks[w].counterpart}
  /\ \A k \in Keys : i \in interactions[k].who =>
       \E w \in Windows : KeyOf[w] = k /\ <<w, i>> \in raced

\* The DELETEs leave nothing of the person.
LEMMA CommitGone ==
  ASSUME TypeInv, Identity, Collection, NEW k \in Jobs, Commit(k), Moves(k, "commit", "points")
  PROVE  Gone(job[k].id)'
<1> DEFINE i == job[k].id
<1>1. JobsOK /\ PostgresOK
  BY TypeInvParts DEF PartsOK
<1>2. Deleted(k) /\ raced' = raced /\ job'[k].id = i
  <2>1. ASSUME job' = [job EXCEPT ![k].at = "failed"]
        PROVE  FALSE
    <3>1. Moves(k, job[k].at, "failed")
      BY <1>1, <2>1, OnwardsKept DEF Moves
    <3> QED
      BY <3>1 DEF Moves
  <2> QED
    BY <2>1 DEF Commit, Moves, Kept
<1>3. i # 0
  BY <1>1 DEF JobsOK, Moves
<1>4. Collected(k) /\ job[k].at = "commit"
  BY DEF Collection, Moves
<1>5. \A p \in People : ids'[p] # i
  BY <1>2, <1>3 DEF Deleted
<1>6. ASSUME NEW w \in Windows, i \in rows'[w]
      PROVE  <<w, i>> \in raced
  BY <1>2, <1>4, <1>6 DEF Deleted, Collected
<1>7. ASSUME NEW w \in Windows
      PROVE  i # tasks'[w].owner /\ i # tasks'[w].counterpart
  BY <1>2, <1>3 DEF Deleted, NoTask
<1>8. ASSUME NEW x \in Keys, i \in interactions'[x].who
      PROVE  \E w \in Windows : KeyOf[w] = x /\ <<w, i>> \in raced
  BY <1>2, <1>4, <1>8 DEF Deleted, NoRow, Collected
<1> QED
  BY <1>2, <1>5, <1>6, <1>7, <1>8 DEF Gone

LEMMA CommittedEraseStep ==
  ASSUME TypeInv, Identity, Collection, Audited, CommittedErase, Next
  PROVE  CommittedErase'
<1> SUFFICES ASSUME NEW i \in Erased' PROVE Gone(i)'
  BY DEF CommittedErase, Gone
<1>1. CASE i \in Erased
  <2>1. Gone(i)
    BY <1>1 DEF CommittedErase, Gone
  <2>2. i \in started /\ i # 0 /\ i \in Nat /\ i <= lastId
    BY <1>1, ErasedFacts
  <2>3. lastId \in Nat /\ Noted
    BY NotedStep, TypeInvParts DEF PartsOK, PostgresOK
  <2>4. \A p \in People : ids'[p] # i
    BY <2>1, <2>2, <2>3 DEF Gone, Noted
  <2>5. ASSUME NEW w \in Windows
        PROVE  /\ i \in rows'[w] => <<w, i>> \in raced'
               /\ i \notin {tasks'[w].owner, tasks'[w].counterpart}
    BY <2>1, <2>2, <2>3, <2>4 DEF Gone, Noted
  <2>6. ASSUME NEW k \in Keys, i \in interactions'[k].who
        PROVE  \E w \in Windows : KeyOf[w] = k /\ <<w, i>> \in raced'
    BY <2>1, <2>2, <2>3, <2>6 DEF Gone, Noted
  <2> QED
    BY <2>4, <2>5, <2>6 DEF Gone
<1>2. ASSUME NEW k \in Jobs, Commit(k), Moves(k, "commit", "points"), i = job[k].id
      PROVE  Gone(i)'
  <2>1. Gone(job[k].id)'
    BY <1>2, CommitGone
  <2> QED
    BY <1>2, <2>1 DEF Gone, Moves, Kept
<1> QED
  BY <1>1, <1>2, ErasedStep

\* Two jobs past their commit had different targets: the second one found the
\* row gone.
LEMMA OneEraserStep ==
  ASSUME TypeInv, Identity, CommittedErase, OneEraser, Next
  PROVE  OneEraser'
<1> SUFFICES ASSUME NEW j \in Jobs, NEW k \in Jobs,
                    job'[j].at \in Past, job'[k].at \in Past, job'[j].id = job'[k].id, j # k
             PROVE  FALSE
  BY DEF OneEraser, Past
<1>1. JobsOK
  BY TypeInvParts DEF PartsOK
<1>2. ASSUME NEW x \in Jobs, job'[x].at \in Past
      PROVE  /\ job'[x].id = job[x].id
             /\ job[x].at \in Past \/ (job[x].at = "commit" /\ Commit(x) /\ job'[x] # job[x])
  <2>1. JobMoves(x)
    BY JobStep
  <2>2. ~ \E p \in People : Submit(x, p)
    BY <1>1, <1>2, SubmitEffect DEF Past
  <2>3. ~ Collect(x)
    BY <1>1, <1>2, CollectEffect DEF Past
  <2> QED
    BY <1>2, <2>1, <2>2, <2>3 DEF JobMoves, Moves, Kept, Past
<1>3. ASSUME NEW x \in Jobs, NEW y \in Jobs, x # y, job[x].id = job[y].id,
             job[x].at = "commit", Commit(x), job'[x] # job[x], job'[x].at \in Past,
             job'[y].at \in Past
      PROVE  FALSE
  <2>1. job'[y] = job[y]
    BY <1>1, <1>3 DEF Commit, JobsOK
  <2>2. job[x].id \in Erased
    BY <1>3, <2>1 DEF Erased
  <2>3. job[x].person \in People
    BY <1>1, <1>3 DEF JobsOK
  <2>4. CASE job' = [job EXCEPT ![x].at = "failed"]
    <3>1. Moves(x, "commit", "failed")
      BY <1>1, <1>3, <2>4, OnwardsKept
    <3> QED
      BY <1>3, <3>1 DEF Moves, Past
  <2>5. CASE ids[job[x].person] = job[x].id
    BY <2>2, <2>3, <2>5 DEF CommittedErase
  <2> QED
    BY <1>3, <2>4, <2>5 DEF Commit
<1> QED
  BY <1>2, <1>3 DEF OneEraser

\* What a step of the clean-up without a warning leaves of the id.
LEMMA CleaningStep ==
  ASSUME TypeInv, Identity, Collection, Cleaned, Next,
         NEW k \in Jobs, ~job'[k].warned
  PROVE  Cleaning(k)'
<1> DEFINE i == job[k].id
<1>1. JobsOK /\ JobMoves(k) /\ Noted
  BY JobStep, NotedStep, TypeInvParts DEF PartsOK
<1>2. job[k].at \in {"commit"} \cup Past => i \in started
  BY DEF Collection, Collected
<1>3. CASE job'[k] = job[k]
  <2>1. Cleaning(k)
    BY <1>3 DEF Cleaned
  <2>2. CASE job[k].at \in {"graph", "objects", "audit"}
    BY <1>1, <1>2, <1>3, <2>1, <2>2
    DEF Cleaning, NoPoints, NoNode, NoObjects, Noted, Past
  <2> QED
    BY <1>3, <2>2 DEF Cleaning
<1>4. CASE \E p \in People : Submit(k, p)
  BY <1>1, <1>4, SubmitEffect DEF Cleaning
<1>5. CASE job'[k].at \in {"collect", "failed", "lost"}
  BY <1>5 DEF Cleaning
<1>6. CASE Collect(k)
  BY <1>1, <1>6, CollectEffect DEF Cleaning
<1>7. CASE Moves(k, "commit", "points") \/ Moves(k, "audit", "done")
  BY <1>7 DEF Cleaning, Moves
<1>8. CASE CleanPoints(k) /\ Moves(k, "points", "graph")
  <2>1. /\ points' = [w \in Windows |-> IF i \in points[w] THEN {} ELSE points[w]]
        /\ job'[k].id = i /\ job'[k].at = "graph"
    <3>1. job' # [job EXCEPT ![k].at = "graph", ![k].warned = TRUE]
      BY <1>1, WarnedAfter
    <3> QED
      BY <1>8, <3>1 DEF CleanPoints, Warn, Moves, Kept
  <2>2. NoPoints(i)'
    BY <2>1 DEF NoPoints
  <2> QED
    BY <2>1, <2>2 DEF Cleaning, NoPoints
<1>9. CASE CleanGraph(k) /\ Moves(k, "graph", "objects")
  <2>1. /\ graph' = IF HasGraph THEN graph \ {i} ELSE graph
        /\ UNCHANGED <<points, raced>>
        /\ job'[k].id = i /\ job'[k].at = "objects"
    <3>1. job' # [job EXCEPT ![k].at = "objects", ![k].warned = TRUE]
      BY <1>1, WarnedAfter
    <3> QED
      BY <1>9, <3>1 DEF CleanGraph, Warn, Moves, Kept
  <2>2. i \notin graph'
    BY <2>1 DEF Cleaned
  <2>3. NoPoints(i)
    BY <1>9 DEF Cleaned, Cleaning, Moves, Kept
  <2> QED
    BY <2>1, <2>2, <2>3 DEF Cleaning, NoPoints, NoNode
<1>10. CASE CleanObjects(k) /\ Moves(k, "objects", "audit")
  <2>1. /\ artifact' = Without(job[k].refs) \/ (job[k].refs = {} /\ artifact' = artifact)
        /\ UNCHANGED <<points, graph, raced>>
        /\ job'[k].id = i /\ job'[k].at = "audit" /\ job'[k].blind = job[k].blind
    <3>1. job' # [job EXCEPT ![k].at = "audit", ![k].warned = TRUE]
      BY <1>1, WarnedAfter
    <3> QED
      BY <1>10, <3>1 DEF CleanObjects, Warn, Moves, Kept
  <2>2. Collected(k)
    BY <1>10 DEF Collection, Moves, Past
  <2>3. ASSUME NEW w \in Windows \ job[k].blind
        PROVE  i \notin artifact'[w]
    BY <2>1, <2>2, <2>3 DEF Collected, Without
  <2>4. NoPoints(i) /\ NoNode(i)
    BY <1>10 DEF Cleaned, Cleaning, Moves, Kept
  <2> QED
    BY <2>1, <2>3, <2>4 DEF Cleaning, NoPoints, NoNode, NoObjects
<1> QED
  BY <1>1, <1>3, <1>4, <1>5, <1>6, <1>7, <1>8, <1>9, <1>10 DEF JobMoves

\* Without a graph store there are no nodes.
LEMMA GraphStep ==
  ASSUME TypeInv, Next, ~HasGraph, graph = {}
  PROVE  graph' = {}
<1>1. ASSUME NEW j \in Jobs, CleanGraph(j)
      PROVE  graph' = {}
  BY <1>1 DEF CleanGraph
<1>2. CASE ProjectGraph
  BY <1>2 DEF ProjectGraph
<1>3. ASSUME NEW w \in Windows, Send(w)
      PROVE  graph' = {}
  BY <1>3 DEF Send, derived
<1>4. CASE Project \/ ProjectFails \/ RequestEmbedding \/ Index \/ Restart
  BY <1>4 DEF Project, ProjectFails, RequestEmbedding, Index, Restart, derived
<1>5. ASSUME NEW j \in Jobs,
             \/ \E p \in People : Submit(j, p)
             \/ Validate(j) \/ Collect(j) \/ JobFails(j) \/ Commit(j)
      PROVE  graph' = {}
  BY <1>5 DEF Submit, Validate, Collect, JobFails, Commit, derived
<1>6. ASSUME NEW j \in Jobs, CleanPoints(j) \/ CleanObjects(j) \/ Audit(j)
      PROVE  graph' = {}
  BY <1>6 DEF CleanPoints, CleanObjects, Audit, derived
<1> QED
  BY <1>1, <1>2, <1>3, <1>4, <1>5, <1>6 DEF Next, EraseStep

LEMMA CleanEraseStep ==
  ASSUME TypeInv, Identity, Collection, Audited, Cleaned, Next
  PROVE  CleanErase'
<1> SUFFICES ASSUME NEW a \in audit', ~a.warned
             PROVE  NoPoints(a.id)' /\ NoNode(a.id)' /\ NoObjects(a.id, a.blind)'
  BY DEF CleanErase, NoPoints, NoNode, NoObjects
<1>1. Noted /\ JobsOK
  BY NotedStep, TypeInvParts DEF PartsOK
<1>2. a.id \in started /\ NoPoints(a.id) /\ NoNode(a.id) /\ NoObjects(a.id, a.blind)
  <2>1. CASE a \in audit
    BY <2>1 DEF Audited, Cleaned, CleanErase, NoPoints, NoNode, NoObjects
  <2>2. CASE a \notin audit
    <3>1. PICK k \in Jobs :
            /\ job[k].at = "audit"
            /\ a = [id |-> job[k].id, warned |-> job[k].warned, blind |-> job[k].blind]
      BY <1>1, <2>2, AuditEffect
    <3>2. a.id = job[k].id /\ a.blind = job[k].blind /\ ~job[k].warned
      BY <3>1
    <3>3. Cleaning(k)
      BY <3>2 DEF Cleaned
    <3>4. Collected(k)
      BY <3>1 DEF Collection, Past
    <3> QED
      BY <3>1, <3>2, <3>3, <3>4 DEF Cleaning, Collected
  <2> QED
    BY <2>1, <2>2
<1> QED
  BY <1>1, <1>2 DEF Noted, NoPoints, NoNode, NoObjects

LEMMA CleanedStep ==
  ASSUME TypeInv, Identity, Collection, Audited, Cleaned, Next
  PROVE  Cleaned'
<1>1. ~HasGraph => graph' = {}
  BY GraphStep DEF Cleaned
<1>2. \A k \in Jobs : ~job'[k].warned => Cleaning(k)'
  BY CleaningStep
<1> QED
  BY <1>1, <1>2, CleanEraseStep DEF Cleaned

-----------------------------------------------------------------------------
(***************************************************************************)
(* The theorems.                                                           *)
(***************************************************************************)

LEMMA InvInit == Init => Inv
<1> SUFFICES ASSUME Init PROVE Inv
  OBVIOUS
<1>1. TypeInv
  BY TypeInit
<1>2. \A j \in Jobs : job[j].at = "none" /\ job[j].id = 0
  BY DEF Init, NoJob
<1>3. \A w \in Windows : rows[w] = {}
  BY DEF Init
<1>4. lastId = 0 /\ \A p \in People : ids[p] = 0
  BY DEF Init
<1>5. Identity
  BY <1>2, <1>3, <1>4 DEF Identity
<1>6. Collection /\ OneEraser /\ \A j \in Jobs : Cleaning(j)
  BY <1>2 DEF Collection, OneEraser, Cleaning, Past
<1>7. audit = {} /\ graph = {}
  BY DEF Init
<1>8. Audited /\ CleanErase
  BY <1>7 DEF Audited, CleanErase
<1>9. Erased = {}
  BY <1>2, <1>7 DEF Erased, Past
<1> QED
  BY <1>1, <1>5, <1>6, <1>7, <1>8, <1>9 DEF Inv, CommittedErase, Cleaned

LEMMA InvStutter ==
  ASSUME Inv, UNCHANGED vars
  PROVE  Inv'
<1> USE DEF vars, postgres, derived, projector
<1>1. TypeInv'
  BY DEF Inv, TypeInv, TypeOK
<1>2. Identity'
  BY DEF Inv, Identity, Owns
<1>3. Collection' /\ Audited' /\ OneEraser'
  BY DEF Inv, Collection, Collected, Audited, OneEraser, Past
<1>4. Erased' = Erased
  BY DEF Erased, Past
<1>5. CommittedErase'
  BY <1>4 DEF Inv, CommittedErase
<1>6. Cleaned'
  BY DEF Inv, Cleaned, Cleaning, NoPoints, NoNode, NoObjects, CleanErase
<1> QED
  BY <1>1, <1>2, <1>3, <1>5, <1>6 DEF Inv

LEMMA InvStep == Inv /\ [Next]_vars => Inv'
<1> SUFFICES ASSUME Inv, [Next]_vars PROVE Inv'
  OBVIOUS
<1>1. CASE Next
  <2>1. TypeInv' /\ Identity'
    BY <1>1, TypeStep, IdentityStep DEF Inv
  <2>2. Collection' /\ Audited'
    BY <1>1, CollectionStep, AuditedStep DEF Inv
  <2>3. CommittedErase' /\ OneEraser' /\ Cleaned'
    BY <1>1, CommittedEraseStep, OneEraserStep, CleanedStep DEF Inv
  <2> QED
    BY <2>1, <2>2, <2>3 DEF Inv
<1>2. CASE UNCHANGED vars
  BY <1>2, InvStutter
<1> QED
  BY <1>1, <1>2

\* The invariant holds in every state an erasure can reach.
THEOREM Invariance == Spec => []Inv
  BY InvInit, InvStep, PTL DEF Spec

\* Every variable keeps its type.
THEOREM TypeCorrect == Spec => []TypeOK
<1>1. Inv => TypeOK
  BY DEF Inv, TypeInv
<1> QED
  BY <1>1, Invariance, PTL

\* Once an erase has committed, no row of Postgres names the person but those
\* committed between its SELECTs and its DELETEs, for any number of people,
\* windows, jobs and faults.
THEOREM CommittedEraseHolds == Spec => []CommittedErase
<1>1. Inv => CommittedErase
  BY DEF Inv
<1> QED
  BY <1>1, Invariance, PTL

\* An erase audited without a warning has left nothing in any store but what was
\* written of the person meanwhile and objects no interaction referred to.
THEOREM CleanEraseHolds == Spec => []CleanErase
<1>1. Inv => CleanErase
  BY DEF Inv, Cleaned
<1> QED
  BY <1>1, Invariance, PTL

\* Of several erases of one row at most one gets past its commit.
THEOREM OneEraserHolds == Spec => []OneEraser
<1>1. Inv => OneEraser
  BY DEF Inv
<1> QED
  BY <1>1, Invariance, PTL
==============================================================================
