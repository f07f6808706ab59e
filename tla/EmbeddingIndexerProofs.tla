------------------------ MODULE EmbeddingIndexerProofs ------------------------
(***************************************************************************)
(* Theorems about EmbeddingIndexer, for every value of its constants.      *)
(***************************************************************************)
EXTENDS EmbeddingIndexerInvariant, SequenceTheorems, FiniteSetTheorems, WellFoundedInduction, TLAPS

\* A set of numbers with a bound has a greatest element.
LEMMA GreatestNumber ==
  ASSUME NEW n \in Nat, NEW S \in SUBSET (1..n), S # {}
  PROVE  \E x \in S : \A y \in S : y <= x
<1> DEFINE R == OpToRel(<, Nat)
           T == {n - x : x \in S}
<1>1. IsWellFoundedOn(R, Nat)
  BY NatLessThanWellFounded
<1>2. \A x, y \in Nat : x < y => <<x, y>> \in R
  BY DEF OpToRel
<1> HIDE DEF R
<1>3. \A x \in S : x \in Nat /\ x <= n /\ n - x \in Nat
  OBVIOUS
<1>4. T \subseteq Nat
  BY <1>3
<1>5. T # {}
  BY <1>3
<1> HIDE DEF T
<1>6. PICK z \in T : \A y \in T : ~ (<<y, z>> \in R)
  BY <1>1, <1>4, <1>5, WFMin, Zenon
<1>7. PICK x \in S : z = n - x
  BY DEF T
<1>8. ASSUME NEW y \in S
      PROVE  y <= x
  <2>1. n - y \in T /\ n - y \in Nat /\ n - x \in Nat /\ y \in Nat /\ x \in Nat
    BY <1>3 DEF T
  <2>2. ~ (n - y < n - x)
    BY <1>2, <1>6, <1>7, <2>1
  <2> QED
    BY <2>1, <2>2
<1> QED
  BY <1>8

\* The part of the invariant that types the variables.
StreamOK ==
  /\ jobs \in Seq(Jobs) /\ grouped \in BOOLEAN
  /\ cursor \in Nat /\ cursor <= Len(jobs)
  /\ acked \subseteq Nat /\ acked \subseteq Delivered

StoreOK ==
  /\ model \in Models /\ created \subseteq Models /\ alias \in Models \cup {None}
  /\ points \in [Models -> [Points -> Nat]]
  /\ faults \in [FaultKinds -> Nat]
  /\ alias # None => alias \in created
  /\ alias = None => acked = {}

PlaceOK ==
  /\ pc \in PcStates
  /\ todo \in Seq(Nat \ {0}) /\ \A i \in DOMAIN todo : todo[i] \in Delivered
  /\ entry \in Nat
  /\ IF Handling THEN entry \in Delivered ELSE entry = 0
  /\ pc \in {"off", "probe", "collection", "alias"} => todo = <<>>
  /\ pc = "alias" => model \in created
  /\ pc \in {"idle", "embed", "upsert", "ack"} => alias # None

LEMMA TypeInvParts ==
  (TypeInv <=> StreamOK /\ StoreOK /\ PlaceOK) /\ (TypeInv' <=> StreamOK' /\ StoreOK' /\ PlaceOK')
<1>1. TypeInv <=> StreamOK /\ StoreOK /\ PlaceOK
  BY DEF TypeInv, TypeOK, Control, StreamOK, StoreOK, PlaceOK
<1>2. TypeInv' <=> StreamOK' /\ StoreOK' /\ PlaceOK'
  BY <1>1, PTL
<1> QED
  BY <1>1, <1>2

\* The job in hand.
LEMMA JobType ==
  ASSUME TypeInv, Handling
  PROVE  /\ entry \in DOMAIN jobs /\ entry \in Nat \ {0} /\ entry <= cursor
         /\ job \in Jobs /\ PointOf[job] \in Points
         /\ ModelOf[job] \in Models /\ alias \in Models /\ alias \in created
<1>1. StreamOK /\ StoreOK /\ PlaceOK
  BY TypeInvParts
<1>2. Len(jobs) \in Nat /\ DOMAIN jobs = 1..Len(jobs)
  BY <1>1, LenProperties DEF StreamOK
<1>3. entry \in DOMAIN jobs /\ entry \in Nat \ {0} /\ entry <= cursor
  BY <1>1, <1>2 DEF StreamOK, PlaceOK, Delivered
<1>4. job \in Jobs
  BY <1>1, <1>3 DEF StreamOK, job
<1> QED
  BY <1>1, <1>3, <1>4, IndexerAssumption DEF Points, StoreOK, PlaceOK, Handling

\* A batch is the next entries of the stream, in order.
LEMMA NextEntriesType ==
  ASSUME TypeInv
  PROVE  /\ NextEntries \in Seq(Nat \ {0})
         /\ Len(NextEntries) \in Nat /\ cursor + Len(NextEntries) <= Len(jobs)
         /\ DOMAIN NextEntries = 1..Len(NextEntries)
         /\ \A i \in 1..Len(NextEntries) : NextEntries[i] = cursor + i
<1> DEFINE n == IF Len(jobs) < cursor + BatchSize THEN Len(jobs) - cursor ELSE BatchSize
<1>1. StreamOK /\ Len(jobs) \in Nat
  BY TypeInvParts, LenProperties DEF StreamOK
<1>2. n \in Nat /\ cursor + n <= Len(jobs)
  BY <1>1, IndexerAssumption DEF StreamOK
<1>3. NextEntries = [i \in 1..n |-> cursor + i]
  BY DEF NextEntries
<1> HIDE DEF n
<1>4. \A i \in 1..n : cursor + i \in Nat \ {0}
  BY <1>1, <1>2 DEF StreamOK
<1>5. NextEntries \in Seq(Nat \ {0}) /\ Len(NextEntries) = n
  BY <1>2, <1>3, <1>4
<1> QED
  BY <1>2, <1>3, <1>5

\* What can happen to the stream and the acknowledgements.
LEMMA TypeInit == Init => TypeInv
<1> SUFFICES ASSUME Init PROVE TypeInv
  OBVIOUS
<1>1. StreamOK
  <2>1. grouped \in BOOLEAN /\ cursor = 0 /\ acked = {}
    BY DEF Init, InitIndexer
  <2>2. jobs \in Seq(Jobs) /\ Len(jobs) = 0
    BY DEF Init
  <2> QED
    BY <2>1, <2>2 DEF StreamOK
<1>2. StoreOK
  BY DEF Init, InitIndexer, StoreOK
<1>3. PlaceOK
  BY DEF Init, InitIndexer, PlaceOK, PcStates, Handling
<1> QED
  BY <1>1, <1>2, <1>3, TypeInvParts

LEMMA TypeStep == TypeInv /\ [Step]_vars => TypeInv'
<1> SUFFICES ASSUME TypeInv, [Step]_vars PROVE TypeInv'
  OBVIOUS
<1>1. StreamOK /\ StoreOK /\ PlaceOK
  BY TypeInvParts
<1>2. Len(jobs) \in Nat
  BY <1>1, LenProperties DEF StreamOK
<1> USE DEF Goto, Handling, Delivered, PcStates, bus, qdrant
<1>3. ASSUME NEW j \in Jobs, Request(j)
      PROVE  TypeInv'
  <2>1. jobs' \in Seq(Jobs) /\ Len(jobs') = Len(jobs) + 1
    BY <1>1, <1>3, AppendProperties DEF Request, StreamOK
  <2>2. StreamOK'
    BY <1>1, <1>2, <1>3, <2>1 DEF Request, StreamOK
  <2>3. StoreOK' /\ PlaceOK'
    BY <1>1, <1>3 DEF Request, StoreOK, PlaceOK
  <2> QED
    BY <2>2, <2>3, TypeInvParts
<1>4. CASE Start
  <2>1. StreamOK'
    BY <1>1, <1>2, <1>4 DEF Start, StreamOK
  <2>2. StoreOK'
    BY <1>1, <1>4 DEF Start, StoreOK
  <2>3. PlaceOK'
    BY <1>1, <1>4 DEF Start, PlaceOK
  <2> QED
    BY <2>1, <2>2, <2>3, TypeInvParts
<1>5. CASE Probe \/ EnsureCollection
  <2>1. StreamOK'
    BY <1>1, <1>5 DEF Probe, EnsureCollection, StreamOK
  <2>2. StoreOK'
    BY <1>1, <1>5 DEF Probe, EnsureCollection, StoreOK
  <2>3. PlaceOK'
    BY <1>1, <1>5 DEF Probe, EnsureCollection, PlaceOK
  <2> QED
    BY <2>1, <2>2, <2>3, TypeInvParts
<1>6. CASE EnsureAlias
  <2>1. StreamOK'
    BY <1>1, <1>6 DEF EnsureAlias, StreamOK
  <2>2. model # None
    BY <1>1, IndexerAssumption DEF StoreOK
  <2>3. StoreOK'
    BY <1>1, <1>6, <2>2 DEF EnsureAlias, StoreOK, PlaceOK
  <2>4. PlaceOK'
    BY <1>1, <1>6, <2>2 DEF EnsureAlias, PlaceOK
  <2> QED
    BY <2>1, <2>3, <2>4, TypeInvParts
<1>7. CASE Fetch \/ LoseReply
  <2>1. cursor' = cursor + Len(NextEntries) /\ (todo' = NextEntries \/ todo' = <<>>)
        /\ pc = "idle" /\ UNCHANGED <<jobs, grouped, acked, model, created, alias, points, pc, entry>>
    BY <1>7 DEF Fetch, LoseReply
  <2>2. /\ NextEntries \in Seq(Nat \ {0})
        /\ Len(NextEntries) \in Nat /\ cursor + Len(NextEntries) <= Len(jobs)
        /\ DOMAIN NextEntries = 1..Len(NextEntries)
        /\ \A i \in 1..Len(NextEntries) : NextEntries[i] = cursor + i
    BY NextEntriesType
  <2> HIDE DEF NextEntries
  <2>3. cursor \in Nat /\ cursor' \in Nat /\ cursor <= cursor' /\ cursor' <= Len(jobs')
    BY <1>1, <2>1, <2>2 DEF StreamOK
  <2>4. StreamOK'
    BY <1>1, <2>1, <2>3 DEF StreamOK
  <2>5. faults' \in [FaultKinds -> Nat]
    BY <1>1, <1>7 DEF Fetch, LoseReply, Strike, StoreOK, FaultKinds
  <2>6. StoreOK'
    BY <1>1, <2>1, <2>5 DEF StoreOK
  <2>7. \A i \in 1..Len(NextEntries) : cursor + i \in 1..cursor'
    BY <2>1, <2>2, <2>3
  <2>8. todo' \in Seq(Nat \ {0}) /\ \A i \in DOMAIN todo' : todo'[i] \in 1..cursor'
    <3>1. CASE todo' = NextEntries
      BY <2>2, <2>7, <3>1
    <3>2. CASE todo' = <<>>
      BY <3>2
    <3> QED
      BY <2>1, <3>1, <3>2
  <2>9. PlaceOK'
    BY <1>1, <2>1, <2>8 DEF PlaceOK
  <2> QED
    BY <2>4, <2>6, <2>9, TypeInvParts
<1>8. CASE Take
  <2>1. /\ Head(todo) = todo[1] /\ 1 \in DOMAIN todo
        /\ Tail(todo) \in Seq(Nat \ {0})
        /\ \A i \in DOMAIN Tail(todo) : i + 1 \in DOMAIN todo /\ Tail(todo)[i] = todo[i + 1]
    <3>1. todo \in Seq(Nat \ {0}) /\ todo # <<>>
      BY <1>1, <1>8 DEF Take, PlaceOK
    <3>2. Len(todo) \in Nat \ {0} /\ DOMAIN todo = 1..Len(todo)
      BY <3>1, EmptySeq, LenProperties
    <3> QED
      BY <3>1, <3>2, HeadTailProperties, LenProperties
  <2>2. StreamOK' /\ StoreOK'
    BY <1>1, <1>8 DEF Take, StreamOK, StoreOK
  <2>3. PlaceOK'
    BY <1>1, <1>8, <2>1 DEF Take, PlaceOK
  <2> QED
    BY <2>2, <2>3, TypeInvParts
<1>9. CASE Embed
  <2>1. StreamOK' /\ StoreOK'
    BY <1>1, <1>9 DEF Embed, StreamOK, StoreOK
  <2>2. PlaceOK'
    BY <1>1, <1>9 DEF Embed, PlaceOK
  <2> QED
    BY <2>1, <2>2, TypeInvParts
<1>10. ASSUME Handling, points' = points \/ Write
       PROVE  points' \in [Models -> [Points -> Nat]]
  <2>1. entry \in Nat /\ PointOf[job] \in Points /\ alias \in Models
    BY <1>10, JobType
  <2>2. points \in [Models -> [Points -> Nat]]
    BY <1>1 DEF StoreOK
  <2> HIDE DEF job
  <2> QED
    BY <1>10, <2>1, <2>2 DEF Write
<1>11. CASE Upsert
  <2>1. points' \in [Models -> [Points -> Nat]]
    BY <1>10, <1>11 DEF Upsert
  <2>2. StreamOK' /\ StoreOK'
    BY <1>1, <1>11, <2>1 DEF Upsert, StreamOK, StoreOK
  <2>3. PlaceOK'
    BY <1>1, <1>11 DEF Upsert, PlaceOK
  <2> QED
    BY <2>2, <2>3, TypeInvParts
<1>12. CASE Ack
  <2>1. StreamOK'
    BY <1>1, <1>12 DEF Ack, StreamOK, PlaceOK
  <2>2. StoreOK'
    BY <1>1, <1>12 DEF Ack, StoreOK, PlaceOK
  <2>3. PlaceOK'
    BY <1>1, <1>12 DEF Ack, PlaceOK
  <2> QED
    BY <2>1, <2>2, <2>3, TypeInvParts
<1>13. CASE Error
  <2>1. points' \in [Models -> [Points -> Nat]]
    BY <1>10, <1>13 DEF Error
  <2>2. faults' \in [FaultKinds -> Nat]
    BY <1>1, <1>13 DEF Error, Strike, StoreOK, FaultKinds
  <2>3. StreamOK' /\ StoreOK'
    BY <1>1, <1>13, <2>1, <2>2 DEF Error, StreamOK, StoreOK
  <2>4. PlaceOK'
    BY <1>1, <1>13 DEF Error, PlaceOK
  <2> QED
    BY <2>3, <2>4, TypeInvParts
<1>14. CASE Crash \/ Cancel
  <2>1. faults' \in [FaultKinds -> Nat]
    BY <1>1, <1>14 DEF Crash, Cancel, Strike, StoreOK, FaultKinds
  <2>2. StreamOK'
    BY <1>1, <1>14 DEF Crash, Cancel, StreamOK, PlaceOK
  <2>3. StoreOK'
    BY <1>1, <1>14, <2>1 DEF Crash, Cancel, StoreOK, PlaceOK
  <2>4. PlaceOK'
    <3>1. pc' = "off" /\ todo' = <<>> /\ entry' = 0
      BY <1>14 DEF Crash, Cancel
    <3>2. <<>> \in Seq(Nat \ {0}) /\ DOMAIN <<>> = {}
      OBVIOUS
    <3> QED
      BY <3>1, <3>2 DEF PlaceOK
  <2> QED
    BY <2>2, <2>3, <2>4, TypeInvParts
<1>15. CASE Redeploy
  <2>1. faults' \in [FaultKinds -> Nat]
    BY <1>1, <1>15 DEF Redeploy, Strike, StoreOK, FaultKinds
  <2>2. StreamOK' /\ StoreOK'
    BY <1>1, <1>15, <2>1 DEF Redeploy, StreamOK, StoreOK
  <2>3. PlaceOK'
    BY <1>1, <1>15 DEF Redeploy, PlaceOK
  <2> QED
    BY <2>2, <2>3, TypeInvParts
<1>16. CASE UNCHANGED vars
  <2>1. StreamOK' /\ StoreOK'
    BY <1>1, <1>16 DEF vars, StreamOK, StoreOK
  <2>2. PlaceOK'
    BY <1>1, <1>16 DEF vars, PlaceOK
  <2> QED
    BY <2>1, <2>2, TypeInvParts
<1> QED
  BY <1>3, <1>4, <1>5, <1>6, <1>7, <1>8, <1>9, <1>11, <1>12, <1>13, <1>14, <1>15, <1>16
  DEF Step, Index, Consume, Fault

-----------------------------------------------------------------------------
(***************************************************************************)
(* What the collections hold.                                              *)
(***************************************************************************)

\* Every step leaves the points alone or writes the one of the job in hand, and
\* what has been delivered, and created, stays so.
Wrote == Handling /\ Fits /\ Write

LEMMA StoreEffect ==
  ASSUME TypeInv, [Step]_vars
  PROVE  /\ points' = points \/ Wrote
         /\ created \subseteq created' /\ cursor \in Nat /\ cursor' \in Nat /\ cursor <= cursor'
         /\ \A i \in DOMAIN jobs : i \in DOMAIN jobs' /\ jobs'[i] = jobs[i]
         /\ \A i \in Delivered : i \in DOMAIN jobs
         /\ Delivered \subseteq Delivered'
<1>1. StreamOK /\ StreamOK'
  BY TypeStep, TypeInvParts
<1>2. Len(jobs) \in Nat /\ DOMAIN jobs = 1..Len(jobs)
  BY <1>1, LenProperties DEF StreamOK
<1>3. points' = points \/ Wrote
  BY DEF Step, Index, Consume, Fault, Request, Start, Probe, EnsureCollection, EnsureAlias, Fetch,
     Take, Embed, Upsert, Ack, Error, LoseReply, Crash, Cancel, Redeploy, vars, qdrant, Goto,
     Wrote, Handling
<1>4. created \subseteq created'
  BY DEF Step, Index, Consume, Fault, Request, Start, Probe, EnsureCollection, EnsureAlias, Fetch,
     Take, Embed, Upsert, Ack, Error, LoseReply, Crash, Cancel, Redeploy, vars, qdrant
<1>5. cursor' \in {cursor, Len(jobs), cursor + Len(NextEntries)}
  BY DEF Step, Index, Consume, Fault, Request, Start, Probe, EnsureCollection, EnsureAlias, Fetch,
     Take, Embed, Upsert, Ack, Error, LoseReply, Crash, Cancel, Redeploy, vars, bus
<1>6. Len(NextEntries) \in Nat
  BY NextEntriesType
<1>7. cursor \in Nat /\ cursor' \in Nat /\ cursor <= cursor'
  BY <1>1, <1>2, <1>5, <1>6 DEF StreamOK
<1>8. jobs' = jobs \/ \E j \in Jobs : jobs' = Append(jobs, j)
  BY DEF Step, Index, Consume, Fault, Request, Start, Probe, EnsureCollection, EnsureAlias, Fetch,
     Take, Embed, Upsert, Ack, Error, LoseReply, Crash, Cancel, Redeploy, vars, bus
<1>9. \A i \in DOMAIN jobs : i \in DOMAIN jobs' /\ jobs'[i] = jobs[i]
  <2>1. ASSUME NEW j \in Jobs, jobs' = Append(jobs, j)
        PROVE  \A i \in DOMAIN jobs : i \in DOMAIN jobs' /\ jobs'[i] = jobs[i]
    <3>1. DOMAIN jobs' = 1..(Len(jobs) + 1) /\ \A i \in 1..Len(jobs) : jobs'[i] = jobs[i]
      BY <1>1, <2>1, AppendProperties, LenProperties DEF StreamOK
    <3> QED
      BY <1>2, <3>1
  <2> QED
    BY <1>8, <2>1
<1>10. \A i \in Delivered : i \in DOMAIN jobs
  BY <1>1, <1>2 DEF StreamOK, Delivered
<1>11. Delivered \subseteq Delivered'
  BY <1>7 DEF Delivered
<1> QED
  BY <1>3, <1>4, <1>7, <1>9, <1>10, <1>11

LEMMA PointsStep ==
  ASSUME TypeInv, PointsSound, [Step]_vars
  PROVE  PointsSound'
<1>1. /\ points' = points \/ Wrote
      /\ created \subseteq created' /\ cursor \in Nat /\ cursor' \in Nat /\ cursor <= cursor'
      /\ \A i \in DOMAIN jobs : i \in DOMAIN jobs' /\ jobs'[i] = jobs[i]
      /\ \A i \in Delivered : i \in DOMAIN jobs
  BY StoreEffect
<1>2. points \in [Models -> [Points -> Nat]]
  BY TypeInvParts DEF StoreOK
<1>3. ASSUME NEW m \in Models, NEW p \in Points, points'[m][p] # 0
      PROVE  /\ m \in created /\ points'[m][p] \in Nat /\ points'[m][p] <= cursor
             /\ PointOf[jobs[points'[m][p]]] = p
             /\ Dim[ModelOf[jobs[points'[m][p]]]] = Dim[m]
  <2>1. CASE points'[m][p] = points[m][p]
    BY <1>2, <1>3, <2>1 DEF PointsSound
  <2>2. CASE points'[m][p] # points[m][p]
    <3>1. Wrote
      BY <1>1, <2>2
    <3>2. /\ entry \in Nat \ {0} /\ entry <= cursor
          /\ alias \in Models /\ alias \in created
          /\ Dim[ModelOf[jobs[entry]]] = Dim[alias]
      BY <3>1, JobType DEF Wrote, Fits, job
    <3>3. m = alias /\ p = PointOf[jobs[entry]] /\ points'[m][p] = entry
      <4> DEFINE q == PointOf[jobs[entry]]
      <4>1. points' = [points EXCEPT ![alias] = [@ EXCEPT ![q] = entry]]
        BY <3>1 DEF Wrote, Write, job
      <4> HIDE DEF q
      <4>2. m = alias /\ p = q /\ points'[m][p] = entry
        BY <1>2, <2>2, <4>1
      <4> QED
        BY <4>2 DEF q
    <3> QED
      BY <3>2, <3>3
  <2> QED
    BY <2>1, <2>2
<1>4. ASSUME NEW m \in Models, NEW p \in Points, points'[m][p] # 0
      PROVE  /\ m \in created' /\ points'[m][p] <= cursor'
             /\ PointOf[jobs'[points'[m][p]]] = p
             /\ Dim[ModelOf[jobs'[points'[m][p]]]] = Dim[m]
  <2> DEFINE i == points'[m][p]
  <2>1. i \in Nat \ {0} /\ i <= cursor /\ m \in created
        /\ PointOf[jobs[i]] = p /\ Dim[ModelOf[jobs[i]]] = Dim[m]
    BY <1>3, <1>4
  <2> HIDE DEF i
  <2>2. i \in Delivered
    BY <1>1, <2>1 DEF Delivered
  <2>3. jobs'[i] = jobs[i] /\ i <= cursor'
    BY <1>1, <2>1, <2>2
  <2>4. /\ m \in created' /\ i <= cursor' /\ PointOf[jobs'[i]] = p
        /\ Dim[ModelOf[jobs'[i]]] = Dim[m]
    BY <1>1, <2>1, <2>3
  <2> QED
    BY <2>4 DEF i
<1> QED
  BY <1>4 DEF PointsSound

-----------------------------------------------------------------------------
(***************************************************************************)
(* The order in which entries are handled.                                 *)
(***************************************************************************)
LEMMA InTurnStep ==
  ASSUME TypeInv, InTurn, [Step]_vars
  PROVE  InTurn'
<1>1. StreamOK /\ PlaceOK
  BY TypeInvParts
<1> USE DEF Goto, Handling, bus
<1>2. CASE \/ \E j \in Jobs : Request(j)
           \/ Start \/ Probe \/ EnsureCollection \/ EnsureAlias \/ Redeploy \/ UNCHANGED vars
           \/ Embed \/ Upsert \/ Error
  <2>1. UNCHANGED <<todo, acked, entry>> /\ (Handling' => Handling)
    BY <1>2 DEF Request, Start, Probe, EnsureCollection, EnsureAlias, Redeploy, vars, Embed, Upsert,
       Error
  <2> QED
    BY <2>1 DEF InTurn
<1>3. CASE Fetch \/ LoseReply
  <2>1. todo' \in {NextEntries, todo} /\ acked' = acked /\ pc' = "idle" /\ entry' = entry
    BY <1>3 DEF Fetch, LoseReply
  <2>2. \A a \in acked : a \in Nat /\ a <= cursor
    BY <1>1 DEF StreamOK, Delivered
  <2>3. /\ DOMAIN NextEntries = 1..Len(NextEntries) /\ Len(NextEntries) \in Nat
        /\ \A i \in 1..Len(NextEntries) : NextEntries[i] = cursor + i
        /\ cursor \in Nat
    BY <1>1, NextEntriesType DEF StreamOK
  <2> HIDE DEF NextEntries
  <2>4. /\ \A i \in DOMAIN NextEntries : \A a \in acked : a < NextEntries[i]
        /\ \A i, j \in DOMAIN NextEntries : i < j => NextEntries[i] < NextEntries[j]
    <3>1. ASSUME NEW i \in 1..Len(NextEntries), NEW a \in acked
          PROVE  a < NextEntries[i]
      BY <2>2, <2>3
    <3>2. ASSUME NEW i \in 1..Len(NextEntries), NEW j \in 1..Len(NextEntries), i < j
          PROVE  NextEntries[i] < NextEntries[j]
      BY <2>3, <3>2
    <3> QED
      BY <2>3, <3>1, <3>2
  <2> QED
    BY <2>1, <2>4 DEF InTurn
<1>4. CASE Take
  <2>1. /\ Head(todo) = todo[1] /\ 1 \in DOMAIN todo
        /\ \A i \in DOMAIN Tail(todo) : /\ i \in Nat /\ i + 1 \in DOMAIN todo /\ 1 < i + 1
                                      /\ Tail(todo)[i] = todo[i + 1]
    <3>1. todo \in Seq(Nat \ {0}) /\ todo # <<>>
      BY <1>1, <1>4 DEF Take, PlaceOK
    <3>2. Len(todo) \in Nat \ {0} /\ DOMAIN todo = 1..Len(todo)
      BY <3>1, EmptySeq, LenProperties
    <3> QED
      BY <3>1, <3>2, HeadTailProperties, LenProperties
  <2>2. acked' = acked /\ entry' = todo[1] /\ todo' = Tail(todo)
    BY <1>4, <2>1 DEF Take
  <2>3. ASSUME NEW i \in DOMAIN Tail(todo)
        PROVE  todo[1] < Tail(todo)[i] /\ \A a \in acked : a < Tail(todo)[i]
    BY <2>1 DEF InTurn
  <2>4. ASSUME NEW i \in DOMAIN Tail(todo), NEW j \in DOMAIN Tail(todo), i < j
        PROVE  Tail(todo)[i] < Tail(todo)[j]
    <3>1. i + 1 < j + 1
      BY <2>1, <2>4
    <3> QED
      BY <2>1, <3>1 DEF InTurn
  <2>5. \A a \in acked : a < todo[1]
    BY <2>1 DEF InTurn
  <2> QED
    BY <2>2, <2>3, <2>4, <2>5 DEF InTurn
<1>5. CASE Ack
  BY <1>5 DEF Ack, InTurn
<1>6. CASE Crash \/ Cancel
  <2>1. todo' = <<>> /\ pc' = "off"
    BY <1>6 DEF Crash, Cancel
  <2>2. DOMAIN <<>> = {}
    OBVIOUS
  <2> QED
    BY <2>1, <2>2 DEF InTurn
<1> QED
  BY <1>2, <1>3, <1>4, <1>5, <1>6 DEF Step, Index, Consume, Fault

LEMMA ForwardStep ==
  ASSUME TypeInv, TypeInv', PointsSound, InTurn, Forward, [Step]_vars
  PROVE  Forward'
<1>1. StreamOK /\ StoreOK /\ PlaceOK
  BY TypeInvParts
<1>2. \A m \in Models : \A p \in Points : points[m][p] \in Nat /\ points[m][p] <= cursor
  BY <1>1 DEF StreamOK, StoreOK, PointsSound
<1> USE DEF Goto, Handling, bus, qdrant
<1>3. CASE \/ \E j \in Jobs : Request(j)
           \/ Start \/ Probe \/ EnsureCollection \/ EnsureAlias \/ Redeploy \/ UNCHANGED vars
           \/ Embed \/ Ack \/ Crash \/ Cancel
  <2>1. /\ points' = points /\ (todo' = todo \/ todo' = <<>>)
        /\ Handling' => Handling /\ entry' = entry
        /\ alias' = alias \/ alias' = model
    BY <1>3 DEF Request, Start, Probe, EnsureCollection, EnsureAlias, Redeploy, vars, Embed, Ack,
       Crash, Cancel
  <2>2. model # None
    BY <1>1, IndexerAssumption DEF StoreOK
  <2>3. \A m \in Models : \A p \in Points : \A i \in DOMAIN todo' : points[m][p] < todo'[i]
    <3>1. DOMAIN <<>> = {}
      OBVIOUS
    <3> QED
      BY <2>1, <3>1 DEF Forward
  <2> QED
    BY <2>1, <2>2, <2>3 DEF Forward
<1>4. CASE Fetch \/ LoseReply
  <2>1. todo' \in {NextEntries, todo} /\ points' = points /\ pc' = "idle" /\ alias' = alias
    BY <1>4 DEF Fetch, LoseReply
  <2>2. /\ DOMAIN NextEntries = 1..Len(NextEntries) /\ Len(NextEntries) \in Nat
        /\ \A i \in 1..Len(NextEntries) : NextEntries[i] = cursor + i
        /\ cursor \in Nat
    BY <1>1, NextEntriesType DEF StreamOK
  <2> HIDE DEF NextEntries
  <2>3. ASSUME NEW m \in Models, NEW p \in Points, NEW i \in DOMAIN NextEntries
        PROVE  points[m][p] < NextEntries[i]
    BY <1>2, <2>2
  <2> QED
    BY <2>1, <2>3 DEF Forward
<1>5. CASE Take
  <2>1. /\ Head(todo) = todo[1] /\ 1 \in DOMAIN todo
        /\ \A i \in DOMAIN Tail(todo) : i + 1 \in DOMAIN todo /\ Tail(todo)[i] = todo[i + 1]
    <3>1. todo \in Seq(Nat \ {0}) /\ todo # <<>>
      BY <1>1, <1>5 DEF Take, PlaceOK
    <3>2. Len(todo) \in Nat \ {0} /\ DOMAIN todo = 1..Len(todo)
      BY <3>1, EmptySeq, LenProperties
    <3> QED
      BY <3>1, <3>2, HeadTailProperties, LenProperties
  <2>2. points' = points /\ entry' = todo[1] /\ todo' = Tail(todo) /\ alias' = alias
    BY <1>5, <2>1 DEF Take
  <2>3. todo[1] \in Nat
    BY <1>1, <2>1 DEF PlaceOK
  <2>4. \A m \in Models : \A p \in Points : points[m][p] <= todo[1]
    BY <1>2, <2>1, <2>3 DEF Forward
  <2>5. \A m \in Models : \A p \in Points : \A i \in DOMAIN Tail(todo) : points[m][p] < Tail(todo)[i]
    BY <2>1 DEF Forward
  <2> QED
    BY <2>2, <2>4, <2>5 DEF Forward
<1>6. CASE Upsert \/ Error
  <2>1. /\ UNCHANGED <<todo, entry, alias>> /\ Handling
        /\ points' = points \/ Write
    BY <1>6 DEF Upsert, Error
  <2>2. entry \in Nat /\ alias # None
    BY <1>1, <2>1 DEF PlaceOK
  <2>3. ASSUME NEW m \in Models, NEW p \in Points
        PROVE  points'[m][p] \in {points[m][p], entry}
    <3>1. CASE points' = points
      BY <3>1
    <3>2. CASE Write
      <4> DEFINE q == PointOf[job]
      <4>1. points' = [points EXCEPT ![alias] = [@ EXCEPT ![q] = entry]]
        BY <3>2 DEF Write
      <4>2. points \in [Models -> [Points -> Nat]] /\ alias \in Models /\ q \in Points
        BY <1>1, <2>1, JobType DEF StoreOK
      <4> HIDE DEF q
      <4> QED
        BY <4>1, <4>2
    <3> QED
      BY <2>1, <3>1, <3>2
  <2>4. \A i \in DOMAIN todo : entry < todo[i]
    BY <2>1 DEF InTurn
  <2>5. ASSUME NEW m \in Models, NEW p \in Points
        PROVE  /\ \A i \in DOMAIN todo : points'[m][p] < todo[i]
               /\ points'[m][p] <= entry
    <3>1. /\ \A i \in DOMAIN todo : points[m][p] < todo[i]
          /\ points[m][p] <= entry
      BY <2>1 DEF Forward
    <3> QED
      BY <2>2, <2>3, <2>4, <3>1
  <2> QED
    BY <2>1, <2>2, <2>5 DEF Forward
<1> QED
  BY <1>3, <1>4, <1>5, <1>6 DEF Step, Index, Consume, Fault

LEMMA NamedStep ==
  ASSUME TypeInv, Named, [Step]_vars
  PROVE  Named'
<1>1. StoreOK
  BY TypeInvParts
<1>2. CASE Redeploy
  <2>1. faults'["switch"] = faults["switch"] + 1 /\ faults["switch"] \in Nat
    BY <1>1, <1>2 DEF Redeploy, Strike, StoreOK, FaultKinds
  <2> QED
    BY <2>1 DEF Named
<1>3. CASE (Step /\ ~Redeploy) \/ UNCHANGED vars
  <2>1. UNCHANGED model /\ (alias' = alias \/ alias' = model)
    BY <1>3 DEF Step, Index, Consume, Fault, Request, Start, Probe, EnsureCollection, EnsureAlias,
       Fetch, Take, Embed, Upsert, Ack, Error, LoseReply, Crash, Cancel, vars, qdrant
  <2>2. faults'["switch"] = faults["switch"]
    <3>1. faults' = faults \/ Strike("error") \/ Strike("crash")
      BY <1>3 DEF Step, Index, Consume, Fault, Request, Start, Probe, EnsureCollection, EnsureAlias,
         Fetch, Take, Embed, Upsert, Ack, Error, LoseReply, Crash, Cancel, vars
    <3> QED
      BY <1>1, <3>1 DEF Strike, StoreOK, FaultKinds
  <2> QED
    BY <2>1, <2>2 DEF Named
<1> QED
  BY <1>2, <1>3

-----------------------------------------------------------------------------
(***************************************************************************)
(* The points that are behind.                                             *)
(***************************************************************************)

\* LastAcked is the last of the acknowledged jobs of a window.
LEMMA LastAckedIs ==
  ASSUME TypeInv, NEW p
  PROVE  /\ LastAcked(p) \in Nat
         /\ \A i \in acked : PointOf[jobs[i]] = p => i <= LastAcked(p)
         /\ LastAcked(p) = 0 \/ (LastAcked(p) \in acked /\ PointOf[jobs[LastAcked(p)]] = p)
<1> DEFINE S == {i \in acked : PointOf[jobs[i]] = p}
<1>1. cursor \in Nat /\ acked \subseteq 1..cursor
  BY TypeInvParts DEF StreamOK, Delivered
<1>2. S \in SUBSET (1..cursor)
  BY <1>1
<1>3. S # {} => \E i \in S : \A k \in S : k <= i
  BY <1>1, <1>2, GreatestNumber
<1>4. LastAcked(p) = IF S = {} THEN 0 ELSE CHOOSE i \in S : \A k \in S : k <= i
  BY DEF LastAcked
<1>5. CASE S = {}
  BY <1>4, <1>5
<1>6. CASE S # {}
  <2>1. LastAcked(p) \in S /\ \A k \in S : k <= LastAcked(p)
    BY <1>3, <1>4, <1>6
  <2> QED
    BY <1>2, <2>1
<1> QED
  BY <1>5, <1>6

AllLast ==
  \A p \in Points : /\ LastAcked(p) \in Nat
                   /\ \/ LastAcked(p) = 0
                      \/ LastAcked(p) \in acked /\ PointOf[jobs[LastAcked(p)]] = p

LEMMA LastAckedNext == TypeInv' => AllLast'
<1>1. TypeInv => AllLast
  BY LastAckedIs DEF AllLast
<1> QED
  BY <1>1, PTL

\* Only points of delivered jobs can be behind.
LEMMA BehindFinite ==
  ASSUME TypeInv, alias # None
  PROVE  IsFiniteSet(Behind) /\ Cardinality(Behind) \in Nat
<1>1. StreamOK /\ StoreOK
  BY TypeInvParts
<1> DEFINE f == [i \in Delivered |-> PointOf[jobs[i]]]
           T == {f[i] : i \in Delivered}
<1>2. IsFiniteSet(Delivered)
  BY <1>1, FS_Interval DEF StreamOK, Delivered
<1>3. f \in Surjection(Delivered, T)
  BY DEF Surjection
<1> HIDE DEF f
<1>4. IsFiniteSet(T)
  BY <1>2, <1>3, FS_Surjection
<1>5. Behind \subseteq T
  <2>1. ASSUME NEW p \in Behind
        PROVE  \E i \in Delivered : PointOf[jobs[i]] = p
    <3>1. points[alias][p] \in Nat
      BY <1>1 DEF StoreOK, Behind
    <3>2. CASE points[alias][p] < LastAcked(p)
      <4>1. LastAcked(p) \in acked /\ PointOf[jobs[LastAcked(p)]] = p
        BY <3>1, <3>2, LastAckedIs
      <4> QED
        BY <1>1, <4>1 DEF StreamOK
    <3>3. CASE pc = "ack" /\ p = PointOf[job]
      <4>1. entry \in Delivered
        BY <3>3, TypeInvParts DEF PlaceOK, Handling
      <4> QED
        BY <3>3, <4>1 DEF job
    <3> QED
      BY <3>2, <3>3 DEF Behind
  <2> QED
    BY <2>1 DEF f
<1> QED
  BY <1>4, <1>5, FS_Subset, FS_CardinalityType

Faulted == faults["error"] + faults["crash"]

LEMMA FaultedType == (TypeInv => Faulted \in Nat) /\ (TypeInv' => (Faulted \in Nat)')
<1>1. TypeInv => Faulted \in Nat
  BY TypeInvParts DEF StoreOK, Faulted, FaultKinds
<1>2. TypeInv' => (Faulted \in Nat)'
  BY <1>1, PTL
<1> QED
  BY <1>1, <1>2

\* No point falls behind.
LEMMA OwedKept ==
  ASSUME TypeInv, TypeInv', Owed, Behind' \subseteq Behind,
         SameModel' /\ alias' # None => SameModel /\ alias # None,
         Faulted <= Faulted'
  PROVE  Owed'
<1> SUFFICES ASSUME SameModel', alias' # None
             PROVE  Cardinality(Behind') <= Faulted'
  BY DEF Owed, Faulted
<1>1. IsFiniteSet(Behind) /\ Cardinality(Behind) \in Nat
  BY BehindFinite
<1>2. Cardinality(Behind) <= Faulted
  BY DEF Owed, Faulted
<1>3. Faulted \in Nat /\ Faulted' \in Nat
  BY FaultedType
<1> DEFINE X == Behind
           Y == Behind'
<1>4. Y \subseteq X /\ IsFiniteSet(X)
  BY <1>1
<1> HIDE DEF X, Y
<1>5. Cardinality(Y) <= Cardinality(X) /\ Cardinality(Y) \in Nat
  BY <1>4, FS_Subset, FS_CardinalityType
<1> QED
  BY <1>1, <1>2, <1>3, <1>5 DEF X, Y

\* A fault costs a point.
LEMMA OwedFault ==
  ASSUME TypeInv, Owed, NEW x, Behind' \subseteq Behind \cup {x},
         SameModel' /\ alias' # None => SameModel /\ alias # None,
         Faulted' = Faulted + 1
  PROVE  Owed'
<1> SUFFICES ASSUME SameModel', alias' # None
             PROVE  Cardinality(Behind') <= Faulted'
  BY DEF Owed, Faulted
<1>1. IsFiniteSet(Behind) /\ Cardinality(Behind) \in Nat
  BY BehindFinite
<1>2. Cardinality(Behind) <= Faulted
  BY DEF Owed, Faulted
<1>3. Faulted \in Nat
  BY FaultedType
<1> DEFINE X == Behind
           Y == Behind'
<1>4. Y \subseteq X \cup {x} /\ IsFiniteSet(X)
  BY <1>1
<1> HIDE DEF X, Y
<1>5. IsFiniteSet(X \cup {x})
      /\ Cardinality(X \cup {x}) \in {Cardinality(X), Cardinality(X) + 1}
  BY <1>4, FS_AddElement
<1>6. Cardinality(Y) <= Cardinality(X \cup {x}) /\ Cardinality(Y) \in Nat
  BY <1>4, <1>5, FS_Subset, FS_CardinalityType
<1> QED
  BY <1>1, <1>2, <1>3, <1>5, <1>6 DEF X, Y

\* A step that leaves the acknowledgements alone leaves LastAcked alone.
LEMMA LastAckedKept ==
  ASSUME TypeInv, [Step]_vars, acked' = acked
  PROVE  \A p : LastAcked(p)' = LastAcked(p)
<1>1. \A i \in acked : jobs'[i] = jobs[i]
  <2>1. acked \subseteq Delivered
    BY TypeInvParts DEF StreamOK
  <2> QED
    BY <2>1, StoreEffect
<1>2. ASSUME NEW p
      PROVE  LastAcked(p)' = LastAcked(p)
  <2>1. {i \in acked' : PointOf[jobs'[i]] = p} = {i \in acked : PointOf[jobs[i]] = p}
    BY <1>1
  <2> DEFINE Top(S) == IF S = {} THEN 0 ELSE CHOOSE i \in S : \A k \in S : k <= i
  <2>2. /\ LastAcked(p) = Top({i \in acked : PointOf[jobs[i]] = p})
        /\ LastAcked(p)' = Top({i \in acked' : PointOf[jobs'[i]] = p})
    BY DEF LastAcked
  <2> HIDE DEF Top
  <2> QED
    BY <2>1, <2>2
<1> QED
  BY <1>2

\* The models in use stay one only if they were.
LEMMA SameModelBefore ==
  ASSUME TypeInv, [Step]_vars, SameModel'
  PROVE  SameModel /\ model' = model
<1>1. StoreOK /\ StreamOK
  BY TypeInvParts
<1>2. faults["switch"] \in Nat
      /\ (faults'["switch"] = 0 => faults["switch"] = 0 /\ model' = model)
  <2>1. faults["switch"] \in Nat
    BY <1>1 DEF StoreOK, FaultKinds
  <2>2. \/ model' = model /\ (faults' = faults \/ Strike("error") \/ Strike("crash"))
        \/ Strike("switch")
    BY DEF Step, Index, Consume, Fault, Request, Start, Probe, EnsureCollection, EnsureAlias,
       Fetch, Take, Embed, Upsert, Ack, Error, LoseReply, Crash, Cancel, Redeploy, vars
  <2> QED
    BY <1>1, <2>1, <2>2 DEF Strike, StoreOK, FaultKinds
<1>3. faults'["switch"] = 0 /\ \A i \in DOMAIN jobs' : ModelOf[jobs'[i]] = model'
  BY DEF SameModel
<1>4. \A i \in DOMAIN jobs : ModelOf[jobs[i]] = model'
  BY <1>3, StoreEffect
<1> QED
  BY <1>2, <1>3, <1>4 DEF SameModel

\* Under one model the job in hand fits the collection it is written to.
LEMMA JobFits ==
  ASSUME TypeInv, Named, SameModel, Handling
  PROVE  Fits
<1>1. alias # None
  BY TypeInvParts DEF PlaceOK, Handling
<1>2. alias = model
  BY <1>1 DEF Named, SameModel
<1>3. ModelOf[job] = model
  BY JobType DEF SameModel, job
<1> QED
  BY <1>2, <1>3 DEF Fits

\* What the write of a point does to the points of its collection.
LEMMA WriteEffect ==
  ASSUME TypeInv, Handling, Write
  PROVE  /\ points'[alias][PointOf[job]] = entry
         /\ \A p \in Points : p # PointOf[job] => points'[alias][p] = points[alias][p]
<1>1. alias \in Models /\ PointOf[job] \in Points /\ points \in [Models -> [Points -> Nat]]
  BY JobType, TypeInvParts DEF StoreOK
<1> DEFINE q == PointOf[job]
<1>2. q \in Points /\ points' = [points EXCEPT ![alias] = [@ EXCEPT ![q] = entry]]
  BY <1>1 DEF Write
<1> HIDE DEF q
<1>3. points'[alias] = [points[alias] EXCEPT ![q] = entry] /\ points[alias] \in [Points -> Nat]
  BY <1>1, <1>2
<1>4. points'[alias][q] = entry /\ \A p \in Points : p # q => points'[alias][p] = points[alias][p]
  BY <1>2, <1>3
<1> QED
  BY <1>4 DEF q

\* The steps that neither write nor acknowledge.
LEMMA OwedQuiet ==
  ASSUME TypeInv, TypeInv', Named, Owed, [Step]_vars,
         UNCHANGED <<acked, points, alias>>, pc' = "ack" => pc = "ack" /\ entry' = entry,
         Faulted' = Faulted \/ Faulted' = Faulted + 1
  PROVE  Owed'
<1>1. SameModel' => SameModel
  BY SameModelBefore
<1>2. ASSUME NEW p \in Behind'
      PROVE  p \in Behind
  <2>1. LastAcked(p)' = LastAcked(p)
    BY LastAckedKept
  <2>2. ASSUME pc' = "ack"
        PROVE  jobs'[entry'] = job /\ entry' = entry
    <3>1. Handling /\ entry' = entry
      BY <2>2 DEF Handling
    <3> QED
      BY <3>1, JobType, StoreEffect DEF job
  <2>3. p \in Points /\ (points[alias][p] < LastAcked(p)
                        \/ (pc' = "ack" /\ p = PointOf[job] /\ points[alias][p] < entry))
    BY <1>2, <2>1, <2>2 DEF Behind, job
  <2> QED
    BY <2>3 DEF Behind
<1>3. Faulted <= Faulted'
  BY FaultedType
<1> QED
  BY <1>1, <1>2, <1>3, OwedKept

LEMMA OwedUpsert ==
  ASSUME TypeInv, TypeInv', Named, InTurn, Owed, Upsert
  PROVE  Owed'
<1>1. /\ Handling /\ pc' = "ack" /\ pc = "upsert"
      /\ UNCHANGED <<jobs, acked, alias, entry, model, faults>>
      /\ Fits => Write
  BY DEF Upsert, Goto, Handling, bus
<1>2. [Step]_vars
  BY DEF Step, Index, Consume
<1>3. SameModel' => SameModel
  BY <1>2, SameModelBefore
<1>4. \A p : LastAcked(p)' = LastAcked(p)
  BY <1>1, <1>2, LastAckedKept
<1>5. entry \in Nat \ {0} /\ \A a \in acked : a < entry
  BY <1>1, JobType DEF InTurn
<1>6. ASSUME SameModel, NEW p \in Behind'
      PROVE  p \in Behind
  <2>1. Write
    BY <1>1, <1>6, JobFits
  <2>2. p \in Points /\ (points'[alias][p] < LastAcked(p)
                        \/ (p = PointOf[job] /\ points'[alias][p] < entry))
    BY <1>1, <1>4, <1>6 DEF Behind, job
  <2>3. p # PointOf[job]
    <3>1. LastAcked(p) \in Nat /\ (LastAcked(p) = 0 \/ LastAcked(p) \in acked)
      BY LastAckedIs
    <3>2. ~ (entry < LastAcked(p)) /\ ~ (entry < entry)
      BY <1>5, <3>1
    <3> QED
      BY <1>1, <2>1, <2>2, <3>2, WriteEffect
  <2>4. points'[alias][p] = points[alias][p]
    BY <1>1, <2>1, <2>2, <2>3, WriteEffect
  <2> QED
    BY <2>2, <2>3, <2>4 DEF Behind
<1>7. Faulted' = Faulted /\ Faulted \in Nat
  BY <1>1, FaultedType DEF Faulted
<1>8. CASE SameModel
  BY <1>1, <1>3, <1>6, <1>7, <1>8, OwedKept
<1>9. CASE ~SameModel
  BY <1>3, <1>9 DEF Owed
<1> QED
  BY <1>8, <1>9

LEMMA OwedAck ==
  ASSUME TypeInv, TypeInv', Owed, Ack \/ Cancel
  PROVE  Owed'
<1>1. /\ Handling /\ pc' # "ack" /\ acked' = acked \cup {entry}
      /\ UNCHANGED <<jobs, alias, points>>
  BY DEF Ack, Cancel, Goto, Handling, bus, qdrant
<1>2. [Step]_vars
  BY DEF Step, Index, Consume, Fault
<1>3. SameModel' => SameModel
  BY <1>2, SameModelBefore
<1>4. ASSUME NEW p \in Behind'
      PROVE  /\ p \in Points
             /\ \/ points[alias][p] < LastAcked(p)
                \/ p = PointOf[job] /\ points[alias][p] < entry
  <2> DEFINE l == LastAcked(p)'
  <2>1. p \in Points /\ points[alias][p] < l
    BY <1>1, <1>4 DEF Behind
  <2>2. l \in Nat /\ (l = 0 \/ (l \in acked' /\ PointOf[jobs[l]] = p))
    <3>1. AllLast'
      BY LastAckedNext
    <3> QED
      BY <1>1, <2>1, <3>1 DEF AllLast
  <2> HIDE DEF l
  <2>3. LastAcked(p) \in Nat /\ \A i \in acked : PointOf[jobs[i]] = p => i <= LastAcked(p)
    BY LastAckedIs
  <2>4. points[alias][p] \in Nat
    BY <1>1, <2>1, JobType, TypeInvParts DEF StoreOK
  <2>5. l # 0
    BY <2>1, <2>4
  <2>6. CASE l = entry
    <3>1. PointOf[job] = p
      BY <2>2, <2>5, <2>6 DEF job
    <3> QED
      BY <2>1, <2>6, <3>1
  <2>7. CASE l \in acked
    <3>1. PointOf[jobs[l]] = p
      BY <2>2, <2>5
    <3>2. l <= LastAcked(p)
      BY <2>3, <2>7, <3>1
    <3>3. points[alias][p] < LastAcked(p)
      BY <2>1, <2>2, <2>3, <2>4, <3>2
    <3> QED
      BY <2>1, <3>3
  <2> QED
    BY <1>1, <2>2, <2>5, <2>6, <2>7
<1>5. CASE Ack
  <2>1. pc = "ack" /\ faults' = faults
    BY <1>5 DEF Ack, Goto
  <2>2. Behind' \subseteq Behind
    BY <1>4, <2>1 DEF Behind
  <2>3. Faulted' = Faulted /\ Faulted \in Nat
    BY <2>1, FaultedType DEF Faulted
  <2> QED
    BY <1>1, <1>3, <2>2, <2>3, OwedKept
<1>6. CASE Cancel
  <2>1. Behind' \subseteq Behind \cup {PointOf[job]}
    BY <1>4 DEF Behind
  <2>2. Faulted' = Faulted + 1
    BY <1>6, TypeInvParts DEF Cancel, Strike, Faulted, StoreOK, FaultKinds
  <2> QED
    BY <1>1, <1>3, <2>1, <2>2, OwedFault
<1> QED
  BY <1>5, <1>6

LEMMA OwedError ==
  ASSUME TypeInv, InTurn, Owed, Error
  PROVE  Owed'
<1>1. /\ Handling /\ pc' = "ack"
      /\ UNCHANGED <<jobs, acked, alias, entry>>
      /\ points' = points \/ Write
  BY DEF Error, Handling, bus
<1>2. [Step]_vars
  BY DEF Step, Index, Fault
<1>3. SameModel' => SameModel
  BY <1>2, SameModelBefore
<1>4. \A p : LastAcked(p)' = LastAcked(p)
  BY <1>1, <1>2, LastAckedKept
<1>5. ASSUME NEW p \in Behind', p # PointOf[job]
      PROVE  p \in Behind
  <2>1. p \in Points /\ points'[alias][p] < LastAcked(p)
    BY <1>1, <1>4, <1>5 DEF Behind, job
  <2>2. points'[alias][p] = points[alias][p]
    BY <1>1, <1>5, <2>1, WriteEffect
  <2> QED
    BY <2>1, <2>2 DEF Behind
<1>6. Behind' \subseteq Behind \cup {PointOf[job]}
  BY <1>5
<1>7. Faulted' = Faulted + 1
  BY TypeInvParts DEF Error, Strike, Faulted, StoreOK, FaultKinds
<1> QED
  BY <1>1, <1>3, <1>6, <1>7, OwedFault

\* When the alias is first made nothing has been acknowledged; under one model
\* it never moves.
LEMMA OwedAlias ==
  ASSUME TypeInv, TypeInv', Named, Owed, EnsureAlias
  PROVE  Owed'
<1>1. /\ pc' = "idle" /\ pc = "alias" /\ alias' = model
      /\ UNCHANGED <<jobs, acked, points, entry, model, faults>>
  BY DEF EnsureAlias, Goto, bus
<1>2. [Step]_vars
  BY DEF Step, Index, Consume
<1>3. SameModel' => SameModel
  BY <1>2, SameModelBefore
<1>4. \A p : LastAcked(p)' = LastAcked(p)
  BY <1>1, <1>2, LastAckedKept
<1>5. Faulted' = Faulted /\ Faulted \in Nat
  BY <1>1, FaultedType DEF Faulted
<1>6. CASE alias = None
  <2>1. acked = {} /\ model \in Models /\ points \in [Models -> [Points -> Nat]]
    BY <1>6, TypeInvParts DEF StoreOK
  <2>2. \A p \in Points : LastAcked(p) = 0 /\ points[model][p] \in Nat
    BY <2>1 DEF LastAcked
  <2>3. \A p \in Points : ~ (points[model][p] < 0)
    BY <2>2
  <2>4. Behind' = {}
    BY <1>1, <1>4, <2>2, <2>3 DEF Behind
  <2>5. Cardinality(Behind') <= Faulted'
    BY <1>5, <2>4, FS_EmptySet
  <2> QED
    BY <2>5 DEF Owed, Faulted
<1>7. CASE alias = model
  <2>1. Behind' \subseteq Behind
    BY <1>1, <1>4, <1>7 DEF Behind
  <2>2. model # None
    BY TypeInvParts, IndexerAssumption DEF StoreOK
  <2> QED
    BY <1>3, <1>5, <1>7, <2>1, <2>2, OwedKept
<1>8. CASE alias # None /\ alias # model
  BY <1>3, <1>8 DEF Named, SameModel, Owed
<1> QED
  BY <1>6, <1>7, <1>8

LEMMA OwedStep ==
  ASSUME TypeInv, TypeInv', Named, InTurn, Owed, [Step]_vars
  PROVE  Owed'
<1>1. CASE \/ \E j \in Jobs : Request(j)
           \/ Start \/ Probe \/ EnsureCollection \/ Fetch \/ Take \/ Embed \/ UNCHANGED vars
  <2>1. /\ UNCHANGED <<acked, points, alias, faults>>
        /\ pc' = "ack" => pc = "ack" /\ entry' = entry
    BY <1>1 DEF Request, Start, Probe, EnsureCollection, Fetch, Take, Embed, vars, bus, qdrant, Goto
  <2>2. Faulted' = Faulted
    BY <2>1 DEF Faulted
  <2> QED
    BY <2>1, <2>2, OwedQuiet
<1>2. CASE LoseReply \/ Crash
  <2>1. /\ UNCHANGED <<acked, points, alias>> /\ pc' # "ack"
    BY <1>2 DEF LoseReply, Crash, bus, qdrant
  <2>2. Faulted' = Faulted + 1
    <3>1. faults \in [FaultKinds -> Nat]
      BY TypeInvParts DEF StoreOK
    <3>2. Strike("error") => Faulted' = Faulted + 1
      BY <3>1 DEF Strike, Faulted, FaultKinds
    <3>3. Strike("crash") => Faulted' = Faulted + 1
      BY <3>1 DEF Strike, Faulted, FaultKinds
    <3> QED
      BY <1>2, <3>2, <3>3 DEF LoseReply, Crash
  <2> QED
    BY <2>1, <2>2, OwedQuiet
<1>3. CASE Redeploy
  <2>1. faults'["switch"] = faults["switch"] + 1 /\ faults["switch"] \in Nat
    BY <1>3, TypeInvParts DEF Redeploy, Strike, StoreOK, FaultKinds
  <2> QED
    BY <2>1 DEF Owed, SameModel
<1> QED
  BY <1>1, <1>2, <1>3, OwedUpsert, OwedAck, OwedError, OwedAlias DEF Step, Index, Consume, Fault

-----------------------------------------------------------------------------
(***************************************************************************)
(* What is skipped for good when the service is idle.                      *)
(***************************************************************************)
\* A read returns at most a batch.
LEMMA NextEntriesBound ==
  ASSUME TypeInv
  PROVE  Len(NextEntries) <= BatchSize
<1> DEFINE n == IF Len(jobs) < cursor + BatchSize THEN Len(jobs) - cursor ELSE BatchSize
<1>1. Len(jobs) \in Nat /\ cursor \in Nat /\ cursor <= Len(jobs) /\ BatchSize \in Nat \ {0}
  BY TypeInvParts, IndexerAssumption, LenProperties DEF StreamOK
<1>2. n \in Nat /\ n <= BatchSize
  BY <1>1
<1>3. NextEntries = [i \in 1..n |-> cursor + i]
  BY DEF NextEntries
<1> HIDE DEF n
<1>4. Len(NextEntries) = n
  BY <1>2, <1>3
<1> QED
  BY <1>2, <1>4

LEMMA BatchesStep ==
  ASSUME TypeInv, Batches, [Step]_vars
  PROVE  Batches'
<1>1. StreamOK /\ PlaceOK
  BY TypeInvParts
<1>2. Len(todo) \in Nat
  BY <1>1, LenProperties DEF PlaceOK
<1>3. BatchSize \in Nat \ {0} /\ Len(<<>>) = 0
  BY IndexerAssumption
<1> USE DEF Goto, Handling, bus, qdrant
<1>4. CASE Fetch
  <2>1. todo' = NextEntries /\ pc = "idle" /\ pc' = "idle" /\ grouped' = grouped
    BY <1>4 DEF Fetch
  <2>2. grouped
    BY <2>1 DEF Batches, Ungrouped
  <2>3. Len(NextEntries) <= BatchSize
    BY NextEntriesBound
  <2> HIDE DEF NextEntries
  <2> QED
    BY <2>1, <2>2, <2>3 DEF Batches, Ungrouped
<1>5. CASE Take
  <2>1. Len(Tail(todo)) = Len(todo) - 1
    BY <1>1, <1>5, HeadTailProperties DEF Take, PlaceOK
  <2>2. Len(todo) <= BatchSize /\ grouped
    BY <1>5 DEF Take, Batches, Ungrouped
  <2>3. Len(todo') < BatchSize /\ pc' = "embed" /\ grouped' = grouped
    BY <1>2, <1>3, <1>5, <2>1, <2>2 DEF Take
  <2> QED
    BY <2>2, <2>3 DEF Batches, Ungrouped
<1>6. CASE Start
  BY <1>6 DEF Start, Batches, Ungrouped
<1>7. CASE LoseReply
  BY <1>7 DEF LoseReply, Batches, Ungrouped
<1>8. CASE Crash \/ Cancel
  <2>1. todo' = <<>> /\ pc' = "off" /\ UNCHANGED <<grouped, cursor>>
    BY <1>8 DEF Crash, Cancel
  <2> QED
    BY <1>3, <2>1 DEF Batches, Ungrouped
<1>9. CASE Ack
  BY <1>2, <1>3, <1>9 DEF Ack, Batches, Ungrouped
<1>10. CASE \/ \E j \in Jobs : Request(j)
            \/ Probe \/ EnsureCollection \/ EnsureAlias \/ Redeploy \/ UNCHANGED vars
            \/ Embed \/ Upsert \/ Error
  <2>1. /\ UNCHANGED <<todo, grouped, cursor>> /\ (Handling' <=> Handling)
        /\ pc = "off" => pc' = "off"
    BY <1>10 DEF Request, Probe, EnsureCollection, EnsureAlias, Redeploy, vars, Embed, Upsert, Error
  <2> HIDE DEF Handling
  <2> QED
    BY <2>1 DEF Batches, Ungrouped
<1> QED
  BY <1>4, <1>5, <1>6, <1>7, <1>8, <1>9, <1>10 DEF Step, Index, Consume, Fault

LEMMA Times ==
  ASSUME NEW n \in Nat, NEW x \in Nat, NEW y \in Nat, x <= y
  PROVE  /\ n * x \in Nat /\ n * y \in Nat /\ n * x <= n * y
         /\ n * (x + 1) = n * x + n
<1>1. PICK d \in Nat : y = x + d
  <2>1. y - x \in Nat /\ y = x + (y - x)
    OBVIOUS
  <2> QED
    BY <2>1
<1>2. n * (x + d) = n * x + n * d /\ n * d \in Nat /\ n * x \in Nat
  OBVIOUS
<1>3. n * (x + 1) = n * x + n
  OBVIOUS
<1> QED
  BY <1>1, <1>2, <1>3

LEMMA SkippedFinite == TypeInv => IsFiniteSet(Skipped) /\ Cardinality(Skipped) \in Nat
<1> SUFFICES ASSUME TypeInv
             PROVE  IsFiniteSet(Skipped) /\ Cardinality(Skipped) \in Nat
  OBVIOUS
<1>1. IsFiniteSet(1..cursor)
  BY TypeInvParts, FS_Interval DEF StreamOK
<1>2. Skipped \in SUBSET (1..cursor)
  BY DEF Skipped, Delivered
<1>3. IsFiniteSet(Skipped)
  BY <1>1, <1>2, FS_Subset
<1> QED
  BY <1>3, FS_CardinalityType

\* Entry i counts as skipped.
Missed(i) ==
  /\ points[model][PointOf[jobs[i]]] < i
  /\ \A n \in DOMAIN todo : todo[n] # i
  /\ ~ (pc \in {"embed", "upsert"} /\ i = entry)

\* Nothing more is skipped.
LEMMA SkippedKept ==
  ASSUME TypeInv, TypeInv', SkippedBound, SameModel' => SameModel,
         SameModel' => Skipped' \subseteq Skipped, Faulted <= Faulted'
  PROVE  SkippedBound'
<1> SUFFICES ASSUME SameModel'
             PROVE  Cardinality(Skipped') <= BatchSize * Faulted'
  BY DEF SkippedBound, Faulted
<1>1. IsFiniteSet(Skipped) /\ Cardinality(Skipped) \in Nat
  BY SkippedFinite
<1>2. Cardinality(Skipped) <= BatchSize * Faulted
  BY DEF SkippedBound, Faulted
<1>3. Faulted \in Nat /\ Faulted' \in Nat /\ BatchSize \in Nat
  BY FaultedType, IndexerAssumption
<1> DEFINE X == Skipped
           Y == Skipped'
<1>4. Y \subseteq X /\ IsFiniteSet(X)
  BY <1>1
<1> HIDE DEF X, Y
<1>5. Cardinality(Y) <= Cardinality(X) /\ Cardinality(Y) \in Nat
  BY <1>4, FS_Subset, FS_CardinalityType
<1>6. /\ BatchSize * Faulted <= BatchSize * Faulted'
      /\ BatchSize * Faulted \in Nat /\ BatchSize * Faulted' \in Nat
  BY <1>3, Times
<1> DEFINE a == BatchSize * Faulted
           b == BatchSize * Faulted'
<1>8. a \in Nat /\ b \in Nat /\ a <= b /\ Cardinality(X) <= a
  BY <1>2, <1>6 DEF X
<1> HIDE DEF a, b
<1>9. Cardinality(Y) <= b
  BY <1>1, <1>5, <1>8 DEF X
<1> QED
  BY <1>9 DEF Y, b

\* A fault costs a batch.
LEMMA SkippedFault ==
  ASSUME TypeInv, TypeInv', SkippedBound, SameModel' => SameModel,
         NEW L, IsFiniteSet(L), Cardinality(L) <= BatchSize,
         SameModel' => Skipped' \subseteq Skipped \cup L, Faulted' = Faulted + 1
  PROVE  SkippedBound'
<1> SUFFICES ASSUME SameModel'
             PROVE  Cardinality(Skipped') <= BatchSize * Faulted'
  BY DEF SkippedBound, Faulted
<1>1. IsFiniteSet(Skipped) /\ Cardinality(Skipped) \in Nat
  BY SkippedFinite
<1>2. Cardinality(Skipped) <= BatchSize * Faulted
  BY DEF SkippedBound, Faulted
<1>3. Faulted \in Nat /\ BatchSize \in Nat
  BY FaultedType, IndexerAssumption
<1> DEFINE X == Skipped
           Y == Skipped'
<1>4. Y \subseteq X \cup L /\ IsFiniteSet(X)
  BY <1>1
<1> HIDE DEF X, Y
<1>5. /\ IsFiniteSet(X \cup L)
      /\ Cardinality(X \cup L) = Cardinality(X) + Cardinality(L) - Cardinality(X \cap L)
  BY <1>4, FS_Union
<1>6. X \cap L \in SUBSET L
  OBVIOUS
<1>7. IsFiniteSet(X \cap L)
  BY <1>6, FS_Subset
<1>8. Cardinality(X \cap L) \in Nat /\ Cardinality(L) \in Nat /\ Cardinality(X) \in Nat
  BY <1>4, <1>7, FS_CardinalityType
<1>9. Cardinality(Y) <= Cardinality(X \cup L) /\ Cardinality(Y) \in Nat
  BY <1>4, <1>5, FS_Subset, FS_CardinalityType
<1>10. BatchSize * Faulted' = BatchSize * Faulted + BatchSize /\ BatchSize * Faulted \in Nat
  <2>1. BatchSize * (Faulted + 1) = BatchSize * Faulted + BatchSize /\ BatchSize * Faulted \in Nat
    BY <1>3, Times
  <2> QED
    BY <2>1
<1> DEFINE a == BatchSize * Faulted
           b == BatchSize * Faulted'
<1>11. a \in Nat /\ b = a + BatchSize /\ Cardinality(X) <= a
  BY <1>2, <1>10 DEF X
<1> HIDE DEF a, b
<1>12. Cardinality(Y) <= b
  BY <1>3, <1>5, <1>8, <1>9, <1>11
<1> QED
  BY <1>12 DEF Y, b

\* The entries of a batch.
LEMMA TodoSet ==
  ASSUME TypeInv
  PROVE  LET T == {todo[n] : n \in DOMAIN todo}
         IN  IsFiniteSet(T) /\ Cardinality(T) \in Nat /\ Cardinality(T) <= Len(todo)
<1> DEFINE D == DOMAIN todo
           f == [n \in D |-> todo[n]]
           T == {f[n] : n \in D}
<1>1. IsFiniteSet(D) /\ Cardinality(D) = Len(todo)
  <2>1. Len(todo) \in Nat /\ D = 1..Len(todo)
    BY TypeInvParts, LenProperties DEF PlaceOK
  <2> HIDE DEF D
  <2>2. IsFiniteSet(1..Len(todo)) /\ Cardinality(1..Len(todo)) = Len(todo)
    BY <2>1, FS_Interval
  <2> QED
    BY <2>1, <2>2
<1>2. T = {todo[n] : n \in DOMAIN todo}
  OBVIOUS
<1> HIDE DEF D
<1>3. f \in Surjection(D, T)
  BY DEF Surjection
<1> HIDE DEF f, T
<1>4. IsFiniteSet(T) /\ Cardinality(T) <= Len(todo)
  BY <1>1, <1>3, FS_Surjection
<1>5. Cardinality(T) \in Nat
  BY <1>4, FS_CardinalityType
<1> QED
  BY <1>2, <1>4, <1>5

LEMMA ServedSteps ==
  ASSUME TypeInv, TypeInv', Forward, Named, Batches, Served, [Step]_vars
  PROVE  /\ SameModel' => SameModel /\ model' = model
         /\ \A i \in Delivered : jobs'[i] = jobs[i] /\ PointOf[jobs[i]] \in Points
         /\ model \in Models /\ points \in [Models -> [Points -> Nat]]
         /\ points' \in [Models -> [Points -> Nat]]
         /\ \A m \in Models : \A p \in Points : points[m][p] <= points'[m][p]
<1>1. SameModel' => SameModel /\ model' = model
  BY SameModelBefore
<1>2. StoreOK /\ StoreOK' /\ StreamOK
  BY TypeInvParts
<1>3. \A i \in Delivered : jobs'[i] = jobs[i] /\ i \in DOMAIN jobs
  BY StoreEffect
<1>4. \A i \in Delivered : PointOf[jobs[i]] \in Points
  BY <1>2, <1>3 DEF StreamOK, Points
<1>5. model \in Models /\ points \in [Models -> [Points -> Nat]]
      /\ points' \in [Models -> [Points -> Nat]]
  BY <1>2 DEF StoreOK
<1>6. points' = points \/ Wrote
  BY StoreEffect
<1>7. ASSUME NEW m \in Models, NEW p \in Points
      PROVE  points[m][p] <= points'[m][p]
  <2>1. CASE points' = points
    BY <1>5, <2>1
  <2>2. CASE Wrote
    <3> DEFINE q == PointOf[job]
    <3>1. points' = [points EXCEPT ![alias] = [@ EXCEPT ![q] = entry]]
      BY <2>2 DEF Wrote, Write
    <3>2. alias \in Models /\ q \in Points /\ entry \in Nat
      BY <2>2, JobType DEF Wrote
    <3> HIDE DEF q
    <3>3. points[m][p] <= entry /\ points[m][p] \in Nat
      BY <1>5, <2>2 DEF Forward, Wrote
    <3>4. points'[m][p] \in {points[m][p], entry}
      BY <1>5, <3>1, <3>2
    <3> QED
      BY <3>2, <3>3, <3>4
  <2> QED
    BY <1>6, <2>1, <2>2
<1> QED
  BY <1>1, <1>3, <1>4, <1>5, <1>7

\* An entry that a step skips was delivered by it, or was in hand or to come.
LEMMA SkippedFrom ==
  ASSUME TypeInv, TypeInv', Forward, Named, Batches, Served, [Step]_vars, SameModel',
         NEW i \in Skipped'
  PROVE  \/ i \in Skipped
         \/ i \in Delivered' \ Delivered
         \/ \E n \in DOMAIN todo : todo[n] = i
         \/ pc \in {"embed", "upsert"} /\ i = entry
<1>1. model' = model /\ i \in Delivered' /\ Missed(i)'
  BY ServedSteps DEF Skipped, Missed
<1>2. CASE i \in Delivered
  <2>1. jobs'[i] = jobs[i] /\ PointOf[jobs[i]] \in Points /\ i \in Nat
    BY <1>2, ServedSteps DEF Delivered
  <2>2. points'[model][PointOf[jobs[i]]] < i
    BY <1>1, <2>1 DEF Missed
  <2>3. points[model][PointOf[jobs[i]]] < i
    <3> DEFINE p == PointOf[jobs[i]]
    <3>1. p \in Points /\ points'[model][p] < i
      BY <2>1, <2>2
    <3> HIDE DEF p
    <3>2. points[model][p] \in Nat /\ points'[model][p] \in Nat /\ points[model][p] <= points'[model][p]
      BY <3>1, ServedSteps
    <3>3. points[model][p] < i
      BY <2>1, <3>1, <3>2
    <3> QED
      BY <3>3 DEF p
  <2> QED
    BY <1>2, <2>3 DEF Skipped
<1> QED
  BY <1>1, <1>2

LEMMA SkippedStep ==
  ASSUME TypeInv, TypeInv', InTurn, Forward, Named, Batches, Served, SkippedBound, [Step]_vars
  PROVE  SkippedBound'
<1> DEFINE T == {todo[n] : n \in DOMAIN todo}
<1>1. StreamOK /\ StoreOK /\ PlaceOK
  BY TypeInvParts
<1>2. SameModel' => SameModel /\ model' = model
  BY ServedSteps
<1>3. IsFiniteSet(T) /\ Cardinality(T) \in Nat /\ Cardinality(T) <= Len(todo) /\ Len(todo) \in Nat
  BY <1>1, TodoSet, LenProperties DEF PlaceOK
<1>4. \A i : i \in T <=> \E n \in DOMAIN todo : todo[n] = i
  OBVIOUS
<1> HIDE DEF T
<1>5. BatchSize \in Nat \ {0}
  BY IndexerAssumption
<1> USE DEF Goto
<1>6. CASE Error \/ LoseReply \/ Crash \/ Cancel
  <2>1. Faulted' = Faulted + 1
    <3>1. faults \in [FaultKinds -> Nat]
      BY <1>1 DEF StoreOK
    <3>2. Strike("error") => Faulted' = Faulted + 1
      BY <3>1 DEF Strike, Faulted, FaultKinds
    <3>3. Strike("crash") => Faulted' = Faulted + 1
      BY <3>1 DEF Strike, Faulted, FaultKinds
    <3> QED
      BY <1>6, <3>2, <3>3 DEF Error, LoseReply, Crash, Cancel
  <2>2. CASE Error
    <3>1. UNCHANGED <<cursor, todo>> /\ pc' = "ack"
      BY <2>2 DEF Error, bus
    <3>2. SameModel' => Skipped' \subseteq Skipped \cup {entry}
      <4>1. ASSUME SameModel', NEW i \in Skipped'
            PROVE  i \in Skipped \cup {entry}
        <5>1. \A n \in DOMAIN todo : todo[n] # i
          BY <3>1, <4>1 DEF Skipped
        <5>2. Delivered' = Delivered
          BY <3>1 DEF Delivered
        <5> QED
          BY <4>1, <5>1, <5>2, SkippedFrom
      <4> QED
        BY <4>1
    <3>3. IsFiniteSet({entry}) /\ Cardinality({entry}) <= BatchSize
      BY <1>5, FS_Singleton
    <3> QED
      BY <1>2, <2>1, <3>2, <3>3, SkippedFault
  <2>3. CASE LoseReply
    <3>1. /\ todo' = todo /\ pc' = "idle" /\ pc = "idle" /\ todo = <<>>
          /\ cursor' = cursor + Len(NextEntries)
      BY <2>3 DEF LoseReply
    <3>2. Len(NextEntries) \in Nat /\ cursor \in Nat /\ Len(NextEntries) <= BatchSize
      BY <1>1, NextEntriesType, NextEntriesBound DEF StreamOK
    <3> DEFINE L == (cursor + 1)..cursor'
    <3>3. IsFiniteSet(L) /\ Cardinality(L) <= BatchSize
      <4> DEFINE k == Len(NextEntries)
      <4>1. cursor' = cursor + k /\ k \in Nat /\ k <= BatchSize
        BY <3>1, <3>2
      <4> HIDE DEF k
      <4>2. cursor + 1 \in Int /\ cursor' \in Int
        BY <3>2, <4>1
      <4>3. IsFiniteSet(L) /\ Cardinality(L) = IF cursor + 1 > cursor' THEN 0
                                               ELSE cursor' - (cursor + 1) + 1
        BY <4>2, FS_Interval
      <4> HIDE DEF L
      <4> QED
        BY <1>5, <3>2, <4>1, <4>3
    <3>4. \A i \in Delivered' \ Delivered : i \in L
      BY <3>1, <3>2 DEF Delivered
    <3> HIDE DEF L
    <3>5. SameModel' => Skipped' \subseteq Skipped \cup L
      <4>1. ASSUME SameModel', NEW i \in Skipped'
            PROVE  i \in Skipped \cup L
        <5>1. \A n \in DOMAIN todo : todo[n] # i
          BY <3>1, <4>1 DEF Skipped
        <5> QED
          BY <3>1, <3>4, <4>1, <5>1, SkippedFrom
      <4> QED
        BY <4>1
    <3> QED
      BY <1>2, <2>1, <3>3, <3>5, SkippedFault
  <2>4. CASE Crash \/ Cancel
    <3>1. cursor' = cursor
      BY <2>4 DEF Crash, Cancel, bus
    <3>2. Delivered' = Delivered
      BY <3>1 DEF Delivered
    <3>3. CASE Handling
      <4>1. Len(todo) < BatchSize
        BY <3>3 DEF Batches
      <4>2. IsFiniteSet(T \cup {entry})
            /\ Cardinality(T \cup {entry}) \in {Cardinality(T), Cardinality(T) + 1}
        BY <1>3, FS_AddElement
      <4>3. Cardinality(T \cup {entry}) <= BatchSize
        BY <1>3, <1>5, <4>1, <4>2
      <4>4. SameModel' => Skipped' \subseteq Skipped \cup (T \cup {entry})
        BY <1>4, <3>2, SkippedFrom
      <4> QED
        BY <1>2, <2>1, <4>2, <4>3, <4>4, SkippedFault
    <3>4. CASE ~ Handling
      <4>1. Cardinality(T) <= BatchSize
        BY <1>3, <1>5, <3>4 DEF Batches
      <4>2. SameModel' => Skipped' \subseteq Skipped \cup T
        BY <1>4, <3>2, <3>4, SkippedFrom DEF Handling
      <4> QED
        BY <1>2, <1>3, <2>1, <4>1, <4>2, SkippedFault
    <3> QED
      BY <3>3, <3>4
  <2> QED
    BY <1>6, <2>2, <2>3, <2>4
<1>7. CASE Redeploy
  <2>1. faults'["switch"] = faults["switch"] + 1 /\ faults["switch"] \in Nat
    BY <1>1, <1>7 DEF Redeploy, Strike, StoreOK, FaultKinds
  <2> QED
    BY <2>1 DEF SkippedBound, SameModel
<1>8. ASSUME faults' = faults,
             ASSUME SameModel', NEW i \in Skipped'
             PROVE  /\ i \notin Delivered' \ Delivered
                    /\ \A n \in DOMAIN todo : todo[n] # i
                    /\ ~ (pc \in {"embed", "upsert"} /\ i = entry)
      PROVE  SkippedBound'
  <2>1. SameModel' => Skipped' \subseteq Skipped
    BY <1>8, SkippedFrom
  <2>2. Faulted' = Faulted /\ Faulted \in Nat
    BY <1>8, FaultedType DEF Faulted
  <2> QED
    BY <1>2, <2>1, <2>2, SkippedKept
<1>9. ASSUME NEW i \in Skipped'
      PROVE  /\ i \in Delivered'
             /\ \A n \in DOMAIN todo' : todo'[n] # i
             /\ ~ (pc' \in {"embed", "upsert"} /\ i = entry')
  BY DEF Skipped
<1>10. CASE \/ \E j \in Jobs : Request(j)
            \/ Probe \/ EnsureCollection \/ EnsureAlias \/ Embed \/ Ack \/ UNCHANGED vars
  <2>1. /\ UNCHANGED <<todo, cursor, faults>>
        /\ pc \in {"embed", "upsert"} => pc' \in {"embed", "upsert"} /\ entry' = entry
    BY <1>10 DEF Request, Probe, EnsureCollection, EnsureAlias, Embed, Ack, vars, bus
  <2>2. Delivered' = Delivered
    BY <2>1 DEF Delivered
  <2> QED
    BY <1>8, <1>9, <2>1, <2>2
<1>11. CASE Start
  <2>1. /\ UNCHANGED <<todo, faults>> /\ pc = "off"
        /\ cursor' = cursor \/ (~ grouped /\ cursor' = Len(jobs))
    BY <1>11 DEF Start
  <2>2. \A i \in Delivered' : i \in Delivered
    <3>1. CASE cursor' = cursor
      BY <3>1 DEF Delivered
    <3>2. CASE ~ grouped /\ cursor' = Len(jobs)
      <4>1. cursor' = 0
        BY <3>2 DEF Served
      <4> QED
        BY <4>1 DEF Delivered
    <3> QED
      BY <2>1, <3>1, <3>2
  <2> QED
    BY <1>8, <1>9, <2>1, <2>2
<1>12. CASE Fetch
  <2>1. /\ faults' = faults /\ pc = "idle" /\ todo = <<>> /\ todo' = NextEntries
        /\ cursor' = cursor + Len(NextEntries)
    BY <1>12 DEF Fetch
  <2>2. /\ Len(NextEntries) \in Nat /\ cursor \in Nat
        /\ DOMAIN NextEntries = 1..Len(NextEntries)
        /\ \A n \in 1..Len(NextEntries) : NextEntries[n] = cursor + n
    BY <1>1, NextEntriesType DEF StreamOK
  <2>3. ASSUME NEW i \in Delivered' \ Delivered
        PROVE  \E n \in DOMAIN todo' : todo'[n] = i
    <3> DEFINE k == Len(NextEntries)
    <3>1. k \in Nat /\ cursor' = cursor + k
      BY <2>1, <2>2
    <3> HIDE DEF k
    <3>2. i \in Nat /\ i - cursor \in 1..k /\ cursor + (i - cursor) = i
      BY <2>2, <3>1 DEF Delivered
    <3> QED
      BY <2>1, <2>2, <3>2 DEF k
  <2>4. ASSUME NEW i \in Skipped'
        PROVE  /\ i \notin Delivered' \ Delivered
               /\ \A n \in DOMAIN todo : todo[n] # i
               /\ ~ (pc \in {"embed", "upsert"} /\ i = entry)
    <3>1. i \notin Delivered' \ Delivered
      BY <1>9, <2>3
    <3>2. DOMAIN todo = {}
      BY <2>1
    <3> QED
      BY <2>1, <3>1, <3>2
  <2> QED
    BY <1>8, <2>1, <2>4
<1>13. CASE Take
  <2>1. /\ Head(todo) = todo[1]
        /\ \A n \in DOMAIN todo : n # 1 => n - 1 \in DOMAIN Tail(todo) /\ Tail(todo)[n - 1] = todo[n]
    <3>1. todo \in Seq(Nat \ {0}) /\ todo # <<>>
      BY <1>1, <1>13 DEF Take, PlaceOK
    <3>2. Len(todo) \in Nat \ {0} /\ DOMAIN todo = 1..Len(todo)
      BY <3>1, EmptySeq, LenProperties
    <3>3. Tail(todo) \in Seq(Nat \ {0}) /\ Len(Tail(todo)) = Len(todo) - 1
          /\ DOMAIN Tail(todo) = 1..Len(Tail(todo))
          /\ \A n \in 1..Len(Tail(todo)) : Tail(todo)[n] = todo[n + 1]
          /\ Head(todo) = todo[1]
      BY <3>1, HeadTailProperties, LenProperties
    <3>4. ASSUME NEW n \in 1..Len(todo), n # 1
          PROVE  n - 1 \in 1..Len(Tail(todo)) /\ (n - 1) + 1 = n
      BY <3>2, <3>3, <3>4
    <3> QED
      BY <3>2, <3>3, <3>4
  <2>2. /\ UNCHANGED <<cursor, faults>> /\ pc = "idle" /\ pc' = "embed"
        /\ entry' = todo[1] /\ todo' = Tail(todo)
    BY <1>13, <2>1 DEF Take, bus
  <2>3. Delivered' = Delivered
    BY <2>2 DEF Delivered
  <2>4. ASSUME NEW i \in Skipped', NEW n \in DOMAIN todo, todo[n] = i
        PROVE  FALSE
    BY <1>9, <2>1, <2>2, <2>4
  <2> QED
    BY <1>8, <2>2, <2>3, <2>4
<1>14. CASE Upsert
  <2>1. /\ UNCHANGED <<todo, cursor, jobs, faults, alias, entry, model>>
        /\ Handling /\ (Fits => Write)
    BY <1>14 DEF Upsert, bus, Handling
  <2>2. Delivered' = Delivered
    BY <2>1 DEF Delivered
  <2>3. ASSUME SameModel', entry \in Skipped'
        PROVE  FALSE
    <3>1. SameModel
      BY <1>2, <2>3
    <3>2. Write /\ alias = model
      <4>1. alias # None
        BY <1>1, <2>1 DEF PlaceOK, Handling
      <4> QED
        BY <2>1, <3>1, <4>1, JobFits DEF Named, SameModel
    <3>3. points'[model][PointOf[job]] = entry
      BY <2>1, <3>2, WriteEffect
    <3>4. points'[model][PointOf[job]] < entry
      BY <2>1, <2>3 DEF Skipped, job
    <3>5. entry \in Nat
      BY <1>1 DEF PlaceOK
    <3> QED
      BY <3>3, <3>4, <3>5
  <2> QED
    BY <1>8, <1>9, <2>1, <2>2, <2>3
<1> QED
  BY <1>6, <1>7, <1>10, <1>11, <1>12, <1>13, <1>14 DEF Step, Index, Consume, Fault

-----------------------------------------------------------------------------
(***************************************************************************)
(* The theorems.                                                           *)
(***************************************************************************)

LEMMA InvInit == Init => Inv
<1> SUFFICES ASSUME Init PROVE Inv
  OBVIOUS
<1>1. TypeInv
  BY TypeInit
<1>2. PointsSound
  BY DEF Init, InitIndexer, PointsSound
<1>3. InTurn
  BY DEF Init, InitIndexer, InTurn, Handling
<1>4. Named /\ Owed
  BY DEF Init, InitIndexer, Named, Owed
<1>5. Forward
  BY DEF Init, InitIndexer, Forward, Handling
<1> QED
  BY <1>1, <1>2, <1>3, <1>4, <1>5 DEF Inv

LEMMA InvStep == Inv /\ [Step]_vars => Inv'
BY TypeStep, PointsStep, InTurnStep, ForwardStep, NamedStep, OwedStep DEF Inv

\* The same for the bound on what is skipped, once the group precedes the jobs.
LEMMA SkippedInit == Init => Batches /\ SkippedBound
<1> SUFFICES ASSUME Init PROVE Batches /\ SkippedBound
  OBVIOUS
<1>1. Batches
  BY IndexerAssumption DEF Init, InitIndexer, Batches, Ungrouped, Handling
<1>2. cursor = 0 /\ faults["error"] = 0 /\ faults["crash"] = 0
  BY DEF Init, InitIndexer, FaultKinds
<1>3. Skipped = {}
  BY <1>2 DEF Skipped, Delivered
<1>4. Cardinality(Skipped) = 0
  BY <1>3, FS_EmptySet
<1>5. SkippedBound
  <2>1. BatchSize * (0 + 0) = 0
    BY IndexerAssumption
  <2> QED
    BY <1>2, <1>4, <2>1 DEF SkippedBound
<1> QED
  BY <1>1, <1>5

LEMMA SkippedBounds ==
  Inv /\ Batches /\ Served /\ SkippedBound /\ [Step]_vars => Batches' /\ SkippedBound'
BY InvStep, BatchesStep, SkippedStep DEF Inv

\* What a step does to what search shows.
LEMMA ShownEffect ==
  Inv /\ [Step]_vars => /\ points' = points \/ (Wrote /\ UNCHANGED alias)
                        /\ alias' = alias \/ alias' = model
<1> SUFFICES ASSUME Inv, [Step]_vars
             PROVE  /\ points' = points \/ (Wrote /\ UNCHANGED alias)
                    /\ alias' = alias \/ alias' = model
  OBVIOUS
<1>1. \/ points' = points
      \/ Upsert \/ Error
  BY DEF Step, Index, Consume, Fault, Request, Start, Probe, EnsureCollection, EnsureAlias, Fetch,
     Take, Embed, Ack, LoseReply, Crash, Cancel, Redeploy, vars, qdrant
<1>2. Upsert \/ Error => alias' = alias
  BY DEF Upsert, Error
<1>3. points' = points \/ Wrote
  BY StoreEffect DEF Inv
<1>4. alias' = alias \/ alias' = model
  BY DEF Step, Index, Consume, Fault, Request, Start, Probe, EnsureCollection, EnsureAlias, Fetch,
     Take, Embed, Upsert, Ack, Error, LoseReply, Crash, Cancel, Redeploy, vars, qdrant
<1> QED
  BY <1>1, <1>2, <1>3, <1>4

\* Only a deployment of another model counts as a switch.
LEMMA SwitchEffect ==
  TypeInv /\ [Step]_vars => faults'["switch"] = faults["switch"] \/ model' # model
<1> SUFFICES ASSUME TypeInv, [Step]_vars
             PROVE  faults'["switch"] = faults["switch"] \/ model' # model
  OBVIOUS
<1>1. Redeploy => model' # model
  BY DEF Redeploy
<1>2. Error \/ LoseReply \/ Crash \/ Cancel => faults'["switch"] = faults["switch"]
  BY DEF Error, LoseReply, Crash, Cancel, Strike, TypeInv, TypeOK, FaultKinds
<1>3. (\E j \in Jobs : Request(j)) \/ Consume \/ UNCHANGED vars => faults' = faults
  BY DEF Request, Consume, Start, Probe, EnsureCollection, EnsureAlias, Fetch, Take, Embed, Upsert,
     Ack, vars
<1> QED
  BY <1>1, <1>2, <1>3 DEF Step, Index, Fault

LEMMA NextIsStep == [Next]_vars => [Step]_vars
  BY DEF Next, Publish, Step

\* The invariant holds in every state the indexer can reach.
THEOREM Invariance == Spec => []Inv
  BY InvInit, InvStep, NextIsStep, PTL DEF Spec

\* Every variable keeps its type.
THEOREM TypeCorrect == Spec => []TypeOK
<1>1. Inv => TypeOK
  BY DEF Inv, TypeInv
<1> QED
  BY <1>1, Invariance, PTL

\* A point is always a delivered job's of its own window, in a collection that
\* exists and whose vectors have its length, through any change of model.
THEOREM PointsSoundHolds == Spec => []PointsSound
<1>1. Inv => PointsSound
  BY DEF Inv
<1> QED
  BY <1>1, Invariance, PTL

\* While there is one model, every point that is behind the last acknowledged
\* job of its window costs an error or a crash of its own.
THEOREM BehindOnlyByFaultHolds == Spec => []BehindOnlyByFault
<1>1. ASSUME Inv, SameModel, alias # None
      PROVE  Cardinality({p \in Points : points[alias][p] < LastAcked(p)}) <= Faulted
  <2> DEFINE X == {p \in Points : points[alias][p] < LastAcked(p)}
  <2>1. IsFiniteSet(Behind) /\ Cardinality(Behind) \in Nat /\ Cardinality(Behind) <= Faulted
        /\ Faulted \in Nat
    BY <1>1, BehindFinite, FaultedType DEF Inv, Owed, Faulted
  <2>2. X \subseteq Behind
    BY DEF Behind
  <2> HIDE DEF X
  <2>3. Cardinality(X) <= Cardinality(Behind) /\ Cardinality(X) \in Nat
    BY <2>1, <2>2, FS_Subset, FS_CardinalityType
  <2>4. Cardinality(X) <= Faulted
    BY <2>1, <2>3
  <2> QED
    BY <2>4 DEF X
<1>2. Inv => BehindOnlyByFault
  BY <1>1 DEF BehindOnlyByFault, Faulted
<1> QED
  BY <1>2, Invariance, PTL
==============================================================================
