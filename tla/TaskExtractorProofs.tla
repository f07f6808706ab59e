------------------------- MODULE TaskExtractorProofs -------------------------
(***************************************************************************)
(* Theorems about TaskExtractor, for every value of its constants.         *)
(***************************************************************************)
EXTENDS TaskExtractorInvariant, SequenceTheorems, FiniteSetTheorems, WellFoundedInduction, TLAPS

(***************************************************************************)
(* Lemmas about numbers and finite sets.  The library's induction theorems *)
(* take an operator; these take a set.                                     *)
(***************************************************************************)

\* A set of numbers has a least element.
LEMMA LeastNumber ==
  ASSUME NEW T \in SUBSET Nat, T # {}
  PROVE  \E x \in T : \A y \in T : x <= y
<1> DEFINE R == OpToRel(<, Nat)
<1>1. IsWellFoundedOn(R, Nat)
  BY NatLessThanWellFounded
<1>2. \A x, y \in Nat : x < y => <<x, y>> \in R
  BY DEF OpToRel
<1> HIDE DEF R
<1>3. PICK x \in T : \A y \in T : ~ (<<y, x>> \in R)
  BY <1>1, WFMin, T \subseteq Nat, Zenon
<1>4. ASSUME NEW y \in T
      PROVE  x <= y
  <2>1. ~ (y < x)
    BY <1>2, <1>3
  <2> QED
    BY <2>1
<1> QED
  BY <1>4

\* A set of numbers with a bound has a greatest element.
LEMMA GreatestNumber ==
  ASSUME NEW n \in Nat, NEW S \in SUBSET (1..n), S # {}
  PROVE  \E x \in S : \A y \in S : y <= x
<1> DEFINE T == {n - x : x \in S}
<1>1. T \in SUBSET Nat /\ T # {}
  <2>1. \A x \in S : x \in Nat /\ x <= n /\ n - x \in Nat
    OBVIOUS
  <2>2. T \subseteq Nat
    BY <2>1
  <2>3. T # {}
    BY <2>1
  <2> QED
    BY <2>2, <2>3
<1>2. PICK z \in T : \A y \in T : z <= y
  BY <1>1, LeastNumber
<1>3. PICK x \in S : z = n - x
  BY <1>2
<1>4. \A y \in S : n - x <= n - y
  BY <1>2, <1>3
<1> QED
  BY <1>4

\* A set that holds 0, and n + 1 with n, holds every number.
LEMMA NumberInduction ==
  ASSUME NEW T, 0 \in T, \A n \in Nat : n \in T => n + 1 \in T
  PROVE  Nat \subseteq T
<1> DEFINE U == Nat \ T
<1> SUFFICES ASSUME U # {} PROVE FALSE
  OBVIOUS
<1>1. PICK x \in U : \A y \in U : x <= y
  BY LeastNumber
<1>2. x # 0 /\ x \in Nat /\ x - 1 \in Nat
  BY <1>1
<1>3. x - 1 \in T
  BY <1>1, <1>2
<1> QED
  BY <1>1, <1>2, <1>3

\* A finite set of numbers can be listed in increasing order.
LEMMA IncreasingList ==
  ASSUME NEW S \in SUBSET Nat, IsFiniteSet(S)
  PROVE  \E s \in [1..Cardinality(S) -> S] : \A i, j \in DOMAIN s : i < j => s[i] < s[j]
<1> DEFINE Lists(T, n) == {s \in [1..n -> T] : \A i, j \in 1..n : i < j => s[i] < s[j]}
           Good(n) == \A T \in SUBSET Nat : IsFiniteSet(T) /\ Cardinality(T) = n => Lists(T, n) # {}
           N == {n \in Nat : Good(n)}
<1>1. 0 \in N
  <2>1. ASSUME NEW T \in SUBSET Nat
        PROVE  Lists(T, 0) # {}
    <3>1. [i \in 1..0 |-> 0] \in Lists(T, 0)
      OBVIOUS
    <3> QED
      BY <3>1
  <2> QED
    BY <2>1
<1>2. ASSUME NEW n \in Nat, Good(n)
      PROVE  Good(n + 1)
  <2> SUFFICES ASSUME NEW T \in SUBSET Nat, IsFiniteSet(T), Cardinality(T) = n + 1
               PROVE  Lists(T, n + 1) # {}
    OBVIOUS
  <2>1. T # {}
    BY FS_EmptySet
  <2>2. PICK x \in T : \A y \in T : x <= y
    BY <2>1, LeastNumber
  <2>3. IsFiniteSet(T \ {x}) /\ Cardinality(T \ {x}) = Cardinality(T) - 1
    BY <2>2, FS_RemoveElement, Zenon
  <2>4. Lists(T \ {x}, n) # {}
    BY <1>2, <2>3
  <2>5. PICK s \in Lists(T \ {x}, n) : TRUE
    BY <2>4
  <2>6. s \in [1..n -> T \ {x}] /\ \A i, j \in 1..n : i < j => s[i] < s[j]
    BY <2>5
  <2> DEFINE r == [i \in 1..(n + 1) |-> IF i = 1 THEN x ELSE s[i - 1]]
  <2>7. \A i \in 1..(n + 1) : i # 1 => i - 1 \in 1..n /\ s[i - 1] \in T \ {x}
    BY <2>6
  <2>8. ASSUME NEW i \in 1..(n + 1), NEW j \in 1..(n + 1), i < j
        PROVE  r[i] < r[j]
    <3>1. j # 1 /\ r[j] = s[j - 1] /\ s[j - 1] \in T \ {x} /\ j - 1 \in 1..n
      BY <2>7, <2>8
    <3>2. CASE i = 1
      <4>1. x <= s[j - 1] /\ x # s[j - 1] /\ x \in Nat /\ s[j - 1] \in Nat
        BY <2>2, <3>1
      <4> QED
        BY <3>1, <3>2, <4>1
    <3>3. CASE i # 1
      <4>1. r[i] = s[i - 1] /\ i - 1 \in 1..n /\ i - 1 < j - 1
        BY <2>7, <2>8, <3>3
      <4> QED
        BY <2>6, <3>1, <4>1
    <3> QED
      BY <3>2, <3>3
  <2>9. r \in [1..(n + 1) -> T]
    BY <2>2, <2>7
  <2> QED
    BY <2>8, <2>9
<1> HIDE DEF Good
<1>3. Nat \subseteq N
  <2>1. \A n \in Nat : n \in N => n + 1 \in N
    BY <1>2
  <2> HIDE DEF N
  <2> QED  BY <1>1, <2>1, NumberInduction
<1>4. Cardinality(S) \in Nat
  BY FS_CardinalityType
<1>5. Good(Cardinality(S))
  BY <1>3, <1>4
<1> QED
  BY <1>5 DEF Good

\* InOrder lists all of a set of rows.
LEMMA InOrderLists ==
  ASSUME NEW n \in Nat, NEW S \in SUBSET (1..n)
  PROVE  /\ InOrder(S) \in Seq(S)
         /\ Elements(InOrder(S)) = S
         /\ S # {} => InOrder(S) # <<>>
<1> DEFINE m == Cardinality(S)
           Increasing(s) == \A i, j \in DOMAIN s : i < j => s[i] < s[j]
<1>1. IsFiniteSet(S) /\ m \in Nat
  <2>1. IsFiniteSet(1..n)
    BY FS_Interval
  <2>2. IsFiniteSet(S)
    BY <2>1, FS_Subset
  <2> QED
    BY <2>2, FS_CardinalityType
<1>2. \E s \in [1..m -> S] : Increasing(s)
  BY <1>1, IncreasingList
<1>3. InOrder(S) \in [1..m -> S] /\ Increasing(InOrder(S))
  <2> HIDE DEF Increasing, m
  <2>1. InOrder(S) = CHOOSE s \in [1..m -> S] : Increasing(s)
    BY DEF InOrder, Increasing, m
  <2> QED
    BY <1>2, <2>1
<1> DEFINE s == InOrder(S)
<1>4. s \in [1..m -> S] /\ Increasing(s)
  BY <1>3
<1> HIDE DEF s, m
<1>5. s \in Seq(S)
  BY <1>1, <1>4
<1>6. s \in Injection(1..m, S)
  <2>1. ASSUME NEW i \in 1..m, NEW j \in 1..m, s[i] = s[j]
        PROVE  i = j
    <3>1. \A a \in Nat : ~ (a < a)
      OBVIOUS
    <3>2. s[i] \in S /\ S \subseteq Nat
      BY <1>4
    <3>3. DOMAIN s = 1..m /\ \A a, b \in DOMAIN s : a < b => s[a] < s[b]
      BY <1>4
    <3>4. ~ (i < j) /\ ~ (j < i)
      BY <2>1, <3>1, <3>2, <3>3, Zenon
    <3> QED
      BY <1>1, <3>4
  <2> QED
    BY <1>4, <2>1 DEF Injection, IsInjective
<1>7. Cardinality(1..m) = m
  BY <1>1, FS_Interval
<1>8. s \in Surjection(1..m, S)
  BY <1>1, <1>6, <1>7, FS_Injection, Zenon DEF m
<1>9. Elements(s) = S
  BY <1>4, <1>8 DEF Surjection, Elements
<1>10. S # {} => s # <<>>
  BY <1>9 DEF Elements
<1> QED
  BY <1>5, <1>9, <1>10 DEF s

\* A list of elements of a set is one of elements of a larger set.
LEMMA WiderSeq ==
  ASSUME NEW A, NEW B, A \subseteq B, NEW s \in Seq(A)
  PROVE  s \in Seq(B)
OBVIOUS

\* Appending keeps every entry in its place.
LEMMA AppendKeeps ==
  ASSUME NEW S, NEW s \in Seq(S), NEW e \in S
  PROVE  /\ Append(s, e) \in Seq(S)
         /\ Len(Append(s, e)) = Len(s) + 1 /\ Len(s) \in Nat
         /\ DOMAIN Append(s, e) = 1..(Len(s) + 1) /\ DOMAIN s = 1..Len(s)
         /\ \A i \in 1..Len(s) : Append(s, e)[i] = s[i]
         /\ Append(s, e)[Len(s) + 1] = e
         /\ Elements(Append(s, e)) = Elements(s) \cup {e}
<1>1. /\ Append(s, e) \in Seq(S)
      /\ Len(Append(s, e)) = Len(s) + 1 /\ Len(s) \in Nat
      /\ DOMAIN Append(s, e) = 1..(Len(s) + 1) /\ DOMAIN s = 1..Len(s)
      /\ \A i \in 1..Len(s) : Append(s, e)[i] = s[i]
      /\ Append(s, e)[Len(s) + 1] = e
  BY AppendProperties, LenProperties
<1>2. Elements(Append(s, e)) = Elements(s) \cup {e}
  <2>1. \A i \in DOMAIN s : i \in DOMAIN Append(s, e)
    BY <1>1
  <2>2. \A i \in DOMAIN Append(s, e) : i \in DOMAIN s \/ i = Len(s) + 1
    BY <1>1
  <2> QED
    BY <1>1, <2>1, <2>2 DEF Elements
<1> QED
  BY <1>1, <1>2

\* The rest of a list holds elements of it, and with the first all of them.
LEMMA TailElements ==
  ASSUME NEW S, NEW s \in Seq(S), s # <<>>
  PROVE  /\ Head(s) \in S /\ Head(s) = s[1]
         /\ Tail(s) \in Seq(S)
         /\ Elements(s) = {s[1]} \cup Elements(Tail(s))
         /\ Len(s) = 1 <=> Tail(s) = <<>>
<1>1. /\ Len(s) \in Nat \ {0} /\ DOMAIN s = 1..Len(s)
      /\ Head(s) \in S /\ Head(s) = s[1]
      /\ Tail(s) \in Seq(S) /\ Len(Tail(s)) = Len(s) - 1
      /\ DOMAIN Tail(s) = 1..(Len(s) - 1)
      /\ \A i \in 1..(Len(s) - 1) : Tail(s)[i] = s[i + 1]
  BY HeadTailProperties, EmptySeq, LenProperties
<1>2. \A i \in 1..Len(s) : i = 1 \/ (i - 1 \in 1..(Len(s) - 1) /\ i = (i - 1) + 1)
  BY <1>1
<1>3. Elements(s) \subseteq {s[1]} \cup Elements(Tail(s))
  <2>1. ASSUME NEW i \in 1..Len(s), i # 1
        PROVE  s[i] = Tail(s)[i - 1] /\ i - 1 \in DOMAIN Tail(s)
    <3>1. i - 1 \in 1..(Len(s) - 1) /\ i = (i - 1) + 1
      BY <1>2, <2>1
    <3>2. Tail(s)[i - 1] = s[(i - 1) + 1]
      BY <1>1, <3>1
    <3> QED
      BY <1>1, <3>1, <3>2
  <2>2. ASSUME NEW i \in DOMAIN s
        PROVE  s[i] = s[1] \/ \E j \in DOMAIN Tail(s) : s[i] = Tail(s)[j]
    BY <1>1, <2>1
  <2>3. ASSUME NEW x \in Elements(s)
        PROVE  x = s[1] \/ x \in Elements(Tail(s))
    <3>1. PICK i \in DOMAIN s : x = s[i]
      BY <2>3 DEF Elements
    <3> QED
      BY <2>2, <3>1, Zenon DEF Elements
  <2> QED
    BY <2>3
<1>4. \A i \in 1..(Len(s) - 1) : i + 1 \in 1..Len(s)
  <2>1. Len(s) \in Nat
    BY <1>1
  <2> QED
    BY <2>1
<1>5. {s[1]} \cup Elements(Tail(s)) \subseteq Elements(s)
  BY <1>1, <1>4 DEF Elements
<1>6. Len(Tail(s)) = 0 <=> Tail(s) = <<>>
  BY <1>1, EmptySeq
<1>7. Len(s) = 1 <=> Tail(s) = <<>>
  BY <1>1, <1>6
<1> QED
  BY <1>1, <1>3, <1>5, <1>7

-----------------------------------------------------------------------------
(***************************************************************************)
(* Type correctness.                                                       *)
(***************************************************************************)

\* The entries of the streams.
Streamed == {x \in Entries : x[2] <= Len(log[x[1]])}

\* The parts of TypeInv, by what can disturb them.
BusOK ==
  /\ log \in [Kinds -> Seq(Events)]
  /\ cursor \in [Kinds -> Nat]
  /\ acked \subseteq Entries
  /\ dlq \subseteq Events
  /\ overflow \in BOOLEAN
  /\ \A k \in Kinds : \A i \in DOMAIN log[k] : Kind[log[k][i]] = k
  /\ \A k \in Kinds : cursor[k] <= Len(log[k])

TablesOK ==
  /\ processed \subseteq Events
  /\ tasks \in Seq(TaskRows)
  /\ created \in Seq(Nat \ {0})
  /\ resolved \in Seq((Nat \ {0}) \X {"done", "dropped"})
  /\ patches \in Nat
  /\ faults \in [FaultKinds -> Nat]

PlaceOK ==
  /\ pc \in PcStates
  /\ todo \in Seq(Streamed)
  /\ entry \in Entries \cup {<<>>}
  /\ pc \notin {"off", "idle"} => entry \in Streamed
  /\ pc \in {"resolve", "create", "created"} => entry[1] = "message"
  /\ pc = "find" => entry[1] # "deleted"
  /\ pc = "update" => entry[1] = "edited"
  /\ pc = "drop" => entry[1] = "deleted"
  /\ pc = "announce" => entry[1] # "edited"

IdsOK ==
  /\ ids \in Seq(Nat \ {0})
  /\ pc \in {"created", "update", "announce"} => ids # <<>>
  /\ Elements(ids) \subseteq DOMAIN tasks

PartsOK == BusOK /\ TablesOK /\ PlaceOK /\ IdsOK

LEMMA TypeInvParts == (TypeInv <=> PartsOK) /\ (TypeInv' <=> PartsOK')
<1>1. TypeInv <=> PartsOK
  <2>1. todo \in Seq(Entries) /\ (\A i \in DOMAIN todo : OnStream(todo[i])) <=> todo \in Seq(Streamed)
    <3>1. ASSUME todo \in Seq(Entries), \A i \in DOMAIN todo : OnStream(todo[i])
          PROVE  todo \in Seq(Streamed)
      BY <3>1 DEF Streamed, OnStream
    <3>2. ASSUME todo \in Seq(Streamed)
          PROVE  todo \in Seq(Entries) /\ \A i \in DOMAIN todo : OnStream(todo[i])
      <4>1. \A i \in DOMAIN todo : todo[i] \in Streamed
        BY <3>2
      <4> QED
        BY <3>2, <4>1 DEF Streamed, OnStream
    <3> QED
      BY <3>1, <3>2
  <2>2. OnStream(entry) <=> entry \in Streamed
    BY DEF OnStream, Streamed
  <2> QED
    BY <2>1, <2>2 DEF TypeInv, TypeOK, Control, PartsOK, BusOK, TablesOK, PlaceOK, IdsOK
<1>2. TypeInv' <=> PartsOK'
  BY <1>1, PTL
<1> QED
  BY <1>1, <1>2

\* The event in hand.
LEMMA EventType ==
  ASSUME BusOK, PlaceOK, pc \notin {"off", "idle"}
  PROVE  /\ entry[1] \in Kinds /\ entry[2] \in DOMAIN log[entry[1]]
         /\ event \in Events /\ Kind[event] = entry[1]
<1>1. /\ entry[1] \in Kinds /\ entry[2] \in Nat \ {0} /\ entry[2] <= Len(log[entry[1]])
  BY DEF PlaceOK, Streamed, Entries
<1>2. log[entry[1]] \in Seq(Events)
  BY <1>1 DEF BusOK
<1>3. entry[2] \in DOMAIN log[entry[1]]
  BY <1>1, <1>2, LenProperties
<1> QED
  BY <1>1, <1>2, <1>3 DEF event, BusOK

\* A message and an edit are about one message.
LEMMA RefType ==
  ASSUME NEW e \in Events, Kind[e] # "deleted"
  PROVE  (CHOOSE m \in Refs[e] : TRUE) \in Messages
<1>1. Refs[e] \subseteq Messages
  BY DEF Messages
<1>2. Refs[e] # {}
  <2>1. Cardinality(Refs[e]) = 1
    BY ExtractorAssumption
  <2> QED
    BY <2>1, FS_EmptySet
<1> QED
  BY <1>1, <1>2

\* Everything on the streams stays where it is.
LEMMA StreamsKept ==
  ASSUME BusOK, NEW e \in Events, log' = [log EXCEPT ![Kind[e]] = Append(@, e)]
  PROVE  /\ log' \in [Kinds -> Seq(Events)]
         /\ \A k \in Kinds : Len(log[k]) <= Len(log'[k]) /\ Len(log[k]) \in Nat
         /\ \A k \in Kinds : \A i \in DOMAIN log[k] :
              i \in DOMAIN log'[k] /\ log'[k][i] = log[k][i]
         /\ \A k \in Kinds : \A i \in DOMAIN log'[k] : Kind[log'[k][i]] = k
         /\ Streamed \subseteq Streamed'
<1>1. Kind[e] \in Kinds
  BY ExtractorAssumption
<1>2. log[Kind[e]] \in Seq(Events)
  BY <1>1 DEF BusOK
<1>3. ASSUME NEW k \in Kinds
      PROVE  /\ log'[k] \in Seq(Events)
             /\ Len(log[k]) <= Len(log'[k]) /\ Len(log[k]) \in Nat /\ Len(log'[k]) \in Nat
             /\ \A i \in DOMAIN log[k] : i \in DOMAIN log'[k] /\ log'[k][i] = log[k][i]
             /\ \A i \in DOMAIN log'[k] : Kind[log'[k][i]] = k
  <2>1. CASE k = Kind[e]
    <3>1. log'[k] = Append(log[k], e)
      BY <1>1, <2>1 DEF BusOK
    <3>2. /\ Append(log[k], e) \in Seq(Events)
          /\ Len(Append(log[k], e)) = Len(log[k]) + 1 /\ Len(log[k]) \in Nat
          /\ DOMAIN Append(log[k], e) = 1..(Len(log[k]) + 1) /\ DOMAIN log[k] = 1..Len(log[k])
          /\ \A i \in 1..Len(log[k]) : Append(log[k], e)[i] = log[k][i]
          /\ Append(log[k], e)[Len(log[k]) + 1] = e
      BY <1>2, <2>1, AppendKeeps
    <3>3. \A i \in 1..(Len(log[k]) + 1) : i \in DOMAIN log[k] \/ i = Len(log[k]) + 1
      BY <3>2
    <3> QED
      BY <2>1, <3>1, <3>2, <3>3 DEF BusOK
  <2>2. CASE k # Kind[e]
    <3>1. log'[k] = log[k] /\ log[k] \in Seq(Events) /\ Len(log[k]) \in Nat
      BY <1>1, <2>2, LenProperties DEF BusOK
    <3> QED
      BY <3>1 DEF BusOK
  <2> QED
    BY <2>1, <2>2
<1>4. log' \in [Kinds -> Seq(Events)]
  BY <1>3 DEF BusOK
<1>5. ASSUME NEW x \in Streamed
      PROVE  x \in Streamed'
  <2>1. x \in Entries /\ x[1] \in Kinds /\ x[2] \in Nat /\ x[2] <= Len(log[x[1]])
    BY <1>5 DEF Streamed, Entries
  <2>2. x[2] <= Len(log'[x[1]])
    BY <1>3, <2>1
  <2> QED
    BY <2>1, <2>2 DEF Streamed
<1> QED
  BY <1>3, <1>4, <1>5

LEMMA TypePublish ==
  ASSUME TypeInv, NEW e \in Events, Publish(e) \/ Requeue(e)
  PROVE  TypeInv'
<1>1. BusOK /\ TablesOK /\ PlaceOK /\ IdsOK
  BY TypeInvParts DEF PartsOK
<1>2. /\ log' = [log EXCEPT ![Kind[e]] = Append(@, e)]
      /\ dlq' \subseteq dlq
      /\ UNCHANGED <<cursor, acked, overflow, processed, tasks, created, resolved, pc, todo,
                     entry, ids, patches, faults>>
  BY DEF Publish, Requeue, output
<1>3. /\ log' \in [Kinds -> Seq(Events)]
      /\ \A k \in Kinds : Len(log[k]) <= Len(log'[k]) /\ Len(log[k]) \in Nat
      /\ \A k \in Kinds : \A i \in DOMAIN log'[k] : Kind[log'[k][i]] = k
      /\ Streamed \subseteq Streamed'
  BY <1>1, <1>2, StreamsKept
<1>4. BusOK'
  <2>1. ASSUME NEW k \in Kinds
        PROVE  cursor[k] <= Len(log'[k])
    <3>1. cursor[k] \in Nat /\ cursor[k] <= Len(log[k]) /\ Len(log'[k]) \in Nat
      BY <1>1, <1>3, LenProperties DEF BusOK
    <3> QED
      BY <1>3, <3>1
  <2> QED
    BY <1>1, <1>2, <1>3, <2>1 DEF BusOK
<1>5. todo \in Seq(Streamed')
  BY <1>1, <1>3 DEF PlaceOK
<1>6. PlaceOK'
  BY <1>1, <1>2, <1>3, <1>5 DEF PlaceOK
<1>7. TablesOK' /\ IdsOK'
  BY <1>1, <1>2 DEF TablesOK, IdsOK
<1> QED
  BY <1>4, <1>6, <1>7, TypeInvParts DEF PartsOK

(***************************************************************************)
(* What the steps do to the task table.                                    *)
(***************************************************************************)

\* Row t keeps everything but its text.
RowKept(t) ==
  /\ tasks'[t].ref = tasks[t].ref /\ tasks'[t].by = tasks[t].by
  /\ tasks'[t].status = tasks[t].status /\ tasks'[t].setBy = tasks[t].setBy

RowsKept ==
  /\ DOMAIN tasks' = DOMAIN tasks
  /\ \A t \in DOMAIN tasks : RowKept(t)

\* A row for message m is inserted.
RowAdded(m, by) ==
  /\ DOMAIN tasks' = DOMAIN tasks \cup {Len(tasks) + 1}
  /\ Len(tasks) + 1 \notin DOMAIN tasks
  /\ \A t \in DOMAIN tasks : RowKept(t)
  /\ tasks'[Len(tasks) + 1].ref = m /\ tasks'[Len(tasks) + 1].by = by
  /\ tasks'[Len(tasks) + 1].status = "open"

\* The rows in S get a status, from the service or the admin.
RowsSet(S, status, setBy) ==
  /\ DOMAIN tasks' = DOMAIN tasks
  /\ \A t \in DOMAIN tasks \ S : RowKept(t)
  /\ \A t \in S : /\ tasks'[t].ref = tasks[t].ref /\ tasks'[t].by = tasks[t].by
                  /\ tasks'[t].status = status /\ tasks'[t].setBy = setBy

\* Assigning to one row.
LEMMA AssignRow ==
  ASSUME tasks \in Seq(TaskRows), NEW t \in DOMAIN tasks, NEW r \in TaskRows,
         tasks' = [tasks EXCEPT ![t] = r]
  PROVE  /\ tasks' \in Seq(TaskRows) /\ DOMAIN tasks' = DOMAIN tasks
         /\ tasks'[t] = r /\ \A u \in DOMAIN tasks : u # t => tasks'[u] = tasks[u]
<1>1. Len(tasks) \in Nat /\ DOMAIN tasks = 1..Len(tasks) /\ tasks \in [1..Len(tasks) -> TaskRows]
  BY LenProperties
<1>2. tasks' \in [1..Len(tasks) -> TaskRows]
  BY <1>1
<1>3. tasks' \in Seq(TaskRows)
  BY <1>1, <1>2
<1> QED
  BY <1>1, <1>2, <1>3

\* Assigning to every row.
LEMMA AssignRows ==
  ASSUME tasks \in Seq(TaskRows), NEW f, tasks' = f, DOMAIN f = DOMAIN tasks,
         f = [t \in DOMAIN tasks |-> f[t]],
         \A t \in DOMAIN tasks : f[t] \in TaskRows
  PROVE  tasks' \in Seq(TaskRows) /\ DOMAIN tasks' = DOMAIN tasks
<1>1. Len(tasks) \in Nat /\ DOMAIN tasks = 1..Len(tasks)
  BY LenProperties
<1>2. tasks' \in [1..Len(tasks) -> TaskRows]
  BY <1>1
<1> QED
  BY <1>1, <1>2

LEMMA ProjectTaskRows ==
  ASSUME tasks \in Seq(TaskRows), NEW m \in Projected, ProjectTask(m)
  PROVE  /\ tasks' \in Seq(TaskRows)
         /\ RowsKept \/ (Rows(m) = {} /\ RowAdded(m, "memory-projector"))
<1>0. m \in Messages
  BY ExtractorAssumption
<1>1. CASE \E t \in Rows(m) : tasks' = [tasks EXCEPT ![t].text = None]
  <2>1. PICK t \in Rows(m) : tasks' = [tasks EXCEPT ![t].text = None]
    BY <1>1
  <2> DEFINE r == [tasks[t] EXCEPT !.text = None]
  <2>2. t \in DOMAIN tasks /\ tasks' = [tasks EXCEPT ![t] = r]
    BY <2>1 DEF Rows
  <2>3. tasks[t] \in TaskRows
    BY <2>2
  <2>4. /\ r \in TaskRows /\ r.ref = tasks[t].ref /\ r.by = tasks[t].by
        /\ r.status = tasks[t].status /\ r.setBy = tasks[t].setBy
    BY <2>3 DEF TaskRows
  <2> HIDE DEF r
  <2>5. /\ tasks' \in Seq(TaskRows) /\ DOMAIN tasks' = DOMAIN tasks
        /\ tasks'[t] = r /\ \A u \in DOMAIN tasks : u # t => tasks'[u] = tasks[u]
    BY <2>2, <2>4, AssignRow
  <2> QED
    BY <2>4, <2>5 DEF RowsKept, RowKept
<1>2. CASE ~ (\E t \in Rows(m) : tasks' = [tasks EXCEPT ![t].text = None])
  <2> DEFINE r == [ref |-> m, by |-> "memory-projector", text |-> None,
                   status |-> "open", setBy |-> "service"]
  <2>1. Rows(m) = {} /\ tasks' = Append(tasks, r)
    BY <1>2 DEF ProjectTask
  <2>2. r \in TaskRows /\ r.ref = m /\ r.by = "memory-projector" /\ r.status = "open"
    BY <1>0 DEF TaskRows, Statuses
  <2> HIDE DEF r
  <2> QED
    BY <2>1, <2>2, AppendKeeps DEF RowAdded, RowKept
<1> QED
  BY <1>1, <1>2

LEMMA PatchTaskRows ==
  ASSUME tasks \in Seq(TaskRows), NEW t \in DOMAIN tasks, NEW s \in Statuses, PatchTask(t, s)
  PROVE  tasks' \in Seq(TaskRows) /\ RowsSet({t}, s, "admin")
<1> DEFINE r == [tasks[t] EXCEPT !.status = s, !.setBy = "admin"]
<1>1. tasks' = [tasks EXCEPT ![t] = r]
  BY DEF PatchTask
<1>2. tasks[t] \in TaskRows
  OBVIOUS
<1>3. /\ r \in TaskRows /\ r.ref = tasks[t].ref /\ r.by = tasks[t].by
      /\ r.status = s /\ r.setBy = "admin"
  BY <1>2 DEF TaskRows
<1> HIDE DEF r
<1>4. /\ tasks' \in Seq(TaskRows) /\ DOMAIN tasks' = DOMAIN tasks
      /\ tasks'[t] = r /\ \A u \in DOMAIN tasks : u # t => tasks'[u] = tasks[u]
  BY <1>1, <1>3, AssignRow
<1> QED
  BY <1>3, <1>4 DEF RowsSet, RowKept

LEMMA CreateRows ==
  ASSUME tasks \in Seq(TaskRows), event \in Events, ref \in Messages, Create
  PROVE  tasks' \in Seq(TaskRows) /\ RowAdded(ref, "task-extractor")
<1> DEFINE r == [ref |-> ref, by |-> "task-extractor", text |-> event,
                 status |-> "open", setBy |-> "service"]
<1>1. tasks' = Append(tasks, r)
  BY DEF Create
<1>2. r \in TaskRows /\ r.ref = ref /\ r.by = "task-extractor" /\ r.status = "open"
  BY DEF TaskRows, Statuses
<1> HIDE DEF r
<1> QED
  BY <1>1, <1>2, AppendKeeps DEF RowAdded, RowKept

LEMMA UpdateRows ==
  ASSUME tasks \in Seq(TaskRows), event \in Events, Update
  PROVE  tasks' \in Seq(TaskRows) /\ RowsKept
<1> DEFINE r(t) == IF t = ids[1] /\ tasks[t].status = "open"
                   THEN [tasks[t] EXCEPT !.text = event] ELSE tasks[t]
<1>1. tasks' = [t \in DOMAIN tasks |-> r(t)]
  BY DEF Update
<1>2. ASSUME NEW t \in DOMAIN tasks
      PROVE  /\ r(t) \in TaskRows /\ r(t).ref = tasks[t].ref /\ r(t).by = tasks[t].by
             /\ r(t).status = tasks[t].status /\ r(t).setBy = tasks[t].setBy
  <2>1. tasks[t] \in TaskRows
    OBVIOUS
  <2> QED
    BY <2>1 DEF TaskRows
<1> HIDE DEF r
<1>3. tasks' \in Seq(TaskRows) /\ DOMAIN tasks' = DOMAIN tasks
  BY <1>1, <1>2, AssignRows
<1>4. \A t \in DOMAIN tasks : tasks'[t] = r(t)
  BY <1>1
<1> QED
  BY <1>2, <1>3, <1>4 DEF RowsKept, RowKept

LEMMA ClosedRows ==
  ASSUME tasks \in Seq(TaskRows), NEW S \in SUBSET DOMAIN tasks, NEW s \in Statuses,
         tasks' = Closed(S, s)
  PROVE  tasks' \in Seq(TaskRows) /\ RowsSet(S, s, "service")
<1> DEFINE r(t) == IF t \in S THEN [tasks[t] EXCEPT !.status = s, !.setBy = "service"] ELSE tasks[t]
<1>1. tasks' = [t \in DOMAIN tasks |-> r(t)]
  BY DEF Closed
<1>2. ASSUME NEW t \in DOMAIN tasks
      PROVE  /\ r(t) \in TaskRows /\ r(t).ref = tasks[t].ref /\ r(t).by = tasks[t].by
             /\ t \in S => r(t).status = s /\ r(t).setBy = "service"
             /\ t \notin S => r(t) = tasks[t]
  <2>1. tasks[t] \in TaskRows
    OBVIOUS
  <2> QED
    BY <2>1 DEF TaskRows
<1> HIDE DEF r
<1>3. tasks' \in Seq(TaskRows) /\ DOMAIN tasks' = DOMAIN tasks
  BY <1>1, <1>2, AssignRows
<1>4. \A t \in DOMAIN tasks : tasks'[t] = r(t)
  BY <1>1
<1> QED
  BY <1>2, <1>3, <1>4 DEF RowsSet, RowKept

-----------------------------------------------------------------------------
\* FindTask returns a row of the message, if there is one.
LEMMA FindTaskRow ==
  ASSUME tasks \in Seq(TaskRows), NEW m
  PROVE  IF Rows(m) = {} THEN FindTask(m) = 0 ELSE FindTask(m) \in Rows(m) /\ FindTask(m) # 0
<1>1. Len(tasks) \in Nat /\ DOMAIN tasks = 1..Len(tasks)
  BY LenProperties
<1>2. Rows(m) \in SUBSET (1..Len(tasks))
  BY <1>1 DEF Rows
<1>3. Rows(m) # {} => \E t \in Rows(m) : \A u \in Rows(m) : u <= t
  BY <1>1, <1>2, GreatestNumber
<1>4. Rows(m) # {} => FindTask(m) \in Rows(m)
  BY <1>3 DEF FindTask
<1>5. Rows(m) = {} => FindTask(m) = 0
  BY DEF FindTask
<1>6. 0 \notin Rows(m)
  BY <1>1, <1>2
<1> QED
  BY <1>4, <1>5, <1>6

\* While nothing is published the streams are the same.
LEMMA BusKept ==
  ASSUME BusOK, log' = log, UNCHANGED <<cursor, overflow>>, acked' \subseteq Entries, dlq' \subseteq Events
  PROVE  BusOK' /\ Streamed' = Streamed
BY DEF BusOK, Streamed

LEMMA TypeTables ==
  ASSUME TypeInv,
         \/ \E m \in Projected : ProjectTask(m)
         \/ \E t \in DOMAIN tasks, s \in Statuses : PatchTask(t, s)
  PROVE  TypeInv'
<1>1. BusOK /\ TablesOK /\ PlaceOK /\ IdsOK
  BY TypeInvParts DEF PartsOK
<1>2. UNCHANGED <<log, cursor, acked, dlq, overflow, processed, created, resolved, pc, todo,
                  entry, ids, faults>>
  BY DEF ProjectTask, PatchTask, bus, output
<1>3. tasks \in Seq(TaskRows)
  BY <1>1 DEF TablesOK
<1>4. tasks' \in Seq(TaskRows) /\ DOMAIN tasks \subseteq DOMAIN tasks' /\ patches' \in Nat
  <2>1. CASE \E m \in Projected : ProjectTask(m)
    <3>1. PICK m \in Projected : ProjectTask(m)
      BY <2>1
    <3>2. tasks' \in Seq(TaskRows) /\ (RowsKept \/ RowAdded(m, "memory-projector"))
      BY <1>3, <3>1, ProjectTaskRows
    <3> QED
      BY <1>1, <3>1, <3>2 DEF RowsKept, RowAdded, ProjectTask, TablesOK
  <2>2. CASE \E t \in DOMAIN tasks, s \in Statuses : PatchTask(t, s)
    <3>1. PICK t \in DOMAIN tasks, s \in Statuses : PatchTask(t, s)
      BY <2>2
    <3>2. tasks' \in Seq(TaskRows) /\ RowsSet({t}, s, "admin")
      BY <1>3, <3>1, PatchTaskRows
    <3>3. patches \in Nat /\ patches' = patches + 1
      BY <1>1, <3>1 DEF PatchTask, TablesOK
    <3> QED
      BY <3>2, <3>3 DEF RowsSet
  <2> QED
    BY <2>1, <2>2
<1>5. BusOK' /\ Streamed' = Streamed
  BY <1>1, <1>2, BusKept DEF BusOK
<1>6. PlaceOK'
  BY <1>1, <1>2, <1>5 DEF PlaceOK
<1>7. TablesOK' /\ IdsOK'
  BY <1>1, <1>2, <1>4 DEF TablesOK, IdsOK
<1> QED
  BY <1>5, <1>6, <1>7, TypeInvParts DEF PartsOK

\* A chunk is the next entries of one stream.
LEMMA ChunkType ==
  ASSUME BusOK, NEW k \in Kinds
  PROVE  /\ Chunk(k) \in Seq(Streamed)
         /\ Len(Chunk(k)) \in Nat /\ cursor[k] + Len(Chunk(k)) <= Len(log[k])
<1> DEFINE n == IF Backlog(k) < BatchSize THEN Backlog(k) ELSE BatchSize
<1>1. /\ cursor[k] \in Nat /\ Len(log[k]) \in Nat /\ cursor[k] <= Len(log[k])
      /\ BatchSize \in Nat
  BY ExtractorAssumption, LenProperties DEF BusOK
<1>2. n \in Nat /\ cursor[k] + n <= Len(log[k])
  BY <1>1 DEF Backlog
<1>3. Chunk(k) = [i \in 1..n |-> <<k, cursor[k] + i>>]
  BY DEF Chunk
<1> HIDE DEF n
<1>4. \A i \in 1..n : cursor[k] + i \in Nat \ {0} /\ cursor[k] + i <= Len(log[k])
  BY <1>1, <1>2
<1>5. \A i \in 1..n : <<k, cursor[k] + i>> \in Streamed
  BY <1>4 DEF Streamed, Entries
<1>6. Chunk(k) \in Seq(Streamed) /\ Len(Chunk(k)) = n
  BY <1>2, <1>3, <1>5
<1> QED
  BY <1>2, <1>6

LEMMA TypeLoop ==
  ASSUME TypeInv, Start \/ Fetch \/ Take \/ Check \/ Mark \/ Ack
  PROVE  TypeInv'
<1>1. BusOK /\ TablesOK /\ PlaceOK /\ IdsOK
  BY TypeInvParts DEF PartsOK
<1> USE DEF Goto
<1>2. CASE Start
  <2>1. UNCHANGED <<log, cursor, acked, dlq, overflow, processed, tasks, created, resolved,
                    todo, entry, ids, patches, faults>> /\ pc' = "idle"
    BY <1>2 DEF Start, bus, output
  <2>2. BusOK' /\ Streamed' = Streamed
    BY <1>1, <2>1, BusKept DEF BusOK
  <2>3. PlaceOK' /\ TablesOK' /\ IdsOK'
    BY <1>1, <2>1, <2>2 DEF PlaceOK, TablesOK, IdsOK, PcStates
  <2> QED
    BY <2>2, <2>3, TypeInvParts DEF PartsOK
<1>3. CASE Fetch
  <2>1. /\ UNCHANGED <<log, acked, dlq, processed, tasks, created, resolved, pc, entry, ids,
                       patches, faults>>
        /\ pc = "idle"
        /\ todo' = (Chunk("message") \o Chunk("edited")) \o Chunk("deleted")
        /\ cursor' = [k \in Kinds |-> cursor[k] + Len(Chunk(k))]
        /\ overflow' \in BOOLEAN
    BY <1>1, <1>3 DEF Fetch, NextEntries, output, BusOK
  <2>2. \A k \in Kinds : Chunk(k) \in Seq(Streamed) /\ Len(Chunk(k)) \in Nat
                        /\ cursor[k] + Len(Chunk(k)) <= Len(log[k])
    BY <1>1, ChunkType
  <2>3. "message" \in Kinds /\ "edited" \in Kinds /\ "deleted" \in Kinds
    BY DEF Kinds
  <2>4. todo' \in Seq(Streamed)
    <3>1. Chunk("message") \o Chunk("edited") \in Seq(Streamed)
      BY <2>2, <2>3, ConcatProperties
    <3> QED
      BY <2>1, <2>2, <2>3, <3>1, ConcatProperties
  <2>5. BusOK' /\ Streamed' = Streamed
    <3>1. cursor' \in [Kinds -> Nat] /\ \A k \in Kinds : cursor'[k] <= Len(log[k])
      BY <1>1, <2>1, <2>2 DEF BusOK
    <3> QED
      BY <1>1, <2>1, <3>1 DEF BusOK, Streamed
  <2>6. PlaceOK' /\ TablesOK' /\ IdsOK'
    BY <1>1, <2>1, <2>4, <2>5 DEF PlaceOK, TablesOK, IdsOK
  <2> QED
    BY <2>5, <2>6, TypeInvParts DEF PartsOK
<1>4. CASE Take
  <2>1. /\ UNCHANGED <<log, cursor, acked, dlq, overflow, processed, tasks, created, resolved,
                       ids, patches, faults>>
        /\ pc' = "check" /\ todo # <<>> /\ entry' = Head(todo) /\ todo' = Tail(todo)
    BY <1>4 DEF Take, bus, output
  <2>2. BusOK' /\ Streamed' = Streamed
    BY <1>1, <2>1, BusKept DEF BusOK
  <2>3. Head(todo) \in Streamed /\ Tail(todo) \in Seq(Streamed)
    BY <1>1, <2>1, TailElements DEF PlaceOK
  <2>4. Streamed \subseteq Entries
    BY DEF Streamed
  <2>5. PlaceOK' /\ TablesOK' /\ IdsOK'
    BY <1>1, <2>1, <2>2, <2>3, <2>4 DEF PlaceOK, TablesOK, IdsOK, PcStates
  <2> QED
    BY <2>2, <2>5, TypeInvParts DEF PartsOK
<1>5. CASE Check
  <2>1. /\ UNCHANGED <<log, cursor, acked, dlq, overflow, processed, tasks, created, resolved,
                       todo, entry, ids, patches, faults>>
        /\ pc = "check"
    BY <1>5 DEF Check, bus, output
  <2>2. event \in Events /\ Kind[event] = entry[1] /\ entry[1] \in Kinds
    BY <1>1, <2>1, EventType
  <2>3. \/ pc' = "ack"
        \/ pc' = "find" /\ entry[1] # "deleted"
        \/ pc' = "drop" /\ entry[1] = "deleted"
        \/ pc' = "resolve" /\ entry[1] = "message"
    <3>1. pc' = IF Empty(event) \/ event \in processed THEN "ack"
                ELSE CASE entry[1] = "edited" -> "find"
                       [] entry[1] = "deleted" -> "drop"
                       [] entry[1] = "message" ->
                            IF event \in Resolving THEN "resolve" ELSE "find"
      BY <1>5, <2>2 DEF Check
    <3> HIDE DEF event
    <3>2. CASE entry[1] = "edited"
      BY <3>1, <3>2
    <3>3. CASE entry[1] = "deleted"
      BY <3>1, <3>3
    <3>4. CASE entry[1] = "message"
      BY <3>1, <3>4
    <3> QED
      BY <2>2, <3>2, <3>3, <3>4 DEF Kinds
  <2>4. BusOK' /\ Streamed' = Streamed
    BY <1>1, <2>1, BusKept DEF BusOK
  <2>5. PlaceOK' /\ TablesOK' /\ IdsOK'
    BY <1>1, <2>1, <2>3, <2>4 DEF PlaceOK, TablesOK, IdsOK, PcStates
  <2> QED
    BY <2>4, <2>5, TypeInvParts DEF PartsOK
<1>6. CASE Mark
  <2>1. /\ UNCHANGED <<log, cursor, acked, dlq, overflow, tasks, created, resolved, todo, entry,
                       ids, patches, faults>>
        /\ pc = "mark" /\ pc' = "ack" /\ processed' = processed \cup {event}
    BY <1>6 DEF Mark, bus, output
  <2>2. event \in Events
    BY <1>1, <2>1, EventType
  <2>3. BusOK' /\ Streamed' = Streamed
    BY <1>1, <2>1, BusKept DEF BusOK
  <2>4. PlaceOK' /\ TablesOK' /\ IdsOK'
    BY <1>1, <2>1, <2>2, <2>3 DEF PlaceOK, TablesOK, IdsOK, PcStates
  <2> QED
    BY <2>3, <2>4, TypeInvParts DEF PartsOK
<1>7. CASE Ack
  <2>1. /\ UNCHANGED <<log, cursor, dlq, overflow, processed, tasks, created, resolved, todo,
                       patches, faults>>
        /\ pc = "ack" /\ pc' = "idle" /\ acked' = acked \cup {entry}
        /\ entry' = <<>> /\ ids' = <<>>
    BY <1>7 DEF Ack, output
  <2>2. acked' \subseteq Entries
    BY <1>1, <2>1 DEF BusOK, PlaceOK, Streamed
  <2>3. BusOK' /\ Streamed' = Streamed
    BY <1>1, <2>1, <2>2, BusKept DEF BusOK
  <2>4. PlaceOK' /\ TablesOK' /\ IdsOK'
    BY <1>1, <2>1, <2>3 DEF PlaceOK, TablesOK, IdsOK, PcStates, Elements
  <2> QED
    BY <2>3, <2>4, TypeInvParts DEF PartsOK
<1> QED
  BY <1>2, <1>3, <1>4, <1>5, <1>6, <1>7

\* The message in hand.
LEMMA HandRef ==
  ASSUME BusOK, PlaceOK, pc \in {"create", "find"}
  PROVE  event \in Events /\ ref \in Messages
<1>1. event \in Events /\ Kind[event] = entry[1]
  BY EventType
<1>2. entry[1] # "deleted"
  BY DEF PlaceOK
<1> QED
  BY <1>1, <1>2, RefType DEF ref

\* A list of one row.
LEMMA OneRow ==
  ASSUME NEW t \in Nat \ {0}
  PROVE  /\ <<t>> \in Seq(Nat \ {0}) /\ <<t>> # <<>> /\ Elements(<<t>>) = {t} /\ <<t>>[1] = t
<1>1. <<t>> \in Seq(Nat \ {0}) /\ DOMAIN <<t>> = {1} /\ <<t>>[1] = t
  OBVIOUS
<1>2. Elements(<<t>>) = {t}
  BY <1>1 DEF Elements
<1> QED
  BY <1>1, <1>2

\* The rows are numbered from 1.
LEMMA RowNumbers ==
  ASSUME tasks \in Seq(TaskRows)
  PROVE  Len(tasks) \in Nat /\ DOMAIN tasks = 1..Len(tasks) /\ DOMAIN tasks \subseteq Nat \ {0}
BY LenProperties

\* The steps of the handlers: all but the bus, the table's rows and the place.
HandlerStep ==
  /\ UNCHANGED <<log, cursor, acked, dlq, overflow, processed, todo, entry, patches, faults>>
  /\ pc \notin {"off", "idle"}

LEMMA TypeHandler ==
  ASSUME TypeInv, HandlerStep,
         tasks' \in Seq(TaskRows), created' \in Seq(Nat \ {0}),
         resolved' \in Seq((Nat \ {0}) \X {"done", "dropped"}),
         ids' \in Seq(Nat \ {0}), Elements(ids') \subseteq DOMAIN tasks',
         \/ pc' = "mark"
         \/ pc' = "find" /\ entry[1] = "message"
         \/ pc' = "create" /\ entry[1] = "message"
         \/ pc' = "created" /\ entry[1] = "message" /\ ids' # <<>>
         \/ pc' = "announce" /\ entry[1] # "edited" /\ ids' # <<>>
         \/ pc' = "update" /\ entry[1] = "edited" /\ ids' # <<>>
  PROVE  TypeInv'
<1>1. BusOK /\ TablesOK /\ PlaceOK /\ IdsOK
  BY TypeInvParts DEF PartsOK
<1>2. BusOK' /\ Streamed' = Streamed
  BY <1>1, BusKept DEF BusOK, HandlerStep
<1>3. PlaceOK'
  BY <1>1, <1>2 DEF PlaceOK, PcStates, HandlerStep
<1>4. TablesOK' /\ IdsOK'
  BY <1>1 DEF TablesOK, IdsOK, HandlerStep
<1> QED
  BY <1>2, <1>3, <1>4, TypeInvParts DEF PartsOK

\* What Resolve does.
Replied == IF ReplyTo[event] = None THEN {} ELSE OpenRows({ReplyTo[event]})

LEMMA ResolveEffect ==
  ASSUME TypeInv, Resolve
  PROVE  /\ HandlerStep /\ pc = "resolve" /\ entry[1] = "message" /\ event \in Events
         /\ UNCHANGED <<created, resolved>>
         /\ tasks' \in Seq(TaskRows) /\ RowsSet(Replied, "done", "service")
         /\ Replied \subseteq DOMAIN tasks
         /\ \/ Replied = {} /\ pc' = "find" /\ ids' = ids
            \/ pc' = "announce" /\ \E t \in Replied : ids' = <<t>>
<1>1. BusOK /\ TablesOK /\ PlaceOK /\ IdsOK
  BY TypeInvParts DEF PartsOK
<1>2. /\ HandlerStep /\ pc = "resolve" /\ entry[1] = "message"
      /\ UNCHANGED <<created, resolved>> /\ tasks' = Closed(Replied, "done")
  BY <1>1 DEF Resolve, Replied, Goto, HandlerStep, bus, output, PlaceOK
<1>3. Replied \subseteq DOMAIN tasks
  BY DEF Replied, OpenRows
<1>4. tasks' \in Seq(TaskRows) /\ RowsSet(Replied, "done", "service")
  BY <1>1, <1>2, <1>3, ClosedRows DEF TablesOK, Statuses
<1>5. event \in Events
  BY <1>1, <1>2, EventType
<1>6. /\ pc' = IF Replied = {} THEN "find" ELSE "announce"
      /\ (Replied = {} /\ UNCHANGED ids) \/ \E t \in Replied : ids' = <<t>>
  BY DEF Resolve, Replied, Goto
<1> QED
  BY <1>2, <1>3, <1>4, <1>5, <1>6

\* What Find does.
LEMMA FindEffect ==
  ASSUME TypeInv, Find
  PROVE  /\ HandlerStep /\ pc = "find"
         /\ UNCHANGED <<tasks, created, resolved>>
         /\ \/ pc' = "mark"
            \/ pc' = "create" /\ entry[1] = "message" /\ Rows(ref) = {}
            \/ pc' = "update" /\ entry[1] = "edited" /\ ids' # <<>>
         /\ ids' \in Seq(Nat \ {0}) /\ Elements(ids') \subseteq DOMAIN tasks
<1>1. BusOK /\ TablesOK /\ PlaceOK /\ IdsOK
  BY TypeInvParts DEF PartsOK
<1>2. HandlerStep /\ pc = "find" /\ entry[1] # "deleted" /\ UNCHANGED <<tasks, created, resolved>>
  BY <1>1 DEF Find, Goto, HandlerStep, bus, output, PlaceOK
<1>3. event \in Events /\ Kind[event] = entry[1] /\ entry[1] \in Kinds
  BY <1>1, <1>2, EventType
<1>4. IF Rows(ref) = {} THEN FindTask(ref) = 0 ELSE FindTask(ref) \in Rows(ref) /\ FindTask(ref) # 0
  BY <1>1, FindTaskRow DEF TablesOK
<1> HIDE DEF event
<1>5. \/ entry[1] = "message" /\ ids' = <<>> /\ (pc' = "mark" \/ (pc' = "create" /\ Rows(ref) = {}))
      \/ ids' = <<>> /\ pc' = "mark"
      \/ entry[1] = "edited" /\ FindTask(ref) \in Rows(ref) /\ ids' = <<FindTask(ref)>>
         /\ (pc' = "mark" \/ pc' = "update")
  <2>1. CASE entry[1] = "message"
    BY <1>3, <1>4, <2>1 DEF Find, Goto
  <2>2. CASE entry[1] = "edited" /\ FindTask(ref) = 0
    BY <1>3, <2>2 DEF Find, Goto
  <2>3. CASE entry[1] = "edited" /\ FindTask(ref) # 0
    BY <1>3, <1>4, <2>3 DEF Find, Goto
  <2> QED
    BY <1>2, <1>3, <2>1, <2>2, <2>3 DEF Kinds
<1>6. Elements(<<>>) = {} /\ <<>> \in Seq(Nat \ {0})
  BY DEF Elements
<1>7. ASSUME NEW t \in Rows(ref)
      PROVE  <<t>> \in Seq(Nat \ {0}) /\ <<t>> # <<>> /\ Elements(<<t>>) \subseteq DOMAIN tasks
  <2>1. t \in DOMAIN tasks /\ t \in Nat \ {0}
    BY <1>1, RowNumbers DEF TablesOK, Rows
  <2> QED
    BY <2>1, OneRow
<1> QED
  BY <1>2, <1>5, <1>6, <1>7

\* What Create does.
LEMMA CreateEffect ==
  ASSUME TypeInv, Create
  PROVE  /\ HandlerStep /\ pc = "create" /\ pc' = "created" /\ entry[1] = "message"
         /\ UNCHANGED <<created, resolved>>
         /\ tasks' \in Seq(TaskRows) /\ RowAdded(ref, "task-extractor")
         /\ ids' = <<Len(tasks) + 1>> /\ Len(tasks) + 1 \in Nat \ {0}
<1>1. BusOK /\ TablesOK /\ PlaceOK /\ IdsOK
  BY TypeInvParts DEF PartsOK
<1>2. /\ HandlerStep /\ pc = "create" /\ pc' = "created" /\ entry[1] = "message"
      /\ UNCHANGED <<created, resolved>> /\ ids' = <<Len(tasks) + 1>>
  BY <1>1 DEF Create, Goto, HandlerStep, bus, output, PlaceOK
<1>3. event \in Events /\ ref \in Messages
  BY <1>1, <1>2, HandRef
<1>4. tasks' \in Seq(TaskRows) /\ RowAdded(ref, "task-extractor")
  BY <1>1, <1>3, CreateRows DEF TablesOK
<1>5. Len(tasks) + 1 \in Nat \ {0}
  BY <1>1, RowNumbers DEF TablesOK
<1> QED
  BY <1>2, <1>4, <1>5

\* What AnnounceCreated does.
LEMMA AnnounceCreatedEffect ==
  ASSUME TypeInv, AnnounceCreated
  PROVE  /\ HandlerStep /\ pc = "created" /\ pc' = "mark" /\ ids' = <<>>
         /\ UNCHANGED <<tasks, resolved>>
         /\ created' = Append(created, ids[1]) /\ ids[1] \in Nat \ {0}
         /\ created' \in Seq(Nat \ {0})
<1>1. BusOK /\ TablesOK /\ PlaceOK /\ IdsOK
  BY TypeInvParts DEF PartsOK
<1>2. /\ HandlerStep /\ pc = "created" /\ pc' = "mark" /\ ids' = <<>>
      /\ UNCHANGED <<tasks, resolved>> /\ created' = Append(created, ids[1])
  BY DEF AnnounceCreated, Goto, HandlerStep, bus
<1>3. ids \in Seq(Nat \ {0}) /\ ids # <<>>
  BY <1>1, <1>2 DEF IdsOK
<1>4. ids[1] \in Nat \ {0}
  BY <1>3, TailElements
<1> QED
  BY <1>1, <1>2, <1>4, AppendKeeps DEF TablesOK

\* What Update does.
LEMMA UpdateEffect ==
  ASSUME TypeInv, Update
  PROVE  /\ HandlerStep /\ pc = "update" /\ pc' = "mark" /\ ids' = <<>>
         /\ UNCHANGED <<created, resolved>>
         /\ tasks' \in Seq(TaskRows) /\ RowsKept
<1>1. BusOK /\ TablesOK /\ PlaceOK /\ IdsOK
  BY TypeInvParts DEF PartsOK
<1>2. /\ HandlerStep /\ pc = "update" /\ pc' = "mark" /\ ids' = <<>>
      /\ UNCHANGED <<created, resolved>>
  BY DEF Update, Goto, HandlerStep, bus, output
<1>3. event \in Events
  BY <1>1, <1>2, EventType
<1> QED
  BY <1>1, <1>2, <1>3, UpdateRows DEF TablesOK

\* What Drop does.
LEMMA DropEffect ==
  ASSUME TypeInv, Drop
  PROVE  LET hit == OpenRows(Refs[event])
         IN  /\ HandlerStep /\ pc = "drop" /\ entry[1] = "deleted" /\ Kind[event] = "deleted"
             /\ UNCHANGED <<created, resolved>>
             /\ tasks' \in Seq(TaskRows) /\ RowsSet(hit, "dropped", "service")
             /\ hit \subseteq DOMAIN tasks
             /\ ids' \in Seq(Nat \ {0}) /\ Elements(ids') = hit
             /\ pc' = "mark" \/ (pc' = "announce" /\ ids' # <<>>)
             /\ hit # {} => pc' = "announce"
<1> DEFINE hit == OpenRows(Refs[event])
<1>1. BusOK /\ TablesOK /\ PlaceOK /\ IdsOK
  BY TypeInvParts DEF PartsOK
<1>2. /\ HandlerStep /\ pc = "drop" /\ entry[1] = "deleted"
      /\ UNCHANGED <<created, resolved>> /\ tasks' = Closed(hit, "dropped")
      /\ ids' = InOrder(hit) /\ pc' = IF hit = {} THEN "mark" ELSE "announce"
  BY <1>1 DEF Drop, Goto, HandlerStep, bus, output, PlaceOK
<1>3. Kind[event] = "deleted"
  BY <1>1, <1>2, EventType
<1>4. hit \subseteq DOMAIN tasks
  BY DEF OpenRows
<1> HIDE DEF hit
<1>5. tasks' \in Seq(TaskRows) /\ RowsSet(hit, "dropped", "service")
  BY <1>1, <1>2, <1>4, ClosedRows DEF TablesOK, Statuses
<1>6. Len(tasks) \in Nat /\ hit \in SUBSET (1..Len(tasks))
  BY <1>1, <1>4, RowNumbers DEF TablesOK
<1>7. ids' \in Seq(hit) /\ Elements(ids') = hit /\ (hit # {} => ids' # <<>>)
  BY <1>2, <1>6, InOrderLists
<1>8. ids' \in Seq(Nat \ {0})
  <2>1. hit \subseteq Nat \ {0}
    BY <1>6
  <2> QED
    BY <1>7, <2>1, WiderSeq
<1>9. /\ HandlerStep /\ pc = "drop" /\ entry[1] = "deleted" /\ Kind[event] = "deleted"
      /\ UNCHANGED <<created, resolved>>
      /\ tasks' \in Seq(TaskRows) /\ RowsSet(hit, "dropped", "service")
      /\ hit \subseteq DOMAIN tasks
      /\ ids' \in Seq(Nat \ {0}) /\ Elements(ids') = hit
      /\ pc' = "mark" \/ (pc' = "announce" /\ ids' # <<>>)
      /\ hit # {} => pc' = "announce"
  BY <1>2, <1>3, <1>4, <1>5, <1>7, <1>8
<1> QED
  BY <1>9 DEF hit

\* What Announce does.
LEMMA AnnounceEffect ==
  ASSUME TypeInv, Announce
  PROVE  /\ HandlerStep /\ pc = "announce" /\ entry[1] # "edited" /\ event \in Events
         /\ UNCHANGED <<tasks, created>>
         /\ Elements(resolved') = Elements(resolved) \cup {<<ids[1], Closing>>}
         /\ resolved' \in Seq((Nat \ {0}) \X {"done", "dropped"})
         /\ ids' \in Seq(Nat \ {0}) /\ Elements(ids) = {ids[1]} \cup Elements(ids')
         /\ IF ids' = <<>> THEN pc' = "mark" ELSE pc' = "announce"
<1>1. BusOK /\ TablesOK /\ PlaceOK /\ IdsOK
  BY TypeInvParts DEF PartsOK
<1>2. /\ HandlerStep /\ pc = "announce" /\ entry[1] # "edited"
      /\ UNCHANGED <<tasks, created>> /\ ids' = Tail(ids)
      /\ resolved' = Append(resolved, <<ids[1], Closing>>)
      /\ pc' = IF Len(ids) = 1 THEN "mark" ELSE "announce"
  BY <1>1 DEF Announce, Goto, HandlerStep, bus, PlaceOK, Closing
<1>3. ids \in Seq(Nat \ {0}) /\ ids # <<>>
  BY <1>1, <1>2 DEF IdsOK
<1>4. /\ ids[1] \in Nat \ {0} /\ Tail(ids) \in Seq(Nat \ {0})
      /\ Elements(ids) = {ids[1]} \cup Elements(Tail(ids))
      /\ Len(ids) = 1 <=> Tail(ids) = <<>>
  BY <1>3, TailElements
<1>5. <<ids[1], Closing>> \in (Nat \ {0}) \X {"done", "dropped"}
  BY <1>4 DEF Closing
<1>6. event \in Events
  BY <1>1, <1>2, EventType
<1>7. /\ resolved' \in Seq((Nat \ {0}) \X {"done", "dropped"})
      /\ Elements(resolved') = Elements(resolved) \cup {<<ids[1], Closing>>}
  <2> DEFINE D == (Nat \ {0}) \X {"done", "dropped"}
             x == <<ids[1], Closing>>
  <2>1. resolved \in Seq(D) /\ x \in D /\ resolved' = Append(resolved, x)
    BY <1>1, <1>2, <1>5 DEF TablesOK
  <2> HIDE DEF D, x
  <2>2. resolved' \in Seq(D) /\ Elements(resolved') = Elements(resolved) \cup {x}
    <3>1. Append(resolved, x) \in Seq(D) /\ Elements(Append(resolved, x)) = Elements(resolved) \cup {x}
      BY <2>1, AppendKeeps
    <3>2. Elements(resolved') = Elements(Append(resolved, x))
      BY <2>1 DEF Elements
    <3> QED
      BY <2>1, <3>1, <3>2
  <2> QED
    BY <2>2 DEF D, x
<1> QED
  BY <1>2, <1>4, <1>6, <1>7

LEMMA TypeHandlers ==
  ASSUME TypeInv, Resolve \/ Find \/ Create \/ AnnounceCreated \/ Update \/ Drop \/ Announce
  PROVE  TypeInv'
<1>1. BusOK /\ TablesOK /\ PlaceOK /\ IdsOK
  BY TypeInvParts DEF PartsOK
<1>2. Elements(<<>>) = {} /\ <<>> \in Seq(Nat \ {0})
  BY DEF Elements
<1>3. CASE Resolve
  <2>1. /\ HandlerStep /\ entry[1] = "message" /\ UNCHANGED <<created, resolved>>
        /\ tasks' \in Seq(TaskRows) /\ DOMAIN tasks' = DOMAIN tasks
        /\ Replied \subseteq DOMAIN tasks
        /\ \/ Replied = {} /\ pc' = "find" /\ ids' = ids
           \/ pc' = "announce" /\ \E t \in Replied : ids' = <<t>>
    BY <1>3, ResolveEffect DEF RowsSet
  <2>2. ASSUME NEW t \in Replied
        PROVE  <<t>> \in Seq(Nat \ {0}) /\ <<t>> # <<>> /\ Elements(<<t>>) \subseteq DOMAIN tasks
    <3>1. t \in DOMAIN tasks /\ t \in Nat \ {0}
      BY <1>1, <2>1, RowNumbers DEF TablesOK
    <3> QED
      BY <3>1, OneRow
  <2>3. ids' \in Seq(Nat \ {0}) /\ Elements(ids') \subseteq DOMAIN tasks'
        /\ (pc' = "find" \/ (pc' = "announce" /\ ids' # <<>>))
    BY <1>1, <2>1, <2>2 DEF IdsOK
  <2> QED
    BY <1>1, <2>1, <2>3, TypeHandler DEF TablesOK
<1>4. CASE Find
  BY <1>1, <1>4, FindEffect, TypeHandler DEF TablesOK
<1>5. CASE Create
  <2>1. /\ HandlerStep /\ pc' = "created" /\ entry[1] = "message" /\ UNCHANGED <<created, resolved>>
        /\ tasks' \in Seq(TaskRows) /\ DOMAIN tasks' = DOMAIN tasks \cup {Len(tasks) + 1}
        /\ ids' = <<Len(tasks) + 1>> /\ Len(tasks) + 1 \in Nat \ {0}
    BY <1>5, CreateEffect DEF RowAdded
  <2>2. ids' \in Seq(Nat \ {0}) /\ ids' # <<>> /\ Elements(ids') = {Len(tasks) + 1}
    BY <2>1, OneRow
  <2> QED
    BY <1>1, <2>1, <2>2, TypeHandler DEF TablesOK
<1>6. CASE AnnounceCreated
  BY <1>1, <1>2, <1>6, AnnounceCreatedEffect, TypeHandler DEF TablesOK
<1>7. CASE Update
  BY <1>1, <1>2, <1>7, UpdateEffect, TypeHandler DEF TablesOK
<1>8. CASE Drop
  <2>1. /\ HandlerStep /\ entry[1] = "deleted" /\ UNCHANGED <<created, resolved>>
        /\ tasks' \in Seq(TaskRows) /\ DOMAIN tasks' = DOMAIN tasks
        /\ ids' \in Seq(Nat \ {0}) /\ Elements(ids') \subseteq DOMAIN tasks
        /\ pc' = "mark" \/ (pc' = "announce" /\ ids' # <<>>)
    BY <1>8, DropEffect DEF RowsSet
  <2> QED
    BY <1>1, <2>1, TypeHandler DEF TablesOK
<1>9. CASE Announce
  <2>1. /\ HandlerStep /\ entry[1] # "edited" /\ UNCHANGED <<tasks, created>>
        /\ resolved' \in Seq((Nat \ {0}) \X {"done", "dropped"})
        /\ ids' \in Seq(Nat \ {0}) /\ Elements(ids') \subseteq Elements(ids)
        /\ IF ids' = <<>> THEN pc' = "mark" ELSE pc' = "announce"
    BY <1>9, AnnounceEffect
  <2> QED
    BY <1>1, <2>1, TypeHandler DEF TablesOK, IdsOK
<1> QED
  BY <1>3, <1>4, <1>5, <1>6, <1>7, <1>8, <1>9

\* What a fault does.
LEMMA FaultEffect ==
  ASSUME TypeInv, Error \/ Crash
  PROVE  /\ UNCHANGED <<log, cursor, overflow, processed, tasks, created, resolved, patches>>
         /\ ids' = <<>> /\ pc' \in {"ack", "off"} /\ pc # "off"
         /\ FaultsSoFar \in Nat /\ FaultsSoFar' = FaultsSoFar + 1
         /\ faults' \in [FaultKinds -> Nat]
         /\ dlq' \subseteq Events /\ acked' \subseteq Entries
         /\ todo' \in {todo, <<>>} /\ entry' \in {entry, <<>>}
         /\ pc' = "ack" => entry' = entry /\ pc \notin {"off", "idle", "ack"}
<1>1. BusOK /\ TablesOK /\ PlaceOK /\ IdsOK
  BY TypeInvParts DEF PartsOK
<1>2. faults["error"] \in Nat /\ faults["crash"] \in Nat /\ faults \in [FaultKinds -> Nat]
  BY <1>1 DEF TablesOK, FaultKinds
<1>3. ASSUME NEW k \in FaultKinds, faults' = [faults EXCEPT ![k] = @ + 1]
      PROVE  /\ FaultsSoFar \in Nat /\ FaultsSoFar' = FaultsSoFar + 1
             /\ faults' \in [FaultKinds -> Nat]
  <2>1. faults[k] \in Nat
    BY <1>2
  <2>2. faults' \in [FaultKinds -> Nat]
    BY <1>2, <1>3, <2>1
  <2> QED
    BY <1>2, <1>3, <2>2 DEF FaultsSoFar, FaultKinds
<1>4. CASE Error
  <2>1. event \in Events
    BY <1>1, <1>4, EventType DEF Error, Handling
  <2>2. dlq' \subseteq Events
    BY <1>1, <1>4, <2>1 DEF Error, BusOK
  <2> QED
    BY <1>1, <1>3, <1>4, <2>2 DEF Error, Handling, Strike, FaultKinds, output, BusOK
<1>5. CASE Crash
  <2>1. acked' \subseteq Entries
    BY <1>1, <1>5 DEF Crash, BusOK, PlaceOK
  <2> QED
    BY <1>1, <1>3, <1>5, <2>1 DEF Crash, Strike, FaultKinds, output, BusOK
<1> QED
  BY <1>4, <1>5

LEMMA TypeFaults ==
  ASSUME TypeInv, Error \/ Crash
  PROVE  TypeInv'
<1>1. BusOK /\ TablesOK /\ PlaceOK /\ IdsOK
  BY TypeInvParts DEF PartsOK
<1>2. /\ UNCHANGED <<log, cursor, overflow, processed, tasks, created, resolved, patches>>
      /\ ids' = <<>> /\ pc' \in {"ack", "off"} /\ pc # "off"
      /\ faults' \in [FaultKinds -> Nat]
      /\ dlq' \subseteq Events /\ acked' \subseteq Entries
      /\ todo' \in {todo, <<>>} /\ entry' \in {entry, <<>>}
      /\ pc' = "ack" => entry' = entry /\ pc \notin {"off", "idle", "ack"}
  BY FaultEffect
<1>3. BusOK' /\ Streamed' = Streamed
  BY <1>1, <1>2, BusKept
<1>4. todo' \in Seq(Streamed)
  <2>1. todo \in Seq(Streamed) /\ <<>> \in Seq(Streamed)
    BY <1>1 DEF PlaceOK
  <2> QED
    BY <1>2, <2>1
<1>5. PlaceOK'
  BY <1>1, <1>2, <1>3, <1>4 DEF PlaceOK, PcStates
<1>6. TablesOK' /\ IdsOK'
  BY <1>1, <1>2 DEF TablesOK, IdsOK, Elements
<1> QED
  BY <1>3, <1>5, <1>6, TypeInvParts DEF PartsOK

LEMMA TypeInit == Init => TypeInv
<1> SUFFICES ASSUME Init PROVE TypeInv
  OBVIOUS
<1>1. BusOK
  <2>1. /\ log \in [Kinds -> Seq(Events)] /\ cursor \in [Kinds -> Nat]
        /\ \A k \in Kinds : log[k] = <<>> /\ cursor[k] = 0
    BY DEF Init
  <2>2. DOMAIN <<>> = {} /\ Len(<<>>) = 0
    OBVIOUS
  <2>3. acked = {} /\ dlq = {} /\ overflow = FALSE
    BY DEF Init
  <2>4. ASSUME NEW k \in Kinds
        PROVE  /\ \A i \in DOMAIN log[k] : Kind[log[k][i]] = k
               /\ cursor[k] <= Len(log[k])
    BY <2>1, <2>2
  <2> QED
    BY <2>1, <2>3, <2>4 DEF BusOK
<1>3. TablesOK
  BY DEF Init, TablesOK
<1>2. PlaceOK /\ IdsOK
  BY DEF Init, PlaceOK, IdsOK, PcStates, Elements
<1> QED
  BY <1>1, <1>2, <1>3, TypeInvParts DEF PartsOK

LEMMA TypeStep == TypeInv /\ [Next]_vars => TypeInv'
<1> SUFFICES ASSUME TypeInv, [Next]_vars PROVE TypeInv'
  OBVIOUS
<1>1. CASE Environment
  BY <1>1, TypePublish, TypeTables DEF Environment
<1>2. CASE Consume
  BY <1>2, TypeLoop, TypeHandlers DEF Consume
<1>3. CASE Error \/ Crash
  BY <1>3, TypeFaults
<1>4. CASE UNCHANGED vars
  <2>1. BusOK /\ TablesOK /\ PlaceOK /\ IdsOK
    BY TypeInvParts DEF PartsOK
  <2>2. BusOK' /\ TablesOK' /\ PlaceOK' /\ IdsOK'
    BY <1>4, <2>1 DEF vars, bus, output, BusOK, TablesOK, PlaceOK, IdsOK, Streamed
  <2> QED
    BY <2>2, TypeInvParts DEF PartsOK
<1> QED
  BY <1>1, <1>2, <1>3, <1>4 DEF Next

-----------------------------------------------------------------------------
(***************************************************************************)
(* The steps, by what the invariant sees of them.                          *)
(***************************************************************************)

\* The consumer stands where it stood, with the same event.
SamePlace ==
  /\ UNCHANGED <<created, resolved, faults, pc, ids>>
  /\ pc \notin {"off", "idle"} => event' = event

\* It moves between steps that have nothing under way.
Elsewhere ==
  /\ UNCHANGED <<created, resolved, faults>>
  /\ {pc, pc'} \cap {"create", "created", "announce"} = {}

Handlers ==
  Resolve \/ Find \/ Create \/ AnnounceCreated \/ Update \/ Drop \/ Announce

LEMMA NextCases ==
  ASSUME TypeInv, [Next]_vars
  PROVE  \/ UNCHANGED tasks /\ (SamePlace \/ Elsewhere)
         \/ SamePlace /\ \E m \in Projected : ProjectTask(m)
         \/ SamePlace /\ \E t \in DOMAIN tasks, s \in Statuses : PatchTask(t, s)
         \/ Handlers
         \/ Error \/ Crash
<1>1. BusOK /\ PlaceOK
  BY TypeInvParts DEF PartsOK
<1>2. CASE \E e \in Events : Publish(e) \/ Requeue(e)
  <2>1. PICK e \in Events : Publish(e) \/ Requeue(e)
    BY <1>2
  <2>2. /\ log' = [log EXCEPT ![Kind[e]] = Append(@, e)]
        /\ UNCHANGED <<tasks, created, resolved, faults, pc, ids, entry>>
    BY <2>1 DEF Publish, Requeue, output
  <2>3. \A k \in Kinds : \A i \in DOMAIN log[k] : log'[k][i] = log[k][i]
    BY <1>1, <2>2, StreamsKept
  <2>4. pc \notin {"off", "idle"} => event' = event
    BY <1>1, <2>2, <2>3, EventType DEF event
  <2> QED
    BY <2>2, <2>4 DEF SamePlace
<1>3. CASE \/ \E m \in Projected : ProjectTask(m)
           \/ \E t \in DOMAIN tasks, s \in Statuses : PatchTask(t, s)
  BY <1>3 DEF ProjectTask, PatchTask, SamePlace, bus, output, event
<1>4. CASE Start \/ Take \/ Check \/ Mark \/ Ack
  <2>1. UNCHANGED <<tasks, created, resolved, faults>>
    BY <1>4 DEF Start, Take, Check, Mark, Ack, output
  <2>2. /\ pc \in {"off", "idle", "check", "mark", "ack"}
        /\ pc' \in {"idle", "check", "ack", "find", "drop", "resolve"}
    <3>1. CASE Check
      <4>1. pc = "check" /\ event \in Events /\ Kind[event] \in Kinds
        BY <1>1, <3>1, EventType DEF Check, Goto
      <4> HIDE DEF event
      <4> QED
        BY <3>1, <4>1 DEF Check, Goto, Kinds
    <3>2. CASE Start \/ Take \/ Mark \/ Ack
      BY <3>2 DEF Start, Take, Mark, Ack, Goto
    <3> QED
      BY <1>4, <3>1, <3>2
  <2> QED
    BY <2>1, <2>2 DEF Elsewhere
<1>5. CASE Fetch \/ UNCHANGED vars
  BY <1>5 DEF Fetch, vars, bus, output, event, SamePlace
<1> QED
  BY <1>2, <1>3, <1>4, <1>5 DEF Next, Environment, Consume, Handlers

\* A handler's step leaves the event in hand, and the faults.
LEMMA HandlerKeeps ==
  ASSUME HandlerStep
  PROVE  event' = event /\ faults' = faults /\ FaultsSoFar' = FaultsSoFar /\ ref' = ref
BY DEF HandlerStep, event, ref, FaultsSoFar

\* The rows have the messages and the makers they had.
SameRows ==
  /\ DOMAIN tasks' = DOMAIN tasks
  /\ \A t \in DOMAIN tasks : tasks'[t].ref = tasks[t].ref /\ tasks'[t].by = tasks[t].by

LEMMA SameRowsFrom ==
  /\ RowsKept => SameRows
  /\ \A S \in SUBSET DOMAIN tasks : \A s, b : RowsSet(S, s, b) => SameRows
  /\ UNCHANGED tasks => SameRows /\ RowsKept
BY DEF RowsKept, RowKept, SameRows, RowsSet

-----------------------------------------------------------------------------
(***************************************************************************)
(* One task per message.                                                   *)
(***************************************************************************)

\* Nothing is inserted.
LEMMA SingleKept ==
  ASSUME Single, SameRows, pc' = "create" => pc = "create" /\ ref' = ref
  PROVE  Single'
<1>1. OneTaskPerMessage'
  BY DEF Single, SameRows, OneTaskPerMessage
<1>2. ASSUME pc' = "create", NEW t \in DOMAIN tasks', tasks'[t].ref = ref'
      PROVE  tasks'[t].by = "memory-projector"
  BY <1>2 DEF Single, SameRows, Rows
<1> QED
  BY <1>1, <1>2 DEF Single, Rows

LEMMA SingleStep ==
  ASSUME TypeInv, Single, [Next]_vars
  PROVE  Single'
<1>1. BusOK /\ PlaceOK /\ TablesOK /\ IdsOK
  BY TypeInvParts DEF PartsOK
<1>2. tasks \in Seq(TaskRows)
  BY <1>1 DEF TablesOK
<1>3. SamePlace /\ pc = "create" => ref' = ref
  BY DEF SamePlace, ref
<1>4. CASE UNCHANGED tasks /\ (SamePlace \/ Elsewhere)
  <2>1. SameRows
    BY <1>4, SameRowsFrom
  <2>2. pc' = "create" => pc = "create" /\ ref' = ref
    BY <1>3, <1>4 DEF SamePlace, Elsewhere
  <2> QED
    BY <2>1, <2>2, SingleKept
<1>5. CASE SamePlace /\ \E m \in Projected : ProjectTask(m)
  <2>1. PICK m \in Projected : ProjectTask(m)
    BY <1>5
  <2>2. RowsKept \/ (Rows(m) = {} /\ RowAdded(m, "memory-projector"))
    BY <1>2, <2>1, ProjectTaskRows
  <2>3. pc' = "create" => pc = "create" /\ ref' = ref
    BY <1>3, <1>5 DEF SamePlace
  <2>4. CASE RowsKept
    BY <2>3, <2>4, SameRowsFrom, SingleKept
  <2>5. CASE Rows(m) = {} /\ RowAdded(m, "memory-projector")
    <3>1. OneTaskPerMessage'
      BY <2>5 DEF RowAdded, RowKept, Rows, Single, OneTaskPerMessage
    <3>2. ASSUME pc' = "create", NEW t \in DOMAIN tasks', tasks'[t].ref = ref'
          PROVE  tasks'[t].by = "memory-projector"
      BY <2>3, <2>5, <3>2 DEF RowAdded, RowKept, Rows, Single
    <3> QED
      BY <3>1, <3>2 DEF Single, Rows
  <2> QED
    BY <2>2, <2>4, <2>5
<1>6. CASE SamePlace /\ \E t \in DOMAIN tasks, s \in Statuses : PatchTask(t, s)
  <2>1. PICK t \in DOMAIN tasks, s \in Statuses : PatchTask(t, s)
    BY <1>6
  <2>2. RowsSet({t}, s, "admin")
    BY <1>2, <2>1, PatchTaskRows
  <2>3. SameRows
    BY <2>2, SameRowsFrom
  <2> QED
    BY <1>3, <1>6, <2>3, SingleKept DEF SamePlace
<1>7. CASE Resolve
  <2>1. RowsSet(Replied, "done", "service") /\ Replied \subseteq DOMAIN tasks /\ pc' # "create"
    BY <1>7, ResolveEffect
  <2> QED
    BY <2>1, SameRowsFrom, SingleKept
<1>8. CASE Find
  <2>1. /\ HandlerStep /\ UNCHANGED tasks
        /\ pc' = "create" => Rows(ref) = {}
    BY <1>8, FindEffect
  <2>2. ref' = ref /\ Rows(ref)' = Rows(ref)
    BY <2>1, HandlerKeeps DEF Rows
  <2>3. OneTaskPerMessage'
    BY <2>1 DEF Single, OneTaskPerMessage
  <2> QED
    BY <2>1, <2>2, <2>3 DEF Single
<1>9. CASE Create
  <2>1. /\ RowAdded(ref, "task-extractor") /\ pc = "create" /\ pc' = "created"
    BY <1>9, CreateEffect
  <2>2. \A t \in DOMAIN tasks : tasks[t].ref = ref => tasks[t].by = "memory-projector"
    BY <2>1 DEF Single, Rows
  <2>3. OneTaskPerMessage'
    BY <2>1, <2>2 DEF RowAdded, RowKept, Single, OneTaskPerMessage
  <2> QED
    BY <2>1, <2>3 DEF Single
<1>10. CASE AnnounceCreated
  <2>1. UNCHANGED tasks /\ pc' # "create"
    BY <1>10, AnnounceCreatedEffect
  <2> QED
    BY <2>1, SameRowsFrom, SingleKept
<1>11. CASE Update
  <2>1. RowsKept /\ pc' # "create"
    BY <1>11, UpdateEffect
  <2> QED
    BY <2>1, SameRowsFrom, SingleKept
<1>12. CASE Drop
  <2>1. /\ RowsSet(OpenRows(Refs[event]), "dropped", "service") /\ pc' # "create"
        /\ OpenRows(Refs[event]) \in SUBSET DOMAIN tasks
    BY <1>12, DropEffect
  <2> QED
    BY <2>1, SameRowsFrom, SingleKept
<1>13. CASE Announce
  <2>1. UNCHANGED tasks /\ pc' # "create"
    BY <1>13, AnnounceEffect
  <2> QED
    BY <2>1, SameRowsFrom, SingleKept
<1>14. CASE Error \/ Crash
  <2>1. UNCHANGED tasks /\ pc' # "create"
    BY <1>14, FaultEffect
  <2> QED
    BY <2>1, SameRowsFrom, SingleKept
<1> QED
  BY <1>4, <1>5, <1>6, <1>7, <1>8, <1>9, <1>10, <1>11, <1>12, <1>13, <1>14, NextCases DEF Handlers

-----------------------------------------------------------------------------
(***************************************************************************)
(* What is announced as created.                                           *)
(***************************************************************************)

LEMMA FiniteRows ==
  ASSUME TypeInv, NEW S \in SUBSET DOMAIN tasks
  PROVE  IsFiniteSet(S) /\ Cardinality(S) \in Nat
<1>1. Len(tasks) \in Nat /\ DOMAIN tasks = 1..Len(tasks)
  BY TypeInvParts, RowNumbers DEF PartsOK, TablesOK
<1>2. IsFiniteSet(1..Len(tasks))
  BY <1>1, FS_Interval
<1> QED
  BY <1>1, <1>2, FS_Subset, FS_CardinalityType

LEMMA FaultCount ==
  ASSUME TypeInv
  PROVE  FaultsSoFar \in Nat
BY TypeInvParts DEF PartsOK, TablesOK, FaultsSoFar, FaultKinds

\* Nothing of this service's making is inserted or announced.
LEMMA CreationKept ==
  ASSUME TypeInv, TypeInv', Creation, created' = created, Made' = Made,
         FaultsSoFar' = FaultsSoFar,
         pc' = "created" => pc = "created" /\ ids' = ids, pc = "created" => pc' = "created"
  PROVE  Creation'
<1>1. Unannounced' = Unannounced
  BY DEF Unannounced, Elements
<1>2. Elements(created)' = Elements(created)
  BY DEF Elements
<1> QED
  BY <1>1, <1>2 DEF Creation

LEMMA SameMade ==
  /\ SameRows => Made' = Made
  /\ \A m : RowAdded(m, "memory-projector") => Made' = Made
  /\ \A m : RowAdded(m, "task-extractor") => /\ Made' = Made \cup {Len(tasks) + 1}
                                           /\ Len(tasks) + 1 \notin Made
BY DEF SameRows, Made, RowAdded, RowKept

LEMMA CreationStep ==
  ASSUME TypeInv, TypeInv', Creation, [Next]_vars
  PROVE  Creation'
<1>1. BusOK /\ PlaceOK /\ TablesOK /\ IdsOK
  BY TypeInvParts DEF PartsOK
<1>2. tasks \in Seq(TaskRows)
  BY <1>1 DEF TablesOK
<1>3. SamePlace \/ Elsewhere =>
        /\ created' = created /\ FaultsSoFar' = FaultsSoFar
        /\ pc' = "created" => pc = "created" /\ ids' = ids
        /\ pc = "created" => pc' = "created"
  BY DEF SamePlace, Elsewhere, FaultsSoFar
<1>4. CASE UNCHANGED tasks /\ (SamePlace \/ Elsewhere)
  BY <1>3, <1>4, SameRowsFrom, SameMade, CreationKept
<1>5. CASE SamePlace /\ \E m \in Projected : ProjectTask(m)
  <2>1. PICK m \in Projected : ProjectTask(m)
    BY <1>5
  <2>2. RowsKept \/ RowAdded(m, "memory-projector")
    BY <1>2, <2>1, ProjectTaskRows
  <2>3. Made' = Made
    BY <2>2, SameRowsFrom, SameMade
  <2> QED
    BY <1>3, <1>5, <2>3, CreationKept
<1>6. CASE SamePlace /\ \E t \in DOMAIN tasks, s \in Statuses : PatchTask(t, s)
  <2>1. PICK t \in DOMAIN tasks, s \in Statuses : PatchTask(t, s)
    BY <1>6
  <2>2. RowsSet({t}, s, "admin")
    BY <1>2, <2>1, PatchTaskRows
  <2>3. Made' = Made
    BY <2>2, SameRowsFrom, SameMade
  <2> QED
    BY <1>3, <1>6, <2>3, CreationKept
<1>7. CASE Resolve
  <2>1. /\ RowsSet(Replied, "done", "service") /\ Replied \in SUBSET DOMAIN tasks /\ HandlerStep
        /\ created' = created /\ pc # "created" /\ pc' # "created"
    BY <1>7, ResolveEffect
  <2>2. Made' = Made
    BY <2>1, SameRowsFrom, SameMade
  <2> QED
    BY <2>1, <2>2, HandlerKeeps, CreationKept
<1>8. CASE Find
  <2>1. HandlerStep /\ UNCHANGED <<tasks, created>> /\ pc # "created" /\ pc' # "created"
    BY <1>8, FindEffect
  <2> QED
    BY <2>1, SameRowsFrom, SameMade, HandlerKeeps, CreationKept
<1>9. CASE Create
  <2> DEFINE n == Len(tasks) + 1
  <2>1. /\ RowAdded(ref, "task-extractor") /\ pc = "create" /\ pc' = "created"
        /\ created' = created /\ HandlerStep /\ ids' = <<n>>
    BY <1>9, CreateEffect
  <2>2. Made' = Made \cup {n} /\ n \notin Made
    BY <2>1, SameMade
  <2> HIDE DEF n
  <2>3. ids'[1] = n /\ Elements(created') = Elements(created) /\ Elements(created)' = Elements(created)
    BY <2>1 DEF Elements
  <2>4. Elements(created) \subseteq Made
    BY DEF Creation
  <2>5. Unannounced = Made \ Elements(created)
    BY <2>1 DEF Unannounced
  <2>6. Unannounced' = Unannounced
    BY <2>1, <2>2, <2>3, <2>4, <2>5 DEF Unannounced
  <2>7. FaultsSoFar' = FaultsSoFar
    BY <2>1, HandlerKeeps
  <2> QED
    BY <2>1, <2>2, <2>3, <2>4, <2>6, <2>7 DEF Creation
<1>10. CASE AnnounceCreated
  <2>1. /\ UNCHANGED tasks /\ pc = "created" /\ pc' = "mark" /\ HandlerStep
        /\ created' = Append(created, ids[1]) /\ ids[1] \in Nat \ {0}
    BY <1>10, AnnounceCreatedEffect
  <2>2. Made' = Made /\ FaultsSoFar' = FaultsSoFar
    BY <2>1, SameRowsFrom, SameMade, HandlerKeeps
  <2>3. /\ Len(created) \in Nat /\ DOMAIN created = 1..Len(created)
        /\ DOMAIN created' = 1..(Len(created) + 1)
        /\ \A i \in 1..Len(created) : created'[i] = created[i]
        /\ created'[Len(created) + 1] = ids[1]
        /\ Elements(created') = Elements(created) \cup {ids[1]}
    BY <1>1, <2>1, AppendKeeps DEF TablesOK
  <2>4. Elements(created)' = Elements(created')
    BY DEF Elements
  <2>5. ids[1] \in Made \ Elements(created) /\ Elements(created) \subseteq Made
    BY <2>1 DEF Creation
  <2>6. ASSUME NEW i \in DOMAIN created', NEW j \in DOMAIN created', created'[i] = created'[j]
        PROVE  i = j
    <3>1. \A k \in DOMAIN created' : k = Len(created) + 1 \/ k \in DOMAIN created
      BY <2>3
    <3>2. \A k \in DOMAIN created : created[k] # ids[1]
      BY <2>5 DEF Elements
    <3>3. i \in DOMAIN created /\ j \in DOMAIN created => i = j
      BY <2>3, <2>6 DEF Creation
    <3> QED
      BY <2>3, <2>6, <3>1, <3>2, <3>3
  <2>7. Unannounced' = Unannounced
    BY <2>1, <2>2, <2>3, <2>4, <2>5 DEF Unannounced
  <2> QED
    BY <2>1, <2>2, <2>3, <2>4, <2>5, <2>6, <2>7 DEF Creation
<1>11. CASE Update
  <2>1. RowsKept /\ HandlerStep /\ created' = created /\ pc # "created" /\ pc' # "created"
    BY <1>11, UpdateEffect
  <2> QED
    BY <2>1, SameRowsFrom, SameMade, HandlerKeeps, CreationKept
<1>12. CASE Drop
  <2>1. /\ RowsSet(OpenRows(Refs[event]), "dropped", "service") /\ HandlerStep
        /\ OpenRows(Refs[event]) \in SUBSET DOMAIN tasks
        /\ created' = created /\ pc # "created" /\ pc' # "created"
    BY <1>12, DropEffect
  <2>2. Made' = Made
    BY <2>1, SameRowsFrom, SameMade
  <2> QED
    BY <2>1, <2>2, HandlerKeeps, CreationKept
<1>13. CASE Announce
  <2>1. HandlerStep /\ UNCHANGED <<tasks, created>> /\ pc # "created" /\ pc' # "created"
    BY <1>13, AnnounceEffect
  <2> QED
    BY <2>1, SameRowsFrom, SameMade, HandlerKeeps, CreationKept
<1>14. CASE Error \/ Crash
  <2>1. /\ UNCHANGED <<tasks, created>> /\ pc' # "created"
        /\ FaultsSoFar \in Nat /\ FaultsSoFar' = FaultsSoFar + 1
    BY <1>14, FaultEffect
  <2>2. Made' = Made /\ Elements(created)' = Elements(created)
    BY <2>1, SameRowsFrom, SameMade DEF Elements
  <2>3. Unannounced' \subseteq Unannounced \cup {ids[1]}
    BY <2>1, <2>2 DEF Unannounced
  <2>4. Unannounced \subseteq DOMAIN tasks /\ Unannounced' \subseteq DOMAIN tasks'
    BY DEF Unannounced, Made
  <2>5. IsFiniteSet(Unannounced) /\ Cardinality(Unannounced) \in Nat
        /\ Cardinality(Unannounced) <= FaultsSoFar
    BY <2>4, FiniteRows DEF Creation
  <2>6. Cardinality(Unannounced') <= Cardinality(Unannounced) + 1 /\ Cardinality(Unannounced') \in Nat
    <3> DEFINE X == Unannounced
               Y == Unannounced'
    <3>1. IsFiniteSet(X) /\ Y \subseteq X \cup {ids[1]} /\ Cardinality(X) \in Nat
      BY <2>3, <2>5
    <3> HIDE DEF X, Y
    <3>2. IsFiniteSet(X \cup {ids[1]})
          /\ (Cardinality(X \cup {ids[1]}) = Cardinality(X)
              \/ Cardinality(X \cup {ids[1]}) = Cardinality(X) + 1)
      BY <3>1, FS_AddElement
    <3>3. IsFiniteSet(Y) /\ Cardinality(Y) <= Cardinality(X \cup {ids[1]})
      BY <3>1, <3>2, FS_Subset
    <3>4. Cardinality(Y) \in Nat
      BY <3>3, FS_CardinalityType
    <3>5. Cardinality(Y) <= Cardinality(X) + 1
      BY <3>1, <3>2, <3>3, <3>4
    <3> QED
      BY <3>4, <3>5 DEF X, Y
  <2>7. Cardinality(Unannounced)' <= FaultsSoFar'
    BY <2>1, <2>5, <2>6
  <2> QED
    BY <2>1, <2>2, <2>7 DEF Creation
<1> QED
  BY <1>4, <1>5, <1>6, <1>7, <1>8, <1>9, <1>10, <1>11, <1>12, <1>13, <1>14, NextCases DEF Handlers

\* The invariant bounds what is lost.
LEMMA CreationBounds ==
  ASSUME TypeInv, Creation
  PROVE  CreationLossBound
<1>1. created \in Seq(Nat \ {0}) /\ ids \in Seq(Nat \ {0}) /\ (pc = "created" => ids # <<>>)
  BY TypeInvParts DEF PartsOK, TablesOK, IdsOK
<1>2. IsFiniteSet(DOMAIN created)
  <2>1. Len(created) \in Nat /\ DOMAIN created = 1..Len(created)
    BY <1>1, LenProperties
  <2> QED
    BY <2>1, FS_Interval
<1>3. ASSUME NEW t
      PROVE  /\ Count(created, t) = (IF t \in Elements(created) THEN 1 ELSE 0)
  <2> DEFINE P == {i \in DOMAIN created : created[i] = t}
  <2>1. CASE t \in Elements(created)
    <3>1. PICK i \in DOMAIN created : created[i] = t
      BY <2>1 DEF Elements
    <3>2. P = {i}
      BY <3>1 DEF Creation
    <3> QED
      BY <2>1, <3>2, FS_Singleton DEF Count
  <2>2. CASE t \notin Elements(created)
    <3>1. P = {}
      BY <2>2 DEF Elements
    <3> QED
      BY <2>2, <3>1, FS_EmptySet DEF Count
  <2> QED
    BY <2>1, <2>2
<1>4. \A t \in DOMAIN tasks : Count(created, t) <= (IF t \in Made THEN 1 ELSE 0)
  BY <1>3 DEF Creation
<1> DEFINE Lost == {t \in Made : Count(created, t) = 0 /\ ~UnderWay(t)}
<1>5. Lost \subseteq Unannounced
  <2>1. pc = "created" => ids[1] \in Elements(ids)
    BY <1>1, TailElements
  <2> QED
    BY <1>3, <2>1 DEF Unannounced, UnderWay
<1>6. Unannounced \subseteq DOMAIN tasks
  BY DEF Unannounced, Made
<1>7. IsFiniteSet(Unannounced) /\ Cardinality(Unannounced) \in Nat
  BY <1>6, FiniteRows
<1>8. Cardinality(Lost) <= Cardinality(Unannounced) /\ Cardinality(Lost) \in Nat
  BY <1>5, <1>7, FS_Subset, FS_CardinalityType
<1>9. Cardinality(Lost) <= FaultsSoFar
  BY <1>7, <1>8, FaultCount DEF Creation
<1> QED
  BY <1>4, <1>9 DEF CreationLossBound

-----------------------------------------------------------------------------
(***************************************************************************)
(* What is announced as closed.                                            *)
(***************************************************************************)

\* The rows under announcement that still are what is announced.
Announced ==
  pc = "announce" =>
    \A t \in Elements(ids) : tasks[t].setBy = "service" => tasks[t].status = Closing

\* Nothing more goes untold.
LEMMA ClosureKept ==
  ASSUME TypeInv, Closure, Untold' \subseteq Untold, FaultsSoFar' = FaultsSoFar, Announced'
  PROVE  Closure'
<1> DEFINE X == Untold
           Y == Untold'
<1>1. X \subseteq DOMAIN tasks /\ Y \subseteq X
  BY DEF Untold
<1>2. IsFiniteSet(X) /\ Cardinality(X) \in Nat /\ IsFiniteSet(Messages)
  BY <1>1, FiniteRows, ExtractorAssumption
<1>3. FaultsSoFar \in Nat /\ Cardinality(Messages) \in Nat
  BY <1>2, FaultCount, FS_CardinalityType
<1>4. Cardinality(X) <= FaultsSoFar * Cardinality(Messages)
  BY DEF Closure
<1>5. Announced' /\ (Cardinality(Y) <= FaultsSoFar * Cardinality(Messages) => Closure')
  BY DEF Closure, Announced
<1> HIDE DEF X, Y
<1>6. Cardinality(Y) <= Cardinality(X) /\ Cardinality(Y) \in Nat
  BY <1>1, <1>2, FS_Subset, FS_CardinalityType
<1>7. FaultsSoFar * Cardinality(Messages) \in Nat
  BY <1>3
<1>8. Cardinality(Y) <= FaultsSoFar * Cardinality(Messages)
  BY <1>2, <1>4, <1>6, <1>7
<1> QED
  BY <1>5, <1>8

\* The row is one Untold counts, but for what has been or will be said of it.
Alone(t) ==
  tasks[t].status # "open" /\ tasks[t].setBy = "service" /\ Rows(tasks[t].ref) = {t}

LEMMA UntoldRow ==
  \A t : t \in Untold <=>
    /\ t \in DOMAIN tasks /\ Alone(t)
    /\ <<t, tasks[t].status>> \notin Elements(resolved)
    /\ ~ (pc = "announce" /\ t \in Elements(ids))
BY DEF Untold, Alone

\* A row that keeps its status was alone if it is.
LEMMA AloneKept ==
  ASSUME \/ SameRows
         \/ \E m, by : RowAdded(m, by),
         NEW t \in DOMAIN tasks, RowKept(t), Alone(t)'
  PROVE  Alone(t) /\ t \in DOMAIN tasks'
<1>1. /\ DOMAIN tasks \subseteq DOMAIN tasks'
      /\ \A u \in DOMAIN tasks : tasks'[u].ref = tasks[u].ref
  BY DEF SameRows, RowAdded, RowKept
<1>2. Rows(tasks[t].ref) = {t}
  <2>1. {u \in DOMAIN tasks' : tasks'[u].ref = tasks'[t].ref} = {t}
    BY DEF Alone, Rows
  <2> QED
    BY <1>1, <2>1 DEF Rows
<1> QED
  BY <1>1, <1>2 DEF Alone, RowKept

\* No row is closed or announced.
LEMMA ClosureStill ==
  ASSUME TypeInv, Closure, resolved' = resolved, FaultsSoFar' = FaultsSoFar,
         RowsKept \/ \E m, by : RowAdded(m, by),
         \/ pc' = pc /\ ids' = ids /\ (pc = "announce" => Closing' = Closing)
         \/ pc # "announce" /\ pc' # "announce"
  PROVE  Closure'
<1>1. SameRows \/ \E m, by : RowAdded(m, by)
  BY SameRowsFrom
<1>2. Elements(resolved)' = Elements(resolved) /\ (ids' = ids => Elements(ids)' = Elements(ids))
  BY DEF Elements
<1>3. \A t \in DOMAIN tasks : RowKept(t)
  BY DEF RowsKept, RowAdded
<1>4. Elements(ids) \subseteq DOMAIN tasks
  BY TypeInvParts DEF PartsOK, IdsOK
<1>5. ASSUME NEW t \in Untold'
      PROVE  t \in Untold
  <2>1. t \in DOMAIN tasks' /\ Alone(t)' /\ <<t, tasks'[t].status>> \notin Elements(resolved)
        /\ ~ (pc' = "announce" /\ t \in Elements(ids)')
    BY <1>2, <1>5 DEF Untold, Alone
  <2>2. t \in DOMAIN tasks
    BY <2>1 DEF RowsKept, RowAdded, Alone
  <2>3. Alone(t) /\ tasks'[t].status = tasks[t].status
    BY <1>1, <1>3, <2>1, <2>2, AloneKept DEF RowKept
  <2> QED
    BY <1>2, <2>1, <2>2, <2>3, UntoldRow
<1>6. Announced'
  BY <1>2, <1>3, <1>4 DEF Announced, Closure, RowKept
<1> QED
  BY <1>5, <1>6, ClosureKept

\* Rows are closed, and all of them that are alone will be announced.
LEMMA ClosureBegins ==
  ASSUME TypeInv, Closure, resolved' = resolved, FaultsSoFar' = FaultsSoFar,
         NEW S \in SUBSET DOMAIN tasks, NEW s, RowsSet(S, s, "service"),
         pc # "announce",
         pc' = "announce" => Elements(ids') \subseteq S /\ Closing' = s,
         \A t \in S : Alone(t)' => pc' = "announce" /\ t \in Elements(ids')
  PROVE  Closure'
<1>1. SameRows
  BY SameRowsFrom
<1>2. Elements(resolved)' = Elements(resolved) /\ Elements(ids)' = Elements(ids')
  BY DEF Elements
<1>3. ASSUME NEW t \in Untold'
      PROVE  t \in Untold
  <2>1. t \in DOMAIN tasks' /\ Alone(t)' /\ <<t, tasks'[t].status>> \notin Elements(resolved)
        /\ ~ (pc' = "announce" /\ t \in Elements(ids'))
    BY <1>2, <1>3 DEF Untold, Alone
  <2>2. t \in DOMAIN tasks /\ t \notin S
    BY <2>1 DEF RowsSet
  <2>3. RowKept(t)
    BY <2>2 DEF RowsSet
  <2>4. Alone(t) /\ tasks'[t].status = tasks[t].status
    BY <1>1, <2>1, <2>2, <2>3, AloneKept DEF RowKept
  <2> QED
    BY <2>1, <2>2, <2>4, UntoldRow
<1>4. Announced'
  BY <1>2 DEF Announced, RowsSet
<1> QED
  BY <1>3, <1>4, ClosureKept

LEMMA SameClosing ==
  /\ SamePlace /\ pc = "announce" => Closing' = Closing
  /\ HandlerStep => Closing' = Closing
BY DEF SamePlace, HandlerStep, Closing, event

LEMMA ClosureQuiet ==
  ASSUME TypeInv, Closure,
         \/ UNCHANGED tasks /\ (SamePlace \/ Elsewhere)
         \/ SamePlace /\ \E m \in Projected : ProjectTask(m)
         \/ SamePlace /\ \E t \in DOMAIN tasks, s \in Statuses : PatchTask(t, s)
  PROVE  Closure'
<1>1. tasks \in Seq(TaskRows)
  BY TypeInvParts DEF PartsOK, TablesOK
<1>2. SamePlace \/ Elsewhere =>
        /\ resolved' = resolved /\ FaultsSoFar' = FaultsSoFar
        /\ \/ pc' = pc /\ ids' = ids /\ (pc = "announce" => Closing' = Closing)
           \/ pc # "announce" /\ pc' # "announce"
  BY SameClosing DEF SamePlace, Elsewhere, FaultsSoFar
<1>3. CASE UNCHANGED tasks /\ (SamePlace \/ Elsewhere)
  BY <1>2, <1>3, SameRowsFrom, ClosureStill
<1>4. CASE SamePlace /\ \E m \in Projected : ProjectTask(m)
  <2>1. PICK m \in Projected : ProjectTask(m)
    BY <1>4
  <2>2. RowsKept \/ RowAdded(m, "memory-projector")
    BY <1>1, <2>1, ProjectTaskRows
  <2> QED
    BY <1>2, <1>4, <2>2, ClosureStill
<1>5. CASE SamePlace /\ \E t \in DOMAIN tasks, s \in Statuses : PatchTask(t, s)
  <2>1. PICK t \in DOMAIN tasks, s \in Statuses : PatchTask(t, s)
    BY <1>5
  <2>2. RowsSet({t}, s, "admin")
    BY <1>1, <2>1, PatchTaskRows
  <2>3. SameRows
    BY <2>2, SameRowsFrom
  <2>4. Elements(resolved)' = Elements(resolved) /\ Elements(ids)' = Elements(ids)
    BY <1>2, <1>5 DEF Elements, SamePlace
  <2>5. ASSUME NEW u \in Untold'
        PROVE  u \in Untold
    <3>1. u \in DOMAIN tasks' /\ Alone(u)' /\ <<u, tasks'[u].status>> \notin Elements(resolved)
          /\ ~ (pc' = "announce" /\ u \in Elements(ids)')
      BY <2>4, <2>5 DEF Untold, Alone
    <3>2. u \in DOMAIN tasks /\ u # t
      BY <2>2, <3>1 DEF RowsSet, Alone
    <3>3. RowKept(u)
      BY <2>2, <3>2 DEF RowsSet
    <3>4. Alone(u) /\ tasks'[u].status = tasks[u].status
      BY <2>3, <3>1, <3>2, <3>3, AloneKept DEF RowKept
    <3> QED
      BY <1>5, <2>4, <3>1, <3>2, <3>4, UntoldRow DEF SamePlace
  <2>6. Elements(ids) \subseteq DOMAIN tasks
    BY TypeInvParts DEF PartsOK, IdsOK
  <2>7. Announced'
    <3>1. ASSUME pc' = "announce", NEW u \in Elements(ids)', tasks'[u].setBy = "service"
          PROVE  tasks'[u].status = Closing'
      <4>1. u \in DOMAIN tasks /\ pc = "announce" /\ Closing' = Closing
        BY <1>5, <2>4, <2>6, <3>1, SameClosing DEF SamePlace
      <4>2. u # t /\ RowKept(u)
        BY <2>2, <3>1, <4>1 DEF RowsSet
      <4> QED
        BY <2>4, <3>1, <4>1, <4>2 DEF Closure, RowKept
    <3> QED
      BY <3>1 DEF Announced
  <2> QED
    BY <1>2, <1>5, <2>5, <2>7, ClosureKept
<1> QED
  BY <1>3, <1>4, <1>5

LEMMA ClosureHandlers ==
  ASSUME TypeInv, Closure, Handlers
  PROVE  Closure'
<1>1. BusOK /\ PlaceOK /\ TablesOK /\ IdsOK
  BY TypeInvParts DEF PartsOK
<1>2. CASE Resolve
  <2>1. /\ HandlerStep /\ pc = "resolve" /\ entry[1] = "message"
        /\ resolved' = resolved
        /\ RowsSet(Replied, "done", "service") /\ Replied \in SUBSET DOMAIN tasks
        /\ \/ Replied = {} /\ pc' = "find" /\ ids' = ids
           \/ pc' = "announce" /\ \E t \in Replied : ids' = <<t>>
    BY <1>2, ResolveEffect
  <2>2. Kind[event] = "message"
    BY <1>1, <2>1, EventType
  <2>3. Closing' = "done"
    BY <2>1, <2>2, SameClosing DEF Closing
  <2>4. \A t \in Replied : Elements(<<t>>) = {t}
    BY <1>1, <2>1, RowNumbers, OneRow DEF TablesOK
  <2>5. ASSUME NEW t \in Replied, Alone(t)'
        PROVE  pc' = "announce" /\ t \in Elements(ids')
    <3>1. PICK u \in Replied : ids' = <<u>> /\ pc' = "announce"
      BY <2>1
    <3>2. tasks[t].ref = ReplyTo[event] /\ tasks[u].ref = ReplyTo[event]
      BY DEF Replied, OpenRows
    <3>3. t \in DOMAIN tasks' /\ u \in DOMAIN tasks' /\ tasks'[u].ref = tasks'[t].ref
      BY <2>1, <3>2 DEF RowsSet
    <3>4. u = t
      BY <2>5, <3>3 DEF Alone, Rows
    <3> QED
      BY <2>4, <3>1, <3>4
  <2>6. pc' = "announce" => Elements(ids') \subseteq Replied
    BY <2>1, <2>4
  <2> QED
    BY <2>1, <2>3, <2>5, <2>6, HandlerKeeps, ClosureBegins
<1>3. CASE Drop
  <2> DEFINE hit == OpenRows(Refs[event])
  <2>1. /\ HandlerStep /\ pc = "drop" /\ Kind[event] = "deleted"
        /\ resolved' = resolved
        /\ RowsSet(hit, "dropped", "service") /\ hit \in SUBSET DOMAIN tasks
        /\ Elements(ids') = hit
        /\ hit # {} => pc' = "announce"
    BY <1>3, DropEffect
  <2> HIDE DEF hit
  <2>2. Closing' = "dropped"
    BY <2>1, SameClosing DEF Closing
  <2> QED
    BY <2>1, <2>2, HandlerKeeps, ClosureBegins
<1>4. CASE Find
  <2>1. HandlerStep /\ UNCHANGED <<tasks, resolved>> /\ pc # "announce" /\ pc' # "announce"
    BY <1>4, FindEffect
  <2> QED
    BY <2>1, SameRowsFrom, HandlerKeeps, ClosureStill
<1>5. CASE Create
  <2>1. HandlerStep /\ RowAdded(ref, "task-extractor") /\ resolved' = resolved
        /\ pc # "announce" /\ pc' # "announce"
    BY <1>5, CreateEffect
  <2> QED
    BY <2>1, HandlerKeeps, ClosureStill
<1>6. CASE AnnounceCreated
  <2>1. HandlerStep /\ UNCHANGED <<tasks, resolved>> /\ pc # "announce" /\ pc' # "announce"
    BY <1>6, AnnounceCreatedEffect
  <2> QED
    BY <2>1, SameRowsFrom, HandlerKeeps, ClosureStill
<1>7. CASE Update
  <2>1. HandlerStep /\ RowsKept /\ resolved' = resolved /\ pc # "announce" /\ pc' # "announce"
    BY <1>7, UpdateEffect
  <2> QED
    BY <2>1, HandlerKeeps, ClosureStill
<1>8. CASE Announce
  <2>1. /\ HandlerStep /\ UNCHANGED tasks /\ pc = "announce"
        /\ Elements(resolved') = Elements(resolved) \cup {<<ids[1], Closing>>}
        /\ Elements(ids) = {ids[1]} \cup Elements(ids')
        /\ IF ids' = <<>> THEN pc' = "mark" ELSE pc' = "announce"
    BY <1>8, AnnounceEffect
  <2>2. Elements(resolved)' = Elements(resolved') /\ Elements(ids)' = Elements(ids')
        /\ Elements(<<>>) = {}
    BY DEF Elements
  <2>3. /\ SameRows /\ RowsKept /\ Closing' = Closing /\ FaultsSoFar' = FaultsSoFar
    BY <2>1, SameRowsFrom, SameClosing, HandlerKeeps
  <2>4. \A t \in Elements(ids) : tasks[t].setBy = "service" => tasks[t].status = Closing
    BY <2>1 DEF Closure
  <2>5. ASSUME NEW t \in Untold'
        PROVE  t \in Untold
    <3>1. t \in DOMAIN tasks /\ Alone(t)' /\ <<t, tasks[t].status>> \notin Elements(resolved')
          /\ ~ (pc' = "announce" /\ t \in Elements(ids'))
      BY <2>1, <2>2, <2>5 DEF Untold, Alone
    <3>2. RowKept(t)
      BY <2>3, <3>1 DEF RowsKept
    <3>3. Alone(t)
      BY <2>3, <3>1, <3>2, AloneKept
    <3>4. t \notin Elements(ids')
      BY <2>1, <2>2, <3>1
    <3>5. t # ids[1]
      BY <2>1, <2>4, <3>1, <3>3 DEF Alone
    <3> QED
      BY <2>1, <3>1, <3>3, <3>4, <3>5, UntoldRow
  <2>6. Announced'
    BY <2>1, <2>2, <2>3, <2>4 DEF Announced
  <2> QED
    BY <2>3, <2>5, <2>6, ClosureKept
<1> QED
  BY <1>2, <1>3, <1>4, <1>5, <1>6, <1>7, <1>8 DEF Handlers

\* A fault costs at most one closure for each message.
LEMMA ClosureFaults ==
  ASSUME TypeInv, Closure, Error \/ Crash
  PROVE  Closure'
<1>1. /\ UNCHANGED <<tasks, resolved>> /\ pc' # "announce"
      /\ FaultsSoFar \in Nat /\ FaultsSoFar' = FaultsSoFar + 1
  BY FaultEffect
<1>2. tasks \in Seq(TaskRows)
  BY TypeInvParts DEF PartsOK, TablesOK
<1> DEFINE X == Untold
           Y == {t \in DOMAIN tasks : Rows(tasks[t].ref) = {t}}
           Z == Untold'
<1>3. Z \subseteq Y
  BY <1>1 DEF Untold, Rows
<1>4. IsFiniteSet(Messages) /\ Cardinality(Messages) \in Nat
  BY ExtractorAssumption, FS_CardinalityType
<1>5. Cardinality(Y) <= Cardinality(Messages) /\ IsFiniteSet(Y)
  <2> DEFINE f == [t \in Y |-> tasks[t].ref]
  <2>1. f \in [Y -> Messages]
    <3>1. ASSUME NEW t \in Y
          PROVE  tasks[t].ref \in Messages
      <4>1. tasks[t] \in TaskRows
        BY <1>2
      <4> QED
        BY <4>1 DEF TaskRows
    <3> QED
      BY <3>1
  <2>2. ASSUME NEW t \in Y, NEW u \in Y, f[t] = f[u]
        PROVE  t = u
    <3>1. tasks[t].ref = tasks[u].ref
      BY <2>2
    <3>2. Rows(tasks[t].ref) = {t} /\ Rows(tasks[u].ref) = {u}
      OBVIOUS
    <3> QED
      BY <3>1, <3>2
  <2>3. f \in Injection(Y, Messages)
    BY <2>1, <2>2 DEF Injection, IsInjective
  <2> HIDE DEF Y, f
  <2> QED
    BY <1>4, <2>3, FS_Injection, Zenon
<1>6. X \subseteq DOMAIN tasks /\ Cardinality(X) <= FaultsSoFar * Cardinality(Messages)
  BY DEF Untold, Closure
<1>7. IsFiniteSet(X) /\ Cardinality(X) \in Nat
  BY <1>6, FiniteRows
<1>8. Closure' <=> Cardinality(Z) <= (FaultsSoFar + 1) * Cardinality(Messages)
  BY <1>1 DEF Closure
<1> HIDE DEF X, Y, Z
<1>9. Cardinality(Z) <= Cardinality(Y) /\ Cardinality(Z) \in Nat /\ Cardinality(Y) \in Nat
  BY <1>3, <1>5, FS_Subset, FS_CardinalityType
<1>10. FaultsSoFar * Cardinality(Messages) \in Nat
       /\ (FaultsSoFar + 1) * Cardinality(Messages)
            = FaultsSoFar * Cardinality(Messages) + Cardinality(Messages)
  BY <1>1, <1>4
<1>11. Cardinality(Z) <= (FaultsSoFar + 1) * Cardinality(Messages)
  BY <1>4, <1>5, <1>9, <1>10
<1> QED
  BY <1>8, <1>11

LEMMA ClosureStep ==
  ASSUME TypeInv, Closure, [Next]_vars
  PROVE  Closure'
BY NextCases, ClosureQuiet, ClosureHandlers, ClosureFaults

LEMMA ClosureBounds ==
  ASSUME TypeInv, Closure
  PROVE  ClosureLossBound
<1> DEFINE Lost == {t \in DOMAIN tasks :
                     /\ tasks[t].status # "open" /\ tasks[t].setBy = "service"
                     /\ <<t, tasks[t].status>> \notin Elements(resolved)
                     /\ ~UnderWay(t)
                     /\ \A u \in Rows(tasks[t].ref) : u = t}
<1>1. Lost \subseteq Untold
  <2>1. ASSUME NEW t \in Lost
        PROVE  t \in Untold
    <3>1. t \in Rows(tasks[t].ref)
      BY DEF Rows
    <3>2. Rows(tasks[t].ref) = {t}
      BY <3>1
    <3> QED
      BY <3>2 DEF Untold, UnderWay
  <2> QED
    BY <2>1
<1>2. IsFiniteSet(Untold) /\ Cardinality(Untold) \in Nat
  <2>1. Untold \subseteq DOMAIN tasks
    BY DEF Untold
  <2> QED
    BY <2>1, FiniteRows
<1>3. Cardinality(Messages) \in Nat /\ FaultsSoFar \in Nat
  BY ExtractorAssumption, FS_CardinalityType, FaultCount
<1>4. Cardinality(Lost) <= Cardinality(Untold) /\ Cardinality(Lost) \in Nat
  BY <1>1, <1>2, FS_Subset, FS_CardinalityType
<1>5. FaultsSoFar * Cardinality(Messages) \in Nat
  BY <1>3
<1>6. Cardinality(Lost) <= FaultsSoFar * Cardinality(Messages)
  BY <1>2, <1>4, <1>5 DEF Closure
<1> QED
  BY <1>6 DEF ClosureLossBound

-----------------------------------------------------------------------------
(***************************************************************************)
(* A run without faults, whose streams never hold more than one batch.     *)
(***************************************************************************)

\* A delivered entry is a stream and a position up to its cursor.
LEMMA DeliveredIs ==
  ASSUME cursor \in [Kinds -> Nat]
  PROVE  /\ \A d \in Delivered : /\ d \in Entries /\ d = <<d[1], d[2]>> /\ d # <<>>
                                 /\ d[1] \in Kinds /\ d[2] \in Nat \ {0} /\ d[2] <= cursor[d[1]]
         /\ \A k \in Kinds : \A i \in Nat \ {0} : i <= cursor[k] => <<k, i>> \in Delivered
<1>1. \A d \in Delivered : \E k \in Kinds : \E i \in 1..cursor[k] : d = <<k, i>>
  BY DEF Delivered
<1>2. \A k \in Kinds : cursor[k] \in Nat
  OBVIOUS
<1>3. ASSUME NEW d \in Delivered
      PROVE  /\ d \in Entries /\ d = <<d[1], d[2]>> /\ d # <<>>
             /\ d[1] \in Kinds /\ d[2] \in Nat \ {0} /\ d[2] <= cursor[d[1]]
  <2>1. PICK k \in Kinds : \E i \in 1..cursor[k] : d = <<k, i>>
    BY <1>1
  <2>2. PICK i \in 1..cursor[k] : d = <<k, i>>
    BY <2>1
  <2>3. i \in Nat \ {0} /\ i <= cursor[k]
    BY <1>2, <2>2
  <2> QED
    BY <2>2, <2>3 DEF Entries
<1>4. ASSUME NEW k \in Kinds, NEW i \in Nat \ {0}, i <= cursor[k]
      PROVE  <<k, i>> \in Delivered
  <2>1. i \in 1..cursor[k]
    BY <1>2, <1>4
  <2> QED
    BY <2>1 DEF Delivered
<1> QED
  BY <1>3, <1>4

\* The first of the batch, and the rest of it.
LEMMA TailKeeps ==
  ASSUME NEW S, NEW s \in Seq(S), s # <<>>
  PROVE  /\ Head(s) = s[1] /\ 1 \in DOMAIN s
         /\ DOMAIN s \subseteq Nat \ {0} /\ DOMAIN Tail(s) \subseteq Nat \ {0}
         /\ \A i \in DOMAIN Tail(s) : i + 1 \in DOMAIN s /\ Tail(s)[i] = s[i + 1]
<1>1. /\ Len(s) \in Nat \ {0} /\ DOMAIN s = 1..Len(s) /\ Head(s) = s[1]
      /\ DOMAIN Tail(s) = 1..(Len(s) - 1)
      /\ \A i \in 1..(Len(s) - 1) : Tail(s)[i] = s[i + 1]
  BY HeadTailProperties, EmptySeq, LenProperties
<1>2. \A i \in 1..(Len(s) - 1) : i + 1 \in 1..Len(s)
  BY <1>1
<1>3. DOMAIN s \subseteq Nat \ {0} /\ DOMAIN Tail(s) \subseteq Nat \ {0} /\ 1 \in DOMAIN s
  BY <1>1
<1> QED
  BY <1>1, <1>2, <1>3

\* The next entries of a stream, all of them unless there are more than a batch.
LEMMA ChunkIs ==
  ASSUME BusOK, NEW k \in Kinds
  PROVE  /\ Chunk(k) \in Seq(Entries)
         /\ Len(Chunk(k)) \in Nat
         /\ \A i \in 1..Len(Chunk(k)) : Chunk(k)[i] = <<k, cursor[k] + i>>
         /\ ~ (Backlog(k) > BatchSize) => cursor[k] + Len(Chunk(k)) = Len(log[k])
<1> DEFINE n == IF Backlog(k) < BatchSize THEN Backlog(k) ELSE BatchSize
<1>1. /\ cursor[k] \in Nat /\ Len(log[k]) \in Nat /\ cursor[k] <= Len(log[k])
      /\ BatchSize \in Nat
  BY ExtractorAssumption, LenProperties DEF BusOK
<1>2. n \in Nat /\ (~ (Backlog(k) > BatchSize) => cursor[k] + n = Len(log[k]))
  BY <1>1 DEF Backlog
<1>3. Chunk(k) = [i \in 1..n |-> <<k, cursor[k] + i>>]
  BY DEF Chunk
<1> HIDE DEF n
<1>4. \A i \in 1..n : cursor[k] + i \in Nat \ {0}
  BY <1>1, <1>2
<1>5. \A i \in 1..n : <<k, cursor[k] + i>> \in Entries
  BY <1>4 DEF Entries
<1>6. Chunk(k) \in Seq(Entries) /\ Len(Chunk(k)) = n
  BY <1>2, <1>3, <1>5
<1> QED
  BY <1>2, <1>3, <1>6

\* Three lists joined.
LEMMA JoinedLists ==
  ASSUME NEW S, NEW a \in Seq(S), NEW b \in Seq(S), NEW c \in Seq(S)
  PROVE  /\ (a \o b) \o c \in Seq(S)
         /\ DOMAIN ((a \o b) \o c) = 1..(Len(a) + Len(b) + Len(c))
         /\ \A i \in 1..Len(a) : ((a \o b) \o c)[i] = a[i]
         /\ \A i \in 1..Len(b) : ((a \o b) \o c)[Len(a) + i] = b[i]
         /\ \A i \in 1..Len(c) : ((a \o b) \o c)[Len(a) + Len(b) + i] = c[i]
<1>1. Len(a) \in Nat /\ Len(b) \in Nat /\ Len(c) \in Nat
  BY LenProperties
<1>2. /\ a \o b \in Seq(S) /\ Len(a \o b) = Len(a) + Len(b)
      /\ \A i \in 1..(Len(a) + Len(b)) : (a \o b)[i] = IF i <= Len(a) THEN a[i] ELSE b[i - Len(a)]
  BY ConcatProperties
<1> DEFINE ab == a \o b
<1>3. ab \in Seq(S) /\ Len(ab) = Len(a) + Len(b)
  BY <1>2
<1> HIDE DEF ab
<1>4. /\ ab \o c \in Seq(S) /\ Len(ab \o c) = Len(ab) + Len(c)
      /\ \A i \in 1..(Len(ab) + Len(c)) : (ab \o c)[i] = IF i <= Len(ab) THEN ab[i] ELSE c[i - Len(ab)]
  <2>1. ab \in Seq(S)
    BY <1>3
  <2> QED
    BY ONLY <2>1, c \in Seq(S), ConcatProperties
<1>5. DOMAIN (ab \o c) = 1..(Len(a) + Len(b) + Len(c))
  BY <1>3, <1>4, LenProperties
<1>6. ASSUME NEW i \in 1..Len(a)
      PROVE  (ab \o c)[i] = a[i]
  <2>1. i \in 1..(Len(a) + Len(b)) /\ i <= Len(a) /\ i \in 1..(Len(ab) + Len(c)) /\ i <= Len(ab)
    BY <1>1, <1>3
  <2>2. (ab \o c)[i] = ab[i]
    BY <1>4, <2>1
  <2> QED
    BY <1>2, <2>1, <2>2 DEF ab
<1>7. ASSUME NEW i \in 1..Len(b)
      PROVE  (ab \o c)[Len(a) + i] = b[i]
  <2>1. /\ Len(a) + i \in 1..(Len(a) + Len(b)) /\ ~ (Len(a) + i <= Len(a))
        /\ Len(a) + i \in 1..(Len(ab) + Len(c)) /\ Len(a) + i <= Len(ab)
        /\ (Len(a) + i) - Len(a) = i
    BY <1>1, <1>3
  <2>2. (ab \o c)[Len(a) + i] = ab[Len(a) + i]
    BY <1>4, <2>1
  <2>3. ab[Len(a) + i] = b[(Len(a) + i) - Len(a)]
    BY <1>2, <2>1 DEF ab
  <2> QED
    BY <2>1, <2>2, <2>3
<1>8. ASSUME NEW i \in 1..Len(c)
      PROVE  (ab \o c)[Len(a) + Len(b) + i] = c[i]
  <2>1. /\ Len(a) + Len(b) + i \in 1..(Len(ab) + Len(c)) /\ ~ (Len(a) + Len(b) + i <= Len(ab))
        /\ (Len(a) + Len(b) + i) - Len(ab) = i
    BY <1>1, <1>3
  <2>2. (ab \o c)[Len(a) + Len(b) + i] = c[(Len(a) + Len(b) + i) - Len(ab)]
    BY <1>4, <2>1
  <2> QED
    BY <2>1, <2>2
<1> QED
  BY <1>4, <1>5, <1>6, <1>7, <1>8 DEF ab

\* What one read does: the new entries of every stream, messages first.
LEMMA FetchEffect ==
  ASSUME TypeInv, Fetch
  PROVE  /\ UNCHANGED <<log, acked, dlq, processed, tasks, pc, entry, ids, faults>>
         /\ pc = "idle" /\ todo = <<>>
         /\ cursor' \in [Kinds -> Nat]
         /\ \A k \in Kinds : /\ cursor[k] <= cursor'[k]
                             /\ ~ overflow' => cursor'[k] = Len(log[k])
         /\ ~ overflow' => ~ overflow
         /\ DOMAIN todo' \subseteq Nat
         /\ \A i \in DOMAIN todo' :
              \E k \in Kinds, n \in Nat \ {0} :
                todo'[i] = <<k, n>> /\ cursor[k] < n /\ n <= cursor'[k]
         /\ \A i, j \in DOMAIN todo' : i # j => todo'[i] # todo'[j]
         /\ \A i, j \in DOMAIN todo' : i < j /\ todo'[j][1] = "message" => todo'[i][1] = "message"
         /\ \A k \in Kinds, n \in Nat : cursor[k] < n /\ n <= cursor'[k] =>
              \E i \in DOMAIN todo' : todo'[i] = <<k, n>>
<1>1. BusOK
  BY TypeInvParts DEF PartsOK
<1>2. /\ UNCHANGED <<log, acked, dlq, processed, tasks, pc, entry, ids, faults>>
      /\ pc = "idle" /\ todo = <<>>
      /\ todo' = (Chunk("message") \o Chunk("edited")) \o Chunk("deleted")
      /\ cursor' = [k \in Kinds |-> cursor[k] + Len(Chunk(k))]
      /\ overflow' = (overflow \/ \E k \in Kinds : Backlog(k) > BatchSize)
  BY DEF Fetch, NextEntries, output
<1>3. /\ \A k \in Kinds : k = "message" \/ k = "edited" \/ k = "deleted"
      /\ "message" \in Kinds /\ "edited" \in Kinds /\ "deleted" \in Kinds
  BY DEF Kinds
<1>4. ASSUME NEW k \in Kinds
      PROVE  /\ Chunk(k) \in Seq(Entries) /\ Len(Chunk(k)) \in Nat
             /\ \A i \in 1..Len(Chunk(k)) : Chunk(k)[i] = <<k, cursor[k] + i>>
             /\ cursor[k] \in Nat /\ cursor'[k] = cursor[k] + Len(Chunk(k))
             /\ ~ overflow' => cursor'[k] = Len(log[k])
  <2>1. cursor[k] \in Nat /\ cursor'[k] = cursor[k] + Len(Chunk(k))
    BY <1>1, <1>2 DEF BusOK
  <2>2. ~ overflow' => ~ (Backlog(k) > BatchSize)
    BY <1>2
  <2>3. /\ Chunk(k) \in Seq(Entries) /\ Len(Chunk(k)) \in Nat
        /\ \A i \in 1..Len(Chunk(k)) : Chunk(k)[i] = <<k, cursor[k] + i>>
        /\ ~ (Backlog(k) > BatchSize) => cursor[k] + Len(Chunk(k)) = Len(log[k])
    BY <1>1, ChunkIs
  <2> QED
    BY <2>1, <2>2, <2>3
<1>5. /\ cursor' \in [Kinds -> Nat]
      /\ \A k \in Kinds : /\ cursor[k] <= cursor'[k]
                          /\ ~ overflow' => cursor'[k] = Len(log[k])
  BY <1>2, <1>4
<1>6. ~ overflow' => ~ overflow
  BY <1>1, <1>2 DEF BusOK
<1> DEFINE m == Len(Chunk("message"))
           e == Len(Chunk("edited"))
           d == Len(Chunk("deleted"))
           cm == cursor["message"]
           ce == cursor["edited"]
           cd == cursor["deleted"]
<1>7. /\ DOMAIN todo' = 1..(m + e + d)
      /\ \A i \in 1..m : todo'[i] = <<"message", cm + i>>
      /\ \A i \in 1..e : todo'[m + i] = <<"edited", ce + i>>
      /\ \A i \in 1..d : todo'[m + e + i] = <<"deleted", cd + i>>
  <2>1. /\ Chunk("message") \in Seq(Entries) /\ Chunk("edited") \in Seq(Entries)
        /\ Chunk("deleted") \in Seq(Entries)
    BY <1>3, <1>4
  <2>2. /\ DOMAIN todo' = 1..(m + e + d)
        /\ \A i \in 1..m : todo'[i] = Chunk("message")[i]
        /\ \A i \in 1..e : todo'[m + i] = Chunk("edited")[i]
        /\ \A i \in 1..d : todo'[m + e + i] = Chunk("deleted")[i]
    BY <1>2, <2>1, JoinedLists
  <2> QED
    BY <1>3, <1>4, <2>2
<1>8. /\ m \in Nat /\ e \in Nat /\ d \in Nat /\ cm \in Nat /\ ce \in Nat /\ cd \in Nat
      /\ cursor'["message"] = cm + m /\ cursor'["edited"] = ce + e /\ cursor'["deleted"] = cd + d
  BY <1>3, <1>4
<1> HIDE DEF m, e, d
\* Where an entry of the batch comes from.
<1>9. ASSUME NEW i \in 1..(m + e + d)
      PROVE  \/ i \in 1..m /\ todo'[i] = <<"message", cm + i>>
             \/ i - m \in 1..e /\ todo'[i] = <<"edited", ce + (i - m)>>
             \/ i - (m + e) \in 1..d /\ todo'[i] = <<"deleted", cd + (i - (m + e))>>
  <2>1. CASE i \in 1..m
    BY <1>7, <2>1
  <2>2. CASE i - m \in 1..e
    <3>1. m + (i - m) = i
      BY <1>8
    <3> QED
      BY <1>7, <2>2, <3>1
  <2>3. CASE i - (m + e) \in 1..d
    <3>1. m + e + (i - (m + e)) = i
      BY <1>8
    <3> QED
      BY <1>7, <2>3, <3>1
  <2>4. i \in 1..m \/ i - m \in 1..e \/ i - (m + e) \in 1..d
    BY <1>8
  <2> QED
    BY <2>1, <2>2, <2>3, <2>4
<1>10. ASSUME NEW i \in DOMAIN todo'
       PROVE  \E k \in Kinds, n \in Nat \ {0} :
                todo'[i] = <<k, n>> /\ cursor[k] < n /\ n <= cursor'[k]
  <2>1. i \in 1..(m + e + d)
    BY <1>7
  <2>2. CASE i \in 1..m /\ todo'[i] = <<"message", cm + i>>
    <3>1. cm + i \in Nat \ {0} /\ cm < cm + i /\ cm + i <= cursor'["message"]
      BY <1>8, <2>2
    <3> QED
      BY <1>3, <2>2, <3>1
  <2>3. CASE i - m \in 1..e /\ todo'[i] = <<"edited", ce + (i - m)>>
    <3>1. ce + (i - m) \in Nat \ {0} /\ ce < ce + (i - m) /\ ce + (i - m) <= cursor'["edited"]
      BY <1>8, <2>1, <2>3
    <3> QED
      BY <1>3, <2>3, <3>1
  <2>4. CASE i - (m + e) \in 1..d /\ todo'[i] = <<"deleted", cd + (i - (m + e))>>
    <3>1. /\ cd + (i - (m + e)) \in Nat \ {0} /\ cd < cd + (i - (m + e))
          /\ cd + (i - (m + e)) <= cursor'["deleted"]
      BY <1>8, <2>1, <2>4
    <3> QED
      BY <1>3, <2>4, <3>1
  <2> QED
    BY <1>9, <2>1, <2>2, <2>3, <2>4
<1>11. ASSUME NEW i \in DOMAIN todo', NEW j \in DOMAIN todo'
       PROVE  /\ i # j => todo'[i] # todo'[j]
              /\ i < j /\ todo'[j][1] = "message" => todo'[i][1] = "message"
  <2>1. i \in 1..(m + e + d) /\ j \in 1..(m + e + d)
    BY <1>7
  <2>2. CASE i \in 1..m /\ todo'[i] = <<"message", cm + i>>
    <3>1. todo'[j] = <<"message", cm + j>> \/ todo'[j][1] = "edited" \/ todo'[j][1] = "deleted"
      BY <1>9, <2>1
    <3> QED
      BY <1>8, <2>1, <2>2, <3>1
  <2>3. CASE i - m \in 1..e /\ todo'[i] = <<"edited", ce + (i - m)>>
    <3>1. \/ j \in 1..m /\ todo'[j][1] = "message"
          \/ todo'[j] = <<"edited", ce + (j - m)>>
          \/ todo'[j][1] = "deleted"
      BY <1>9, <2>1
    <3>2. todo'[i][1] = "edited" /\ (j \in 1..m => ~ (i < j))
      BY <1>8, <2>1, <2>3
    <3>3. i # j => ce + (i - m) # ce + (j - m)
      BY <1>8, <2>1
    <3>4. CASE j \in 1..m /\ todo'[j][1] = "message"
      BY <3>2, <3>4
    <3>5. CASE todo'[j] = <<"edited", ce + (j - m)>>
      BY <2>3, <3>3, <3>5
    <3>6. CASE todo'[j][1] = "deleted"
      BY <3>2, <3>6
    <3> QED
      BY <3>1, <3>4, <3>5, <3>6
  <2>4. CASE i - (m + e) \in 1..d /\ todo'[i] = <<"deleted", cd + (i - (m + e))>>
    <3>1. \/ j \in 1..m /\ todo'[j][1] = "message"
          \/ todo'[j][1] = "edited"
          \/ todo'[j] = <<"deleted", cd + (j - (m + e))>>
      <4>1. \/ j \in 1..m /\ todo'[j] = <<"message", cm + j>>
            \/ j - m \in 1..e /\ todo'[j] = <<"edited", ce + (j - m)>>
            \/ j - (m + e) \in 1..d /\ todo'[j] = <<"deleted", cd + (j - (m + e))>>
        BY <1>9, <2>1
      <4> QED
        BY <4>1
    <3>2. todo'[i][1] = "deleted" /\ (j \in 1..m => ~ (i < j))
      BY <1>8, <2>1, <2>4
    <3>3. i # j => cd + (i - (m + e)) # cd + (j - (m + e))
      BY <1>8, <2>1
    <3>4. CASE j \in 1..m /\ todo'[j][1] = "message"
      BY <3>2, <3>4
    <3>5. CASE todo'[j][1] = "edited"
      BY <3>2, <3>5
    <3>6. CASE todo'[j] = <<"deleted", cd + (j - (m + e))>>
      BY <2>4, <3>3, <3>6
    <3> QED
      BY <3>1, <3>4, <3>5, <3>6
  <2> QED
    BY <1>9, <2>1, <2>2, <2>3, <2>4
<1>12. ASSUME NEW k \in Kinds, NEW n \in Nat, cursor[k] < n, n <= cursor'[k]
       PROVE  \E i \in DOMAIN todo' : todo'[i] = <<k, n>>
  <2>1. CASE k = "message"
    <3>1. n - cm \in 1..m /\ cm + (n - cm) = n /\ n - cm \in 1..(m + e + d)
      BY <1>8, <1>12, <2>1
    <3> QED
      BY <1>7, <2>1, <3>1
  <2>2. CASE k = "edited"
    <3>1. n - ce \in 1..e /\ ce + (n - ce) = n /\ m + (n - ce) \in 1..(m + e + d)
      BY <1>8, <1>12, <2>2
    <3> QED
      BY <1>7, <2>2, <3>1
  <2>3. CASE k = "deleted"
    <3>1. n - cd \in 1..d /\ cd + (n - cd) = n /\ m + e + (n - cd) \in 1..(m + e + d)
      BY <1>8, <1>12, <2>3
    <3> QED
      BY <1>7, <2>3, <3>1
  <2> QED
    BY <1>3, <2>1, <2>2, <2>3
<1>13. DOMAIN todo' \subseteq Nat
  BY <1>7, <1>8
<1> QED
  BY <1>2, <1>5, <1>6, <1>10, <1>11, <1>12, <1>13, Zenon

\* What publishing does: what was on the streams stays where it is.
Grown(e) ==
  /\ Kind[e] \in Kinds
  /\ \A k \in Kinds :
       /\ Len(log[k]) \in Nat /\ DOMAIN log[k] = 1..Len(log[k])
       /\ \A i \in DOMAIN log[k] : i \in DOMAIN log'[k] /\ log'[k][i] = log[k][i]
       /\ \A i \in DOMAIN log'[k] :
            i \in DOMAIN log[k] \/ (k = Kind[e] /\ i = Len(log[k]) + 1 /\ log'[k][i] = e)

LEMMA PublishEffect ==
  ASSUME TypeInv, NEW e \in Events, Publish(e)
  PROVE  /\ UNCHANGED <<cursor, acked, dlq, overflow, processed, tasks, pc, todo, entry, ids, faults>>
         /\ Grown(e)
         /\ pc \notin {"off", "idle"} => event' = event /\ ref' = ref
<1>1. BusOK /\ PlaceOK
  BY TypeInvParts DEF PartsOK
<1>2. /\ log' = [log EXCEPT ![Kind[e]] = Append(@, e)]
      /\ UNCHANGED <<cursor, acked, dlq, overflow, processed, tasks, pc, todo, entry, ids, faults>>
  BY DEF Publish
<1>3. Kind[e] \in Kinds
  BY ExtractorAssumption
<1>4. \A k \in Kinds : \A i \in DOMAIN log[k] : i \in DOMAIN log'[k] /\ log'[k][i] = log[k][i]
  BY <1>1, <1>2, StreamsKept
<1>5. ASSUME NEW k \in Kinds
      PROVE  /\ Len(log[k]) \in Nat /\ DOMAIN log[k] = 1..Len(log[k])
             /\ \A i \in DOMAIN log'[k] :
                  i \in DOMAIN log[k] \/ (k = Kind[e] /\ i = Len(log[k]) + 1 /\ log'[k][i] = e)
  <2>1. log[k] \in Seq(Events) /\ Len(log[k]) \in Nat /\ DOMAIN log[k] = 1..Len(log[k])
    BY <1>1, LenProperties DEF BusOK
  <2>2. CASE k = Kind[e]
    <3>1. log'[k] = Append(log[k], e)
      BY <1>1, <1>2, <2>2 DEF BusOK
    <3>2. /\ DOMAIN Append(log[k], e) = 1..(Len(log[k]) + 1)
          /\ Append(log[k], e)[Len(log[k]) + 1] = e
      BY <2>1, AppendKeeps
    <3>3. \A i \in 1..(Len(log[k]) + 1) : i \in 1..Len(log[k]) \/ i = Len(log[k]) + 1
      BY <2>1
    <3> QED
      BY <2>1, <2>2, <3>1, <3>2, <3>3
  <2>3. CASE k # Kind[e]
    <3>1. log'[k] = log[k]
      BY <1>1, <1>2, <2>3 DEF BusOK
    <3> QED
      BY <2>1, <3>1
  <2> QED
    BY <2>2, <2>3
<1>6. Grown(e)
  BY <1>3, <1>4, <1>5 DEF Grown
<1>7. pc \notin {"off", "idle"} => event' = event
  BY <1>1, <1>2, <1>4, EventType DEF event
<1> QED
  BY <1>2, <1>6, <1>7 DEF ref

\* What taking the next entry does.
LEMMA TakeEffect ==
  ASSUME TypeInv, Take
  PROVE  /\ UNCHANGED <<log, cursor, acked, dlq, overflow, processed, tasks, faults>>
         /\ pc = "idle" /\ pc' = "check"
         /\ 1 \in DOMAIN todo /\ entry' = todo[1]
         /\ DOMAIN todo \subseteq Nat \ {0} /\ DOMAIN todo' \subseteq Nat \ {0}
         /\ \A i \in DOMAIN todo' : i + 1 \in DOMAIN todo /\ todo'[i] = todo[i + 1]
         /\ Elements(todo) = {entry'} \cup Elements(todo')
<1>1. PlaceOK
  BY TypeInvParts DEF PartsOK
<1>2. /\ UNCHANGED <<log, cursor, acked, dlq, overflow, processed, tasks, faults>>
      /\ pc = "idle" /\ pc' = "check" /\ todo # <<>> /\ entry' = Head(todo) /\ todo' = Tail(todo)
  BY DEF Take, bus, Goto
<1>3. todo \in Seq(Streamed)
  BY <1>1 DEF PlaceOK
<1>4. /\ Head(todo) = todo[1] /\ 1 \in DOMAIN todo
      /\ DOMAIN todo \subseteq Nat \ {0} /\ DOMAIN Tail(todo) \subseteq Nat \ {0}
      /\ \A i \in DOMAIN Tail(todo) : i + 1 \in DOMAIN todo /\ Tail(todo)[i] = todo[i + 1]
  BY <1>2, <1>3, TailKeeps
<1>5. Elements(todo) = {todo[1]} \cup Elements(Tail(todo))
  BY <1>2, <1>3, TailElements
<1>6. Elements(todo') = Elements(Tail(todo))
  BY <1>2 DEF Elements
<1> QED
  BY <1>2, <1>4, <1>5, <1>6

\* What acknowledging an entry does.
LEMMA AckEffect ==
  ASSUME TypeInv, Ack
  PROVE  /\ UNCHANGED <<log, cursor, dlq, overflow, processed, tasks, todo, faults>>
         /\ pc = "ack" /\ pc' = "idle" /\ entry' = <<>> /\ entry # <<>>
         /\ acked' = acked \cup {entry}
<1>1. PlaceOK
  BY TypeInvParts DEF PartsOK
<1>2. /\ UNCHANGED <<log, cursor, dlq, overflow, processed, tasks, todo, faults>>
      /\ pc = "ack" /\ pc' = "idle" /\ entry' = <<>> /\ acked' = acked \cup {entry}
  BY DEF Ack, Goto
<1>3. entry # <<>>
  BY <1>1, <1>2 DEF PlaceOK, Streamed, Entries
<1> QED
  BY <1>2, <1>3

\* The steps of handling an event.
Work == Check \/ Mark \/ Handlers

LEMMA WorkKeeps ==
  ASSUME TypeInv, Work
  PROVE  /\ UNCHANGED <<log, cursor, acked, dlq, overflow, todo, entry, faults>>
         /\ pc \notin {"off", "idle", "ack"} /\ pc' \notin {"off", "idle"}
         /\ event' = event /\ ref' = ref
         /\ processed' = processed \/ (Mark /\ processed' = processed \cup {event})
         /\ pc \in {"announce", "mark"} => pc' \in {"announce", "mark", "ack"}
<1>1. BusOK /\ PlaceOK
  BY TypeInvParts DEF PartsOK
<1>2. CASE Check
  <2>1. /\ UNCHANGED <<log, cursor, acked, dlq, overflow, todo, entry, faults, processed>>
        /\ pc = "check"
    BY <1>2 DEF Check, bus, Goto
  <2>2. event \in Events /\ Kind[event] \in Kinds
    BY <1>1, <2>1, EventType
  <2>3. pc' \in {"ack", "find", "drop", "resolve"}
    <3> HIDE DEF event
    <3> QED
      BY <1>2, <2>2 DEF Check, Goto, Kinds
  <2> QED
    BY <2>1, <2>3 DEF event, ref
<1>3. CASE Mark
  BY <1>3 DEF Mark, bus, Goto, event, ref
<1>4. CASE Handlers
  <2>1. HandlerStep /\ pc' \notin {"off", "idle"} /\ pc # "ack"
        /\ (pc \in {"announce", "mark"} => pc' \in {"announce", "mark"})
    BY <1>4, ResolveEffect, FindEffect, CreateEffect, AnnounceCreatedEffect, UpdateEffect,
       DropEffect, AnnounceEffect DEF Handlers
  <2> QED
    BY <2>1, HandlerKeeps DEF HandlerStep
<1> QED
  BY <1>2, <1>3, <1>4 DEF Work

\* The steps of others, and those that change nothing here.
Others ==
  /\ UNCHANGED <<log, cursor, acked, dlq, overflow, processed, pc, todo, entry, ids, faults>>
  /\ \/ \E m \in Projected : ProjectTask(m)
     \/ \E t \in DOMAIN tasks, s \in Statuses : PatchTask(t, s)
     \/ UNCHANGED tasks

\* A run that is calm after a step was calm before it, and the step no fault.
LEMMA CalmSteps ==
  ASSUME TypeInv, CalmInv, [Next]_vars, Calm'
  PROVE  /\ Calm /\ Fresh /\ Once /\ MessageFirst /\ MadeLast /\ Applied
         /\ (\E e \in Events : Publish(e)) \/ Others \/ Start \/ Fetch \/ Take \/ Ack \/ Work
<1>1. BusOK /\ TablesOK
  BY TypeInvParts DEF PartsOK
<1>2. ~ Error /\ ~ Crash
  BY FaultEffect DEF Calm
<1>3. \/ \E e \in Events : Publish(e) \/ Requeue(e)
      \/ Others \/ Start \/ Fetch \/ Take \/ Ack \/ Work
  <2>1. CASE \/ \E m \in Projected : ProjectTask(m)
             \/ \E t \in DOMAIN tasks, s \in Statuses : PatchTask(t, s)
    BY <2>1 DEF ProjectTask, PatchTask, Others, bus
  <2>2. CASE UNCHANGED vars
    BY <2>2 DEF vars, bus, Others
  <2>3. CASE Consume
    BY <2>3 DEF Consume, Work, Handlers
  <2>4. CASE \E e \in Events : Publish(e) \/ Requeue(e)
    BY <2>4
  <2> QED
    BY <1>2, <2>1, <2>2, <2>3, <2>4 DEF Next, Environment
<1>4. faults' = faults /\ (~ overflow' => ~ overflow)
  <2>1. (\E e \in Events : Publish(e) \/ Requeue(e)) => UNCHANGED <<faults, overflow>>
    BY DEF Publish, Requeue
  <2>2. Fetch => faults' = faults /\ (~ overflow' => ~ overflow)
    BY FetchEffect
  <2>3. Work => UNCHANGED <<faults, overflow>>
    BY WorkKeeps
  <2>4. Start \/ Take \/ Ack \/ Others => UNCHANGED <<faults, overflow>>
    BY DEF Start, Take, Ack, Others, bus
  <2> QED
    BY <1>3, <2>1, <2>2, <2>3, <2>4
<1>5. Calm
  BY <1>4 DEF Calm, FaultsSoFar
<1>6. Fresh /\ Once /\ MessageFirst /\ MadeLast /\ Applied
  BY <1>5 DEF CalmInv
<1>7. \A e \in Events : ~ Requeue(e)
  BY <1>6 DEF Once, Requeue
<1> QED
  BY <1>3, <1>5, <1>6, <1>7

LEMMA FreshStep ==
  ASSUME TypeInv, CalmInv, [Next]_vars, Calm'
  PROVE  Fresh'
<1>1. BusOK /\ PlaceOK /\ cursor \in [Kinds -> Nat]
  BY TypeInvParts DEF PartsOK, BusOK
<1>2. Fresh
  BY CalmSteps
<1>3. \A d \in Delivered : d # <<>> /\ d[2] <= cursor[d[1]]
  BY <1>1, DeliveredIs
<1>4. CASE (\E e \in Events : Publish(e)) \/ Others
  <2>1. UNCHANGED <<cursor, acked, pc, todo, entry>>
    BY <1>4, PublishEffect DEF Others
  <2>2. Delivered' = Delivered /\ Elements(todo)' = Elements(todo)
    BY <2>1 DEF Delivered, Elements
  <2> QED
    BY <1>2, <2>1, <2>2 DEF Fresh
<1>5. CASE Start
  <2>1. UNCHANGED <<cursor, acked, todo, entry>> /\ pc = "off" /\ pc' = "idle"
    BY <1>5 DEF Start, bus, Goto
  <2>2. Delivered' = Delivered /\ Elements(todo)' = Elements(todo)
    BY <2>1 DEF Delivered, Elements
  <2> QED
    BY <1>2, <2>1, <2>2 DEF Fresh
<1>6. CASE Fetch
  <2>1. /\ UNCHANGED <<acked, pc, entry>> /\ pc = "idle" /\ cursor' \in [Kinds -> Nat]
        /\ \A k \in Kinds : cursor[k] <= cursor'[k]
        /\ \A i \in DOMAIN todo' :
             \E k \in Kinds, n \in Nat \ {0} :
               todo'[i] = <<k, n>> /\ cursor[k] < n /\ n <= cursor'[k]
        /\ \A i, j \in DOMAIN todo' : i # j => todo'[i] # todo'[j]
    BY <1>6, FetchEffect
  <2>2. \A k \in Kinds : cursor[k] \in Nat /\ cursor'[k] \in Nat
    BY <1>1, <2>1
  <2>3. Delivered \subseteq Delivered'
    <3>1. ASSUME NEW d \in Delivered
          PROVE  d \in Delivered'
      <4>1. /\ d = <<d[1], d[2]>> /\ d[1] \in Kinds /\ d[2] \in Nat \ {0} /\ d[2] <= cursor[d[1]]
        BY <1>1, DeliveredIs
      <4>2. d[2] \in 1..cursor'[d[1]]
        BY <2>1, <2>2, <4>1
      <4>3. d \in {<<d[1], i>> : i \in 1..cursor'[d[1]]}
        BY <4>1, <4>2
      <4> QED
        BY <4>1, <4>3 DEF Delivered
    <3> QED
      BY <3>1
  <2>4. ASSUME NEW i \in DOMAIN todo'
        PROVE  todo'[i] \in Delivered' /\ todo'[i] \notin Delivered /\ todo'[i] # <<>>
    <3>1. PICK k \in Kinds : \E n \in Nat \ {0} :
            todo'[i] = <<k, n>> /\ cursor[k] < n /\ n <= cursor'[k]
      BY <2>1, <2>4
    <3>2. PICK n \in Nat \ {0} : todo'[i] = <<k, n>> /\ cursor[k] < n /\ n <= cursor'[k]
      BY <3>1
    <3>3. n \in 1..cursor'[k] /\ ~ (n <= cursor[k])
      BY <2>2, <3>2
    <3>4. <<k, n>> \notin Delivered
      BY <1>3, <3>3
    <3>5. <<k, n>> \in Delivered'
      BY <3>3 DEF Delivered
    <3> QED
      BY <3>2, <3>4, <3>5
  <2>5. entry = <<>>
    BY <1>2, <2>1 DEF Fresh
  <2>6. acked' \subseteq Delivered' /\ Elements(todo)' \subseteq Delivered'
    BY <1>2, <2>1, <2>3, <2>4 DEF Fresh, Elements
  <2>7. \A i \in DOMAIN todo' : todo'[i] \notin acked' /\ todo'[i] # entry'
    BY <1>2, <2>1, <2>4, <2>5 DEF Fresh
  <2> QED
    BY <2>1, <2>5, <2>6, <2>7 DEF Fresh
<1>7. CASE Take
  <2>1. /\ UNCHANGED <<cursor, acked>> /\ pc' = "check"
        /\ 1 \in DOMAIN todo /\ entry' = todo[1]
        /\ DOMAIN todo' \subseteq Nat \ {0}
        /\ \A i \in DOMAIN todo' : i + 1 \in DOMAIN todo /\ todo'[i] = todo[i + 1]
        /\ Elements(todo) = {entry'} \cup Elements(todo')
    BY <1>7, TakeEffect
  <2>2. Delivered' = Delivered
    BY <2>1 DEF Delivered
  <2>3. (\A i \in DOMAIN todo' : i + 1 # 1) /\ (\A i, j \in DOMAIN todo' : i # j => i + 1 # j + 1)
    BY <2>1
  <2>4. entry' \in Delivered' \ acked'
    BY <1>2, <2>1, <2>2 DEF Fresh
  <2>5. \A i \in DOMAIN todo' : todo'[i] \notin acked' /\ todo'[i] # entry'
    BY <1>2, <2>1, <2>3 DEF Fresh
  <2>6. \A i, j \in DOMAIN todo' : i # j => todo'[i] # todo'[j]
    BY <1>2, <2>1, <2>3 DEF Fresh
  <2>7. acked' \subseteq Delivered' /\ Elements(todo') \subseteq Delivered'
    BY <1>2, <2>1, <2>2 DEF Fresh
  <2> QED
    BY <2>1, <2>4, <2>5, <2>6, <2>7 DEF Fresh, Elements
<1>8. CASE Ack
  <2>1. /\ UNCHANGED <<cursor, todo>> /\ pc = "ack" /\ pc' = "idle" /\ entry' = <<>>
        /\ acked' = acked \cup {entry}
    BY <1>8, AckEffect
  <2>2. Delivered' = Delivered /\ Elements(todo)' = Elements(todo)
    BY <2>1 DEF Delivered, Elements
  <2>3. \A i \in DOMAIN todo : todo[i] # <<>>
    BY <1>2, <1>3 DEF Fresh, Elements
  <2> QED
    BY <1>2, <2>1, <2>2, <2>3 DEF Fresh
<1>9. CASE Work
  <2>1. UNCHANGED <<cursor, acked, todo, entry>> /\ pc \notin {"off", "idle"} /\ pc' \notin {"off", "idle"}
    BY <1>9, WorkKeeps
  <2>2. Delivered' = Delivered /\ Elements(todo)' = Elements(todo)
    BY <2>1 DEF Delivered, Elements
  <2> QED
    BY <1>2, <2>1, <2>2 DEF Fresh
<1> QED
  BY <1>4, <1>5, <1>6, <1>7, <1>8, <1>9, CalmSteps

\* What has had its effect has had it, and only a handler's step settles an entry.
LEMMA SettledSteps ==
  ASSUME TypeInv, CalmInv, [Next]_vars, Calm'
  PROVE  /\ \A x : Settled(x) => Settled(x)'
         /\ \A x : Settled(x)' => \/ Settled(x)
                                  \/ Work /\ x = entry /\ pc' \in {"announce", "mark", "ack"}
<1>1. CASE (\E e \in Events : Publish(e)) \/ Others
  BY <1>1, PublishEffect DEF Others, Settled
<1>2. CASE Start
  BY <1>2 DEF Start, bus, Goto, Settled
<1>3. CASE Fetch
  BY <1>3, FetchEffect DEF Settled
<1>4. CASE Take
  <2>1. acked' = acked /\ pc = "idle" /\ pc' = "check"
    BY <1>4, TakeEffect
  <2> QED
    BY <2>1 DEF Settled
<1>5. CASE Ack
  <2>1. acked' = acked \cup {entry} /\ pc = "ack" /\ pc' = "idle"
    BY <1>5, AckEffect
  <2> QED
    BY <2>1 DEF Settled
<1>6. CASE Work
  <2>1. /\ acked' = acked /\ entry' = entry /\ pc # "ack"
        /\ pc \in {"announce", "mark"} => pc' \in {"announce", "mark", "ack"}
    BY <1>6, WorkKeeps
  <2> QED
    BY <1>6, <2>1 DEF Settled
<1> QED
  BY <1>1, <1>2, <1>3, <1>4, <1>5, <1>6, CalmSteps

LEMMA OnceStep ==
  ASSUME TypeInv, CalmInv, [Next]_vars, Calm'
  PROVE  Once'
<1>1. BusOK /\ PlaceOK /\ cursor \in [Kinds -> Nat]
  BY TypeInvParts DEF PartsOK, BusOK
<1>2. Fresh /\ Once
  BY CalmSteps
<1>3. \A d \in Delivered : /\ d # <<>> /\ d = <<d[1], d[2]>> /\ d[1] \in Kinds
                           /\ d[2] \in Nat \ {0} /\ d[2] <= cursor[d[1]]
  BY <1>1, DeliveredIs
<1>4. \A x : Settled(x) => Settled(x)'
  BY SettledSteps
<1>5. CASE \E e \in Events : Publish(e)
  <2>1. PICK e \in Events : Publish(e)
    BY <1>5
  <2>2. UNCHANGED <<cursor, acked, dlq, processed, todo, entry>> /\ Grown(e)
    BY <2>1, PublishEffect
  <2>3. /\ Kind[e] \in Kinds
        /\ \A k \in Kinds :
             /\ Len(log[k]) \in Nat /\ DOMAIN log[k] = 1..Len(log[k])
             /\ \A i \in DOMAIN log[k] : log'[k][i] = log[k][i]
             /\ \A i \in DOMAIN log'[k] :
                  i \in DOMAIN log[k] \/ (k = Kind[e] /\ i = Len(log[k]) + 1 /\ log'[k][i] = e)
    BY <2>2 DEF Grown
  <2>4. \A i \in DOMAIN log[Kind[e]] : log[Kind[e]][i] # e
    BY <2>1 DEF Publish, Elements
  <2>5. ASSUME NEW k \in Kinds, NEW i \in DOMAIN log'[k], NEW j \in DOMAIN log'[k],
               log'[k][i] = log'[k][j]
        PROVE  i = j
    <3>1. CASE i \in DOMAIN log[k] /\ j \in DOMAIN log[k]
      <4>1. log[k][i] = log[k][j]
        BY <2>3, <2>5, <3>1
      <4> QED
        BY <1>2, <3>1, <4>1 DEF Once
    <3>2. CASE i \notin DOMAIN log[k]
      <4>1. k = Kind[e] /\ i = Len(log[k]) + 1 /\ log'[k][i] = e
        BY <2>3, <3>2
      <4>2. j \notin DOMAIN log[k]
        BY <2>3, <2>4, <2>5, <4>1
      <4> QED
        BY <2>3, <4>1, <4>2
    <3>3. CASE j \notin DOMAIN log[k]
      <4>1. k = Kind[e] /\ j = Len(log[k]) + 1 /\ log'[k][j] = e
        BY <2>3, <3>3
      <4>2. i \notin DOMAIN log[k]
        BY <2>3, <2>4, <2>5, <4>1
      <4> QED
        BY <2>3, <4>1, <4>2
    <3> QED
      BY <3>1, <3>2, <3>3
  <2>6. Delivered' = Delivered /\ Elements(todo)' = Elements(todo)
    BY <2>2 DEF Delivered, Elements
  <2>7. \A d \in Delivered : log'[d[1]][d[2]] = log[d[1]][d[2]]
    <3>1. \A k \in Kinds : cursor[k] \in Nat /\ cursor[k] <= Len(log[k])
      BY <1>1 DEF BusOK
    <3>2. \A d \in Delivered : d[2] \in 1..Len(log[d[1]])
      BY <1>3, <2>3, <3>1
    <3> QED
      BY <1>3, <2>3, <3>2
  <2>8. Delivered' \subseteq acked' \cup Elements(todo)' \cup {entry'}
    BY <1>2, <2>2, <2>6 DEF Once
  <2>9. \A p \in processed' : \E x \in Delivered' : Settled(x)' /\ log'[x[1]][x[2]] = p
    BY <1>2, <1>4, <2>2, <2>6, <2>7 DEF Once
  <2>10. dlq' = {}
    BY <1>2, <2>2 DEF Once
  <2> QED
    BY <2>5, <2>8, <2>9, <2>10 DEF Once
<1>6. ASSUME UNCHANGED <<log, dlq>>,
             Delivered' \subseteq acked' \cup Elements(todo)' \cup {entry'},
             \A p \in processed' : \E x \in Delivered' : Settled(x)' /\ log[x[1]][x[2]] = p
      PROVE  Once'
  BY <1>2, <1>6 DEF Once
<1>7. processed' = processed /\ Delivered \subseteq Delivered' =>
        \A p \in processed' : \E x \in Delivered' : Settled(x)' /\ log[x[1]][x[2]] = p
  BY <1>2, <1>4 DEF Once
<1>8. CASE Start \/ Others
  <2>1. UNCHANGED <<log, cursor, acked, dlq, processed, todo, entry>>
    BY <1>8 DEF Start, Others, bus
  <2>2. Delivered' = Delivered /\ Elements(todo)' = Elements(todo)
    BY <2>1 DEF Delivered, Elements
  <2> QED
    BY <1>2, <1>6, <1>7, <2>1, <2>2 DEF Once
<1>9. CASE Fetch
  <2>1. /\ UNCHANGED <<log, acked, dlq, processed, entry>>
        /\ todo = <<>> /\ cursor' \in [Kinds -> Nat]
        /\ \A k \in Kinds : cursor[k] <= cursor'[k]
        /\ \A k \in Kinds, n \in Nat : cursor[k] < n /\ n <= cursor'[k] =>
             \E i \in DOMAIN todo' : todo'[i] = <<k, n>>
    BY <1>9, FetchEffect
  <2>2. Elements(todo) = {}
    BY <2>1 DEF Elements
  <2>3. \A k \in Kinds : cursor[k] \in Nat /\ cursor'[k] \in Nat
    BY <1>1, <2>1
  <2>4. ASSUME NEW d \in Delivered'
        PROVE  d \in acked' \/ d = entry' \/ d \in Elements(todo)'
    <3>1. PICK k \in Kinds : \E i \in 1..cursor'[k] : d = <<k, i>>
      BY <2>4 DEF Delivered
    <3>2. PICK i \in 1..cursor'[k] : d = <<k, i>>
      BY <3>1
    <3>3. CASE i <= cursor[k]
      <4>1. i \in Nat \ {0}
        BY <2>3, <3>2
      <4>2. d \in Delivered
        BY <1>1, <3>2, <3>3, <4>1, DeliveredIs
      <4> QED
        BY <1>2, <2>1, <2>2, <4>2 DEF Once
    <3>4. CASE cursor[k] < i
      <4>1. \E n \in DOMAIN todo' : todo'[n] = d
        BY <2>1, <2>3, <3>2, <3>4
      <4> QED
        BY <4>1 DEF Elements
    <3> QED
      BY <2>3, <3>2, <3>3, <3>4
  <2>5. Delivered \subseteq Delivered'
    <3>1. ASSUME NEW d \in Delivered
          PROVE  d \in Delivered'
      <4>1. d[2] \in 1..cursor'[d[1]]
        BY <1>3, <2>1, <2>3
      <4>2. d \in {<<d[1], i>> : i \in 1..cursor'[d[1]]}
        BY <1>3, <4>1
      <4> QED
        BY <1>3, <4>2 DEF Delivered
    <3> QED
      BY <3>1
  <2>6. Delivered' \subseteq acked' \cup Elements(todo)' \cup {entry'}
    BY <2>4
  <2> QED
    BY <1>6, <1>7, <2>1, <2>5, <2>6
<1>10. CASE Take
  <2>1. /\ UNCHANGED <<log, cursor, acked, dlq, processed>> /\ pc = "idle"
        /\ Elements(todo) = {entry'} \cup Elements(todo')
    BY <1>10, TakeEffect
  <2>2. Delivered' = Delivered /\ entry = <<>>
    BY <1>2, <2>1 DEF Delivered, Fresh
  <2>3. Delivered \subseteq acked \cup {entry'} \cup Elements(todo')
    BY <1>2, <1>3, <2>1, <2>2 DEF Once
  <2>4. Delivered' \subseteq acked' \cup Elements(todo)' \cup {entry'}
    BY <2>1, <2>2, <2>3 DEF Elements
  <2> QED
    BY <1>6, <1>7, <2>1, <2>2, <2>4
<1>11. CASE Ack
  <2>1. UNCHANGED <<log, cursor, dlq, processed, todo>> /\ acked' = acked \cup {entry}
    BY <1>11, AckEffect
  <2>2. Delivered' = Delivered /\ Elements(todo)' = Elements(todo)
    BY <2>1 DEF Delivered, Elements
  <2>3. Delivered' \subseteq acked' \cup Elements(todo)' \cup {entry'}
    BY <1>2, <2>1, <2>2 DEF Once
  <2> QED
    BY <1>6, <1>7, <2>1, <2>2, <2>3
<1>12. CASE Work
  <2>1. /\ UNCHANGED <<log, cursor, acked, dlq, todo, entry>> /\ pc \notin {"off", "idle"}
        /\ processed' = processed \/ (Mark /\ processed' = processed \cup {event})
    BY <1>12, WorkKeeps
  <2>2. Delivered' = Delivered /\ Elements(todo)' = Elements(todo)
    BY <2>1 DEF Delivered, Elements
  <2>3. Delivered' \subseteq acked' \cup Elements(todo)' \cup {entry'}
    BY <1>2, <2>1, <2>2 DEF Once
  <2>4. ASSUME Mark, processed' = processed \cup {event}
        PROVE  \A p \in processed' : \E x \in Delivered' : Settled(x)' /\ log[x[1]][x[2]] = p
    <3>1. PICK h \in Delivered' : h = entry
      BY <1>2, <2>1, <2>2 DEF Fresh
    <3>2. pc' = "ack"
      BY <2>4 DEF Mark, Goto
    <3>3. Settled(h)'
      BY <2>1, <3>1, <3>2 DEF Settled
    <3>4. log[h[1]][h[2]] = event
      BY <3>1 DEF event
    <3> QED
      BY <1>2, <1>4, <2>2, <2>4, <3>3, <3>4 DEF Once
  <2> QED
    BY <1>6, <1>7, <2>1, <2>2, <2>3, <2>4
<1> QED
  BY <1>5, <1>8, <1>9, <1>10, <1>11, <1>12, CalmSteps

LEMMA MessageFirstStep ==
  ASSUME TypeInv, CalmInv, [Next]_vars, Calm'
  PROVE  MessageFirst'
<1>1. BusOK /\ PlaceOK /\ cursor \in [Kinds -> Nat]
  BY TypeInvParts DEF PartsOK, BusOK
<1>2. Fresh /\ Once /\ MessageFirst
  BY CalmSteps
<1>3. /\ Later \subseteq Kinds /\ "message" \in Kinds /\ "message" \notin Later
      /\ \A k \in Kinds : /\ cursor[k] \in Nat /\ Len(log[k]) \in Nat /\ DOMAIN log[k] = 1..Len(log[k])
                          /\ cursor[k] <= Len(log[k])
  BY <1>1, LenProperties DEF BusOK, Kinds, Later
<1>4. \A d \in Delivered : d # <<>> /\ d[2] <= cursor[d[1]]
  BY <1>1, DeliveredIs
<1>5. \A x \in acked \cup {entry} : x = <<>> \/ x \in Delivered
  BY <1>2 DEF Fresh
\* The streams are the same, and what precedes what.
<1>6. ASSUME log' = log,
             \A k \in Later : \A i \in DOMAIN log[k], j \in DOMAIN log["message"] : \A m :
               Precedes(j, m, k, i) => Precedes(j, m, k, i)'
      PROVE  \A k \in Later : \A i \in DOMAIN log'[k] : \A m \in Refs[log'[k][i]] :
               \E j \in DOMAIN log'["message"] : Precedes(j, m, k, i)'
  BY <1>2, <1>6 DEF MessageFirst
<1>7. CASE \E e \in Events : Publish(e)
  <2>1. PICK e \in Events : Publish(e)
    BY <1>7
  <2>2. UNCHANGED <<cursor, acked, todo, entry>> /\ Grown(e)
    BY <2>1, PublishEffect
  <2>3. \A k \in Kinds :
          /\ \A i \in DOMAIN log[k] : i \in DOMAIN log'[k] /\ log'[k][i] = log[k][i]
          /\ \A i \in DOMAIN log'[k] :
               i \in DOMAIN log[k] \/ (k = Kind[e] /\ i = Len(log[k]) + 1 /\ log'[k][i] = e)
    BY <2>2 DEF Grown
  <2>4. ASSUME NEW k \in Later, NEW i \in DOMAIN log'[k], NEW m \in Refs[log'[k][i]]
        PROVE  \E j \in DOMAIN log'["message"] : Precedes(j, m, k, i)'
    <3>1. CASE i \in DOMAIN log[k]
      <4>1. m \in Refs[log[k][i]]
        BY <1>3, <2>3, <3>1
      <4>2. PICK j \in DOMAIN log["message"] : Precedes(j, m, k, i)
        BY <1>2, <3>1, <4>1 DEF MessageFirst
      <4>3. j \in DOMAIN log'["message"] /\ log'["message"][j] = log["message"][j]
        BY <1>3, <2>3
      <4> QED
        BY <2>2, <4>2, <4>3 DEF Precedes
    <3>2. CASE i \notin DOMAIN log[k]
      <4>1. Kind[e] = k /\ i = Len(log[k]) + 1 /\ log'[k][i] = e
        BY <1>3, <2>3, <3>2
      <4>2. PICK j \in DOMAIN log["message"] : m \in Refs[log["message"][j]]
        BY <1>3, <2>1, <4>1 DEF Publish, Elements
      <4>3. j \in DOMAIN log'["message"] /\ log'["message"][j] = log["message"][j]
        BY <1>3, <2>3
      <4>4. ~ (i <= cursor[k])
        BY <1>3, <4>1
      <4>5. <<k, i>> \notin Delivered
        BY <1>4, <4>4
      <4>6. <<k, i>> \notin acked \cup {entry}
        BY <1>5, <4>5
      <4> QED
        BY <2>2, <4>2, <4>3, <4>4, <4>6 DEF Precedes
    <3> QED
      BY <3>1, <3>2
  <2> QED
    BY <1>2, <2>2, <2>4 DEF MessageFirst
<1>8. CASE Start \/ Others \/ Work
  <2>1. UNCHANGED <<log, cursor, acked, todo, entry>>
    BY <1>8, WorkKeeps DEF Start, Others, bus
  <2> QED
    BY <1>2, <2>1 DEF MessageFirst, Precedes
<1>9. CASE Fetch
  <2>1. /\ UNCHANGED <<log, acked, pc, entry>> /\ pc = "idle"
        /\ \A k \in Kinds : ~ overflow' => cursor'[k] = Len(log[k])
        /\ \A i, j \in DOMAIN todo' : i < j /\ todo'[j][1] = "message" => todo'[i][1] = "message"
    BY <1>9, FetchEffect
  <2>2. cursor'["message"] = Len(log["message"])
    BY <1>3, <2>1 DEF Calm
  <2>3. \A k \in Later : \A i \in DOMAIN log[k], j \in DOMAIN log["message"] : \A m :
          Precedes(j, m, k, i) => Precedes(j, m, k, i)'
    <3>1. \A j \in DOMAIN log["message"] : j <= cursor'["message"]
      BY <1>3, <2>2
    <3> QED
      BY <2>1, <3>1 DEF Precedes
  <2>4. entry' = <<>>
    BY <1>2, <2>1 DEF Fresh
  <2> QED
    BY <1>6, <2>1, <2>3, <2>4 DEF MessageFirst
<1>10. CASE Take
  <2>1. /\ UNCHANGED <<log, cursor, acked>> /\ pc = "idle"
        /\ 1 \in DOMAIN todo /\ entry' = todo[1]
        /\ DOMAIN todo \subseteq Nat \ {0} /\ DOMAIN todo' \subseteq Nat \ {0}
        /\ \A i \in DOMAIN todo' : i + 1 \in DOMAIN todo /\ todo'[i] = todo[i + 1]
        /\ Elements(todo) = {entry'} \cup Elements(todo')
    BY <1>10, TakeEffect
  <2>2. \A i \in DOMAIN todo' : 1 < i + 1 /\ \A j \in DOMAIN todo' : i < j => i + 1 < j + 1
    BY <2>1
  <2>3. \A i, j \in DOMAIN todo' : i < j /\ todo'[j][1] = "message" => todo'[i][1] = "message"
    BY <1>2, <2>1, <2>2 DEF MessageFirst
  <2>4. entry'[1] # "message" => \A i \in DOMAIN todo' : todo'[i][1] # "message"
    BY <1>2, <2>1, <2>2 DEF MessageFirst
  <2>5. entry = <<>>
    BY <1>2, <2>1 DEF Fresh
  <2>6. ASSUME NEW k \in Later, NEW i \in DOMAIN log[k], NEW j \in DOMAIN log["message"], NEW m,
               Precedes(j, m, k, i)
        PROVE  Precedes(j, m, k, i)'
    <3>1. ASSUME <<k, i>> = entry'
          PROVE  <<"message", j>> \in acked
      <4>1. i <= cursor[k]
        <5>1. entry' \in Delivered
          BY <1>2, <2>1 DEF Fresh
        <5> QED
          BY <1>4, <3>1, <5>1
      <4>2. j <= cursor["message"] /\ j \in Nat \ {0}
        BY <1>3, <2>6, <4>1 DEF Precedes
      <4>3. <<"message", j>> \in Delivered
        BY <1>1, <1>3, <4>2, DeliveredIs
      <4>4. entry'[1] # "message"
        BY <1>3, <3>1
      <4>5. <<"message", j>> \notin Elements(todo') /\ <<"message", j>> # entry'
        BY <2>4, <4>4 DEF Elements
      <4> QED
        BY <1>2, <2>1, <2>5, <4>3, <4>5 DEF Once
    <3> QED
      BY <2>1, <2>6, <3>1 DEF Precedes
  <2>7. \A k \in Later : \A i \in DOMAIN log'[k] : \A m \in Refs[log'[k][i]] :
          \E j \in DOMAIN log'["message"] : Precedes(j, m, k, i)'
    BY <1>6, <2>1, <2>6
  <2> QED
    BY <2>3, <2>4, <2>7 DEF MessageFirst
<1>11. CASE Ack
  <2>1. /\ UNCHANGED <<log, cursor, todo>> /\ entry' = <<>> /\ acked' = acked \cup {entry}
        /\ entry # <<>>
    BY <1>11, AckEffect
  <2>2. \A k \in Later : \A i \in DOMAIN log[k], j \in DOMAIN log["message"] : \A m :
          Precedes(j, m, k, i) => Precedes(j, m, k, i)'
    BY <2>1 DEF Precedes
  <2> QED
    BY <1>2, <1>6, <2>1, <2>2 DEF MessageFirst
<1> QED
  BY <1>7, <1>8, <1>9, <1>10, <1>11, CalmSteps

\* A message and an edit are about one message, the one in hand.
LEMMA OwnRef ==
  ASSUME NEW e \in Events, Kind[e] # "deleted"
  PROVE  Refs[e] = {CHOOSE m \in Refs[e] : TRUE}
<1>1. Refs[e] \subseteq Messages
  BY DEF Messages
<1>2. IsFiniteSet(Refs[e])
  BY <1>1, FS_Subset, ExtractorAssumption
<1>3. Cardinality(Refs[e]) = 1
  BY ExtractorAssumption
<1>4. PICK x : Refs[e] = {x}
  BY <1>2, <1>3, FS_Singleton
<1> QED
  BY <1>4

\* Row t stays what it was to LaterEventsApply: no row is opened again by the
\* service, and a text is replaced by an edit's, or by memory-projector.
Follows(t) ==
  /\ t \in DOMAIN tasks'
  /\ tasks'[t].ref = tasks[t].ref /\ tasks'[t].by = tasks[t].by
  /\ tasks'[t].status = "open" /\ tasks'[t].setBy = "service" =>
       /\ tasks[t].status = "open" /\ tasks[t].setBy = "service"
       /\ \/ tasks'[t].text = tasks[t].text \/ tasks'[t].text = None
          \/ Kind[tasks'[t].text] = "edited"

LEMMA UpToDateKept ==
  ASSUME NEW t, NEW k, NEW i, Follows(t), UpToDate(t, k, i), log'[k][i] = log[k][i]
  PROVE  UpToDate(t, k, i)'
BY DEF Follows, UpToDate, Confidence

\* With the rows, their messages and their makers stay what they were.
LEMMA SameTable ==
  ASSUME DOMAIN tasks' = DOMAIN tasks, \A t \in DOMAIN tasks : Follows(t)
  PROVE  Made' = Made /\ (MadeLast => MadeLast')
<1>1. \A t \in DOMAIN tasks : tasks'[t].ref = tasks[t].ref /\ tasks'[t].by = tasks[t].by
  BY DEF Follows
<1>2. Made' = Made
  BY <1>1 DEF Made
<1>3. \A t \in Made : t \in DOMAIN tasks
  BY DEF Made
<1>4. ASSUME MadeLast, NEW t \in Made', NEW u \in DOMAIN tasks', tasks'[u].ref = tasks'[t].ref
      PROVE  u <= t
  BY <1>1, <1>2, <1>3, <1>4 DEF MadeLast
<1> QED
  BY <1>2, <1>4 DEF MadeLast

\* A row is inserted, and the others are left as they are.
LEMMA TableAdded ==
  ASSUME tasks \in Seq(TaskRows), NEW r \in TaskRows, tasks' = Append(tasks, r)
  PROVE  /\ Len(tasks) + 1 \in Nat /\ Len(tasks) + 1 \notin DOMAIN tasks
         /\ \A t \in DOMAIN tasks : t <= Len(tasks) + 1
         /\ DOMAIN tasks' = DOMAIN tasks \cup {Len(tasks) + 1}
         /\ tasks'[Len(tasks) + 1] = r
         /\ \A t \in DOMAIN tasks : tasks'[t] = tasks[t] /\ Follows(t)
<1>1. /\ Len(tasks) \in Nat /\ DOMAIN tasks = 1..Len(tasks)
      /\ DOMAIN tasks' = 1..(Len(tasks) + 1)
      /\ \A i \in 1..Len(tasks) : tasks'[i] = tasks[i]
      /\ tasks'[Len(tasks) + 1] = r
  BY AppendKeeps
<1>2. /\ 1..(Len(tasks) + 1) = 1..Len(tasks) \cup {Len(tasks) + 1}
      /\ Len(tasks) + 1 \in Nat /\ Len(tasks) + 1 \notin 1..Len(tasks)
      /\ \A t \in 1..Len(tasks) : t <= Len(tasks) + 1
  BY <1>1
<1>3. \A t \in DOMAIN tasks : t \in DOMAIN tasks' /\ tasks'[t] = tasks[t]
  BY <1>1, <1>2
<1>4. \A t \in DOMAIN tasks : Follows(t)
  BY <1>3 DEF Follows
<1> QED
  BY <1>1, <1>2, <1>3, <1>4

\* Others never make a row for this service, nor undo what an event did.
LEMMA OthersRows ==
  ASSUME TypeInv, Others
  PROVE  /\ \A t \in DOMAIN tasks : Follows(t)
         /\ Made' = Made
         /\ MadeLast => MadeLast'
<1>1. tasks \in Seq(TaskRows)
  BY TypeInvParts DEF PartsOK, TablesOK
<1>2. CASE UNCHANGED tasks
  <2>1. \A t \in DOMAIN tasks : Follows(t)
    BY <1>2 DEF Follows
  <2> QED
    BY <1>2, <2>1, SameTable
<1>3. CASE \E t \in DOMAIN tasks, s \in Statuses : PatchTask(t, s)
  <2>1. PICK t \in DOMAIN tasks : \E s \in Statuses : PatchTask(t, s)
    BY <1>3
  <2>2. PICK s \in Statuses : PatchTask(t, s)
    BY <2>1
  <2> DEFINE r == [tasks[t] EXCEPT !.status = s, !.setBy = "admin"]
  <2>3. tasks' = [tasks EXCEPT ![t] = r]
    BY <2>2 DEF PatchTask
  <2>4. tasks[t] \in TaskRows
    BY <1>1, <2>2
  <2>5. /\ r \in TaskRows /\ r.ref = tasks[t].ref /\ r.by = tasks[t].by /\ r.setBy = "admin"
    BY <2>4 DEF TaskRows
  <2> HIDE DEF r
  <2>6. /\ DOMAIN tasks' = DOMAIN tasks
        /\ tasks'[t] = r /\ \A u \in DOMAIN tasks : u # t => tasks'[u] = tasks[u]
    BY <1>1, <2>3, <2>5, AssignRow
  <2>7. \A u \in DOMAIN tasks : Follows(u)
    BY <2>5, <2>6 DEF Follows
  <2> QED
    BY <2>6, <2>7, SameTable
<1>4. CASE \E m \in Projected : ProjectTask(m)
  <2>1. PICK m \in Projected : ProjectTask(m)
    BY <1>4
  <2>2. CASE \E t \in Rows(m) : tasks' = [tasks EXCEPT ![t].text = None]
    <3>1. PICK t \in Rows(m) : tasks' = [tasks EXCEPT ![t].text = None]
      BY <2>2
    <3> DEFINE r == [tasks[t] EXCEPT !.text = None]
    <3>2. t \in DOMAIN tasks /\ tasks' = [tasks EXCEPT ![t] = r]
      BY <3>1 DEF Rows
    <3>3. tasks[t] \in TaskRows
      BY <1>1, <3>2
    <3>4. /\ r \in TaskRows /\ r.ref = tasks[t].ref /\ r.by = tasks[t].by
          /\ r.status = tasks[t].status /\ r.setBy = tasks[t].setBy /\ r.text = None
      BY <3>3 DEF TaskRows
    <3> HIDE DEF r
    <3>5. /\ DOMAIN tasks' = DOMAIN tasks
          /\ tasks'[t] = r /\ \A u \in DOMAIN tasks : u # t => tasks'[u] = tasks[u]
      BY <1>1, <3>2, <3>4, AssignRow
    <3>6. \A u \in DOMAIN tasks : Follows(u)
      BY <3>4, <3>5 DEF Follows
    <3> QED
      BY <3>5, <3>6, SameTable
  <2>3. CASE ~ (\E t \in Rows(m) : tasks' = [tasks EXCEPT ![t].text = None])
    <3> DEFINE r == [ref |-> m, by |-> "memory-projector", text |-> None,
                     status |-> "open", setBy |-> "service"]
               n == Len(tasks) + 1
    <3>1. Rows(m) = {} /\ tasks' = Append(tasks, r)
      BY <2>1, <2>3 DEF ProjectTask
    <3>2. r \in TaskRows /\ r.ref = m /\ r.by = "memory-projector"
      BY ExtractorAssumption DEF TaskRows, Statuses
    <3> HIDE DEF r
    <3>3. /\ n \notin DOMAIN tasks /\ DOMAIN tasks' = DOMAIN tasks \cup {n} /\ tasks'[n] = r
          /\ \A t \in DOMAIN tasks : tasks'[t] = tasks[t] /\ Follows(t)
      BY <1>1, <3>1, <3>2, TableAdded
    <3> HIDE DEF n
    <3>4. Made' = Made
      BY <3>2, <3>3 DEF Made
    <3>5. \A t \in Made : t \in DOMAIN tasks /\ tasks[t].ref # m
      BY <3>1 DEF Made, Rows
    <3>6. ASSUME MadeLast, NEW t \in Made', NEW u \in DOMAIN tasks', tasks'[u].ref = tasks'[t].ref
          PROVE  u <= t
      <4>1. u # n
        BY <3>2, <3>3, <3>4, <3>5, <3>6
      <4> QED
        BY <3>3, <3>4, <3>5, <3>6, <4>1 DEF MadeLast
    <3> QED
      BY <3>3, <3>4, <3>6 DEF MadeLast
  <2> QED
    BY <2>2, <2>3
<1> QED
  BY <1>2, <1>3, <1>4 DEF Others

\* A row is closed or left as it is.
LEMMA ClosedFollow ==
  ASSUME tasks \in Seq(TaskRows), NEW S \in SUBSET DOMAIN tasks, NEW s \in {"done", "dropped"},
         tasks' = Closed(S, s)
  PROVE  /\ DOMAIN tasks' = DOMAIN tasks
         /\ \A t \in DOMAIN tasks : Follows(t) /\ (t \in S => tasks'[t].status # "open")
<1>1. /\ DOMAIN tasks' = DOMAIN tasks
      /\ \A t \in DOMAIN tasks :
           tasks'[t] = IF t \in S THEN [tasks[t] EXCEPT !.status = s, !.setBy = "service"] ELSE tasks[t]
  BY DEF Closed
<1>2. ASSUME NEW t \in DOMAIN tasks
      PROVE  Follows(t) /\ (t \in S => tasks'[t].status # "open")
  <2>1. tasks[t] \in TaskRows
    OBVIOUS
  <2>2. CASE t \in S
    <3>1. tasks'[t] = [tasks[t] EXCEPT !.status = s, !.setBy = "service"]
      BY <1>1, <2>2
    <3>2. /\ tasks'[t].ref = tasks[t].ref /\ tasks'[t].by = tasks[t].by
          /\ tasks'[t].status = s
      BY <2>1, <3>1 DEF TaskRows
    <3> QED
      BY <1>1, <3>2 DEF Follows
  <2>3. CASE t \notin S
    BY <1>1, <2>3 DEF Follows
  <2> QED
    BY <2>2, <2>3
<1> QED
  BY <1>1, <1>2

\* An edit replaces the text of an open row.
LEMMA UpdateFollow ==
  ASSUME TypeInv, Update
  PROVE  /\ DOMAIN tasks' = DOMAIN tasks
         /\ \A t \in DOMAIN tasks : Follows(t)
         /\ \A t \in DOMAIN tasks : t = ids[1] /\ tasks'[t].status = "open" =>
              Kind[tasks'[t].text] = "edited"
<1>1. BusOK /\ PlaceOK /\ tasks \in Seq(TaskRows)
  BY TypeInvParts DEF PartsOK, TablesOK
<1>2. /\ DOMAIN tasks' = DOMAIN tasks
      /\ \A t \in DOMAIN tasks :
           tasks'[t] = IF t = ids[1] /\ tasks[t].status = "open"
                       THEN [tasks[t] EXCEPT !.text = event] ELSE tasks[t]
  BY DEF Update
<1>3. Kind[event] = "edited"
  <2>1. pc = "update"
    BY DEF Update, Goto
  <2> QED
    BY <1>1, <2>1, EventType DEF PlaceOK
<1>4. ASSUME NEW t \in DOMAIN tasks
      PROVE  /\ Follows(t)
             /\ t = ids[1] /\ tasks'[t].status = "open" => Kind[tasks'[t].text] = "edited"
  <2>1. tasks[t] \in TaskRows
    BY <1>1
  <2>2. CASE t = ids[1] /\ tasks[t].status = "open"
    <3>1. tasks'[t] = [tasks[t] EXCEPT !.text = event]
      BY <1>2, <2>2
    <3>2. /\ tasks'[t].ref = tasks[t].ref /\ tasks'[t].by = tasks[t].by
          /\ tasks'[t].status = tasks[t].status /\ tasks'[t].setBy = tasks[t].setBy
          /\ tasks'[t].text = event
      BY <2>1, <3>1 DEF TaskRows
    <3> QED
      BY <1>2, <1>3, <3>2 DEF Follows
  <2>3. CASE ~ (t = ids[1] /\ tasks[t].status = "open")
    BY <1>2, <2>3 DEF Follows
  <2> QED
    BY <2>2, <2>3
<1> QED
  BY <1>2, <1>4

\* Handling an event makes a row only when it is created, and opens none again.
LEMMA WorkRows ==
  ASSUME TypeInv, Work, ~ Create
  PROVE  /\ \A t \in DOMAIN tasks : Follows(t)
         /\ Made' = Made
         /\ MadeLast => MadeLast'
<1>1. tasks \in Seq(TaskRows)
  BY TypeInvParts DEF PartsOK, TablesOK
<1>2. CASE UNCHANGED tasks
  <2>1. \A t \in DOMAIN tasks : Follows(t)
    BY <1>2 DEF Follows
  <2> QED
    BY <1>2, <2>1, SameTable
<1>3. CASE Resolve
  <2>1. Replied \in SUBSET DOMAIN tasks /\ tasks' = Closed(Replied, "done")
    BY <1>3 DEF Resolve, Replied, OpenRows
  <2> QED
    BY <1>1, <2>1, ClosedFollow, SameTable
<1>4. CASE Drop
  <2>1. OpenRows(Refs[event]) \in SUBSET DOMAIN tasks /\ tasks' = Closed(OpenRows(Refs[event]), "dropped")
    BY <1>4 DEF Drop, OpenRows
  <2> QED
    BY <1>1, <2>1, ClosedFollow, SameTable
<1>5. CASE Update
  BY <1>5, UpdateFollow, SameTable
<1>6. CASE Check \/ Mark \/ Find \/ AnnounceCreated \/ Announce
  BY <1>2, <1>6 DEF Check, Mark, Find, AnnounceCreated, Announce
<1> QED
  BY <1>3, <1>4, <1>5, <1>6 DEF Work, Handlers

\* The row created is the last of its message.
LEMMA CreateMade ==
  ASSUME TypeInv, Single, Create
  PROVE  /\ \A t \in DOMAIN tasks : Follows(t)
         /\ Made' = Made \cup {Len(tasks) + 1} /\ Len(tasks) + 1 \notin DOMAIN tasks
         /\ tasks'[Len(tasks) + 1].ref = ref
         /\ MadeLast => MadeLast'
<1> DEFINE r == [ref |-> ref, by |-> "task-extractor", text |-> event,
                 status |-> "open", setBy |-> "service"]
           n == Len(tasks) + 1
<1>1. BusOK /\ PlaceOK /\ tasks \in Seq(TaskRows)
  BY TypeInvParts DEF PartsOK, TablesOK
<1>2. tasks' = Append(tasks, r) /\ pc = "create"
  BY DEF Create, Goto
<1>3. event \in Events /\ ref \in Messages
  BY <1>1, <1>2, HandRef
<1>4. r \in TaskRows /\ r.ref = ref /\ r.by = "task-extractor"
  BY <1>3 DEF TaskRows, Statuses
<1> HIDE DEF r
<1>5. /\ n \in Nat /\ n \notin DOMAIN tasks /\ DOMAIN tasks' = DOMAIN tasks \cup {n} /\ tasks'[n] = r
      /\ \A t \in DOMAIN tasks : t <= n
      /\ \A t \in DOMAIN tasks : tasks'[t] = tasks[t] /\ Follows(t)
  BY <1>1, <1>2, <1>4, TableAdded
<1> HIDE DEF n
<1>6. Made' = Made \cup {n}
  BY <1>4, <1>5 DEF Made
<1>7. \A t \in Made : t \in DOMAIN tasks /\ tasks[t].ref # ref
  BY <1>2 DEF Made, Single, Rows
<1>8. ASSUME MadeLast, NEW t \in Made', NEW u \in DOMAIN tasks', tasks'[u].ref = tasks'[t].ref
      PROVE  u <= t
  <2>1. CASE t = n
    BY <1>5, <1>8, <2>1
  <2>2. CASE t # n
    <3>1. t \in Made /\ tasks'[t] = tasks[t]
      BY <1>5, <1>6, <1>7, <1>8, <2>2
    <3>2. u # n
      BY <1>4, <1>5, <1>7, <1>8, <3>1
    <3> QED
      BY <1>5, <1>8, <3>1, <3>2 DEF MadeLast
  <2> QED
    BY <2>1, <2>2
<1> QED
  BY <1>4, <1>5, <1>6, <1>8 DEF MadeLast, n

LEMMA MadeLastStep ==
  ASSUME TypeInv, Single, CalmInv, [Next]_vars, Calm'
  PROVE  MadeLast'
<1>1. MadeLast
  BY CalmSteps
<1>2. CASE UNCHANGED tasks
  <2>1. \A t \in DOMAIN tasks : Follows(t)
    BY <1>2 DEF Follows
  <2> QED
    BY <1>1, <1>2, <2>1, SameTable
<1>3. CASE (\E e \in Events : Publish(e)) \/ Start \/ Fetch \/ Take \/ Ack
  <2>1. UNCHANGED tasks
    BY <1>3, PublishEffect, FetchEffect DEF Start, Take, Ack
  <2> QED
    BY <1>2, <2>1
<1>4. CASE Others
  BY <1>1, <1>4, OthersRows
<1>5. CASE Work
  BY <1>1, <1>5, WorkRows, CreateMade
<1> QED
  BY <1>3, <1>4, <1>5, CalmSteps

\* FindTask returns the last row of the message.
LEMMA FindTaskLast ==
  ASSUME tasks \in Seq(TaskRows), NEW m, NEW t \in Rows(m)
  PROVE  FindTask(m) \in Rows(m) /\ t <= FindTask(m) /\ FindTask(m) # 0
<1>1. Len(tasks) \in Nat /\ DOMAIN tasks = 1..Len(tasks)
  BY LenProperties
<1>2. Rows(m) \in SUBSET (1..Len(tasks))
  BY <1>1 DEF Rows
<1>3. \E x \in Rows(m) : \A u \in Rows(m) : u <= x
  BY <1>1, <1>2, GreatestNumber
<1>4. FindTask(m) = CHOOSE x \in Rows(m) : \A u \in Rows(m) : u <= x
  BY DEF FindTask
<1>5. FindTask(m) \in Rows(m) /\ \A u \in Rows(m) : u <= FindTask(m)
  BY <1>3, <1>4
<1>6. FindTask(m) # 0
  BY <1>1, <1>2, <1>5
<1> QED
  BY <1>5, <1>6

\* The row an edit is about to change is the one made from its message.
RowInHand == pc = "update" => \A t \in Made : tasks[t].ref = ref => ids[1] = t

LEMMA RowInHandStep ==
  ASSUME TypeInv, CalmInv, [Next]_vars, Calm'
  PROVE  RowInHand'
<1>1. tasks \in Seq(TaskRows)
  BY TypeInvParts DEF PartsOK, TablesOK
<1>2. RowInHand /\ MadeLast
  BY CalmSteps DEF Applied, RowInHand
<1>3. CASE \E e \in Events : Publish(e)
  <2>1. UNCHANGED <<tasks, pc, ids>> /\ (pc \notin {"off", "idle"} => ref' = ref)
    BY <1>3, PublishEffect
  <2> QED
    BY <1>2, <2>1 DEF RowInHand, Made
<1>4. CASE Others
  <2>1. UNCHANGED <<pc, ids>> /\ ref' = ref
    BY <1>4 DEF Others, ref, event
  <2>2. Made' = Made /\ \A t \in Made : tasks'[t].ref = tasks[t].ref
    BY <1>4, OthersRows DEF Follows, Made
  <2> QED
    BY <1>2, <2>1, <2>2 DEF RowInHand
<1>5. CASE Start \/ Fetch \/ Take \/ Ack
  <2>1. pc' \in {"idle", "check"}
    BY <1>5, FetchEffect DEF Start, Take, Ack, Goto
  <2> QED
    BY <2>1 DEF RowInHand
<1>6. CASE Find
  <2>1. UNCHANGED tasks /\ ref' = ref
    BY <1>6, WorkKeeps, FindEffect DEF Work, Handlers
  <2>2. ASSUME pc' = "update", NEW t \in Made, tasks[t].ref = ref
        PROVE  ids'[1] = t
    <3>1. t \in Rows(ref)
      BY <2>2 DEF Rows, Made
    <3>2. FindTask(ref) \in Rows(ref) /\ t <= FindTask(ref) /\ FindTask(ref) # 0
      BY <1>1, <3>1, FindTaskLast
    <3>3. FindTask(ref) <= t
      BY <1>2, <2>2, <3>2 DEF MadeLast, Rows
    <3>4. t \in Nat /\ FindTask(ref) \in Nat
      BY <1>1, <3>1, <3>2, RowNumbers DEF Rows
    <3>5. FindTask(ref) = t
      BY <3>2, <3>3, <3>4
    <3>6. Kind[event] # "message"
      <4>1. Kind[event] = "message" => pc' \in {"mark", "create"}
        BY <1>6 DEF Find, Goto
      <4> QED
        BY <2>2, <4>1
    <3>7. ids' = <<FindTask(ref)>>
      BY <1>6, <3>2, <3>6 DEF Find
    <3> QED
      BY <3>5, <3>7
  <2> QED
    BY <2>1, <2>2 DEF RowInHand, Made
<1>7. CASE Work /\ ~ Find
  <2>1. pc' # "update"
    <3>1. CASE Check
      <4>1. BusOK /\ PlaceOK /\ pc = "check"
        BY <3>1, TypeInvParts DEF PartsOK, Check, Goto
      <4>2. event \in Events /\ Kind[event] \in Kinds
        BY <4>1, EventType
      <4> HIDE DEF event
      <4> QED
        BY <3>1, <4>2 DEF Check, Goto, Kinds
    <3>2. CASE Mark
      BY <3>2 DEF Mark, Goto
    <3>3. CASE Handlers /\ ~ Find
      BY <3>3, ResolveEffect, CreateEffect, AnnounceCreatedEffect, UpdateEffect,
         DropEffect, AnnounceEffect DEF Handlers
    <3> QED
      BY <1>7, <3>1, <3>2, <3>3 DEF Work
  <2> QED
    BY <2>1 DEF RowInHand
<1> QED
  BY <1>3, <1>4, <1>5, <1>6, <1>7, CalmSteps

\* A task is not made after an event about its message has been handled.
LEMMA CreateIsFirst ==
  ASSUME TypeInv, Fresh, Once, MessageFirst, Create, SentOnce(ref),
         NEW k \in Later, NEW i \in DOMAIN log[k], Settled(<<k, i>>), ref \in Refs[log[k][i]]
  PROVE  FALSE
<1>1. BusOK /\ PlaceOK
  BY TypeInvParts DEF PartsOK
<1>2. pc = "create" /\ entry[1] = "message"
  BY CreateEffect
<1>3. event \in Events /\ Kind[event] = "message" /\ entry[2] \in DOMAIN log["message"]
  BY <1>1, <1>2, EventType
<1>4. event = log["message"][entry[2]]
  BY <1>2 DEF event
<1>5. ref \in Refs[event]
  BY <1>3, OwnRef DEF ref
<1>6. PICK j \in DOMAIN log["message"] : Precedes(j, ref, k, i)
  BY DEF MessageFirst
<1>7. <<"message", j>> \in acked /\ ref \in Refs[log["message"][j]]
  BY <1>6 DEF Precedes, Settled
<1>8. log["message"][j] = log["message"][entry[2]]
  BY <1>3, <1>4, <1>5, <1>6, <1>7 DEF SentOnce, Elements
<1>9. j = entry[2]
  BY <1>3, <1>6, <1>8 DEF Once, Kinds
<1>10. entry \in Streamed
  BY <1>1, <1>2 DEF PlaceOK
<1>11. entry = <<"message", j>>
  BY <1>2, <1>9, <1>10 DEF Streamed, Entries
<1>12. entry \notin acked
  BY <1>2 DEF Fresh
<1> QED
  BY <1>7, <1>11, <1>12

\* What the step leaves that settles an edit or a deletion.
LEMMA SettlesUpToDate ==
  ASSUME TypeInv, Fresh, Once, RowInHand, Work, pc' \in {"announce", "mark", "ack"},
         ~ Settled(entry), entry[1] \in Later,
         NEW t \in Made', tasks'[t].ref \in Refs[event]
  PROVE  UpToDate(t, entry[1], entry[2])'
<1>1. BusOK /\ PlaceOK /\ tasks \in Seq(TaskRows)
  BY TypeInvParts DEF PartsOK, TablesOK
<1>2. UNCHANGED <<log, entry>> /\ pc \notin {"off", "idle", "ack"} /\ event' = event
  BY WorkKeeps
<1>3. /\ event \in Events /\ Kind[event] = entry[1] /\ event = log[entry[1]][entry[2]]
      /\ entry[1] \in Kinds /\ entry[2] \in DOMAIN log[entry[1]]
  BY <1>1, <1>2, EventType DEF event
<1>4. entry[1] # "message" /\ pc \notin {"announce", "mark", "ack"} /\ entry[1] \in {"edited", "deleted"}
  BY DEF Later, Settled
<1>5. ~ Mark /\ ~ Resolve /\ ~ Create /\ ~ AnnounceCreated /\ ~ Announce
  <2>1. ~ Mark /\ ~ Announce
    BY <1>4 DEF Mark, Announce, Goto
  <2>2. ~ Resolve
    BY <1>4, ResolveEffect
  <2>3. ~ Create
    BY <1>4, CreateEffect
  <2>4. ~ AnnounceCreated
    BY <1>1, <1>4 DEF AnnounceCreated, Goto, PlaceOK
  <2> QED
    BY <2>1, <2>2, <2>3, <2>4
<1>6. Made' = Made /\ t \in DOMAIN tasks
  BY <1>5, WorkRows DEF Made
\* With an edit in hand the row is of its one message.
<1>7. entry[1] = "edited" => Refs[event] = {ref}
  BY <1>3, OwnRef DEF ref
<1>8. entry[1] = "edited" /\ Confidence(event) = 0 => UpToDate(t, entry[1], entry[2])'
  BY <1>2, <1>3 DEF UpToDate, Confidence
<1>9. CASE Check
  <2>1. pc = "check" /\ UNCHANGED tasks
    BY <1>9 DEF Check, Goto
  <2>2. Empty(event) \/ event \in processed
    <3> HIDE DEF event
    <3> QED
      BY <1>3, <1>4, <1>9 DEF Check, Goto
  <2>3. event \notin processed
    <3>1. ASSUME event \in processed
          PROVE  FALSE
      <4>1. PICK x \in Delivered : Settled(x) /\ log[x[1]][x[2]] = event
        BY <3>1 DEF Once
      <4>2. /\ x = <<x[1], x[2]>> /\ x[1] \in Kinds /\ x[2] \in Nat \ {0} /\ x[2] <= cursor[x[1]]
        BY <1>1, DeliveredIs DEF BusOK
      <4>3. x[2] \in DOMAIN log[x[1]]
        <5>1. cursor[x[1]] \in Nat /\ cursor[x[1]] <= Len(log[x[1]]) /\ Len(log[x[1]]) \in Nat
              /\ DOMAIN log[x[1]] = 1..Len(log[x[1]])
          BY <1>1, <4>2, LenProperties DEF BusOK
        <5> QED
          BY <4>2, <5>1
      <4>4. Kind[event] = x[1]
        BY <1>1, <4>1, <4>2, <4>3 DEF BusOK
      <4>5. x[2] = entry[2]
        <5>1. x[1] = entry[1]
          BY <1>3, <4>4
        <5>2. log[entry[1]][x[2]] = log[entry[1]][entry[2]]
          BY <1>3, <4>1, <5>1
        <5> QED
          BY <1>3, <4>3, <5>1, <5>2 DEF Once
      <4>6. entry = <<entry[1], entry[2]>>
        BY <1>1, <1>2 DEF PlaceOK, Streamed, Entries
      <4>7. x = entry
        BY <1>3, <4>2, <4>4, <4>5, <4>6
      <4> QED
        BY <4>1, <4>7
    <3> QED
      BY <3>1
  <2>4. CASE entry[1] = "edited"
    <3>1. event \in Blank
      BY <1>3, <2>2, <2>3, <2>4 DEF Empty
    <3>2. Confidence(event) = 0
      BY <3>1, ExtractorAssumption DEF Confidence
    <3> QED
      BY <1>8, <2>4, <3>2
  <2>5. CASE entry[1] = "deleted"
    <3>1. Refs[event] = {}
      BY <1>3, <2>2, <2>3, <2>5 DEF Empty
    <3> QED
      BY <3>1
  <2> QED
    BY <1>4, <2>4, <2>5
<1>10. CASE Find
  <2>1. UNCHANGED tasks /\ pc = "find" /\ entry[1] = "edited"
    BY <1>1, <1>4, <1>10, FindEffect DEF PlaceOK
  <2>2. t \in Rows(ref)
    BY <1>6, <1>7, <2>1 DEF Rows
  <2>3. FindTask(ref) # 0
    BY <1>1, <2>2, FindTaskLast
  <2>4. Confidence(event) = 0
    <3>1. Kind[event] # "message"
      BY <1>3, <1>4
    <3>2. pc' = IF FindTask(ref) = 0 \/ Confidence(event) = 0 THEN "mark" ELSE "update"
      BY <1>10, <3>1 DEF Find, Goto
    <3> QED
      BY <2>3, <3>2
  <2> QED
    BY <1>8, <2>1, <2>4
<1>11. CASE Update
  <2>1. pc = "update" /\ entry[1] = "edited"
    BY <1>1, <1>11 DEF Update, Goto, PlaceOK
  <2>2. tasks[t].ref = ref
    BY <1>6, <1>7, <1>11, <2>1, UpdateFollow DEF Follows
  <2>3. t = ids[1]
    BY <1>6, <2>1, <2>2 DEF RowInHand
  <2>4. tasks'[t].status = "open" => Kind[tasks'[t].text] = "edited"
    BY <1>6, <1>11, <2>3, UpdateFollow
  <2>5. entry'[1] = "edited"
    BY <1>2, <2>1
  <2> QED
    BY <2>1, <2>4, <2>5 DEF UpToDate
<1>12. CASE Drop
  <2>1. OpenRows(Refs[event]) \in SUBSET DOMAIN tasks /\ tasks' = Closed(OpenRows(Refs[event]), "dropped")
    BY <1>12 DEF Drop, OpenRows
  <2>2. /\ \A u \in DOMAIN tasks : Follows(u)
        /\ \A u \in OpenRows(Refs[event]) : tasks'[u].status # "open"
    BY <1>1, <2>1, ClosedFollow
  <2>3. tasks[t].status = "open" => t \in OpenRows(Refs[event])
    BY <1>6, <2>2 DEF Follows, OpenRows
  <2>4. ~ (tasks'[t].status = "open" /\ tasks'[t].setBy = "service")
    BY <1>6, <2>2, <2>3 DEF Follows
  <2> QED
    BY <2>4 DEF UpToDate
<1> QED
  BY <1>5, <1>9, <1>10, <1>11, <1>12 DEF Work, Handlers

LEMMA AppliedStep ==
  ASSUME TypeInv, Single, CalmInv, [Next]_vars, Calm'
  PROVE  Applied'
<1>1. BusOK /\ PlaceOK
  BY TypeInvParts DEF PartsOK
<1>2. Fresh /\ Once /\ MessageFirst /\ Applied /\ RowInHand
  BY CalmSteps DEF Applied, RowInHand
<1>3. Later \subseteq Kinds /\ "message" \in Kinds
  BY DEF Later, Kinds
\* What is settled is on its stream, and stays there.
<1>4. ASSUME NEW k \in Later, NEW i, Settled(<<k, i>>)
      PROVE  i \in DOMAIN log[k]
  <2>1. <<k, i>> \in Delivered
    <3>1. pc \notin {"announce", "mark", "ack"} \/ entry \in Delivered
      BY <1>2 DEF Fresh
    <3> QED
      BY <1>2, <1>4, <3>1 DEF Settled, Fresh
  <2>2. <<k, i>>[1] = k /\ <<k, i>>[2] = i
    OBVIOUS
  <2>3. i \in Nat \ {0} /\ i <= cursor[k]
    BY <1>1, <2>1, <2>2, DeliveredIs DEF BusOK
  <2>4. cursor[k] \in Nat /\ cursor[k] <= Len(log[k]) /\ Len(log[k]) \in Nat /\ DOMAIN log[k] = 1..Len(log[k])
    BY <1>1, <1>3, LenProperties DEF BusOK
  <2> QED
    BY <2>3, <2>4
<1>5. \A k \in Kinds : \A i \in DOMAIN log[k] : i \in DOMAIN log'[k] /\ log'[k][i] = log[k][i]
  <2>1. CASE \E e \in Events : Publish(e)
    <3>1. PICK e \in Events : Publish(e)
      BY <2>1
    <3>2. Grown(e)
      BY <3>1, PublishEffect
    <3> QED
      BY <3>2 DEF Grown
  <2>2. CASE Others \/ Start \/ Fetch \/ Take \/ Ack \/ Work
    <3>1. log' = log
      BY <2>2, FetchEffect, WorkKeeps DEF Others, Start, Take, Ack, bus
    <3> QED
      BY <3>1
  <2> QED
    BY <2>1, <2>2, CalmSteps
<1>6. \A m : SentOnce(m)' => SentOnce(m)
  <2>1. Elements(log["message"]) \subseteq Elements(log'["message"])
    BY <1>3, <1>5 DEF Elements
  <2> QED
    BY <2>1 DEF SentOnce, Elements
<1>7. /\ \A t \in DOMAIN tasks : Follows(t)
      /\ \/ Made' = Made
         \/ /\ Create /\ Made' = Made \cup {Len(tasks) + 1} /\ Len(tasks) + 1 \notin DOMAIN tasks
            /\ tasks'[Len(tasks) + 1].ref = ref
  <2>1. CASE Others
    BY <2>1, OthersRows
  <2>2. CASE Work
    BY <2>2, WorkRows, CreateMade
  <2>3. CASE (\E e \in Events : Publish(e)) \/ Start \/ Fetch \/ Take \/ Ack
    <3>1. UNCHANGED tasks
      BY <2>3, PublishEffect, FetchEffect DEF Start, Take, Ack
    <3>2. \A t \in DOMAIN tasks : Follows(t)
      BY <3>1 DEF Follows
    <3> QED
      BY <3>1, <3>2 DEF Made
  <2> QED
    BY <2>1, <2>2, <2>3, CalmSteps
<1>8. ASSUME NEW k \in Later, NEW i \in DOMAIN log'[k], NEW t \in Made', Settled(<<k, i>>)',
             tasks'[t].ref \in Refs[log'[k][i]], SentOnce(tasks[t].ref)'
      PROVE  UpToDate(t, k, i)'
  <2>1. CASE Settled(<<k, i>>)
    <3>1. i \in DOMAIN log[k] /\ log'[k][i] = log[k][i]
      <4>1. i \in DOMAIN log[k]
        BY <1>4, <2>1
      <4> QED
        BY <1>3, <1>5, <4>1
    <3>2. SentOnce(tasks'[t].ref)
      <4>1. PICK m : m = tasks'[t].ref
        OBVIOUS
      <4>2. SentOnce(m)'
        BY <1>8, <4>1 DEF SentOnce
      <4> QED
        BY <1>6, <4>1, <4>2
    <3>3. CASE t \in Made
      <4>1. t \in DOMAIN tasks /\ Follows(t)
        BY <1>7, <3>3 DEF Made
      <4>2. tasks'[t].ref = tasks[t].ref
        BY <4>1 DEF Follows
      <4>3. UpToDate(t, k, i)
        BY <1>2, <1>8, <2>1, <3>1, <3>2, <3>3, <4>2 DEF Applied
      <4> QED
        BY <3>1, <4>1, <4>3, UpToDateKept
    <3>4. CASE t \notin Made
      <4>1. Create /\ tasks'[t].ref = ref
        BY <1>7, <1>8, <3>4
      <4> QED
        BY <1>2, <1>8, <2>1, <3>1, <3>2, <4>1, CreateIsFirst
    <3> QED
      BY <3>3, <3>4
  <2>2. CASE ~ Settled(<<k, i>>)
    <3>1. Work /\ <<k, i>> = entry /\ pc' \in {"announce", "mark", "ack"}
      BY <1>8, <2>2, SettledSteps
    <3>2. entry[1] = k /\ entry[2] = i /\ ~ Settled(entry)
      BY <2>2, <3>1
    <3>3. log' = log /\ event = log[k][i]
      BY <3>1, <3>2, WorkKeeps DEF event
    <3>4. tasks'[t].ref \in Refs[event]
      BY <1>8, <3>3
    <3>5. UpToDate(t, entry[1], entry[2])'
      BY <1>2, <1>8, <3>1, <3>2, <3>4, SettlesUpToDate
    <3>6. entry' = entry
      BY <3>1, WorkKeeps
    <3> QED
      BY <3>2, <3>5, <3>6
  <2> QED
    BY <2>1, <2>2
<1>9. RowInHand'
  BY RowInHandStep
<1>10. \A k \in Later : \A i \in DOMAIN log'[k], t \in Made' :
         /\ Settled(<<k, i>>)'
         /\ tasks'[t].ref \in Refs[log'[k][i]] /\ SentOnce(tasks[t].ref)'
         => UpToDate(t, k, i)'
  BY <1>8
<1> QED
  BY <1>9, <1>10 DEF Applied, RowInHand

LEMMA CalmStep ==
  ASSUME TypeInv, Single, CalmInv, [Next]_vars
  PROVE  CalmInv'
<1>1. ASSUME Calm'
      PROVE  Fresh' /\ Once' /\ MessageFirst' /\ MadeLast' /\ Applied'
  BY <1>1, FreshStep, OnceStep, MessageFirstStep, MadeLastStep, AppliedStep
<1> QED
  BY <1>1 DEF CalmInv

LEMMA CalmInit ==
  ASSUME Init
  PROVE  CalmInv
<1>1. \A k \in Kinds : log[k] = <<>> /\ cursor[k] = 0
  BY DEF Init
<1>2. Delivered = {}
  <2>1. 1..0 = {}
    OBVIOUS
  <2> QED
    BY <1>1, <2>1 DEF Delivered
<1>3. DOMAIN <<>> = {}
  OBVIOUS
<1>4. /\ acked = {} /\ dlq = {} /\ processed = {} /\ tasks = <<>> /\ pc = "off"
      /\ todo = <<>> /\ entry = <<>>
  BY DEF Init
<1>5. Made = {} /\ Elements(todo) = {}
  BY <1>3, <1>4 DEF Made, Elements
<1>6. Fresh
  BY <1>2, <1>3, <1>4, <1>5 DEF Fresh
<1>7. Once
  BY <1>1, <1>2, <1>3, <1>4 DEF Once
<1>8. MessageFirst
  BY <1>1, <1>3, <1>4 DEF MessageFirst, Later, Kinds
<1>9. MadeLast /\ Applied
  BY <1>4, <1>5 DEF MadeLast, Applied
<1> QED
  BY <1>6, <1>7, <1>8, <1>9 DEF CalmInv

\* What the run checks is what holds of the acknowledged entries.
LEMMA LaterApply ==
  ASSUME TypeInv, CalmInv
  PROVE  LaterEventsApply
<1>1. CASE Calm
  <2>1. \A k \in Later : \A i \in DOMAIN log[k], t \in Made :
          /\ <<k, i>> \in acked
          /\ tasks[t].ref \in Refs[log[k][i]] /\ SentOnce(tasks[t].ref)
          => UpToDate(t, k, i)
    BY <1>1 DEF CalmInv, Applied, Settled
  <2> QED
    BY <2>1 DEF LaterEventsApply, UpToDate, Later
<1>2. CASE ~ Calm
  BY <1>2, FaultCount DEF Calm, LaterEventsApply
<1> QED
  BY <1>1, <1>2

-----------------------------------------------------------------------------
(***************************************************************************)
(* The theorems.                                                           *)
(***************************************************************************)

LEMMA InvInit == Init => Inv
<1> SUFFICES ASSUME Init PROVE Inv
  OBVIOUS
<1>1. TypeInv
  BY TypeInit
<1>2. tasks = <<>> /\ created = <<>> /\ pc = "off" /\ faults = [k \in FaultKinds |-> 0]
  BY DEF Init
<1>3. DOMAIN tasks = {} /\ DOMAIN created = {}
  BY <1>2
<1>4. Unannounced = {} /\ Untold = {} /\ Elements(created) = {}
  BY <1>3 DEF Unannounced, Made, Untold, Elements
<1>5. FaultsSoFar \in Nat /\ Cardinality(Messages) \in Nat /\ Cardinality({}) = 0
  BY <1>1, FaultCount, ExtractorAssumption, FS_CardinalityType, FS_EmptySet
<1>6. FaultsSoFar * Cardinality(Messages) \in Nat
  BY <1>5
<1>7. Single
  BY <1>2, <1>3 DEF Single, OneTaskPerMessage
<1>8. Creation
  BY <1>2, <1>3, <1>4, <1>5 DEF Creation
<1>9. Closure
  BY <1>2, <1>4, <1>5, <1>6 DEF Closure
<1>10. CalmInv
  BY CalmInit
<1> QED
  BY <1>1, <1>7, <1>8, <1>9, <1>10 DEF Inv

LEMMA InvStep == Inv /\ [Next]_vars => Inv'
BY TypeStep, SingleStep, CreationStep, ClosureStep, CalmStep DEF Inv

\* The invariant holds in every state the consumer can reach.
THEOREM Invariance == Spec => []Inv
  BY InvInit, InvStep, PTL DEF Spec

\* Every variable keeps its type.
THEOREM TypeCorrect == Spec => []TypeOK
<1>1. Inv => TypeOK
  BY DEF Inv, TypeInv
<1> QED
  BY <1>1, Invariance, PTL

\* A message has at most one task of this service's making, and two rows only
\* when the other is memory-projector's, whatever is delivered again.
THEOREM OneTaskPerMessageHolds == Spec => []OneTaskPerMessage
<1>1. Inv => OneTaskPerMessage
  BY DEF Inv, Single
<1> QED
  BY <1>1, Invariance, PTL

\* A task is announced as created at most once, and at most one task per fault
\* is never announced.
THEOREM CreationLossBoundHolds == Spec => []CreationLossBound
<1>1. Inv => CreationLossBound
  BY CreationBounds DEF Inv
<1> QED
  BY <1>1, Invariance, PTL

\* A closure by this service of the only row of a message goes unannounced only
\* with a fault, which costs at most one for each message.
THEOREM ClosureLossBoundHolds == Spec => []ClosureLossBound
<1>1. Inv => ClosureLossBound
  BY ClosureBounds DEF Inv
<1> QED
  BY <1>1, Invariance, PTL

\* While nothing has failed and no stream has held more than a batch, an edit or
\* a deletion that is acknowledged has reached the task made from its message.
THEOREM LaterEventsApplyHolds == Spec => []LaterEventsApply
<1>1. Inv => LaterEventsApply
  BY LaterApply DEF Inv
<1> QED
  BY <1>1, Invariance, PTL
==============================================================================
