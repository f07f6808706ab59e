------------------------- MODULE ChatSummarizerProofs -------------------------
(***************************************************************************)
(* Theorems about ChatSummarizer, for every value of its constants.        *)
(***************************************************************************)
EXTENDS ChatSummarizerInvariant, SequenceTheorems, FiniteSetTheorems, WellFoundedInduction,
  TLAPS

(***************************************************************************)
(* Lemmas about numbers and lists.                                         *)
(***************************************************************************)

\* A set of numbers has a least element.
LEMMA LeastNumber ==
  ASSUME NEW T \in SUBSET Nat, T # {}
  PROVE  \E x \in T : \A y \in T : x <= y
<1> DEFINE R == OpToRel(<, Nat)
<1>1. IsWellFoundedOn(R, Nat)
  BY NatLessThanWellFounded
<1>2. \A x, y \in Nat : x < y => <<x, y>> \in R
  BY DEF OpToRel
<1> HIDE DEF R
<1>3. PICK x \in T : \A y \in T : ~ (<<y, x>> \in R)
  BY <1>1, WFMin, T \subseteq Nat, Zenon
<1>4. ASSUME NEW y \in T
      PROVE  x <= y
  <2>1. ~ (y < x)
    BY <1>2, <1>3
  <2> QED
    BY <2>1
<1> QED
  BY <1>4

\* A set of numbers with a bound has a greatest element.
LEMMA GreatestNumber ==
  ASSUME NEW n \in Nat, NEW S \in SUBSET (1..n), S # {}
  PROVE  \E x \in S : \A y \in S : y <= x
<1> DEFINE T == {n - x : x \in S}
<1>1. T \in SUBSET Nat /\ T # {}
  <2>1. \A x \in S : x \in Nat /\ x <= n /\ n - x \in Nat
    OBVIOUS
  <2>2. T \subseteq Nat
    BY <2>1
  <2>3. T # {}
    BY <2>1
  <2> QED
    BY <2>2, <2>3
<1>2. PICK z \in T : \A y \in T : z <= y
  BY <1>1, LeastNumber
<1>3. PICK x \in S : z = n - x
  BY <1>2
<1>4. \A y \in S : n - x <= n - y
  BY <1>2, <1>3
<1> QED
  BY <1>4

\* Appending keeps every entry in its place.
LEMMA AppendKeeps ==
  ASSUME NEW S, NEW s \in Seq(S), NEW e \in S
  PROVE  /\ Append(s, e) \in Seq(S)
         /\ Len(Append(s, e)) = Len(s) + 1 /\ Len(s) \in Nat
         /\ DOMAIN Append(s, e) = 1..(Len(s) + 1) /\ DOMAIN s = 1..Len(s)
         /\ \A i \in 1..Len(s) : Append(s, e)[i] = s[i]
         /\ Append(s, e)[Len(s) + 1] = e
BY AppendProperties, LenProperties

\* Assigning a place of a sequence keeps its type, in or out of its domain.
LEMMA ExceptKeeps ==
  ASSUME NEW S, NEW s \in Seq(S), NEW i, NEW e \in S
  PROVE  [s EXCEPT ![i] = e] \in Seq(S)
<1>1. DOMAIN s = 1..Len(s) /\ Len(s) \in Nat
  BY LenProperties
<1>2. CASE i \in 1..Len(s)
  BY <1>2, ExceptSeq
<1>3. CASE i \notin 1..Len(s)
  <2>1. [s EXCEPT ![i] = e] = s
    BY <1>1, <1>3
  <2> QED
    BY <2>1
<1> QED
  BY <1>2, <1>3

\* The first of a list, and the rest of it.
LEMMA TailKeeps ==
  ASSUME NEW S, NEW s \in Seq(S), s # <<>>
  PROVE  /\ Head(s) \in S /\ Head(s) = s[1] /\ 1 \in DOMAIN s
         /\ Tail(s) \in Seq(S)
         /\ \A i \in DOMAIN Tail(s) : i + 1 \in DOMAIN s /\ Tail(s)[i] = s[i + 1] /\ i \in Nat
         /\ \A i \in DOMAIN s : i # 1 => i - 1 \in DOMAIN Tail(s) /\ Tail(s)[i - 1] = s[i]
<1>1. /\ Len(s) \in Nat \ {0} /\ DOMAIN s = 1..Len(s)
      /\ Head(s) \in S /\ Head(s) = s[1]
      /\ Tail(s) \in Seq(S) /\ Len(Tail(s)) = Len(s) - 1
      /\ DOMAIN Tail(s) = 1..(Len(s) - 1)
      /\ \A i \in 1..(Len(s) - 1) : Tail(s)[i] = s[i + 1]
  BY HeadTailProperties, EmptySeq, LenProperties
<1>2. \A i \in 1..(Len(s) - 1) : i + 1 \in 1..Len(s) /\ i \in Nat
  BY <1>1
<1>3. \A i \in 1..Len(s) : i # 1 => i - 1 \in 1..(Len(s) - 1) /\ i = (i - 1) + 1
  BY <1>1
<1>4. ASSUME NEW i \in 1..Len(s), i # 1
      PROVE  Tail(s)[i - 1] = s[i]
  <2>1. i - 1 \in 1..(Len(s) - 1) /\ i = (i - 1) + 1
    BY <1>3, <1>4
  <2> QED
    BY <1>1, <2>1
<1> QED
  BY <1>1, <1>2, <1>3, <1>4

\* What a joined list holds, and where.
LEMMA JoinKeeps ==
  ASSUME NEW S, NEW s \in Seq(S), NEW t \in Seq(S)
  PROVE  /\ s \o t \in Seq(S)
         /\ \A i \in DOMAIN (s \o t) :
              \/ i \in DOMAIN s /\ (s \o t)[i] = s[i]
              \/ i - Len(s) \in DOMAIN t /\ i > Len(s) /\ (s \o t)[i] = t[i - Len(s)]
         /\ \A i \in DOMAIN s : i \in DOMAIN (s \o t) /\ (s \o t)[i] = s[i] /\ i <= Len(s)
         /\ \A i \in DOMAIN t : i + Len(s) \in DOMAIN (s \o t) /\ (s \o t)[i + Len(s)] = t[i]
         /\ s \o t # <<>> <=> (s # <<>> \/ t # <<>>)
<1>1. /\ s \o t \in Seq(S) /\ Len(s \o t) = Len(s) + Len(t)
      /\ DOMAIN (s \o t) = 1..(Len(s) + Len(t))
      /\ \A i \in 1..(Len(s) + Len(t)) : (s \o t)[i] = IF i <= Len(s) THEN s[i] ELSE t[i - Len(s)]
      /\ DOMAIN s = 1..Len(s) /\ DOMAIN t = 1..Len(t) /\ Len(s) \in Nat /\ Len(t) \in Nat
  BY ConcatProperties, LenProperties
<1>2. ASSUME NEW i \in 1..(Len(s) + Len(t))
      PROVE  \/ i \in 1..Len(s) /\ (s \o t)[i] = s[i]
             \/ i - Len(s) \in 1..Len(t) /\ i > Len(s) /\ (s \o t)[i] = t[i - Len(s)]
  <2>1. CASE i <= Len(s)
    BY <1>1, <2>1
  <2>2. CASE i > Len(s)
    <3>1. i - Len(s) \in 1..Len(t) /\ ~ (i <= Len(s))
      BY <1>1, <2>2
    <3> QED
      BY <1>1, <2>2, <3>1
  <2> QED
    BY <1>1, <2>1, <2>2
<1>3. ASSUME NEW i \in 1..Len(s)
      PROVE  i \in 1..(Len(s) + Len(t)) /\ (s \o t)[i] = s[i] /\ i <= Len(s)
  <2>1. i \in 1..(Len(s) + Len(t)) /\ i <= Len(s)
    BY <1>1
  <2> QED
    BY <1>1, <2>1
<1>4. ASSUME NEW i \in 1..Len(t)
      PROVE  i + Len(s) \in 1..(Len(s) + Len(t)) /\ (s \o t)[i + Len(s)] = t[i]
  <2>1. i + Len(s) \in 1..(Len(s) + Len(t)) /\ ~ (i + Len(s) <= Len(s)) /\ (i + Len(s)) - Len(s) = i
    BY <1>1
  <2>2. (s \o t)[i + Len(s)] = t[(i + Len(s)) - Len(s)]
    BY <1>1, <2>1
  <2> QED
    BY <2>1, <2>2
<1>5. s \o t # <<>> <=> (s # <<>> \/ t # <<>>)
  BY <1>1, EmptySeq
<1> QED
  BY <1>1, <1>2, <1>3, <1>4, <1>5

-----------------------------------------------------------------------------
(***************************************************************************)
(* Type correctness.                                                       *)
(***************************************************************************)

UpdateRows == [id : Nat, key : Keys, covers : Seq(ListEntries)]

\* The parts of TypeInv, by what can disturb them.
BusOK ==
  /\ log \in [Kinds -> Seq(Events)]
  /\ cursor \in [Kinds -> Nat]
  /\ \A k \in Kinds : cursor[k] <= Len(log[k])
  /\ \A k \in Kinds : \A i \in DOMAIN log[k] : Kind[log[k][i]] = k
  /\ acked \subseteq Delivered
  /\ dlq \subseteq Events
  /\ overflow \in BOOLEAN

HandOK ==
  /\ pc \in PcStates
  /\ todo \in Seq(Delivered)
  /\ IF Handling THEN entry \in Delivered ELSE entry = <<>>
  /\ pc = "off" => todo = <<>>

StoresOK ==
  /\ processed \subseteq Events
  /\ window \in [Chats -> Seq(ListEntries)]
  /\ interactions \in [Keys -> Seq(ListEntries)]
  /\ ids \in [Keys -> Nat]
  /\ artifact \in Seq(Seq(ListEntries))
  /\ updates \in Seq(UpdateRows)
  /\ batch \in Seq(ListEntries)
  /\ after \in {"push", "ack"}
  /\ faults \in [FaultKinds -> Nat]

StageOK ==
  /\ pc \in {"roll", "push", "full"} \/ Flushing => entry[1] = "message"
  /\ pc \in {"scan", "clear", "rewrite"} => entry[1] = "edited" /\ event \in processed
  /\ pc = "mark" => event \notin processed
  /\ HasBatch => batch # <<>> /\ window[chat] \in {batch, <<>>}
  /\ pc = "clear" => window[chat] \in {batch, <<>>}
  /\ pc = "rewrite" => window[chat] = <<>>

PartsOK == BusOK /\ HandOK /\ StoresOK /\ StageOK

\* The id of the row under way.
LEMMA IdType ==
  ASSUME StoresOK, key \in Keys
  PROVE  interactionId \in Nat /\ Len(artifact) \in Nat /\ ids[key] \in Nat
<1>1. Len(artifact) \in Nat
  BY LenProperties DEF StoresOK
<1> QED
  BY <1>1 DEF StoresOK, interactionId

Entries == Kinds \X (Nat \ {0})

\* A delivered entry is a stream and a position up to its cursor.
LEMMA DeliveredIs ==
  ASSUME cursor \in [Kinds -> Nat]
  PROVE  /\ \A d \in Delivered : /\ d \in Entries /\ d = <<d[1], d[2]>> /\ d # <<>>
                                 /\ d[1] \in Kinds /\ d[2] \in Nat \ {0} /\ d[2] <= cursor[d[1]]
         /\ \A k \in Kinds : \A i \in Nat \ {0} : i <= cursor[k] => <<k, i>> \in Delivered
<1>1. \A d \in Delivered : \E k \in Kinds : \E i \in 1..cursor[k] : d = <<k, i>>
  BY DEF Delivered
<1>2. \A k \in Kinds : cursor[k] \in Nat
  OBVIOUS
<1>3. ASSUME NEW d \in Delivered
      PROVE  /\ d \in Entries /\ d = <<d[1], d[2]>> /\ d # <<>>
             /\ d[1] \in Kinds /\ d[2] \in Nat \ {0} /\ d[2] <= cursor[d[1]]
  <2>1. PICK k \in Kinds : \E i \in 1..cursor[k] : d = <<k, i>>
    BY <1>1
  <2>2. PICK i \in 1..cursor[k] : d = <<k, i>>
    BY <2>1
  <2>3. i \in Nat \ {0} /\ i <= cursor[k]
    BY <1>2, <2>2
  <2> QED
    BY <2>2, <2>3 DEF Entries
<1>4. ASSUME NEW k \in Kinds, NEW i \in Nat \ {0}, i <= cursor[k]
      PROVE  <<k, i>> \in Delivered
  <2>1. i \in 1..cursor[k]
    BY <1>2, <1>4
  <2> QED
    BY <2>1 DEF Delivered
<1> QED
  BY <1>3, <1>4

LEMMA TypeInvParts == (TypeInv <=> PartsOK) /\ (TypeInv' <=> PartsOK')
<1>1. TypeInv <=> PartsOK
  <2>1. ASSUME TypeInv
        PROVE  PartsOK
    <3>1. todo \in Seq(Entries) /\ \A i \in DOMAIN todo : todo[i] \in Delivered
      BY <2>1 DEF TypeInv, TypeOK, Control, Entries
    <3>2. todo \in Seq(Delivered)
      BY <3>1
    <3> QED
      BY <2>1, <3>2 DEF TypeInv, TypeOK, Control, PartsOK, BusOK, HandOK, StoresOK, StageOK,
         UpdateRows
  <2>2. ASSUME PartsOK
        PROVE  TypeInv
    <3>1. \A d \in Delivered : d \in Entries
      BY <2>2, DeliveredIs DEF PartsOK, BusOK
    <3>2. todo \in Seq(Delivered) /\ \A i \in DOMAIN todo : todo[i] \in Delivered
      BY <2>2 DEF PartsOK, HandOK
    <3>3. todo \in Seq(Entries)
      BY <3>1, <3>2
    <3>4. acked \subseteq Entries /\ entry \in Entries \cup {<<>>}
      BY <2>2, <3>1 DEF PartsOK, BusOK, HandOK
    <3>5. TypeOK
      BY <2>2, <3>3, <3>4 DEF TypeOK, PartsOK, BusOK, HandOK, StoresOK, Entries, UpdateRows
    <3>6. Control
      BY <2>2, <3>2 DEF Control, PartsOK, BusOK, HandOK, StageOK
    <3> QED
      BY <3>5, <3>6 DEF TypeInv
  <2> QED
    BY <2>1, <2>2
<1>2. TypeInv' <=> PartsOK'
  BY <1>1, PTL
<1> QED
  BY <1>1, <1>2

\* The event in hand, and its chat.
LEMMA EventType ==
  ASSUME BusOK, HandOK, Handling
  PROVE  /\ entry \in Delivered /\ entry[1] \in Kinds
         /\ entry[2] \in Nat \ {0} /\ entry[2] <= cursor[entry[1]]
         /\ entry[2] \in DOMAIN log[entry[1]]
         /\ event \in Events /\ Kind[event] = entry[1] /\ chat \in Chats
<1>1. /\ entry \in Delivered /\ entry[1] \in Kinds /\ entry[2] \in Nat \ {0}
      /\ entry[2] <= cursor[entry[1]]
  BY DeliveredIs DEF HandOK, BusOK
<1>2. /\ log[entry[1]] \in Seq(Events) /\ cursor[entry[1]] <= Len(log[entry[1]])
      /\ cursor[entry[1]] \in Nat
  BY <1>1 DEF BusOK
<1>3. Len(log[entry[1]]) \in Nat /\ DOMAIN log[entry[1]] = 1..Len(log[entry[1]])
  BY <1>2, LenProperties
<1>4. entry[2] \in DOMAIN log[entry[1]]
  BY <1>1, <1>2, <1>3
<1>5. event \in Events /\ Kind[event] = entry[1]
  BY <1>1, <1>2, <1>4 DEF event, BusOK
<1> QED
  BY <1>1, <1>4, <1>5 DEF chat, Chats

\* The row of the list in hand.
LEMMA KeyType ==
  ASSUME BusOK, HandOK, Handling, batch \in Seq(ListEntries), batch # <<>>
  PROVE  key \in Keys
<1>1. event \in Events /\ chat \in Chats
  BY EventType
<1>2. 1 \in DOMAIN batch /\ batch[1] \in ListEntries
  BY TailKeeps
<1>3. batch[1].of \in Events
  BY <1>2 DEF ListEntries
<1> QED
  BY <1>1, <1>3 DEF key, Keys

\* Event e is put on its stream, and what was there stays where it is.
Grown(e) ==
  /\ log' \in [Kinds -> Seq(Events)]
  /\ Kind[e] \in Kinds
  /\ \A k \in Kinds :
       /\ Len(log[k]) \in Nat /\ Len(log'[k]) \in Nat
       /\ DOMAIN log[k] = 1..Len(log[k]) /\ DOMAIN log'[k] = 1..Len(log'[k])
       /\ Len(log[k]) <= Len(log'[k])
       /\ \A i \in DOMAIN log[k] : i \in DOMAIN log'[k] /\ log'[k][i] = log[k][i]
       /\ \A i \in DOMAIN log'[k] :
            i \in DOMAIN log[k] \/ (k = Kind[e] /\ i = Len(log[k]) + 1 /\ log'[k][i] = e)
       /\ \A i \in DOMAIN log'[k] : Kind[log'[k][i]] = k

LEMMA StreamsKept ==
  ASSUME BusOK, NEW e \in Events, log' = [log EXCEPT ![Kind[e]] = Append(@, e)]
  PROVE  Grown(e)
<1>1. Kind[e] \in Kinds
  BY SummarizerAssumption
<1>2. \A k \in Kinds : log[k] \in Seq(Events) /\ Len(log[k]) \in Nat /\ DOMAIN log[k] = 1..Len(log[k])
  BY LenProperties DEF BusOK
<1>3. ASSUME NEW k \in Kinds
      PROVE  /\ log'[k] \in Seq(Events)
             /\ Len(log'[k]) \in Nat /\ DOMAIN log'[k] = 1..Len(log'[k])
             /\ Len(log[k]) <= Len(log'[k])
             /\ \A i \in DOMAIN log[k] : i \in DOMAIN log'[k] /\ log'[k][i] = log[k][i]
             /\ \A i \in DOMAIN log'[k] :
                  i \in DOMAIN log[k] \/ (k = Kind[e] /\ i = Len(log[k]) + 1 /\ log'[k][i] = e)
             /\ \A i \in DOMAIN log'[k] : Kind[log'[k][i]] = k
  <2>1. CASE k = Kind[e]
    <3>1. log'[k] = Append(log[k], e)
      BY <1>1, <2>1 DEF BusOK
    <3>2. /\ Append(log[k], e) \in Seq(Events)
          /\ Len(Append(log[k], e)) = Len(log[k]) + 1 /\ Len(log[k]) \in Nat
          /\ DOMAIN Append(log[k], e) = 1..(Len(log[k]) + 1) /\ DOMAIN log[k] = 1..Len(log[k])
          /\ \A i \in 1..Len(log[k]) : Append(log[k], e)[i] = log[k][i]
          /\ Append(log[k], e)[Len(log[k]) + 1] = e
      BY <1>2, <2>1, AppendKeeps
    <3>3. \A i \in 1..(Len(log[k]) + 1) : i \in DOMAIN log[k] \/ i = Len(log[k]) + 1
      BY <3>2
    <3>4. \A i \in 1..Len(log[k]) : i \in 1..(Len(log[k]) + 1)
      BY <3>2
    <3> QED
      BY <2>1, <3>1, <3>2, <3>3, <3>4 DEF BusOK
  <2>2. CASE k # Kind[e]
    <3>1. log'[k] = log[k] /\ log[k] \in Seq(Events) /\ Len(log[k]) \in Nat
      BY <1>1, <1>2, <2>2 DEF BusOK
    <3> QED
      BY <1>2, <2>2, <3>1 DEF BusOK
  <2> QED
    BY <2>1, <2>2
<1>4. log' \in [Kinds -> Seq(Events)]
  BY <1>3 DEF BusOK
<1> QED
  BY <1>1, <1>2, <1>3, <1>4 DEF Grown

\* What is read from the streams stays so while the events come in.
LEMMA PublishEffect ==
  ASSUME TypeInv, NEW e \in Events, Publish(e) \/ Requeue(e)
  PROVE  /\ log' = [log EXCEPT ![Kind[e]] = Append(@, e)]
         /\ dlq' \subseteq dlq
         /\ UNCHANGED <<cursor, acked, overflow, processed, window, interactions, ids, artifact, updates,
                        pc, todo, entry, batch, after, faults>>
         /\ Delivered' = Delivered
         /\ Handling => event' = event /\ chat' = chat /\ key' = key
<1>1. BusOK /\ HandOK
  BY TypeInvParts DEF PartsOK
<1>2. /\ log' = [log EXCEPT ![Kind[e]] = Append(@, e)]
      /\ dlq' \subseteq dlq
      /\ UNCHANGED <<cursor, acked, overflow, processed, window, interactions, ids, artifact, updates,
                     pc, todo, entry, batch, after, faults>>
  BY DEF Publish, Requeue, stores
<1>3. ASSUME Handling
      PROVE  event' = event
  <2>1. entry[1] \in Kinds /\ entry[2] \in DOMAIN log[entry[1]]
    BY <1>1, <1>3, EventType
  <2>2. log'[entry[1]][entry[2]] = log[entry[1]][entry[2]]
    <3>1. Grown(e)
      BY <1>1, <1>2, StreamsKept
    <3> QED
      BY <2>1, <3>1 DEF Grown
  <2> QED
    BY <1>2, <2>2 DEF event
<1>4. Delivered' = Delivered
  BY <1>2 DEF Delivered
<1> QED
  BY <1>2, <1>3, <1>4 DEF chat, key

LEMMA TypePublish ==
  ASSUME TypeInv, NEW e \in Events, Publish(e) \/ Requeue(e)
  PROVE  TypeInv'
<1>1. BusOK /\ HandOK /\ StoresOK /\ StageOK
  BY TypeInvParts DEF PartsOK
<1>2. /\ log' = [log EXCEPT ![Kind[e]] = Append(@, e)]
      /\ dlq' \subseteq dlq
      /\ UNCHANGED <<cursor, acked, overflow, processed, window, interactions, ids, artifact, updates,
                     pc, todo, entry, batch, after, faults>>
      /\ Delivered' = Delivered
      /\ Handling => event' = event /\ chat' = chat /\ key' = key
  BY PublishEffect
<1>3. BusOK'
  <2>1. /\ log' \in [Kinds -> Seq(Events)]
        /\ \A k \in Kinds :
             /\ Len(log[k]) \in Nat /\ Len(log'[k]) \in Nat
             /\ Len(log[k]) <= Len(log'[k])
             /\ \A i \in DOMAIN log'[k] : Kind[log'[k][i]] = k
    <3>1. Grown(e)
      BY <1>1, <1>2, StreamsKept
    <3> QED
      BY <3>1 DEF Grown
  <2>2. ASSUME NEW k \in Kinds
        PROVE  cursor[k] <= Len(log'[k])
    <3>1. cursor[k] \in Nat /\ cursor[k] <= Len(log[k])
      BY <1>1 DEF BusOK
    <3>2. Len(log[k]) <= Len(log'[k]) /\ Len(log[k]) \in Nat /\ Len(log'[k]) \in Nat
      BY <2>1
    <3> QED
      BY <3>1, <3>2
  <2> QED
    BY <1>1, <1>2, <2>1, <2>2 DEF BusOK
<1>4. HandOK'
  BY <1>1, <1>2 DEF HandOK, Handling
<1>5. StoresOK'
  BY <1>1, <1>2 DEF StoresOK
<1>6. StageOK'
  BY <1>1, <1>2 DEF StageOK, Handling, HasBatch, Flushing
<1> QED
  BY <1>3, <1>4, <1>5, <1>6, TypeInvParts DEF PartsOK

\* What one read returns of a stream.
LEMMA ChunkIs ==
  ASSUME BusOK, NEW k \in Kinds
  PROVE  /\ Chunk(k) \in Seq(Entries)
         /\ Len(Chunk(k)) \in Nat /\ DOMAIN Chunk(k) = 1..Len(Chunk(k))
         /\ cursor[k] + Len(Chunk(k)) <= Len(log[k])
         /\ \A i \in DOMAIN Chunk(k) : Chunk(k)[i] = <<k, cursor[k] + i>>
         /\ ~ (Backlog(k) > BatchSize) => cursor[k] + Len(Chunk(k)) = Len(log[k])
<1> DEFINE n == IF Backlog(k) < BatchSize THEN Backlog(k) ELSE BatchSize
<1>1. /\ cursor[k] \in Nat /\ Len(log[k]) \in Nat /\ cursor[k] <= Len(log[k])
      /\ BatchSize \in Nat
  BY SummarizerAssumption, LenProperties DEF BusOK
<1>2. /\ n \in Nat /\ cursor[k] + n <= Len(log[k])
      /\ ~ (Backlog(k) > BatchSize) => cursor[k] + n = Len(log[k])
  BY <1>1 DEF Backlog
<1>3. Chunk(k) = [i \in 1..n |-> <<k, cursor[k] + i>>]
  BY DEF Chunk
<1> HIDE DEF n
<1>4. \A i \in 1..n : cursor[k] + i \in Nat \ {0}
  BY <1>1, <1>2
<1>5. \A i \in 1..n : <<k, cursor[k] + i>> \in Entries
  BY <1>4 DEF Entries
<1>6. Chunk(k) \in Seq(Entries) /\ Len(Chunk(k)) = n /\ DOMAIN Chunk(k) = 1..n
  BY <1>2, <1>3, <1>5
<1> QED
  BY <1>2, <1>3, <1>6

\* What one read does.
LEMMA FetchEffect ==
  ASSUME TypeInv, Fetch
  PROVE  /\ UNCHANGED <<log, acked, dlq, processed, window, interactions, ids, artifact, updates, pc,
                        entry, batch, after, faults>>
         /\ pc = "idle" /\ entry = <<>>
         /\ cursor' \in [Kinds -> Nat] /\ Delivered \subseteq Delivered'
         /\ \A k \in Kinds : /\ cursor[k] \in Nat /\ cursor'[k] \in Nat /\ Len(log[k]) \in Nat
                             /\ cursor[k] <= cursor'[k] /\ cursor'[k] <= Len(log[k])
                             /\ ~ overflow' => cursor'[k] = Len(log[k])
         /\ overflow' \in BOOLEAN /\ (~ overflow' => ~ overflow)
         /\ todo' \in Seq(Entries) /\ todo' # <<>>
         /\ \A i \in DOMAIN todo' :
              \E k \in Kinds : \E n \in Nat \ {0} :
                todo'[i] = <<k, n>> /\ cursor[k] < n /\ n <= cursor'[k]
         /\ \A i, j \in DOMAIN todo' : i # j => todo'[i] # todo'[j]
         /\ \A i, j \in DOMAIN todo' : i < j /\ todo'[i][1] = "edited" => todo'[j][1] = "edited"
         /\ \A k \in Kinds : \A n \in Nat : cursor[k] < n /\ n <= cursor'[k] =>
              \E i \in DOMAIN todo' : todo'[i] = <<k, n>>
<1> DEFINE M == Chunk("message")
           D == Chunk("edited")
<1>1. BusOK /\ HandOK
  BY TypeInvParts DEF PartsOK
<1>2. /\ UNCHANGED <<log, acked, dlq, processed, window, interactions, ids, artifact, updates, pc,
                     entry, batch, after, faults>>
      /\ pc = "idle" /\ todo' = M \o D /\ M \o D # <<>>
      /\ cursor' = [k \in Kinds |-> cursor[k] + Len(Chunk(k))]
      /\ overflow' = (overflow \/ \E k \in Kinds : Backlog(k) > BatchSize)
  BY DEF Fetch, NextEntries, stores
<1>3. entry = <<>>
  BY <1>1, <1>2 DEF HandOK, Handling
<1>4. "message" \in Kinds /\ "edited" \in Kinds /\ \A k \in Kinds : k = "message" \/ k = "edited"
  BY DEF Kinds
<1>5. ASSUME NEW k \in Kinds
      PROVE  /\ cursor[k] \in Nat /\ cursor'[k] \in Nat /\ Len(log[k]) \in Nat
             /\ cursor'[k] = cursor[k] + Len(Chunk(k)) /\ Len(Chunk(k)) \in Nat
             /\ cursor[k] <= cursor'[k] /\ cursor'[k] <= Len(log[k])
             /\ ~ overflow' => cursor'[k] = Len(log[k])
             /\ Chunk(k) \in Seq(Entries) /\ DOMAIN Chunk(k) = 1..Len(Chunk(k))
             /\ \A i \in DOMAIN Chunk(k) : Chunk(k)[i] = <<k, cursor[k] + i>>
  <2>1. cursor[k] \in Nat /\ Len(log[k]) \in Nat
    BY <1>1, LenProperties DEF BusOK
  <2>2. /\ Chunk(k) \in Seq(Entries)
        /\ Len(Chunk(k)) \in Nat /\ DOMAIN Chunk(k) = 1..Len(Chunk(k))
        /\ cursor[k] + Len(Chunk(k)) <= Len(log[k])
        /\ \A i \in DOMAIN Chunk(k) : Chunk(k)[i] = <<k, cursor[k] + i>>
        /\ ~ (Backlog(k) > BatchSize) => cursor[k] + Len(Chunk(k)) = Len(log[k])
    BY <1>1, ChunkIs
  <2>3. cursor'[k] = cursor[k] + Len(Chunk(k))
    BY <1>2
  <2>4. cursor'[k] \in Nat /\ cursor[k] <= cursor'[k] /\ cursor'[k] <= Len(log[k])
    BY <2>1, <2>2, <2>3
  <2>5. ~ overflow' => ~ (Backlog(k) > BatchSize)
    BY <1>2
  <2> QED
    BY <2>1, <2>2, <2>3, <2>4, <2>5
<1>6. cursor' \in [Kinds -> Nat]
  BY <1>2, <1>5
<1>7. Delivered \subseteq Delivered'
  <2>1. ASSUME NEW d \in Delivered
        PROVE  d \in Delivered'
    <3>1. /\ d = <<d[1], d[2]>> /\ d[1] \in Kinds /\ d[2] \in Nat \ {0} /\ d[2] <= cursor[d[1]]
      BY <1>1, DeliveredIs DEF BusOK
    <3>2. d[2] \in 1..cursor'[d[1]]
      BY <1>5, <3>1
    <3>3. d \in {<<d[1], i>> : i \in 1..cursor'[d[1]]}
      BY <3>1, <3>2
    <3> QED
      BY <3>1, <3>3 DEF Delivered
  <2> QED
    BY <2>1
<1> HIDE DEF M, D
<1>8. /\ M \in Seq(Entries) /\ D \in Seq(Entries)
      /\ DOMAIN M = 1..Len(M) /\ DOMAIN D = 1..Len(D) /\ Len(M) \in Nat /\ Len(D) \in Nat
      /\ cursor'["message"] = cursor["message"] + Len(M)
      /\ cursor'["edited"] = cursor["edited"] + Len(D)
      /\ \A i \in 1..Len(M) : M[i] = <<"message", cursor["message"] + i>>
      /\ \A i \in 1..Len(D) : D[i] = <<"edited", cursor["edited"] + i>>
  BY <1>4, <1>5 DEF M, D
<1>9. /\ M \o D \in Seq(Entries)
      /\ \A i \in DOMAIN (M \o D) :
           \/ i \in DOMAIN M /\ (M \o D)[i] = M[i]
           \/ i - Len(M) \in DOMAIN D /\ i > Len(M) /\ (M \o D)[i] = D[i - Len(M)]
      /\ \A i \in DOMAIN M : i \in DOMAIN (M \o D) /\ (M \o D)[i] = M[i] /\ i <= Len(M)
      /\ \A i \in DOMAIN D : i + Len(M) \in DOMAIN (M \o D) /\ (M \o D)[i + Len(M)] = D[i]
  BY <1>8, JoinKeeps
<1>10. DOMAIN (M \o D) \subseteq Nat
  BY <1>9, LenProperties
<1>11. ASSUME NEW i \in DOMAIN (M \o D)
       PROVE  \/ /\ i \in 1..Len(M) /\ (M \o D)[i] = <<"message", cursor["message"] + i>>
              \/ /\ i \in Nat /\ i > Len(M) /\ i - Len(M) \in 1..Len(D)
                 /\ (M \o D)[i] = <<"edited", cursor["edited"] + (i - Len(M))>>
  BY <1>8, <1>9, <1>10
<1>12. cursor["message"] \in Nat /\ cursor["edited"] \in Nat
  BY <1>4, <1>5
<1>13. ASSUME NEW i \in DOMAIN (M \o D)
       PROVE  \E k \in Kinds : \E n \in Nat \ {0} :
                (M \o D)[i] = <<k, n>> /\ cursor[k] < n /\ n <= cursor'[k]
  <2>1. CASE i \in 1..Len(M) /\ (M \o D)[i] = <<"message", cursor["message"] + i>>
    <3>1. /\ cursor["message"] + i \in Nat \ {0} /\ cursor["message"] < cursor["message"] + i
          /\ cursor["message"] + i <= cursor'["message"]
      BY <1>8, <1>12, <2>1
    <3> QED
      BY <1>4, <2>1, <3>1
  <2>2. CASE /\ i \in Nat /\ i > Len(M) /\ i - Len(M) \in 1..Len(D)
             /\ (M \o D)[i] = <<"edited", cursor["edited"] + (i - Len(M))>>
    <3>1. /\ cursor["edited"] + (i - Len(M)) \in Nat \ {0}
          /\ cursor["edited"] < cursor["edited"] + (i - Len(M))
          /\ cursor["edited"] + (i - Len(M)) <= cursor'["edited"]
      BY <1>8, <1>12, <2>2
    <3> QED
      BY <1>4, <2>2, <3>1
  <2> QED
    BY <1>11, <2>1, <2>2
<1>14. ASSUME NEW i \in DOMAIN (M \o D), NEW j \in DOMAIN (M \o D)
       PROVE  /\ i # j => (M \o D)[i] # (M \o D)[j]
              /\ i < j /\ (M \o D)[i][1] = "edited" => (M \o D)[j][1] = "edited"
  <2>1. CASE i \in 1..Len(M) /\ (M \o D)[i] = <<"message", cursor["message"] + i>>
    BY <1>8, <1>11, <1>12, <2>1
  <2>2. CASE /\ i \in Nat /\ i > Len(M) /\ i - Len(M) \in 1..Len(D)
             /\ (M \o D)[i] = <<"edited", cursor["edited"] + (i - Len(M))>>
    <3>1. CASE j \in 1..Len(M) /\ (M \o D)[j] = <<"message", cursor["message"] + j>>
      BY <1>8, <1>12, <2>2, <3>1
    <3>2. CASE /\ j \in Nat /\ j > Len(M) /\ j - Len(M) \in 1..Len(D)
               /\ (M \o D)[j] = <<"edited", cursor["edited"] + (j - Len(M))>>
      BY <1>8, <1>12, <2>2, <3>2
    <3> QED
      BY <1>11, <3>1, <3>2
  <2> QED
    BY <1>11, <2>1, <2>2
<1>15. ASSUME NEW k \in Kinds, NEW n \in Nat, cursor[k] < n, n <= cursor'[k]
       PROVE  \E i \in DOMAIN (M \o D) : (M \o D)[i] = <<k, n>>
  <2>1. CASE k = "message"
    <3>1. n - cursor["message"] \in 1..Len(M) /\ cursor["message"] + (n - cursor["message"]) = n
      BY <1>8, <1>12, <1>15, <2>1
    <3>2. M[n - cursor["message"]] = <<"message", n>>
      BY <1>8, <3>1
    <3> QED
      BY <1>8, <1>9, <2>1, <3>1, <3>2
  <2>2. CASE k = "edited"
    <3>1. n - cursor["edited"] \in 1..Len(D) /\ cursor["edited"] + (n - cursor["edited"]) = n
      BY <1>8, <1>12, <1>15, <2>2
    <3>2. D[n - cursor["edited"]] = <<"edited", n>>
      BY <1>8, <3>1
    <3> QED
      BY <1>8, <1>9, <2>2, <3>1, <3>2
  <2> QED
    BY <1>4, <2>1, <2>2
<1>16. todo' = M \o D /\ M \o D # <<>>
  BY <1>2 DEF M, D
<1>17. overflow' \in BOOLEAN /\ (~ overflow' => ~ overflow)
  BY <1>1, <1>2 DEF BusOK
<1>18. /\ todo' \in Seq(Entries) /\ todo' # <<>>
       /\ \A i \in DOMAIN todo' :
            \E k \in Kinds : \E n \in Nat \ {0} :
              todo'[i] = <<k, n>> /\ cursor[k] < n /\ n <= cursor'[k]
  BY <1>9, <1>13, <1>16
<1>19. /\ \A i, j \in DOMAIN todo' : i # j => todo'[i] # todo'[j]
       /\ \A i, j \in DOMAIN todo' : i < j /\ todo'[i][1] = "edited" => todo'[j][1] = "edited"
  BY <1>14, <1>16
<1>20. \A k \in Kinds : \A n \in Nat : cursor[k] < n /\ n <= cursor'[k] =>
         \E i \in DOMAIN todo' : todo'[i] = <<k, n>>
  BY <1>15, <1>16
<1>21. \A k \in Kinds : /\ cursor[k] \in Nat /\ cursor'[k] \in Nat /\ Len(log[k]) \in Nat
                        /\ cursor[k] <= cursor'[k] /\ cursor'[k] <= Len(log[k])
                        /\ ~ overflow' => cursor'[k] = Len(log[k])
  BY <1>5
<1> QED
  BY <1>2, <1>3, <1>6, <1>7, <1>17, <1>18, <1>19, <1>20, <1>21, Zenon

\* The steps that handle an event.
Handlers ==
  \/ Check \/ Mark \/ Roll \/ Push \/ Full \/ Read \/ Summarize \/ Store \/ Emit \/ Commit
  \/ Delete \/ Scan \/ Clear \/ Rewrite

\* They leave the streams and the consumer's place alone.
LEMMA HandlerKeeps ==
  ASSUME TypeInv, Handlers
  PROVE  /\ UNCHANGED <<log, cursor, acked, dlq, overflow, todo, entry, faults>>
         /\ Handling /\ Handling' /\ pc' \in PcStates
         /\ event' = event /\ chat' = chat /\ Delivered' = Delivered
         /\ batch' = batch => key' = key
         /\ BusOK' /\ HandOK'
<1>1. BusOK /\ HandOK /\ StoresOK
  BY TypeInvParts DEF PartsOK
<1>2. UNCHANGED <<log, cursor, acked, dlq, overflow, todo, entry, faults>>
  BY DEF Handlers, Check, Mark, Roll, Push, Full, Read, Summarize, Store, Emit, Commit, Delete,
     Scan, Clear, Rewrite, bus, stores
<1>3. Handling /\ pc' \in PcStates \ {"off", "idle"}
  BY <1>1 DEF Handlers, Check, Mark, Roll, Push, Full, Read, Summarize, Store, Emit, Commit,
     Delete, Scan, Clear, Rewrite, Goto, Handling, PcStates, StoresOK
<1>4. Handling'
  BY <1>3 DEF Handling
<1>5. event' = event
  BY <1>2 DEF event
<1>6. Delivered' = Delivered
  BY <1>2 DEF Delivered
<1>7. BusOK' /\ HandOK'
  BY <1>1, <1>2, <1>3, <1>4, <1>6 DEF BusOK, HandOK, Handling
<1> QED
  BY <1>2, <1>3, <1>4, <1>5, <1>6, <1>7 DEF chat, key

LEMMA TypeHandlers ==
  ASSUME TypeInv, Handlers
  PROVE  TypeInv'
<1>1. BusOK /\ HandOK /\ StoresOK /\ StageOK
  BY TypeInvParts DEF PartsOK
<1>2. /\ UNCHANGED <<log, cursor, acked, dlq, overflow, todo, entry, faults>>
      /\ Handling /\ event' = event /\ chat' = chat
      /\ batch' = batch => key' = key
      /\ BusOK' /\ HandOK'
  BY HandlerKeeps
<1>3. event \in Events /\ chat \in Chats /\ Kind[event] = entry[1] /\ entry[1] \in Kinds
  BY <1>1, <1>2, EventType
<1>4. window[chat] \in Seq(ListEntries)
  BY <1>1, <1>3 DEF StoresOK
<1>5. \A c \in Chats : window[c] \in Seq(ListEntries)
  BY <1>1 DEF StoresOK
<1> USE DEF Goto
<1>6. CASE Check
  <2>1. /\ UNCHANGED <<processed, window, interactions, ids, artifact, updates, batch, after>>
        /\ pc = "check" /\ pc' = (IF event \in Blank \/ event \in processed THEN "ack" ELSE "mark")
    BY <1>6 DEF Check, stores
  <2>2. StoresOK'
    BY <1>1, <1>2, <2>1 DEF StoresOK
  <2>3. StageOK'
    <3> HIDE DEF event
    <3>1. pc' = "ack" \/ (pc' = "mark" /\ event \notin processed)
      BY <2>1
    <3> QED
      BY <1>2, <2>1, <3>1 DEF StageOK, HasBatch, Flushing
  <2> QED
    BY <1>2, <2>2, <2>3, TypeInvParts DEF PartsOK
<1>7. CASE Mark
  <2>1. /\ UNCHANGED <<window, interactions, ids, artifact, updates, batch, after>>
        /\ pc = "mark" /\ pc' = (IF Kind[event] = "message" THEN "roll" ELSE "scan")
        /\ processed' = processed \cup {event}
    BY <1>7 DEF Mark, stores
  <2>2. StoresOK'
    BY <1>1, <1>2, <1>3, <2>1 DEF StoresOK
  <2>3. (pc' = "roll" /\ entry[1] = "message") \/ (pc' = "scan" /\ entry[1] = "edited")
    <3> HIDE DEF event
    <3> QED
      BY <1>3, <2>1 DEF Kinds
  <2>4. event' \in processed'
    BY <1>2, <2>1
  <2>5. StageOK'
    BY <1>2, <2>3, <2>4 DEF StageOK, HasBatch, Flushing
  <2> QED
    BY <1>2, <2>2, <2>5, TypeInvParts DEF PartsOK
<1>8. CASE Roll \/ Full
  <2>1. /\ UNCHANGED <<processed, window, interactions, ids, artifact, updates, batch>>
        /\ pc \in {"roll", "full"} /\ pc' \in {"read", "push", "ack"} /\ after' \in {"push", "ack"}
    BY <1>8 DEF Roll, Full, stores
  <2>2. StoresOK'
    BY <1>1, <1>2, <2>1 DEF StoresOK
  <2>3. StageOK'
    BY <1>1, <1>2, <2>1 DEF StageOK, HasBatch, Flushing
  <2> QED
    BY <1>2, <2>2, <2>3, TypeInvParts DEF PartsOK
<1>9. CASE Push
  <2>1. /\ UNCHANGED <<processed, interactions, ids, artifact, updates, batch, after>>
        /\ pc = "push" /\ pc' = "full"
        /\ window' = [window EXCEPT ![chat] = Append(@, [of |-> event, text |-> event])]
    BY <1>9 DEF Push, stores
  <2>2. [of |-> event, text |-> event] \in ListEntries
    BY <1>3 DEF ListEntries
  <2>3. Append(window[chat], [of |-> event, text |-> event]) \in Seq(ListEntries)
    BY <1>4, <2>2, AppendKeeps
  <2>4. window' \in [Chats -> Seq(ListEntries)]
    BY <1>1, <2>1, <2>3 DEF StoresOK
  <2>5. StoresOK'
    BY <1>1, <1>2, <2>1, <2>4 DEF StoresOK
  <2>6. StageOK'
    BY <1>1, <1>2, <2>1 DEF StageOK, HasBatch, Flushing
  <2> QED
    BY <1>2, <2>5, <2>6, TypeInvParts DEF PartsOK
<1>10. CASE Read \/ Scan
  <2>1. /\ UNCHANGED <<processed, window, interactions, ids, artifact, updates, after>>
        /\ batch' = window[chat]
        /\ \/ pc = "read" /\ pc' = after
           \/ pc = "read" /\ pc' = "summarize" /\ window[chat] # <<>>
           \/ pc = "scan" /\ pc' \in {"clear", "ack"}
    BY <1>10 DEF Read, Scan, stores
  <2>2. StoresOK'
    BY <1>1, <1>2, <1>4, <2>1 DEF StoresOK
  <2>3. after \in {"push", "ack"}
    BY <1>1 DEF StoresOK
  <2>4. StageOK'
    <3>1. CASE pc = "read" /\ pc' = after
      BY <1>1, <1>2, <2>1, <2>3, <3>1 DEF StageOK, HasBatch, Flushing
    <3>2. CASE pc = "read" /\ pc' = "summarize" /\ window[chat] # <<>>
      BY <1>1, <1>2, <2>1, <3>2 DEF StageOK, HasBatch, Flushing
    <3>3. CASE pc = "scan" /\ pc' \in {"clear", "ack"}
      BY <1>1, <1>2, <2>1, <3>3 DEF StageOK, HasBatch, Flushing
    <3> QED
      BY <2>1, <3>1, <3>2, <3>3
  <2> QED
    BY <1>2, <2>2, <2>4, TypeInvParts DEF PartsOK
<1>11. CASE Summarize \/ Store \/ Emit \/ Commit
  <2>1. /\ UNCHANGED <<processed, window, batch, after>>
        /\ HasBatch /\ HasBatch' /\ Flushing /\ Flushing'
        /\ pc' \notin {"roll", "push", "full", "scan", "clear", "rewrite", "mark"}
    BY <1>11 DEF Summarize, Store, Emit, Commit, stores, HasBatch, Flushing
  <2>2. batch \in Seq(ListEntries) /\ batch # <<>>
    BY <1>1, <2>1 DEF StoresOK, StageOK
  <2>3. key \in Keys
    BY <1>1, <1>2, <2>2, KeyType
  <2>4. interactionId \in Nat /\ Len(artifact) \in Nat /\ ids[key] \in Nat
    BY <1>1, <2>3, IdType
  <2>5. /\ interactions' \in [Keys -> Seq(ListEntries)]
        /\ ids' \in [Keys -> Nat]
        /\ artifact' \in Seq(Seq(ListEntries))
        /\ updates' \in Seq(UpdateRows)
    <3>1. CASE Summarize
      BY <1>1, <3>1 DEF Summarize, stores, StoresOK
    <3>2. CASE Store
      <4>1. PICK object \in Seq(ListEntries) :
              artifact' = IF ids[key] = 0 THEN Append(artifact, object)
                                         ELSE [artifact EXCEPT ![ids[key]] = object]
        <5>1. <<>> \in Seq(ListEntries)
          OBVIOUS
        <5> QED
          BY <2>2, <3>2, <5>1 DEF Store
      <4>2. artifact \in Seq(Seq(ListEntries)) /\ UNCHANGED <<interactions, ids, updates>>
        BY <1>1, <3>2 DEF StoresOK, Store
      <4>3. CASE ids[key] = 0
        <5>1. artifact' = Append(artifact, object)
          BY <4>1, <4>3
        <5>2. artifact' \in Seq(Seq(ListEntries))
          BY <4>2, <5>1, AppendKeeps
        <5> QED
          BY <1>1, <4>2, <5>2 DEF StoresOK
      <4>4. CASE ids[key] # 0
        <5>1. artifact' \in Seq(Seq(ListEntries))
          BY <4>1, <4>2, <4>4, ExceptKeeps
        <5> QED
          BY <1>1, <4>2, <5>1 DEF StoresOK
      <4> QED
        BY <4>3, <4>4
    <3>3. CASE Emit
      <4>1. updates' = Append(updates, [id |-> interactionId, key |-> key, covers |-> batch])
            /\ UNCHANGED <<interactions, ids, artifact>>
        BY <3>3 DEF Emit
      <4>2. [id |-> interactionId, key |-> key, covers |-> batch] \in UpdateRows
        BY <2>2, <2>3, <2>4 DEF UpdateRows
      <4>3. updates' \in Seq(UpdateRows)
        BY <1>1, <4>1, <4>2, AppendKeeps DEF StoresOK
      <4> QED
        BY <1>1, <4>1, <4>3 DEF StoresOK
    <3>4. CASE Commit
      BY <1>1, <2>2, <2>3, <2>4, <3>4 DEF Commit, StoresOK
    <3> QED
      BY <1>11, <3>1, <3>2, <3>3, <3>4
  <2>6. StoresOK'
    BY <1>1, <1>2, <2>1, <2>5 DEF StoresOK
  <2>7. StageOK'
    BY <1>1, <1>2, <2>1 DEF StageOK
  <2> QED
    BY <1>2, <2>6, <2>7, TypeInvParts DEF PartsOK
<1>12. CASE Delete
  <2>1. /\ UNCHANGED <<processed, interactions, ids, artifact, updates, after>>
        /\ pc = "delete" /\ pc' = after /\ batch' = <<>>
        /\ window' = [window EXCEPT ![chat] = <<>>]
    BY <1>12 DEF Delete, stores
  <2>2. <<>> \in Seq(ListEntries)
    OBVIOUS
  <2>3. window' \in [Chats -> Seq(ListEntries)]
    BY <1>1, <2>1, <2>2 DEF StoresOK
  <2>4. StoresOK'
    BY <1>1, <1>2, <2>1, <2>2, <2>3 DEF StoresOK
  <2>5. StageOK'
    BY <1>1, <1>2, <2>1 DEF StageOK, HasBatch, Flushing, StoresOK
  <2> QED
    BY <1>2, <2>4, <2>5, TypeInvParts DEF PartsOK
<1>13. CASE Clear
  <2>1. /\ UNCHANGED <<processed, interactions, ids, artifact, updates, batch, after>>
        /\ pc = "clear" /\ pc' = "rewrite"
        /\ window' = [window EXCEPT ![chat] = <<>>]
    BY <1>13 DEF Clear, stores
  <2>2. window' \in [Chats -> Seq(ListEntries)] /\ window'[chat] = <<>>
    <3>1. <<>> \in Seq(ListEntries)
      OBVIOUS
    <3> QED
      BY <1>1, <1>3, <2>1, <3>1 DEF StoresOK
  <2>3. StoresOK'
    BY <1>1, <1>2, <2>1, <2>2 DEF StoresOK
  <2>4. StageOK'
    BY <1>1, <1>2, <2>1, <2>2 DEF StageOK, HasBatch, Flushing
  <2> QED
    BY <1>2, <2>3, <2>4, TypeInvParts DEF PartsOK
<1>14. CASE Rewrite
  <2>1. /\ UNCHANGED <<processed, interactions, ids, artifact, updates, batch, after>>
        /\ pc = "rewrite" /\ pc' = "ack"
        /\ window' = [window EXCEPT ![chat] = Edited(batch)]
    BY <1>14 DEF Rewrite, stores
  <2>2. Edited(batch) \in Seq(ListEntries)
    <3>1. batch \in Seq(ListEntries) /\ Len(batch) \in Nat /\ DOMAIN batch = 1..Len(batch)
      BY <1>1, LenProperties DEF StoresOK
    <3> HIDE DEF event
    <3>2. ASSUME NEW b \in ListEntries
          PROVE  [b EXCEPT !.text = event] \in ListEntries
      <4>1. PICK o \in Events : \E x \in Events : b = [of |-> o, text |-> x]
        BY DEF ListEntries
      <4>2. [b EXCEPT !.text = event] = [of |-> o, text |-> event]
        BY <4>1
      <4> QED
        BY <1>3, <4>2 DEF ListEntries
    <3>3. \A i \in DOMAIN batch : batch[i] \in ListEntries /\ [batch[i] EXCEPT !.text = event] \in ListEntries
      BY <3>1, <3>2
    <3>4. \A i \in DOMAIN batch :
            (IF Id[batch[i].of] = Id[event] THEN [batch[i] EXCEPT !.text = event] ELSE batch[i])
              \in ListEntries
      BY <3>3
    <3> QED
      BY <3>1, <3>4 DEF Edited
  <2>3. window' \in [Chats -> Seq(ListEntries)]
    BY <1>1, <2>1, <2>2 DEF StoresOK
  <2>4. StoresOK'
    BY <1>1, <1>2, <2>1, <2>3 DEF StoresOK
  <2>5. StageOK'
    BY <1>2, <2>1 DEF StageOK, HasBatch, Flushing
  <2> QED
    BY <1>2, <2>4, <2>5, TypeInvParts DEF PartsOK
<1> QED
  BY <1>6, <1>7, <1>8, <1>9, <1>10, <1>11, <1>12, <1>13, <1>14 DEF Handlers

\* A fault is counted once.
LEMMA StrikeEffect ==
  ASSUME faults \in [FaultKinds -> Nat], NEW f \in FaultKinds, Strike(f)
  PROVE  /\ faults' \in [FaultKinds -> Nat]
         /\ faults["error"] \in Nat /\ faults["crash"] \in Nat /\ faults["expiry"] \in Nat
         /\ faults' = [faults EXCEPT ![f] = faults[f] + 1]
         /\ FaultsSoFar \in Nat /\ FaultsSoFar' = FaultsSoFar + 1
         /\ LongestList \in Nat \ {0} /\ LongestList' = LongestList + 1
         /\ f = "expiry" => /\ faults'["error"] + faults'["crash"] = faults["error"] + faults["crash"]
                            /\ faults'["expiry"] = faults["expiry"] + 1
         /\ f # "expiry" => /\ faults'["error"] + faults'["crash"]
                                 = (faults["error"] + faults["crash"]) + 1
                            /\ faults'["expiry"] = faults["expiry"]
<1>1. faults' = [faults EXCEPT ![f] = faults[f] + 1] /\ faults' \in [FaultKinds -> Nat]
  BY DEF Strike
<1>2. faults["error"] \in Nat /\ faults["crash"] \in Nat /\ faults["expiry"] \in Nat
  BY DEF FaultKinds
<1>3. f \in {"error", "crash", "expiry"}
  BY DEF FaultKinds
<1>4. \/ /\ f = "error" /\ faults'["error"] = faults["error"] + 1
         /\ faults'["crash"] = faults["crash"] /\ faults'["expiry"] = faults["expiry"]
      \/ /\ f = "crash" /\ faults'["error"] = faults["error"]
         /\ faults'["crash"] = faults["crash"] + 1 /\ faults'["expiry"] = faults["expiry"]
      \/ /\ f = "expiry" /\ faults'["error"] = faults["error"]
         /\ faults'["crash"] = faults["crash"] /\ faults'["expiry"] = faults["expiry"] + 1
  BY <1>1, <1>3 DEF FaultKinds
<1>5. FaultsSoFar \in Nat /\ FaultsSoFar' = FaultsSoFar + 1
  BY <1>2, <1>4 DEF FaultsSoFar
<1>6. LongestList \in Nat \ {0} /\ LongestList' = LongestList + 1
  BY <1>5, SummarizerAssumption DEF LongestList
<1>7. f = "expiry" => /\ faults'["error"] + faults'["crash"] = faults["error"] + faults["crash"]
                      /\ faults'["expiry"] = faults["expiry"] + 1
  BY <1>2, <1>4
<1>8. f # "expiry" => /\ faults'["error"] + faults'["crash"]
                           = (faults["error"] + faults["crash"]) + 1
                      /\ faults'["expiry"] = faults["expiry"]
  BY <1>2, <1>4
<1> QED
  BY <1>1, <1>2, <1>5, <1>6, <1>7, <1>8

\* What an expiry does.
LEMMA ExpireEffect ==
  ASSUME TypeInv, NEW c \in Chats, Expire(c)
  PROVE  /\ UNCHANGED <<log, cursor, acked, dlq, overflow, processed, interactions, ids, artifact,
                        updates, pc, todo, entry, batch, after>>
         /\ window' \in [Chats -> Seq(ListEntries)] /\ window'[c] = <<>>
         /\ \A d \in Chats : d # c => window'[d] = window[d]
         /\ faults \in [FaultKinds -> Nat] /\ "expiry" \in FaultKinds /\ Strike("expiry")
         /\ event' = event /\ chat' = chat /\ key' = key /\ Delivered' = Delivered
<1>1. StoresOK
  BY TypeInvParts DEF PartsOK
<1>2. /\ UNCHANGED <<log, cursor, acked, dlq, overflow, processed, interactions, ids, artifact,
                     updates, pc, todo, entry, batch, after>>
      /\ window' = [window EXCEPT ![c] = <<>>] /\ Strike("expiry")
  BY DEF Expire, bus, stores
<1>3. <<>> \in Seq(ListEntries)
  OBVIOUS
<1>4. /\ window' \in [Chats -> Seq(ListEntries)] /\ window'[c] = <<>>
      /\ \A d \in Chats : d # c => window'[d] = window[d]
  BY <1>1, <1>2, <1>3 DEF StoresOK
<1>5. event' = event
  BY <1>2 DEF event
<1>6. chat' = chat
  BY <1>5 DEF chat
<1>7. key' = key
  BY <1>2, <1>6 DEF key
<1> QED
  BY <1>1, <1>2, <1>4, <1>5, <1>6, <1>7 DEF StoresOK, FaultKinds, Delivered

\* What an error does.
LEMMA ErrorEffect ==
  ASSUME TypeInv, Error
  PROVE  /\ UNCHANGED <<log, cursor, acked, overflow, processed, window, interactions, ids, artifact,
                        updates, todo, entry, batch, after>>
         /\ Handling /\ pc # "ack" /\ pc' = "ack"
         /\ dlq' \subseteq dlq \cup {event}
         /\ faults \in [FaultKinds -> Nat] /\ "error" \in FaultKinds /\ Strike("error")
         /\ event' = event /\ chat' = chat /\ key' = key /\ Delivered' = Delivered
<1>1. StoresOK
  BY TypeInvParts DEF PartsOK
<1>2. /\ UNCHANGED <<log, cursor, acked, overflow, processed, window, interactions, ids, artifact,
                     updates, todo, entry, batch, after>>
      /\ Handling /\ pc # "ack" /\ pc' = "ack"
      /\ dlq' \subseteq dlq \cup {event} /\ Strike("error")
  BY DEF Error, stores, Handling
<1>3. event' = event
  BY <1>2 DEF event
<1>4. chat' = chat
  BY <1>3 DEF chat
<1>5. key' = key
  BY <1>2, <1>4 DEF key
<1> QED
  BY <1>1, <1>2, <1>3, <1>4, <1>5 DEF StoresOK, FaultKinds, Delivered

\* What a crash does.
LEMMA CrashEffect ==
  ASSUME TypeInv, Crash
  PROVE  /\ UNCHANGED <<log, cursor, dlq, overflow, processed, window, interactions, ids, artifact,
                        updates>>
         /\ pc # "off" /\ pc' = "off"
         /\ todo' = <<>> /\ entry' = <<>> /\ batch' = <<>> /\ after' = "ack"
         /\ acked' \in {acked, acked \cup ({entry} \ {<<>>})}
         /\ faults \in [FaultKinds -> Nat] /\ "crash" \in FaultKinds /\ Strike("crash")
         /\ Delivered' = Delivered
<1>1. StoresOK
  BY TypeInvParts DEF PartsOK
<1> QED
  BY <1>1 DEF Crash, stores, StoresOK, FaultKinds, Delivered

LEMMA TypeFaults ==
  ASSUME TypeInv, (\E c \in Chats : Expire(c)) \/ Error \/ Crash
  PROVE  TypeInv'
<1>1. BusOK /\ HandOK /\ StoresOK /\ StageOK
  BY TypeInvParts DEF PartsOK
<1>2. CASE \E c \in Chats : Expire(c)
  <2>1. PICK c \in Chats : Expire(c)
    BY <1>2
  <2>2. /\ UNCHANGED <<log, cursor, acked, dlq, overflow, processed, interactions, ids, artifact,
                       updates, pc, todo, entry, batch, after>>
        /\ window' \in [Chats -> Seq(ListEntries)] /\ window'[c] = <<>>
        /\ \A d \in Chats : d # c => window'[d] = window[d]
        /\ faults' \in [FaultKinds -> Nat]
        /\ event' = event /\ chat' = chat /\ Delivered' = Delivered
    BY <2>1, ExpireEffect, StrikeEffect
  <2>3. Handling => window'[chat] \in {window[chat], <<>>}
    <3>1. Handling => chat \in Chats
      BY <1>1, EventType
    <3> QED
      BY <2>2, <3>1
  <2>4. BusOK' /\ HandOK'
    BY <1>1, <2>2 DEF BusOK, HandOK, Handling
  <2>5. StoresOK'
    BY <1>1, <2>2 DEF StoresOK
  <2>6. StageOK'
    BY <1>1, <2>2, <2>3 DEF StageOK, Handling, HasBatch, Flushing
  <2> QED
    BY <2>4, <2>5, <2>6, TypeInvParts DEF PartsOK
<1>3. CASE Error
  <2>1. /\ UNCHANGED <<log, cursor, acked, overflow, processed, window, interactions, ids, artifact,
                       updates, todo, entry, batch, after>>
        /\ Handling /\ pc' = "ack" /\ dlq' \subseteq dlq \cup {event}
        /\ faults' \in [FaultKinds -> Nat] /\ Delivered' = Delivered
    BY <1>3, ErrorEffect, StrikeEffect
  <2>2. event \in Events
    BY <1>1, <2>1, EventType
  <2>3. BusOK' /\ HandOK'
    BY <1>1, <2>1, <2>2 DEF BusOK, HandOK, Handling, PcStates
  <2>4. StoresOK' /\ StageOK'
    BY <1>1, <2>1 DEF StoresOK, StageOK, HasBatch, Flushing
  <2> QED
    BY <2>3, <2>4, TypeInvParts DEF PartsOK
<1>4. CASE Crash
  <2>1. /\ UNCHANGED <<log, cursor, dlq, overflow, processed, window, interactions, ids, artifact,
                       updates>>
        /\ pc' = "off"
        /\ todo' = <<>> /\ entry' = <<>> /\ batch' = <<>> /\ after' = "ack"
        /\ acked' \in {acked, acked \cup ({entry} \ {<<>>})}
        /\ faults' \in [FaultKinds -> Nat] /\ Delivered' = Delivered
    BY <1>4, CrashEffect, StrikeEffect
  <2>2. entry \in Delivered \/ entry = <<>>
    BY <1>1 DEF HandOK
  <2>3. acked' \subseteq Delivered
    BY <1>1, <2>1, <2>2 DEF BusOK
  <2>4. BusOK' /\ HandOK'
    BY <1>1, <2>1, <2>3 DEF BusOK, HandOK, Handling, PcStates
  <2>5. StoresOK' /\ StageOK'
    BY <1>1, <2>1 DEF StoresOK, StageOK, HasBatch, Flushing
  <2> QED
    BY <2>4, <2>5, TypeInvParts DEF PartsOK
<1> QED
  BY <1>2, <1>3, <1>4

LEMMA TypeLoop ==
  ASSUME TypeInv, Start \/ Fetch \/ Take \/ Ack
  PROVE  TypeInv'
<1>1. BusOK /\ HandOK /\ StoresOK /\ StageOK
  BY TypeInvParts DEF PartsOK
<1> USE DEF Goto
<1>2. CASE Start
  <2>1. /\ UNCHANGED <<log, cursor, acked, dlq, overflow, processed, window, interactions, ids, artifact,
                       updates, todo, entry, batch, after, faults>>
        /\ pc = "off" /\ pc' = "idle" /\ Delivered' = Delivered
    BY <1>2 DEF Start, bus, stores, Delivered
  <2> QED
    BY <1>1, <2>1, TypeInvParts
    DEF PartsOK, BusOK, HandOK, StoresOK, StageOK, Handling, HasBatch, Flushing, PcStates
<1>3. CASE Fetch
  <2>1. /\ UNCHANGED <<log, acked, dlq, processed, window, interactions, ids, artifact, updates, pc,
                       entry, batch, after, faults>>
        /\ pc = "idle" /\ cursor' \in [Kinds -> Nat] /\ Delivered \subseteq Delivered'
        /\ \A k \in Kinds : cursor'[k] <= Len(log[k])
        /\ overflow' \in BOOLEAN /\ todo' \in Seq(Entries)
        /\ \A i \in DOMAIN todo' :
             \E k \in Kinds : \E n \in Nat \ {0} : todo'[i] = <<k, n>> /\ n <= cursor'[k]
    BY <1>3, FetchEffect
  <2>2. \A k \in Kinds : \A n \in Nat \ {0} : n <= cursor'[k] => <<k, n>> \in Delivered'
    <3>1. ASSUME NEW k \in Kinds, NEW n \in Nat \ {0}, n <= cursor'[k]
          PROVE  <<k, n>> \in Delivered'
      <4>1. n \in 1..cursor'[k]
        BY <2>1, <3>1
      <4> QED
        BY <4>1 DEF Delivered
    <3> QED
      BY <3>1
  <2>3. todo' \in Seq(Delivered')
    <3>1. \A i \in DOMAIN todo' : todo'[i] \in Delivered'
      BY <2>1, <2>2
    <3> QED
      BY <2>1, <3>1
  <2>4. BusOK' /\ HandOK'
    BY <1>1, <2>1, <2>3 DEF BusOK, HandOK, Handling
  <2>5. StoresOK' /\ StageOK'
    BY <1>1, <2>1 DEF StoresOK, StageOK, HasBatch, Flushing
  <2> QED
    BY <2>4, <2>5, TypeInvParts DEF PartsOK
<1>4. CASE Take
  <2>1. /\ UNCHANGED <<log, cursor, acked, dlq, overflow, processed, window, interactions, ids, artifact,
                       updates, batch, after, faults>>
        /\ pc' = "check" /\ todo # <<>> /\ entry' = Head(todo) /\ todo' = Tail(todo)
        /\ Delivered' = Delivered
    BY <1>4 DEF Take, bus, stores, Delivered
  <2>2. Head(todo) \in Delivered /\ Tail(todo) \in Seq(Delivered)
    BY <1>1, <2>1, TailKeeps DEF HandOK
  <2>3. BusOK' /\ HandOK'
    BY <1>1, <2>1, <2>2 DEF BusOK, HandOK, Handling, PcStates
  <2>4. StoresOK' /\ StageOK'
    BY <1>1, <2>1 DEF StoresOK, StageOK, HasBatch, Flushing
  <2> QED
    BY <2>3, <2>4, TypeInvParts DEF PartsOK
<1>5. CASE Ack
  <2>1. /\ UNCHANGED <<log, cursor, dlq, overflow, processed, window, interactions, ids, artifact,
                       updates, todo, faults>>
        /\ pc = "ack" /\ pc' = "idle" /\ acked' = acked \cup {entry}
        /\ entry' = <<>> /\ batch' = <<>> /\ after' = "ack"
        /\ Delivered' = Delivered
    BY <1>5 DEF Ack, stores, Delivered
  <2>2. acked' \subseteq Delivered
    BY <1>1, <2>1 DEF BusOK, HandOK, Handling
  <2>3. BusOK' /\ HandOK'
    BY <1>1, <2>1, <2>2 DEF BusOK, HandOK, Handling, PcStates
  <2>4. StoresOK' /\ StageOK'
    BY <1>1, <2>1 DEF StoresOK, StageOK, HasBatch, Flushing
  <2> QED
    BY <2>3, <2>4, TypeInvParts DEF PartsOK
<1> QED
  BY <1>2, <1>3, <1>4, <1>5

LEMMA TypeInit == Init => TypeInv
<1> SUFFICES ASSUME Init PROVE TypeInv
  OBVIOUS
<1>1. \A k \in Kinds : log[k] = <<>> /\ Len(log[k]) = 0 /\ DOMAIN log[k] = {} /\ cursor[k] = 0
  BY DEF Init
<1>2. BusOK
  <2>1. log \in [Kinds -> Seq(Events)] /\ cursor \in [Kinds -> Nat]
    BY DEF Init
  <2>2. acked = {} /\ dlq = {} /\ overflow \in BOOLEAN
    BY DEF Init
  <2>3. \A k \in Kinds : cursor[k] <= Len(log[k])
    BY <1>1
  <2>4. \A k \in Kinds : \A i \in DOMAIN log[k] : Kind[log[k][i]] = k
    BY <1>1
  <2> QED
    BY <2>1, <2>2, <2>3, <2>4 DEF BusOK
<1>3. HandOK
  BY DEF Init, HandOK, Handling, PcStates
<1>4. StoresOK
  BY DEF Init, StoresOK
<1>5. StageOK
  BY DEF Init, StageOK, HasBatch, Flushing
<1> QED
  BY <1>2, <1>3, <1>4, <1>5, TypeInvParts DEF PartsOK

\* The steps, by who takes them.
LEMMA NextCases ==
  ASSUME [Next]_vars
  PROVE  \/ \E e \in Events : Publish(e) \/ Requeue(e)
         \/ \E c \in Chats : Expire(c)
         \/ Start \/ Fetch \/ Take \/ Ack
         \/ Handlers
         \/ Error \/ Crash
         \/ UNCHANGED vars
BY Zenon DEF Next, Consume, Handlers

LEMMA TypeStep == TypeInv /\ [Next]_vars => TypeInv'
<1> SUFFICES ASSUME TypeInv, [Next]_vars PROVE TypeInv'
  OBVIOUS
<1>1. CASE UNCHANGED vars
  <2>1. Delivered' = Delivered
    BY <1>1 DEF vars, bus, Delivered
  <2>2. BusOK /\ HandOK /\ StoresOK /\ StageOK
    BY TypeInvParts DEF PartsOK
  <2>3. BusOK' /\ HandOK'
    BY <1>1, <2>1, <2>2 DEF vars, bus, BusOK, HandOK, Handling
  <2>4. StoresOK'
    BY <1>1, <2>2 DEF vars, stores, StoresOK
  <2>5. event' = event
    BY <1>1 DEF vars, bus, event
  <2>6. chat' = chat
    BY <2>5 DEF chat
  <2>7. UNCHANGED <<pc, entry, processed, batch, window>>
    BY <1>1 DEF vars
  <2>8. StageOK'
    BY <2>2, <2>5, <2>6, <2>7 DEF StageOK, HasBatch, Flushing
  <2> QED
    BY <2>3, <2>4, <2>8, TypeInvParts DEF PartsOK
<1> QED
  BY <1>1, NextCases, TypePublish, TypeFaults, TypeLoop, TypeHandlers

-----------------------------------------------------------------------------
(***************************************************************************)
(* Row, object and last event agree.                                       *)
(***************************************************************************)

\* A new event is the last of its interaction, and of no other.
LEMMA LastUpdateAppend ==
  ASSUME updates \in Seq(UpdateRows), NEW d \in Nat, NEW k \in Keys, NEW b \in Seq(ListEntries),
         updates' = Append(updates, [id |-> d, key |-> k, covers |-> b])
  PROVE  /\ LastUpdate(d)' = b
         /\ \A l \in Nat : l # d => LastUpdate(l)' = LastUpdate(l)
<1> DEFINE u == [id |-> d, key |-> k, covers |-> b]
           n == Len(updates)
<1>1. u \in UpdateRows /\ u.id = d /\ u.covers = b
  BY DEF UpdateRows
<1>2. /\ n \in Nat /\ DOMAIN updates = 1..n /\ DOMAIN updates' = 1..(n + 1)
      /\ \A i \in 1..n : updates'[i] = updates[i]
      /\ updates'[n + 1] = u
  BY <1>1, AppendKeeps
<1> HIDE DEF u, n
<1>3. LastUpdate(d)' = b
  <2> DEFINE mine == {i \in DOMAIN updates' : updates'[i].id = d}
  <2>1. n + 1 \in mine /\ \A i \in mine : i <= n + 1
    BY <1>1, <1>2
  <2>2. \A i \in mine : (\A j \in mine : j <= i) => i = n + 1
    BY <1>2, <2>1
  <2>3. (CHOOSE i \in mine : \A j \in mine : j <= i) = n + 1
    BY <2>1, <2>2
  <2>4. LastUpdate(d)' = updates'[CHOOSE i \in mine : \A j \in mine : j <= i].covers
    BY <2>1 DEF LastUpdate
  <2> QED
    BY <1>1, <1>2, <2>3, <2>4
<1>4. ASSUME NEW l \in Nat, l # d
      PROVE  LastUpdate(l)' = LastUpdate(l)
  <2> DEFINE mine == {i \in DOMAIN updates : updates[i].id = l}
             later == {i \in DOMAIN updates' : updates'[i].id = l}
  <2>1. later = mine
    <3>1. \A i \in 1..n : i \in 1..(n + 1)
      BY <1>2
    <3>2. \A i \in 1..(n + 1) : i \in 1..n \/ i = n + 1
      BY <1>2
    <3> QED
      BY <1>1, <1>2, <1>4, <3>1, <3>2
  <2>2. LastUpdate(l) = IF mine = {} THEN <<>>
                        ELSE updates[CHOOSE i \in mine : \A j \in mine : j <= i].covers
    BY DEF LastUpdate
  <2>3. LastUpdate(l)' = IF later = {} THEN <<>>
                         ELSE updates'[CHOOSE i \in later : \A j \in later : j <= i].covers
    BY DEF LastUpdate
  <2>4. CASE mine # {}
    <3>1. mine \in SUBSET (1..n)
      BY <1>2
    <3>2. \E i \in mine : \A j \in mine : j <= i
      BY <1>2, <2>4, <3>1, GreatestNumber
    <3> DEFINE z == CHOOSE i \in mine : \A j \in mine : j <= i
    <3>3. z \in 1..n
      BY <3>1, <3>2
    <3>4. LastUpdate(l) = updates[z].covers /\ LastUpdate(l)' = updates'[z].covers
      BY <2>1, <2>2, <2>3, <2>4
    <3> HIDE DEF z
    <3> QED
      BY <1>2, <3>3, <3>4
  <2> QED
    BY <2>1, <2>2, <2>3, <2>4
<1> QED
  BY <1>3, <1>4

\* A finite set that gains one element at most.
LEMMA OneMore ==
  ASSUME NEW S, NEW T, NEW x, IsFiniteSet(S), T \subseteq S \cup {x},
         NEW n \in Nat, Cardinality(S) <= n
  PROVE  IsFiniteSet(T) /\ Cardinality(T) <= n + 1 /\ (T \subseteq S => Cardinality(T) <= n)
<1>1. IsFiniteSet(S \cup {x}) /\ Cardinality(S \cup {x}) \in Nat /\ Cardinality(S) \in Nat
  BY FS_AddElement, FS_CardinalityType, Zenon
<1>2. Cardinality(S \cup {x}) <= Cardinality(S) + 1
  <2>1. Cardinality(S \cup {x}) = IF x \in S THEN Cardinality(S) ELSE Cardinality(S) + 1
    BY FS_AddElement, Zenon
  <2> QED
    BY <1>1, <2>1
<1>3. IsFiniteSet(T) /\ Cardinality(T) <= Cardinality(S \cup {x}) /\ Cardinality(T) \in Nat
  BY <1>1, FS_Subset, FS_CardinalityType, Zenon
<1>4. T \subseteq S => Cardinality(T) <= Cardinality(S)
  BY FS_Subset, Zenon
<1> QED
  BY <1>1, <1>2, <1>3, <1>4

LEMMA AgreementInit == Init => Agreement
<1> SUFFICES ASSUME Init PROVE Agreement
  OBVIOUS
<1>1. artifact = <<>> /\ \A k \in Keys : ids[k] = 0
  BY DEF Init
<1>2. Torn = {}
  BY <1>1 DEF Torn
<1>3. IsFiniteSet(Torn) /\ Cardinality(Torn) = 0
  BY <1>2, FS_EmptySet
<1>4. faults["error"] + faults["crash"] = 0
  BY DEF Init, FaultKinds
<1>5. \A k \in Keys : ids[k] \in 0..Len(artifact)
  BY <1>1
<1> QED
  BY <1>3, <1>4, <1>5 DEF Agreement, Init

\* The steps that leave the stores alone keep what is torn.
LEMMA AgreementKept ==
  ASSUME TypeInv, Agreement, faults' \in [FaultKinds -> Nat],
         UNCHANGED <<interactions, ids, artifact, updates>>,
         \/ UNCHANGED <<pc, batch>> /\ (Handling => key' = key)
         \/ pc \notin {"emit", "commit"} /\ pc' \notin {"emit", "commit"},
         faults'["error"] + faults'["crash"] >= faults["error"] + faults["crash"]
  PROVE  Agreement'
<1>1. StoresOK
  BY TypeInvParts DEF PartsOK
<1>2. \A n : LastUpdate(n)' = LastUpdate(n)
  BY DEF LastUpdate
<1>3. \A n, t : RowCovers(n, t)' <=> RowCovers(n, t)
  BY DEF RowCovers
<1>4. \A k \in Keys : ids'[k] \in 0..Len(artifact')
  BY DEF Agreement
<1>5. Torn' = Torn /\ \/ pc' \notin {"emit", "commit"}
                      \/ UNCHANGED <<pc, batch, interactionId>>
  <2>1. CASE UNCHANGED <<pc, batch>> /\ (Handling => key' = key)
    <3>1. pc \in {"emit", "commit"} => interactionId' = interactionId
      BY <2>1 DEF Handling, interactionId
    <3>2. Torn' = Torn
      BY <1>2, <1>3, <2>1, <3>1 DEF Torn, RowCovers
    <3> QED
      BY <2>1, <3>1, <3>2
  <2>2. CASE pc \notin {"emit", "commit"} /\ pc' \notin {"emit", "commit"}
    BY <1>2, <1>3, <2>2 DEF Torn, RowCovers
  <2> QED
    BY <2>1, <2>2
<1>6. /\ pc' \in {"emit", "commit"} => interactionId' \in DOMAIN artifact'
      /\ pc' \in {"emit", "commit"} /\ HasStore => artifact'[interactionId'] = batch'
  BY <1>5 DEF Agreement
<1>7. ASSUME pc' = "commit"
      PROVE  LastUpdate(interactionId)' = batch'
  <2>1. LastUpdate(interactionId)' = LastUpdate(interactionId)
    BY <1>5, <1>7 DEF LastUpdate
  <2>2. LastUpdate(interactionId) = batch /\ batch' = batch
    BY <1>5, <1>7 DEF Agreement
  <2> QED
    BY <2>1, <2>2
<1>8. faults["error"] + faults["crash"] \in Nat /\ faults'["error"] + faults'["crash"] \in Nat
  BY <1>1 DEF StoresOK, FaultKinds
<1>9. Cardinality(Torn) <= faults["error"] + faults["crash"] /\ IsFiniteSet(Torn)
  BY DEF Agreement
<1>10. Cardinality(Torn) \in Nat
  BY <1>9, FS_CardinalityType
<1>11. Cardinality(Torn) <= faults'["error"] + faults'["crash"]
  BY <1>8, <1>9, <1>10
<1> QED
  BY <1>4, <1>5, <1>6, <1>7, <1>9, <1>11 DEF Agreement

\* The steps of a flush that write to a store.
LEMMA AgreementFlush ==
  ASSUME TypeInv, Agreement, Store \/ Emit \/ Commit
  PROVE  Agreement'
<1>1. BusOK /\ HandOK /\ StoresOK /\ StageOK
  BY TypeInvParts DEF PartsOK
<1>2. /\ HasBatch /\ Handling /\ batch' = batch /\ faults' = faults
      /\ Handlers
  BY DEF Store, Emit, Commit, Goto, HasBatch, Handling, Handlers
<1>3. batch \in Seq(ListEntries) /\ batch # <<>>
  BY <1>1, <1>2 DEF StoresOK, StageOK
<1>4. key \in Keys /\ key' = key
  BY <1>1, <1>2, <1>3, KeyType, HandlerKeeps
<1>5. PICK k0, b, d, z :
        /\ k0 = key /\ b = batch /\ d = interactionId' /\ z = Len(artifact)
        /\ k0 \in Keys /\ b \in Seq(ListEntries)
  BY <1>3, <1>4
<1>6. /\ z \in Nat /\ DOMAIN artifact = 1..z /\ ids \in [Keys -> Nat]
      /\ \A k \in Keys : ids[k] \in 0..z
  BY <1>1, <1>5 DEF StoresOK, Agreement
<1>7. /\ Torn' \subseteq Torn /\ \A k \in Keys : ids'[k] \in 0..Len(artifact')
      /\ pc' \in {"emit", "commit"} =>
           d \in DOMAIN artifact' /\ (HasStore => artifact'[d] = b)
      /\ pc' = "commit" => LastUpdate(d)' = b
  <2>1. CASE Store
    <3>1. /\ pc = "store" /\ pc' = "emit" /\ UNCHANGED <<interactions, ids, updates>>
      BY <2>1 DEF Store, Goto
    <3>2. PICK object \in Seq(ListEntries) :
            /\ HasStore => object = b
            /\ artifact' = IF ids[k0] = 0 THEN Append(artifact, object)
                                         ELSE [artifact EXCEPT ![ids[k0]] = object]
      <4>1. <<>> \in Seq(ListEntries)
        OBVIOUS
      <4> QED
        BY <1>5, <2>1, <4>1 DEF Store
    <3>3. d = IF ids[k0] = 0 THEN Len(artifact') ELSE ids[k0]
      BY <1>4, <1>5, <3>1 DEF interactionId
    <3>4. /\ d \in DOMAIN artifact' /\ artifact'[d] = object
          /\ Len(artifact') \in Nat /\ z <= Len(artifact')
          /\ \A n \in DOMAIN artifact' :
               n # d => n \in DOMAIN artifact /\ artifact'[n] = artifact[n]
      <4>1. artifact \in Seq(Seq(ListEntries))
        BY <1>1 DEF StoresOK
      <4>2. CASE ids[k0] = 0
        <5>1. artifact' = Append(artifact, object)
          BY <3>2, <4>2
        <5>2. /\ Len(artifact') = z + 1 /\ DOMAIN artifact' = 1..(z + 1)
              /\ artifact'[z + 1] = object /\ \A n \in 1..z : artifact'[n] = artifact[n]
          BY <1>5, <1>6, <4>1, <5>1, AppendKeeps
        <5>3. \A n \in 1..(z + 1) : n # z + 1 => n \in 1..z
          BY <1>6
        <5> QED
          BY <1>6, <3>3, <4>2, <5>2, <5>3
      <4>3. CASE ids[k0] # 0
        <5>1. artifact' = [artifact EXCEPT ![ids[k0]] = object] /\ d = ids[k0]
          BY <3>2, <3>3, <4>3
        <5>2. ids[k0] \in 1..z
          BY <1>5, <1>6, <4>3
        <5>3. Len(artifact') = z /\ DOMAIN artifact' = DOMAIN artifact
          BY <1>5, <4>1, <5>1
        <5> QED
          BY <1>6, <5>1, <5>2, <5>3
      <4> QED
        BY <4>2, <4>3
    <3>5. \A n : LastUpdate(n)' = LastUpdate(n)
      BY <3>1 DEF LastUpdate
    <3>6. ASSUME NEW n \in Torn'
          PROVE  n \in Torn
      <4>1. /\ n \in DOMAIN artifact' /\ n # d
            /\ \/ ~ RowCovers(n, LastUpdate(n))'
               \/ HasStore /\ ~ RowCovers(n, artifact[n])'
        BY <1>5, <3>1, <3>6 DEF Torn
      <4>2. n \in DOMAIN artifact /\ artifact'[n] = artifact[n]
        BY <3>4, <4>1
      <4>3. ~ RowCovers(n, LastUpdate(n)) \/ (HasStore /\ ~ RowCovers(n, artifact[n]))
        BY <3>1, <3>5, <4>1, <4>2 DEF RowCovers
      <4> QED
        BY <3>1, <4>2, <4>3 DEF Torn
    <3>7. \A k \in Keys : ids'[k] \in 0..Len(artifact')
      BY <1>6, <3>1, <3>4
    <3> QED
      BY <3>1, <3>2, <3>4, <3>6, <3>7
  <2>2. CASE Emit
    <3>1. /\ pc = "emit" /\ pc' = "commit" /\ UNCHANGED <<interactions, ids, artifact>>
          /\ updates' = Append(updates, [id |-> interactionId, key |-> key, covers |-> batch])
      BY <2>2 DEF Emit, Goto
    <3>2. d = interactionId
      BY <1>4, <1>5, <3>1 DEF interactionId
    <3>3. d \in DOMAIN artifact /\ d \in Nat /\ (HasStore => artifact[d] = b)
      BY <1>5, <1>6, <3>1, <3>2 DEF Agreement
    <3>4. updates' = Append(updates, [id |-> d, key |-> k0, covers |-> b]) /\ updates \in Seq(UpdateRows)
      BY <1>1, <1>5, <3>1, <3>2 DEF StoresOK
    <3>5. LastUpdate(d)' = b /\ \A l \in Nat : l # d => LastUpdate(l)' = LastUpdate(l)
      BY <1>5, <3>3, <3>4, LastUpdateAppend
    <3>6. ASSUME NEW n \in Torn'
          PROVE  n \in Torn
      <4>1. /\ n \in DOMAIN artifact /\ n # d
            /\ \/ ~ RowCovers(n, LastUpdate(n))'
               \/ HasStore /\ ~ RowCovers(n, artifact[n])'
        BY <1>5, <3>1, <3>6 DEF Torn
      <4>2. LastUpdate(n)' = LastUpdate(n)
        BY <1>6, <3>5, <4>1
      <4>3. ~ RowCovers(n, LastUpdate(n)) \/ (HasStore /\ ~ RowCovers(n, artifact[n]))
        BY <3>1, <4>1, <4>2 DEF RowCovers
      <4> QED
        BY <3>2, <4>1, <4>3 DEF Torn
    <3> QED
      BY <1>5, <1>6, <3>1, <3>3, <3>5, <3>6
  <2>3. CASE Commit
    <3>1. /\ pc = "commit" /\ pc' = "delete" /\ UNCHANGED <<updates, artifact>>
          /\ interactions' = [interactions EXCEPT ![key] = batch]
          /\ ids' = [ids EXCEPT ![key] = interactionId]
      BY <2>3 DEF Commit, Goto
    <3>2. PICK e : e = interactionId
      OBVIOUS
    <3>3. /\ e \in 1..z /\ (ids[k0] # 0 => e = ids[k0])
          /\ LastUpdate(e) = b /\ (HasStore => artifact[e] = b)
      <4>1. interactionId \in DOMAIN artifact /\ LastUpdate(interactionId) = batch
            /\ (HasStore => artifact[interactionId] = batch)
        BY <3>1 DEF Agreement
      <4>2. LastUpdate(e) = LastUpdate(interactionId)
        BY <3>2 DEF LastUpdate
      <4>3. ids[k0] # 0 => e = ids[k0]
        BY <1>5, <3>2 DEF interactionId
      <4> QED
        BY <1>5, <1>6, <3>2, <4>1, <4>2, <4>3
    <3>4. /\ ids'[k0] = e /\ interactions'[k0] = b
          /\ \A k \in Keys : k # k0 => ids'[k] = ids[k] /\ interactions'[k] = interactions[k]
      BY <1>1, <1>5, <3>1, <3>2 DEF StoresOK
    <3>5. \A n : LastUpdate(n)' = LastUpdate(n)
      BY <3>1 DEF LastUpdate
    <3>6. ASSUME NEW n \in 1..z, n # e, NEW t
          PROVE  RowCovers(n, t) => RowCovers(n, t)'
      <4>1. ids[k0] # n /\ ids'[k0] # n
        BY <1>5, <1>6, <3>3, <3>4, <3>6
      <4> QED
        BY <3>4, <4>1 DEF RowCovers
    <3>7. RowCovers(e, b)'
      BY <1>5, <3>4 DEF RowCovers
    <3>8. ASSUME NEW n \in Torn'
          PROVE  n \in Torn
      <4>1. n \in 1..z /\ \/ ~ RowCovers(n, LastUpdate(n))'
                          \/ HasStore /\ ~ RowCovers(n, artifact[n])'
        BY <1>6, <3>1, <3>8 DEF Torn
      <4>2. PICK u, a : u = LastUpdate(n) /\ a = artifact[n]
        OBVIOUS
      <4>3. ~ RowCovers(n, u)' \/ (HasStore /\ ~ RowCovers(n, a)')
        BY <3>1, <3>5, <4>1, <4>2 DEF RowCovers
      <4>4. n # e
        BY <3>3, <3>7, <4>2, <4>3
      <4>5. ~ RowCovers(n, u) \/ (HasStore /\ ~ RowCovers(n, a))
        BY <3>6, <4>1, <4>3, <4>4
      <4>6. ~ RowCovers(n, LastUpdate(n)) \/ (HasStore /\ ~ RowCovers(n, artifact[n]))
        BY <4>2, <4>5
      <4> QED
        BY <1>6, <3>2, <4>1, <4>4, <4>6 DEF Torn
    <3>9. \A k \in Keys : ids'[k] \in 0..Len(artifact')
      BY <1>5, <1>6, <3>1, <3>3, <3>4
    <3> QED
      BY <3>1, <3>8, <3>9
  <2> QED
    BY <2>1, <2>2, <2>3
<1>8. IsFiniteSet(Torn') /\ Cardinality(Torn') <= faults'["error"] + faults'["crash"]
  <2>1. IsFiniteSet(Torn) /\ Cardinality(Torn) <= faults["error"] + faults["crash"]
    BY DEF Agreement
  <2>2. IsFiniteSet(Torn') /\ Cardinality(Torn') <= Cardinality(Torn)
    BY <1>7, <2>1, FS_Subset, Zenon
  <2>3. /\ Cardinality(Torn) \in Nat /\ Cardinality(Torn') \in Nat
        /\ faults["error"] + faults["crash"] \in Nat
    BY <1>1, <2>1, <2>2, FS_CardinalityType DEF StoresOK, FaultKinds
  <2> QED
    BY <1>2, <2>1, <2>2, <2>3
<1>9. pc' = "commit" => LastUpdate(interactionId)' = batch'
  <2>1. LastUpdate(interactionId)' = LastUpdate(d)'
    BY <1>5 DEF LastUpdate
  <2> QED
    BY <1>2, <1>5, <1>7, <2>1
<1> QED
  BY <1>2, <1>5, <1>7, <1>8, <1>9 DEF Agreement

\* An undone flush leaves one interaction torn.
LEMMA AgreementFault ==
  ASSUME TypeInv, Agreement, Error \/ Crash
  PROVE  Agreement'
<1>1. /\ UNCHANGED <<interactions, ids, artifact, updates>> /\ pc' \notin {"emit", "commit"}
      /\ faults'["error"] + faults'["crash"] = (faults["error"] + faults["crash"]) + 1
      /\ faults["error"] + faults["crash"] \in Nat
  <2>1. CASE Error
    <3>1. /\ UNCHANGED <<interactions, ids, artifact, updates>> /\ pc' = "ack"
          /\ faults \in [FaultKinds -> Nat] /\ Strike("error") /\ "error" \in FaultKinds
      BY <2>1, ErrorEffect
    <3> QED
      BY <3>1, StrikeEffect
  <2>2. CASE Crash
    <3>1. /\ UNCHANGED <<interactions, ids, artifact, updates>> /\ pc' = "off"
          /\ faults \in [FaultKinds -> Nat] /\ Strike("crash") /\ "crash" \in FaultKinds
      BY <2>2, CrashEffect
    <3> QED
      BY <3>1, StrikeEffect
  <2> QED
    BY <2>1, <2>2
<1>2. \A n : LastUpdate(n)' = LastUpdate(n)
  BY <1>1 DEF LastUpdate
<1>3. Torn' \subseteq Torn \cup {interactionId}
  <2>1. ASSUME NEW n \in Torn', n # interactionId
        PROVE  n \in Torn
    <3>1. n \in DOMAIN artifact /\ \/ ~ RowCovers(n, LastUpdate(n))'
                                   \/ HasStore /\ ~ RowCovers(n, artifact[n])'
      BY <1>1, <2>1 DEF Torn
    <3>2. ~ RowCovers(n, LastUpdate(n)) \/ (HasStore /\ ~ RowCovers(n, artifact[n]))
      BY <1>1, <1>2, <3>1 DEF RowCovers
    <3> QED
      BY <2>1, <3>1, <3>2 DEF Torn
  <2> QED
    BY <2>1
<1>4. IsFiniteSet(Torn) /\ Cardinality(Torn) <= faults["error"] + faults["crash"]
  BY DEF Agreement
<1>5. IsFiniteSet(Torn') /\ Cardinality(Torn') <= (faults["error"] + faults["crash"]) + 1
  <2>1. PICK x : x = interactionId
    OBVIOUS
  <2>2. PICK n \in Nat : n = faults["error"] + faults["crash"]
    BY <1>1
  <2>3. Torn' \subseteq Torn \cup {x} /\ Cardinality(Torn) <= n
    BY <1>3, <1>4, <2>1, <2>2
  <2>4. IsFiniteSet(Torn') /\ Cardinality(Torn') <= n + 1
    BY <1>4, <2>3, OneMore
  <2> QED
    BY <2>2, <2>4
<1>6. \A k \in Keys : ids'[k] \in 0..Len(artifact')
  BY <1>1 DEF Agreement
<1> QED
  BY <1>1, <1>5, <1>6 DEF Agreement

LEMMA AgreementStep ==
  ASSUME TypeInv, Agreement, [Next]_vars
  PROVE  Agreement'
<1>1. BusOK /\ HandOK /\ StoresOK
  BY TypeInvParts DEF PartsOK
<1>2. faults["error"] \in Nat /\ faults["crash"] \in Nat
  BY <1>1 DEF StoresOK, FaultKinds
<1>3. CASE \E e \in Events : Publish(e) \/ Requeue(e)
  BY <1>1, <1>2, <1>3, PublishEffect, AgreementKept DEF StoresOK
<1>4. CASE \E c \in Chats : Expire(c)
  <2>1. PICK c \in Chats : Expire(c)
    BY <1>4
  <2>2. /\ UNCHANGED <<interactions, ids, artifact, updates, pc, batch>> /\ key' = key
        /\ Strike("expiry") /\ "expiry" \in FaultKinds
    BY <2>1, ExpireEffect
  <2>3. /\ faults' \in [FaultKinds -> Nat]
        /\ faults'["error"] + faults'["crash"] = faults["error"] + faults["crash"]
    BY <1>1, <2>2, StrikeEffect DEF StoresOK
  <2> QED
    BY <1>2, <2>2, <2>3, AgreementKept
<1>5. CASE Start \/ Fetch \/ Take \/ Ack \/ (Handlers /\ ~ (Store \/ Emit \/ Commit))
  <2>1. /\ UNCHANGED <<interactions, ids, artifact, updates, faults>>
        /\ pc \notin {"emit", "commit"} /\ pc' \notin {"emit", "commit"}
    BY <1>1, <1>5 DEF Start, Fetch, Take, Ack, Handlers, Check, Mark, Roll, Push, Full, Read,
       Summarize, Delete, Scan, Clear, Rewrite, stores, Goto, StoresOK
  <2> QED
    BY <1>1, <1>2, <2>1, AgreementKept DEF StoresOK
<1>6. CASE UNCHANGED vars
  <2>1. /\ UNCHANGED <<interactions, ids, artifact, updates, faults, pc, batch>>
        /\ event' = event
    BY <1>6 DEF vars, bus, stores, event
  <2>2. key' = key
    BY <2>1 DEF key, chat
  <2> QED
    BY <1>1, <1>2, <2>1, <2>2, AgreementKept DEF StoresOK
<1> QED
  BY <1>3, <1>4, <1>5, <1>6, NextCases, AgreementFlush, AgreementFault

-----------------------------------------------------------------------------
(***************************************************************************)
(* How long the lists are, and that every row was announced.               *)
(***************************************************************************)

\* Without a fault the lists may be as long as before.
LEMMA SameLongest ==
  ASSUME faults \in [FaultKinds -> Nat]
  PROVE  /\ FaultsSoFar \in Nat /\ LongestList \in Nat /\ WindowSize <= LongestList
         /\ LongestList > 0
         /\ faults' = faults => LongestList' = LongestList /\ FaultsSoFar' = FaultsSoFar
BY SummarizerAssumption DEF FaultsSoFar, LongestList, FaultKinds

LEMMA LengthsStep ==
  ASSUME TypeInv, Lengths, [Next]_vars
  PROVE  Lengths'
<1>1. BusOK /\ HandOK /\ StoresOK /\ StageOK
  BY TypeInvParts DEF PartsOK
<1>2. /\ FaultsSoFar \in Nat /\ LongestList \in Nat /\ WindowSize <= LongestList /\ LongestList > 0
      /\ faults' = faults => LongestList' = LongestList
      /\ WindowSize \in Nat
  BY <1>1, SameLongest, SummarizerAssumption DEF StoresOK
<1>3. \A c \in Chats : window[c] \in Seq(ListEntries) /\ Len(window[c]) \in Nat
  BY <1>1, LenProperties DEF StoresOK
<1>4. \A c \in Chats : Len(window[c]) <= LongestList /\ (~ Brim(c) => Len(window[c]) < LongestList)
  BY DEF Lengths
<1>5. Len(<<>>) = 0
  OBVIOUS
<1>6. CASE \E e \in Events : Publish(e) \/ Requeue(e)
  <2>1. /\ UNCHANGED <<window, pc, batch, after, faults>>
        /\ Handling => chat' = chat
    BY <1>6, PublishEffect
  <2>2. \A c \in Chats : Brim(c)' <=> Brim(c)
    BY <2>1 DEF Brim, Handling, Flushing
  <2> QED
    BY <1>2, <2>1, <2>2 DEF Lengths
<1>7. CASE \E c \in Chats : Expire(c)
  <2>1. PICK c \in Chats : Expire(c)
    BY <1>7
  <2>2. /\ UNCHANGED <<pc, batch>> /\ window'[c] = <<>>
        /\ \A d \in Chats : d # c => window'[d] = window[d]
        /\ LongestList' = LongestList + 1
    BY <2>1, ExpireEffect, StrikeEffect
  <2>3. \A d \in Chats : Len(window'[d]) < LongestList'
    BY <1>2, <1>3, <1>4, <1>5, <2>2
  <2>4. \A d \in Chats : Len(window'[d]) <= LongestList'
    <3>1. \A d \in Chats : Len(window'[d]) \in Nat
      BY <1>3, <1>5, <2>2
    <3> QED
      BY <1>2, <2>2, <2>3, <3>1
  <2>5. batch \in Seq(ListEntries) /\ Len(batch) \in Nat
    BY <1>1, LenProperties DEF StoresOK
  <2>6. pc' \in {"clear", "rewrite"} => Len(batch') < LongestList'
    BY <1>2, <2>2, <2>5 DEF Lengths
  <2> QED
    BY <2>3, <2>4, <2>6 DEF Lengths
<1>8. CASE Error \/ Crash
  <2>1. window' = window /\ pc' \in {"ack", "off"} /\ LongestList' = LongestList + 1
    <3>1. CASE Error
      BY <3>1, ErrorEffect, StrikeEffect
    <3>2. CASE Crash
      BY <3>2, CrashEffect, StrikeEffect
    <3> QED
      BY <1>8, <3>1, <3>2
  <2>2. \A c \in Chats : Len(window'[c]) <= LongestList' /\ Len(window'[c]) < LongestList'
    BY <1>2, <1>3, <1>4, <2>1
  <2> QED
    BY <2>1, <2>2 DEF Lengths
<1>9. CASE Start \/ Fetch \/ Take \/ Ack
  <2>1. /\ window' = window /\ faults' = faults
        /\ pc \in {"off", "idle", "ack"} /\ pc' \in {"idle", "check"}
    BY <1>9 DEF Start, Fetch, Take, Ack, Goto
  <2>2. \A c \in Chats : ~ Brim(c)
    BY <2>1 DEF Brim, Flushing
  <2> QED
    BY <1>2, <1>4, <2>1, <2>2 DEF Lengths
<1>10. CASE Handlers
  <2>1. faults' = faults /\ chat' = chat /\ chat \in Chats /\ LongestList' = LongestList
    BY <1>1, <1>2, <1>10, HandlerKeeps, EventType
  <2>2. CASE Check \/ Mark \/ Roll
    <3>1. /\ window' = window /\ pc \in {"check", "mark", "roll"}
          /\ pc' \notin {"clear", "rewrite"}
      BY <2>2 DEF Check, Mark, Roll, Goto
    <3>2. \A c \in Chats : ~ Brim(c)
      BY <3>1 DEF Brim, Flushing
    <3> QED
      BY <1>4, <2>1, <3>1, <3>2 DEF Lengths
  <2>3. CASE Full
    <3>1. /\ window' = window /\ pc = "full" /\ after' = "ack"
          /\ pc' = (IF Len(window[chat]) >= WindowSize THEN "read" ELSE "ack")
      BY <2>3 DEF Full, Goto
    <3>2. ASSUME NEW c \in Chats, ~ Brim(c)'
          PROVE  Len(window[c]) < LongestList
      <4>1. CASE c # chat
        BY <1>4, <4>1 DEF Brim
      <4>2. CASE c = chat
        <5>1. pc' # "read"
          BY <2>1, <3>1, <3>2, <4>2 DEF Brim, Flushing
        <5>2. Len(window[c]) < WindowSize
          BY <1>2, <1>3, <3>1, <4>2, <5>1
        <5> QED
          BY <1>2, <1>3, <5>2
      <4> QED
        BY <4>1, <4>2
    <3>3. pc' \notin {"clear", "rewrite"}
      BY <3>1
    <3> QED
      BY <1>4, <2>1, <3>1, <3>2, <3>3 DEF Lengths
  <2>4. CASE Read
    <3>1. /\ window' = window /\ pc = "read" /\ after' = after /\ batch' = window[chat]
          /\ pc' = (IF window[chat] = <<>> THEN after ELSE "summarize")
          /\ after \in {"push", "ack"}
      BY <1>1, <2>4 DEF Read, Goto, StoresOK
    <3>2. ASSUME NEW c \in Chats, ~ Brim(c)'
          PROVE  Len(window[c]) < LongestList
      <4>1. CASE ~ Brim(c)
        BY <1>4, <4>1
      <4>2. CASE Brim(c)
        <5>1. window[c] = <<>>
          BY <2>1, <3>1, <3>2, <4>2 DEF Brim, Flushing
        <5> QED
          BY <1>2, <1>5, <5>1
      <4> QED
        BY <4>1, <4>2
    <3>3. pc' \notin {"clear", "rewrite"}
      BY <3>1
    <3> QED
      BY <1>4, <2>1, <3>1, <3>2, <3>3 DEF Lengths
  <2>5. CASE Summarize \/ Store \/ Emit \/ Commit
    <3>1. /\ window' = window /\ Flushing /\ Flushing' /\ pc # "full" /\ after' = after
          /\ pc' \notin {"clear", "rewrite", "full"}
      BY <2>5 DEF Summarize, Store, Emit, Commit, Goto, Flushing
    <3>2. \A c \in Chats : Brim(c)' <=> Brim(c)
      BY <2>1, <3>1 DEF Brim
    <3> QED
      BY <1>4, <2>1, <3>1, <3>2 DEF Lengths
  <2>6. CASE Push
    <3>1. /\ window' = [window EXCEPT ![chat] = Append(@, [of |-> event, text |-> event])]
          /\ pc = "push" /\ pc' = "full"
      BY <2>6 DEF Push, Goto
    <3>2. \A c \in Chats : ~ Brim(c) /\ (Brim(c)' <=> c = chat)
      BY <2>1, <3>1 DEF Brim, Flushing
    <3>3. event \in Events
      BY <1>1, <1>10, HandlerKeeps, EventType
    <3>4. [of |-> event, text |-> event] \in ListEntries
      BY <3>3 DEF ListEntries
    <3>5. Len(window'[chat]) = Len(window[chat]) + 1
      <4>1. window'[chat] = Append(window[chat], [of |-> event, text |-> event])
        BY <1>1, <2>1, <3>1 DEF StoresOK
      <4> QED
        BY <1>3, <2>1, <3>4, <4>1, AppendKeeps
    <3>6. \A c \in Chats : c # chat => window'[c] = window[c]
      BY <1>1, <3>1 DEF StoresOK
    <3>7. Len(window'[chat]) <= LongestList
      BY <1>2, <1>3, <1>4, <2>1, <3>2, <3>5
    <3> QED
      BY <1>4, <2>1, <3>1, <3>2, <3>6, <3>7 DEF Lengths
  <2>7. CASE Delete \/ Clear
    <3>1. /\ window' = [window EXCEPT ![chat] = <<>>]
          /\ \/ pc = "clear" /\ batch' = batch
             \/ pc' \in {"push", "ack"}
      BY <1>1, <2>7 DEF Delete, Clear, Goto, StoresOK
    <3>2. window'[chat] = <<>> /\ \A c \in Chats : c # chat => window'[c] = window[c]
      BY <1>1, <2>1, <3>1 DEF StoresOK
    <3>3. \A c \in Chats : c # chat => ~ Brim(c)
      BY DEF Brim
    <3>4. \A c \in Chats : Len(window'[c]) <= LongestList /\ Len(window'[c]) < LongestList
      BY <1>2, <1>4, <1>5, <3>2, <3>3
    <3> QED
      BY <2>1, <3>1, <3>4 DEF Lengths
  <2>8. CASE Scan
    <3>1. window' = window /\ pc = "scan" /\ batch' = window[chat]
      BY <2>8 DEF Scan, Goto
    <3>2. \A c \in Chats : ~ Brim(c)
      BY <3>1 DEF Brim, Flushing
    <3> QED
      BY <1>4, <2>1, <3>1, <3>2 DEF Lengths
  <2>9. CASE Rewrite
    <3>1. /\ window' = [window EXCEPT ![chat] = Edited(batch)] /\ pc = "rewrite" /\ pc' = "ack"
      BY <2>9 DEF Rewrite, Goto
    <3>2. Len(Edited(batch)) = Len(batch)
      <4>1. batch \in Seq(ListEntries) /\ Len(batch) \in Nat /\ DOMAIN batch = 1..Len(batch)
        BY <1>1, LenProperties DEF StoresOK
      <4>2. DOMAIN Edited(batch) = 1..Len(batch)
        BY <4>1 DEF Edited
      <4>3. Edited(batch) \in Seq({Edited(batch)[i] : i \in 1..Len(batch)})
        BY <4>1 DEF Edited
      <4> QED
        BY <4>1, <4>2, <4>3, LenProperties
    <3>3. Len(Edited(batch)) < LongestList
      BY <3>1, <3>2 DEF Lengths
    <3>4. window'[chat] = Edited(batch) /\ \A c \in Chats : c # chat => window'[c] = window[c]
      BY <1>1, <2>1, <3>1 DEF StoresOK
    <3>5. \A c \in Chats : ~ Brim(c)
      BY <3>1 DEF Brim, Flushing
    <3>6. \A c \in Chats : Len(window'[c]) < LongestList
      BY <1>4, <3>3, <3>4, <3>5
    <3>7. \A c \in Chats : Len(window'[c]) <= LongestList
      <4>1. Len(Edited(batch)) \in Nat
        BY <1>1, <3>2, LenProperties DEF StoresOK
      <4> QED
        BY <1>2, <1>4, <3>3, <3>4, <4>1
    <3> QED
      BY <2>1, <3>1, <3>6, <3>7 DEF Lengths
  <2> QED
    BY <1>10, <2>2, <2>3, <2>4, <2>5, <2>6, <2>7, <2>8, <2>9 DEF Handlers
<1>11. CASE UNCHANGED vars
  <2>1. UNCHANGED <<window, pc, batch, after, faults, log, entry>>
    BY <1>11 DEF vars, bus
  <2>2. chat' = chat
    BY <2>1 DEF chat, event
  <2>3. \A c \in Chats : Brim(c)' <=> Brim(c)
    BY <2>1, <2>2 DEF Brim, Flushing
  <2> QED
    BY <1>2, <2>1, <2>3 DEF Lengths
<1> QED
  BY <1>6, <1>7, <1>8, <1>9, <1>10, <1>11, NextCases

LEMMA RowsAnnouncedStep ==
  ASSUME TypeInv, RowsAnnounced, [Next]_vars
  PROVE  RowsAnnounced'
<1>1. BusOK /\ HandOK /\ StoresOK /\ StageOK
  BY TypeInvParts DEF PartsOK
<1>2. ASSUME UNCHANGED <<interactions, updates>>,
             \/ pc' \notin {"commit", "delete"}
             \/ UNCHANGED <<pc, batch>> /\ (Handling => key' = key)
      PROVE  RowsAnnounced'
  <2>1. \A k \in Keys : interactions'[k] # <<>> =>
          \E i \in DOMAIN updates' : updates'[i].key = k /\ updates'[i].covers = interactions'[k]
    BY <1>2 DEF RowsAnnounced
  <2>2. CASE pc' \notin {"commit", "delete"}
    BY <2>1, <2>2 DEF RowsAnnounced
  <2>3. CASE UNCHANGED <<pc, batch>> /\ (Handling => key' = key)
    <3>1. pc \in {"commit", "delete"} => key' = key
      BY <2>3 DEF Handling
    <3> QED
      BY <1>2, <2>1, <2>3, <3>1 DEF RowsAnnounced
  <2> QED
    BY <1>2, <2>2, <2>3
<1>3. CASE \E e \in Events : Publish(e) \/ Requeue(e)
  BY <1>2, <1>3, PublishEffect
<1>4. CASE (\E c \in Chats : Expire(c)) \/ Error \/ Crash
  BY <1>2, <1>4, ExpireEffect, ErrorEffect, CrashEffect
<1>5. CASE Start \/ Fetch \/ Take \/ Ack \/ (Handlers /\ ~ (Emit \/ Commit))
  <2>1. UNCHANGED <<interactions, updates>> /\ pc' \notin {"commit", "delete"}
    BY <1>1, <1>5 DEF Start, Fetch, Take, Ack, Handlers, Check, Mark, Roll, Push, Full, Read,
       Summarize, Store, Delete, Scan, Clear, Rewrite, stores, Goto, StoresOK
  <2> QED
    BY <1>2, <2>1
<1>6. CASE Emit \/ Commit
  <2>1. HasBatch /\ Handling /\ batch' = batch /\ Handlers
    BY <1>6 DEF Emit, Commit, Goto, HasBatch, Handling, Handlers
  <2>2. batch \in Seq(ListEntries) /\ batch # <<>>
    BY <1>1, <2>1 DEF StoresOK, StageOK
  <2>3. key \in Keys /\ key' = key
    BY <1>1, <2>1, <2>2, KeyType, HandlerKeeps
  <2>4. updates \in Seq(UpdateRows)
    BY <1>1 DEF StoresOK
  <2>5. CASE Emit
    <3>1. /\ pc' = "commit" /\ interactions' = interactions
          /\ updates' = Append(updates, [id |-> interactionId, key |-> key, covers |-> batch])
      BY <2>5 DEF Emit, Goto
    <3>2. [id |-> interactionId, key |-> key, covers |-> batch] \in UpdateRows
      BY <1>1, <2>2, <2>3, IdType DEF UpdateRows
    <3> DEFINE u == [id |-> interactionId, key |-> key, covers |-> batch]
    <3> HIDE DEF u
    <3>3. /\ Len(updates') = Len(updates) + 1 /\ Len(updates) \in Nat
          /\ DOMAIN updates' = 1..(Len(updates) + 1) /\ DOMAIN updates = 1..Len(updates)
          /\ \A i \in 1..Len(updates) : updates'[i] = updates[i]
          /\ updates'[Len(updates) + 1] = u
      BY <2>4, <3>1, <3>2, AppendKeeps DEF u
    <3>4. \A i \in DOMAIN updates : i \in DOMAIN updates'
      BY <3>3
    <3>5. ASSUME NEW k \in Keys, interactions'[k] # <<>>
          PROVE  \E i \in DOMAIN updates' : updates'[i].key = k /\ updates'[i].covers = interactions'[k]
      <4>1. PICK i \in DOMAIN updates : updates[i].key = k /\ updates[i].covers = interactions[k]
        BY <3>1, <3>5 DEF RowsAnnounced
      <4>2. i \in DOMAIN updates' /\ updates'[i] = updates[i]
        BY <3>3, <3>4, <4>1
      <4> QED
        BY <3>1, <4>1, <4>2
    <3>6. updates' # <<>> /\ updates'[Len(updates')].key = key' /\ updates'[Len(updates')].covers = batch'
      BY <2>1, <2>3, <3>3 DEF u
    <3> QED
      BY <3>1, <3>5, <3>6 DEF RowsAnnounced
  <2>6. CASE Commit
    <3>1. /\ pc = "commit" /\ pc' = "delete" /\ updates' = updates
          /\ interactions' = [interactions EXCEPT ![key] = batch]
      BY <2>6 DEF Commit, Goto
    <3>2. /\ interactions'[key] = batch
          /\ \A k \in Keys : k # key => interactions'[k] = interactions[k]
      BY <1>1, <2>3, <3>1 DEF StoresOK
    <3>3. /\ updates # <<>> /\ updates[Len(updates)].key = key
          /\ updates[Len(updates)].covers = batch
      BY <3>1 DEF RowsAnnounced
    <3>4. Len(updates) \in DOMAIN updates
      BY <2>4, <3>3, LenProperties, EmptySeq
    <3>5. ASSUME NEW k \in Keys, interactions'[k] # <<>>
          PROVE  \E i \in DOMAIN updates' : updates'[i].key = k /\ updates'[i].covers = interactions'[k]
      <4>1. CASE k = key
        BY <3>1, <3>2, <3>3, <3>4, <4>1
      <4>2. CASE k # key
        <5>1. \E i \in DOMAIN updates : updates[i].key = k /\ updates[i].covers = interactions[k]
          BY <3>2, <3>5, <4>2 DEF RowsAnnounced
        <5> QED
          BY <3>1, <3>2, <4>2, <5>1
      <4> QED
        BY <4>1, <4>2
    <3> QED
      BY <2>1, <2>3, <3>1, <3>2, <3>5 DEF RowsAnnounced
  <2> QED
    BY <1>6, <2>5, <2>6
<1>7. CASE UNCHANGED vars
  <2>1. UNCHANGED <<interactions, updates, pc, batch, log, entry>>
    BY <1>7 DEF vars, bus, stores
  <2>2. key' = key
    BY <2>1 DEF key, chat, event
  <2> QED
    BY <1>2, <2>1, <2>2
<1> QED
  BY <1>3, <1>4, <1>5, <1>6, <1>7, NextCases

-----------------------------------------------------------------------------
(***************************************************************************)
(* How much is lost.                                                       *)
(***************************************************************************)

\* What is in a list once something is added to its end.
LEMMA OfAppend ==
  ASSUME NEW s \in Seq(ListEntries), NEW x \in ListEntries
  PROVE  Of(Append(s, x)) = Of(s) \cup {x.of}
<1>1. /\ DOMAIN Append(s, x) = 1..(Len(s) + 1) /\ DOMAIN s = 1..Len(s) /\ Len(s) \in Nat
      /\ \A i \in 1..Len(s) : Append(s, x)[i] = s[i]
      /\ Append(s, x)[Len(s) + 1] = x
  BY AppendKeeps
<1>2. \A i \in 1..(Len(s) + 1) : i \in 1..Len(s) \/ i = Len(s) + 1
  BY <1>1
<1>3. \A i \in 1..Len(s) : i \in 1..(Len(s) + 1)
  BY <1>1
<1>4. Len(s) + 1 \in 1..(Len(s) + 1)
  BY <1>1
<1> QED
  BY <1>1, <1>2, <1>3, <1>4 DEF Of

\* A list holds no more messages than it has entries.
LEMMA OfFinite ==
  ASSUME NEW s \in Seq(ListEntries)
  PROVE  IsFiniteSet(Of(s)) /\ Cardinality(Of(s)) <= Len(s) /\ Cardinality(Of(s)) \in Nat
<1> DEFINE f == [i \in 1..Len(s) |-> s[i].of]
<1>1. Len(s) \in Nat /\ DOMAIN s = 1..Len(s)
  BY LenProperties
<1>2. IsFiniteSet(1..Len(s)) /\ Cardinality(1..Len(s)) = Len(s)
  <2>1. /\ IsFiniteSet(1..Len(s))
        /\ Cardinality(1..Len(s)) = IF 1 > Len(s) THEN 0 ELSE Len(s) - 1 + 1
    BY <1>1, FS_Interval
  <2> QED
    BY <1>1, <2>1
<1>3. f \in Surjection(1..Len(s), Of(s))
  BY <1>1 DEF Surjection, Of
<1>4. IsFiniteSet(Of(s)) /\ Cardinality(Of(s)) <= Len(s)
  BY <1>2, <1>3, FS_Surjection
<1> QED
  BY <1>4, FS_CardinalityType

\* A set that gains the elements of another at most.
LEMMA SomeMore ==
  ASSUME NEW S, NEW T, NEW X, IsFiniteSet(S), IsFiniteSet(X), T \subseteq S \cup X,
         NEW n \in Nat, Cardinality(S) <= n, NEW l \in Nat, Cardinality(X) <= l
  PROVE  IsFiniteSet(T) /\ Cardinality(T) <= n + l
<1>1. /\ IsFiniteSet(S \cup X)
      /\ Cardinality(S \cup X) = Cardinality(S) + Cardinality(X) - Cardinality(S \cap X)
  BY FS_Union, Zenon
<1>2. IsFiniteSet(S \cap X)
  BY FS_Intersection, Zenon
<1>3. IsFiniteSet(T) /\ Cardinality(T) <= Cardinality(S \cup X)
  BY <1>1, FS_Subset, Zenon
<1>4. /\ Cardinality(S) \in Nat /\ Cardinality(X) \in Nat /\ Cardinality(S \cap X) \in Nat
      /\ Cardinality(T) \in Nat /\ Cardinality(S \cup X) \in Nat
  BY <1>1, <1>2, <1>3, FS_CardinalityType, Zenon
<1> QED
  BY <1>1, <1>3, <1>4

\* Multiplication respects the order.
LEMMA ProductGrows ==
  ASSUME NEW a \in Nat, NEW p \in Nat, NEW q \in Nat, p <= q
  PROVE  a * p \in Nat /\ a * q \in Nat /\ a * p <= a * q
<1>1. PICK d \in Nat : q = p + d
  <2>1. q - p \in Nat /\ q = p + (q - p)
    OBVIOUS
  <2> QED
    BY <2>1
<1>2. a * q = a * p + a * d
  BY <1>1
<1>3. a * p \in Nat /\ a * d \in Nat
  OBVIOUS
<1> QED
  BY <1>2, <1>3

\* One fault more pays for one share more, also when shares and lists grow.
LEMMA ShareOfFault ==
  ASSUME NEW a \in Nat, NEW x \in Nat, NEW p \in Nat, NEW q \in Nat, p <= q,
         NEW l \in Nat
  PROVE  /\ (a * p + x * l) + p <= (a + 1) * q + x * (l + 1)
         /\ (a * p + x * l) + l <= a * q + (x + 1) * (l + 1)
         /\ a * p + x * l <= a * q + x * l
         /\ a * p + x * l \in Nat /\ a * q + x * l \in Nat
         /\ a * q \in Nat /\ (a + 1) * q \in Nat
         /\ x * (l + 1) \in Nat /\ (x + 1) * (l + 1) \in Nat
<1>1. a * p \in Nat /\ a * q \in Nat /\ a * p <= a * q /\ x * l \in Nat
  BY ProductGrows
<1>2. (a + 1) * q = a * q + q /\ x * (l + 1) = x * l + x
  OBVIOUS
<1>3. (x + 1) * (l + 1) = (x * l + x) + (l + 1)
  OBVIOUS
<1> QED
  BY <1>1, <1>2, <1>3

\* A row that was replaced stays so.
LEMMA SupersededKept ==
  ASSUME updates \in Seq(UpdateRows), NEW m, Superseded(m),
         \/ updates' = updates
         \/ \E u \in UpdateRows : updates' = Append(updates, u)
  PROVE  Superseded(m)'
<1>1. PICK i \in DOMAIN updates, j \in DOMAIN updates :
        i < j /\ updates[j].key = updates[i].key /\ m \in Of(updates[i].covers)
  BY DEF Superseded
<1>2. /\ i \in DOMAIN updates' /\ updates'[i] = updates[i]
      /\ j \in DOMAIN updates' /\ updates'[j] = updates[j]
  <2>1. CASE updates' = updates
    BY <2>1
  <2>2. CASE \E u \in UpdateRows : updates' = Append(updates, u)
    <3>1. PICK u \in UpdateRows : updates' = Append(updates, u)
      BY <2>2
    <3>2. /\ DOMAIN updates' = 1..(Len(updates) + 1) /\ DOMAIN updates = 1..Len(updates)
          /\ \A n \in 1..Len(updates) : updates'[n] = updates[n]
          /\ Len(updates) \in Nat
      BY <3>1, AppendKeeps
    <3>3. \A n \in 1..Len(updates) : n \in 1..(Len(updates) + 1)
      BY <3>2
    <3> QED
      BY <3>2, <3>3
  <2> QED
    BY <2>1, <2>2
<1>3. i < j /\ updates'[j].key = updates'[i].key /\ m \in Of(updates'[i].covers)
  BY <1>1, <1>2
<1> QED
  BY <1>2, <1>3 DEF Superseded, Of

\* Edits are written into the entries of their message, and into no other.
LEMMA EditedIs ==
  ASSUME NEW b \in Seq(ListEntries)
  PROVE  /\ DOMAIN Edited(b) = DOMAIN b
         /\ \A n \in DOMAIN b : /\ Edited(b)[n].of = b[n].of
                                /\ Id[b[n].of] = Id[event] => Edited(b)[n].text = event
                                /\ Id[b[n].of] # Id[event] => Edited(b)[n] = b[n]
<1>1. DOMAIN Edited(b) = DOMAIN b
  BY DEF Edited
<1>2. ASSUME NEW n \in DOMAIN b
      PROVE  /\ Edited(b)[n].of = b[n].of
             /\ Id[b[n].of] = Id[event] => Edited(b)[n].text = event
             /\ Id[b[n].of] # Id[event] => Edited(b)[n] = b[n]
  <2>1. b[n] \in ListEntries
    OBVIOUS
  <2>2. PICK o \in Events : \E t \in Events : b[n] = [of |-> o, text |-> t]
    BY <2>1 DEF ListEntries
  <2>3. PICK t \in Events : b[n] = [of |-> o, text |-> t]
    BY <2>2
  <2>4. [b[n] EXCEPT !.text = event] = [of |-> o, text |-> event]
    BY <2>3
  <2>5. Edited(b)[n] = IF Id[b[n].of] = Id[event] THEN [of |-> o, text |-> event] ELSE b[n]
    BY <2>4 DEF Edited
  <2> QED
    BY <2>3, <2>5
<1> QED
  BY <1>1, <1>2

\* Handling an event loses no message that was kept.
LEMMA KeptByHandlers ==
  ASSUME TypeInv, RowsAnnounced, Handlers, NEW m \in Events, Kept(m)
  PROVE  Kept(m)'
<1>1. BusOK /\ HandOK /\ StoresOK /\ StageOK
  BY TypeInvParts DEF PartsOK
<1>2. Handling /\ event' = event /\ chat' = chat /\ (batch' = batch => key' = key)
  BY HandlerKeeps
<1>3. chat \in Chats /\ event \in Events
  BY <1>1, <1>2, EventType
<1>4. updates \in Seq(UpdateRows)
  BY <1>1 DEF StoresOK
<1>5. CASE Check \/ Mark \/ Roll \/ Full \/ Read \/ Summarize \/ Store \/ Scan
  <2>1. UNCHANGED <<window, interactions, updates>> /\ pc # "rewrite"
    BY <1>5 DEF Check, Mark, Roll, Full, Read, Summarize, Store, Scan, stores, Goto
  <2>2. Superseded(m) => Superseded(m)'
    BY <1>4, <2>1, SupersededKept
  <2> QED
    BY <2>1, <2>2 DEF Kept
<1>6. CASE Push
  <2>1. /\ UNCHANGED <<interactions, updates>> /\ pc = "push"
        /\ window' = [window EXCEPT ![chat] = Append(@, [of |-> event, text |-> event])]
    BY <1>6 DEF Push, stores, Goto
  <2>2. \A c \in Chats : Of(window[c]) \subseteq Of(window'[c])
    <3>1. [of |-> event, text |-> event] \in ListEntries /\ window[chat] \in Seq(ListEntries)
      BY <1>1, <1>3 DEF ListEntries, StoresOK
    <3>2. Of(window[chat]) \subseteq Of(Append(window[chat], [of |-> event, text |-> event]))
      BY <3>1, OfAppend
    <3>3. window'[chat] = Append(window[chat], [of |-> event, text |-> event])
      BY <1>1, <1>3, <2>1 DEF StoresOK
    <3>4. \A c \in Chats : c # chat => window'[c] = window[c]
      BY <1>1, <2>1 DEF StoresOK
    <3> QED
      BY <3>2, <3>3, <3>4
  <2>3. Superseded(m) => Superseded(m)'
    BY <1>4, <2>1, SupersededKept
  <2> QED
    BY <2>1, <2>2, <2>3 DEF Kept
<1>7. CASE Emit
  <2>1. /\ UNCHANGED <<window, interactions>> /\ pc = "emit"
        /\ updates' = Append(updates, [id |-> interactionId, key |-> key, covers |-> batch])
    BY <1>7 DEF Emit, Goto
  <2>2. batch \in Seq(ListEntries) /\ batch # <<>>
    BY <1>1, <2>1 DEF StoresOK, StageOK, HasBatch
  <2>3. [id |-> interactionId, key |-> key, covers |-> batch] \in UpdateRows
    BY <1>1, <1>2, <2>2, KeyType, IdType DEF UpdateRows
  <2>4. Superseded(m) => Superseded(m)'
    BY <1>4, <2>1, <2>3, SupersededKept
  <2> QED
    BY <2>1, <2>4 DEF Kept
<1>8. CASE Commit
  <2>1. /\ UNCHANGED <<window, updates>> /\ pc = "commit"
        /\ interactions' = [interactions EXCEPT ![key] = batch]
    BY <1>8 DEF Commit, Goto
  <2>2. batch \in Seq(ListEntries) /\ batch # <<>>
    BY <1>1, <2>1 DEF StoresOK, StageOK, HasBatch
  <2>3. key \in Keys
    BY <1>1, <1>2, <2>2, KeyType
  <2>4. /\ interactions'[key] = batch
        /\ \A k \in Keys : k # key => interactions'[k] = interactions[k]
    BY <1>1, <2>1, <2>3 DEF StoresOK
  <2>5. Superseded(m) => Superseded(m)'
    BY <1>4, <2>1, SupersededKept
  <2>6. ASSUME m \in Of(interactions[key])
        PROVE  m \in Of(interactions'[key]) \/ Superseded(m)
    <3>1. interactions[key] # <<>>
      BY <2>6 DEF Of
    <3>2. PICK i \in DOMAIN updates : updates[i].key = key /\ updates[i].covers = interactions[key]
      BY <2>3, <3>1 DEF RowsAnnounced
    <3>3. /\ updates # <<>> /\ updates[Len(updates)].key = key
          /\ updates[Len(updates)].covers = batch
      BY <2>1 DEF RowsAnnounced
    <3>4. Len(updates) \in DOMAIN updates /\ i <= Len(updates) /\ i \in Nat /\ Len(updates) \in Nat
      BY <1>4, <3>2, <3>3, LenProperties, EmptySeq
    <3>5. CASE i = Len(updates)
      <4>1. interactions[key] = batch
        BY <3>2, <3>3, <3>5
      <4> QED
        BY <2>4, <2>6, <4>1
    <3>6. CASE i # Len(updates)
      <4>1. i < Len(updates)
        BY <3>4, <3>6
      <4>2. updates[Len(updates)].key = updates[i].key /\ updates[i].covers = interactions[key]
        BY <3>2, <3>3
      <4> QED
        BY <2>6, <3>2, <3>4, <4>1, <4>2 DEF Superseded
    <3> QED
      BY <3>5, <3>6
  <2>7. ASSUME NEW k \in Keys, m \in Of(interactions[k])
        PROVE  (\E l \in Keys : m \in Of(interactions'[l])) \/ Superseded(m)
    <3>1. CASE k = key
      BY <2>3, <2>6, <2>7, <3>1
    <3>2. CASE k # key
      BY <2>4, <2>7, <3>2
    <3> QED
      BY <3>1, <3>2
  <2> QED
    BY <2>1, <2>5, <2>7 DEF Kept
<1>9. CASE Delete
  <2>1. /\ UNCHANGED <<interactions, updates>> /\ pc = "delete"
        /\ window' = [window EXCEPT ![chat] = <<>>]
    BY <1>9 DEF Delete, Goto, stores
  <2>2. /\ window[chat] \in {batch, <<>>} /\ batch # <<>> /\ batch \in Seq(ListEntries)
        /\ interactions[key] = batch
    BY <1>1, <2>1 DEF StoresOK, StageOK, HasBatch, RowsAnnounced
  <2>3. key \in Keys
    BY <1>1, <1>2, <2>2, KeyType
  <2>4. Of(<<>>) = {}
    BY DEF Of
  <2>5. m \in Of(window[chat]) => m \in Of(interactions'[key])
    BY <2>1, <2>2, <2>4
  <2>6. \A c \in Chats : c # chat => window'[c] = window[c]
    BY <1>1, <2>1 DEF StoresOK
  <2>7. Superseded(m) => Superseded(m)'
    BY <1>4, <2>1, SupersededKept
  <2> QED
    BY <2>1, <2>3, <2>5, <2>6, <2>7 DEF Kept
<1>10. CASE Clear
  <2>1. /\ UNCHANGED <<interactions, updates, batch>> /\ pc = "clear" /\ pc' = "rewrite"
        /\ window' = [window EXCEPT ![chat] = <<>>]
    BY <1>10 DEF Clear, Goto, stores
  <2>2. window[chat] \in {batch, <<>>}
    BY <1>1, <2>1 DEF StageOK
  <2>3. m \in Of(window[chat]) => m \in Of(batch')
    BY <2>1, <2>2 DEF Of
  <2>4. \A c \in Chats : c # chat => window'[c] = window[c]
    BY <1>1, <2>1 DEF StoresOK
  <2>5. Superseded(m) => Superseded(m)'
    BY <1>4, <2>1, SupersededKept
  <2> QED
    BY <2>1, <2>3, <2>4, <2>5 DEF Kept
<1>11. CASE Rewrite
  <2>1. /\ UNCHANGED <<interactions, updates>> /\ pc = "rewrite"
        /\ window' = [window EXCEPT ![chat] = Edited(batch)]
    BY <1>11 DEF Rewrite, Goto, stores
  <2>2. window[chat] = <<>> /\ batch \in Seq(ListEntries)
    BY <1>1, <2>1 DEF StageOK, StoresOK
  <2>3. window'[chat] = Edited(batch) /\ \A c \in Chats : c # chat => window'[c] = window[c]
    BY <1>1, <1>3, <2>1 DEF StoresOK
  <2>4. Of(Edited(batch)) = Of(batch)
    BY <2>2, EditedIs DEF Of
  <2>5. m \notin Of(window[chat])
    BY <2>2 DEF Of
  <2>6. Superseded(m) => Superseded(m)'
    BY <1>4, <2>1, SupersededKept
  <2> QED
    BY <1>3, <2>1, <2>3, <2>4, <2>5, <2>6 DEF Kept
<1> QED
  BY <1>5, <1>6, <1>7, <1>8, <1>9, <1>10, <1>11 DEF Handlers

\* Nor does it lose the message in hand, or one it has just marked.
LEMMA GoneByHandlers ==
  ASSUME TypeInv, RowsAnnounced, Handlers
  PROVE  Gone' \subseteq Gone /\ processed \subseteq processed'
<1>1. BusOK /\ HandOK /\ StoresOK /\ StageOK /\ StoresOK'
  <2>1. TypeInv'
    BY TypeHandlers
  <2> QED
    BY <2>1, TypeInvParts DEF PartsOK
<1>2. Handling /\ event' = event /\ chat' = chat
  BY HandlerKeeps
<1>3. chat \in Chats /\ event \in Events
  BY <1>1, <1>2, EventType
<1>4. CASE Mark
  <2>1. /\ processed' = processed \cup {event}
        /\ pc = "mark" /\ pc' = (IF Kind[event] = "message" THEN "roll" ELSE "scan")
    BY <1>4 DEF Mark, Goto
  <2>2. ASSUME NEW m \in Gone'
        PROVE  m \in Gone
    <3>1. /\ m \in processed' /\ Kind[m] = "message" /\ ~ Kept(m)'
          /\ ~ (Unpushed' /\ m = event')
      BY <2>2 DEF Gone
    <3>2. m # event
      BY <1>2, <2>1, <3>1 DEF Unpushed
    <3>3. m \in processed /\ m \in Events
      BY <1>1, <2>1, <3>1, <3>2 DEF StoresOK
    <3>4. ~ Kept(m)
      BY <3>1, <3>3, KeptByHandlers
    <3> QED
      BY <3>1, <3>2, <3>3, <3>4 DEF Gone
  <2> QED
    BY <2>1, <2>2
<1>5. CASE Handlers /\ ~ Mark
  <2>1. processed' = processed
    BY <1>5 DEF Handlers, Check, Roll, Push, Full, Read, Summarize, Store, Emit, Commit, Delete,
       Scan, Clear, Rewrite
  <2>2. ASSUME Unpushed, ~ Push
        PROVE  Unpushed'
    BY <1>1, <1>5, <2>2 DEF Handlers, Check, Roll, Full, Read, Summarize, Store, Emit, Commit,
       Delete, Scan, Clear, Rewrite, Goto, Unpushed, Flushing, StoresOK
  <2>3. ASSUME Push
        PROVE  Kept(event)'
    <3>1. window' = [window EXCEPT ![chat] = Append(@, [of |-> event, text |-> event])]
      BY <2>3 DEF Push
    <3>2. [of |-> event, text |-> event] \in ListEntries /\ window[chat] \in Seq(ListEntries)
      BY <1>1, <1>3 DEF ListEntries, StoresOK
    <3>3. event \in Of(Append(window[chat], [of |-> event, text |-> event]))
      BY <3>2, OfAppend
    <3>4. window'[chat] = Append(window[chat], [of |-> event, text |-> event])
      BY <1>1, <1>3, <3>1 DEF StoresOK
    <3>5. event \in Of(window'[chat])
      BY <3>3, <3>4
    <3> QED
      BY <1>2, <1>3, <3>5 DEF Kept, Of
  <2>4. ASSUME NEW m \in Gone'
        PROVE  m \in Gone
    <3>1. /\ m \in processed /\ Kind[m] = "message" /\ ~ Kept(m)'
          /\ ~ (Unpushed' /\ m = event')
      BY <2>1, <2>4 DEF Gone
    <3>2. ~ Kept(m)
      BY <1>1, <3>1, KeptByHandlers DEF StoresOK
    <3>3. CASE Unpushed /\ m = event
      <4>1. Push
        BY <1>2, <2>2, <3>1, <3>3
      <4>2. Kept(m)'
        BY <1>2, <2>3, <3>3, <4>1
      <4> QED
        BY <3>1, <4>2
    <3> QED
      BY <3>1, <3>2, <3>3 DEF Gone
  <2> QED
    BY <2>1, <2>4
<1> QED
  BY <1>4, <1>5

\* Nothing is lost by the steps that are neither a fault nor part of handling.
LEMMA GoneKept ==
  ASSUME UNCHANGED <<processed, window, interactions, updates>>,
         (pc = "rewrite") <=> (pc' = "rewrite"),
         pc = "rewrite" => batch' = batch,
         Unpushed => Unpushed' /\ event' = event
  PROVE  Gone' \subseteq Gone
<1>1. \A m : Kept(m)' <=> Kept(m)
  BY DEF Kept, Superseded, Of
<1> QED
  BY <1>1 DEF Gone

\* A fault costs what was in hand, an expiry a list.
LEMMA GoneByFault ==
  ASSUME TypeInv, Lengths, (\E c \in Chats : Expire(c)) \/ Error \/ Crash
  PROVE  \E X : /\ IsFiniteSet(X) /\ Gone' \subseteq Gone \cup X
                /\ \/ /\ \E c \in Chats : Expire(c)
                      /\ Cardinality(X) <= LongestList
                   \/ /\ Error \/ Crash
                      /\ Cardinality(X) <= PerFault
<1>1. BusOK /\ HandOK /\ StoresOK /\ StageOK
  BY TypeInvParts DEF PartsOK
<1>2. LongestList \in Nat /\ LongestList > 0
  BY <1>1, SameLongest DEF StoresOK
<1>3. CASE \E c \in Chats : Expire(c)
  <2>1. PICK c \in Chats : Expire(c)
    BY <1>3
  <2>2. /\ UNCHANGED <<processed, interactions, updates, pc, batch, after>>
        /\ \A d \in Chats : d # c => window'[d] = window[d]
        /\ event' = event
    BY <2>1, ExpireEffect
  <2>3. IsFiniteSet(Of(window[c])) /\ Cardinality(Of(window[c])) <= LongestList
    <3>1. /\ window[c] \in Seq(ListEntries) /\ Len(window[c]) \in Nat
          /\ Len(window[c]) <= LongestList
      BY <1>1, LenProperties DEF StoresOK, Lengths
    <3>2. /\ IsFiniteSet(Of(window[c])) /\ Cardinality(Of(window[c])) <= Len(window[c])
          /\ Cardinality(Of(window[c])) \in Nat
      BY <3>1, OfFinite
    <3> QED
      BY <1>2, <3>1, <3>2
  <2>4. Unpushed' <=> Unpushed
    BY <2>2 DEF Unpushed, Flushing
  <2>5. ASSUME NEW m \in Gone', m \notin Of(window[c])
        PROVE  m \in Gone
    <3>1. /\ m \in processed /\ Kind[m] = "message" /\ ~ Kept(m)' /\ ~ (Unpushed /\ m = event)
      BY <2>2, <2>4, <2>5 DEF Gone
    <3>2. ~ Kept(m)
      <4>1. Superseded(m)' <=> Superseded(m)
        BY <2>2 DEF Superseded, Of
      <4>2. \A k \in Keys : m \notin Of(interactions[k])
        BY <2>2, <3>1 DEF Kept
      <4>3. ~ (pc = "rewrite" /\ m \in Of(batch))
        BY <2>2, <3>1 DEF Kept
      <4>4. \A d \in Chats : m \notin Of(window'[d])
        BY <3>1 DEF Kept, Of
      <4>5. \A d \in Chats : m \notin Of(window[d])
        BY <2>2, <2>5, <4>4
      <4> QED
        BY <3>1, <4>1, <4>2, <4>3, <4>5 DEF Kept
    <3> QED
      BY <3>1, <3>2 DEF Gone
  <2> QED
    BY <1>3, <2>3, <2>5
<1>4. CASE Error \/ Crash
  <2>1. UNCHANGED <<processed, window, interactions, updates>> /\ pc' \in {"ack", "off"}
    BY <1>4, ErrorEffect, CrashEffect
  <2> DEFINE X == IF pc = "rewrite" THEN Of(batch) ELSE {event}
  <2>2. IsFiniteSet(X) /\ Cardinality(X) <= PerFault
    <3>1. CASE pc = "rewrite"
      <4>1. Handling /\ entry[1] = "edited" /\ event \in processed
        BY <1>1, <3>1 DEF Handling, StageOK
      <4>2. Kind[event] = "edited"
        BY <1>1, <4>1, EventType
      <4>3. PerFault = LongestList
        BY <4>1, <4>2 DEF PerFault
      <4>4. batch \in Seq(ListEntries) /\ Len(batch) < LongestList /\ Len(batch) \in Nat
        BY <1>1, <3>1, LenProperties DEF StoresOK, Lengths
      <4>5. /\ IsFiniteSet(Of(batch)) /\ Cardinality(Of(batch)) <= Len(batch)
            /\ Cardinality(Of(batch)) \in Nat
        BY <4>4, OfFinite
      <4> QED
        BY <1>2, <3>1, <4>3, <4>4, <4>5
    <3>2. CASE pc # "rewrite"
      <4>1. IsFiniteSet({event}) /\ Cardinality({event}) = 1
        BY FS_Singleton, Zenon
      <4>2. PerFault >= 1
        BY <1>2 DEF PerFault
      <4> QED
        BY <3>2, <4>1, <4>2
    <3> QED
      BY <3>1, <3>2
  <2>3. ASSUME NEW m \in Gone', m \notin X
        PROVE  m \in Gone
    <3>1. m \in processed /\ Kind[m] = "message" /\ ~ Kept(m)'
      BY <2>1, <2>3 DEF Gone
    <3>2. ~ (Unpushed /\ m = event)
      BY <2>3 DEF Unpushed, Flushing
    <3>3. ~ (pc = "rewrite" /\ m \in Of(batch))
      BY <2>3
    <3>4. ~ Kept(m)
      BY <2>1, <3>1, <3>3 DEF Kept, Superseded, Of
    <3> QED
      BY <3>1, <3>2, <3>4 DEF Gone
  <2> QED
    BY <1>4, <2>2, <2>3
<1> QED
  BY <1>3, <1>4

LEMMA LossesStep ==
  ASSUME TypeInv, Lengths, RowsAnnounced, Losses, [Next]_vars
  PROVE  Losses'
<1>1. BusOK /\ HandOK /\ StoresOK /\ StageOK
  BY TypeInvParts DEF PartsOK
<1> DEFINE a == faults["error"] + faults["crash"]
           x == faults["expiry"]
           l == LongestList
           p == PerFault
<1>2. a \in Nat /\ x \in Nat /\ l \in Nat /\ l > 0 /\ p \in Nat
  BY <1>1, SameLongest DEF StoresOK, FaultKinds, PerFault
<1>3. /\ IsFiniteSet(Gone) /\ Cardinality(Gone) <= a * p + x * l /\ Cardinality(Gone) \in Nat
      /\ a * p + x * l \in Nat
  BY <1>2, FS_CardinalityType DEF Losses
<1>4. ASSUME faults' = faults, Gone' \subseteq Gone, processed \subseteq processed'
      PROVE  Losses'
  <2>1. a' = a /\ x' = x /\ l' = l
    BY <1>1, <1>4, SameLongest DEF StoresOK
  <2>2. p' \in Nat /\ p <= p'
    BY <1>2, <1>4, <2>1 DEF PerFault
  <2>3. IsFiniteSet(Gone') /\ Cardinality(Gone') <= Cardinality(Gone) /\ Cardinality(Gone') \in Nat
    BY <1>3, <1>4, FS_Subset, FS_CardinalityType, Zenon
  <2> HIDE DEF a, x, l, p
  <2>4. a * p + x * l <= a * p' + x * l /\ a * p' + x * l \in Nat
    BY <1>2, <2>2, ShareOfFault
  <2>5. Cardinality(Gone') <= a' * p' + x' * l'
    BY <1>3, <2>1, <2>3, <2>4
  <2> QED
    BY <2>3, <2>5 DEF Losses, a, x, l, p
<1>5. CASE \E e \in Events : Publish(e) \/ Requeue(e)
  <2>1. /\ UNCHANGED <<processed, window, interactions, updates, pc, batch, after, faults>>
        /\ Handling => event' = event
    BY <1>5, PublishEffect
  <2>2. Unpushed => Unpushed' /\ event' = event
    BY <2>1 DEF Unpushed, Flushing, Handling
  <2> QED
    BY <1>4, <2>1, <2>2, GoneKept
<1>6. CASE Start \/ Fetch \/ Take \/ Ack
  <2>1. /\ UNCHANGED <<processed, window, interactions, updates, faults>>
        /\ pc \in {"off", "idle", "ack"} /\ pc' \in {"idle", "check"}
    BY <1>6 DEF Start, Fetch, Take, Ack, Goto, stores
  <2>2. ~ Unpushed
    BY <2>1 DEF Unpushed, Flushing
  <2> QED
    BY <1>4, <2>1, <2>2, GoneKept
<1>7. CASE Handlers
  <2>1. faults' = faults
    BY <1>7, HandlerKeeps
  <2> QED
    BY <1>4, <1>7, <2>1, GoneByHandlers
<1>8. CASE UNCHANGED vars
  <2>1. UNCHANGED <<processed, window, interactions, updates, pc, batch, after, faults, log, entry>>
    BY <1>8 DEF vars, bus, stores
  <2>2. Unpushed => Unpushed' /\ event' = event
    BY <2>1 DEF Unpushed, Flushing, event
  <2> QED
    BY <1>4, <2>1, <2>2, GoneKept
<1>9. CASE (\E c \in Chats : Expire(c)) \/ Error \/ Crash
  <2>1. PICK X : /\ IsFiniteSet(X) /\ Gone' \subseteq Gone \cup X
                 /\ \/ /\ \E c \in Chats : Expire(c)
                       /\ Cardinality(X) <= LongestList
                    \/ /\ Error \/ Crash
                       /\ Cardinality(X) <= PerFault
    BY <1>9, GoneByFault
  <2>2. faults \in [FaultKinds -> Nat]
    BY <1>1 DEF StoresOK
  <2>3. processed' = processed
    BY <1>9, ExpireEffect, ErrorEffect, CrashEffect
  <2>4. CASE (\E c \in Chats : Expire(c)) /\ Cardinality(X) <= LongestList
    <3>1. Strike("expiry") /\ "expiry" \in FaultKinds
      BY <2>4, ExpireEffect
    <3>2. a' = a /\ x' = x + 1 /\ l' = l + 1
      BY <2>2, <3>1, StrikeEffect
    <3>3. p' \in Nat /\ p <= p'
      BY <1>2, <2>3, <3>2 DEF PerFault
    <3>4. Cardinality(X) <= l
      BY <2>4
    <3> HIDE DEF a, x, l, p
    <3>5. IsFiniteSet(Gone') /\ Cardinality(Gone') <= (a * p + x * l) + l
      BY <1>2, <1>3, <2>1, <3>4, SomeMore
    <3>6. (a * p + x * l) + l <= a * p' + (x + 1) * (l + 1)
      BY <1>2, <3>3, ShareOfFault
    <3>7. Cardinality(Gone') \in Nat
      BY <3>5, FS_CardinalityType
    <3>8. a * p' \in Nat /\ (x + 1) * (l + 1) \in Nat
      BY <1>2, <3>3, ShareOfFault
    <3>9. Cardinality(Gone') <= a' * p' + x' * l'
      BY <1>3, <1>2, <3>2, <3>5, <3>6, <3>7, <3>8
    <3> QED
      BY <3>5, <3>9 DEF Losses, a, x, l, p
  <2>5. CASE (Error \/ Crash) /\ Cardinality(X) <= PerFault
    <3>1. PICK f \in FaultKinds : Strike(f) /\ f # "expiry"
      <4>1. CASE Error
        BY <4>1, ErrorEffect
      <4>2. CASE Crash
        BY <4>2, CrashEffect
      <4> QED
        BY <2>5, <4>1, <4>2
    <3>2. a' = a + 1 /\ x' = x /\ l' = l + 1
      BY <2>2, <3>1, StrikeEffect
    <3>3. p' \in Nat /\ p <= p'
      BY <1>2, <2>3, <3>2 DEF PerFault
    <3>4. Cardinality(X) <= p
      BY <2>5
    <3> HIDE DEF a, x, l, p
    <3>5. IsFiniteSet(Gone') /\ Cardinality(Gone') <= (a * p + x * l) + p
      BY <1>2, <1>3, <2>1, <3>4, SomeMore
    <3>6. (a * p + x * l) + p <= (a + 1) * p' + x * (l + 1)
      BY <1>2, <3>3, ShareOfFault
    <3>7. Cardinality(Gone') \in Nat
      BY <3>5, FS_CardinalityType
    <3>8. (a + 1) * p' \in Nat /\ x * (l + 1) \in Nat
      BY <1>2, <3>3, ShareOfFault
    <3>9. Cardinality(Gone') <= a' * p' + x' * l'
      BY <1>3, <1>2, <3>2, <3>5, <3>6, <3>7, <3>8
    <3> QED
      BY <3>5, <3>9 DEF Losses, a, x, l, p
  <2> QED
    BY <2>1, <2>4, <2>5
<1> QED
  BY <1>5, <1>6, <1>7, <1>8, <1>9, NextCases

-----------------------------------------------------------------------------
(***************************************************************************)
(* No entry is handled twice, and what holds while nothing fails.          *)
(***************************************************************************)
LEMMA OthersInit ==
  ASSUME Init
  PROVE  Lengths /\ RowsAnnounced /\ Losses /\ Fresh /\ CalmInv
<1>1. \A c \in Chats : window[c] = <<>> /\ Len(<<>>) = 0
  BY DEF Init
<1>2. FaultsSoFar = 0 /\ LongestList = WindowSize /\ WindowSize > 0
  BY SummarizerAssumption DEF Init, FaultsSoFar, LongestList, FaultKinds
<1>3. Lengths
  <2>1. \A c \in Chats : Len(window[c]) <= LongestList /\ Len(window[c]) < LongestList
    BY <1>1, <1>2, SummarizerAssumption
  <2> QED
    BY <2>1 DEF Lengths, Init
<1>4. RowsAnnounced
  BY DEF RowsAnnounced, Init
<1>5. Losses
  <2>1. Gone = {}
    BY DEF Init, Gone
  <2>2. IsFiniteSet(Gone) /\ Cardinality(Gone) = 0
    BY <2>1, FS_EmptySet
  <2>3. PerFault = 1
    BY DEF Init, PerFault
  <2>4. faults["error"] = 0 /\ faults["crash"] = 0 /\ faults["expiry"] = 0
    BY DEF Init, FaultKinds
  <2>5. WindowSize \in Nat
    BY SummarizerAssumption
  <2> QED
    BY <1>2, <2>2, <2>3, <2>4, <2>5 DEF Losses
<1>6. Fresh
  BY DEF Init, Fresh
<1>7. log["edited"] = <<>> /\ log["message"] = <<>>
  BY DEF Init, Kinds
<1>8. Once
  <2>1. Delivered = {}
    <3>1. \A k \in Kinds : cursor[k] = 0
      BY DEF Init
    <3>2. 1..0 = {}
      OBVIOUS
    <3> QED
      BY <3>1, <3>2 DEF Delivered
  <2> QED
    BY <2>1 DEF Init, Once
<1>9. MessageFirst
  BY <1>7 DEF Init, MessageFirst, Handling
<1>10. NewTexts
  BY <1>7 DEF NewTexts
<1> QED
  BY <1>3, <1>4, <1>5, <1>6, <1>8, <1>9, <1>10 DEF CalmInv

\* What taking an entry does.
LEMMA TakeEffect ==
  ASSUME TypeInv, Take
  PROVE  /\ UNCHANGED <<log, cursor, acked, dlq, overflow, processed, window, faults>>
         /\ pc = "idle" /\ pc' = "check" /\ entry = <<>> /\ Delivered' = Delivered
         /\ 1 \in DOMAIN todo /\ entry' = todo[1] /\ entry' \in Delivered
         /\ \A i \in DOMAIN todo' : i + 1 \in DOMAIN todo /\ todo'[i] = todo[i + 1] /\ i \in Nat
         /\ \A i \in DOMAIN todo : i # 1 => i - 1 \in DOMAIN todo' /\ todo'[i - 1] = todo[i]
         /\ DOMAIN todo \subseteq Nat \ {0} /\ DOMAIN todo' \subseteq Nat \ {0}
<1>1. HandOK
  BY TypeInvParts DEF PartsOK
<1>2. /\ UNCHANGED <<log, cursor, acked, dlq, overflow, processed, window, faults>>
      /\ pc = "idle" /\ pc' = "check" /\ todo # <<>>
      /\ entry' = Head(todo) /\ todo' = Tail(todo)
  BY DEF Take, bus, Goto
<1>3. entry = <<>>
  BY <1>1, <1>2 DEF HandOK, Handling
<1>4. Delivered' = Delivered
  BY <1>2 DEF Delivered
<1>5. todo \in Seq(Delivered)
  BY <1>1 DEF HandOK
<1>6. todo' \in Seq(Delivered)
  BY <1>2, <1>5, TailKeeps
<1>7. DOMAIN todo = 1..Len(todo) /\ DOMAIN todo' = 1..Len(todo') /\ Len(todo) \in Nat /\ Len(todo') \in Nat
  BY <1>5, <1>6, LenProperties
<1>8. DOMAIN todo \subseteq Nat \ {0} /\ DOMAIN todo' \subseteq Nat \ {0}
  BY <1>7
<1>9. /\ 1 \in DOMAIN todo /\ entry' = todo[1] /\ entry' \in Delivered
      /\ \A i \in DOMAIN todo' : i + 1 \in DOMAIN todo /\ todo'[i] = todo[i + 1] /\ i \in Nat
      /\ \A i \in DOMAIN todo : i # 1 => i - 1 \in DOMAIN todo' /\ todo'[i - 1] = todo[i]
  BY <1>2, <1>5, TailKeeps
<1> QED
  BY <1>2, <1>3, <1>4, <1>8, <1>9

LEMMA FreshStep ==
  ASSUME TypeInv, Fresh, [Next]_vars
  PROVE  Fresh'
<1>1. BusOK /\ HandOK /\ BusOK' /\ HandOK'
  <2>1. TypeInv'
    BY TypeStep
  <2> QED
    BY <2>1, TypeInvParts DEF PartsOK
<1>2. \A d \in Delivered : d # <<>> /\ d[2] <= cursor[d[1]]
  BY <1>1, DeliveredIs DEF BusOK
<1>3. \A d \in Delivered' : d # <<>>
  BY DEF Delivered
<1>4. <<>> \notin acked /\ <<>> \notin acked'
  BY <1>1, <1>2, <1>3 DEF BusOK
<1>5. CASE UNCHANGED <<acked, todo, entry>>
  BY <1>5 DEF Fresh
<1>6. CASE Crash
  <2>1. todo' = <<>> /\ entry' = <<>>
    BY <1>6, CrashEffect
  <2> QED
    BY <1>4, <2>1 DEF Fresh
<1>7. CASE Fetch
  <2>1. /\ UNCHANGED <<acked, entry>> /\ entry = <<>>
        /\ \A i \in DOMAIN todo' :
             \E k \in Kinds : \E n \in Nat \ {0} :
               todo'[i] = <<k, n>> /\ cursor[k] < n /\ n <= cursor'[k]
        /\ \A i, j \in DOMAIN todo' : i # j => todo'[i] # todo'[j]
        /\ \A k \in Kinds : cursor[k] \in Nat
    BY <1>7, FetchEffect
  <2>2. ASSUME NEW i \in DOMAIN todo'
        PROVE  todo'[i] \notin acked /\ todo'[i] # <<>>
    <3>1. PICK k \in Kinds : \E n \in Nat \ {0} :
            todo'[i] = <<k, n>> /\ cursor[k] < n /\ n <= cursor'[k]
      BY <2>1, <2>2
    <3>2. PICK n \in Nat \ {0} : todo'[i] = <<k, n>> /\ cursor[k] < n
      BY <3>1
    <3>3. ~ (n <= cursor[k])
      BY <2>1, <3>2
    <3>4. <<k, n>> \notin Delivered
      BY <1>2, <3>3
    <3> QED
      BY <1>1, <3>2, <3>4 DEF BusOK
  <2> QED
    BY <1>4, <2>1, <2>2 DEF Fresh
<1>8. CASE Take
  <2>1. /\ acked' = acked /\ 1 \in DOMAIN todo /\ entry' = todo[1]
        /\ \A i \in DOMAIN todo' : i + 1 \in DOMAIN todo /\ todo'[i] = todo[i + 1] /\ i \in Nat \ {0}
    BY <1>8, TakeEffect
  <2>2. \A i \in DOMAIN todo' : i + 1 # 1
    BY <2>1
  <2>3. \A i, j \in DOMAIN todo' : i # j => i + 1 # j + 1
    BY <2>1
  <2> QED
    BY <2>1, <2>2, <2>3 DEF Fresh
<1>9. CASE Ack
  <2>1. acked' = acked \cup {entry} /\ entry' = <<>> /\ todo' = todo
    BY <1>9 DEF Ack
  <2>2. \A i \in DOMAIN todo : todo[i] # <<>>
    BY <1>1, <1>2 DEF HandOK
  <2> QED
    BY <1>4, <2>1, <2>2 DEF Fresh
<1> QED
  BY <1>5, <1>6, <1>7, <1>8, <1>9, NextCases, PublishEffect, ExpireEffect, ErrorEffect, HandlerKeeps
  DEF Start, vars, bus

\* A run that is calm after a step was calm before it, and the step no fault.
LEMMA CalmSteps ==
  ASSUME TypeInv, CalmInv, [Next]_vars, Calm'
  PROVE  /\ Calm /\ Once /\ MessageFirst /\ NewTexts
         /\ \/ \E e \in Events : Publish(e)
            \/ Start \/ Fetch \/ Take \/ Ack
            \/ Handlers
            \/ UNCHANGED vars
<1>1. BusOK /\ StoresOK
  BY TypeInvParts DEF PartsOK
<1>2. ASSUME NEW f \in FaultKinds, Strike(f)
      PROVE  FALSE
  <2>1. FaultsSoFar \in Nat /\ FaultsSoFar' = FaultsSoFar + 1
    BY <1>1, <1>2, StrikeEffect DEF StoresOK
  <2> QED
    BY <2>1 DEF Calm
<1>3. ~ (\E c \in Chats : Expire(c)) /\ ~ Error /\ ~ Crash
  BY <1>2, ExpireEffect, ErrorEffect, CrashEffect
<1>4. faults' = faults
  <2>1. (\E e \in Events : Publish(e) \/ Requeue(e)) => faults' = faults
    BY PublishEffect
  <2>2. Fetch => faults' = faults
    BY FetchEffect
  <2>3. Handlers => faults' = faults
    BY HandlerKeeps
  <2>4. Start \/ Take \/ Ack \/ UNCHANGED vars => faults' = faults
    BY DEF Start, Take, Ack, vars
  <2> QED
    BY <1>3, <2>1, <2>2, <2>3, <2>4, NextCases
<1>5. ~ overflow' => ~ overflow
  <2>1. (\E e \in Events : Publish(e) \/ Requeue(e)) => overflow' = overflow
    BY PublishEffect
  <2>2. Fetch => (~ overflow' => ~ overflow)
    BY FetchEffect
  <2>3. Handlers => overflow' = overflow
    BY HandlerKeeps
  <2>4. Start \/ Take \/ Ack \/ UNCHANGED vars => overflow' = overflow
    BY DEF Start, Take, Ack, vars, bus
  <2> QED
    BY <1>3, <2>1, <2>2, <2>3, <2>4, NextCases
<1>6. Calm
  <2>1. FaultsSoFar' = FaultsSoFar
    BY <1>1, <1>4, SameLongest DEF StoresOK
  <2> QED
    BY <1>5, <2>1 DEF Calm
<1>7. Once /\ MessageFirst /\ NewTexts
  BY <1>6 DEF CalmInv
<1>8. \A e \in Events : ~ Requeue(e)
  BY <1>7 DEF Once, Requeue
<1> QED
  BY <1>3, <1>6, <1>7, <1>8, NextCases

\* What acknowledging an entry does.
LEMMA AckEffect ==
  ASSUME TypeInv, Ack
  PROVE  /\ UNCHANGED <<log, cursor, dlq, overflow, processed, window, todo, faults>>
         /\ pc = "ack" /\ pc' = "idle" /\ entry' = <<>> /\ entry \in Delivered
         /\ acked' = acked \cup {entry} /\ Delivered' = Delivered
<1>1. HandOK
  BY TypeInvParts DEF PartsOK
<1>2. /\ UNCHANGED <<log, cursor, dlq, overflow, processed, window, todo, faults>>
      /\ pc = "ack" /\ pc' = "idle" /\ entry' = <<>> /\ acked' = acked \cup {entry}
  BY DEF Ack, Goto
<1>3. entry \in Delivered
  BY <1>1, <1>2 DEF HandOK, Handling
<1> QED
  BY <1>2, <1>3 DEF Delivered

LEMMA OnceStep ==
  ASSUME TypeInv, Fresh, CalmInv, [Next]_vars, Calm'
  PROVE  Once'
<1>1. BusOK /\ HandOK /\ StoresOK
  BY TypeInvParts DEF PartsOK
<1>2. Once
  BY CalmSteps
<1>3. \A d \in Delivered : /\ d # <<>> /\ d = <<d[1], d[2]>> /\ d[1] \in Kinds
                           /\ d[2] \in Nat \ {0} /\ d[2] <= cursor[d[1]]
  BY <1>1, DeliveredIs DEF BusOK
<1>4. CASE \E e \in Events : Publish(e)
  <2>1. PICK e \in Events : Publish(e)
    BY <1>4
  <2>2. /\ log' = [log EXCEPT ![Kind[e]] = Append(@, e)] /\ dlq' \subseteq dlq
        /\ UNCHANGED <<cursor, acked, processed, pc, todo, entry>> /\ Delivered' = Delivered
    BY <2>1, PublishEffect
  <2>3. /\ Kind[e] \in Kinds
        /\ \A k \in Kinds :
             /\ Len(log[k]) \in Nat
             /\ DOMAIN log[k] = 1..Len(log[k])
             /\ \A i \in DOMAIN log[k] : i \in DOMAIN log'[k] /\ log'[k][i] = log[k][i]
             /\ \A i \in DOMAIN log'[k] :
                  i \in DOMAIN log[k] \/ (k = Kind[e] /\ i = Len(log[k]) + 1 /\ log'[k][i] = e)
    <3>1. Grown(e)
      BY <1>1, <2>2, StreamsKept
    <3> QED
      BY <3>1 DEF Grown
  <2>4. \A i \in DOMAIN log[Kind[e]] : log[Kind[e]][i] # e
    BY <2>1 DEF Publish, Elements
  <2>5. ASSUME NEW k \in Kinds, NEW i \in DOMAIN log'[k], NEW j \in DOMAIN log'[k],
               log'[k][i] = log'[k][j]
        PROVE  i = j
    <3>1. CASE i \in DOMAIN log[k] /\ j \in DOMAIN log[k]
      <4>1. log[k][i] = log[k][j]
        BY <2>3, <2>5, <3>1
      <4> QED
        BY <1>2, <3>1, <4>1 DEF Once
    <3>2. CASE i \notin DOMAIN log[k]
      <4>1. k = Kind[e] /\ i = Len(log[k]) + 1 /\ log'[k][i] = e
        BY <2>3, <3>2
      <4>2. j \notin DOMAIN log[k]
        BY <2>3, <2>4, <2>5, <4>1
      <4> QED
        BY <2>3, <4>1, <4>2
    <3>3. CASE j \notin DOMAIN log[k]
      <4>1. k = Kind[e] /\ j = Len(log[k]) + 1 /\ log'[k][j] = e
        BY <2>3, <3>3
      <4>2. i \notin DOMAIN log[k]
        BY <2>3, <2>4, <2>5, <4>1
      <4> QED
        BY <2>3, <4>1, <4>2
    <3> QED
      BY <3>1, <3>2, <3>3
  <2>6. \A d \in Delivered : log'[d[1]][d[2]] = log[d[1]][d[2]]
    <3>1. \A k \in Kinds : cursor[k] \in Nat /\ cursor[k] <= Len(log[k])
      BY <1>1 DEF BusOK
    <3>2. \A d \in Delivered : d[2] \in 1..Len(log[d[1]])
      BY <1>3, <2>3, <3>1
    <3> QED
      BY <1>3, <2>3, <3>2
  <2>7. \A d \in Delivered : d \in acked \/ d = entry \/ d \in Elements(todo)
    BY <1>2 DEF Once
  <2>8. \A d \in Delivered' : d \in acked' \/ d = entry' \/ d \in Elements(todo)'
    BY <2>2, <2>7 DEF Elements
  <2>9. \A p \in processed' : \E d \in Delivered' :
          log'[d[1]][d[2]] = p /\ (d \in acked' \/ (d = entry' /\ pc' \notin {"check", "mark"}))
    BY <1>2, <2>2, <2>6 DEF Once
  <2>10. dlq' = {}
    BY <1>2, <2>2 DEF Once
  <2> QED
    BY <2>5, <2>8, <2>9, <2>10 DEF Once
<1>5. ASSUME UNCHANGED <<log, dlq>>,
             \A d \in Delivered' : d \in acked' \/ d = entry' \/ d \in Elements(todo)',
             \A p \in processed' : \E d \in Delivered' :
               log[d[1]][d[2]] = p /\ (d \in acked' \/ (d = entry' /\ pc' \notin {"check", "mark"}))
      PROVE  Once'
  BY <1>2, <1>5 DEF Once
<1>6. CASE Start \/ UNCHANGED vars
  <2>1. /\ UNCHANGED <<log, cursor, acked, dlq, processed, todo, entry>>
        /\ pc' \in {pc, "idle"}
    BY <1>6 DEF Start, vars, bus, Goto
  <2>2. Delivered' = Delivered /\ Elements(todo)' = Elements(todo)
    BY <2>1 DEF Delivered, Elements
  <2> QED
    BY <1>2, <1>5, <2>1, <2>2 DEF Once
<1>7. CASE Fetch
  <2>1. /\ UNCHANGED <<log, acked, dlq, processed, pc, entry>>
        /\ pc = "idle" /\ entry = <<>> /\ Delivered \subseteq Delivered' /\ cursor' \in [Kinds -> Nat]
        /\ \A k \in Kinds : \A n \in Nat : cursor[k] < n /\ n <= cursor'[k] =>
             \E i \in DOMAIN todo' : todo'[i] = <<k, n>>
    BY <1>7, FetchEffect
  <2>2. Elements(todo) = {}
    BY <1>7 DEF Fetch, Elements
  <2>3. ASSUME NEW d \in Delivered'
        PROVE  d \in acked' \/ d \in Elements(todo)'
    <3>1. PICK k \in Kinds : \E i \in 1..cursor'[k] : d = <<k, i>>
      BY <2>3 DEF Delivered
    <3>2. PICK i \in 1..cursor'[k] : d = <<k, i>>
      BY <3>1
    <3>3. cursor[k] \in Nat /\ cursor'[k] \in Nat
      BY <1>1, <2>1 DEF BusOK
    <3>4. CASE i <= cursor[k]
      <4>1. d \in Delivered
        BY <1>1, <3>2, <3>3, <3>4, DeliveredIs DEF BusOK
      <4>2. d # <<>>
        BY <3>2
      <4> QED
        BY <1>2, <2>1, <2>2, <4>1, <4>2 DEF Once
    <3>5. CASE cursor[k] < i
      <4>1. \E n \in DOMAIN todo' : todo'[n] = d
        BY <2>1, <3>2, <3>3, <3>5
      <4> QED
        BY <4>1 DEF Elements
    <3> QED
      BY <3>2, <3>3, <3>4, <3>5
  <2>4. \A p \in processed' : \E d \in Delivered' :
          log[d[1]][d[2]] = p /\ (d \in acked' \/ (d = entry' /\ pc' \notin {"check", "mark"}))
    BY <1>2, <2>1 DEF Once
  <2> QED
    BY <1>5, <2>1, <2>3, <2>4
<1>8. CASE Take
  <2>1. /\ UNCHANGED <<log, acked, dlq, processed>>
        /\ pc = "idle" /\ entry = <<>> /\ Delivered' = Delivered
        /\ entry' = todo[1]
        /\ \A i \in DOMAIN todo : i # 1 => i - 1 \in DOMAIN todo' /\ todo'[i - 1] = todo[i]
    BY <1>8, TakeEffect
  <2>2. ASSUME NEW d \in Delivered
        PROVE  d \in acked \/ d = entry' \/ d \in Elements(todo)'
    <3>1. d \in acked \/ d \in Elements(todo)
      BY <1>2, <1>3, <2>1 DEF Once
    <3>2. d \in Elements(todo) => d = entry' \/ d \in Elements(todo)'
      BY <2>1 DEF Elements
    <3> QED
      BY <3>1, <3>2
  <2>3. \A p \in processed : \E d \in Delivered : log[d[1]][d[2]] = p /\ d \in acked
    BY <1>2, <1>3, <2>1 DEF Once
  <2> QED
    BY <1>5, <2>1, <2>2, <2>3
<1>9. CASE Ack
  <2>1. /\ UNCHANGED <<log, dlq, processed, todo>> /\ acked' = acked \cup {entry}
        /\ Delivered' = Delivered
    BY <1>9, AckEffect
  <2>2. Elements(todo)' = Elements(todo)
    BY <2>1 DEF Elements
  <2> QED
    BY <1>2, <1>5, <2>1, <2>2 DEF Once
<1>10. CASE Handlers
  <2>1. /\ UNCHANGED <<log, acked, dlq, todo, entry>> /\ Handling /\ Delivered' = Delivered
    BY <1>10, HandlerKeeps
  <2>2. Elements(todo)' = Elements(todo)
    BY <2>1 DEF Elements
  <2>3. ASSUME NEW p \in processed'
        PROVE  \E d \in Delivered' :
                 log[d[1]][d[2]] = p /\ (d \in acked' \/ (d = entry' /\ pc' \notin {"check", "mark"}))
    <3>1. CASE Mark
      <4>1. /\ processed' = processed \cup {event} /\ pc' \in {"roll", "scan"}
        BY <3>1 DEF Mark, Goto
      <4>2. entry \in Delivered /\ log[entry[1]][entry[2]] = event
        BY <1>1, <2>1, EventType DEF event
      <4> QED
        BY <1>2, <2>1, <4>1, <4>2 DEF Once
    <3>2. CASE Check
      <4>1. processed' = processed /\ pc = "check"
        BY <3>2 DEF Check, Goto
      <4> QED
        BY <1>2, <2>1, <4>1 DEF Once
    <3>3. CASE Handlers /\ ~ Mark /\ ~ Check
      <4>1. processed' = processed /\ pc' \notin {"check", "mark"}
        BY <1>1, <3>3 DEF Handlers, Roll, Push, Full, Read, Summarize, Store, Emit, Commit,
           Delete, Scan, Clear, Rewrite, Goto, StoresOK
      <4> QED
        BY <1>2, <2>1, <4>1 DEF Once
    <3> QED
      BY <1>10, <3>1, <3>2, <3>3
  <2>4. \A d \in Delivered' : d \in acked' \/ d = entry' \/ d \in Elements(todo)'
    BY <1>2, <2>1, <2>2 DEF Once
  <2> QED
    BY <1>5, <2>1, <2>3, <2>4
<1> QED
  BY <1>4, <1>6, <1>7, <1>8, <1>9, <1>10, CalmSteps

\* Message j is the one that edit i is of, and is handled first.
Precedes(j, i) ==
  /\ Id[log["message"][j]] = Id[log["edited"][i]]
  /\ Chat[log["message"][j]] = Chat[log["edited"][i]]
  /\ i <= cursor["edited"] => j <= cursor["message"]
  /\ <<"edited", i>> \in acked \cup {entry} => <<"message", j>> \in acked

LEMMA MessageFirstStep ==
  ASSUME TypeInv, Fresh, CalmInv, [Next]_vars, Calm'
  PROVE  MessageFirst'
<1>1. BusOK /\ HandOK /\ StoresOK
  BY TypeInvParts DEF PartsOK
<1>2. Once /\ MessageFirst
  BY CalmSteps
<1>3. /\ \A i, j \in DOMAIN todo : i < j /\ todo[i][1] = "edited" => todo[j][1] = "edited"
      /\ Handling /\ entry[1] = "edited" => \A i \in DOMAIN todo : todo[i][1] = "edited"
      /\ \A i \in DOMAIN log["edited"] : \E j \in DOMAIN log["message"] : Precedes(j, i)
  BY <1>2 DEF MessageFirst, Precedes
<1>4. /\ "edited" \in Kinds /\ "message" \in Kinds
      /\ \A k \in Kinds : /\ cursor[k] \in Nat /\ Len(log[k]) \in Nat /\ DOMAIN log[k] = 1..Len(log[k])
                          /\ cursor[k] <= Len(log[k])
  BY <1>1, LenProperties DEF BusOK, Kinds
<1>5. \A d \in Delivered : d # <<>> /\ d[2] <= cursor[d[1]]
  BY <1>1, DeliveredIs DEF BusOK
<1>6. entry = <<>> \/ entry \in Delivered
  BY <1>1 DEF HandOK
<1>7. ASSUME UNCHANGED <<todo, entry>>, Handling' => Handling,
             \A i \in DOMAIN log'["edited"] : \E j \in DOMAIN log'["message"] : Precedes(j, i)'
      PROVE  MessageFirst'
  BY <1>3, <1>7 DEF MessageFirst, Precedes
<1>8. CASE \E e \in Events : Publish(e)
  <2>1. PICK e \in Events : Publish(e)
    BY <1>8
  <2>2. /\ log' = [log EXCEPT ![Kind[e]] = Append(@, e)]
        /\ UNCHANGED <<cursor, acked, pc, todo, entry>>
    BY <2>1, PublishEffect
  <2>3. \A k \in Kinds :
          /\ \A i \in DOMAIN log[k] : i \in DOMAIN log'[k] /\ log'[k][i] = log[k][i]
          /\ \A i \in DOMAIN log'[k] :
               i \in DOMAIN log[k] \/ (k = Kind[e] /\ i = Len(log[k]) + 1 /\ log'[k][i] = e)
    <3>1. Grown(e)
      BY <1>1, <2>2, StreamsKept
    <3> QED
      BY <3>1 DEF Grown
  <2>4. ASSUME NEW i \in DOMAIN log'["edited"]
        PROVE  \E j \in DOMAIN log'["message"] : Precedes(j, i)'
    <3>1. CASE i \in DOMAIN log["edited"]
      <4>1. PICK j \in DOMAIN log["message"] : Precedes(j, i)
        BY <1>3, <3>1
      <4>2. j \in DOMAIN log'["message"] /\ log'["message"][j] = log["message"][j]
        BY <1>4, <2>3
      <4>3. log'["edited"][i] = log["edited"][i]
        BY <1>4, <2>3, <3>1
      <4> QED
        BY <2>2, <4>1, <4>2, <4>3 DEF Precedes
    <3>2. CASE i \notin DOMAIN log["edited"]
      <4>1. Kind[e] = "edited" /\ i = Len(log["edited"]) + 1 /\ log'["edited"][i] = e
        BY <1>4, <2>3, <3>2
      <4>2. PICK j \in DOMAIN log["message"] :
              Id[log["message"][j]] = Id[e] /\ Chat[log["message"][j]] = Chat[e]
        BY <2>1, <4>1 DEF Publish, Elements
      <4>3. j \in DOMAIN log'["message"] /\ log'["message"][j] = log["message"][j]
        BY <1>4, <2>3
      <4>4. ~ (i <= cursor["edited"])
        BY <1>4, <4>1
      <4>5. <<"edited", i>> \notin Delivered
        BY <1>5, <4>4
      <4>6. <<"edited", i>> \notin acked \cup {entry}
        <5>1. acked \subseteq Delivered
          BY <1>1 DEF BusOK
        <5>2. <<"edited", i>> # <<>>
          OBVIOUS
        <5> QED
          BY <1>6, <4>5, <5>1, <5>2, Zenon
      <4> QED
        BY <2>2, <4>1, <4>2, <4>3, <4>4, <4>6 DEF Precedes
    <3> QED
      BY <3>1, <3>2
  <2>5. Handling' => Handling
    BY <2>2 DEF Handling
  <2> QED
    BY <1>7, <2>2, <2>4, <2>5
<1>9. CASE Start \/ Handlers \/ UNCHANGED vars
  <2>1. UNCHANGED <<log, cursor, acked, todo, entry>> /\ (Handling' => Handling)
    <3>1. CASE Start
      BY <3>1 DEF Start, bus, Goto, Handling
    <3>2. CASE Handlers
      BY <3>2, HandlerKeeps
    <3>3. CASE UNCHANGED vars
      BY <3>3 DEF vars, bus, Handling
    <3> QED
      BY <1>9, <3>1, <3>2, <3>3
  <2>2. \A i, j : Precedes(j, i)' <=> Precedes(j, i)
    BY <2>1 DEF Precedes
  <2> QED
    BY <1>3, <1>7, <2>1, <2>2
<1>10. CASE Fetch
  <2>1. /\ UNCHANGED <<log, acked, pc, entry>> /\ pc = "idle"
        /\ \A k \in Kinds : ~ overflow' => cursor'[k] = Len(log[k])
        /\ \A i, j \in DOMAIN todo' : i < j /\ todo'[i][1] = "edited" => todo'[j][1] = "edited"
    BY <1>10, FetchEffect
  <2>2. ASSUME NEW i \in DOMAIN log["edited"]
        PROVE  \E j \in DOMAIN log["message"] : Precedes(j, i)'
    <3>1. PICK j \in DOMAIN log["message"] : Precedes(j, i)
      BY <1>3
    <3>2. j <= cursor'["message"]
      BY <1>4, <2>1 DEF Calm
    <3> QED
      BY <2>1, <3>1, <3>2 DEF Precedes
  <2>3. ~ Handling'
    BY <2>1 DEF Handling
  <2>4. \A i \in DOMAIN log'["edited"] : \E j \in DOMAIN log'["message"] : Precedes(j, i)'
    BY <2>1, <2>2
  <2> QED
    BY <2>1, <2>3, <2>4 DEF MessageFirst, Precedes
<1>11. CASE Take
  <2>1. /\ UNCHANGED <<log, cursor, acked>>
        /\ entry = <<>> /\ entry' \in Delivered
        /\ 1 \in DOMAIN todo /\ entry' = todo[1]
        /\ \A i \in DOMAIN todo' : i + 1 \in DOMAIN todo /\ todo'[i] = todo[i + 1]
        /\ \A i \in DOMAIN todo : i # 1 => i - 1 \in DOMAIN todo' /\ todo'[i - 1] = todo[i]
        /\ DOMAIN todo \subseteq Nat \ {0} /\ DOMAIN todo' \subseteq Nat \ {0}
    BY <1>11, TakeEffect
  <2>2. \A i \in DOMAIN todo' : 1 < i + 1
    BY <2>1
  <2>3. \A i, j \in DOMAIN todo' : i < j => i + 1 < j + 1
    BY <2>1
  <2>4. \A i, j \in DOMAIN todo' : i < j /\ todo'[i][1] = "edited" => todo'[j][1] = "edited"
    BY <1>3, <2>1, <2>3
  <2>5. entry'[1] = "edited" => \A i \in DOMAIN todo' : todo'[i][1] = "edited"
    BY <1>3, <2>1, <2>2
  <2>6. ASSUME NEW i \in DOMAIN log["edited"]
        PROVE  \E j \in DOMAIN log["message"] : Precedes(j, i)'
    <3>1. PICK j \in DOMAIN log["message"] : Precedes(j, i)
      BY <1>3
    <3>2. ASSUME <<"edited", i>> = entry'
          PROVE  <<"message", j>> \in acked
      <4>1. i <= cursor["edited"]
        BY <1>5, <2>1, <3>2
      <4>2. j <= cursor["message"] /\ j \in Nat \ {0}
        BY <1>4, <3>1, <4>1 DEF Precedes
      <4>3. <<"message", j>> \in Delivered
        BY <1>1, <1>4, <4>2, DeliveredIs DEF BusOK
      <4>4. <<"message", j>> \notin Elements(todo)
        <5>1. entry'[1] = "edited"
          BY <3>2
        <5>2. ASSUME NEW n \in DOMAIN todo
              PROVE  todo[n][1] = "edited"
          <6>1. CASE n = 1
            BY <2>1, <5>1, <6>1
          <6>2. CASE n # 1
            BY <2>1, <2>5, <5>1, <6>2
          <6> QED
            BY <6>1, <6>2
        <5> QED
          BY <5>2 DEF Elements
      <4> QED
        BY <1>2, <2>1, <4>3, <4>4 DEF Once
    <3> QED
      BY <2>1, <3>1, <3>2 DEF Precedes
  <2>7. \A i \in DOMAIN log'["edited"] : \E j \in DOMAIN log'["message"] : Precedes(j, i)'
    BY <2>1, <2>6
  <2> QED
    BY <2>4, <2>5, <2>7 DEF MessageFirst, Precedes
<1>12. CASE Ack
  <2>1. /\ UNCHANGED <<log, cursor, todo>> /\ pc' = "idle" /\ entry' = <<>>
        /\ acked' = acked \cup {entry}
    BY <1>12, AckEffect
  <2>2. \A i, j : Precedes(j, i) => Precedes(j, i)'
    BY <2>1 DEF Precedes
  <2>3. ~ Handling'
    BY <2>1 DEF Handling
  <2>4. \A i \in DOMAIN log'["edited"] : \E j \in DOMAIN log'["message"] : Precedes(j, i)'
    BY <1>3, <2>1, <2>2
  <2> QED
    BY <1>3, <2>1, <2>3, <2>4 DEF MessageFirst, Precedes
<1> QED
  BY <1>8, <1>9, <1>10, <1>11, <1>12, CalmSteps

\* The hypotheses of NewTexts about edit i and entry x of chat c's list.
Replaces(i, c, x) ==
  LET e == log["edited"][i]
  IN  /\ Settled(i) /\ e \notin Blank
      /\ Id[x.of] = Id[e] /\ c = Chat[e]
      /\ \A m \in Elements(log["message"]) : Id[m] = Id[e] => m = x.of

LEMMA NewTextsIs ==
  /\ NewTexts <=> \A i \in DOMAIN log["edited"], c \in Chats : \A n \in DOMAIN Listed(c) :
                    Replaces(i, c, Listed(c)[n]) => Kind[Listed(c)[n].text] = "edited"
  /\ NewTexts' <=> \A i \in DOMAIN log'["edited"], c \in Chats : \A n \in DOMAIN Listed(c)' :
                    Replaces(i, c, Listed(c)[n])' => Kind[Listed(c)'[n].text] = "edited"
<1>1. NewTexts <=> \A i \in DOMAIN log["edited"], c \in Chats : \A n \in DOMAIN Listed(c) :
                    Replaces(i, c, Listed(c)[n]) => Kind[Listed(c)[n].text] = "edited"
  BY DEF NewTexts, Replaces
<1>2. NewTexts' <=> (\A i \in DOMAIN log["edited"], c \in Chats : \A n \in DOMAIN Listed(c) :
                    Replaces(i, c, Listed(c)[n]) => Kind[Listed(c)[n].text] = "edited")'
  BY <1>1, PTL
<1> QED
  BY <1>1, <1>2

\* The steps that settle nothing, and add no text to a list.
LEMMA NewTextsKept ==
  ASSUME TypeInv, NewTexts, log' = log,
         \A i \in DOMAIN log["edited"] : Settled(i)' => Settled(i),
         \A c \in Chats : \A n \in DOMAIN Listed(c)' :
           n \in DOMAIN Listed(c) /\ Listed(c)'[n] = Listed(c)[n]
  PROVE  NewTexts'
<1>1. ASSUME NEW i \in DOMAIN log'["edited"], NEW c \in Chats, NEW n \in DOMAIN Listed(c)',
             Replaces(i, c, Listed(c)[n])'
      PROVE  Kind[Listed(c)'[n].text] = "edited"
  <2>1. n \in DOMAIN Listed(c) /\ Listed(c)'[n] = Listed(c)[n]
    OBVIOUS
  <2>2. Replaces(i, c, Listed(c)[n])
    BY <1>1, <2>1 DEF Replaces, Elements
  <2> QED
    BY <2>1, <2>2, NewTextsIs
<1> QED
  BY <1>1, NewTextsIs

\* An edit in hand has not been handled before.
LEMMA EditIsNew ==
  ASSUME TypeInv, Fresh, Once, pc = "check"
  PROVE  event \notin processed
<1>1. BusOK /\ HandOK
  BY TypeInvParts DEF PartsOK
<1>2. SUFFICES ASSUME event \in processed PROVE FALSE
  OBVIOUS
<1>3. PICK d \in Delivered : log[d[1]][d[2]] = event /\ d \in acked
  BY <1>2 DEF Once
<1>4. /\ entry \in Delivered /\ entry[1] \in Kinds /\ entry[2] \in DOMAIN log[entry[1]]
      /\ Kind[event] = entry[1]
  BY <1>1, EventType DEF Handling
<1>5. /\ d = <<d[1], d[2]>> /\ d[1] \in Kinds /\ d[2] \in Nat \ {0} /\ d[2] <= cursor[d[1]]
      /\ entry = <<entry[1], entry[2]>>
  BY <1>1, <1>4, DeliveredIs DEF BusOK
<1>6. d[2] \in DOMAIN log[d[1]]
  <2>1. /\ cursor[d[1]] \in Nat /\ cursor[d[1]] <= Len(log[d[1]]) /\ Len(log[d[1]]) \in Nat
        /\ DOMAIN log[d[1]] = 1..Len(log[d[1]])
    BY <1>1, <1>5, LenProperties DEF BusOK
  <2> QED
    BY <1>5, <2>1
<1>7. d[1] = entry[1]
  BY <1>1, <1>3, <1>4, <1>5, <1>6 DEF BusOK
<1>8. d[2] = entry[2]
  BY <1>3, <1>4, <1>5, <1>6, <1>7 DEF Once, event
<1> QED
  BY <1>3, <1>5, <1>7, <1>8 DEF Fresh

\* While an event is handled, only checking, scanning and rewriting settle it.
LEMMA SettledBy ==
  ASSUME TypeInv, Handlers, NEW i \in DOMAIN log["edited"], Settled(i)', ~ Settled(i)
  PROVE  /\ Check \/ Scan \/ Rewrite
         /\ entry = <<"edited", i>> /\ event = log["edited"][i] /\ pc' = "ack" /\ event' = event
<1>1. StoresOK /\ StageOK
  BY TypeInvParts DEF PartsOK
<1>2. UNCHANGED <<acked, entry>> /\ event' = event
  BY HandlerKeeps
<1>3. entry = <<"edited", i>> /\ pc' = "ack" /\ pc # "ack"
  BY <1>2 DEF Settled
<1>4. entry[1] = "edited" /\ event = log["edited"][i]
  BY <1>3 DEF event
<1>5. pc \notin {"roll", "push", "full"} /\ ~ Flushing
  BY <1>1, <1>4 DEF StageOK
<1>6. Check \/ Scan \/ Rewrite
  BY <1>3, <1>5 DEF Handlers, Check, Mark, Roll, Push, Full, Read, Summarize, Store, Emit, Commit,
     Delete, Scan, Clear, Rewrite, Goto, Flushing
<1> QED
  BY <1>2, <1>3, <1>4, <1>6

\* A message comes to its list before the edits of it are settled.
LEMMA PushBeforeEdit ==
  ASSUME TypeInv, Fresh, Once, MessageFirst, Push, NEW i \in DOMAIN log["edited"],
         <<"edited", i>> \in acked, Id[event] = Id[log["edited"][i]],
         \A m \in Elements(log["message"]) : Id[m] = Id[log["edited"][i]] => m = event
  PROVE  FALSE
<1>1. BusOK /\ HandOK /\ StageOK
  BY TypeInvParts DEF PartsOK
<1>2. Handling /\ entry[1] = "message"
  BY <1>1 DEF Push, Goto, Handling, StageOK
<1>3. /\ entry \in Delivered /\ entry[2] \in DOMAIN log["message"]
      /\ event = log["message"][entry[2]]
  BY <1>1, <1>2, EventType DEF event
<1>4. PICK j \in DOMAIN log["message"] :
        Id[log["message"][j]] = Id[log["edited"][i]] /\ <<"message", j>> \in acked
  BY DEF MessageFirst
<1>5. log["message"][j] = event
  BY <1>4 DEF Elements
<1>6. j = entry[2]
  BY <1>3, <1>4, <1>5 DEF Once, Kinds
<1>7. entry = <<"message", j>>
  BY <1>1, <1>2, <1>3, <1>6, DeliveredIs DEF BusOK
<1> QED
  BY <1>4, <1>7 DEF Fresh

LEMMA NewTextsHandlers ==
  ASSUME TypeInv, Fresh, Once, MessageFirst, NewTexts, Handlers
  PROVE  NewTexts'
<1>1. BusOK /\ HandOK /\ StoresOK /\ StageOK
  BY TypeInvParts DEF PartsOK
<1>2. UNCHANGED <<log, acked, entry>> /\ event' = event /\ chat' = chat /\ Handling
  BY HandlerKeeps
<1>3. chat \in Chats /\ event \in Events /\ Kind[event] = entry[1]
  BY <1>1, <1>2, EventType
<1> PICK h \in Chats : h = chat
  BY <1>3
<1>4. \A c \in Chats : Listed(c)' = IF pc' \in {"clear", "rewrite"} /\ c = chat THEN batch' ELSE window'[c]
  BY <1>2 DEF Listed
<1>5. ASSUME NEW i \in DOMAIN log["edited"], Settled(i)', ~ Settled(i)
      PROVE  /\ Check \/ Scan \/ Rewrite
             /\ entry = <<"edited", i>> /\ event = log["edited"][i] /\ pc' = "ack"
  BY <1>5, SettledBy
<1>6. CASE Check
  <2>1. window' = window /\ pc = "check" /\ pc' \in {"ack", "mark"}
        /\ (pc' = "ack" => event \in Blank \/ event \in processed)
    BY <1>6 DEF Check, Goto
  <2>2. event \notin processed
    BY <2>1, EditIsNew
  <2>3. ASSUME NEW i \in DOMAIN log'["edited"], NEW c \in Chats, NEW n \in DOMAIN Listed(c)',
               Replaces(i, c, Listed(c)[n])'
        PROVE  Kind[Listed(c)'[n].text] = "edited"
    <3>1. i \in DOMAIN log["edited"] /\ Listed(c)' = Listed(c)
      BY <1>2, <1>4, <2>1 DEF Listed
    <3>2. CASE Settled(i)
      <4>1. Replaces(i, c, Listed(c)[n])
        BY <1>2, <2>3, <3>1, <3>2 DEF Replaces, Elements
      <4> QED
        BY <3>1, <4>1, NewTextsIs
    <3>3. CASE ~ Settled(i)
      <4>1. Settled(i)' /\ log["edited"][i] \notin Blank
        BY <1>2, <2>3 DEF Replaces
      <4> QED
        BY <1>5, <2>1, <2>2, <3>1, <3>3, <4>1
    <3> QED
      BY <3>2, <3>3
  <2> QED
    BY <2>3, NewTextsIs
<1>7. CASE Scan
  <2>1. /\ window' = window /\ batch' = window[chat] /\ pc = "scan" /\ pc' \in {"ack", "clear"}
        /\ pc' = "ack" => \A n \in DOMAIN window[chat] : Id[window[chat][n].of] # Id[event]
    BY <1>7 DEF Scan, Goto
  <2>2. ASSUME NEW i \in DOMAIN log'["edited"], NEW c \in Chats, NEW n \in DOMAIN Listed(c)',
               Replaces(i, c, Listed(c)[n])'
        PROVE  Kind[Listed(c)'[n].text] = "edited"
    <3>1. i \in DOMAIN log["edited"] /\ Listed(c)' = Listed(c) /\ Listed(c) = window[c]
      BY <1>2, <1>4, <2>1 DEF Listed
    <3>2. CASE Settled(i)
      <4>1. Replaces(i, c, Listed(c)[n])
        BY <1>2, <2>2, <3>1, <3>2 DEF Replaces, Elements
      <4> QED
        BY <3>1, <4>1, NewTextsIs
    <3>3. CASE ~ Settled(i)
      <4>1. Settled(i)'
        BY <2>2 DEF Replaces
      <4>2. event = log["edited"][i] /\ pc' = "ack"
        BY <1>5, <3>1, <3>3, <4>1
      <4>3. c = chat /\ Id[window[c][n].of] = Id[event]
        BY <1>2, <2>2, <3>1, <4>2 DEF Replaces, chat
      <4> QED
        BY <2>1, <3>1, <4>2, <4>3
    <3> QED
      BY <3>2, <3>3
  <2> QED
    BY <2>2, NewTextsIs
<1>8. CASE Rewrite
  <2>1. /\ window' = [window EXCEPT ![h] = Edited(batch)] /\ pc = "rewrite" /\ pc' = "ack"
    BY <1>8, h = chat DEF Rewrite, Goto
  <2>2. /\ Listed(h)' = Edited(batch) /\ Listed(h) = batch
        /\ \A c \in Chats : c # h => Listed(c)' = Listed(c)
    BY <1>1, <1>3, <1>4, <2>1, h = chat DEF Listed, StoresOK
  <2>3. /\ batch \in Seq(ListEntries) /\ Kind[event] = "edited"
    BY <1>1, <1>3, <2>1 DEF StoresOK, StageOK
  <2>4. ASSUME NEW i \in DOMAIN log'["edited"], NEW c \in Chats, NEW n \in DOMAIN Listed(c)',
               Replaces(i, c, Listed(c)[n])'
        PROVE  Kind[Listed(c)'[n].text] = "edited"
    <3>1. i \in DOMAIN log["edited"]
      BY <1>2
    <3>2. CASE c = h
      <4>1. n \in DOMAIN batch /\ Listed(c)'[n] = Edited(batch)[n] /\ Edited(batch)[n].of = batch[n].of
        BY <2>2, <2>3, <3>2, EditedIs
      <4>2. CASE Id[batch[n].of] = Id[event]
        BY <2>3, <4>1, <4>2, EditedIs
      <4>3. CASE Id[batch[n].of] # Id[event]
        <5>1. Edited(batch)[n] = batch[n]
          BY <2>3, <4>1, <4>3, EditedIs
        <5>2. event # log["edited"][i]
          BY <1>2, <2>4, <4>1, <4>3 DEF Replaces
        <5>3. Settled(i)
          BY <1>5, <2>4, <3>1, <5>2 DEF Replaces
        <5>4. Replaces(i, c, Listed(c)[n])
          BY <1>2, <2>2, <2>4, <3>2, <4>1, <5>1, <5>3 DEF Replaces, Elements
        <5> QED
          BY <2>2, <3>1, <3>2, <4>1, <5>1, <5>4, NewTextsIs
      <4> QED
        BY <4>2, <4>3
    <3>3. CASE c # h
      <4>1. Listed(c)' = Listed(c)
        BY <2>2, <3>3
      <4>2. log["edited"][i] # event
        BY <1>2, <2>4, <3>3, h = chat DEF Replaces, chat
      <4>3. Settled(i)
        BY <1>5, <2>4, <3>1, <4>2 DEF Replaces
      <4>4. Replaces(i, c, Listed(c)[n])
        BY <1>2, <2>4, <4>1, <4>3 DEF Replaces, Elements
      <4> QED
        BY <3>1, <4>1, <4>4, NewTextsIs
    <3> QED
      BY <3>2, <3>3
  <2> QED
    BY <2>4, NewTextsIs
<1>9. CASE Push
  <2>1. /\ window' = [window EXCEPT ![h] = Append(@, [of |-> event, text |-> event])]
        /\ pc = "push" /\ pc' = "full"
    BY <1>9, h = chat DEF Push, Goto
  <2> DEFINE x == [of |-> event, text |-> event]
             w == window[h]
  <2>2. /\ Listed(h)' = Append(w, x) /\ Listed(h) = w
        /\ \A c \in Chats : c # h => Listed(c)' = Listed(c)
    BY <1>1, <1>3, <1>4, <2>1, h = chat DEF Listed, StoresOK
  <2>3. w \in Seq(ListEntries) /\ x \in ListEntries /\ x.of = event
    BY <1>1, <1>3 DEF StoresOK, ListEntries
  <2> HIDE DEF x, w
  <2>4. /\ DOMAIN Append(w, x) = 1..(Len(w) + 1) /\ DOMAIN w = 1..Len(w) /\ Len(w) \in Nat
        /\ \A n \in 1..Len(w) : Append(w, x)[n] = w[n]
        /\ Append(w, x)[Len(w) + 1] = x
    BY <2>3, AppendKeeps
  <2>5. ASSUME NEW i \in DOMAIN log'["edited"], NEW c \in Chats, NEW n \in DOMAIN Listed(c)',
               Replaces(i, c, Listed(c)[n])'
        PROVE  Kind[Listed(c)'[n].text] = "edited"
    <3>1. i \in DOMAIN log["edited"]
      BY <1>2
    <3>2. <<"edited", i>> \in acked /\ Settled(i)
      BY <1>2, <2>1, <2>5 DEF Replaces, Settled
    <3>3. CASE n \in DOMAIN Listed(c) /\ Listed(c)'[n] = Listed(c)[n]
      <4>1. Replaces(i, c, Listed(c)[n])
        BY <1>2, <2>5, <3>2, <3>3 DEF Replaces, Elements
      <4> QED
        BY <3>1, <3>3, <4>1, NewTextsIs
    <3>4. CASE Listed(c)'[n] = x
      <4>1. /\ Id[event] = Id[log["edited"][i]]
            /\ \A m \in Elements(log["message"]) : Id[m] = Id[log["edited"][i]] => m = event
        BY <1>2, <2>3, <2>5, <3>4 DEF Replaces, Elements
      <4> QED
        BY <1>9, <3>1, <3>2, <4>1, PushBeforeEdit
    <3>5. \/ n \in DOMAIN Listed(c) /\ Listed(c)'[n] = Listed(c)[n]
          \/ Listed(c)'[n] = x
      <4>1. CASE c = h
        <5>1. n \in 1..(Len(w) + 1) /\ (n \in 1..Len(w) \/ n = Len(w) + 1)
          BY <2>2, <2>4, <4>1
        <5> QED
          BY <2>2, <2>4, <4>1, <5>1
      <4>2. CASE c # h
        BY <2>2, <4>2
      <4> QED
        BY <4>1, <4>2
    <3> QED
      BY <3>3, <3>4, <3>5
  <2> QED
    BY <2>5, NewTextsIs
<1>10. CASE Handlers /\ ~ (Check \/ Scan \/ Rewrite \/ Push)
  <2>1. \A i \in DOMAIN log["edited"] : Settled(i)' => Settled(i)
    BY <1>5, <1>10
  <2>2. \A c \in Chats : Listed(c)' \in {Listed(c), <<>>}
    <3>1. CASE Clear
      <4>1. /\ window' = [window EXCEPT ![chat] = <<>>] /\ pc = "clear" /\ pc' = "rewrite"
            /\ batch' = batch
        BY <3>1 DEF Clear, Goto
      <4> QED
        BY <1>1, <1>3, <1>4, <4>1 DEF Listed, StoresOK
    <3>2. CASE Delete
      <4>1. /\ window' = [window EXCEPT ![chat] = <<>>] /\ pc = "delete" /\ pc' \in {"push", "ack"}
        BY <1>1, <3>2 DEF Delete, Goto, StoresOK
      <4> QED
        BY <1>1, <1>3, <1>4, <4>1 DEF Listed, StoresOK
    <3>3. CASE ~ Clear /\ ~ Delete
      <4>1. /\ window' = window /\ pc \notin {"clear", "rewrite"} /\ pc' \notin {"clear", "rewrite"}
        BY <1>1, <1>10, <3>3 DEF Handlers, Mark, Roll, Full, Read, Summarize, Store, Emit, Commit,
           Goto, StoresOK
      <4> QED
        BY <1>4, <4>1 DEF Listed
    <3> QED
      BY <3>1, <3>2, <3>3
  <2>3. \A c \in Chats : \A n \in DOMAIN Listed(c)' :
          n \in DOMAIN Listed(c) /\ Listed(c)'[n] = Listed(c)[n]
    BY <2>2
  <2> QED
    BY <1>2, <2>1, <2>3, NewTextsKept
<1> QED
  BY <1>6, <1>7, <1>8, <1>9, <1>10

LEMMA NewTextsStep ==
  ASSUME TypeInv, Fresh, CalmInv, [Next]_vars, Calm'
  PROVE  NewTexts'
<1>1. BusOK /\ HandOK /\ StoresOK
  BY TypeInvParts DEF PartsOK
<1>2. Once /\ MessageFirst /\ NewTexts
  BY CalmSteps
<1>3. CASE Handlers
  BY <1>2, <1>3, NewTextsHandlers
<1>4. CASE \E e \in Events : Publish(e)
  <2>1. PICK e \in Events : Publish(e)
    BY <1>4
  <2>2. /\ log' = [log EXCEPT ![Kind[e]] = Append(@, e)]
        /\ UNCHANGED <<cursor, acked, window, pc, entry, batch>>
        /\ Handling => chat' = chat
    BY <2>1, PublishEffect
  <2>3. \A k \in Kinds :
          /\ Len(log[k]) \in Nat /\ DOMAIN log[k] = 1..Len(log[k])
          /\ \A i \in DOMAIN log[k] : i \in DOMAIN log'[k] /\ log'[k][i] = log[k][i]
          /\ \A i \in DOMAIN log'[k] : i \in DOMAIN log[k] \/ i = Len(log[k]) + 1
    <3>1. Grown(e)
      BY <1>1, <2>2, StreamsKept
    <3> QED
      BY <3>1 DEF Grown
  <2>4. "edited" \in Kinds /\ "message" \in Kinds
    BY DEF Kinds
  <2>5. \A c \in Chats : Listed(c)' = Listed(c)
    <3>1. pc \in {"clear", "rewrite"} => chat' = chat
      BY <2>2 DEF Handling
    <3> QED
      BY <2>2, <3>1 DEF Listed
  <2>6. ASSUME NEW i \in DOMAIN log'["edited"], NEW c \in Chats, NEW n \in DOMAIN Listed(c)',
               Replaces(i, c, Listed(c)[n])'
        PROVE  Kind[Listed(c)'[n].text] = "edited"
    <3>1. Settled(i)
      BY <2>2, <2>6 DEF Replaces, Settled
    <3>2. <<"edited", i>> \in Delivered
      BY <1>1, <3>1 DEF Settled, BusOK, HandOK, Handling
    <3>3. i \in DOMAIN log["edited"]
      <4>1. i <= cursor["edited"] /\ i \in Nat \ {0}
        BY <1>1, <3>2, DeliveredIs DEF BusOK
      <4>2. cursor["edited"] \in Nat /\ cursor["edited"] <= Len(log["edited"])
        BY <1>1, <2>4 DEF BusOK
      <4> QED
        BY <2>3, <2>4, <4>1, <4>2
    <3>4. log'["edited"][i] = log["edited"][i] /\ Elements(log["message"]) \subseteq Elements(log'["message"])
      BY <2>3, <2>4, <3>3 DEF Elements
    <3>5. Replaces(i, c, Listed(c)[n])
      BY <2>5, <2>6, <3>1, <3>4 DEF Replaces, Elements
    <3> QED
      BY <1>2, <2>5, <3>3, <3>5, NewTextsIs
  <2> QED
    BY <2>6, NewTextsIs
<1>5. CASE Start \/ Fetch \/ Take \/ Ack
  <2>1. /\ UNCHANGED <<log, window>> /\ pc \in {"off", "idle", "ack"} /\ pc' \in {"idle", "check"}
        /\ acked' = (IF pc = "ack" THEN acked \cup {entry} ELSE acked)
    <3>1. CASE Start
      BY <3>1 DEF Start, bus, Goto
    <3>2. CASE Fetch
      BY <3>2, FetchEffect
    <3>3. CASE Take
      BY <3>3, TakeEffect
    <3>4. CASE Ack
      BY <3>4, AckEffect
    <3> QED
      BY <1>5, <3>1, <3>2, <3>3, <3>4
  <2>2. \A c \in Chats : Listed(c)' = Listed(c)
    BY <2>1 DEF Listed
  <2>3. \A i \in DOMAIN log["edited"] : Settled(i)' => Settled(i)
    BY <2>1 DEF Settled
  <2> QED
    BY <1>2, <2>1, <2>2, <2>3, NewTextsKept
<1>6. CASE UNCHANGED vars
  <2>1. UNCHANGED <<log, acked, window, pc, entry, batch>>
    BY <1>6 DEF vars, bus
  <2>2. chat' = chat
    BY <2>1 DEF chat, event
  <2>3. \A c \in Chats : Listed(c)' = Listed(c)
    BY <2>1, <2>2 DEF Listed
  <2>4. \A i \in DOMAIN log["edited"] : Settled(i)' => Settled(i)
    BY <2>1 DEF Settled
  <2> QED
    BY <1>2, <2>1, <2>3, <2>4, NewTextsKept
<1> QED
  BY <1>3, <1>4, <1>5, <1>6, CalmSteps

LEMMA CalmStep ==
  ASSUME TypeInv, Fresh, CalmInv, [Next]_vars
  PROVE  CalmInv'
<1>1. Calm' => Once' /\ MessageFirst' /\ NewTexts'
  BY OnceStep, MessageFirstStep, NewTextsStep
<1> QED
  BY <1>1 DEF CalmInv

-----------------------------------------------------------------------------
(***************************************************************************)
(* The theorems.                                                           *)
(***************************************************************************)
LEMMA InvInit == Init => Inv
BY TypeInit, AgreementInit, OthersInit DEF Inv

LEMMA InvStep == Inv /\ [Next]_vars => Inv'
BY TypeStep, AgreementStep, LengthsStep, RowsAnnouncedStep, LossesStep, FreshStep, CalmStep DEF Inv

\* The invariant holds in every state the summarizer can reach.
THEOREM Invariance == Spec => []Inv
  BY InvInit, InvStep, PTL DEF Spec

\* Every variable keeps its type.
THEOREM TypeCorrect == Spec => []TypeOK
<1>1. Inv => TypeOK
  BY DEF Inv, TypeInv
<1> QED
  BY <1>1, Invariance, PTL

\* Row, object and last event of a window differ only in the window being
\* flushed and in one window per fault (_flush_window, whose object and event
\* leave before its transaction commits).
THEOREM StoresAgreeHolds == Spec => []StoresAgree
<1>1. Inv => StoresAgree
  BY DEF Inv, Agreement, Torn, StoresAgree
<1> QED
  BY <1>1, Invariance, PTL

LEMMA LostIsGone ==
  ASSUME Inv
  PROVE  LossBound
<1>1. StoresOK
  BY TypeInvParts DEF Inv, PartsOK
<1>2. ASSUME NEW m \in Lost
      PROVE  m \in Gone
  <2>1. m \in processed /\ Kind[m] = "message" /\ ~ (pc \notin {"off", "idle", "ack"} /\ m = event)
    BY DEF Lost
  <2>2. ~ (Unpushed /\ m = event)
    BY <2>1 DEF Unpushed, Flushing
  <2>3. ~ Superseded(m)
    <3>1. \A i \in DOMAIN updates :
            m \in Of(updates[i].covers) =>
              \A j \in DOMAIN updates : j > i => updates[j].key # updates[i].key
      BY DEF Lost
    <3>2. DOMAIN updates \subseteq Nat
      BY <1>1, LenProperties DEF StoresOK
    <3>3. \A i, j \in DOMAIN updates : i < j => j > i
      BY <3>2
    <3> QED
      BY <3>1, <3>3 DEF Superseded
  <2>4. ~ Kept(m)
    BY <2>3 DEF Kept, Lost
  <2> QED
    BY <2>1, <2>2, <2>4 DEF Gone
<1>3. IsFiniteSet(Gone) /\ IsFiniteSet(Lost) /\ Cardinality(Lost) <= Cardinality(Gone)
  <2>1. IsFiniteSet(Gone) /\ Lost \subseteq Gone
    BY <1>2 DEF Inv, Losses
  <2> QED
    BY <2>1, FS_Subset, Zenon
<1>4. Cardinality(Gone) \in Nat /\ Cardinality(Lost) \in Nat
  BY <1>3, FS_CardinalityType
<1> DEFINE b == (faults["error"] + faults["crash"]) * PerFault + faults["expiry"] * LongestList
<1>5. b \in Nat
  <2>1. /\ faults["error"] + faults["crash"] \in Nat /\ faults["expiry"] \in Nat
        /\ LongestList \in Nat /\ PerFault \in Nat
    BY <1>1, SameLongest DEF StoresOK, FaultKinds, PerFault
  <2> QED
    BY <2>1, ShareOfFault
<1>6. Cardinality(Gone) <= b
  BY DEF Inv, Losses
<1> HIDE DEF b
<1>7. Cardinality(Lost) <= b
  BY <1>3, <1>4, <1>5, <1>6
<1> QED
  BY <1>7 DEF LossBound, PerFault, b

\* An error or a crash costs at most the message in hand, or the list an edit
\* was rewriting, and an expiry at most one list; a list is never longer than
\* its window size by more than the faults so far (consume_loop,
\* _handle_message, _handle_edited_message, _flush_window).
THEOREM LossBoundHolds == Spec => []LossBound
<1>1. Inv => LossBound
  BY LostIsGone
<1> QED
  BY <1>1, Invariance, PTL

LEMMA ListsAreListed ==
  ASSUME Inv
  PROVE  NewestText
<1>1. StoresOK /\ StageOK
  BY TypeInvParts DEF Inv, PartsOK
<1>2. SUFFICES ASSUME ~ overflow, ~ (FaultsSoFar > 0)
               PROVE  NewestText
  BY DEF NewestText
<1>3. Calm
  <2>1. FaultsSoFar \in Nat
    BY <1>1, SameLongest DEF StoresOK
  <2> QED
    BY <1>2, <2>1 DEF Calm
<1>4. NewTexts
  BY <1>3 DEF Inv, CalmInv
<1>5. \A c \in Chats : window[c] \in {Listed(c), <<>>}
  BY <1>1 DEF StageOK, Listed
<1>6. ASSUME NEW i \in DOMAIN log["edited"], NEW c \in Chats, NEW n \in DOMAIN window[c],
             <<"edited", i>> \in acked, log["edited"][i] \notin Blank,
             Id[window[c][n].of] = Id[log["edited"][i]], c = Chat[log["edited"][i]],
             \A m \in Elements(log["message"]) : Id[m] = Id[log["edited"][i]] => m = window[c][n].of
      PROVE  Kind[window[c][n].text] = "edited"
  <2>1. window[c] = Listed(c)
    BY <1>5
  <2>2. Replaces(i, c, Listed(c)[n])
    BY <1>6, <2>1 DEF Replaces, Settled
  <2> QED
    BY <1>4, <2>1, <2>2, NewTextsIs
<1> QED
  BY <1>6 DEF NewestText

\* While nothing fails and no stream holds more than one read returns, a list
\* holds the new text of each edited message whose edit was handled: messages
\* are read before the edits of the same batch, and an edit is published after
\* its message (consume_loop, _handle_edited_message).
THEOREM NewestTextHolds == Spec => []NewestText
<1>1. Inv => NewestText
  BY ListsAreListed
<1> QED
  BY <1>1, Invariance, PTL
==============================================================================
