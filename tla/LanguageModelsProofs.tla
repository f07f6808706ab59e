------------------------ MODULE LanguageModelsProofs ------------------------
(***************************************************************************)
(* Theorems about LanguageModels, for every value of its constants.        *)
(***************************************************************************)
EXTENDS LanguageModelsInvariant, SequenceTheorems, WellFoundedInduction, TLAPS

ClientState == [free : Nat, queue : Seq(Callers), line : Seq(Callers), pause : Nat, since : Nat]

(***************************************************************************)
(* Lemmas about sequences and numbers.                                     *)
(***************************************************************************)

\* A set of numbers has a least element.
LEMMA LeastNumber ==
  ASSUME NEW T \in SUBSET Nat, T # {}
  PROVE  \E x \in T : \A y \in T : x <= y
<1> DEFINE R == OpToRel(<, Nat)
<1>1. IsWellFoundedOn(R, Nat)
  BY NatLessThanWellFounded
<1>2. \A x, y \in Nat : x < y => <<x, y>> \in R
  BY DEF OpToRel
<1> HIDE DEF R
<1>3. PICK x \in T : \A y \in T : ~ (<<y, x>> \in R)
  BY <1>1, WFMin, T \subseteq Nat, Zenon
<1>4. ASSUME NEW y \in T
      PROVE  x <= y
  <2>1. ~ (y < x)
    BY <1>2, <1>3
  <2> QED
    BY <2>1
<1> QED
  BY <1>4

\* Who comes last is the only one who is new.
LEMMA Appended ==
  ASSUME NEW S, NEW s \in Seq(S), NEW x \in S
  PROVE  /\ Append(s, x) \in Seq(S) /\ Append(s, x) # <<>>
         /\ Elements(Append(s, x)) = Elements(s) \cup {x}
         /\ Distinct(s) /\ x \notin Elements(s) => Distinct(Append(s, x))
<1> DEFINE a == Append(s, x)  n == Len(s)
<1>1. a \in Seq(S) /\ n \in Nat /\ DOMAIN s = 1..n /\ DOMAIN a = 1..(n + 1)
      /\ a[n + 1] = x /\ \A i \in 1..n : a[i] = s[i]
  OBVIOUS
<1> HIDE DEF a, n
<1>2. Elements(a) = Elements(s) \cup {x}
  <2>1. ASSUME NEW i \in 1..(n + 1)
        PROVE  a[i] \in Elements(s) \cup {x}
    <3>1. CASE i = n + 1
      BY <1>1, <3>1
    <3>2. CASE i # n + 1
      <4>1. i \in 1..n
        BY <1>1, <3>2
      <4> QED
        BY <1>1, <4>1 DEF Elements
    <3> QED
      BY <3>1, <3>2
  <2>2. \A i \in 1..n : i \in 1..(n + 1) /\ a[i] = s[i]
    BY <1>1
  <2>3. n + 1 \in 1..(n + 1)
    BY <1>1
  <2> QED
    BY <1>1, <2>1, <2>2, <2>3 DEF Elements
<1>3. ASSUME Distinct(s), x \notin Elements(s)
      PROVE  Distinct(a)
  <2> SUFFICES ASSUME NEW i \in 1..(n + 1), NEW j \in 1..(n + 1), a[i] = a[j]
               PROVE  i = j
    BY <1>1 DEF Distinct
  <2>1. \A k \in 1..n : a[k] # x
    BY <1>1, <1>3 DEF Elements
  <2>2. CASE i \in 1..n /\ j \in 1..n
    BY <1>1, <1>3, <2>2 DEF Distinct
  <2>3. CASE i = n + 1 \/ j = n + 1
    BY <1>1, <2>1, <2>3
  <2> QED
    BY <1>1, <2>2, <2>3
<1>4. a # <<>>
  BY <1>1
<1> QED
  BY <1>1, <1>2, <1>3, <1>4 DEF a

\* Who goes first is the only one who leaves.
LEMMA Served ==
  ASSUME NEW S, NEW s \in Seq(S), s # <<>>
  PROVE  /\ Head(s) \in S /\ Tail(s) \in Seq(S) /\ Head(s) \in Elements(s)
         /\ Distinct(s) => Distinct(Tail(s)) /\ Elements(Tail(s)) = Elements(s) \ {Head(s)}
<1> DEFINE t == Tail(s)  n == Len(s)  h == Head(s)
<1>1. t \in Seq(S) /\ n \in Nat /\ n > 0 /\ DOMAIN s = 1..n /\ DOMAIN t = 1..(n - 1)
      /\ h = s[1] /\ \A i \in 1..(n - 1) : t[i] = s[i + 1]
  OBVIOUS
<1>2. h \in S
  OBVIOUS
<1> HIDE DEF t, n, h
<1>3. h \in Elements(s)
  BY <1>1 DEF Elements
<1>4. ASSUME Distinct(s)
      PROVE  Distinct(t)
  <2> SUFFICES ASSUME NEW i \in 1..(n - 1), NEW j \in 1..(n - 1), t[i] = t[j]
               PROVE  i = j
    BY <1>1 DEF Distinct
  <2>1. i + 1 \in 1..n /\ j + 1 \in 1..n /\ s[i + 1] = s[j + 1]
    BY <1>1
  <2> QED
    <3>1. \A k, m \in 1..n : s[k] = s[m] => k = m
      BY <1>1, <1>4 DEF Distinct
    <3>2. i + 1 = j + 1
      BY <2>1, <3>1
    <3> QED
      BY <3>2
<1>5. ASSUME Distinct(s)
      PROVE  Elements(t) = Elements(s) \ {h}
  <2>1. ASSUME NEW i \in 1..(n - 1)
        PROVE  t[i] \in Elements(s) \ {h}
    <3>1. i + 1 \in 1..n /\ 1 \in 1..n /\ i + 1 # 1
      BY <1>1
    <3>2. s[i + 1] # s[1]
      BY <1>1, <1>5, <3>1 DEF Distinct
    <3> QED
      BY <1>1, <3>1, <3>2 DEF Elements
  <2>2. ASSUME NEW j \in 1..n, s[j] # h
        PROVE  s[j] \in Elements(t)
    <3>1. j - 1 \in 1..(n - 1) /\ (j - 1) + 1 = j
      BY <1>1, <2>2
    <3>2. t[j - 1] = s[j]
      BY <1>1, <3>1
    <3> QED
      BY <1>1, <3>1, <3>2 DEF Elements
  <2>3. Elements(t) \subseteq Elements(s) \ {h}
    BY <1>1, <2>1 DEF Elements
  <2>4. Elements(s) \ {h} \subseteq Elements(t)
    BY <1>1, <2>2 DEF Elements
  <2> QED
    BY <2>3, <2>4
<1> QED
  BY <1>1, <1>2, <1>3, <1>4, <1>5 DEF t, h

(***************************************************************************)
(* Lemmas about a client.                                                  *)
(***************************************************************************)

\* A caller that takes the gap lock stands in the line, and its sleep is right.
LEMMA JoinEffect ==
  ASSUME LanguageModelsAssumption, NEW c \in Clients, NEW s \in ClientState, Waits(c, s),
         NEW x \in Callers \ Members(s)
  PROVE  /\ Join(c, s, x) \in ClientState
         /\ Waits(c, Join(c, s, x))
         /\ Members(Join(c, s, x)) = Members(s) \cup {x}
<1> DEFINE r == Join(c, s, x)
           p == IF s.line = <<>> THEN Gap[c] - s.since ELSE s.pause
<1>1. s.line \in Seq(Callers) /\ s.queue \in Seq(Callers) /\ s.since \in Nat /\ s.pause \in Nat
      /\ s.free \in Nat /\ Gap[c] \in Nat
  BY DEF ClientState, LanguageModelsAssumption
<1>2. p \in Nat /\ p + s.since = Gap[c]
  BY <1>1 DEF Waits
<1>3. r \in ClientState /\ r.line = Append(s.line, x) /\ r.queue = s.queue
      /\ r.since = s.since /\ r.pause = p
  <2>1. Append(s.line, x) \in Seq(Callers)
    BY <1>1
  <2> QED
    BY <1>1, <1>2, <2>1 DEF Join, ClientState
<1> HIDE DEF r, p
<1>4. x \notin Elements(s.line) /\ x \notin Elements(s.queue)
  BY DEF Members
<1>5. Elements(r.line) = Elements(s.line) \cup {x} /\ Distinct(r.line)
  BY <1>1, <1>3, <1>4, Appended DEF Waits
<1>6. Members(r) = Members(s) \cup {x}
  BY <1>3, <1>5 DEF Members
<1>7. Elements(r.queue) \cap Elements(r.line) = {}
  BY <1>3, <1>4, <1>5 DEF Waits
<1>8. Waits(c, r)
  BY <1>2, <1>3, <1>5, <1>7 DEF Waits
<1> QED
  BY <1>3, <1>6, <1>8 DEF r

\* A caller that asks for a slot stands in the queue or in the line.
LEMMA AcquireEffect ==
  ASSUME LanguageModelsAssumption, NEW c \in Clients, NEW s \in ClientState, Waits(c, s),
         NEW x \in Callers \ Members(s)
  PROVE  /\ Acquire(c, s, x) \in ClientState
         /\ Waits(c, Acquire(c, s, x))
         /\ Members(Acquire(c, s, x)) = Members(s) \cup {x}
<1>1. CASE s.free > 0 /\ s.queue = <<>>
  <2> DEFINE t == [s EXCEPT !.free = @ - 1]
  <2>1. t \in ClientState /\ t.queue = s.queue /\ t.line = s.line /\ t.since = s.since
        /\ t.pause = s.pause
    <3>1. s.free - 1 \in Nat
      <4>1. s.free \in Nat /\ s.free > 0
        BY <1>1 DEF ClientState
      <4> QED
        BY <4>1
    <3> QED
      BY <3>1 DEF ClientState
  <2>2. Acquire(c, s, x) = Join(c, t, x)
    BY <1>1 DEF Acquire
  <2> HIDE DEF t
  <2>3. Waits(c, t) /\ Members(t) = Members(s)
    BY <2>1 DEF Waits, Members
  <2> QED
    BY <2>1, <2>2, <2>3, JoinEffect
<1>2. CASE ~ (s.free > 0 /\ s.queue = <<>>)
  <2> DEFINE t == [s EXCEPT !.queue = Append(@, x)]
  <2>1. s.queue \in Seq(Callers)
    BY DEF ClientState
  <2>2. /\ Append(s.queue, x) \in Seq(Callers)
        /\ Elements(Append(s.queue, x)) = Elements(s.queue) \cup {x}
        /\ Distinct(Append(s.queue, x))
    BY <2>1, Appended DEF Members, Waits
  <2>3. t \in ClientState /\ t.queue = Append(s.queue, x) /\ t.line = s.line
        /\ t.since = s.since /\ t.pause = s.pause
    BY <2>2 DEF ClientState
  <2>4. Acquire(c, s, x) = t
    BY <1>2 DEF Acquire
  <2> HIDE DEF t
  <2>5. Members(t) = Members(s) \cup {x}
    BY <2>2, <2>3 DEF Members
  <2>6. Elements(t.queue) \cap Elements(t.line) = {}
    BY <2>2, <2>3 DEF Waits, Members
  <2>7. Waits(c, t)
    BY <2>2, <2>3, <2>6 DEF Waits
  <2> QED
    BY <2>3, <2>4, <2>5, <2>7
<1> QED
  BY <1>1, <1>2

\* A slot that is given back moves a caller from the queue to the line.
LEMMA ReleaseEffect ==
  ASSUME LanguageModelsAssumption, NEW c \in Clients, NEW s \in ClientState, Waits(c, s),
         NEW out
  PROVE  /\ Release(c, s, out) \in ClientState
         /\ Waits(c, Release(c, s, out))
         /\ Members(Release(c, s, out)) = Members(s)
<1>1. CASE s.queue = <<>>
  <2> DEFINE t == [s EXCEPT !.free = @ + 1]
  <2>1. t \in ClientState /\ t.queue = s.queue /\ t.line = s.line /\ t.since = s.since
        /\ t.pause = s.pause
    <3>1. s.free + 1 \in Nat
      <4>1. s.free \in Nat
        BY DEF ClientState
      <4> QED
        BY <4>1
    <3> QED
      BY <3>1 DEF ClientState
  <2>2. Release(c, s, out) = t
    BY <1>1 DEF Release
  <2> HIDE DEF t
  <2> QED
    BY <2>1, <2>2 DEF Waits, Members
<1>2. CASE s.queue # <<>>
  <2> DEFINE h == Head(s.queue)
             t == [s EXCEPT !.queue = Tail(@)]
  <2>1. s.queue \in Seq(Callers)
    BY DEF ClientState
  <2>2. /\ h \in Callers /\ Tail(s.queue) \in Seq(Callers) /\ h \in Elements(s.queue)
        /\ Distinct(Tail(s.queue)) /\ Elements(Tail(s.queue)) = Elements(s.queue) \ {h}
    BY <1>2, <2>1, Served DEF Waits
  <2>3. t \in ClientState /\ t.queue = Tail(s.queue) /\ t.line = s.line /\ t.since = s.since
        /\ t.pause = s.pause
    BY <2>2 DEF ClientState
  <2>4. Release(c, s, out) = Join(c, t, h)
    BY <1>2 DEF Release
  <2> HIDE DEF t, h
  <2>5. Elements(s.queue) \cap Elements(s.line) = {}
    BY DEF Waits
  <2>6. h \notin Members(t) /\ Members(t) \cup {h} = Members(s)
    BY <2>2, <2>3, <2>5 DEF Members
  <2>7. Elements(t.queue) \cap Elements(t.line) = {}
    BY <2>2, <2>3, <2>5
  <2>8. Waits(c, t)
    BY <2>2, <2>3, <2>7 DEF Waits
  <2> QED
    <3>1. h \in Callers \ Members(t) /\ t \in ClientState
      BY <2>2, <2>3, <2>6
    <3>2. /\ Join(c, t, h) \in ClientState /\ Waits(c, Join(c, t, h))
          /\ Members(Join(c, t, h)) = Members(t) \cup {h}
      BY <2>8, <3>1, JoinEffect
    <3> QED
      BY <2>4, <2>6, <3>2
<1> QED
  BY <1>1, <1>2

\* A request that starts leaves the line.
LEMMA LaunchEffect ==
  ASSUME LanguageModelsAssumption, NEW c \in Clients, NEW s \in ClientState, Waits(c, s),
         s.line # <<>>
  PROVE  /\ Launch(c, s) \in ClientState
         /\ Waits(c, Launch(c, s))
         /\ Members(Launch(c, s)) = Members(s) \ {Head(s.line)}
         /\ Head(s.line) \in Members(s) /\ Head(s.line) \in Callers
<1> DEFINE h == Head(s.line)
           t == Launch(c, s)
<1>1. s.line \in Seq(Callers) /\ Gap[c] \in Nat
  BY DEF ClientState, LanguageModelsAssumption
<1>2. /\ h \in Callers /\ Tail(s.line) \in Seq(Callers) /\ h \in Elements(s.line)
      /\ Distinct(Tail(s.line)) /\ Elements(Tail(s.line)) = Elements(s.line) \ {h}
  BY <1>1, Served DEF Waits
<1>3. t \in ClientState /\ t.queue = s.queue /\ t.line = Tail(s.line) /\ t.since = 0
      /\ t.pause = Gap[c]
  BY <1>1, <1>2 DEF ClientState, Launch
<1> HIDE DEF t, h
<1>4. Elements(s.queue) \cap Elements(s.line) = {}
  BY DEF Waits
<1>5. Members(t) = Members(s) \ {h} /\ h \in Members(s)
  BY <1>2, <1>3, <1>4 DEF Members
<1>6. Elements(t.queue) \cap Elements(t.line) = {}
  BY <1>2, <1>3, <1>4
<1>7. 0 <= Gap[c] /\ Gap[c] + 0 = Gap[c]
  BY <1>1
<1>8. Waits(c, t)
  BY <1>2, <1>3, <1>6, <1>7 DEF Waits
<1> QED
  BY <1>2, <1>3, <1>5, <1>8 DEF t, h

(***************************************************************************)
(* Lemmas about all clients.                                               *)
(***************************************************************************)

\* Every client is in order.
Orderly(f) ==
  f \in [Clients -> ClientState] /\ \A c \in Clients : Waits(c, f[c])

\* They stay so when one of them changes and is in order itself.
LEMMA OrderlyAt ==
  ASSUME NEW f, Orderly(f), NEW d \in Clients, NEW s \in ClientState, Waits(d, s),
         NEW g, g = [f EXCEPT ![d] = s]
  PROVE  Orderly(g)
<1>1. f \in [Clients -> ClientState] /\ \A c \in Clients : Waits(c, f[c])
  BY DEF Orderly
<1>2. g \in [Clients -> ClientState]
  BY <1>1
<1>3. g[d] = s /\ \A c \in Clients \ {d} : g[c] = f[c]
  BY <1>1
<1>4. \A c \in Clients : Waits(c, g[c])
  BY <1>1, <1>3
<1> QED
  BY <1>2, <1>4 DEF Orderly

\* A request joins those that wait at its client.
LEMMA AcquireAt ==
  ASSUME LanguageModelsAssumption, NEW f, Orderly(f),
         NEW d \in Clients, NEW x \in Callers, x \notin Members(f[d]),
         NEW g, g = [f EXCEPT ![d] = Acquire(d, @, x)]
  PROVE  Orderly(g)
<1>1. f[d] \in ClientState /\ Waits(d, f[d]) /\ x \in Callers \ Members(f[d])
  BY DEF Orderly
<1>2. Acquire(d, f[d], x) \in ClientState /\ Waits(d, Acquire(d, f[d], x))
  BY <1>1, AcquireEffect
<1> QED
  BY <1>2, OrderlyAt

\* An answer changes nobody's place.
LEMMA ReleaseAt ==
  ASSUME LanguageModelsAssumption, NEW f, Orderly(f), NEW d \in Clients, NEW out,
         NEW g, g = [f EXCEPT ![d] = Release(d, @, out)]
  PROVE  /\ Orderly(g)
         /\ \A c \in Clients : Members(g[c]) = Members(f[c])
<1>1. f[d] \in ClientState /\ Waits(d, f[d])
  BY DEF Orderly
<1>2. /\ Release(d, f[d], out) \in ClientState /\ Waits(d, Release(d, f[d], out))
      /\ Members(Release(d, f[d], out)) = Members(f[d])
  BY <1>1, ReleaseEffect
<1>3. Orderly(g)
  BY <1>2, OrderlyAt
<1>4. g[d] = Release(d, f[d], out) /\ \A c \in Clients \ {d} : g[c] = f[c]
  BY DEF Orderly
<1> QED
  BY <1>2, <1>3, <1>4

(***************************************************************************)
(* Lemmas about analyses.                                                  *)
(***************************************************************************)

\* What the heuristics write is an analysis and cites its window.
LEMMA HeuristicGrounded ==
  ASSUME LanguageModelsAssumption, NEW w \in Windows
  PROVE  /\ Heuristic(w) \in Analysis /\ GroundedIn(w, Heuristic(w))
         /\ Heuristic(w).from = None
         /\ HeuristicSignals(w) \in SUBSET SUBSET Cited(w) /\ Cited(w) \subseteq Ids
<1> DEFINE s == Messages[w]
           k == IF Len(s) < 3 THEN Len(s) ELSE 3
           I == {[ev |-> {m}, latin |-> w \in LatinText] : m \in Hinted[w]}
<1>1. s \in Seq(Ids) /\ Len(s) \in Nat /\ DOMAIN s = 1..Len(s)
  BY DEF LanguageModelsAssumption
<1>2. Cited(w) \subseteq Ids /\ Hinted[w] \subseteq Cited(w)
  <2>1. \A i \in DOMAIN s : s[i] \in Ids
    BY <1>1
  <2>2. Elements(s) \subseteq Ids
    BY <2>1 DEF Elements
  <2>3. Hinted[w] \subseteq Elements(s)
    BY DEF LanguageModelsAssumption
  <2> QED
    BY <2>2, <2>3 DEF Cited
<1>3. Elements(SubSeq(s, 1, k)) \subseteq Cited(w)
  <2>1. k \in Nat /\ k <= Len(s) /\ 1 \in Nat
    BY <1>1
  <2> HIDE DEF k, s
  <2>2. DOMAIN SubSeq(s, 1, k) = 1..k /\ \A i \in 1..k : SubSeq(s, 1, k)[i] = s[i]
    BY <1>1, <2>1
  <2>3. \A i \in 1..k : i \in DOMAIN s
    BY <1>1, <2>1
  <2> QED
    BY <2>2, <2>3 DEF Elements, Cited, s
<1>4. HeuristicSignals(w) \in SUBSET SUBSET Cited(w)
  BY <1>3 DEF HeuristicSignals
<1>5. I \in SUBSET Item /\ \A i \in I : i.ev # {} /\ i.ev \subseteq Cited(w)
  <2>1. ASSUME NEW m \in Hinted[w]
        PROVE  \A i : i = [ev |-> {m}, latin |-> w \in LatinText] =>
                 i \in Item /\ i.ev # {} /\ i.ev \subseteq Cited(w)
    <3>1. {m} \in SUBSET Ids /\ (w \in LatinText) \in BOOLEAN
      BY <1>2
    <3>2. {m} # {} /\ {m} \subseteq Cited(w)
      BY <1>2
    <3> QED
      BY <3>1, <3>2 DEF Item
  <2> QED
    BY <2>1, Zenon
<1> HIDE DEF I
<1>6. Heuristic(w) = [from |-> None, items |-> I, signals |-> HeuristicSignals(w),
                      latin |-> w \in LatinText]
  BY DEF Heuristic, I
<1>7. HeuristicSignals(w) \in SUBSET SUBSET Ids
  BY <1>2, <1>4
<1>8. Heuristic(w) \in Analysis
  BY <1>5, <1>6, <1>7 DEF Analysis
<1> QED
  BY <1>2, <1>4, <1>5, <1>6, <1>8 DEF GroundedIn

\* So does what is left of a provider's answer.
LEMMA SanitizedGrounded ==
  ASSUME LanguageModelsAssumption, NEW w \in Windows, NEW c \in Clients, NEW a \in Answers
  PROVE  /\ Sanitized(w, a, c) \in Analysis /\ GroundedIn(w, Sanitized(w, a, c))
         /\ Sanitized(w, a, c).from = c
<1> DEFINE C == Cited(w)
           J == {[j EXCEPT !.ev = @ \cap C] : j \in a.items}
           I == {i \in J : i.ev # {}}
           S == IF a.signals = {} THEN HeuristicSignals(w) ELSE {s \cap C : s \in a.signals}
<1>1. a.items \in SUBSET Item /\ a.signals \in SUBSET SUBSET Ids /\ a.latin \in BOOLEAN
  BY DEF LanguageModelsAssumption
<1>2. C \subseteq Ids /\ HeuristicSignals(w) \in SUBSET SUBSET C
  BY HeuristicGrounded
<1>3. I \in SUBSET Item /\ \A i \in I : i.ev # {} /\ i.ev \subseteq C
  <2> HIDE DEF C
  <2>1. ASSUME NEW j \in Item
        PROVE  [j EXCEPT !.ev = @ \cap C] \in Item /\ [j EXCEPT !.ev = @ \cap C].ev \subseteq C
    BY <1>2 DEF Item
  <2> QED
    BY <1>1, <2>1
<1>4. S \in SUBSET SUBSET C /\ S \in SUBSET SUBSET Ids
  BY <1>2
<1> HIDE DEF I, S
<1>5. Sanitized(w, a, c) = [from |-> c, items |-> I, signals |-> S, latin |-> a.latin]
  BY DEF Sanitized, I, S
<1>6. Sanitized(w, a, c) \in Analysis
  BY <1>1, <1>3, <1>4, <1>5 DEF Analysis
<1> QED
  BY <1>3, <1>4, <1>5, <1>6 DEF GroundedIn

\* What may come of a request.
LEMMA OutcomeEffect ==
  ASSUME LanguageModelsAssumption, NEW w \in Windows, NEW c \in Clients,
         NEW o \in Outcomes(w, c)
  PROVE  /\ o.out \in {"error", "prose", "answer"}
         /\ Reading(o) \in {"error", "prose", "latin", "russian"}
         /\ o.out = "error" => Reading(o) = "error"
         /\ o.out = "prose" => Reading(o) = "prose"
         /\ o.out # "error" /\ NeedsTranslation(o.result) => Reading(o) \in {"latin", "prose"}
         /\ o.out # "error" =>
              /\ o.result \in Analysis /\ GroundedIn(w, o.result)
              /\ \/ o.out = "prose" /\ o.result.from = None
                 \/ o.out = "answer" /\ o.result.from = c
<1>1. CASE o = [out |-> "error", result |-> None]
  BY <1>1 DEF Reading
<1>2. CASE o = [out |-> "prose", result |-> Heuristic(w)]
  <2>1. o.out = "prose" /\ o.result = Heuristic(w)
    BY <1>2
  <2> QED
    BY <2>1, HeuristicGrounded DEF Reading
<1>3. ASSUME NEW a \in Answers, o = [out |-> "answer", result |-> Sanitized(w, a, c)]
      PROVE  /\ o.out = "answer" /\ o.result = Sanitized(w, a, c)
             /\ Reading(o) = IF NeedsTranslation(o.result) THEN "latin" ELSE "russian"
  BY <1>3 DEF Reading
<1>4. CASE \E a \in Answers : o = [out |-> "answer", result |-> Sanitized(w, a, c)]
  <2>1. PICK a \in Answers : o = [out |-> "answer", result |-> Sanitized(w, a, c)]
    BY <1>4
  <2>2. /\ o.out = "answer" /\ o.result = Sanitized(w, a, c)
        /\ Reading(o) = IF NeedsTranslation(o.result) THEN "latin" ELSE "russian"
    BY <1>3, <2>1
  <2>3. o.result \in Analysis /\ GroundedIn(w, o.result) /\ o.result.from = c
    BY <2>2, SanitizedGrounded
  <2> QED
    BY <2>2, <2>3
<1> QED
  BY <1>1, <1>2, <1>4 DEF Outcomes

\* The next provider to be tried leaves out none that is configured.
LEMMA NextTurnEffect ==
  ASSUME LanguageModelsAssumption, NEW t \in Nat
  PROVE  /\ NextTurn(t) \in DOMAIN Providers \cup {Len(Providers) + 1}
         /\ \A i \in DOMAIN Providers : t < i /\ i < NextTurn(t) => Providers[i] \notin configured
<1> DEFINE S == {i \in DOMAIN Providers : i > t /\ Providers[i] \in configured}
<1>1. DOMAIN Providers = 1..Len(Providers) /\ Len(Providers) \in Nat
  BY DEF LanguageModelsAssumption
<1>2. CASE S = {}
  <2>1. NextTurn(t) = Len(Providers) + 1
    BY <1>2 DEF NextTurn
  <2> QED
    BY <1>1, <1>2, <2>1
<1>3. CASE S # {}
  <2>1. S \in SUBSET Nat
    BY <1>1
  <2>2. \E i \in S : \A j \in S : i <= j
    BY <1>3, <2>1, LeastNumber
  <2>3. NextTurn(t) = CHOOSE i \in S : \A j \in S : i <= j
    BY <1>3 DEF NextTurn
  <2>4. NextTurn(t) \in S /\ \A j \in S : NextTurn(t) <= j
    BY <2>2, <2>3
  <2> QED
    BY <1>1, <2>4
<1> QED
  BY <1>2, <1>3

\* What BestSource says of one analysis.
BestOf(w, r) ==
  LET before == {i \in DOMAIN Providers :
                   \A j \in {k \in DOMAIN Providers : Providers[k] = r.from} : i < j}
  IN  /\ r.from # None \/ ~ Prose(w) =>
           \A i \in before : Providers[i] \in configured => Failed(w, Providers[i])
      /\ r.from # None /\ NeedsTranslation(r) =>
           \E out \in {"latin", "prose"} : Said(w, r.from, "translation", out)

LEMMA BestByWindow ==
  BestSource <=> \A w \in Windows : delivered[w] # None => BestOf(w, delivered[w])
BY DEF BestSource, BestOf, Prose

\* Nothing that happens later makes an analysis worse.
LEMMA BestGrows ==
  ASSUME configured' = configured, log \subseteq log',
         NEW w, NEW r, BestOf(w, r)
  PROVE  BestOf(w, r)'
<1>1. \A c, for, out : Said(w, c, for, out) => Said(w, c, for, out)'
  BY DEF Said
<1>2. Prose(w) => Prose(w)'
  BY <1>1 DEF Prose
<1>3. \A c : Failed(w, c) => Failed(w, c)'
  BY <1>1 DEF Failed
<1> QED
  BY <1>1, <1>2, <1>3 DEF BestOf

\* A provider before turn t has failed if the analysis comes from there or from
\* where nobody is left.
LEMMA BestOfTurn ==
  ASSUME LanguageModelsAssumption, NEW w, NEW r,
         NEW t \in DOMAIN Providers \cup {Len(Providers) + 1},
         PassedOver(w, t)',
         r.from = None => Prose(w)' \/ t = Len(Providers) + 1,
         r.from # None => t \in DOMAIN Providers /\ r.from = Providers[t],
         r.from # None /\ NeedsTranslation(r) =>
           \E out \in {"latin", "prose"} : Said(w, r.from, "translation", out)'
  PROVE  BestOf(w, r)'
<1> DEFINE before == {i \in DOMAIN Providers :
                        \A j \in {k \in DOMAIN Providers : Providers[k] = r.from} : i < j}
<1>1. DOMAIN Providers = 1..Len(Providers) /\ Len(Providers) \in Nat
      /\ \A i \in DOMAIN Providers : Providers[i] # None
  BY DEF LanguageModelsAssumption
<1>2. ASSUME r.from # None \/ ~ Prose(w)', NEW i \in before, Providers[i] \in configured'
      PROVE  Failed(w, Providers[i])'
  <2>1. i < t
    BY <1>1, <1>2
  <2> QED
    BY <1>2, <2>1 DEF PassedOver
<1> QED
  BY <1>2 DEF BestOf

\* An analysis that is handed over, and those of before.
LEMMA HandedOver ==
  ASSUME TypeOK, Grounded, BestSource, configured' = configured, log \subseteq log',
         NEW w \in Windows, NEW r \in Analysis, delivered' = [delivered EXCEPT ![w] = r],
         GroundedIn(w, r), BestOf(w, r)'
  PROVE  delivered' \in [Windows -> Analysis \cup {None}] /\ Grounded' /\ BestSource'
<1>1. delivered \in [Windows -> Analysis \cup {None}]
  BY DEF TypeOK
<1>2. delivered' \in [Windows -> Analysis \cup {None}]
  BY <1>1
<1>3. delivered'[w] = r /\ \A v \in Windows \ {w} : delivered'[v] = delivered[v]
  BY <1>1
<1>4. Grounded'
  BY <1>3 DEF Grounded, GroundedIn
<1>5. ASSUME NEW v \in Windows, delivered'[v] # None
      PROVE  BestOf(v, delivered[v])'
  <2>1. CASE v = w
    <3>1. delivered'[v] = r
      BY <1>3, <2>1
    <3> QED
      BY <2>1, <3>1 DEF BestOf, Prose, Said
  <2>2. CASE v # w
    <3>1. delivered'[v] = delivered[v]
      BY <1>3, <2>2
    <3>2. PICK q : q = delivered[v]
      OBVIOUS
    <3>3. BestOf(v, q)
      BY <1>5, <3>1, <3>2, BestByWindow
    <3>4. BestOf(v, q)'
      BY <3>3, BestGrows
    <3> QED
      BY <3>1, <3>2, <3>4 DEF BestOf
  <2> QED
    BY <2>1, <2>2
<1>6. BestSource'
  BY <1>5 DEF BestSource, BestOf, Prose
<1> QED
  BY <1>2, <1>4, <1>6

\* Without one, those of before.
LEMMA NotHandedOver ==
  ASSUME Grounded, BestSource, configured' = configured, log \subseteq log',
         delivered' = delivered
  PROVE  Grounded' /\ BestSource'
<1>1. Grounded'
  BY DEF Grounded
<1>2. ASSUME NEW v \in Windows, delivered'[v] # None
      PROVE  BestOf(v, delivered[v])'
  <2>1. PICK q : q = delivered[v]
    OBVIOUS
  <2>2. BestOf(v, q)
    BY <1>2, <2>1, BestByWindow
  <2>3. BestOf(v, q)'
    BY <2>2, BestGrows
  <2> QED
    BY <2>1, <2>3 DEF BestOf
<1>3. BestSource'
  BY <1>2 DEF BestSource, BestOf, Prose
<1> QED
  BY <1>1, <1>3

(***************************************************************************)
(* Each action keeps the invariant, and starts requests at their interval. *)
(***************************************************************************)

\* What Paced says of one step.
StartsPaced ==
  \A x \in Callers : at[x] = "waiting" /\ at'[x] = "asked" =>
    client[ClientOf(x)].since = Gap[ClientOf(x)]

LEMMA MembersCall ==
  ASSUME NEW s \in ClientState
  PROVE  Members(s) \subseteq Callers
<1>1. s.line \in Seq(Callers) /\ s.queue \in Seq(Callers)
  BY DEF ClientState
<1>2. \A i \in DOMAIN s.line : s.line[i] \in Callers
  BY <1>1
<1>3. \A i \in DOMAIN s.queue : s.queue[i] \in Callers
  BY <1>1
<1> QED
  BY <1>2, <1>3 DEF Members, Elements

\* The router's step to a provider, or to the heuristics.
LEMMA TryEffect ==
  ASSUME LanguageModelsAssumption, Inv, configured' = configured, log \subseteq log',
         NEW w \in Windows, NEW t \in DOMAIN Providers \cup {Len(Providers) + 1},
         NEW cs, Orderly(cs), Try(w, t, cs),
         \A c \in Clients : \A x \in Members(cs[c]) :
           x # Router /\ at[x] = "waiting" /\ c = BriefClient,
         PassedOver(w, t)'
  PROVE  /\ Orderly(client')
         /\ at' \in [Callers -> {"idle", "waiting", "asked"}]
         /\ win' \in Windows \cup {None}
         /\ turn' \in 0..(Len(Providers) + 1)
         /\ draft' = None
         /\ delivered' \in [Windows -> Analysis \cup {None}]
         /\ Routing' /\ Waiting' /\ Drafting' /\ Grounded' /\ BestSource'
         /\ StartsPaced
         /\ \A x \in Callers \ {Router} : at'[x] = at[x]
<1> USE DEF Inv, TypeInv
<1>1. /\ DOMAIN Providers = 1..Len(Providers) /\ Len(Providers) \in Nat
      /\ \A i \in DOMAIN Providers : Providers[i] \in Clients
      /\ None \notin Windows /\ Router \in Callers /\ w # None
  BY DEF LanguageModelsAssumption, Callers
<1>2. at \in [Callers -> {"idle", "waiting", "asked"}]
  BY DEF TypeOK
<1>3. CASE t \in DOMAIN Providers
  <2>1. /\ win' = w /\ turn' = t /\ draft' = None
        /\ client' = [cs EXCEPT ![Providers[t]] = Acquire(Providers[t], @, Router)]
        /\ at' = [at EXCEPT ![Router] = "waiting"]
        /\ delivered' = delivered
    BY <1>3 DEF Try
  <2> DEFINE d == Providers[t]
  <2>2. d \in Clients /\ Router \notin Members(cs[d])
    BY <1>1, <1>3
  <2> HIDE DEF d
  <2>3. client' = [cs EXCEPT ![d] = Acquire(d, @, Router)]
    BY <2>1 DEF d
  <2>4. /\ Orderly(client')
        /\ \A c \in Clients \ {d} : client'[c] = cs[c]
        /\ Members(client'[d]) = Members(cs[d]) \cup {Router}
    <3>1. /\ client'[d] = Acquire(d, cs[d], Router)
          /\ \A c \in Clients \ {d} : client'[c] = cs[c]
      BY <2>2, <2>3 DEF Orderly
    <3>2. cs[d] \in ClientState /\ Waits(d, cs[d]) /\ Router \in Callers \ Members(cs[d])
      BY <1>1, <2>2 DEF Orderly
    <3>3. Members(Acquire(d, cs[d], Router)) = Members(cs[d]) \cup {Router}
      BY <2>2, <3>2, AcquireEffect
    <3>4. Orderly(client')
      BY <1>1, <2>2, <2>3, AcquireAt
    <3> QED
      BY <3>1, <3>3, <3>4
  <2>5. at' \in [Callers -> {"idle", "waiting", "asked"}] /\ at'[Router] = "waiting"
        /\ \A x \in Callers \ {Router} : at'[x] = at[x]
    BY <1>1, <1>2, <2>1
  <2>6. ASSUME NEW c \in Clients, NEW x \in Members(client'[c])
        PROVE  at'[x] = "waiting" /\ ClientOf(x)' = c
    <3>1. x \in Callers
      BY <2>4, MembersCall DEF Orderly
    <3>2. CASE x = Router
      <4>1. c = d
        BY <2>4, <3>2
      <4> QED
        BY <2>1, <2>5, <3>2, <4>1 DEF ClientOf, d
    <3>3. CASE x # Router
      <4>1. x \in Members(cs[c])
        BY <2>4, <3>3
      <4>2. c = BriefClient /\ at[x] = "waiting"
        BY <4>1
      <4> QED
        BY <2>5, <3>1, <3>3, <4>2 DEF ClientOf
    <3> QED
      BY <3>2, <3>3
  <2>7. Waiting'
    BY <2>4, <2>6 DEF Waiting, Orderly
  <2>8. Routing'
    <3>1. win' # None /\ at'[Router] # "idle" /\ turn' \in DOMAIN Providers
      BY <1>1, <1>3, <2>1, <2>5
    <3> QED
      BY <3>1 DEF Routing
  <2>9. Drafting'
    BY <2>1 DEF Drafting, PassedOver, Failed, Said
  <2>10. Grounded' /\ BestSource'
    BY <2>1, NotHandedOver
  <2>11. StartsPaced
    BY <2>5 DEF StartsPaced
  <2>12. turn' \in 0..(Len(Providers) + 1)
    BY <1>1, <1>3, <2>1
  <2> QED
    BY <2>1, <2>4, <2>5, <2>7, <2>8, <2>9, <2>10, <2>11, <2>12 DEF TypeOK
<1>4. CASE t \notin DOMAIN Providers
  <2>1. /\ delivered' = [delivered EXCEPT ![w] = Heuristic(w)]
        /\ win' = None /\ turn' = 0 /\ draft' = None
        /\ client' = cs
        /\ at' = [at EXCEPT ![Router] = "idle"]
    BY <1>4 DEF Try
  <2>2. t = Len(Providers) + 1
    BY <1>4
  <2>3. PICK r : r = Heuristic(w)
    OBVIOUS
  <2>4. r \in Analysis /\ GroundedIn(w, r) /\ r.from = None
    BY <2>3, HeuristicGrounded
  <2>5. BestOf(w, r)'
    BY <2>2, <2>4, BestOfTurn
  <2>6. delivered' \in [Windows -> Analysis \cup {None}] /\ Grounded' /\ BestSource'
    BY <2>1, <2>3, <2>4, <2>5, HandedOver
  <2>7. at' \in [Callers -> {"idle", "waiting", "asked"}] /\ at'[Router] = "idle"
        /\ \A x \in Callers \ {Router} : at'[x] = at[x]
    BY <1>1, <1>2, <2>1
  <2>8. ASSUME NEW c \in Clients, NEW x \in Members(client'[c])
        PROVE  at'[x] = "waiting" /\ ClientOf(x)' = c
    <3>1. x \in Callers /\ x \in Members(cs[c])
      BY <2>1, MembersCall DEF Orderly
    <3> QED
      BY <2>7, <3>1 DEF ClientOf
  <2>9. Waiting'
    BY <2>1, <2>8 DEF Waiting, Orderly
  <2>10. Routing'
    BY <2>1, <2>7 DEF Routing
  <2>11. Drafting'
    BY <2>1 DEF Drafting
  <2>12. StartsPaced
    BY <2>7 DEF StartsPaced
  <2>13. turn' \in 0..(Len(Providers) + 1)
    BY <1>1, <2>1
  <2> QED
    BY <2>1, <2>6, <2>7, <2>9, <2>10, <2>11, <2>12, <2>13
<1> QED
  BY <1>3, <1>4

\* An analysis that is ready for the graph.
LEMMA DeliverEffect ==
  ASSUME LanguageModelsAssumption, Inv, configured' = configured, log \subseteq log',
         win \in Windows, NEW r \in Analysis, Deliver(r),
         GroundedIn(win, r), \A w : w = win => BestOf(w, r)',
         Orderly(client'),
         \A c \in Clients : \A x \in Members(client'[c]) :
           x # Router /\ at[x] = "waiting" /\ c = BriefClient
  PROVE  /\ at' \in [Callers -> {"idle", "waiting", "asked"}]
         /\ win' \in Windows \cup {None}
         /\ turn' \in 0..(Len(Providers) + 1)
         /\ draft' = None
         /\ delivered' \in [Windows -> Analysis \cup {None}]
         /\ Routing' /\ Waiting' /\ Drafting' /\ Grounded' /\ BestSource'
         /\ StartsPaced
         /\ \A x \in Callers \ {Router} : at'[x] = at[x]
<1> USE DEF Inv, TypeInv
<1>1. /\ Len(Providers) \in Nat /\ Router \in Callers
      /\ at \in [Callers -> {"idle", "waiting", "asked"}]
  BY DEF LanguageModelsAssumption, Callers, TypeOK
<1>2. /\ delivered' = [delivered EXCEPT ![win] = r]
      /\ win' = None /\ turn' = 0 /\ draft' = None
      /\ at' = [at EXCEPT ![Router] = "idle"]
  BY DEF Deliver
<1>3. PICK w : w = win
  OBVIOUS
<1>4. delivered' \in [Windows -> Analysis \cup {None}] /\ Grounded' /\ BestSource'
  BY <1>2, <1>3, HandedOver
<1>5. at' \in [Callers -> {"idle", "waiting", "asked"}] /\ at'[Router] = "idle"
      /\ \A x \in Callers \ {Router} : at'[x] = at[x]
  BY <1>1, <1>2
<1>6. ASSUME NEW c \in Clients, NEW x \in Members(client'[c])
      PROVE  at'[x] = "waiting" /\ ClientOf(x)' = c
  <2>1. x \in Callers
    BY MembersCall DEF Orderly
  <2> QED
    BY <1>5, <2>1 DEF ClientOf
<1>7. Waiting'
  BY <1>6 DEF Waiting, Orderly
<1>8. Routing'
  BY <1>2, <1>5 DEF Routing
<1>9. Drafting'
  BY <1>2 DEF Drafting
<1>10. StartsPaced
  BY <1>5 DEF StartsPaced
<1>11. turn' \in 0..(Len(Providers) + 1)
  BY <1>1, <1>2
<1> QED
  BY <1>2, <1>4, <1>5, <1>7, <1>8, <1>9, <1>10, <1>11

\* Time passes for one client.
LEMMA TickEffect ==
  ASSUME LanguageModelsAssumption, NEW c \in Clients, NEW s \in ClientState, Waits(c, s),
         NEW r, r = [s EXCEPT !.since = IF @ < Gap[c] THEN @ + 1 ELSE @, !.pause = Less(@)]
  PROVE  r \in ClientState /\ Waits(c, r) /\ Members(r) = Members(s)
<1> DEFINE n == IF s.since < Gap[c] THEN s.since + 1 ELSE s.since
<1>1. s.since \in Nat /\ s.pause \in Nat /\ Gap[c] \in Nat
  BY DEF ClientState, LanguageModelsAssumption
<1>2. n \in Nat /\ Less(s.pause) \in Nat
  BY <1>1 DEF Less
<1>3. r \in ClientState /\ r.since = n /\ r.pause = Less(s.pause)
      /\ r.line = s.line /\ r.queue = s.queue
  <2> HIDE DEF n
  <2>1. r = [s EXCEPT !.since = n, !.pause = Less(s.pause)]
    BY DEF n
  <2> QED
    BY <1>2, <2>1 DEF ClientState
<1>4. n <= Gap[c] /\ (s.pause + s.since = Gap[c] => Less(s.pause) + n = Gap[c])
  <2>1. s.since <= Gap[c]
    BY DEF Waits
  <2>2. \A p, q, g \in Nat : q <= g =>
          /\ (IF q < g THEN q + 1 ELSE q) <= g
          /\ p + q = g => Less(p) + (IF q < g THEN q + 1 ELSE q) = g
    BY DEF Less
  <2> QED
    BY <1>1, <2>1, <2>2
<1> HIDE DEF n
<1> QED
  BY <1>3, <1>4 DEF Waits, Members

\* The variables of type ClientState are those of TypeOK.
LEMMA InOrder ==
  TypeOK /\ Waiting => Orderly(client)
BY DEF TypeOK, Waiting, Orderly, ClientState

\* The router leaves the briefs alone.
LEMMA AskingKept ==
  ASSUME LanguageModelsAssumption, Asking, brief' = brief,
         \A x \in Callers \ {Router} : at'[x] = at[x]
  PROVE  Asking'
BY DEF LanguageModelsAssumption, Callers, Asking

LEMMA TickStep ==
  ASSUME LanguageModelsAssumption, Inv, Tick
  PROVE  Inv' /\ StartsPaced
<1> USE DEF Inv, TypeInv
<1>1. /\ client' = [c \in Clients |->
            [client[c] EXCEPT !.since = IF @ < Gap[c] THEN @ + 1 ELSE @, !.pause = Less(@)]]
      /\ UNCHANGED <<configured, at, win, turn, draft, delivered, log, brief>>
  BY DEF Tick, router
<1>2. Orderly(client)
  BY InOrder
<1>3. ASSUME NEW c \in Clients
      PROVE  /\ client'[c] \in ClientState /\ Waits(c, client'[c])
             /\ Members(client'[c]) = Members(client[c])
  <2>1. client[c] \in ClientState /\ Waits(c, client[c])
    BY <1>2 DEF Orderly
  <2>2. client'[c] = [client[c] EXCEPT !.since = IF @ < Gap[c] THEN @ + 1 ELSE @,
                                       !.pause = Less(@)]
    BY <1>1
  <2> QED
    BY <2>1, <2>2, TickEffect
<1>4. client' \in [Clients -> ClientState]
  BY <1>1, <1>3
<1>5. TypeOK'
  BY <1>1, <1>4 DEF TypeOK, ClientState
<1>6. Waiting'
  BY <1>1, <1>3 DEF Waiting, ClientOf
<1>7. Routing'
  BY <1>1 DEF Routing
<1>8. Drafting'
  BY <1>1 DEF Drafting, Prose, PassedOver, Failed, Said, NeedsTranslation
<1>9. Grounded' /\ BestSource'
  BY <1>1, NotHandedOver
<1>10. StartsPaced
  BY <1>1 DEF StartsPaced
<1>11. Asking'
  BY <1>1 DEF Asking
<1> QED
  BY <1>5, <1>6, <1>7, <1>8, <1>9, <1>10, <1>11

LEMMA StartStep ==
  ASSUME LanguageModelsAssumption, Inv, NEW c \in Clients, StartRequest(c)
  PROVE  Inv' /\ StartsPaced
<1> USE DEF Inv, TypeInv
<1> DEFINE s == client[c]
           h == Head(s.line)
<1>1. /\ s.line # <<>> /\ s.pause = 0
      /\ client' = [client EXCEPT ![c] = Launch(c, s)]
      /\ at' = [at EXCEPT ![h] = "asked"]
      /\ UNCHANGED <<configured, win, turn, draft, delivered, log, brief>>
  BY DEF StartRequest, router
<1>2. Orderly(client)
  BY InOrder
<1>3. s \in ClientState /\ Waits(c, s) /\ \A d \in Clients : client[d] \in ClientState
  BY <1>2 DEF Orderly
<1> HIDE DEF s
<1>4. /\ Launch(c, s) \in ClientState /\ Waits(c, Launch(c, s))
      /\ Members(Launch(c, s)) = Members(s) \ {h} /\ h \in Members(s) /\ h \in Callers
  BY <1>1, <1>3, LaunchEffect
<1> HIDE DEF h
<1>5. Orderly(client')
  BY <1>1, <1>2, <1>4, OrderlyAt
<1>6. client'[c] = Launch(c, s) /\ \A d \in Clients \ {c} : client'[d] = client[d]
  BY <1>1, <1>2 DEF Orderly
<1>7. at[h] = "waiting" /\ ClientOf(h) = c
  BY <1>4 DEF Waiting, s
<1>8. /\ at \in [Callers -> {"idle", "waiting", "asked"}]
      /\ at' \in [Callers -> {"idle", "waiting", "asked"}]
      /\ at'[h] = "asked" /\ \A x \in Callers \ {h} : at'[x] = at[x]
  BY <1>1, <1>4 DEF TypeOK
<1>9. ASSUME NEW d \in Clients, NEW x \in Members(client'[d])
      PROVE  at'[x] = "waiting" /\ ClientOf(x)' = d
  <2>1. x \in Members(client[d]) /\ x # h
    <3>1. CASE d = c
      BY <1>4, <1>6, <3>1 DEF s
    <3>2. CASE d # c
      <4>1. x \in Members(client[d])
        BY <1>6, <3>2
      <4>2. ClientOf(x) = d
        BY <4>1 DEF Waiting
      <4> QED
        BY <1>7, <3>2, <4>1, <4>2
    <3> QED
      BY <3>1, <3>2
  <2>2. at[x] = "waiting" /\ ClientOf(x) = d
    BY <2>1 DEF Waiting
  <2>3. x \in Callers
    BY <1>3, <2>1, MembersCall
  <2>4. ClientOf(x)' = ClientOf(x)
    BY <1>1 DEF ClientOf
  <2> QED
    BY <1>8, <2>1, <2>2, <2>3, <2>4
<1>10. Waiting'
  BY <1>5, <1>9 DEF Waiting, Orderly
<1>11. TypeOK'
  BY <1>1, <1>5, <1>8 DEF TypeOK, Orderly, ClientState
<1>12. Routing'
  <2>1. Router \in Callers
    BY DEF Callers
  <2>2. at'[Router] = "idle" <=> at[Router] = "idle"
    BY <1>7, <1>8, <2>1
  <2> QED
    BY <1>1, <2>2 DEF Routing
<1>13. Drafting'
  BY <1>1 DEF Drafting, Prose, PassedOver, Failed, Said, NeedsTranslation
<1>14. Grounded' /\ BestSource'
  BY <1>1, NotHandedOver
<1>15. s.since = Gap[c]
  BY <1>1, <1>3 DEF Waits, ClientState
<1>16. StartsPaced
  BY <1>7, <1>8, <1>15 DEF StartsPaced, s
<1>17. Asking'
  <2>1. \A b \in Briefs : b \in Callers
    BY DEF Callers
  <2> QED
    BY <1>1, <1>7, <1>8, <2>1 DEF Asking
<1> QED
  BY <1>10, <1>11, <1>12, <1>13, <1>14, <1>16, <1>17

\* A waiting caller that is not the router waits for the client of the briefs.
LEMMA BriefsWait ==
  ASSUME Waiting, at[Router] # "waiting", NEW c \in Clients, NEW x \in Members(client[c])
  PROVE  x # Router /\ at[x] = "waiting" /\ c = BriefClient
<1>1. at[x] = "waiting" /\ ClientOf(x) = c
  BY DEF Waiting
<1>2. x # Router
  BY <1>1
<1> QED
  BY <1>1, <1>2 DEF ClientOf

LEMMA AnalyseStep ==
  ASSUME LanguageModelsAssumption, Inv, NEW w \in Windows, Analyse(w)
  PROVE  Inv' /\ StartsPaced
<1>1. /\ win = None /\ Try(w, NextTurn(0), client)
      /\ UNCHANGED <<configured, brief, log>>
  BY DEF Analyse
<1>2. TypeOK /\ Waiting /\ at[Router] = "idle"
  BY <1>1 DEF Inv, TypeInv, Routing
<1>3. Orderly(client)
  BY <1>2, InOrder
<1>4. PICK t : t = NextTurn(0)
  OBVIOUS
<1>5. /\ t \in DOMAIN Providers \cup {Len(Providers) + 1}
      /\ \A i \in DOMAIN Providers : 0 < i /\ i < t => Providers[i] \notin configured
  BY <1>4, NextTurnEffect
<1>6. PassedOver(w, t)'
  <2>1. \A i \in DOMAIN Providers : 0 < i
    BY DEF LanguageModelsAssumption
  <2> QED
    BY <1>1, <1>5, <2>1 DEF PassedOver
<1>7. \A c \in Clients : \A x \in Members(client[c]) :
        x # Router /\ at[x] = "waiting" /\ c = BriefClient
  BY <1>2, BriefsWait
<1>8. /\ Orderly(client')
      /\ at' \in [Callers -> {"idle", "waiting", "asked"}]
      /\ win' \in Windows \cup {None}
      /\ turn' \in 0..(Len(Providers) + 1)
      /\ draft' = None
      /\ delivered' \in [Windows -> Analysis \cup {None}]
      /\ Routing' /\ Waiting' /\ Drafting' /\ Grounded' /\ BestSource'
      /\ StartsPaced
      /\ \A x \in Callers \ {Router} : at'[x] = at[x]
  BY <1>1, <1>3, <1>4, <1>5, <1>6, <1>7, TryEffect
<1>9. TypeOK'
  BY <1>1, <1>2, <1>8 DEF TypeOK, Orderly, ClientState
<1>10. Asking'
  BY <1>1, <1>8, AskingKept DEF Inv
<1> QED
  BY <1>8, <1>9, <1>10 DEF Inv, TypeInv

LEMMA AnsweredStep ==
  ASSUME LanguageModelsAssumption, Inv, Answered
  PROVE  Inv' /\ StartsPaced
<1>1. /\ at[Router] = "asked" /\ UNCHANGED <<configured, brief>>
      /\ TypeOK /\ Routing /\ Waiting /\ Drafting /\ Grounded /\ BestSource /\ Asking
  BY DEF Answered, Inv, TypeInv
<1>2. PICK w, t, c : w = win /\ t = turn /\ c = Providers[turn]
  OBVIOUS
<1>3. /\ w \in Windows /\ t \in DOMAIN Providers /\ t \in Nat
      /\ c \in Clients /\ c # None /\ w # None
  <2>1. win # None
    BY <1>1 DEF Routing
  <2>2. win \in Windows /\ turn \in DOMAIN Providers
    BY <1>1, <2>1 DEF Routing, TypeOK
  <2> QED
    BY <1>2, <2>1, <2>2 DEF LanguageModelsAssumption
<1>4. PICK o \in Outcomes(w, c) :
        LET cs == [client EXCEPT ![c] = Release(c, @, o.out)]
        IN  /\ log' = log \cup {[win |-> w, by |-> c, for |-> Purpose, out |-> Reading(o)]}
            /\ \/ /\ o.out = "error"
                  /\ Try(w, NextTurn(t), cs)
               \/ /\ o.out # "error" /\ draft = None /\ NeedsTranslation(o.result)
                  /\ draft' = o.result
                  /\ client' = [cs EXCEPT ![c] = Acquire(c, @, Router)]
                  /\ at' = [at EXCEPT ![Router] = "waiting"]
                  /\ UNCHANGED <<win, turn, delivered>>
               \/ /\ o.out # "error" /\ draft = None /\ ~ NeedsTranslation(o.result)
                  /\ Deliver(o.result) /\ client' = cs
               \/ /\ o.out # "error" /\ draft # None
                  /\ Deliver(IF NeedsTranslation(o.result) THEN draft ELSE o.result)
                  /\ client' = cs
  BY <1>2 DEF Answered
<1>5. PICK cs, entry :
        /\ cs = [client EXCEPT ![c] = Release(c, @, o.out)]
        /\ entry = [win |-> w, by |-> c, for |-> Purpose, out |-> Reading(o)]
  OBVIOUS
<1>6. /\ log' = log \cup {entry}
      /\ \/ o.out = "error" /\ Try(w, NextTurn(t), cs)
         \/ /\ o.out # "error" /\ draft = None /\ NeedsTranslation(o.result)
            /\ draft' = o.result
            /\ client' = [cs EXCEPT ![c] = Acquire(c, @, Router)]
            /\ at' = [at EXCEPT ![Router] = "waiting"]
            /\ UNCHANGED <<win, turn, delivered>>
         \/ /\ o.out # "error" /\ draft = None /\ ~ NeedsTranslation(o.result)
            /\ Deliver(o.result) /\ client' = cs
         \/ /\ o.out # "error" /\ draft # None
            /\ Deliver(IF NeedsTranslation(o.result) THEN draft ELSE o.result)
            /\ client' = cs
  BY <1>4, <1>5
<1>7. /\ o.out \in {"error", "prose", "answer"}
      /\ Reading(o) \in {"error", "prose", "latin", "russian"}
      /\ o.out = "error" => Reading(o) = "error"
      /\ o.out = "prose" => Reading(o) = "prose"
      /\ o.out # "error" /\ NeedsTranslation(o.result) => Reading(o) \in {"latin", "prose"}
      /\ o.out # "error" =>
           /\ o.result \in Analysis /\ GroundedIn(w, o.result)
           /\ \/ o.out = "prose" /\ o.result.from = None
              \/ o.out = "answer" /\ o.result.from = c
  BY <1>3, OutcomeEffect
<1>8. Orderly(client)
  BY <1>1, InOrder
<1>9. Orderly(cs) /\ \A d \in Clients : Members(cs[d]) = Members(client[d])
  <2>1. Orderly(cs)
    BY <1>3, <1>5, <1>8, ReleaseAt
  <2>2. client[c] \in ClientState /\ Waits(c, client[c])
    BY <1>3, <1>8 DEF Orderly
  <2>3. Members(Release(c, client[c], o.out)) = Members(client[c])
    BY <1>3, <2>2, ReleaseEffect
  <2>4. cs[c] = Release(c, client[c], o.out) /\ \A d \in Clients \ {c} : cs[d] = client[d]
    BY <1>3, <1>5, <1>8 DEF Orderly
  <2> QED
    BY <2>1, <2>3, <2>4
<1>10. \A d \in Clients : \A x \in Members(cs[d]) :
         x # Router /\ at[x] = "waiting" /\ d = BriefClient
  BY <1>1, <1>9, BriefsWait
\* What is known of the requests that were answered.
<1>11. PICK p : p = Purpose
  OBVIOUS
<1>12. PICK q : q = Reading(o)
  OBVIOUS
<1>13. p \in {"analysis", "translation"} /\ (draft # None => p = "translation")
  BY <1>11 DEF Purpose
<1>14. log \subseteq log' /\ Said(w, c, p, q)'
  <2>1. entry \in log' /\ entry = [win |-> w, by |-> c, for |-> p, out |-> q]
    BY <1>5, <1>6, <1>11, <1>12
  <2> QED
    BY <1>6, <2>1 DEF Said
<1>15. log' \subseteq [win : Windows, by : Clients, for : {"analysis", "translation"},
                       out : {"error", "prose", "latin", "russian"}]
  <2>1. entry \in [win : Windows, by : Clients, for : {"analysis", "translation"},
                   out : {"error", "prose", "latin", "russian"}]
    BY <1>3, <1>5, <1>7, <1>11, <1>13
  <2> QED
    BY <1>1, <1>6, <2>1 DEF TypeOK
<1>16. \A v, d, for, out : Said(v, d, for, out) => Said(v, d, for, out)'
  BY <1>14 DEF Said
<1>17. PassedOver(w, t)'
  <2>1. PassedOver(w, t)
    BY <1>1, <1>2, <1>3 DEF Drafting
  <2> QED
    BY <1>1, <1>16, <2>1 DEF PassedOver, Failed
<1>18. o.out = "prose" => Prose(w)'
  BY <1>3, <1>7, <1>12, <1>13, <1>14 DEF Prose
<1>19. CASE o.out = "error" /\ Try(w, NextTurn(t), cs)
  <2>1. PICK n : n = NextTurn(t)
    OBVIOUS
  <2>2. /\ n \in DOMAIN Providers \cup {Len(Providers) + 1}
        /\ \A i \in DOMAIN Providers : t < i /\ i < n => Providers[i] \notin configured
    BY <1>3, <2>1, NextTurnEffect
  <2>3. Failed(w, Providers[t])'
    BY <1>2, <1>7, <1>12, <1>13, <1>14, <1>19 DEF Failed
  <2>4. PassedOver(w, n)'
    <3>1. ASSUME NEW i \in DOMAIN Providers, i < n, Providers[i] \in configured
          PROVE  Failed(w, Providers[i])'
      <4>1. i \in Nat /\ ~ (t < i)
        BY <2>2, <3>1 DEF LanguageModelsAssumption
      <4>2. CASE i = t
        BY <2>3, <4>2
      <4>3. CASE i # t
        <5>1. i < t
          BY <1>3, <4>1, <4>3
        <5> QED
          BY <1>1, <1>17, <3>1, <5>1 DEF PassedOver
      <4> QED
        BY <4>2, <4>3
    <3> QED
      BY <1>1, <3>1 DEF PassedOver
  <2>5. /\ Orderly(client')
        /\ at' \in [Callers -> {"idle", "waiting", "asked"}]
        /\ win' \in Windows \cup {None}
        /\ turn' \in 0..(Len(Providers) + 1)
        /\ draft' = None
        /\ delivered' \in [Windows -> Analysis \cup {None}]
        /\ Routing' /\ Waiting' /\ Drafting' /\ Grounded' /\ BestSource'
        /\ StartsPaced
        /\ \A x \in Callers \ {Router} : at'[x] = at[x]
    BY <1>1, <1>3, <1>9, <1>10, <1>14, <1>19, <2>1, <2>2, <2>4, TryEffect
  <2>6. TypeOK'
    BY <1>1, <1>15, <2>5 DEF TypeOK, Orderly, ClientState
  <2>7. Asking'
    BY <1>1, <2>5, AskingKept
  <2> QED
    BY <2>5, <2>6, <2>7 DEF Inv, TypeInv
<1>20. ASSUME NEW r \in Analysis, Deliver(r), client' = cs,
              GroundedIn(w, r), BestOf(w, r)'
       PROVE  Inv' /\ StartsPaced
  <2>1. GroundedIn(win, r) /\ win \in Windows
    BY <1>2, <1>3, <1>20
  <2>2. \A v : v = win => BestOf(v, r)'
    BY <1>2, <1>20
  <2>3. /\ Orderly(client')
        /\ \A d \in Clients : \A x \in Members(client'[d]) :
             x # Router /\ at[x] = "waiting" /\ d = BriefClient
    BY <1>9, <1>10, <1>20
  <2>4. /\ at' \in [Callers -> {"idle", "waiting", "asked"}]
        /\ win' \in Windows \cup {None}
        /\ turn' \in 0..(Len(Providers) + 1)
        /\ draft' = None
        /\ delivered' \in [Windows -> Analysis \cup {None}]
        /\ Routing' /\ Waiting' /\ Drafting' /\ Grounded' /\ BestSource'
        /\ StartsPaced
        /\ \A x \in Callers \ {Router} : at'[x] = at[x]
    BY <1>1, <1>14, <1>20, <2>1, <2>2, <2>3, DeliverEffect
  <2>5. TypeOK'
    BY <1>1, <1>15, <2>3, <2>4 DEF TypeOK, Orderly, ClientState
  <2>6. Asking'
    BY <1>1, <2>4, AskingKept
  <2> QED
    BY <2>4, <2>5, <2>6 DEF Inv, TypeInv
<1>21. CASE o.out # "error"
  <2>1. PICK r : r = o.result
    OBVIOUS
  <2>2. /\ r \in Analysis /\ GroundedIn(w, r)
        /\ r.from = None => Prose(w)'
        /\ r.from # None => r.from = Providers[t]
    BY <1>2, <1>3, <1>7, <1>18, <1>21, <2>1
  \* The answer is handed over as it is.
  <2>3. CASE Deliver(r) /\ client' = cs /\ ~ NeedsTranslation(r)
    <3>1. BestOf(w, r)'
      BY <1>3, <1>17, <2>2, <2>3, BestOfTurn
    <3> QED
      BY <1>20, <2>2, <2>3, <3>1
  \* The translation did not help.
  <2>4. CASE Deliver(draft) /\ client' = cs /\ draft # None /\ NeedsTranslation(r)
    <3>1. PICK d : d = draft
      OBVIOUS
    <3>2. d \in Analysis
      BY <1>1, <2>4, <3>1 DEF TypeOK
    <3>3. /\ GroundedIn(w, d) /\ (d.from = None => Prose(w))
          /\ d.from # None => d.from = Providers[t]
      BY <1>1, <1>2, <2>4, <3>1 DEF Drafting
    <3>4. Prose(w) => Prose(w)'
      BY <1>16 DEF Prose
    <3>5. d.from # None => \E out \in {"latin", "prose"} : Said(w, d.from, "translation", out)'
      <4>1. q \in {"latin", "prose"} /\ p = "translation"
        BY <1>7, <1>12, <1>13, <1>21, <2>1, <2>4
      <4>2. d.from # None => Said(w, d.from, "translation", q)'
        BY <1>2, <1>14, <3>3, <4>1
      <4> QED
        BY <4>1, <4>2
    <3>6. BestOf(w, d)'
      BY <1>3, <1>17, <3>3, <3>4, <3>5, BestOfTurn
    <3> QED
      BY <1>20, <2>4, <3>1, <3>2, <3>3, <3>6
  \* The answer is sent to be translated.
  <2>5. CASE /\ draft = None /\ NeedsTranslation(r) /\ draft' = r
             /\ client' = [cs EXCEPT ![c] = Acquire(c, @, Router)]
             /\ at' = [at EXCEPT ![Router] = "waiting"]
             /\ UNCHANGED <<win, turn, delivered>>
    <3>1. Router \in Callers /\ Router \notin Members(cs[c])
      BY <1>3, <1>10 DEF Callers
    <3>2. Orderly(client')
      BY <1>3, <1>9, <2>5, <3>1, AcquireAt
    <3>3. client'[c] = Acquire(c, cs[c], Router)
          /\ \A d \in Clients \ {c} : client'[d] = cs[d]
      BY <1>3, <1>9, <2>5 DEF Orderly
    <3>4. cs[c] \in ClientState /\ Waits(c, cs[c]) /\ Router \in Callers \ Members(cs[c])
      BY <1>3, <1>9, <3>1 DEF Orderly
    <3>5. Members(Acquire(c, cs[c], Router)) = Members(cs[c]) \cup {Router}
      BY <1>3, <3>4, AcquireEffect
    <3>6. at' \in [Callers -> {"idle", "waiting", "asked"}] /\ at'[Router] = "waiting"
          /\ \A x \in Callers \ {Router} : at'[x] = at[x]
      BY <1>1, <2>5, <3>1 DEF TypeOK
    <3>7. ASSUME NEW d \in Clients, NEW x \in Members(client'[d])
          PROVE  at'[x] = "waiting" /\ ClientOf(x)' = d
      <4>1. x \in Callers
        BY <3>2, MembersCall DEF Orderly
      <4>2. CASE x = Router
        <5>1. d = c
          BY <1>10, <3>3, <4>2
        <5> QED
          BY <1>2, <2>5, <3>6, <4>2, <5>1 DEF ClientOf
      <4>3. CASE x # Router
        <5>1. x \in Members(cs[d])
          BY <3>3, <3>5, <4>3
        <5>2. d = BriefClient /\ at[x] = "waiting"
          BY <1>10, <5>1
        <5> QED
          BY <3>6, <4>1, <4>3, <5>2 DEF ClientOf
      <4> QED
        BY <4>2, <4>3
    <3>8. Waiting'
      BY <3>2, <3>7 DEF Waiting, Orderly
    <3>9. Routing'
      <4>1. win' # None /\ at'[Router] # "idle" /\ turn' \in DOMAIN Providers
        BY <1>2, <1>3, <2>5, <3>6
      <4> QED
        BY <4>1 DEF Routing
    <3>10. Drafting'
      <4>1. win' = w /\ turn' = t
        BY <1>2, <2>5
      <4>2. NeedsTranslation(draft')
        BY <2>5
      <4>3. PassedOver(win, turn)'
        BY <1>17, <4>1 DEF PassedOver, Failed, Said
      <4>4. Prose(w)' => Prose(win)'
        BY <4>1 DEF Prose, Said
      <4> QED
        BY <2>2, <2>5, <4>1, <4>2, <4>3, <4>4 DEF Drafting, NeedsTranslation
    <3>11. Grounded' /\ BestSource'
      BY <1>1, <1>14, <2>5, NotHandedOver
    <3>12. StartsPaced
      BY <3>6 DEF StartsPaced
    <3>13. TypeOK'
      BY <1>1, <1>15, <2>2, <2>5, <3>2, <3>6 DEF TypeOK, Orderly, ClientState
    <3>14. Asking'
      BY <1>1, <3>6, AskingKept
    <3> QED
      BY <3>8, <3>9, <3>10, <3>11, <3>12, <3>13, <3>14 DEF Inv, TypeInv
  <2> QED
    BY <1>6, <1>21, <2>1, <2>3, <2>4, <2>5
<1> QED
  BY <1>6, <1>19, <1>21

\* The briefs leave the router alone.
LEMMA BriefTypes ==
  ASSUME LanguageModelsAssumption, Inv, NEW b \in Briefs,
         UNCHANGED <<configured, win, turn, draft, delivered, log>>,
         Orderly(client'), NEW v \in {"idle", "waiting"},
         at' = [at EXCEPT ![b] = v],
         brief' \in [Briefs -> {"none", "asked", "model", "heuristic"}],
         \A d \in Briefs \ {b} : brief'[d] = brief[d],
         brief'[b] # "asked" => v = "idle",
         \A c \in Clients : \A x \in Members(client'[c]) :
           \/ x # b /\ x \in Members(client[c])
           \/ x = b /\ c = BriefClient /\ v = "waiting"
  PROVE  Inv' /\ StartsPaced
<1> USE DEF Inv, TypeInv
<1>1. b \in Callers /\ b # Router /\ Router \in Callers
  BY DEF LanguageModelsAssumption, Callers
<1>2. at' \in [Callers -> {"idle", "waiting", "asked"}] /\ at'[b] = v
      /\ \A x \in Callers \ {b} : at'[x] = at[x]
  BY <1>1 DEF TypeOK
<1>3. ASSUME NEW c \in Clients, NEW x \in Members(client'[c])
      PROVE  at'[x] = "waiting" /\ ClientOf(x)' = c
  <2>1. x \in Callers
    BY MembersCall DEF Orderly
  <2>2. CASE x # b /\ x \in Members(client[c])
    <3>1. at[x] = "waiting" /\ ClientOf(x) = c
      BY <2>2 DEF Waiting
    <3> QED
      BY <1>2, <2>1, <2>2, <3>1 DEF ClientOf
  <2>3. CASE x = b /\ c = BriefClient /\ v = "waiting"
    BY <1>1, <1>2, <2>3 DEF ClientOf
  <2> QED
    BY <2>2, <2>3
<1>4. Waiting'
  BY <1>3 DEF Waiting, Orderly
<1>5. TypeOK'
  BY <1>2 DEF TypeOK, Orderly, ClientState
<1>6. Routing'
  BY <1>1, <1>2 DEF Routing
<1>7. Drafting'
  BY DEF Drafting, Prose, PassedOver, Failed, Said, NeedsTranslation
<1>8. Grounded' /\ BestSource'
  BY NotHandedOver
<1>9. StartsPaced
  BY <1>2 DEF StartsPaced
<1>10. Asking'
  <2>1. \A d \in Briefs : d \in Callers
    BY DEF Callers
  <2> QED
    BY <1>2, <2>1 DEF Asking
<1> QED
  BY <1>4, <1>5, <1>6, <1>7, <1>8, <1>9, <1>10

LEMMA RequestStep ==
  ASSUME LanguageModelsAssumption, Inv, NEW b \in Briefs, RequestBrief(b)
  PROVE  Inv' /\ StartsPaced
<1>1. brief[b] = "none" /\ UNCHANGED <<configured, win, turn, draft, delivered, log>>
      /\ TypeOK /\ Waiting /\ Asking
  BY DEF RequestBrief, router, Inv, TypeInv
<1>2. Orderly(client)
  BY <1>1, InOrder
<1>3. b \in Callers /\ at[b] = "idle" /\ BriefClient \in Clients
      /\ at \in [Callers -> {"idle", "waiting", "asked"}]
  BY <1>1 DEF Asking, Callers, LanguageModelsAssumption, TypeOK
<1>4. \A c \in Clients : b \notin Members(client[c])
  BY <1>1, <1>3 DEF Waiting
<1>5. CASE BriefClient \in configured
  <2>1. /\ brief' = [brief EXCEPT ![b] = "asked"]
        /\ at' = [at EXCEPT ![b] = "waiting"]
        /\ client' = [client EXCEPT ![BriefClient] = Acquire(BriefClient, @, b)]
    BY <1>5 DEF RequestBrief
  <2>2. PICK d : d = BriefClient
    OBVIOUS
  <2>3. d \in Clients /\ client' = [client EXCEPT ![d] = Acquire(d, @, b)]
    BY <1>3, <2>1, <2>2
  <2>4. Orderly(client')
    BY <1>2, <1>3, <1>4, <2>3, AcquireAt
  <2>5. client[d] \in ClientState /\ Waits(d, client[d]) /\ b \in Callers \ Members(client[d])
    BY <1>2, <1>3, <1>4, <2>3 DEF Orderly
  <2>6. Members(Acquire(d, client[d], b)) = Members(client[d]) \cup {b}
    BY <2>3, <2>5, AcquireEffect
  <2>7. client'[d] = Acquire(d, client[d], b) /\ \A c \in Clients \ {d} : client'[c] = client[c]
    BY <1>2, <2>3 DEF Orderly
  <2>8. \A c \in Clients : \A x \in Members(client'[c]) :
          \/ x # b /\ x \in Members(client[c])
          \/ x = b /\ c = BriefClient
    BY <1>4, <2>2, <2>6, <2>7
  <2>9. /\ brief' \in [Briefs -> {"none", "asked", "model", "heuristic"}]
        /\ brief'[b] = "asked" /\ \A e \in Briefs \ {b} : brief'[e] = brief[e]
    BY <1>1, <2>1 DEF TypeOK
  <2>10. PICK v : v = "waiting"
    OBVIOUS
  <2>11. /\ v \in {"idle", "waiting"} /\ at' = [at EXCEPT ![b] = v]
         /\ brief'[b] # "asked" => v = "idle"
    BY <2>1, <2>9, <2>10
  <2>12. \A c \in Clients : \A x \in Members(client'[c]) :
           \/ x # b /\ x \in Members(client[c])
           \/ x = b /\ c = BriefClient /\ v = "waiting"
    BY <2>8, <2>10
  <2> QED
    BY <1>1, <2>4, <2>9, <2>11, <2>12, BriefTypes
<1>6. CASE BriefClient \notin configured
  <2>1. brief' = [brief EXCEPT ![b] = "heuristic"] /\ at' = at /\ client' = client
    BY <1>6 DEF RequestBrief
  <2>2. at' = [at EXCEPT ![b] = "idle"]
    BY <1>3, <2>1
  <2>3. /\ brief' \in [Briefs -> {"none", "asked", "model", "heuristic"}]
        /\ \A d \in Briefs \ {b} : brief'[d] = brief[d]
    BY <1>1, <2>1 DEF TypeOK
  <2>4. Orderly(client') /\ \A c \in Clients : \A x \in Members(client'[c]) :
          x # b /\ x \in Members(client[c])
    BY <1>2, <1>4, <2>1
  <2> QED
    BY <1>1, <2>2, <2>3, <2>4, BriefTypes
<1> QED
  BY <1>5, <1>6

LEMMA BriefStep ==
  ASSUME LanguageModelsAssumption, Inv, NEW b \in Briefs, BriefAnswered(b)
  PROVE  Inv' /\ StartsPaced
<1>1. /\ at[b] = "asked" /\ at' = [at EXCEPT ![b] = "idle"]
      /\ UNCHANGED <<configured, win, turn, draft, delivered, log>>
      /\ TypeOK /\ Waiting
  BY DEF BriefAnswered, router, Inv, TypeInv
<1>2. PICK out \in BriefOutcomes :
        /\ client' = [client EXCEPT ![BriefClient] = Release(BriefClient, @, out)]
        /\ brief' = [brief EXCEPT ![b] = IF out = "answer" THEN "model" ELSE "heuristic"]
  BY DEF BriefAnswered
<1>3. PICK d : d = BriefClient
  OBVIOUS
<1>4. d \in Clients /\ client' = [client EXCEPT ![d] = Release(d, @, out)]
  BY <1>2, <1>3 DEF LanguageModelsAssumption
<1>5. Orderly(client)
  BY <1>1, InOrder
<1>6. Orderly(client')
  BY <1>4, <1>5, ReleaseAt
<1>7. \A c \in Clients : Members(client'[c]) = Members(client[c])
  <2>1. client[d] \in ClientState /\ Waits(d, client[d])
    BY <1>4, <1>5 DEF Orderly
  <2>2. Members(Release(d, client[d], out)) = Members(client[d])
    BY <1>4, <2>1, ReleaseEffect
  <2>3. client'[d] = Release(d, client[d], out) /\ \A c \in Clients \ {d} : client'[c] = client[c]
    BY <1>4, <1>5 DEF Orderly
  <2> QED
    BY <2>2, <2>3
<1>8. \A c \in Clients : \A x \in Members(client'[c]) : x # b /\ x \in Members(client[c])
  BY <1>1, <1>7 DEF Waiting
<1>9. /\ brief' \in [Briefs -> {"none", "asked", "model", "heuristic"}]
      /\ brief'[b] # "asked" /\ \A e \in Briefs \ {b} : brief'[e] = brief[e]
  BY <1>1, <1>2 DEF TypeOK
<1> QED
  BY <1>1, <1>6, <1>8, <1>9, BriefTypes

(***************************************************************************)
(* The theorems.                                                           *)
(***************************************************************************)
LEMMA InitInv ==
  ASSUME LanguageModelsAssumption, Init
  PROVE  Inv
<1>1. /\ \A c \in Clients : Parallel[c] \in Nat /\ Gap[c] \in Nat
      /\ Len(Providers) \in Nat /\ Router \in Callers
  BY DEF LanguageModelsAssumption, Callers
<1>2. DOMAIN <<>> = {} /\ <<>> \in Seq(Callers)
  OBVIOUS
<1>3. PICK e : e = <<>>
  OBVIOUS
<1>4. e \in Seq(Callers) /\ Elements(e) = {} /\ Distinct(e) /\ (e # <<>> => FALSE)
  <2>1. DOMAIN e = {} /\ e \in Seq(Callers)
    BY <1>2, <1>3
  <2> QED
    BY <1>3, <2>1 DEF Elements, Distinct
<1>5. ASSUME NEW c \in Clients
      PROVE  client[c] \in ClientState /\ Waits(c, client[c]) /\ Members(client[c]) = {}
  <2>1. client[c] = [free |-> Parallel[c], queue |-> e, line |-> e, pause |-> 0,
                     since |-> Gap[c]]
    BY <1>3 DEF Init
  <2>2. client[c] \in ClientState
    BY <1>1, <1>4, <2>1 DEF ClientState
  <2>3. client[c].queue = e /\ client[c].line = e /\ client[c].since = Gap[c]
    BY <2>1
  <2>4. Gap[c] <= Gap[c]
    BY <1>1
  <2> QED
    BY <1>4, <2>2, <2>3, <2>4 DEF Waits, Members
<1>6. TypeOK
  <2>1. client \in [Clients -> ClientState]
    BY <1>5 DEF Init
  <2>2. turn \in 0..(Len(Providers) + 1)
    BY <1>1 DEF Init
  <2> QED
    BY <2>1, <2>2 DEF Init, TypeOK, ClientState
<1>7. Waiting
  BY <1>5 DEF Waiting
<1>8. Routing
  BY <1>1 DEF Init, Routing
<1>9. Asking
  BY DEF Init, Asking, Callers
<1>10. Drafting
  BY DEF Init, Drafting
<1>11. Grounded /\ BestSource
  BY DEF Init, Grounded, BestSource
<1> QED
  BY <1>6, <1>7, <1>8, <1>9, <1>10, <1>11 DEF Inv, TypeInv

LEMMA NextInv ==
  ASSUME LanguageModelsAssumption, Inv, Next
  PROVE  Inv' /\ StartsPaced
BY TickStep, StartStep, AnalyseStep, AnsweredStep, RequestStep, BriefStep DEF Next

LEMMA StutterInv ==
  ASSUME Inv, UNCHANGED vars
  PROVE  Inv'
<1>1. UNCHANGED <<configured, client, at, win, turn, draft, delivered, log, brief>>
  BY DEF vars, router
<1>2. TypeInv' /\ Asking'
  BY <1>1 DEF Inv, TypeInv, TypeOK, Routing, Asking
<1>3. Waiting'
  BY <1>1 DEF Inv, Waiting, ClientOf
<1>4. Drafting'
  BY <1>1 DEF Inv, Drafting, Prose, PassedOver, Failed, Said, NeedsTranslation
<1>5. Grounded' /\ BestSource'
  BY <1>1, NotHandedOver DEF Inv
<1> QED
  BY <1>2, <1>3, <1>4, <1>5 DEF Inv

\* The invariant holds in every state.
LEMMA Invariance == Spec => []Inv
<1>1. Init => Inv
  BY InitInv, LanguageModelsAssumption
<1>2. Inv /\ [Next]_vars => Inv'
  BY NextInv, StutterInv, LanguageModelsAssumption
<1> QED
  BY <1>1, <1>2, PTL DEF Spec

\* Every variable keeps its type, and the router knows where it is.
THEOREM TypeCorrect == Spec => []TypeInv
<1>1. Inv => TypeInv
  BY DEF Inv
<1> QED
  BY <1>1, Invariance, PTL

\* Whoever wrote an analysis, every claim, task and signal in it cites messages
\* of its own window, and no claim or task cites none (_sanitize_result and the
\* heuristics of llm.py).
THEOREM GroundedHolds == Spec => []Grounded
<1>1. Inv => Grounded
  BY DEF Inv
<1> QED
  BY <1>1, Invariance, PTL

\* A provider is passed over only after it failed, the heuristics speak only
\* when all failed or one answered in prose, and a Latin analysis is handed on
\* only when its translation was tried (AnalysisRouter.analyze).
THEOREM BestSourceHolds == Spec => []BestSource
<1>1. Inv => BestSource
  BY DEF Inv
<1> QED
  BY <1>1, Invariance, PTL

\* Requests through one client start at least its interval apart, for any number
\* of callers and of slots (_wait_for_slot of pil_llm).
THEOREM PacedHolds == Spec => Paced
<1>1. Inv /\ Next => StartsPaced
  BY NextInv, LanguageModelsAssumption
<1>2. Inv /\ [Next]_vars => [StartsPaced]_vars
  BY <1>1
<1>3. Spec => [][StartsPaced]_vars
  BY <1>2, Invariance, PTL DEF Spec
<1> QED
  BY <1>3 DEF StartsPaced, Paced
=============================================================================
