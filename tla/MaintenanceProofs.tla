-------------------------- MODULE MaintenanceProofs --------------------------
(***************************************************************************)
(* Theorems about Maintenance, for every value of its constants.           *)
(***************************************************************************)
EXTENDS MaintenanceInvariant, WellFoundedInduction, TLAPS

(***************************************************************************)
(* Lemmas about numbers.                                                   *)
(***************************************************************************)

\* A set of numbers has a least element.
LEMMA LeastNumber ==
  ASSUME NEW T \in SUBSET Nat, T # {}
  PROVE  Min(T) \in T /\ \A y \in T : Min(T) <= y
<1> DEFINE R == OpToRel(<, Nat)
<1>1. IsWellFoundedOn(R, Nat)
  BY NatLessThanWellFounded
<1>2. \A x, y \in Nat : x < y => <<x, y>> \in R
  BY DEF OpToRel
<1> HIDE DEF R
<1>3. PICK x \in T : \A y \in T : ~ (<<y, x>> \in R)
  BY <1>1, WFMin, T \subseteq Nat, Zenon
<1>4. ASSUME NEW y \in T
      PROVE  x <= y
  <2>1. ~ (y < x)
    BY <1>2, <1>3
  <2> QED
    BY <2>1
<1> QED
  BY <1>4 DEF Min

LEMMA MinOfTwo ==
  ASSUME NEW a \in Int, NEW b \in Int
  PROVE  Min({a, b}) \in {a, b} /\ Min({a, b}) <= a /\ Min({a, b}) <= b
<1>1. \E x \in {a, b} : \A y \in {a, b} : x =< y
  <2>1. CASE a <= b
    BY <2>1
  <2>2. CASE ~ (a <= b)
    BY <2>2
  <2> QED
    BY <2>1, <2>2
<1> QED
  BY <1>1 DEF Min

\* settings.py: at least one, whatever is stored.
LEMMA AtLeastOneBounds ==
  ASSUME NEW n \in Int
  PROVE  AtLeastOne(n) \in Nat /\ AtLeastOne(n) >= 1 /\ AtLeastOne(n) >= n
<1>1. \E x \in {1, n} : \A y \in {1, n} : x >= y
  <2>1. CASE 1 >= n
    BY <2>1
  <2>2. CASE ~ (1 >= n)
    BY <2>2
  <2> QED
    BY <2>1, <2>2
<1>2. Max({1, n}) \in {1, n} /\ Max({1, n}) >= 1 /\ Max({1, n}) >= n
  BY <1>1 DEF Max
<1> QED
  BY <1>2 DEF AtLeastOne

\* Months come in the order of their days.
LEMMA MonthsInOrder ==
  ASSUME MaintenanceAssumption, NEW a \in Int, NEW b \in Int, a <= b
  PROVE  MonthOf(a) \in Int /\ MonthOf(b) \in Int /\ MonthOf(a) <= MonthOf(b)
<1>1. PICK k \in Nat : k = MonthDays /\ k > 0
  BY DEF MaintenanceAssumption
<1> DEFINE p == a \div k  q == b \div k
<1>2. p \in Int /\ q \in Int /\ k * p <= a /\ b < k * (q + 1)
  BY <1>1
<1> HIDE DEF p, q
<1>3. ASSUME p >= q + 1
      PROVE  FALSE
  <2>1. k * p >= k * (q + 1)
    BY <1>1, <1>2, <1>3
  <2>2. k * p \in Int /\ k * (q + 1) \in Int
    BY <1>1, <1>2
  <2> QED
    BY <1>2, <2>1, <2>2
<1> QED
  BY <1>1, <1>2, <1>3 DEF MonthOf, p, q

LEMMA MonthIsNatural ==
  ASSUME MaintenanceAssumption, NEW d \in Nat
  PROVE  MonthOf(d) \in Nat
BY DEF MaintenanceAssumption, MonthOf

\* The plan of a run: each table in each month.
LEMMA SpreadAll ==
  ASSUME NEW first \in Nat, NEW n \in Nat, n >= 1
  PROVE  /\ Spread(first, n) \in Seq(Months \X Tables)
         /\ Spread(first, n) # <<>>
         /\ \A m \in first..(first + n - 1), t \in Tables :
              \E i \in DOMAIN Spread(first, n) : Spread(first, n)[i] = <<m, t>>
<1> DEFINE f == Spread(first, n)
           g(i) == <<first + ((i - 1) \div 3), TableOrder[((i - 1) % 3) + 1]>>
<1>1. DOMAIN TableOrder = 1..3 /\ Tables = {TableOrder[1], TableOrder[2], TableOrder[3]}
  <2>1. DOMAIN TableOrder = 1..3
    BY DEF TableOrder
  <2> QED
    BY <2>1 DEF Tables
<1>2. 3 * n \in Nat /\ f = [i \in 1..(3 * n) |-> g(i)]
  BY DEF Spread
<1>3. ASSUME NEW i \in 1..(3 * n)
      PROVE  g(i) \in Months \X Tables
  <2>1. (i - 1) \div 3 \in Nat /\ ((i - 1) % 3) + 1 \in 1..3
    OBVIOUS
  <2>2. TableOrder[((i - 1) % 3) + 1] \in Tables
    BY <1>1, <2>1 DEF Tables
  <2> QED
    BY <2>1, <2>2 DEF Months
<1>4. f \in Seq(Months \X Tables) /\ DOMAIN f = 1..(3 * n) /\ \A i \in 1..(3 * n) : f[i] = g(i)
  <2>1. f \in [1..(3 * n) -> Months \X Tables]
    BY <1>2, <1>3
  <2> QED
    BY <1>2, <2>1
<1>5. f # <<>>
  <2>1. 1 \in DOMAIN f
    BY <1>4
  <2> QED
    BY <2>1
<1>6. ASSUME NEW m \in first..(first + n - 1), NEW k \in 1..3
      PROVE  \E i \in DOMAIN f : f[i] = <<m, TableOrder[k]>>
  <2> DEFINE j == 3 * (m - first) + k
  <2>1. j \in 1..(3 * n) /\ (j - 1) \div 3 = m - first /\ ((j - 1) % 3) + 1 = k
    OBVIOUS
  <2> HIDE DEF j
  <2>2. f[j] = <<first + (m - first), TableOrder[k]>>
    BY <1>4, <2>1
  <2>3. first + (m - first) = m
    OBVIOUS
  <2> QED
    BY <1>4, <2>1, <2>2, <2>3
<1>7. \A t \in Tables : \E k \in 1..3 : t = TableOrder[k]
  BY <1>1
<1> HIDE DEF f
<1>8. \A m \in first..(first + n - 1), t \in Tables : \E i \in DOMAIN f : f[i] = <<m, t>>
  BY <1>6, <1>7
<1> QED
  BY <1>4, <1>5, <1>8 DEF f

(***************************************************************************)
(* What every step keeps: the days pass, the shortest retention only gets  *)
(* shorter, and a partition goes only when its month is over.              *)
(***************************************************************************)
RunState ==
  [at : {"off", "read", "create", "list", "drop", "trim"}, ahead : Int, days : Int,
   month : Months, todo : Seq(Months \X Tables), old : SUBSET Months]

Onward ==
  /\ TypeOK /\ TypeOK'
  /\ today <= today'
  /\ least' <= least
  /\ \A t \in Tables : \A m \in parts[t] : m \in parts'[t] \/ m < MonthOf(today)

LEMMA LaterMonth ==
  ASSUME MaintenanceAssumption, Onward
  PROVE  /\ MonthOf(today) \in Nat /\ MonthOf(today') \in Nat
         /\ MonthOf(today) <= MonthOf(today')
<1>1. today \in Nat /\ today' \in Nat /\ today <= today'
  BY DEF Onward, TypeOK, MaintenanceAssumption
<1> QED
  BY <1>1, MonthsInOrder, MonthIsNatural

\* What was past the shortest retention stays past it.
LEMMA StaysPast ==
  \A a, b, c, k, l \in Int : a <= b /\ l <= k /\ a - c > k => b - c > l
OBVIOUS

LEMMA RunKept ==
  ASSUME MaintenanceAssumption, Onward, NEW s \in RunState, Sound(s)
  PROVE  Sound(s)'
<1>1. /\ MonthOf(today) \in Nat /\ MonthOf(today') \in Nat
      /\ MonthOf(today) <= MonthOf(today')
  BY LaterMonth
<1>2. /\ today \in Nat /\ today' \in Nat /\ today <= today'
      /\ least \in Int /\ least' \in Int /\ least' <= least
      /\ \A t \in Tables : \A m \in parts[t] : m \in parts'[t] \/ m < MonthOf(today)
  BY DEF Onward, TypeOK, MaintenanceAssumption
<1>3. s.old \subseteq Nat /\ s.month \in Nat /\ s.ahead \in Int /\ s.days \in Int
  BY DEF RunState, Months
<1>4. AtLeastOne(s.ahead) \in Nat /\ AtLeastOne(s.days) \in Nat
  BY <1>3, AtLeastOneBounds
<1>5. Creating(s, MonthOf(today), parts)
  BY DEF Sound
<1>6. Creating(s, MonthOf(today'), parts')
  <2> SUFFICES ASSUME s.at = "create",
                      NEW m \in s.month..(s.month + AtLeastOne(s.ahead) - 1), NEW t \in Tables,
                      ~ (m < MonthOf(today')),
                      ~ \E i \in DOMAIN s.todo : s.todo[i] = <<m, t>>
               PROVE  m \in parts'[t]
    BY <1>5 DEF Creating
  <2>1. m \in Nat
    BY <1>3, <1>4
  <2>2. ~ (m < MonthOf(today))
    BY <1>1, <2>1
  <2>3. m \in parts[t]
    BY <1>5, <2>2 DEF Creating
  <2> QED
    BY <1>2, <2>2, <2>3
<1>7. Dropping(s, today', least')
  <2>1. s.at \in {"drop", "trim"} => least' <= AtLeastOne(s.days)
    BY <1>2, <1>4 DEF Sound, Dropping
  <2>2. \A m \in s.old : m < MonthOf(today')
    BY <1>1, <1>3 DEF Sound, Dropping
  <2>3. \A d \in 0..MaxDay : MonthOf(d) \in s.old => today' - d > least'
    <3> SUFFICES ASSUME NEW d \in 0..MaxDay, MonthOf(d) \in s.old
                 PROVE  today' - d > least'
      OBVIOUS
    <3>1. today - d > least
      BY DEF Sound, Dropping
    <3>2. d \in Int
      BY DEF MaintenanceAssumption
    <3>3. /\ today \in Int /\ today' \in Int /\ today <= today'
          /\ least \in Int /\ least' \in Int /\ least' <= least
      BY <1>2
    <3> QED
      BY <3>1, <3>2, <3>3, StaysPast
  <2> QED
    BY <2>1, <2>2, <2>3 DEF Dropping
<1> QED
  BY <1>6, <1>7 DEF Sound, MonthOf

LEMMA PromiseKept ==
  ASSUME MaintenanceAssumption, Onward, Kept, promised' = promised
  PROVE  Kept'
<1>1. /\ MonthOf(today) \in Nat /\ MonthOf(today') \in Nat
      /\ MonthOf(today) <= MonthOf(today')
  BY LaterMonth
<1>2. /\ \A t \in Tables : \A m \in parts[t] : m \in parts'[t] \/ m < MonthOf(today)
      /\ \A p \in promised : p.month \in Nat /\ p.total \in Nat
  BY DEF Onward, TypeOK, Months
<1> SUFFICES ASSUME NEW p \in promised, NEW t \in Tables,
                    NEW m \in p.month..(p.month + p.total - 1), ~ (m < MonthOf(today'))
             PROVE  m \in parts'[t]
  BY DEF Kept, MonthOf
<1>3. m \in Nat
  BY <1>2
<1>4. ~ (m < MonthOf(today))
  BY <1>1, <1>3
<1>5. m \in parts[t]
  BY <1>4 DEF Kept
<1> QED
  BY <1>2, <1>4, <1>5

\* The days an event was taken, as numbers.
LEMMA LastTakenDay ==
  ASSUME MaintenanceAssumption, TypeOK, NEW e \in Events
  PROVE  /\ Len(taken[e]) \in Nat
         /\ \A i \in 1..Len(taken[e]) : taken[e][i] \in Nat
         /\ taken[e] # <<>> => Len(taken[e]) > 0 /\ LastTaken(e) \in Nat
<1>1. taken[e] \in Seq(0..MaxDay) /\ \A d \in 0..MaxDay : d \in Nat
  BY DEF TypeOK, MaintenanceAssumption
<1>2. PICK s : s = taken[e]
  OBVIOUS
<1>3. s \in Seq(0..MaxDay)
  BY <1>1, <1>2
<1>4. Len(s) \in Nat /\ (s # <<>> => Len(s) > 0) /\ \A i \in 1..Len(s) : s[i] \in 0..MaxDay
  BY <1>3
<1>5. \A i \in 1..Len(s) : s[i] \in Nat
  BY <1>1, <1>4
<1>6. s # <<>> => s[Len(s)] \in Nat
  BY <1>4, <1>5
<1> QED
  BY <1>2, <1>4, <1>5, <1>6 DEF LastTaken

LEMMA StaysForgotten ==
  ASSUME MaintenanceAssumption, Onward, NEW e \in Events, taken'[e] = taken[e], Forgotten(e)
  PROVE  Forgotten(e)'
<1>1. /\ today \in Nat /\ today' \in Nat /\ today <= today'
      /\ least \in Int /\ least' \in Int /\ least' <= least
  BY DEF Onward, TypeOK, MaintenanceAssumption
<1>2. CASE taken[e] = <<>>
  BY <1>2 DEF Forgotten
<1>3. CASE taken[e] # <<>>
  <2>1. LastTaken(e) \in Nat /\ today - LastTaken(e) > least
    BY <1>3, LastTakenDay DEF Forgotten, Onward
  <2>2. LastTaken(e)' = LastTaken(e)
    BY DEF LastTaken
  <2>3. today' - LastTaken(e) > least'
    BY <1>1, <2>1
  <2> QED
    BY <2>2, <2>3 DEF Forgotten
<1> QED
  BY <1>2, <1>3

\* Marks may go when they are older than any retention applied.
LEMMA MarksKept ==
  ASSUME MaintenanceAssumption, Onward, Marked, RepeatsOnlyOld, UNCHANGED <<taken, worker>>,
         marks' \subseteq marks, \A x \in marks \ marks' : today' - x.day > least'
  PROVE  Marked' /\ RepeatsOnlyOld'
<1>1. \A x \in marks' : taken'[x.event] # <<>> /\ x.day = LastTaken(x.event)'
  BY DEF Marked, LastTaken
<1>2. ASSUME NEW e \in Events, Unmarked(e)'
      PROVE  Forgotten(e)'
  <2>1. CASE Unmarked(e)
    BY <2>1, StaysForgotten DEF Marked
  <2>2. CASE ~ Unmarked(e)
    <3>1. PICK x \in marks : x.event = e
      BY <2>2 DEF Unmarked
    <3>2. x \notin marks'
      BY <1>2, <3>1 DEF Unmarked
    <3>3. today' - x.day > least' /\ x.day = LastTaken(e)
      BY <3>1, <3>2 DEF Marked
    <3>4. LastTaken(e)' = LastTaken(e)
      BY DEF LastTaken
    <3> QED
      BY <3>3, <3>4 DEF Forgotten
  <2> QED
    BY <2>1, <2>2
<1>3. worker' # None => Unmarked(worker)'
  BY DEF Marked, Unmarked
<1>4. RepeatsOnlyOld'
  <2> SUFFICES ASSUME NEW e \in Events, NEW i \in 1..(Len(taken[e]) - 1)
               PROVE  taken[e][i + 1] - taken[e][i] > least'
    BY DEF RepeatsOnlyOld
  <2>1. taken[e][i + 1] - taken[e][i] > least
    BY DEF RepeatsOnlyOld
  <2>2. /\ Len(taken[e]) \in Nat
        /\ \A j \in 1..Len(taken[e]) : taken[e][j] \in Nat
    BY LastTakenDay DEF Onward
  <2>3. i \in 1..Len(taken[e]) /\ i + 1 \in 1..Len(taken[e])
    BY <2>2
  <2>4. taken[e][i + 1] - taken[e][i] \in Int
    BY <2>2, <2>3
  <2>5. least \in Int /\ least' \in Int /\ least' <= least
    BY DEF Onward, TypeOK, MaintenanceAssumption
  <2> HIDE DEF RepeatsOnlyOld
  <2> QED
    BY <2>1, <2>4, <2>5
<1> QED
  BY <1>1, <1>2, <1>3, <1>4 DEF Marked

\* A run goes on to be s, the others stay where they are.
LEMMA RunnersKept ==
  ASSUME MaintenanceAssumption, Onward, Running, NEW r \in Runners, NEW s \in RunState,
         run' = [run EXCEPT ![r] = s], Sound(s)'
  PROVE  Running'
<1>1. run \in [Runners -> RunState]
  BY DEF Onward, TypeOK, RunState
<1> SUFFICES ASSUME NEW q \in Runners
             PROVE  Sound(run[q])'
  BY <1>1 DEF Running
<1>2. PICK u : u = run'[q]
  OBVIOUS
<1>3. Sound(u)'
  <2>1. CASE q = r
    <3>1. u = s
      BY <1>1, <1>2, <2>1
    <3> QED
      BY <3>1
  <2>2. CASE q # r
    <3>1. u = run[q]
      BY <1>1, <1>2, <2>2
    <3>2. u \in RunState /\ Sound(u)
      BY <1>1, <3>1 DEF Running
    <3> QED
      BY <3>2, RunKept
  <2> QED
    BY <2>1, <2>2
<1> QED
  BY <1>2, <1>3 DEF Sound

LEMMA RunnersStay ==
  ASSUME MaintenanceAssumption, Onward, Running, run' = run
  PROVE  Running'
<1>1. run \in [Runners -> RunState]
  BY DEF Onward, TypeOK, RunState
<1> SUFFICES ASSUME NEW q \in Runners
             PROVE  Sound(run[q])'
  BY DEF Running
<1>2. PICK u : u = run[q]
  OBVIOUS
<1>3. Sound(u)'
  BY <1>1, <1>2, RunKept DEF Running
<1> QED
  BY <1>2, <1>3 DEF Sound

(***************************************************************************)
(* Each action keeps the invariant.                                        *)
(***************************************************************************)

\* The types that every action needs to know.
LEMMA Types ==
  ASSUME MaintenanceAssumption, TypeOK
  PROVE  /\ today \in Nat /\ MonthOf(today) \in Nat /\ least \in Nat
         /\ run \in [Runners -> RunState]
         /\ DOMAIN run = Runners
<1>1. today \in Nat /\ least \in Nat
  BY DEF MaintenanceAssumption, TypeOK
<1>2. run \in [Runners -> RunState]
  BY DEF TypeOK, RunState
<1> QED
  BY <1>1, <1>2, MonthIsNatural

\* A run that ends keeps nothing in mind.
LEMMA OffEffect ==
  /\ Off \in RunState /\ Sound(Off)'
<1>1. DOMAIN <<>> = {} /\ <<>> \in Seq(Months \X Tables)
  OBVIOUS
<1>2. PICK e : e = <<>>
  OBVIOUS
<1>3. e \in Seq(Months \X Tables)
  BY <1>1, <1>2
<1>4. Off = [at |-> "off", ahead |-> 0, days |-> 0, month |-> 0, todo |-> e, old |-> {}]
  BY <1>2 DEF Off
<1>5. Off \in RunState /\ Off.at = "off" /\ Off.old = {}
  BY <1>3, <1>4 DEF RunState, Months
<1> QED
  BY <1>5 DEF Sound, Creating, Dropping

LEMMA StartStep ==
  ASSUME MaintenanceAssumption, Inv, NEW r \in Runners, Start(r)
  PROVE  Inv'
<1>1. /\ lock' = r /\ UNCHANGED <<today, parts, setting, marks, worker, taken, promised, least, faults>>
  BY DEF Start, history
<1>2. TypeOK /\ Running /\ Kept /\ Marked /\ RepeatsOnlyOld
  BY DEF Inv
<1>3. run[r] \in RunState
  BY <1>2, Types
<1>4. PICK s : s = [run[r] EXCEPT !.at = "read"]
  OBVIOUS
<1>5. s \in RunState /\ s.at = "read" /\ s.old = run[r].old
  BY <1>3, <1>4 DEF RunState
<1>6. run' = [run EXCEPT ![r] = s]
  BY <1>4 DEF Start
<1>7. TypeOK'
  <2>1. run' \in [Runners -> RunState]
    BY <1>2, <1>5, <1>6, Types
  <2> QED
    BY <1>1, <1>2, <2>1 DEF TypeOK, RunState
<1>8. Onward
  BY <1>1, <1>2, <1>7, Types DEF Onward
<1>9. Sound(s)
  BY <1>2, <1>5 DEF Running, Sound, Creating, Dropping
<1>10. Running'
  BY <1>2, <1>5, <1>6, <1>8, <1>9, RunKept, RunnersKept
<1>11. Kept' /\ Marked' /\ RepeatsOnlyOld'
  BY <1>1, <1>2, <1>8, PromiseKept, MarksKept
<1> QED
  BY <1>7, <1>10, <1>11 DEF Inv

LEMMA ReadStep ==
  ASSUME MaintenanceAssumption, Inv, NEW r \in Runners, ReadSettings(r)
  PROVE  Inv'
<1>1. UNCHANGED <<today, parts, marks, lock, worker, taken, promised, least, faults>>
  BY DEF ReadSettings, history
<1>2. TypeOK /\ Running /\ Kept /\ Marked /\ RepeatsOnlyOld
  BY DEF Inv
<1>3. run[r] \in RunState /\ MonthOf(today) \in Nat
  BY <1>2, Types
<1>4. PICK known, ahead, days, todo, s :
        /\ known = [k \in Keys |-> IF setting[k] = None THEN Default[k] ELSE setting[k]]
        /\ ahead = IntSetting("ahead", known["ahead"])
        /\ days = IntSetting("days", known["days"])
        /\ todo = Specs(MonthOf(today), ahead)
        /\ s = [run[r] EXCEPT !.at = "create", !.ahead = ahead, !.days = days,
                              !.month = MonthOf(today), !.todo = todo]
  OBVIOUS
<1>5. setting' = known /\ run' = [run EXCEPT ![r] = s]
  BY <1>4 DEF ReadSettings
<1>6. known \in [Keys -> Int \cup {Bad, None}]
  BY <1>2, <1>4 DEF TypeOK, MaintenanceAssumption
<1>7. ahead \in Int /\ days \in Int
  BY <1>4 DEF IntSetting, MaintenanceAssumption, Keys
<1>8. AtLeastOne(ahead) \in Nat /\ AtLeastOne(ahead) >= 1
  BY <1>7, AtLeastOneBounds
<1>9. /\ todo \in Seq(Months \X Tables) /\ todo # <<>>
      /\ \A m \in MonthOf(today)..(MonthOf(today) + AtLeastOne(ahead) - 1), t \in Tables :
           \E i \in DOMAIN todo : todo[i] = <<m, t>>
  <2>1. PICK now, n : now = MonthOf(today) /\ n = AtLeastOne(ahead)
    OBVIOUS
  <2>2. todo = Spread(now, n) /\ now \in Nat /\ n \in Nat /\ n >= 1
    BY <1>3, <1>4, <1>8, <2>1 DEF Specs
  <2>3. /\ Spread(now, n) \in Seq(Months \X Tables) /\ Spread(now, n) # <<>>
        /\ \A m \in now..(now + n - 1), t \in Tables :
             \E i \in DOMAIN Spread(now, n) : Spread(now, n)[i] = <<m, t>>
    BY <2>2, SpreadAll, Zenon
  <2> QED
    BY <2>1, <2>2, <2>3, Zenon
<1>10. /\ s \in RunState /\ s.at = "create" /\ s.old = run[r].old /\ s.todo = todo
       /\ s.month = MonthOf(today) /\ s.ahead = ahead
  BY <1>3, <1>4, <1>7, <1>9 DEF RunState, Months
<1>11. TypeOK'
  <2>1. run' \in [Runners -> RunState]
    BY <1>2, <1>5, <1>10, Types
  <2> QED
    BY <1>1, <1>2, <1>5, <1>6, <2>1 DEF TypeOK, RunState
<1>12. Onward
  BY <1>1, <1>2, <1>11, Types DEF Onward
<1>13. Creating(s, MonthOf(today), parts)
  BY <1>9, <1>10 DEF Creating
<1>14. Dropping(s, today, least)
  BY <1>2, <1>10 DEF Running, Sound, Dropping
<1>15. Running'
  BY <1>2, <1>5, <1>10, <1>12, <1>13, <1>14, RunKept, RunnersKept DEF Sound
<1>16. Kept' /\ Marked' /\ RepeatsOnlyOld'
  BY <1>1, <1>2, <1>12, PromiseKept, MarksKept
<1> QED
  BY <1>11, <1>15, <1>16 DEF Inv

\* The first of a run's tables is there, the others are still to come.
LEMMA CreateEffect ==
  ASSUME NEW S, NEW todo \in Seq(S), todo # <<>>, NEW x, NEW i \in DOMAIN todo, todo[i] = x
  PROVE  \/ x = Head(todo)
         \/ Tail(todo) # <<>> /\ \E j \in DOMAIN Tail(todo) : Tail(todo)[j] = x
<1> DEFINE n == Len(todo)  rest == Tail(todo)
<1>1. /\ n \in Nat /\ n > 0 /\ DOMAIN todo = 1..n /\ Head(todo) = todo[1]
      /\ DOMAIN rest = 1..(n - 1) /\ \A j \in 1..(n - 1) : rest[j] = todo[j + 1]
  OBVIOUS
<1> HIDE DEF n, rest
<1>2. CASE i = 1
  BY <1>1, <1>2
<1>3. CASE i # 1
  <2>1. i - 1 \in 1..(n - 1) /\ (i - 1) + 1 = i
    BY <1>1, <1>3
  <2>2. rest[i - 1] = x
    BY <1>1, <2>1
  <2>3. rest # <<>>
    BY <1>1, <2>1
  <2> QED
    BY <1>1, <2>1, <2>2, <2>3 DEF rest
<1> QED
  BY <1>2, <1>3

LEMMA CreateStep ==
  ASSUME MaintenanceAssumption, Inv, NEW r \in Runners, Create(r)
  PROVE  Inv'
<1>1. /\ run[r].at = "create"
      /\ UNCHANGED <<today, setting, marks, lock, worker, taken, least, faults>>
  BY DEF Create
<1>2. TypeOK /\ Running /\ Kept /\ Marked /\ RepeatsOnlyOld
  BY DEF Inv
<1>3. run[r] \in RunState /\ MonthOf(today) \in Nat
  BY <1>2, Types
<1>4. PICK old, todo, rest, spec, s :
        /\ old = run[r] /\ todo = old.todo /\ rest = Tail(todo) /\ spec = Head(todo)
        /\ s = [old EXCEPT !.todo = rest, !.at = IF rest = <<>> THEN "list" ELSE @]
  OBVIOUS
<1>5. Creating(old, MonthOf(today), parts) /\ Dropping(old, today, least)
  BY <1>2, <1>4 DEF Running, Sound
<1>6. todo \in Seq(Months \X Tables) /\ todo # <<>> /\ old \in RunState
      /\ old.at = "create" /\ old.month \in Nat /\ old.ahead \in Int
  BY <1>1, <1>3, <1>4, <1>5 DEF Creating, RunState, Months
<1>7. rest \in Seq(Months \X Tables) /\ spec \in Months \X Tables
  BY <1>4, <1>6
<1>8. /\ s \in RunState /\ s.todo = rest /\ s.at = IF rest = <<>> THEN "list" ELSE "create"
      /\ s.old = old.old /\ s.month = old.month /\ s.ahead = old.ahead
  BY <1>4, <1>6, <1>7 DEF RunState
<1>9. /\ run' = [run EXCEPT ![r] = s]
      /\ parts' = [parts EXCEPT ![spec[2]] = @ \cup {spec[1]}]
      /\ promised' = IF rest # <<>> THEN promised ELSE promised \cup
           {[month |-> old.month, total |-> AtLeastOne(old.ahead)]}
  <2>1. run' = [run EXCEPT ![r].todo = rest, ![r].at = IF rest = <<>> THEN "list" ELSE @]
    BY <1>4 DEF Create
  <2>2. run' = [run EXCEPT ![r] = s]
    BY <1>2, <1>4, <2>1, Types
  <2> QED
    BY <1>4, <2>2 DEF Create
<1>10. AtLeastOne(old.ahead) \in Nat
  BY <1>6, AtLeastOneBounds
<1>11. /\ parts \in [Tables -> SUBSET Months] /\ parts' \in [Tables -> SUBSET Months]
       /\ \A t \in Tables : parts[t] \subseteq parts'[t]
       /\ spec[1] \in parts'[spec[2]]
  <2>1. parts \in [Tables -> SUBSET Months]
    BY <1>2 DEF TypeOK
  <2>2. spec[1] \in Months /\ spec[2] \in Tables
    BY <1>7
  <2> QED
    BY <1>9, <2>1, <2>2
<1>12. TypeOK'
  <2>1. run' \in [Runners -> RunState]
    BY <1>2, <1>8, <1>9, Types
  <2>2. promised' \subseteq [month : Months, total : Nat]
    BY <1>2, <1>6, <1>9, <1>10 DEF TypeOK, Months
  <2> QED
    BY <1>1, <1>2, <1>11, <2>1, <2>2 DEF TypeOK, RunState
<1>13. Onward
  BY <1>1, <1>2, <1>11, <1>12, Types DEF Onward
\* Every table of every month the run is for is there or still to come.
<1>14. ASSUME NEW m \in old.month..(old.month + AtLeastOne(old.ahead) - 1), NEW t \in Tables
       PROVE  \/ m < MonthOf(today)
              \/ m \in parts'[t]
              \/ rest # <<>> /\ \E j \in DOMAIN rest : rest[j] = <<m, t>>
  <2>1. \/ m < MonthOf(today) \/ m \in parts[t]
        \/ \E i \in DOMAIN todo : todo[i] = <<m, t>>
    BY <1>4, <1>5, <1>6 DEF Creating
  <2>2. CASE \E i \in DOMAIN todo : todo[i] = <<m, t>>
    <3>1. PICK i \in DOMAIN todo : todo[i] = <<m, t>>
      BY <2>2
    <3>2. PICK x : x = <<m, t>>
      OBVIOUS
    <3>3. \/ x = spec
          \/ rest # <<>> /\ \E j \in DOMAIN rest : rest[j] = x
      <4>1. todo \in Seq(Months \X Tables) /\ todo # <<>> /\ i \in DOMAIN todo /\ todo[i] = x
        BY <1>6, <3>1, <3>2
      <4>2. \/ x = Head(todo)
            \/ Tail(todo) # <<>> /\ \E j \in DOMAIN Tail(todo) : Tail(todo)[j] = x
        BY <4>1, CreateEffect
      <4>3. rest = Tail(todo) /\ spec = Head(todo)
        BY <1>4
      <4> QED
        BY <4>2, <4>3, Zenon
    <3>4. ASSUME <<m, t>> = spec
          PROVE  m \in parts'[t]
      <4>1. spec[1] = m /\ spec[2] = t
        BY <3>4
      <4> QED
        BY <1>11, <4>1
    <3> QED
      BY <3>2, <3>3, <3>4
  <2> QED
    BY <1>11, <2>1, <2>2
<1>15. Creating(s, MonthOf(today), parts')
  BY <1>8, <1>14 DEF Creating
<1>16. Dropping(s, today, least)
  BY <1>5, <1>6, <1>8 DEF Dropping
<1>17. Sound(s)'
  BY <1>1, <1>15, <1>16 DEF Sound, MonthOf
<1>18. Running'
  BY <1>2, <1>8, <1>9, <1>13, <1>17, RunnersKept
<1>19. Kept'
  <2> SUFFICES ASSUME NEW p \in promised', NEW t \in Tables,
                      NEW m \in p.month..(p.month + p.total - 1), ~ (m < MonthOf(today))
               PROVE  m \in parts'[t]
    BY <1>1 DEF Kept, MonthOf
  <2>1. CASE p \in promised
    <3>1. m \in parts[t]
      BY <1>2, <2>1 DEF Kept
    <3> QED
      BY <1>11, <3>1
  <2>2. CASE p \notin promised
    <3>1. rest = <<>> /\ p = [month |-> old.month, total |-> AtLeastOne(old.ahead)]
      BY <1>9, <2>2
    <3>2. m \in old.month..(old.month + AtLeastOne(old.ahead) - 1)
      BY <3>1
    <3> QED
      BY <1>14, <3>1, <3>2
  <2> QED
    BY <2>1, <2>2
<1>20. Marked' /\ RepeatsOnlyOld'
  BY <1>1, <1>2, <1>13, MarksKept
<1> QED
  BY <1>12, <1>18, <1>19, <1>20 DEF Inv

LEMMA ListStep ==
  ASSUME MaintenanceAssumption, Inv, NEW r \in Runners, List(r)
  PROVE  Inv'
<1>1. UNCHANGED <<today, parts, setting, marks, lock, worker, taken, promised, faults>>
  BY DEF List, database
<1>2. TypeOK /\ Running /\ Kept /\ Marked /\ RepeatsOnlyOld
  BY DEF Inv
<1>3. run[r] \in RunState /\ MonthOf(today) \in Nat /\ today \in Nat /\ least \in Nat
  BY <1>2, Types
<1>4. PICK days, n, s :
        /\ days = run[r].days /\ n = AtLeastOne(days)
        /\ s = [run[r] EXCEPT !.at = "drop", !.old = Expired(days)]
  OBVIOUS
<1>5. days \in Int /\ n \in Nat /\ n >= 1
  BY <1>3, <1>4, AtLeastOneBounds DEF RunState
<1>6. least' = Min({least, n}) /\ run' = [run EXCEPT ![r] = s]
  <2>1. run' = [run EXCEPT ![r].at = "drop", ![r].old = Expired(days)]
    BY <1>4 DEF List
  <2>2. run' = [run EXCEPT ![r] = s]
    BY <1>2, <1>4, <2>1, Types
  <2> QED
    BY <1>4, <2>2 DEF List
<1>7. least' \in 1..(MaxDay + 1) /\ least' <= least /\ least' <= n
  <2>1. least' \in {least, n} /\ least' <= least /\ least' <= n
    BY <1>3, <1>5, <1>6, MinOfTwo
  <2>2. least \in 1..(MaxDay + 1)
    BY <1>2 DEF TypeOK
  <2> QED
    BY <1>5, <2>1, <2>2 DEF MaintenanceAssumption
<1>8. Expired(days) \subseteq Nat
  BY <1>2 DEF Expired, TypeOK, Tables, TableOrder, Months
<1>9. /\ s \in RunState /\ s.at = "drop" /\ s.old = Expired(days) /\ s.days = days
  BY <1>3, <1>4, <1>8 DEF RunState, Months
<1>10. TypeOK'
  <2>1. run' \in [Runners -> RunState]
    BY <1>2, <1>6, <1>9, Types
  <2> QED
    BY <1>1, <1>2, <1>7, <2>1 DEF TypeOK, RunState
<1>11. Onward
  BY <1>1, <1>2, <1>7, <1>10, Types DEF Onward
<1>12. today - n \in Int /\ Cutoff(days) = today - n
  BY <1>3, <1>4, <1>5 DEF Cutoff
<1>13. Dropping(s, today, least')
  <2>1. ASSUME NEW m \in Expired(days)
        PROVE  m < MonthOf(today)
    <3>1. m \in Nat /\ m + 1 <= MonthOf(today - n)
      BY <1>8, <1>12 DEF Expired
    <3>2. MonthOf(today - n) \in Int /\ MonthOf(today - n) <= MonthOf(today)
      BY <1>3, <1>5, <1>12, MonthsInOrder
    <3> QED
      BY <1>3, <3>1, <3>2
  <2>2. ASSUME NEW d \in 0..MaxDay, MonthOf(d) \in Expired(days)
        PROVE  today - d > least'
    <3>1. d \in Int
      BY DEF MaintenanceAssumption
    <3>2. MonthOf(d) \in Nat /\ MonthOf(d) + 1 <= MonthOf(today - n)
      BY <1>8, <1>12, <2>2 DEF Expired
    <3>3. ~ (today - n <= d)
      <4> SUFFICES ASSUME today - n <= d PROVE FALSE
        OBVIOUS
      <4>1. MonthOf(today - n) \in Int /\ MonthOf(today - n) <= MonthOf(d)
        BY <1>12, <3>1, MonthsInOrder
      <4> QED
        BY <3>2, <4>1
    <3>4. least' \in Int
      BY <1>7 DEF MaintenanceAssumption
    <3> QED
      BY <1>3, <1>5, <1>7, <3>1, <3>3, <3>4
  <2> QED
    BY <1>4, <1>7, <1>9, <2>1, <2>2 DEF Dropping
<1>14. Sound(s)'
  BY <1>1, <1>9, <1>13 DEF Sound, Creating
<1>15. Running'
  BY <1>2, <1>6, <1>9, <1>11, <1>14, RunnersKept
<1>16. Kept' /\ Marked' /\ RepeatsOnlyOld'
  BY <1>1, <1>2, <1>11, PromiseKept, MarksKept
<1> QED
  BY <1>10, <1>15, <1>16 DEF Inv

LEMMA DropStep ==
  ASSUME MaintenanceAssumption, Inv, NEW r \in Runners, Drop(r)
  PROVE  Inv'
<1>1. /\ run[r].at = "drop"
      /\ UNCHANGED <<today, setting, lock, worker, taken, promised, least, faults>>
  BY DEF Drop, history
<1>2. TypeOK /\ Running /\ Kept /\ Marked /\ RepeatsOnlyOld
  BY DEF Inv
<1>3. run[r] \in RunState /\ MonthOf(today) \in Nat
  BY <1>2, Types
<1>4. PICK u : u = run[r]
  OBVIOUS
<1>5. u \in RunState /\ u.at = "drop" /\ u.old \subseteq Nat /\ Dropping(u, today, least)
  BY <1>1, <1>2, <1>3, <1>4 DEF Running, Sound, RunState, Months
<1>6. ASSUME NEW s \in RunState, run' = [run EXCEPT ![r] = s],
             s.at \in {"drop", "trim"}, s.days = u.days, s.old \subseteq u.old,
             parts' \in [Tables -> SUBSET Months],
             \A t \in Tables : \A m \in parts[t] : m \in parts'[t] \/ m < MonthOf(today),
             marks' \subseteq marks, \A x \in marks \ marks' : today - x.day > least
      PROVE  Inv'
  <2>1. TypeOK'
    <3>1. run' \in [Runners -> RunState]
      BY <1>2, <1>6, Types
    <3> QED
      BY <1>1, <1>2, <1>6, <3>1 DEF TypeOK, RunState
  <2>2. Onward
    BY <1>1, <1>2, <1>6, <2>1, Types DEF Onward
  <2>3. Dropping(s, today, least)
    BY <1>5, <1>6 DEF Dropping
  <2>4. Sound(s)'
    BY <1>1, <1>6, <2>3 DEF Sound, Creating
  <2>5. Running'
    BY <1>2, <1>6, <2>2, <2>4, RunnersKept
  <2>6. Kept' /\ Marked' /\ RepeatsOnlyOld'
    BY <1>1, <1>2, <1>6, <2>2, PromiseKept, MarksKept
  <2> QED
    BY <2>1, <2>5, <2>6 DEF Inv
<1>7. CASE u.old = {}
  <2>1. PICK s : s = [u EXCEPT !.at = "trim"]
    OBVIOUS
  <2>2. s \in RunState /\ s.at = "trim" /\ s.days = u.days /\ s.old \subseteq u.old
    BY <1>5, <2>1 DEF RunState
  <2>3. run' = [run EXCEPT ![r].at = "trim"] /\ parts' = parts /\ marks' = marks
    BY <1>4, <1>7 DEF Drop
  <2>4. run' = [run EXCEPT ![r] = s]
    BY <1>2, <1>4, <2>1, <2>3, Types
  <2>5. parts' \in [Tables -> SUBSET Months]
    BY <1>2, <2>3 DEF TypeOK
  <2> QED
    BY <1>6, <2>2, <2>3, <2>4, <2>5
<1>8. CASE u.old # {}
  <2>1. PICK m, s : m = Min(u.old) /\ s = [u EXCEPT !.old = @ \ {m}]
    OBVIOUS
  <2>2. m \in u.old
    BY <1>5, <1>8, <2>1, LeastNumber
  <2>3. s \in RunState /\ s.at = "drop" /\ s.days = u.days /\ s.old \subseteq u.old
    BY <1>5, <2>1 DEF RunState
  <2>4. /\ run' = [run EXCEPT ![r].old = @ \ {m}]
        /\ parts' = [parts EXCEPT !["processed_event"] = @ \ {m}]
        /\ marks' = {x \in marks : MonthOf(x.day) # m}
    BY <1>4, <1>8, <2>1 DEF Drop
  <2>5. run' = [run EXCEPT ![r] = s]
    BY <1>2, <1>4, <2>1, <2>4, Types
  <2>6. m < MonthOf(today) /\ \A d \in 0..MaxDay : MonthOf(d) = m => today - d > least
    BY <1>5, <2>2 DEF Dropping
  <2>7. parts' \in [Tables -> SUBSET Months]
        /\ \A t \in Tables : \A k \in parts[t] : k \in parts'[t] \/ k < MonthOf(today)
    <3>1. parts \in [Tables -> SUBSET Months]
      BY <1>2 DEF TypeOK
    <3> QED
      BY <2>4, <2>6, <3>1
  <2>8. marks' \subseteq marks /\ \A x \in marks \ marks' : today - x.day > least
    <3>1. \A x \in marks : x.day \in 0..MaxDay
      BY <1>2 DEF TypeOK
    <3> QED
      BY <2>4, <2>6, <3>1
  <2> QED
    BY <1>6, <2>3, <2>5, <2>7, <2>8
<1> QED
  BY <1>7, <1>8

\* A run that ends, whichever way, has kept the marks it had to.
LEMMA EndEffect ==
  ASSUME MaintenanceAssumption, Inv, NEW r \in Runners, run' = [run EXCEPT ![r] = Off],
         UNCHANGED <<today, parts, setting, worker, taken, promised, least>>,
         lock' = None, faults' \in 0..MaxFaults,
         marks' \subseteq marks, \A x \in marks \ marks' : today - x.day > least
  PROVE  Inv'
<1>1. TypeOK /\ Running /\ Kept /\ Marked /\ RepeatsOnlyOld
  BY DEF Inv
<1>2. PICK s : s = Off
  OBVIOUS
<1>3. s \in RunState /\ Sound(s)'
  BY <1>2, OffEffect DEF Sound
<1>4. TypeOK'
  <2>1. run' \in [Runners -> RunState]
    BY <1>1, <1>2, <1>3, Types
  <2> QED
    BY <1>1, <2>1 DEF TypeOK, RunState
<1>5. Onward
  BY <1>1, <1>4, Types DEF Onward
<1>6. Running'
  BY <1>1, <1>2, <1>3, <1>5, RunnersKept
<1>7. Kept' /\ Marked' /\ RepeatsOnlyOld'
  BY <1>1, <1>5, PromiseKept, MarksKept
<1> QED
  BY <1>4, <1>6, <1>7 DEF Inv

LEMMA TrimStep ==
  ASSUME MaintenanceAssumption, Inv, NEW r \in Runners, Trim(r)
  PROVE  Inv'
<1>1. /\ run[r].at = "trim" /\ marks' = {x \in marks : x.day >= Cutoff(run[r].days)}
      /\ lock' = None /\ run' = [run EXCEPT ![r] = Off]
      /\ UNCHANGED <<today, parts, setting, worker, taken, promised, least, faults>>
  BY DEF Trim, history
<1>2. TypeOK /\ Running
  BY DEF Inv
<1>3. /\ run[r] \in RunState /\ today \in Nat /\ least \in Nat
      /\ Dropping(run[r], today, least)
  BY <1>2, Types DEF Running, Sound
<1>4. PICK n : n = AtLeastOne(run[r].days)
  OBVIOUS
<1>5. n \in Nat /\ least <= n /\ Cutoff(run[r].days) = today - n
  BY <1>1, <1>3, <1>4, AtLeastOneBounds DEF Dropping, RunState, Cutoff
<1>6. ASSUME NEW x \in marks \ marks'
      PROVE  today - x.day > least
  <2>1. x.day \in Nat
    BY <1>2 DEF TypeOK, MaintenanceAssumption
  <2>2. ~ (x.day >= today - n)
    BY <1>1, <1>5
  <2> QED
    BY <1>3, <1>5, <2>1, <2>2
<1>7. marks' \subseteq marks /\ faults' \in 0..MaxFaults
  BY <1>1, <1>2 DEF TypeOK
<1> QED
  BY <1>1, <1>6, <1>7, EndEffect

LEMMA AbortStep ==
  ASSUME MaintenanceAssumption, Inv, NEW r \in Runners, Abort(r)
  PROVE  Inv'
<1>1. /\ faults < MaxFaults /\ faults' = faults + 1 /\ lock' = None
      /\ run' = [run EXCEPT ![r] = Off]
      /\ UNCHANGED <<today, parts, setting, marks, worker, taken, promised, least>>
  BY DEF Abort, history
<1>2. faults' \in 0..MaxFaults
  BY <1>1 DEF Inv, TypeOK, MaintenanceAssumption
<1> QED
  BY <1>1, <1>2, EndEffect

\* A step that leaves the runs, the partitions and the marks alone.
LEMMA ElsewhereStep ==
  ASSUME MaintenanceAssumption, Inv, TypeOK', today <= today',
         UNCHANGED <<parts, marks, run, worker, taken, promised, least>>
  PROVE  Inv'
<1>1. TypeOK /\ Running /\ Kept /\ Marked /\ RepeatsOnlyOld
  BY DEF Inv
<1>2. Onward
  BY <1>1, Types DEF Onward
<1> QED
  BY <1>1, <1>2, RunnersStay, PromiseKept, MarksKept DEF Inv

LEMMA NextDayStep ==
  ASSUME MaintenanceAssumption, Inv, NextDay
  PROVE  Inv'
<1>1. /\ today < MaxDay /\ today' = today + 1
      /\ UNCHANGED <<parts, setting, marks, lock, run, worker, taken, promised, least, faults>>
  BY DEF NextDay, database, history
<1>2. TypeOK /\ today \in Nat
  BY Types DEF Inv
<1>3. TypeOK'
  BY <1>1, <1>2 DEF TypeOK, MaintenanceAssumption
<1> QED
  BY <1>1, <1>2, <1>3, ElsewhereStep

LEMMA StoreStep ==
  ASSUME MaintenanceAssumption, Inv, NEW k \in Keys, NEW value \in Stored[k],
         StoreSetting(k, value)
  PROVE  Inv'
<1>1. /\ setting' = [setting EXCEPT ![k] = value]
      /\ UNCHANGED <<today, parts, marks, lock, run, worker, taken, promised, least, faults>>
  BY DEF StoreSetting, history
<1>2. TypeOK /\ today \in Nat
  BY Types DEF Inv
<1>3. value \in Int \cup {Bad}
  BY DEF MaintenanceAssumption
<1>4. TypeOK'
  BY <1>1, <1>2, <1>3 DEF TypeOK
<1> QED
  BY <1>1, <1>2, <1>4, ElsewhereStep

LEMMA LookStep ==
  ASSUME MaintenanceAssumption, Inv, NEW e \in Events, Look(e)
  PROVE  Inv'
<1>1. /\ worker' = e /\ Unmarked(e)
      /\ UNCHANGED <<today, parts, setting, marks, lock, run, taken, promised, least, faults>>
  BY DEF Look, database, history, Unmarked
<1>2. TypeOK /\ Running /\ Kept /\ Marked /\ RepeatsOnlyOld /\ today \in Nat
  BY Types DEF Inv
<1>3. TypeOK'
  BY <1>1, <1>2 DEF TypeOK
<1>4. Onward
  BY <1>1, <1>2, <1>3, Types DEF Onward
<1>5. Marked'
  BY <1>1, <1>2 DEF Marked, Unmarked, Forgotten, LastTaken
<1>6. RepeatsOnlyOld'
  BY <1>1, <1>2 DEF RepeatsOnlyOld
<1> QED
  BY <1>1, <1>2, <1>3, <1>4, <1>5, <1>6, RunnersStay, PromiseKept DEF Inv

\* An event is taken again only when its mark was old.
LEMMA TakeAgain ==
  ASSUME MaintenanceAssumption, TypeOK, RepeatsOnlyOld, NEW e \in Events, Forgotten(e),
         UNCHANGED <<today, least>>, taken' = [taken EXCEPT ![e] = Append(@, today)]
  PROVE  /\ RepeatsOnlyOld' /\ taken' \in [Events -> Seq(0..MaxDay)]
         /\ taken'[e] # <<>> /\ LastTaken(e)' = today
         /\ \A f \in Events \ {e} : taken'[f] = taken[f]
<1>1. PICK s, n : s = taken[e] /\ n = Len(s)
  OBVIOUS
<1>2. taken \in [Events -> Seq(0..MaxDay)] /\ today \in 0..MaxDay
  BY DEF TypeOK
<1>3. s \in Seq(0..MaxDay)
  BY <1>1, <1>2
<1>4. PICK a : a = Append(s, today)
  OBVIOUS
<1>5. /\ a \in Seq(0..MaxDay) /\ n \in Nat /\ Len(a) = n + 1 /\ a[n + 1] = today
      /\ \A i \in 1..n : a[i] = s[i]
  BY <1>1, <1>2, <1>3, <1>4
<1>6. taken'[e] = a /\ \A f \in Events \ {e} : taken'[f] = taken[f]
  BY <1>1, <1>2, <1>4
<1>7. taken' \in [Events -> Seq(0..MaxDay)]
  BY <1>1, <1>2, <1>4, <1>5
<1>8. a # <<>> /\ LastTaken(e)' = today
  BY <1>5, <1>6 DEF LastTaken
<1>9. ASSUME NEW i \in 1..n
      PROVE  a[i + 1] - a[i] > least
  <2>1. CASE i = n
    <3>1. n > 0
      BY <1>5
    <3>2. taken[e] # <<>>
      BY <1>1, <1>3, <3>1
    <3>3. today - s[n] > least
      BY <1>1, <3>2 DEF Forgotten, LastTaken
    <3> QED
      BY <1>5, <2>1, <3>3
  <2>2. CASE i # n
    <3>1. i \in 1..(n - 1) /\ i + 1 \in 1..n
      BY <1>5, <2>2
    <3>2. s[i + 1] - s[i] > least
      BY <1>1, <3>1 DEF RepeatsOnlyOld
    <3> QED
      BY <1>5, <3>1, <3>2
  <2> QED
    BY <2>1, <2>2
<1>10. RepeatsOnlyOld'
  <2> SUFFICES ASSUME NEW f \in Events, NEW i \in 1..(Len(taken'[f]) - 1)
               PROVE  taken'[f][i + 1] - taken'[f][i] > least
    BY DEF RepeatsOnlyOld
  <2>1. CASE f = e
    <3>1. taken'[f] = a
      BY <1>6, <2>1
    <3>2. i \in 1..n
      BY <1>5, <3>1
    <3> QED
      BY <1>9, <3>1, <3>2
  <2>2. CASE f # e
    <3>1. taken'[f] = taken[f]
      BY <1>6, <2>2
    <3> QED
      BY <3>1 DEF RepeatsOnlyOld
  <2> QED
    BY <2>1, <2>2
<1> QED
  BY <1>6, <1>7, <1>8, <1>10

LEMMA MarkStep ==
  ASSUME MaintenanceAssumption, Inv, Mark
  PROVE  Inv'
<1>1. /\ worker # None /\ worker' = None
      /\ UNCHANGED <<today, parts, setting, lock, run, promised, least, faults>>
  BY DEF Mark
<1>2. TypeOK /\ Running /\ Kept /\ Marked /\ RepeatsOnlyOld /\ today \in Nat
  BY Types DEF Inv
<1>3. PICK e : e = worker
  OBVIOUS
<1>4. e \in Events /\ Unmarked(e) /\ Forgotten(e)
  <2>1. e \in Events
    BY <1>1, <1>2, <1>3 DEF TypeOK
  <2>2. Unmarked(e)
    BY <1>1, <1>2, <1>3 DEF Marked
  <2> QED
    BY <1>2, <2>1, <2>2 DEF Marked
<1>5. CASE MonthOf(today) \in parts["processed_event"]
  <2>1. /\ marks' = marks \cup {[event |-> e, day |-> today]}
        /\ taken' = [taken EXCEPT ![e] = Append(@, today)]
    BY <1>3, <1>5 DEF Mark
  <2>2. /\ RepeatsOnlyOld' /\ taken' \in [Events -> Seq(0..MaxDay)]
        /\ taken'[e] # <<>> /\ LastTaken(e)' = today
        /\ \A f \in Events \ {e} : taken'[f] = taken[f]
    BY <1>1, <1>2, <1>4, <2>1, TakeAgain
  <2>3. marks' \subseteq [event : Events, day : 0..MaxDay]
    BY <1>2, <1>4, <2>1 DEF TypeOK
  <2>4. TypeOK'
    BY <1>1, <1>2, <2>2, <2>3 DEF TypeOK
  <2>5. Onward
    BY <1>1, <1>2, <2>4, Types DEF Onward
  <2>6. ASSUME NEW x \in marks'
        PROVE  taken'[x.event] # <<>> /\ x.day = LastTaken(x.event)'
    <3>1. CASE x \in marks
      <4>1. x.event \in Events \ {e}
        BY <1>2, <1>4, <3>1 DEF TypeOK, Unmarked
      <4>2. taken[x.event] # <<>> /\ x.day = LastTaken(x.event)
        BY <1>2, <3>1 DEF Marked
      <4>3. taken'[x.event] = taken[x.event]
        BY <2>2, <4>1
      <4> QED
        BY <4>2, <4>3 DEF LastTaken
    <3>2. CASE x \notin marks
      <4>1. x.event = e /\ x.day = today
        BY <2>1, <3>2
      <4> QED
        BY <2>2, <4>1 DEF LastTaken
    <3> QED
      BY <3>1, <3>2
  <2>7. ASSUME NEW f \in Events, Unmarked(f)'
        PROVE  Forgotten(f)'
    <3>1. Unmarked(f) /\ f # e
      <4>1. \A x \in marks' : x.event # f
        BY <2>7 DEF Unmarked
      <4>2. PICK x : x = [event |-> e, day |-> today]
        OBVIOUS
      <4>3. x \in marks' /\ x.event = e /\ marks \subseteq marks'
        BY <2>1, <4>2
      <4> QED
        BY <4>1, <4>3 DEF Unmarked
    <3>2. taken'[f] = taken[f]
      BY <2>2, <3>1
    <3> QED
      BY <1>2, <2>5, <3>1, <3>2, StaysForgotten DEF Marked
  <2>8. Marked'
    BY <1>1, <2>6, <2>7 DEF Marked
  <2> QED
    BY <1>1, <1>2, <2>2, <2>4, <2>5, <2>8, RunnersStay, PromiseKept DEF Inv
<1>6. CASE MonthOf(today) \notin parts["processed_event"]
  <2>1. marks' = marks /\ taken' = taken
    BY <1>6 DEF Mark
  <2>2. TypeOK'
    BY <1>1, <1>2, <2>1 DEF TypeOK
  <2>3. Onward
    BY <1>1, <1>2, <2>2, Types DEF Onward
  <2>4. Marked'
    BY <1>1, <1>2, <2>1 DEF Marked, Unmarked, Forgotten, LastTaken
  <2>5. RepeatsOnlyOld'
    BY <1>1, <1>2, <2>1 DEF RepeatsOnlyOld
  <2> QED
    BY <1>1, <1>2, <2>2, <2>3, <2>4, <2>5, RunnersStay, PromiseKept DEF Inv
<1> QED
  BY <1>5, <1>6

(***************************************************************************)
(* The theorems.                                                           *)
(***************************************************************************)
LEMMA InitInv ==
  ASSUME MaintenanceAssumption, Init
  PROVE  Inv
<1>1. DOMAIN <<>> = {} /\ <<>> \in Seq(Months \X Tables) /\ <<>> \in Seq(0..MaxDay)
  OBVIOUS
<1>2. PICK z : z = <<>>
  OBVIOUS
<1>3. z \in Seq(Months \X Tables) /\ z \in Seq(0..MaxDay) /\ Len(z) = 0
  BY <1>1, <1>2
<1>4. PICK s : s = Off
  OBVIOUS
<1>5. s \in RunState /\ s.at = "off" /\ s.old = {}
  <2>1. s = [at |-> "off", ahead |-> 0, days |-> 0, month |-> 0, todo |-> z, old |-> {}]
    BY <1>2, <1>4 DEF Off
  <2> QED
    BY <1>3, <2>1 DEF RunState, Months
<1>6. run = [r \in Runners |-> s] /\ taken = [e \in Events |-> z]
  BY <1>2, <1>4 DEF Init
<1>7. TypeOK
  <2>1. run \in [Runners -> RunState] /\ taken \in [Events -> Seq(0..MaxDay)]
    BY <1>3, <1>5, <1>6
  <2>2. today \in 0..MaxDay /\ least \in 1..(MaxDay + 1) /\ faults \in 0..MaxFaults
    BY DEF Init, MaintenanceAssumption
  <2>3. parts \in [Tables -> SUBSET Months] /\ setting \in [Keys -> Int \cup {Bad, None}]
    BY DEF Init, MaintenanceAssumption
  <2>4. marks \subseteq [event : Events, day : 0..MaxDay] /\ lock \in Runners \cup {None}
        /\ worker \in Events \cup {None} /\ promised \subseteq [month : Months, total : Nat]
    BY DEF Init
  <2> QED
    BY <2>1, <2>2, <2>3, <2>4 DEF TypeOK, RunState
<1>8. Running
  BY <1>5, <1>6 DEF Running, Sound, Creating, Dropping
<1>9. Kept
  BY DEF Init, Kept
<1>10. Marked
  <2>1. \A e \in Events : taken[e] = <<>>
    BY DEF Init
  <2> QED
    BY <2>1 DEF Init, Marked, Unmarked, Forgotten
<1>11. RepeatsOnlyOld
  <2>1. \A e \in Events : taken[e] = z
    BY <1>6
  <2> QED
    BY <1>3, <2>1 DEF RepeatsOnlyOld
<1> QED
  BY <1>7, <1>8, <1>9, <1>10, <1>11 DEF Inv

LEMMA StutterInv ==
  ASSUME MaintenanceAssumption, Inv, UNCHANGED vars
  PROVE  Inv'
<1>1. UNCHANGED <<today, parts, setting, marks, lock, run, worker, taken, promised, least, faults>>
  BY DEF vars, database, history
<1>2. TypeOK' /\ today \in Nat
  BY <1>1, Types DEF Inv, TypeOK
<1> QED
  BY <1>1, <1>2, ElsewhereStep

\* The invariant holds in every state.
LEMMA Invariance == Spec => []Inv
<1>1. Init => Inv
  BY InitInv, MaintenanceAssumption
<1>2. Inv /\ [Next]_vars => Inv'
  <2>1. Inv /\ Next => Inv'
    BY StartStep, ReadStep, CreateStep, ListStep, DropStep, TrimStep, AbortStep, NextDayStep,
       StoreStep, LookStep, MarkStep, MaintenanceAssumption DEF Next, RunStep
  <2> QED
    BY <2>1, StutterInv, MaintenanceAssumption
<1> QED
  BY <1>1, <1>2, PTL DEF Spec

\* Every variable keeps its type, the shortest retention applied stays positive.
THEOREM TypeCorrect == Spec => []TypeOK
<1>1. Inv => TypeOK
  BY DEF Inv
<1> QED
  BY <1>1, Invariance, PTL

\* What a run has created ahead stays open for writing until the last month it
\* was created for is over, whatever later runs drop, whoever cuts them short
\* and whatever is stored in their settings meanwhile (run_maintenance).
THEOREM WritableHolds == Spec => []Writable
<1>1. Inv => Writable
  <2> SUFFICES ASSUME Inv, NEW p \in promised, p.month <= MonthOf(today),
                      MonthOf(today) < p.month + p.total, NEW t \in Tables
               PROVE  MonthOf(today) \in parts[t]
    BY DEF Writable
  <2>1. MonthOf(today) \in Nat /\ p.month \in Nat /\ p.total \in Nat
    BY Types, MaintenanceAssumption DEF Inv, TypeOK, Months
  <2>2. MonthOf(today) \in p.month..(p.month + p.total - 1) /\ ~ (MonthOf(today) < MonthOf(today))
    BY <2>1
  <2> QED
    BY <2>2 DEF Inv, Kept
<1> QED
  BY <1>1, Invariance, PTL

\* An event is taken a second time only after more days than the shortest
\* retention any run has applied (_mark_processed against
\* drop_expired_processed_event_partitions, trim_processed_event_boundary_rows).
THEOREM RepeatsOnlyOldHolds == Spec => []RepeatsOnlyOld
<1>1. Inv => RepeatsOnlyOld
  BY DEF Inv
<1> QED
  BY <1>1, Invariance, PTL
=============================================================================
