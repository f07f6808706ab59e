----------------------------- MODULE Maintenance -----------------------------
(***************************************************************************)
(* maintenance: the daily job that creates the monthly partitions of three *)
(* tables ahead of time and forgets old processed_event rows, next to a    *)
(* consumer that relies on those rows to know what it has handled.         *)
(*                                                                         *)
(* A day is a number and a month has MonthDays of them.  No table has a    *)
(* default partition, so a row of a month without one is refused.  Streams *)
(* keep their entries (XADD without MAXLEN), and a backfill reads them     *)
(* from the start again.                                                   *)
(***************************************************************************)
EXTENDS Integers, Sequences, FiniteSets, FiniteSetsExt

CONSTANTS
  Events,          \* entries of a stream, of one consumer
  Runners,         \* processes of the maintenance service
  MonthDays,
  Migrated,        \* months whose partitions the migration created
  Default,         \* settings.py: [ahead |-> ., days |-> .]
  Stored,          \* what an operator may store of either key
  Bad,             \* a stored value that is not an integer
  None,
  MaxDay,          \* bound: the last day
  MaxFaults        \* bound: runs cut short

Keys == {"ahead", "days"}
TableOrder == <<"interaction", "processed_event", "audit_log">>
Tables == {TableOrder[i] : i \in DOMAIN TableOrder}
Months == Nat

ASSUME MaintenanceAssumption ==
  /\ MonthDays \in Nat \ {0}
  /\ Migrated \subseteq Months
  /\ Default \in [Keys -> Int]
  /\ Stored \in [Keys -> SUBSET (Int \cup {Bad})]
  /\ Bad \notin Int /\ None \notin Int \cup {Bad} /\ None \notin Runners
  /\ MaxDay \in Nat /\ MaxFaults \in Nat

VARIABLES
  today,
  parts,         \* months with a partition, by table
  setting,       \* the rows of setting, None if there is none
  marks,         \* processed_event: event and day
  lock,          \* pg_advisory_lock: the runner whose session holds it
  run,           \* where a runner is in run_maintenance, and with what values
  worker,        \* the event the consumer has found unmarked
  taken,         \* history: the days an event was taken
  promised,      \* history: month and number of months of the creations ended
  least,         \* history: the shortest retention a run has applied
  faults

database == <<parts, setting, marks, lock>>
history == <<taken, promised, least>>
vars == <<today, database, run, worker, history, faults>>

Off == [at |-> "off", ahead |-> 0, days |-> 0, month |-> 0, todo |-> <<>>, old |-> {}]

TypeOK ==
  /\ today \in 0..MaxDay
  /\ parts \in [Tables -> SUBSET Months]
  /\ setting \in [Keys -> Int \cup {Bad, None}]
  /\ marks \subseteq [event : Events, day : 0..MaxDay]
  /\ lock \in Runners \cup {None}
  /\ run \in [Runners -> [at : {"off", "read", "create", "list", "drop", "trim"},
                          ahead : Int, days : Int, month : Months,
                          todo : Seq(Months \X Tables), old : SUBSET Months]]
  /\ worker \in Events \cup {None}
  /\ taken \in [Events -> Seq(0..MaxDay)]
  /\ promised \subseteq [month : Months, total : Nat]
  /\ least \in 1..(MaxDay + 1)
  /\ faults \in 0..MaxFaults

Init ==
  /\ today = 0
  /\ parts = [t \in Tables |-> Migrated]
  /\ setting = [k \in Keys |-> None]
  /\ marks = {} /\ lock = None
  /\ run = [r \in Runners |-> Off]
  /\ worker = None
  /\ taken = [e \in Events |-> <<>>] /\ promised = {} /\ least = MaxDay + 1
  /\ faults = 0

-----------------------------------------------------------------------------
(***************************************************************************)
(* partitions.py and the reading of settings.                              *)
(***************************************************************************)
MonthOf(day) == day \div MonthDays
AtLeastOne(n) == Max({1, n})

\* PARTITIONED_TABLES, for each of so many months from the given one on.
Spread(first, months) ==
  [i \in 1..(3 * months) |->
     <<first + ((i - 1) \div 3), TableOrder[((i - 1) % 3) + 1]>>]

\* Mutant: the months to come, the current one being there already.
FutureSpecs(month, ahead) == Spread(month + 1, AtLeastOne(ahead))

\* monthly_partition_specs: the current month is one of them.
Specs(month, ahead) == Spread(month, AtLeastOne(ahead))

\* Mutant: a retention of no days is taken as it is.
CutoffAsStored(days) == today - days

Cutoff(days) == today - AtLeastOne(days)

\* Partitions that end before the month of the cutoff begins.
Expired(days) == {m \in parts["processed_event"] : m + 1 <= MonthOf(Cutoff(days))}

\* get_int_setting.
IntSetting(k, value) == IF value \in Int THEN value ELSE Default[k]

-----------------------------------------------------------------------------
(***************************************************************************)
(* run_maintenance, statement by statement; every statement commits.       *)
(***************************************************************************)

\* A run that does not get the lock ends at once.
Start(r) ==
  /\ run[r].at = "off" /\ lock = None
  /\ lock' = r
  /\ run' = [run EXCEPT ![r].at = "read"]
  /\ UNCHANGED <<today, parts, setting, marks, worker, history, faults>>

\* ensure_runtime_defaults, the two settings, and the months to create.
ReadSettings(r) ==
  LET known == [k \in Keys |-> IF setting[k] = None THEN Default[k] ELSE setting[k]]
      ahead == IntSetting("ahead", known["ahead"])
  IN  /\ run[r].at = "read"
      /\ setting' = known
      /\ run' = [run EXCEPT ![r] =
           [@ EXCEPT !.at = "create", !.ahead = ahead,
                     !.days = IntSetting("days", known["days"]),
                     !.month = MonthOf(today), !.todo = Specs(MonthOf(today), ahead)]]
      /\ UNCHANGED <<today, parts, marks, lock, worker, history, faults>>

\* CREATE TABLE IF NOT EXISTS.
Create(r) ==
  /\ run[r].at = "create"
  /\ LET spec == Head(run[r].todo)
         rest == Tail(run[r].todo)
     IN  /\ parts' = [parts EXCEPT ![spec[2]] = @ \cup {spec[1]}]
         /\ run' = [run EXCEPT ![r].todo = rest, ![r].at = IF rest = <<>> THEN "list" ELSE @]
         /\ promised' = IF rest # <<>> THEN promised ELSE promised \cup
              {[month |-> run[r].month, total |-> AtLeastOne(run[r].ahead)]}
  /\ UNCHANGED <<today, setting, marks, lock, worker, taken, least, faults>>

\* The partitions of processed_event, as the catalog lists them.
List(r) ==
  /\ run[r].at = "list"
  /\ run' = [run EXCEPT ![r].at = "drop", ![r].old = Expired(run[r].days)]
  /\ least' = Min({least, AtLeastOne(run[r].days)})
  /\ UNCHANGED <<today, database, worker, taken, promised, faults>>

\* In the order of their names.
Drop(r) ==
  /\ run[r].at = "drop"
  /\ \/ /\ run[r].old = {}
        /\ run' = [run EXCEPT ![r].at = "trim"]
        /\ UNCHANGED <<parts, marks>>
     \/ /\ run[r].old # {}
        /\ LET m == Min(run[r].old)
           IN  /\ run' = [run EXCEPT ![r].old = @ \ {m}]
               /\ parts' = [parts EXCEPT !["processed_event"] = @ \ {m}]
               /\ marks' = {x \in marks : MonthOf(x.day) # m}
  /\ UNCHANGED <<today, setting, lock, worker, history, faults>>

\* The rows of the boundary month, and the lock.
Trim(r) ==
  /\ run[r].at = "trim"
  /\ marks' = {x \in marks : x.day >= Cutoff(run[r].days)}
  /\ lock' = None
  /\ run' = [run EXCEPT ![r] = Off]
  /\ UNCHANGED <<today, parts, setting, worker, history, faults>>

\* A statement raises, or the process ends: the lock goes with the session.
Abort(r) ==
  /\ run[r].at # "off"
  /\ faults < MaxFaults /\ faults' = faults + 1
  /\ lock' = None
  /\ run' = [run EXCEPT ![r] = Off]
  /\ UNCHANGED <<today, parts, setting, marks, worker, history>>

-----------------------------------------------------------------------------
(***************************************************************************)
(* The world: days pass, an operator stores settings, and a consumer is    *)
(* given events, new ones or old ones by a backfill.                       *)
(***************************************************************************)
NextDay ==
  /\ today < MaxDay
  /\ today' = today + 1
  /\ UNCHANGED <<database, run, worker, history, faults>>

StoreSetting(k, value) ==
  /\ setting[k] # value
  /\ setting' = [setting EXCEPT ![k] = value]
  /\ UNCHANGED <<today, parts, marks, lock, run, worker, history, faults>>

\* _is_processed; a marked event is passed over.
Look(e) ==
  /\ worker = None
  /\ \A x \in marks : x.event # e
  /\ worker' = e
  /\ UNCHANGED <<today, database, run, history, faults>>

\* _mark_processed; refused without a partition, and the event is lost.
Mark ==
  /\ worker # None
  /\ worker' = None
  /\ IF MonthOf(today) \in parts["processed_event"]
     THEN /\ marks' = marks \cup {[event |-> worker, day |-> today]}
          /\ taken' = [taken EXCEPT ![worker] = Append(@, today)]
     ELSE UNCHANGED <<marks, taken>>
  /\ UNCHANGED <<today, parts, setting, lock, run, promised, least, faults>>

RunStep(r) ==
  \/ Start(r) \/ ReadSettings(r) \/ Create(r) \/ List(r) \/ Drop(r) \/ Trim(r) \/ Abort(r)

Next ==
  \/ \E r \in Runners : RunStep(r)
  \/ NextDay
  \/ \E k \in Keys : \E value \in Stored[k] : StoreSetting(k, value)
  \/ \E e \in Events : Look(e)
  \/ Mark

Spec == Init /\ [][Next]_vars

-----------------------------------------------------------------------------
(***************************************************************************)
(* Properties.                                                             *)
(***************************************************************************)

\* A run whose creations ended in month m, looking n months ahead, keeps every
\* table open for writing up to and including month m + n - 1: neither a
\* retention nor a run cut short, nor another setting, takes that back.
Writable ==
  \A p \in promised :
    p.month <= MonthOf(today) /\ MonthOf(today) < p.month + p.total =>
      \A t \in Tables : MonthOf(today) \in parts[t]

\* The consumer takes an event a second time only when its mark was older than
\* the shortest retention any run has applied, whichever way the mark went: with
\* its partition or out of the boundary month.
RepeatsOnlyOld ==
  \A e \in Events : \A i \in 1..(Len(taken[e]) - 1) :
    taken[e][i + 1] - taken[e][i] > least
==============================================================================
