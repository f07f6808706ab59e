------------------------ MODULE MaintenanceInvariant ------------------------
(***************************************************************************)
(* The inductive invariant behind the theorems about Maintenance, in named *)
(* parts.                                                                  *)
(***************************************************************************)
EXTENDS Maintenance

\* In the month now, a run s has created, or has still to create, what its
\* settings call for; months that are over do not matter.
Creating(s, now, there) ==
  s.at = "create" =>
    /\ s.todo # <<>>
    /\ \A m \in s.month..(s.month + AtLeastOne(s.ahead) - 1), t \in Tables :
         \/ m < now
         \/ m \in there[t]
         \/ \E i \in DOMAIN s.todo : s.todo[i] = <<m, t>>

\* On the day now, the months it is going to drop are over, and their days past
\* any retention that was applied; so are the days it is going to trim.
Dropping(s, now, shortest) ==
  /\ s.at \in {"drop", "trim"} => shortest <= AtLeastOne(s.days)
  /\ \A m \in s.old : m < MonthOf(now)
  /\ \A d \in 0..MaxDay : MonthOf(d) \in s.old => now - d > shortest

Sound(s) == Creating(s, MonthOf(today), parts) /\ Dropping(s, today, least)

Running == \A r \in Runners : Sound(run[r])

\* What was promised is there from the current month on.
Kept ==
  \A p \in promised, t \in Tables : \A m \in p.month..(p.month + p.total - 1) :
    m < MonthOf(today) \/ m \in parts[t]

LastTaken(e) == taken[e][Len(taken[e])]

\* An event whose mark may be gone.
Forgotten(e) == taken[e] = <<>> \/ today - LastTaken(e) > least

Unmarked(e) == \A x \in marks : x.event # e

\* A mark is of the last time its event was taken, and goes only when it is old.
Marked ==
  /\ \A x \in marks : taken[x.event] # <<>> /\ x.day = LastTaken(x.event)
  /\ \A e \in Events : Unmarked(e) => Forgotten(e)
  /\ worker # None => Unmarked(worker)

Inv ==
  /\ TypeOK
  /\ Running /\ Kept
  /\ Marked
  /\ RepeatsOnlyOld
=============================================================================
