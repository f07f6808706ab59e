-------------------------- MODULE MCMemoryProjector --------------------------
(***************************************************************************)
(* Instances of MemoryProjector for TLC.                                   *)
(***************************************************************************)
EXTENDS MemoryProjectorInvariant, TLC

CONSTANTS c1, c2, c3, w1, w2, ca, pa, pb, m1, m2

\* c2 reprocesses the window of c1; the window of c3 is another one of the same
\* chat that starts at the same moment, as an overlapping backfill makes them.
MCWindowOf == (c1 :> w1) @@ (c2 :> w1) @@ (c3 :> w2)
MCChatOf == (w1 :> ca) @@ (w2 :> ca)
MCStartOf == (w1 :> 1) @@ (w2 :> 1)
MCSenders == (w1 :> <<pa, pb>>) @@ (w2 :> <<pb>>)

\* c1 has two tasks that rest on one message.
MCTasks == (c1 :> <<m1, m1>>) @@ (c2 :> <<m2>>) @@ (c3 :> <<m1>>)
MCClaims == (c1 :> 2) @@ (c2 :> 1) @@ (c3 :> 0)
MCSignals == (c1 :> 0) @@ (c2 :> 1) @@ (c3 :> 1)

OneOfEach == [k \in FaultKinds |-> 1]

\* Of the commands that can be put on the stream twice, one is; c2 is sent after
\* the c1 it reprocesses; and the admin closes at most one task.
OneRepeat ==
  /\ Len(stream) <= Cardinality(Commands) + 1
  /\ \A i \in DOMAIN stream : stream[i] = c2 => \E k \in 1..i : stream[k] = c1
  /\ Cardinality({t \in DOMAIN tasks : tasks[t].status # "open"}) <= 1
  /\ \A t \in DOMAIN tasks : tasks[t].status # "dropped"
==============================================================================
