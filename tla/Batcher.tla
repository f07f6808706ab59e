------------------------------- MODULE Batcher -------------------------------
(***************************************************************************)
(* What the orchestrator promises of the messages it handles: each is      *)
(* accepted once, joins its chat's open batch, and leaves it only when the *)
(* whole batch is analysed.  A batch never holds more than Size messages.  *)
(* Nothing is lost, nothing is analysed twice.                             *)
(***************************************************************************)
EXTENDS Naturals, FiniteSets

CONSTANTS
  Message,
  Group,   \* [Message -> the batch it belongs to]
  Size

VARIABLE stage  \* [Message -> where the message stands]

Batch(g) == {m \in Message : Group[m] = g /\ stage[m] = "open"}

Init == stage = [m \in Message |-> "new"]

Accept(m) ==
  /\ stage[m] = "new"
  /\ stage' = [stage EXCEPT ![m] = "accepted"]

Join(m) ==
  /\ stage[m] = "accepted"
  /\ Cardinality(Batch(Group[m])) < Size
  /\ stage' = [stage EXCEPT ![m] = "open"]

Close(g) ==
  /\ Batch(g) # {}
  /\ stage' = [m \in Message |-> IF m \in Batch(g) THEN "analysed" ELSE stage[m]]

Next == \E m \in Message : Accept(m) \/ Join(m) \/ Close(Group[m])

Spec == Init /\ [][Next]_stage
==============================================================================
