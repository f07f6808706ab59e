--------------------------- MODULE MCOrchestrator ---------------------------
(***************************************************************************)
(* Instances of Orchestrator for TLC.                                      *)
(***************************************************************************)
EXTENDS OrchestratorRefinement, OrchestratorInvariant, TLC, SequencesExt

CONSTANTS m1, m2, m3, m4, ca, cb

\* m1, m2 and m4 belong to one chat; m2 is a second delivery of m1 (same
\* tg_message_id and date); m4 comes a rollover gap later; m3 is in a chat of
\* its own.
MCMessages == {m1, m2, m3, m4}
MCTgId == [m \in Messages |-> IF m = m4 THEN 2 ELSE 1]
MCAt == [m \in Messages |-> CASE m = m3 -> 1 [] m = m4 -> 2 [] OTHER -> 0]
MCChat == [m \in Messages |-> IF m = m3 THEN cb ELSE ca]
MCTarget == [c \in Commands |-> 1]

NoFaults == [k \in FaultKinds |-> 0]
OneCrash == [NoFaults EXCEPT !["crash"] = 1]
OneOfEach == [k \in FaultKinds |-> 1]

\* The orders in which the messages may be published: as sent, with the copy
\* after the message that rolls the window over, and with the last one first.
Orders == {<<m1, m2, m3, m4>>, <<m1, m4, m2, m3>>, <<m4, m1, m3, m2>>}
PublishedInOrder == \E o \in Orders : IsPrefix(stream, o)

\* Of the three faults, one at most has struck once the script has begun.
FewFaults ==
  /\ PublishedInOrder
  /\ (\E b \in Backfills : pc[b] # "off") =>
       FoldFunction(LAMBDA x, y : x + y, 0, faults) <= 1
==============================================================================
