----------------------- MODULE OrchestratorRefinement -----------------------
(***************************************************************************)
(* Orchestrator, without faults and without an overlapping backfill,       *)
(* implements Batcher.                                                     *)
(***************************************************************************)
EXTENDS Orchestrator

\* The projection command is the moment a window counts as analysed; the list
\* it was read from is deleted a step later.
Stage(m) ==
  CASE WindowsOf(m) # {} -> "analysed"
    [] m \in Stored(Chat[m]) /\ WindowsOf(m) = {} -> "open"
    [] InHand(m) /\ m \notin Stored(Chat[m]) /\ WindowsOf(m) = {} -> "accepted"
    [] OTHER -> "new"

Abstract == INSTANCE Batcher
  WITH Message <- Messages, Group <- Chat, Size <- WindowSize,
       stage <- [m \in Messages |-> Stage(m)]

\* The consumer's steps are steps of Batcher: a message is accepted, joins its
\* chat's window and is analysed with all of it, once, in that order.
ImplementsBatcher == Abstract!Spec
==============================================================================
