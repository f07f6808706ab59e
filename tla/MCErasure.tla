------------------------------ MODULE MCErasure ------------------------------
(***************************************************************************)
(* Instances of Erasure for TLC.                                           *)
(***************************************************************************)
EXTENDS ErasureInvariant, TLC

CONSTANTS o, p, w1, w2, k1, j1, j2

\* The owner opens w1, the person opens w2; both windows start with the same
\* message and share one interaction row.
MCSenders == (w1 :> <<o, p>>) @@ (w2 :> <<p>>)
OneKey == [w \in Windows |-> k1]
OneOfEach == [k \in FaultKinds |-> 1]
NoErrors == [k \in FaultKinds |-> IF k = "restart" THEN 1 ELSE 0]

\* One fault of either kind; nothing is sent again but w1.
OneFault ==
  /\ faults["error"] + faults["restart"] <= 1
  /\ sent[w2] <= 1
==============================================================================
