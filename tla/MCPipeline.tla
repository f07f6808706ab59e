------------------------------ MODULE MCPipeline ------------------------------
(***************************************************************************)
(* Instances of Pipeline for TLC.                                          *)
(***************************************************************************)
EXTENDS Pipeline, TLC

CONSTANTS c1, c2, c3, w1, w2, ca, pa

\* c2 reprocesses the window of c1.
MCWindowOf == (c1 :> w1) @@ (c2 :> w1) @@ (c3 :> w2)
MCChatOf == [w \in Windows |-> ca]
MCStartOf == (w1 :> 1) @@ (w2 :> 2)
MCSenders == [w \in Windows |-> <<pa>>]
\* Tasks, claims and signals do not reach the index.
MCTasks == [c \in Commands |-> <<>>]
MCNone == [c \in Commands |-> 0]

NoFaults == [k \in FaultKinds |-> 0]
OneError == [NoFaults EXCEPT !["error"] = 1]
IxNoFaults == [k \in FaultKinds \cup {"switch"} |-> 0]
IxOneOfEach == [IxNoFaults EXCEPT !["error"] = 1, !["crash"] = 1]
==============================================================================
