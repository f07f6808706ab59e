------------------------- MODULE MCEmbeddingIndexer -------------------------
(***************************************************************************)
(* Instances of EmbeddingIndexer for TLC.                                  *)
(***************************************************************************)
EXTENDS EmbeddingIndexerInvariant, TLC

CONSTANTS j1, j2, j3, p1, p2, ma, mc

\* j2 reprocesses the window of j1.
MCPointOf == (j1 :> p1) @@ (j2 :> p1) @@ (j3 :> p2)
OneModel == [j \in Jobs |-> ma]
\* The vectors of the two models differ in length.
MCDim == [m \in Models |-> IF m = mc THEN 2 ELSE 1]

OneOfEach == [k \in FaultKinds |-> 1]
==============================================================================
