--------------------------- MODULE MCTaskExtractor ---------------------------
(***************************************************************************)
(* Instances of TaskExtractor for TLC.                                     *)
(***************************************************************************)
EXTENDS TaskExtractorInvariant, TLC

CONSTANTS e1, e2, e3, e4, x1, x2

\* e1 is a promise; e2 replies to it "done", and asks for something itself;
\* e3 edits e1; e4 deletes both messages.
MCKind == (e1 :> "message") @@ (e2 :> "message") @@ (e3 :> "edited") @@ (e4 :> "deleted")
MCRefs == (e1 :> {x1}) @@ (e2 :> {x2}) @@ (e3 :> {x1}) @@ (e4 :> {x1, x2})
MCReplyTo == [e \in Events |-> IF e = e2 THEN x1 ELSE None]
OneOfEach == [k \in FaultKinds |-> 1]

\* One fault of either kind; the messages in the order they were sent.
OneFault ==
  /\ faults["error"] + faults["crash"] <= 1
  /\ log["message"] # <<>> => log["message"][1] = e1
==============================================================================
