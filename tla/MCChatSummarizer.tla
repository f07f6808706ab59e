-------------------------- MODULE MCChatSummarizer --------------------------
(***************************************************************************)
(* Instances of ChatSummarizer for TLC.                                    *)
(***************************************************************************)
EXTENDS ChatSummarizer, TLC

CONSTANTS m1, m2, m3, m4, f1

\* Messages of one chat: m2 comes a little after m1, m3 a rollover gap later;
\* m4 is m1 delivered a second time; f1 edits m1.
MCKind == [e \in Events |-> IF e = f1 THEN "edited" ELSE "message"]
MCId == (m1 :> 1) @@ (m2 :> 2) @@ (m3 :> 3) @@ (m4 :> 1) @@ (f1 :> 1)
MCAt == (m1 :> 0) @@ (m2 :> 1) @@ (m3 :> 3) @@ (m4 :> 0) @@ (f1 :> 0)
OneChat == [e \in Events |-> "chat"]
OneOfEach == [k \in FaultKinds |-> 1]

\* Two faults at most; messages are sent in the order m1, m2, m3.
SentInOrder ==
  /\ FaultsSoFar <= 2
  /\ \A i, j \in DOMAIN log["message"] :
       i < j => <<log["message"][i], log["message"][j]>> \notin
                  {<<m2, m1>>, <<m3, m1>>, <<m4, m1>>, <<m3, m2>>}
==============================================================================
