-------------------------- MODULE MCLanguageModels --------------------------
(***************************************************************************)
(* An instance of LanguageModels for TLC.                                  *)
(***************************************************************************)
EXTENDS LanguageModelsInvariant, TLC

CONSTANTS wormsoft, polza, api, b1, b2, b3, b4, w1, w2, m1, m2, alien

MCParallel == (api :> 2) @@ [c \in Clients |-> 1]
MCGap == [c \in Clients |-> 2]
MCProviders == <<wormsoft, polza>>

\* The text of w2 is Latin: even its heuristics call for a translation.
MCMessages == [w \in Windows |-> IF w = w1 THEN <<m1, m2>> ELSE <<m2>>]
MCHinted == [w \in Windows |-> IF w = w1 THEN {m1} ELSE {m2}]

\* An analysis in Russian of which a part is invented, one with a Latin text, one
\* with a Latin claim about a message that does not exist, and one that mixes
\* real and invented evidence.
MCAnswers ==
  {[items |-> {[ev |-> {m2}, latin |-> FALSE], [ev |-> {alien}, latin |-> FALSE]},
    signals |-> {{m1, alien}}, latin |-> FALSE],
   [items |-> {[ev |-> {m1}, latin |-> FALSE]}, signals |-> {}, latin |-> TRUE],
   [items |-> {[ev |-> {alien}, latin |-> TRUE]}, signals |-> {}, latin |-> FALSE],
   [items |-> {[ev |-> {m2, alien}, latin |-> TRUE]}, signals |-> {{}}, latin |-> FALSE]}

\* The router and the briefs are in different processes and share no client:
\* a behaviour has analyses or it has briefs.
Apart ==
  \/ \A b \in Briefs : brief[b] = "none"
  \/ win = None /\ \A w \in Windows : delivered[w] = None
==============================================================================
