----------------------- MODULE LanguageModelsInvariant -----------------------
(***************************************************************************)
(* The inductive invariant behind the theorems about LanguageModels, in    *)
(* named parts.                                                            *)
(***************************************************************************)
EXTENDS LanguageModels

Distinct(s) == \A i, j \in DOMAIN s : s[i] = s[j] => i = j

Members(s) == Elements(s.queue) \cup Elements(s.line)

\* A caller stands in one place of a client, and the head of the line sleeps
\* for what is left of the interval.
Waits(c, s) ==
  /\ Distinct(s.queue) /\ Distinct(s.line)
  /\ Elements(s.queue) \cap Elements(s.line) = {}
  /\ s.since <= Gap[c]
  /\ s.line # <<>> => s.pause + s.since = Gap[c]

\* A caller waits at its own client only.
Waiting ==
  /\ \A c \in Clients : Waits(c, client[c])
  /\ \A c \in Clients : \A x \in Members(client[c]) : at[x] = "waiting" /\ ClientOf(x) = c

\* Where the router is, and what it holds.
Routing ==
  /\ win = None <=> at[Router] = "idle"
  /\ win = None => turn = 0 /\ draft = None
  /\ win # None => turn \in DOMAIN Providers

\* A brief waits or is asked only between its request and its answer.
Asking == \A b \in Briefs : brief[b] # "asked" => at[b] = "idle"

TypeInv == TypeOK /\ Routing

GroundedIn(w, r) ==
  /\ \A i \in r.items : i.ev # {} /\ i.ev \subseteq Cited(w)
  /\ \A s \in r.signals : s \subseteq Cited(w)

Prose(w) ==
  \E c \in Clients, for \in {"analysis", "translation"} : Said(w, c, for, "prose")

\* Every provider before turn t that is configured has failed.
PassedOver(w, t) ==
  \A i \in DOMAIN Providers : i < t /\ Providers[i] \in configured => Failed(w, Providers[i])

\* The analysis that is being translated, and those that were passed over.
Drafting ==
  /\ draft # None =>
       /\ GroundedIn(win, draft)
       /\ NeedsTranslation(draft)
       /\ IF draft.from = None THEN Prose(win) ELSE draft.from = Providers[turn]
  /\ win # None => PassedOver(win, turn)

Inv ==
  /\ TypeInv
  /\ Waiting
  /\ Asking
  /\ Drafting
  /\ Grounded
  /\ BestSource
==============================================================================
