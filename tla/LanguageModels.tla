--------------------------- MODULE LanguageModels ---------------------------
(***************************************************************************)
(* The callers of language models and the clients they call through: the   *)
(* analysis of a window in ai-orchestrator (AnalysisRouter: one provider   *)
(* after the other, a translation, heuristics), and the person briefs of   *)
(* mcp-rest-api, of which several may be under way at once.                *)
(*                                                                         *)
(* A client, one per process and provider, lets a number of requests       *)
(* through at a time and keeps a least interval between their starts.      *)
(* Nothing cancels a caller but the end of its process.                    *)
(*                                                                         *)
(* Of an analysis there is what the checks look at: the messages it cites  *)
(* and whether a text of it reads as mostly Latin.  Claims and tasks are   *)
(* treated alike and are both items.                                       *)
(***************************************************************************)
EXTENDS Naturals, Sequences

CONSTANTS
  Clients,
  Parallel,        \* max_parallel_requests
  Gap,             \* min_request_interval_ms, in ticks
  Providers,       \* the router's clients, in the order they are tried
  Briefs,          \* requests for a person brief
  BriefClient,
  Windows,         \* windows to analyse
  Messages,        \* of a window, in order
  Ids,             \* message ids a provider may cite, its own inventions too
  Hinted,          \* messages of a window that look like a task or a contact
  LatinText,       \* windows whose own text is mostly Latin
  Answers,         \* analyses a provider may answer
  Russian,         \* analysis_output_language is "ru"
  None

Elements(s) == {s[i] : i \in DOMAIN s}
Router == "router"
Callers == Briefs \cup {Router}

Item == [ev : SUBSET Ids, latin : BOOLEAN]
Analysis == [from : Clients \cup {None}, items : SUBSET Item,
             signals : SUBSET SUBSET Ids, latin : BOOLEAN]

ASSUME LanguageModelsAssumption ==
  /\ Parallel \in [Clients -> Nat \ {0}] /\ Gap \in [Clients -> Nat]
  /\ Providers \in Seq(Clients) /\ BriefClient \in Clients \ Elements(Providers)
  /\ Router \notin Briefs
  /\ Messages \in [Windows -> Seq(Ids) \ {<<>>}]
  /\ \A w \in Windows : Hinted[w] \subseteq Elements(Messages[w])
  /\ LatinText \subseteq Windows
  /\ Answers \subseteq [items : SUBSET Item, signals : SUBSET SUBSET Ids, latin : BOOLEAN]
  /\ Russian \in BOOLEAN
  /\ None \notin Clients \cup Windows

VARIABLES
  configured,  \* the clients that are given a key and a model
  client,      \* semaphore, gap lock and clock of each client
  at,          \* where a caller is: idle, waiting for its turn, or asked
  win,         \* the window being analysed
  turn,        \* the provider it is at
  draft,       \* an analysis that is being translated, None if there is none
  delivered,   \* analyses returned to the graph, by window
  brief,       \* provider named in the answer to a brief request
  log          \* history: what became of the requests for a window

router == <<win, turn, draft, delivered, log>>
vars == <<configured, client, at, router, brief>>

TypeOK ==
  /\ configured \subseteq Clients
  /\ client \in [Clients -> [free : Nat, queue : Seq(Callers), line : Seq(Callers),
                             pause : Nat, since : Nat]]
  /\ at \in [Callers -> {"idle", "waiting", "asked"}]
  /\ win \in Windows \cup {None}
  /\ turn \in 0..(Len(Providers) + 1)
  /\ draft \in Analysis \cup {None}
  /\ delivered \in [Windows -> Analysis \cup {None}]
  /\ brief \in [Briefs -> {"none", "asked", "model", "heuristic"}]
  /\ log \subseteq [win : Windows, by : Clients, for : {"analysis", "translation"},
                    out : {"error", "prose", "latin", "russian"}]

\* A client that has not been used may start at once.
Init ==
  /\ configured \in SUBSET Clients
  /\ client = [c \in Clients |-> [free |-> Parallel[c], queue |-> <<>>, line |-> <<>>,
                                  pause |-> 0, since |-> Gap[c]]]
  /\ at = [x \in Callers |-> "idle"]
  /\ win = None /\ turn = 0 /\ draft = None
  /\ delivered = [w \in Windows |-> None]
  /\ brief = [b \in Briefs |-> "none"]
  /\ log = {}

-----------------------------------------------------------------------------
(***************************************************************************)
(* A client: asyncio.Semaphore and asyncio.Lock, both first come first     *)
(* served.  line is the gap lock, its head the holder, pause what is left  *)
(* of the holder's sleep.                                                  *)
(***************************************************************************)

\* Take the gap lock; its holder works out how long to sleep.
Join(c, s, x) ==
  [s EXCEPT !.line = Append(@, x),
            !.pause = IF s.line = <<>> THEN Gap[c] - s.since ELSE @]

Acquire(c, s, x) ==
  IF s.free > 0 /\ s.queue = <<>>
  THEN Join(c, [s EXCEPT !.free = @ - 1], x)
  ELSE [s EXCEPT !.queue = Append(@, x)]

\* Mutant: no finally: a slot is given back only after an answer.
ReleaseAnswered(c, s, out) ==
  IF out = "error" THEN s
  ELSE IF s.queue = <<>> THEN [s EXCEPT !.free = @ + 1]
  ELSE Join(c, [s EXCEPT !.queue = Tail(@)], Head(s.queue))

\* finally: whatever the outcome, the longest waiting caller gets the slot.
Release(c, s, out) ==
  IF s.queue = <<>> THEN [s EXCEPT !.free = @ + 1]
  ELSE Join(c, [s EXCEPT !.queue = Tail(@)], Head(s.queue))

\* Mutant: the next one has worked out its sleep before it got the lock.
LaunchAtOnce(c, s) ==
  [s EXCEPT !.line = Tail(@), !.since = 0, !.pause = 0]

\* The sleep is over: note the start, and let the next one work out its sleep.
Launch(c, s) ==
  [s EXCEPT !.line = Tail(@), !.since = 0, !.pause = Gap[c]]

ClientOf(x) == IF x = Router THEN Providers[turn] ELSE BriefClient

StartRequest(c) ==
  LET s == client[c]
  IN  /\ s.line # <<>> /\ s.pause = 0
      /\ client' = [client EXCEPT ![c] = Launch(c, s)]
      /\ at' = [at EXCEPT ![Head(s.line)] = "asked"]
      /\ UNCHANGED <<configured, router, brief>>

Less(n) == IF n = 0 THEN 0 ELSE n - 1

\* Time passes for all clients; beyond the interval it does not count.
Tick ==
  /\ \E c \in Clients : client[c].since < Gap[c] \/ client[c].pause > 0
  /\ client' = [c \in Clients |->
       [client[c] EXCEPT !.since = IF @ < Gap[c] THEN @ + 1 ELSE @, !.pause = Less(@)]]
  /\ UNCHANGED <<configured, at, router, brief>>

-----------------------------------------------------------------------------
(***************************************************************************)
(* llm.py of ai-orchestrator: what becomes of an answer.                   *)
(***************************************************************************)
Cited(w) == Elements(Messages[w])

HeuristicSignals(w) ==
  {Elements(SubSeq(Messages[w], 1, IF Len(Messages[w]) < 3 THEN Len(Messages[w]) ELSE 3))}

\* Its texts quote the messages.
Heuristic(w) ==
  [from |-> None, items |-> {[ev |-> {m}, latin |-> w \in LatinText] : m \in Hinted[w]},
   signals |-> HeuristicSignals(w), latin |-> w \in LatinText]

\* Mutant: a draft's evidence is checked, that of its translation is taken over.
SanitizedOnce(w, a, c) ==
  [from |-> c,
   items |-> IF draft # None THEN a.items
             ELSE {i \in {[j EXCEPT !.ev = @ \cap Cited(w)] : j \in a.items} : i.ev # {}},
   signals |-> IF a.signals = {} THEN HeuristicSignals(w)
               ELSE {s \cap Cited(w) : s \in a.signals},
   latin |-> a.latin]

\* _sanitize_result.  Scores out of range have been refused by then.
Sanitized(w, a, c) ==
  [from |-> c,
   items |-> {i \in {[j EXCEPT !.ev = @ \cap Cited(w)] : j \in a.items} : i.ev # {}},
   signals |-> IF a.signals = {} THEN HeuristicSignals(w)
               ELSE {s \cap Cited(w) : s \in a.signals},
   latin |-> a.latin]

NeedsTranslation(r) == Russian /\ (r.latin \/ \E i \in r.items : i.latin)

\* complete_text raises, or its text holds JSON that does not parse or validate;
\* it holds no JSON; or it is an analysis.
Outcomes(w, c) ==
  {[out |-> "error", result |-> None], [out |-> "prose", result |-> Heuristic(w)]}
  \cup {[out |-> "answer", result |-> Sanitized(w, a, c)] : a \in Answers}

\* Mutant: an exception ends the loop.
OnlyTurn(t) ==
  LET S == {i \in DOMAIN Providers : Providers[i] \in configured}
  IN  IF S = {} \/ t > 0 THEN Len(Providers) + 1 ELSE CHOOSE i \in S : \A j \in S : i <= j

\* The next provider that is configured.
NextTurn(t) ==
  LET S == {i \in DOMAIN Providers : i > t /\ Providers[i] \in configured}
  IN  IF S = {} THEN Len(Providers) + 1 ELSE CHOOSE i \in S : \A j \in S : i <= j

Deliver(r) ==
  /\ delivered' = [delivered EXCEPT ![win] = r]
  /\ win' = None /\ turn' = 0 /\ draft' = None
  /\ at' = [at EXCEPT ![Router] = "idle"]

\* Ask the provider at t, or fall back when there is none; clients as in cs.
Try(w, t, cs) ==
  IF t \in DOMAIN Providers
  THEN /\ win' = w /\ turn' = t /\ draft' = None
       /\ client' = [cs EXCEPT ![Providers[t]] = Acquire(Providers[t], @, Router)]
       /\ at' = [at EXCEPT ![Router] = "waiting"]
       /\ UNCHANGED delivered
  ELSE /\ delivered' = [delivered EXCEPT ![w] = Heuristic(w)]
       /\ win' = None /\ turn' = 0 /\ draft' = None
       /\ client' = cs
       /\ at' = [at EXCEPT ![Router] = "idle"]

\* The graph is run for one window at a time.
Analyse(w) ==
  /\ win = None /\ delivered[w] = None
  /\ Try(w, NextTurn(0), client)
  /\ UNCHANGED <<configured, brief, log>>

Purpose == IF draft = None THEN "analysis" ELSE "translation"
Reading(o) == IF o.out # "answer" THEN o.out
              ELSE IF NeedsTranslation(o.result) THEN "latin" ELSE "russian"

\* An analysis that reads as Latin is sent to its provider again, and replaces
\* the draft only if that helped; an exception gives the provider up with both.
Answered ==
  /\ at[Router] = "asked"
  /\ \E o \in Outcomes(win, Providers[turn]) :
       LET c == Providers[turn]
           cs == [client EXCEPT ![c] = Release(c, @, o.out)]
       IN  /\ log' = log \cup {[win |-> win, by |-> c, for |-> Purpose, out |-> Reading(o)]}
           /\ \/ /\ o.out = "error"
                 /\ Try(win, NextTurn(turn), cs)
              \/ /\ o.out # "error" /\ draft = None /\ NeedsTranslation(o.result)
                 /\ draft' = o.result
                 /\ client' = [cs EXCEPT ![c] = Acquire(c, @, Router)]
                 /\ at' = [at EXCEPT ![Router] = "waiting"]
                 /\ UNCHANGED <<win, turn, delivered>>
              \/ /\ o.out # "error" /\ draft = None /\ ~NeedsTranslation(o.result)
                 /\ Deliver(o.result) /\ client' = cs
              \/ /\ o.out # "error" /\ draft # None
                 /\ Deliver(IF NeedsTranslation(o.result) THEN draft ELSE o.result)
                 /\ client' = cs
  /\ UNCHANGED <<configured, brief>>

-----------------------------------------------------------------------------
(***************************************************************************)
(* synthesize_person_brief, of a person who is known and not the owner.    *)
(***************************************************************************)
RequestBrief(b) ==
  /\ brief[b] = "none"
  /\ IF BriefClient \in configured
     THEN /\ brief' = [brief EXCEPT ![b] = "asked"]
          /\ at' = [at EXCEPT ![b] = "waiting"]
          /\ client' = [client EXCEPT ![BriefClient] = Acquire(BriefClient, @, b)]
     ELSE /\ brief' = [brief EXCEPT ![b] = "heuristic"]
          /\ UNCHANGED <<at, client>>
  /\ UNCHANGED <<configured, router>>

\* parse_summary_payload takes any text: what is no JSON may come out as markup,
\* or as no summary.
BriefOutcomes == {"error", "prose", "answer"}

\* An exception, and a summary that is empty or still looks like markup, are
\* answered with the heuristic brief and a caveat.
BriefAnswered(b) ==
  /\ at[b] = "asked"
  /\ \E out \in BriefOutcomes :
       /\ client' = [client EXCEPT ![BriefClient] = Release(BriefClient, @, out)]
       /\ brief' = [brief EXCEPT ![b] = IF out = "answer" THEN "model" ELSE "heuristic"]
  /\ at' = [at EXCEPT ![b] = "idle"]
  /\ UNCHANGED <<configured, router>>

Next ==
  \/ Tick
  \/ \E c \in Clients : StartRequest(c)
  \/ \E w \in Windows : Analyse(w)
  \/ Answered
  \/ \E b \in Briefs : RequestBrief(b) \/ BriefAnswered(b)

Spec == Init /\ [][Next]_vars

\* Time passes, sleepers wake, and a request is answered or times out.
Fairness ==
  /\ WF_vars(Tick)
  /\ \A c \in Clients : WF_vars(StartRequest(c))
  /\ WF_vars(Answered)
  /\ \A b \in Briefs : WF_vars(BriefAnswered(b))

FairSpec == Spec /\ Fairness

-----------------------------------------------------------------------------
(***************************************************************************)
(* Properties.                                                             *)
(***************************************************************************)

\* Requests through one client start at least its interval apart, however many
\* callers wait and however many may be under way at once.
Paced ==
  [][\A x \in Callers : at[x] = "waiting" /\ at'[x] = "asked" =>
       client[ClientOf(x)].since = Gap[ClientOf(x)]]_vars

\* evidence-confidence-model.md, rules 1 and 2: every claim and task of an
\* analysis cites messages, and only messages of its own window are cited,
\* whether a provider wrote it, a translation of it, or the heuristics.
Grounded ==
  \A w \in Windows : delivered[w] # None =>
    /\ \A i \in delivered[w].items : i.ev # {} /\ i.ev \subseteq Cited(w)
    /\ \A s \in delivered[w].signals : s \subseteq Cited(w)

Said(w, c, for, out) == [win |-> w, by |-> c, for |-> for, out |-> out] \in log
Failed(w, c) == Said(w, c, "analysis", "error") \/ Said(w, c, "translation", "error")

\* An analysis comes from the best source there was: a provider is passed over
\* only after it failed, the heuristics speak only when every provider failed
\* or one had answered without an analysis, and a Latin analysis is handed on
\* only after its provider could not translate it.
BestSource ==
  \A w \in Windows : delivered[w] # None =>
    LET r == delivered[w]
        prose == \E c \in Clients, for \in {"analysis", "translation"} : Said(w, c, for, "prose")
        mine == {i \in DOMAIN Providers : Providers[i] = r.from}
        before == {i \in DOMAIN Providers : \A j \in mine : i < j}
    IN  /\ r.from # None \/ ~prose =>
             \A i \in before : Providers[i] \in configured => Failed(w, Providers[i])
        /\ r.from # None /\ NeedsTranslation(r) =>
             \E out \in {"latin", "prose"} : Said(w, r.from, "translation", out)

\* Every request for a brief and every analysis ends, whatever fails: no slot is
\* kept by a request that failed, and no caller is overtaken for ever.
EveryCallAnswered ==
  /\ \A b \in Briefs : brief[b] = "asked" ~> brief[b] \in {"model", "heuristic"}
  /\ \A w \in Windows : win = w ~> delivered[w] # None
==============================================================================
