------------------------------ MODULE WindowOps ------------------------------
(***************************************************************************)
(* The pure part of window handling in ai-orchestrator: when a message no  *)
(* longer belongs to the open window (preprocessing.needs_rollover), and   *)
(* what a window becomes before it is analysed (the normalize_window node  *)
(* of graph.py: a stable sort by (occurred_at, tg_message_id), then the    *)
(* first payload of each tg_message_id).                                   *)
(*                                                                         *)
(* A payload is identified by the telegram.message event it was built      *)
(* from: two deliveries of one Telegram message are two payloads that      *)
(* share their TgId.                                                       *)
(***************************************************************************)
EXTENDS Naturals, Sequences

CONSTANTS
  Messages,   \* telegram.message events, one per event_id
  TgId,       \* tg_message_id of a message
  At,         \* occurred_at of a message, in units of the model's clock
  Gap         \* max(60, analysis_time_window_minutes * 60), in the same unit

ASSUME WindowOpsAssumption ==
  /\ TgId \in [Messages -> Nat]
  /\ At \in [Messages -> Nat]
  /\ Gap \in Nat \ {0}

Elements(s) == {s[i] : i \in DOMAIN s}

\* Mutant: the gap itself does not roll the window over.
NeedsRolloverLate(last, new) == At[new] > At[last] + Gap

(***************************************************************************)
(* needs_rollover for the "hybrid" strategy (settings.window_strategy):    *)
(* the gap is signed, so a late message never rolls the window over.       *)
(***************************************************************************)
NeedsRollover(last, new) == At[new] >= At[last] + Gap

\* s[i] is the payload normalize_window keeps of the two, i and j.
Precedes(s, i, j) ==
  \/ At[s[i]] < At[s[j]]
  \/ At[s[i]] = At[s[j]] /\ i <= j

\* The payloads normalize_window keeps of the list s.
Kept(s) ==
  {s[i] : i \in {k \in DOMAIN s :
                   \A j \in DOMAIN s : TgId[s[j]] = TgId[s[k]] => Precedes(s, k, j)}}

Before(m, n) ==
  \/ At[m] < At[n]
  \/ At[m] = At[n] /\ TgId[m] < TgId[n]

(***************************************************************************)
(* The lists normalize_window can return for s: the kept payloads, sorted. *)
(* The TgIds of Kept(s) differ, so there is exactly one.                   *)
(***************************************************************************)
NormalForms(s) ==
  {t \in UNION {[1..n -> Kept(s)] : n \in 0..Len(s)} :
     /\ Elements(t) = Kept(s)
     /\ \A i, j \in DOMAIN t : i < j => Before(t[i], t[j])}
==============================================================================
