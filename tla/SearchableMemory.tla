--------------------------- MODULE SearchableMemory ---------------------------
(***************************************************************************)
(* What projection and indexing promise together: search shows, for each   *)
(* window, a version of it that was written, and moves from version to     *)
(* version only forwards.  It may skip versions, and it may lag.           *)
(***************************************************************************)
EXTENDS Naturals, Sequences

CONSTANTS
  Keys, Values,
  KeyOf      \* the key a value is a version of

VARIABLES
  history,   \* the versions of all keys, in the order they were written
  shown      \* which of them search shows for a key, 0 for none

InitMemory ==
  /\ history = <<>>
  /\ shown = [k \in Keys |-> 0]

\* A version is written once.
Put(v) ==
  /\ \A i \in DOMAIN history : history[i] # v
  /\ history' = Append(history, v)
  /\ UNCHANGED shown

\* Search catches up with some version newer than the one it shows.
Show(k) ==
  /\ \E n \in DOMAIN history :
       /\ n > shown[k] /\ KeyOf[history[n]] = k
       /\ shown' = [shown EXCEPT ![k] = n]
  /\ UNCHANGED history

PutOrShow ==
  \/ \E v \in Values : Put(v)
  \/ \E k \in Keys : Show(k)

SearchableSpec == InitMemory /\ [][PutOrShow]_<<history, shown>>
==============================================================================
