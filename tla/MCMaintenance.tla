---------------------------- MODULE MCMaintenance ----------------------------
(***************************************************************************)
(* An instance of Maintenance for TLC.                                     *)
(***************************************************************************)
EXTENDS MaintenanceInvariant, TLC

CONSTANTS e1, r1, r2

RunnerSymmetry == Permutations(Runners)

MCDefault == [k \in Keys |-> 2]

\* An operator turns either setting below its least value, or spoils it.
MCStored == [k \in Keys |-> IF k = "ahead" THEN {0, Bad} ELSE {0}]

\* The consumer is given the one event twice at most.
TakenTwice == \A e \in Events : Len(taken[e]) <= 2
==============================================================================
