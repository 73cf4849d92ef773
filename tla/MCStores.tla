------------------------------ MODULE MCStores ------------------------------
(***************************************************************************)
(* ProfileStore and LogManager for TLC.  They share no variable: as in     *)
(* MCServices, a behaviour moves in one of the two and leaves the other as *)
(* it began.                                                               *)
(***************************************************************************)
EXTENDS TLC, MCProfileStore, LogManager

\* Everything is written to the log, on a device with its partition.
MCConfigChoice == {[minWarn |-> FALSE, nvs |-> TRUE]}

\* No task is named anywhere.
MCSymmetry == Permutations(Task)

VARIABLE part

allVars == <<storeVars, logVars, part>>

MCInit == StoreInit /\ LogInit /\ part \in {"profile", "log"}

MCNext ==
    \/ part = "profile" /\ StoreNext /\ UNCHANGED <<logVars, part>>
    \/ part = "log" /\ LogNext /\ UNCHANGED <<storeVars, part>>

MCSpec == MCInit /\ [][MCNext]_allVars

=============================================================================
