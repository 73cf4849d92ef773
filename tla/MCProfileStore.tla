--------------------------- MODULE MCProfileStore ---------------------------
(***************************************************************************)
(* ProfileStore for TLC: a request of each kind, an acceptable and an      *)
(* unacceptable one, and speeds outside 0..100.                            *)
(***************************************************************************)
EXTENDS ProfileStore

MCModeChoice == {"heat_exchanger", "ac_monitor", "sensor_only"}

MCWebRequest ==
    {[method |-> "none", enabled |-> TRUE],
     [enabled |-> TRUE, fanMode |-> "manual", fan1 |-> 120],
     [method |-> "ir"]}

MCModuleMask == {{"ir_remote"}, {"assist_fans", "line_control"}}

WrapRequest == {[enabled |-> TRUE, fanMode |-> "manual", fan1 |-> n] : n \in {0, 100, 101, 255, 300}}

=============================================================================
