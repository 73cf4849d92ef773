--------------------------- MODULE MCControlLoop ---------------------------
(***************************************************************************)
(* ControlLoop for TLC: readings on both sides of each threshold, one      *)
(* request per kind of change the web API can ask for.                     *)
(***************************************************************************)
EXTENDS ControlLoop

\* 87 % is inside the hysteresis band; at 18 degrees or less a humid AC duct is cold.
MCReading == {[temp |-> 20, rh |-> 50], [temp |-> 18, rh |-> 87], [temp |-> 18, rh |-> 92]}

MCFtxSpeed == {30}

MCModeChoice == Profile

MCRequest == {[enabled |-> FALSE], [enabled |-> TRUE, fanMode |-> "manual", fan1 |-> 80]}

MCCondChoice == {"request_fan_only"}

MCModuleMask == {{"assist_fans"}}

\* The smaller instance of the liveness properties.
LiveReading == {[temp |-> 18, rh |-> 50], [temp |-> 18, rh |-> 92]}
LiveModeChoice == {"heat_exchanger", "mini_ftx", "sensor_only"}
LiveRequest == MCRequest

=============================================================================
