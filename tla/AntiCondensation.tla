--------------------------- MODULE AntiCondensation --------------------------
(***************************************************************************)
(* components/anti_condensation/anti_condensation.c: the humidity alert    *)
(* with hysteresis that SR-010 is built on.  Humidity is in whole percent. *)
(*                                                                         *)
(* The thresholds are constants: nothing in the firmware calls             *)
(* anti_condensation_set_config, nor sets a callback.  The statistics      *)
(* (alert count, time in alert) are kept by the code and read by nothing.  *)
(***************************************************************************)
EXTENDS Integers

CONSTANTS
    RhThreshold,    \* DEFAULT_RH_THRESHOLD, 90
    RhHysteresis    \* DEFAULT_HYSTERESIS, 5

\* What anti_condensation_set_config would accept.
ASSUME CondensationAssumption ==
    /\ RhThreshold \in 0 .. 100
    /\ RhHysteresis \in 0 .. RhThreshold - 1

VARIABLE alertActive    \* s_state.alert_active

CondensationTypeOK == alertActive \in BOOLEAN

CondensationInit == alertActive = FALSE

ClampRh(rh) == IF rh < 0 THEN 0 ELSE IF rh > 100 THEN 100 ELSE rh

\* The alert state after one reading.
AlertAfter(active, rh) ==
    IF active
    THEN ~(ClampRh(rh) <= RhThreshold - RhHysteresis)
    ELSE ClampRh(rh) >= RhThreshold

\* anti_condensation_check
CheckHumidity(rh) == alertActive' = AlertAfter(alertActive, rh)

=============================================================================
