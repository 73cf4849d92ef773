--------------------------- MODULE MCHeatRecovery ---------------------------
(***************************************************************************)
(* HeatRecovery for TLC, with the history of FrostRuntime.                 *)
(***************************************************************************)
EXTENDS FrostRuntime

(* The comment in ftx_activate_frost_protection, "Severe cold - stop fans to
   prevent ice formation": below -5 degrees the automatic stands still while
   frost protection is active. *)
FrostPausesFans ==
    auto /\ ~alertActive /\ ftx.frostActive /\ air.outdoor < -5 => speed = 0

AirOf(outdoor, exhaust, exhaustRh, dewRisk) ==
    [outdoor |-> outdoor, exhaust |-> exhaust, exhaustRh |-> exhaustRh,
     dewRisk |-> dewRisk, inRange |-> TRUE]

\* Both sides of each threshold, the frost hysteresis band, every target speed and
\* every cap, and a value out of range.
MCAir ==
    {AirOf(-6, 20, 80, TRUE), AirOf(3, 20, 72, TRUE), AirOf(10, 20, 20, FALSE),
     AirOf(20, 22, 50, FALSE), AirOf(17, 40, 20, FALSE), AirOf(35, 20, 95, FALSE),
     [AirOf(20, 101, 50, FALSE) EXCEPT !.inRange = FALSE]}

=============================================================================
