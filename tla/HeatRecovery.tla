---------------------------- MODULE HeatRecovery -----------------------------
(***************************************************************************)
(* components/heat_recovery/src/heat_recovery.c in the control task's tick:*)
(* the frost state machine, the recommended fan speed and its safety caps, *)
(* fed back through fan_controller_get_speed(FAN_1).                       *)
(*                                                                         *)
(* One tick is one step: nothing else writes g_ftx_data.  ControlLoop has  *)
(* the interleaving with the web task.  Temperatures and humidities are    *)
(* whole numbers; the dew-point formula is floating-point and comes with   *)
(* the reading as dewRisk.  Efficiency and power feed the telemetry only;  *)
(* the filter pressure and the air flows never change in this firmware, so *)
(* their cap and their status cannot occur.                                *)
(***************************************************************************)
EXTENDS AntiCondensation

CONSTANTS
    Air,            \* what a tick can find: [outdoor, exhaust, exhaustRh, dewRisk, inRange]
    SupplyRh,       \* humidities of the first valid sensor, the one SR-010 looks at
    OtherSpeed,     \* speeds FAN_1 gets when the Mini-FTX automatic is not in charge
    FrostMinRuntime,\* FTX_FROST_MIN_RUNTIME_MS in seconds
    MaxTick         \* bound: longest time between two ticks, in seconds

AirRecord == [outdoor : Int, exhaust : Int, exhaustRh : Int,
              dewRisk : BOOLEAN, inRange : BOOLEAN]

ASSUME FtxAssumption ==
    /\ Air \subseteq AirRecord
    /\ SupplyRh \subseteq Int
    /\ OtherSpeed \subseteq 0 .. 100
    /\ FrostMinRuntime \in Nat
    /\ MaxTick \in Nat \ {0}

VARIABLES
    air,            \* the temperatures and humidities in g_ftx_data
    ftx,            \* the rest of g_ftx_data
    frostAge,       \* seconds since s_frost_activation_time_us, up to FrostMinRuntime
    auto,           \* the last tick ran the Mini-FTX automatic
    speed           \* fan_controller_get_speed(FAN_1)

ftxVars == <<air, ftx, frostAge, auto, speed, alertActive>>

FrostState == {"idle", "warning", "active"}
Limit == {"none", "frost_risk", "condensation", "high_humidity"}

FtxRecord == [frostState : FrostState, frostActive : BOOLEAN,
              status : {"ok", "frost_active", "sensor_error"}, condRisk : BOOLEAN,
              requested : 0 .. 100, current : 0 .. 100, maxSafe : 0 .. 100, limit : Limit]

FtxTypeOK ==
    /\ CondensationTypeOK
    /\ air \in AirRecord
    /\ ftx \in FtxRecord
    /\ frostAge \in 0 .. FrostMinRuntime
    /\ auto \in BOOLEAN
    /\ speed \in 0 .. 100

----------------------------------------------------------------------------

Abs(n) == IF n < 0 THEN -n ELSE n
Least(a, b) == IF a < b THEN a ELSE b

FrostRisk(a) == a.outdoor < 2 /\ a.exhaustRh > 75
FrostOver(a) == a.outdoor > 4 \/ a.exhaustRh < 70

\* Fault: frost protection ends only in air that is both warm and dry.
FrostNextBoth(state, a, elapsed) ==
    CASE state = "idle"    -> IF FrostRisk(a) THEN "warning" ELSE "idle"
      [] state = "warning" -> IF FrostRisk(a) THEN "active"
                              ELSE IF FrostOver(a) THEN "idle" ELSE "warning"
      [] state = "active"  -> IF elapsed >= FrostMinRuntime /\ a.outdoor > 4 /\ a.exhaustRh < 70
                              THEN "idle" ELSE "active"

\* ftx_check_frost_hysteresis; elapsed is the time since the activation.
FrostNext(state, a, elapsed) ==
    CASE state = "idle"    -> IF FrostRisk(a) THEN "warning" ELSE "idle"
      [] state = "warning" -> IF FrostRisk(a) THEN "active"
                              ELSE IF FrostOver(a) THEN "idle" ELSE "warning"
      [] state = "active"  -> IF elapsed >= FrostMinRuntime /\ FrostOver(a) THEN "idle"
                              ELSE "active"

\* Fault: a boost above full speed.
TargetSpeedBoost(a) ==
    LET diff == Abs(a.exhaust - a.outdoor)
    IN IF diff > 22 THEN 110 ELSE IF diff > 12 THEN 70 ELSE IF diff > 8 THEN 50 ELSE 30

TargetSpeed(a) ==
    LET diff == Abs(a.exhaust - a.outdoor)
    IN IF diff > 22 THEN 90 ELSE IF diff > 12 THEN 70 ELSE IF diff > 8 THEN 50 ELSE 30

\* Fault: straight to the target.
RecommendAtOnce(a, now) == IF Abs(TargetSpeed(a) - now) < 5 THEN now ELSE TargetSpeed(a)

\* Fault: steps wider than the band that stops them.
RecommendCoarse(a, now) ==
    LET step == TargetSpeed(a) - now
    IN IF step > 5 THEN now + 20
       ELSE IF step < -5 THEN now - 20
       ELSE IF Abs(step) < 5 THEN now
       ELSE TargetSpeed(a)

\* ftx_recommend_fan_speed_hysteresis
RecommendSpeed(a, now) ==
    LET step == TargetSpeed(a) - now
    IN IF step > 20 THEN now + 10
       ELSE IF step < -20 THEN now - 10
       ELSE IF Abs(step) < 5 THEN now
       ELSE TargetSpeed(a)

\* Fault: the humidity caps are looked at before the frost cap.
LimitOfSwapped(d, a) ==
    CASE d.condRisk -> "condensation"
      [] ~d.condRisk /\ a.exhaustRh > 90 -> "high_humidity"
      [] ~d.condRisk /\ a.exhaustRh <= 90 /\ d.frostState # "idle" -> "frost_risk"
      [] OTHER -> "none"

\* ftx_calculate_max_safe_speed: the first limit that applies.
LimitOf(d, a) ==
    CASE d.frostState # "idle" -> "frost_risk"
      [] d.frostState = "idle" /\ d.condRisk -> "condensation"
      [] d.frostState = "idle" /\ ~d.condRisk /\ a.exhaustRh > 90 -> "high_humidity"
      [] OTHER -> "none"

CapOf(limit) ==
    CASE limit = "frost_risk" -> 30
      [] limit = "condensation" -> 50
      [] limit = "high_humidity" -> 60
      [] limit = "none" -> 100

SafeSpeed(d, a, wanted) ==
    LET limit == LimitOf(d, a)
    IN [d EXCEPT !.requested = wanted, !.limit = limit, !.maxSafe = CapOf(limit),
                 !.current = Least(wanted, CapOf(limit))]

\* ftx_activate_frost_protection; the action it returns is discarded.
Activate(d) == [d EXCEPT !.frostActive = TRUE, !.status = "frost_active"]

\* Fault: the status is cleared and the flag forgotten.
DeactivateStatusOnly(d) == [d EXCEPT !.status = IF @ = "frost_active" THEN "ok" ELSE @]

\* ftx_deactivate_frost_protection
Deactivate(d) ==
    [d EXCEPT !.frostActive = FALSE, !.status = IF @ = "frost_active" THEN "ok" ELSE @]

\* ftx_update: a value out of range ends it, and the frost state stays.
FtxUpdate(d, a, elapsed) ==
    IF ~a.inRange THEN [d EXCEPT !.status = "sensor_error"]
    ELSE LET state == FrostNext(d.frostState, a, elapsed)
             flagged == CASE state = "active" /\ d.frostState # "active" -> Activate(d)
                          [] state = "idle" /\ d.frostState = "active" -> Deactivate(d)
                          [] OTHER -> d
         IN SafeSpeed([flagged EXCEPT !.frostState = state, !.condRisk = a.dewRisk],
                      a, d.requested)

\* Fault: the activation time is taken when the warning begins.
ActivatesAtWarning(d, a, elapsed) ==
    a.inRange /\ FrostNext(d.frostState, a, elapsed) = "warning" /\ d.frostState = "idle"

\* Where s_frost_activation_time_us is set.
Activates(d, a, elapsed) ==
    a.inRange /\ FrostNext(d.frostState, a, elapsed) = "active" /\ d.frostState # "active"

----------------------------------------------------------------------------

\* g_ftx_data is zeroed at the start.
FtxInit ==
    /\ CondensationInit
    /\ air = [outdoor |-> 0, exhaust |-> 0, exhaustRh |-> 0, dewRisk |-> FALSE, inRange |-> TRUE]
    /\ ftx = [frostState |-> "idle", frostActive |-> FALSE, status |-> "ok", condRisk |-> FALSE,
              requested |-> 0, current |-> 0, maxSafe |-> 0, limit |-> "none"]
    /\ frostAge = 0
    /\ auto = FALSE
    /\ speed = 0

\* What every tick does, in every mode: the sensors, the alert and ftx_update.
Measure(a, elapsed) ==
    /\ air' = a
    /\ frostAge' = IF Activates(ftx, a, elapsed) THEN 0 ELSE Least(elapsed, FrostMinRuntime)
    /\ \E rh \in SupplyRh : CheckHumidity(rh)

\* A tick in Mini-FTX, automatic: the recommendation, its cap, and SR-010's full flow.
\* Coming from another mode, leaving fail-safe may have restored another speed first.
AutoTick(dt) ==
    \E a \in Air, now \in {speed} \cup IF auto THEN {} ELSE OtherSpeed :
        /\ Measure(a, frostAge + dt)
        /\ ftx' = SafeSpeed(FtxUpdate(ftx, a, frostAge + dt), a, RecommendSpeed(a, now))
        /\ speed' = IF alertActive' THEN 100 ELSE ftx'.current
        /\ auto' = TRUE

\* A tick in any other mode: something else sets the fan, ftx_update still runs.
OtherTick(dt) ==
    \E a \in Air :
        /\ Measure(a, frostAge + dt)
        /\ ftx' = FtxUpdate(ftx, a, frostAge + dt)
        /\ speed' \in OtherSpeed
        /\ auto' = FALSE

FtxNext == \E dt \in 1 .. MaxTick : AutoTick(dt) \/ OtherTick(dt)

\* The control task runs for ever; which mode it finds is the user's choice.
FtxSpec == FtxInit /\ [][FtxNext]_ftxVars /\ WF_ftxVars(FtxNext)

----------------------------------------------------------------------------

(* The three copies of "frost protection is on" agree after every tick: the
   flag the telemetry shows, the state machine, and the status, which says so
   only while it is. *)
FrostFlagsAgree ==
    /\ ftx.frostActive <=> ftx.frostState = "active"
    /\ ftx.status = "frost_active" => ftx.frostActive

(* The automatic never drives the fan above the cap of ANY hazard present,
   although ftx_calculate_max_safe_speed stops at the first one it finds;
   only SR-010's full flow may. *)
EveryCapHolds ==
    auto /\ ~alertActive =>
        /\ ftx.frostState # "idle" => speed <= 30
        /\ ftx.condRisk => speed <= 50
        /\ air.exhaustRh > 90 => speed <= 60

(* "Apply hysteresis - don't change too quickly": between two automatic ticks
   without SR-010 the speed moves by at most 20 points, except down onto a cap. *)
SlewIsBounded ==
    [][auto /\ auto' /\ ~alertActive /\ ~alertActive' =>
          \/ Abs(speed' - speed) <= 20
          \/ speed' < speed /\ speed' = ftx'.maxSafe]_ftxVars

\* The next automatic tick in the same air would leave the speed alone.
Settled == Least(RecommendSpeed(air, speed), CapOf(LimitOf(ftx, air))) = speed

(* "Keep current to prevent oscillation": in steady air the automatic finds a
   speed and stays there, whatever speed it took over. *)
SteadyAirSettles ==
    \A a \in Air : <>[](auto /\ ~alertActive /\ air = a) => <>[]Settled

(* Frost protection ends: once the air stays warm or dry, the frost state goes
   back to idle, through the minimum run time and out of the warning too. *)
FrostEnds == <>[](FrostOver(air) /\ air.inRange) => <>[](ftx.frostState = "idle")

=============================================================================
