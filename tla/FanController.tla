---------------------------- MODULE FanController ----------------------------
(***************************************************************************)
(* components/fan_control/fan_controller.c: two PWM fans behind one mutex. *)
(*                                                                         *)
(* Every call of the API takes the mutex, changes the software state and   *)
(* releases the mutex; the PWM duty is written only AFTER the release      *)
(* (fan_pwm_apply).  An operation is therefore two steps here: the locked  *)
(* part, which leaves a write in pwmPending[t], and ApplyPwm(t, f), which  *)
(* carries it to the LEDC channel.  A task is inside one call at a time,   *)
(* so it starts an operation only when it has no write pending.            *)
(*                                                                         *)
(* The runtime statistics (update_runtime), the thermostat parameters that *)
(* no caller sets and the fault flag that nothing raises are left out.     *)
(***************************************************************************)
EXTENDS Integers

CONSTANTS
    Fan,        \* the fans, FAN_1 and FAN_2
    Task,       \* the tasks that call the controller
    NoWrite     \* "no PWM write pending"

Percent == 0 .. 100

ASSUME FanAssumption == Fan # {} /\ NoWrite \notin Int

VARIABLES
    initialized,    \* s_fan_ctrl.initialized
    pwmReady,       \* s_pwm_ready
    failSafe,       \* s_fan_ctrl.fail_safe_active
    fan,            \* s_fan_ctrl.fans[]: mode, speed and target of each fan
    duty,           \* LEDC duty register of each fan's channel, 0..255
    pwmPending      \* per task and fan, the speed fan_pwm_apply has still to write

fanVars == <<initialized, pwmReady, failSafe, fan, duty, pwmPending>>

FanMode == {"OFF", "MANUAL", "THERMOSTAT", "PID", "FAILSAFE"}

FanRecord == [mode : FanMode, speed : Percent, target : Percent]

FanTypeOK ==
    /\ initialized \in BOOLEAN
    /\ pwmReady \in BOOLEAN
    /\ failSafe \in BOOLEAN
    /\ fan \in [Fan -> FanRecord]
    /\ duty \in [Fan -> 0 .. 255]
    /\ pwmPending \in [Task -> [Fan -> Percent \cup {NoWrite}]]

----------------------------------------------------------------------------

Idle(t) == \A f \in Fan : pwmPending[t][f] = NoWrite

Stopped == [mode |-> "OFF", speed |-> 0, target |-> 0]

\* Fault: a duty range of 256 steps.
DutyOfOneMore(percent) == (percent * 256) \div 100

\* FAN_PWM_MAX_DUTY is 255 and the division is the integer one.
DutyOf(percent) == (percent * 255) \div 100

\* Linear interpolation between temp_min (0 %) and temp_max (100 %).
CalcSpeedFromTemp(temp, tempMin, tempMax) ==
    IF temp <= tempMin THEN 0
    ELSE IF temp >= tempMax THEN 100
    ELSE ((temp - tempMin) * 100) \div (tempMax - tempMin)

\* Power-on: static initialisers, the LEDC channels at duty 0.
FanInit ==
    /\ initialized = FALSE
    /\ pwmReady = FALSE
    /\ failSafe = FALSE
    /\ fan = [f \in Fan |-> Stopped]
    /\ duty = [f \in Fan |-> 0]
    /\ pwmPending = [t \in Task |-> [f \in Fan |-> NoWrite]]

\* fan_controller_init: all fans OFF and fail-safe cleared, then the LEDC timer
\* and channels; when their set-up fails the controller goes on in software only.
InitController ==
    /\ initialized' = TRUE
    /\ failSafe' = FALSE
    /\ fan' = [f \in Fan |-> Stopped]
    /\ pwmReady' \in BOOLEAN
    /\ duty' = IF pwmReady' THEN [f \in Fan |-> 0] ELSE duty
    /\ UNCHANGED pwmPending

\* Fault: the PWM is written only when the speed asked for is a new one.
SetSpeedIfChanged(t, f, percent) ==
    /\ initialized
    /\ Idle(t)
    /\ fan' = [fan EXCEPT ![f] =
                 [mode   |-> IF failSafe THEN @.mode ELSE "MANUAL",
                  speed  |-> IF failSafe THEN 0 ELSE percent,
                  target |-> percent]]
    /\ pwmPending' = IF fan[f].speed = percent THEN pwmPending
                     ELSE [pwmPending EXCEPT ![t][f] = IF failSafe THEN 0 ELSE percent]
    /\ UNCHANGED <<initialized, pwmReady, failSafe, duty>>

\* fan_controller_set_speed, the locked part.
SetSpeed(t, f, percent) ==
    /\ initialized
    /\ Idle(t)
    /\ fan' = [fan EXCEPT ![f] =
                 [mode   |-> IF failSafe THEN @.mode ELSE "MANUAL",
                  speed  |-> IF failSafe THEN 0 ELSE percent,
                  target |-> percent]]
    /\ pwmPending' = [pwmPending EXCEPT ![t][f] = IF failSafe THEN 0 ELSE percent]
    /\ UNCHANGED <<initialized, pwmReady, failSafe, duty>>

\* fan_controller_set_mode: OFF and FAILSAFE also zero the speed and the target.
\* No mode writes the PWM, and FAILSAFE does not raise the fail-safe flag.
SetMode(t, f, mode) ==
    /\ initialized
    /\ Idle(t)
    /\ fan' = [fan EXCEPT ![f] =
                 IF mode \in {"OFF", "FAILSAFE"}
                 THEN [mode |-> mode, speed |-> 0, target |-> 0]
                 ELSE [@ EXCEPT !.mode = mode]]
    /\ UNCHANGED <<initialized, pwmReady, failSafe, duty, pwmPending>>

\* Fault: fail-safe in software only, like set_mode(OFF).
EnterFailsafeNoPwm(t) ==
    /\ initialized
    /\ Idle(t)
    /\ failSafe' = TRUE
    /\ fan' = [f \in Fan |-> [fan[f] EXCEPT !.mode = "FAILSAFE", !.speed = 0]]
    /\ UNCHANGED <<initialized, pwmReady, duty, pwmPending>>

\* fan_controller_enter_failsafe: the target survives, it is what exit restores.
EnterFailsafe(t) ==
    /\ initialized
    /\ Idle(t)
    /\ failSafe' = TRUE
    /\ fan' = [f \in Fan |-> [fan[f] EXCEPT !.mode = "FAILSAFE", !.speed = 0]]
    /\ pwmPending' = [pwmPending EXCEPT ![t] = [f \in Fan |-> 0]]
    /\ UNCHANGED <<initialized, pwmReady, duty>>

\* fan_controller_exit_failsafe: only fans still in mode FAILSAFE get their target
\* back, and the PWM is left as it is: the caller has to set the speed again.
ExitFailsafe(t) ==
    /\ initialized
    /\ Idle(t)
    /\ failSafe' = FALSE
    /\ fan' = [f \in Fan |->
                 IF fan[f].mode = "FAILSAFE"
                 THEN [mode |-> "MANUAL", speed |-> fan[f].target, target |-> fan[f].target]
                 ELSE fan[f]]
    /\ UNCHANGED <<initialized, pwmReady, duty, pwmPending>>

\* fan_pwm_apply, after the mutex is released: nothing is written unless the LEDC
\* channels were set up.
ApplyPwm(t, f) ==
    /\ pwmPending[t][f] # NoWrite
    /\ duty' = IF pwmReady THEN [duty EXCEPT ![f] = DutyOf(pwmPending[t][f])] ELSE duty
    /\ pwmPending' = [pwmPending EXCEPT ![t][f] = NoWrite]
    /\ UNCHANGED <<initialized, pwmReady, failSafe, fan>>

\* A reset of the chip, by the watchdog, esp_restart or the power: RAM and the LEDC
\* peripheral are back at their power-on values.
ResetController ==
    /\ initialized' = FALSE
    /\ pwmReady' = FALSE
    /\ failSafe' = FALSE
    /\ fan' = [f \in Fan |-> Stopped]
    /\ duty' = [f \in Fan |-> 0]
    /\ pwmPending' = [t \in Task |-> [f \in Fan |-> NoWrite]]

----------------------------------------------------------------------------

\* Any sequence of calls, by any of the tasks.
FanNext ==
    \/ ~initialized /\ InitController
    \/ ResetController
    \/ \E t \in Task :
          \/ EnterFailsafe(t)
          \/ ExitFailsafe(t)
          \/ \E f \in Fan :
                \/ ApplyPwm(t, f)
                \/ \E percent \in Percent : SetSpeed(t, f, percent)
                \/ \E mode \in FanMode : SetMode(t, f, mode)

FanSpec == FanInit /\ [][FanNext]_fanVars

----------------------------------------------------------------------------

(* Fail-safe stops every fan, in software and on the wire: while the flag is
   up every speed is 0 and, once the calling task has finished its PWM writes,
   every duty is 0 too.  fan_controller_enter_failsafe promises it
   "immediately"; set_speed, set_mode and a late fan_pwm_apply are what could
   undo it. *)
FailsafeStopsFans ==
    failSafe =>
        /\ \A f \in Fan : fan[f].speed = 0
        /\ (\A t \in Task : Idle(t)) => \A f \in Fan : duty[f] = 0

=============================================================================
