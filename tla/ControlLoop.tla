----------------------------- MODULE ControlLoop -----------------------------
(***************************************************************************)
(* main/main.c: the control task, once a second, against the web server's  *)
(* task, which changes the application mode and the control settings with  *)
(* no lock (device_profile.c has none).                                    *)
(*                                                                         *)
(* One tick of control_task is a walk of pc:                               *)
(*                                                                         *)
(*   sense -> copy -> caps -> mode -> active -> decide                     *)
(*         -> mode1 -> speed1 -> mode2 -> speed2 -> sense                  *)
(*                                                                         *)
(* copy, caps, mode, active and decide are the unlocked reads              *)
(* apply_fan_policy makes of device_profile; the web task can run between  *)
(* any two.  A web request changes s_profile first and the fields of       *)
(* s_control after it: `writing' holds the record that is being stored,    *)
(* and whoever reads s_control meanwhile sees each field old or new.       *)
(*                                                                         *)
(* Only the control task drives the fans, so Task of FanController is one  *)
(* task here.  The recommendation of the Mini-FTX automatic is abstracted  *)
(* to "any of FtxSpeed"; HeatRecovery says what it is.                     *)
(***************************************************************************)
EXTENDS FanController, AntiCondensation, DeviceProfile

CONSTANTS
    Fan1, Fan2,     \* FAN_1 and FAN_2
    ControlTask,    \* the task that runs control_task
    Reading,        \* first valid sensor of a read: [temp, rh]
    NoReading,      \* a read in which no sensor is valid
    FtxSpeed,       \* speeds the heat-recovery recommendation can take
    ModeChoice,     \* application modes the web API asks for
    Request,        \* control requests of the web API: functions on field names
    ModuleMask,     \* sets of AC modules the web API asks for
    CondChoice,     \* condensation actions the web API asks for
    MaxRequests,    \* bound: web requests that start during one tick
    NoControl       \* no control record copied, none being stored

ASSUME LoopAssumption ==
    /\ Fan = {Fan1, Fan2} /\ Fan1 # Fan2
    /\ Task = {ControlTask}
    /\ Reading \subseteq [temp : Int, rh : Int]
    /\ FtxSpeed \subseteq Percent
    /\ \A req \in Request : RequestOK(req)
    /\ ModeChoice \subseteq Profile
    /\ ModuleMask \subseteq SUBSET AcModule
    /\ CondChoice \subseteq CondAction
    /\ MaxRequests \in Nat \ {0}
    /\ NoControl \notin Control

VARIABLES
    fansDetected,   \* g_hw_status.detected[FAN_1] and [FAN_2]: detect_fans sets both or none
    profile,        \* s_profile
    control,        \* s_control
    writing,        \* the record a web handler is storing into s_control, or NoControl:
                    \* [ctrl, from: the profile before, passing: fan modes stored on the way]
    requests,       \* web requests started since the tick began
    pc,             \* where control_task is
    temp, rh,       \* its temp_c and rh_percent: the last valid reading
    tick            \* its locals: what it uses of s_control, cap, mode, the profile that
                    \* is_control_active reads, fan1 and fan2

profileVars == <<profile, control, writing, requests>>
vars == <<fanVars, alertActive, fansDetected, profileVars, pc, temp, rh, tick>>

\* The fields of s_control that apply_fan_policy uses of its copy.
PolicyInput == [fanMode : FanRunMode, fan1 : Percent, fan2 : Percent,
                acModules : SUBSET AcModule, acCond : CondAction]

NoTick == [ctrl |-> NoControl, cap |-> "none", mode |-> "none", activeIn |-> "none",
           speed1 |-> 0, speed2 |-> 0]

----------------------------------------------------------------------------
\* apply_fan_policy

Max2(a, b) == IF a > b THEN a ELSE b
Min2(a, b) == IF a < b THEN a ELSE b

\* What a tick does with the fail-safe flag, and the two speeds it asks for.
Outcome(failsafe, s1, s2) == [failsafe |-> failsafe, speed1 |-> s1, speed2 |-> s2]
Rest == Outcome("keep", 0, 0)

AcAssist(mode, ctrl) == mode = "ac_monitor" /\ "assist_fans" \in ctrl.acModules

\* The early returns: no fan is to be driven.
Disengaged(mode, ctrl, cap, active) ==
    \/ ~(active /\ PwmControl(cap)) /\ ~AcAssist(mode, ctrl)
    \/ mode = "sensor_only"
    \/ mode = "ac_monitor" /\ ~AcAssist(mode, ctrl)
    \/ ~fansDetected
    \/ ctrl.fanMode = "off" /\ mode # "ac_monitor"

\* Cold-side condensation risk of a portable AC.
AcHighCondensation ==
    \/ rh >= 85 /\ temp <= 16
    \/ rh >= 70 /\ temp <= 18 /\ alertActive

AcAutoSpeed == IF rh > 60 THEN Min2(70, 20 + ((rh - 60) * 3) \div 2) ELSE 20

AcPolicy(ctrl) ==
    LET base1 == IF ctrl.fanMode = "manual" THEN ctrl.fan1 ELSE AcAutoSpeed
        base2 == IF ctrl.fanMode = "manual" THEN ctrl.fan2 ELSE AcAutoSpeed
    IN CASE ctrl.fanMode = "off" -> Outcome("exit", 0, 0)
         [] ctrl.fanMode # "off" /\ AcHighCondensation /\ ctrl.acCond = "boost_assist"
              -> Outcome("exit", Max2(base1, 85), Max2(base2, 85))
         [] ctrl.fanMode # "off" /\ AcHighCondensation /\ ctrl.acCond = "request_fan_only"
              -> Outcome("exit", Max2(base1, 60), Max2(base1, 60))
         [] OTHER -> Outcome("exit", base1, base2)

\* Fault: the user's manual speed overrules the humidity alert.
ManualPolicyNoAlert(mode, ctrl, cap) ==
    Outcome("exit", ctrl.fan1, IF DualFanIndependent(cap) THEN ctrl.fan2 ELSE ctrl.fan1)

\* Fault: each fan its own speed, in every mode.
ManualPolicyTwoFans(mode, ctrl, cap) ==
    CASE mode = "heat_exchanger" /\ alertActive -> Outcome("enter", 0, 0)
      [] mode = "mini_ftx" /\ alertActive -> Outcome("exit", 100, 100)
      [] OTHER -> Outcome("exit", ctrl.fan1, ctrl.fan2)

ManualPolicy(mode, ctrl, cap) ==
    CASE mode = "heat_exchanger" /\ alertActive -> Outcome("enter", 0, 0)
      [] mode = "mini_ftx" /\ alertActive -> Outcome("exit", 100, 100)
      [] OTHER -> Outcome("exit", ctrl.fan1,
                          IF DualFanIndependent(cap) THEN ctrl.fan2 ELSE ctrl.fan1)

\* The heat exchanger's curve from SIM_MIN_TEMP_C to SIM_MAX_TEMP_C, kept in 10..60.
ExchangerAutoSpeed == Clamp(CalcSpeedFromTemp(temp, 15, 25), 10, 60)

\* Fault: only the manual branch leaves fail-safe.
AutoPolicyKeeps(mode) ==
    IF mode = "heat_exchanger"
    THEN IF alertActive THEN {Outcome("enter", 0, 0)}
         ELSE {Outcome("keep", ExchangerAutoSpeed, ExchangerAutoSpeed)}
    ELSE IF alertActive THEN {Outcome("keep", 100, 100)}
         ELSE {Outcome("keep", s, s) : s \in FtxSpeed}

\* A set: the Mini-FTX recommendation is abstract.
AutoPolicy(mode) ==
    IF mode = "heat_exchanger"
    THEN IF alertActive THEN {Outcome("enter", 0, 0)}
         ELSE {Outcome("exit", ExchangerAutoSpeed, ExchangerAutoSpeed)}
    ELSE IF alertActive THEN {Outcome("exit", 100, 100)}
         ELSE {Outcome("exit", s, s) : s \in FtxSpeed}

ApplyFanPolicy(mode, ctrl, cap, active) ==
    CASE Disengaged(mode, ctrl, cap, active) -> {Rest}
      [] ~Disengaged(mode, ctrl, cap, active) /\ AcAssist(mode, ctrl) -> {AcPolicy(ctrl)}
      [] ~Disengaged(mode, ctrl, cap, active) /\ ~AcAssist(mode, ctrl)
           /\ ctrl.fanMode = "manual" -> {ManualPolicy(mode, ctrl, cap)}
      [] OTHER -> AutoPolicy(mode)

----------------------------------------------------------------------------
\* Power-on, before app_main; the NVS is empty, so profile and control are defaults.
Init ==
    /\ FanInit
    /\ CondensationInit
    /\ fansDetected \in BOOLEAN
    /\ profile = DefaultProfile
    /\ control = ProfileDefaults(DefaultProfile, StaticControl)
    /\ writing = NoControl
    /\ requests = 0
    /\ pc = "boot"
    /\ temp = 20
    /\ rh = 50
    /\ tick = NoTick

\* app_main: the fan controller is set up when detect_fans found the fans; then
\* control_task starts with its own idea of temperature and humidity.
Boot ==
    /\ pc = "boot"
    /\ IF fansDetected THEN InitController ELSE UNCHANGED fanVars
    /\ pc' = "sense"
    /\ UNCHANGED <<alertActive, fansDetected, profileVars, temp, rh, tick>>

\* A tick begins: the first valid sensor, or none and the last values stay; the
\* humidity check follows in the same task.
TakeReading(r) ==
    /\ pc = "sense"
    /\ Idle(ControlTask)
    /\ temp' = IF r = NoReading THEN temp ELSE r.temp
    /\ rh' = IF r = NoReading THEN rh ELSE r.rh
    /\ CheckHumidity(rh')
    /\ pc' = "copy"
    /\ tick' = NoTick
    /\ requests' = 0
    /\ UNCHANGED <<fanVars, fansDetected, profile, control, writing>>

Sense == \E r \in Reading \cup {NoReading} : TakeReading(r)

\* What an unlocked read of s_control can see: each field as it was, as it is being
\* stored, or on its way.
Storing == IF writing = NoControl THEN control ELSE writing.ctrl
PassingModes == IF writing = NoControl THEN {} ELSE writing.passing

\* device_profile_get_control: a structure assignment, field by field.
CopyControl ==
    /\ pc = "copy"
    /\ \E fanMode \in {control.fanMode, Storing.fanMode} \cup PassingModes,
          fan1 \in {control.fan1, Storing.fan1}, fan2 \in {control.fan2, Storing.fan2},
          modules \in {control.acModules, Storing.acModules},
          cond \in {control.acCond, Storing.acCond} :
          tick' = [tick EXCEPT !.ctrl = [fanMode |-> fanMode, fan1 |-> fan1, fan2 |-> fan2,
                                         acModules |-> modules, acCond |-> cond]]
    /\ pc' = "caps"
    /\ UNCHANGED <<fanVars, alertActive, fansDetected, profileVars, temp, rh>>

\* device_profile_get_active_capabilities
ReadCaps ==
    /\ pc = "caps"
    /\ tick' = [tick EXCEPT !.cap = profile]
    /\ pc' = "mode"
    /\ UNCHANGED <<fanVars, alertActive, fansDetected, profileVars, temp, rh>>

\* device_profile_get
ReadMode ==
    /\ pc = "mode"
    /\ tick' = [tick EXCEPT !.mode = profile]
    /\ pc' = "active"
    /\ UNCHANGED <<fanVars, alertActive, fansDetected, profileVars, temp, rh>>

\* device_profile_is_control_active, its reads of s_profile: a change between two of
\* them has the effect of the old value or of the new one.
ReadActiveProfile ==
    /\ pc = "active"
    /\ tick' = [tick EXCEPT !.activeIn = profile]
    /\ pc' = "decide"
    /\ UNCHANGED <<fanVars, alertActive, fansDetected, profileVars, temp, rh>>

\* The rest of apply_fan_policy: the read of control_enabled or ac_modules, the
\* fail-safe call and the two speeds.
Decide ==
    /\ pc = "decide"
    /\ \E enabled \in {control.enabled, Storing.enabled},
          modules \in {control.acModules, Storing.acModules} :
       \E o \in ApplyFanPolicy(tick.mode, tick.ctrl, tick.cap,
                               ControlActive(tick.activeIn, enabled, modules)) :
          /\ CASE o.failsafe = "enter" -> EnterFailsafe(ControlTask)
               [] o.failsafe = "exit"  -> ExitFailsafe(ControlTask)
               [] o.failsafe = "keep"  -> UNCHANGED fanVars
          /\ tick' = [NoTick EXCEPT !.mode = tick.mode, !.speed1 = o.speed1, !.speed2 = o.speed2]
    /\ pc' = "mode1"
    /\ UNCHANGED <<alertActive, fansDetected, profileVars, temp, rh>>

\* Fault: a mode without fans is not driven at all.
DrivesWithFans == fansDetected /\ ~failSafe /\ tick.mode # "sensor_only"

\* Back in control_task: each fan is driven unless fail-safe is up.
Drives == fansDetected /\ ~failSafe

DriveMode(f, at, next) ==
    /\ pc = at
    /\ Idle(ControlTask)
    /\ IF Drives THEN SetMode(ControlTask, f, "MANUAL") ELSE UNCHANGED fanVars
    /\ pc' = next
    /\ UNCHANGED <<alertActive, fansDetected, profileVars, temp, rh, tick>>

DriveSpeed(f, percent, at, next) ==
    /\ pc = at
    /\ Idle(ControlTask)
    /\ IF Drives THEN SetSpeed(ControlTask, f, percent) ELSE UNCHANGED fanVars
    /\ pc' = next
    /\ UNCHANGED <<alertActive, fansDetected, profileVars, temp, rh, tick>>

Drive ==
    \/ DriveMode(Fan1, "mode1", "speed1")
    \/ DriveSpeed(Fan1, tick.speed1, "speed1", "mode2")
    \/ DriveMode(Fan2, "mode2", "speed2")
    \/ DriveSpeed(Fan2, tick.speed2, "speed2", "sense")

\* The part of fan_controller calls after the mutex.
FinishPwm ==
    /\ \E f \in Fan : ApplyPwm(ControlTask, f)
    /\ UNCHANGED <<alertActive, fansDetected, profileVars, pc, temp, rh, tick>>

ControlStep ==
    \/ Boot \/ Sense \/ CopyControl \/ ReadCaps \/ ReadMode \/ ReadActiveProfile \/ Decide
    \/ Drive \/ FinishPwm

----------------------------------------------------------------------------
\* The web server's task: one request at a time.

loopVars == <<fanVars, alertActive, fansDetected, pc, temp, rh, tick>>

\* The server is up once app_main has got that far, and handles one request at a time.
WebIdle == pc # "boot" /\ writing = NoControl /\ requests < MaxRequests

\* device_profile_set: s_profile at once, then the defaults of the mode.  Into Mobil
\* AC the fan mode is stored as OFF before it is stored as AUTO.
WebSetProfile ==
    /\ WebIdle
    /\ \E p \in ModeChoice :
          /\ profile' = p
          /\ writing' = [ctrl |-> ProfileDefaults(p, control), from |-> profile,
                         passing |-> IF p = "ac_monitor" THEN {"off"} ELSE {}]
    /\ requests' = requests + 1
    /\ UNCHANGED <<loopVars, control>>

StartWrite(ctrl) ==
    /\ WebIdle
    /\ writing' = [ctrl |-> ctrl, from |-> profile, passing |-> {}]
    /\ requests' = requests + 1
    /\ UNCHANGED <<loopVars, profile, control>>

\* device_profile_set_control
WebSetControl == \E req \in Request : StartWrite(ControlAfter(profile, control, req))

\* device_profile_set_ac_modules, refused outside Mobil AC
WebSetAcModules ==
    /\ profile = "ac_monitor"
    /\ \E modules \in ModuleMask : StartWrite(AcModulesAfter(control, modules))

\* device_profile_set_ac_cond_action
WebSetAcCond == \E action \in CondChoice : StartWrite([control EXCEPT !.acCond = action])

\* The last field is stored and the settings are committed to the NVS.
WebFinish ==
    /\ writing # NoControl
    /\ control' = writing.ctrl
    /\ writing' = NoControl
    /\ UNCHANGED <<loopVars, profile, requests>>

WebStep == WebSetProfile \/ WebSetControl \/ WebSetAcModules \/ WebSetAcCond \/ WebFinish

----------------------------------------------------------------------------
\* A reset of the chip.  A request that was under way has reached the NVS not at all,
\* with its profile only, or entirely; save_profile_key commits before save_control.
Restart ==
    /\ pc # "boot"
    /\ ResetController
    /\ alertActive' = FALSE
    /\ fansDetected' \in BOOLEAN
    /\ \/ UNCHANGED <<profile, control>>
       \/ /\ writing # NoControl
          /\ \/ profile' = writing.from /\ UNCHANGED control
             \/ control' = writing.ctrl /\ UNCHANGED profile
    /\ writing' = NoControl
    /\ requests' = 0
    /\ pc' = "boot"
    /\ temp' = 20
    /\ rh' = 50
    /\ tick' = NoTick

Next == ControlStep \/ WebStep \/ Restart

\* control_task is a 1 Hz task under the task watchdog, which resets the chip if the
\* task stops; httpd runs its handler to the end.
Fairness == WF_vars(ControlStep) /\ WF_vars(WebFinish)

Spec == Init /\ [][Next]_vars /\ Fairness

----------------------------------------------------------------------------

LoopPc == {"boot", "sense", "copy", "caps", "mode", "active", "decide",
           "mode1", "speed1", "mode2", "speed2"}

ProfileOrNone == Profile \cup {"none"}

TickRecord == [ctrl : PolicyInput \cup {NoControl}, cap : ProfileOrNone, mode : ProfileOrNone,
               activeIn : ProfileOrNone, speed1 : Percent, speed2 : Percent]

WriteRecord == [ctrl : Control, from : Profile, passing : SUBSET FanRunMode]

TypeOK ==
    /\ FanTypeOK
    /\ CondensationTypeOK
    /\ fansDetected \in BOOLEAN
    /\ profile \in Profile
    /\ control \in Control
    /\ writing \in WriteRecord \cup {NoControl}
    /\ requests \in 0 .. MaxRequests
    /\ pc \in LoopPc
    /\ temp \in Int
    /\ rh \in Int
    /\ tick \in TickRecord

\* The tick is over and its PWM writes are done.
TickDone == pc = "sense" /\ Idle(ControlTask)

(* SR-010: a tick that ran in heat-exchanger mode with the humidity alert up
   ends with both fans at rest on the wire, whatever the web task stored
   while the tick read the settings. *)
CondensationStopsExchanger ==
    TickDone /\ tick.mode = "heat_exchanger" /\ alertActive => \A f \in Fan : duty[f] = 0

(* At the end of a tick the duty cycles are those of the speeds the controller
   reports: exit_failsafe and set_mode change a speed without touching the PWM,
   and the rest of the tick has to make up for it. *)
DutyTracksSpeed ==
    TickDone /\ pwmReady => \A f \in Fan : duty[f] = DutyOf(fan[f].speed)

Engaged ==
    /\ profile \in {"heat_exchanger", "mini_ftx"}
    /\ control.enabled /\ control.fanMode # "off"

\* From here on neither a reset nor a web request disturbs the loop.
Undisturbed == pc # "boot" /\ writing = NoControl

(* Fail-safe is not a trap: once the humidity alert stays down while the
   control is engaged, the flag comes down for good. *)
FailsafeReleased ==
    <>[](Undisturbed /\ fansDetected /\ Engaged /\ ~alertActive) => <>[]~failSafe

(* "Regleringsvy/fläktar stoppas": once the control stays switched off the fans
   come to rest, whatever mode, alert or fail-safe they were in. *)
SwitchedOff ==
    \/ profile = "sensor_only"
    \/ profile = "ac_monitor" /\ "assist_fans" \notin control.acModules
    \/ profile \in {"heat_exchanger", "mini_ftx"} /\ (~control.enabled \/ control.fanMode = "off")

ControlOffStopsFans ==
    <>[](Undisturbed /\ SwitchedOff) => <>[](\A f \in Fan : duty[f] = 0)

(* The two fans of a Mini-FTX run at the same speed: a change of mode between
   the reads of a tick can set them apart, and the next tick puts it right. *)
FtxFansAgree ==
    <>[](Undisturbed /\ profile = "mini_ftx") =>
        <>[](TickDone => fan[Fan1].speed = fan[Fan2].speed)

=============================================================================
