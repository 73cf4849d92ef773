----------------------------- MODULE DeviceProfile ---------------------------
(***************************************************************************)
(* components/device_profile/device_profile.c: the application mode and    *)
(* the control settings, as values.  The operators here say what each      *)
(* setter makes of them; who calls them when, and what is persisted, is    *)
(* the business of ControlLoop and of ProfileStore.                        *)
(*                                                                         *)
(* A control record keeps the fields that decide something: the telemetry  *)
(* (cycle_phase, ac_last_command and its time) is left out.                *)
(***************************************************************************)
EXTENDS Integers

Profile == {"ac_monitor", "heat_exchanger", "mini_ftx", "sensor_only"}
FanRunMode == {"off", "manual", "auto"}
Method == {"none", "pwm", "ir", "electrical"}
AcModule == {"ir_remote", "line_control", "assist_fans"}
CondAction == {"observe", "boost_assist", "request_fan_only"}

DefaultProfile == "heat_exchanger"

Control == [enabled : BOOLEAN, method : Method, fanMode : FanRunMode,
            fan1 : 0 .. 100, fan2 : 0 .. 100, cycle : 10 .. 600,
            acModules : SUBSET AcModule, acCond : CondAction]

\* The static initialiser of s_control.
StaticControl ==
    [enabled |-> TRUE, method |-> "pwm", fanMode |-> "auto", fan1 |-> 40, fan2 |-> 40,
     cycle |-> 60, acModules |-> {}, acCond |-> "boost_assist"]

----------------------------------------------------------------------------
\* s_caps[], the columns the logic reads.

PwmControl(p)       == p \in {"heat_exchanger", "mini_ftx"}
IrControl(p)        == p = "ac_monitor"
ElectricalControl(p) == p = "ac_monitor"
DualFanIndependent(p) == p = "heat_exchanger"
ControlDefaultOn(p) == p \in {"heat_exchanger", "mini_ftx"}

\* Which actuation methods device_profile_set_control accepts in a mode.
MethodAllowed(p, method) ==
    /\ method = "pwm" => PwmControl(p)
    /\ method = "ir" => IrControl(p)
    /\ method = "electrical" => ElectricalControl(p)

Clamp(v, lo, hi) == IF v < lo THEN lo ELSE IF v > hi THEN hi ELSE v

----------------------------------------------------------------------------
\* Fault: the method survives a change of mode.
ProfileDefaultsKeepMethod(p, ctrl) ==
    [ctrl EXCEPT
       !.enabled   = ControlDefaultOn(p),
       !.fanMode   = IF ControlDefaultOn(p) \/ p = "ac_monitor" THEN "auto" ELSE "off",
       !.acModules = {},
       !.acCond    = IF p = "ac_monitor" THEN "boost_assist" ELSE @]

\* apply_profile_control_defaults: the manual speeds and the cycle period survive
\* a change of mode, and so does the condensation action except into Mobil AC.
ProfileDefaults(p, ctrl) ==
    [ctrl EXCEPT
       !.enabled   = ControlDefaultOn(p),
       !.method    = IF PwmControl(p) THEN "pwm" ELSE "none",
       !.fanMode   = IF ControlDefaultOn(p) \/ p = "ac_monitor" THEN "auto" ELSE "off",
       !.acModules = {},
       !.acCond    = IF p = "ac_monitor" THEN "boost_assist" ELSE @]

\* A request to device_profile_set_control is a function on the fields it names: a
\* NULL pointer names nothing.
FieldsOf(req) == DOMAIN req
Asked(req, k, old) == IF k \in FieldsOf(req) THEN req[k] ELSE old

RequestOK(req) ==
    /\ "enabled" \in FieldsOf(req) => req["enabled"] \in BOOLEAN
    /\ "method" \in FieldsOf(req) => req["method"] \in Method
    /\ "fanMode" \in FieldsOf(req) => req["fanMode"] \in FanRunMode
    /\ \A k \in {"fan1", "fan2", "cycle"} \cap FieldsOf(req) : req[k] \in Int

\* device_profile_set_control accepts the request.
ControlAccepted(p, req) ==
    /\ "method" \in FieldsOf(req) => MethodAllowed(p, req["method"])
    /\ "enabled" \in FieldsOf(req) => ~(req["enabled"] /\ p = "sensor_only")

\* The control record device_profile_set_control leaves in RAM.  The method is
\* stored before control_enabled is looked at, so a request refused for
\* control_enabled has already changed it.
ControlAfter(p, ctrl, req) ==
    IF ControlAccepted(p, req)
    THEN [ctrl EXCEPT !.enabled = Asked(req, "enabled", @),
                      !.method  = Asked(req, "method", @),
                      !.fanMode = Asked(req, "fanMode", @),
                      !.fan1    = Clamp(Asked(req, "fan1", @), 0, 100),
                      !.fan2    = Clamp(Asked(req, "fan2", @), 0, 100),
                      !.cycle   = Clamp(Asked(req, "cycle", @), 10, 600)]
    ELSE IF "method" \in FieldsOf(req) /\ MethodAllowed(p, req["method"])
    THEN [ctrl EXCEPT !.method = req["method"]]
    ELSE ctrl

\* device_profile_set_ac_modules, accepted in Mobil AC only: the modules are the
\* enable, and the strongest of them names the method.
AcModulesAfter(ctrl, modules) ==
    [ctrl EXCEPT
       !.acModules = modules,
       !.enabled   = modules # {},
       !.method    = CASE "assist_fans" \in modules -> "pwm"
                       [] "assist_fans" \notin modules /\ "ir_remote" \in modules -> "ir"
                       [] modules = {"line_control"} -> "electrical"
                       [] OTHER -> "none",
       !.fanMode   = IF "assist_fans" \in modules /\ @ = "off" THEN "auto" ELSE @]

\* device_profile_is_control_active (device_profile_ac_has_actuation included).
ControlActive(p, enabled, modules) ==
    CASE p = "sensor_only" -> FALSE
      [] p = "ac_monitor"  -> modules # {}
      [] OTHER             -> enabled

=============================================================================
