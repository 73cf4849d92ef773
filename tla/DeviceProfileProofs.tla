------------------------ MODULE DeviceProfileProofs -------------------------
(***************************************************************************)
(* What the setters of device_profile.c make of a control record is a      *)
(* control record.  The control loop and the persistent store both rest on *)
(* these facts.                                                            *)
(***************************************************************************)
EXTENDS DeviceProfile, TLAPS

LEMMA ClampInRange ==
    ASSUME NEW v \in Int
    PROVE  Clamp(v, 0, 100) \in 0 .. 100 /\ Clamp(v, 10, 600) \in 10 .. 600
  BY DEF Clamp

(* A control record with one field replaced is a control record. *)
LEMMA ControlEdits ==
    ASSUME NEW r \in Control
    PROVE  /\ \A e \in BOOLEAN : [r EXCEPT !.enabled = e] \in Control
           /\ \A m \in Method : [r EXCEPT !.method = m] \in Control
           /\ \A m \in FanRunMode : [r EXCEPT !.fanMode = m] \in Control
           /\ \A v \in 0 .. 100 : [r EXCEPT !.fan1 = v] \in Control
           /\ \A v \in 0 .. 100 : [r EXCEPT !.fan2 = v] \in Control
           /\ \A v \in 10 .. 600 : [r EXCEPT !.cycle = v] \in Control
           /\ \A s \in SUBSET AcModule : [r EXCEPT !.acModules = s] \in Control
           /\ \A a \in CondAction : [r EXCEPT !.acCond = a] \in Control
<1>1. \A e \in BOOLEAN : [r EXCEPT !.enabled = e] \in Control
  BY DEF Control
<1>2. \A m \in Method : [r EXCEPT !.method = m] \in Control
  BY DEF Control
<1>3. \A m \in FanRunMode : [r EXCEPT !.fanMode = m] \in Control
  BY DEF Control
<1>4. \A v \in 0 .. 100 : [r EXCEPT !.fan1 = v] \in Control
  BY DEF Control
<1>5. \A v \in 0 .. 100 : [r EXCEPT !.fan2 = v] \in Control
  BY DEF Control
<1>6. \A v \in 10 .. 600 : [r EXCEPT !.cycle = v] \in Control
  BY DEF Control
<1>7. \A s \in SUBSET AcModule : [r EXCEPT !.acModules = s] \in Control
  BY DEF Control
<1>8. \A a \in CondAction : [r EXCEPT !.acCond = a] \in Control
  BY DEF Control
<1> QED
  BY <1>1, <1>2, <1>3, <1>4, <1>5, <1>6, <1>7, <1>8, Zenon

(* A mode change rewrites five fields. *)
LEMMA ProfileDefaultsTyped ==
    ASSUME NEW ctrl \in Control, NEW p \in Profile
    PROVE  ProfileDefaults(p, ctrl) \in Control
<1> DEFINE method == IF PwmControl(p) THEN "pwm" ELSE "none"
           mode == IF ControlDefaultOn(p) \/ p = "ac_monitor" THEN "auto" ELSE "off"
           cond == IF p = "ac_monitor" THEN "boost_assist" ELSE ctrl.acCond
           r1 == [ctrl EXCEPT !.enabled = ControlDefaultOn(p)]
           r2 == [r1 EXCEPT !.method = method]
           r3 == [r2 EXCEPT !.fanMode = mode]
           r4 == [r3 EXCEPT !.acModules = {}]
           r5 == [r4 EXCEPT !.acCond = cond]
<1>1. ControlDefaultOn(p) \in BOOLEAN
  BY DEF ControlDefaultOn
<1>2. method \in Method /\ mode \in FanRunMode
  BY DEF Method, FanRunMode
<1>3. cond \in CondAction
  BY DEF CondAction, Control
<1>4. ProfileDefaults(p, ctrl) =
        [ctrl EXCEPT !.enabled = ControlDefaultOn(p), !.method = method, !.fanMode = mode,
                     !.acModules = {}, !.acCond = cond]
  BY DEF ProfileDefaults
<1> HIDE DEF method, mode, cond
<1>5. r1 \in Control
  BY <1>1, ControlEdits, Zenon
<1> HIDE DEF r1
<1>6. r2 \in Control
  BY <1>2, <1>5, ControlEdits, Zenon
<1> HIDE DEF r2
<1>7. r3 \in Control
  BY <1>2, <1>6, ControlEdits, Zenon
<1> HIDE DEF r3
<1>8. r4 \in Control
  <2>1. {} \in SUBSET AcModule
    OBVIOUS
  <2> QED
    BY <1>7, <2>1, ControlEdits, Zenon
<1> HIDE DEF r4
<1>9. r5 \in Control
  BY <1>3, <1>8, ControlEdits, Zenon
<1> QED
  BY <1>4, <1>9 DEF r1, r2, r3, r4

(* A choice of AC modules rewrites four. *)
LEMMA AcModulesTyped ==
    ASSUME NEW ctrl \in Control, NEW modules \in SUBSET AcModule
    PROVE  AcModulesAfter(ctrl, modules) \in Control
<1> DEFINE on == modules # {}
           method == CASE "assist_fans" \in modules -> "pwm"
                       [] "assist_fans" \notin modules /\ "ir_remote" \in modules -> "ir"
                       [] modules = {"line_control"} -> "electrical"
                       [] OTHER -> "none"
           mode == IF "assist_fans" \in modules /\ ctrl.fanMode = "off"
                   THEN "auto" ELSE ctrl.fanMode
           r1 == [ctrl EXCEPT !.acModules = modules]
           r2 == [r1 EXCEPT !.enabled = on]
           r3 == [r2 EXCEPT !.method = method]
           r4 == [r3 EXCEPT !.fanMode = mode]
<1>1. on \in BOOLEAN /\ method \in Method
  BY DEF Method
<1>2. mode \in FanRunMode
  BY DEF FanRunMode, Control
<1>3. AcModulesAfter(ctrl, modules) =
        [ctrl EXCEPT !.acModules = modules, !.enabled = on, !.method = method, !.fanMode = mode]
  BY DEF AcModulesAfter
<1> HIDE DEF on, method, mode
<1>4. r1 \in Control
  BY ControlEdits, Zenon
<1> HIDE DEF r1
<1>5. r2 \in Control
  BY <1>1, <1>4, ControlEdits, Zenon
<1> HIDE DEF r2
<1>6. r3 \in Control
  BY <1>1, <1>5, ControlEdits, Zenon
<1> HIDE DEF r3
<1>7. r4 \in Control
  BY <1>2, <1>6, ControlEdits, Zenon
<1> QED
  BY <1>3, <1>7 DEF r1, r2, r3

(* A control request, accepted, half applied or refused, leaves the speeds in
   0..100 and the cycle period in 10..600: the clamps are on every path. *)
LEMMA ControlAfterTyped ==
    ASSUME NEW ctrl \in Control, NEW p, NEW req, RequestOK(req)
    PROVE  ControlAfter(p, ctrl, req) \in Control
<1> DEFINE enabled == Asked(req, "enabled", ctrl.enabled)
           method == Asked(req, "method", ctrl.method)
           mode == Asked(req, "fanMode", ctrl.fanMode)
           fan1 == Clamp(Asked(req, "fan1", ctrl.fan1), 0, 100)
           fan2 == Clamp(Asked(req, "fan2", ctrl.fan2), 0, 100)
           cycle == Clamp(Asked(req, "cycle", ctrl.cycle), 10, 600)
           r1 == [ctrl EXCEPT !.enabled = enabled]
           r2 == [r1 EXCEPT !.method = method]
           r3 == [r2 EXCEPT !.fanMode = mode]
           r4 == [r3 EXCEPT !.fan1 = fan1]
           r5 == [r4 EXCEPT !.fan2 = fan2]
           r6 == [r5 EXCEPT !.cycle = cycle]
<1>1. ctrl.enabled \in BOOLEAN /\ ctrl.method \in Method /\ ctrl.fanMode \in FanRunMode
      /\ ctrl.fan1 \in Int /\ ctrl.fan2 \in Int /\ ctrl.cycle \in Int
  BY DEF Control
<1>2. enabled \in BOOLEAN /\ method \in Method /\ mode \in FanRunMode
  BY <1>1 DEF RequestOK, Asked
<1>3. fan1 \in 0 .. 100 /\ fan2 \in 0 .. 100 /\ cycle \in 10 .. 600
  <2>1. /\ Asked(req, "fan1", ctrl.fan1) \in Int
        /\ Asked(req, "fan2", ctrl.fan2) \in Int
        /\ Asked(req, "cycle", ctrl.cycle) \in Int
    BY <1>1 DEF RequestOK, Asked
  <2> QED
    BY <2>1, ClampInRange
<1>4. "method" \in FieldsOf(req) => req["method"] \in Method
  BY DEF RequestOK
<1>5. ControlAfter(p, ctrl, req) \in
        {[ctrl EXCEPT !.enabled = enabled, !.method = method, !.fanMode = mode,
                      !.fan1 = fan1, !.fan2 = fan2, !.cycle = cycle],
         IF "method" \in FieldsOf(req) THEN [ctrl EXCEPT !.method = req["method"]] ELSE ctrl,
         ctrl}
  BY DEF ControlAfter
<1>6. (IF "method" \in FieldsOf(req) THEN [ctrl EXCEPT !.method = req["method"]] ELSE ctrl) \in Control
  BY <1>4, ControlEdits, Zenon
<1> HIDE DEF enabled, method, mode, fan1, fan2, cycle
<1>7. r1 \in Control
  BY <1>2, ControlEdits, Zenon
<1> HIDE DEF r1
<1>8. r2 \in Control
  BY <1>2, <1>7, ControlEdits, Zenon
<1> HIDE DEF r2
<1>9. r3 \in Control
  BY <1>2, <1>8, ControlEdits, Zenon
<1> HIDE DEF r3
<1>10. r4 \in Control
  BY <1>3, <1>9, ControlEdits, Zenon
<1> HIDE DEF r4
<1>11. r5 \in Control
  BY <1>3, <1>10, ControlEdits, Zenon
<1> HIDE DEF r5
<1>12. r6 \in Control
  BY <1>3, <1>11, ControlEdits, Zenon
<1>13. [ctrl EXCEPT !.enabled = enabled, !.method = method, !.fanMode = mode,
                    !.fan1 = fan1, !.fan2 = fan2, !.cycle = cycle] \in Control
  BY <1>12 DEF r1, r2, r3, r4, r5
<1> HIDE DEF r6
<1> QED
  BY <1>5, <1>6, <1>13

=============================================================================
