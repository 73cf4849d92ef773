------------------------- MODULE ProfileStoreProofs -------------------------
(***************************************************************************)
(* What a boot finds in the NVS namespace of device_profile.c, for all     *)
(* requests, wherever a reset falls and whatever call of the NVS fails.    *)
(***************************************************************************)
EXTENDS ProfileStore, DeviceProfileProofs

\* The values each field of a control record can have.
FieldSet ==
    [enabled |-> BOOLEAN, method |-> Method, fanMode |-> FanRunMode, fan1 |-> 0 .. 100,
     fan2 |-> 0 .. 100, cycle |-> 10 .. 600, acModules |-> SUBSET AcModule,
     acCond |-> CondAction]

LEMMA TheKeys ==
    /\ DOMAIN KeyOrder = 1 .. 8 /\ Len(KeyOrder) = 8
    /\ ControlKey = {"enabled", "method", "fanMode", "fan1", "fan2", "cycle", "acModules", "acCond"}
<1>1. DOMAIN KeyOrder = 1 .. 8 /\ Len(KeyOrder) = 8
  BY DEF KeyOrder
<1>2. \A k \in ControlKey :
        k \in {"enabled", "method", "fanMode", "fan1", "fan2", "cycle", "acModules", "acCond"}
  BY DEF KeyOrder, ControlKey
<1>3. \A i \in 1 .. 8 : KeyOrder[i] \in ControlKey
  BY <1>1 DEF ControlKey
<1>4. /\ KeyOrder[1] = "enabled" /\ KeyOrder[2] = "method" /\ KeyOrder[3] = "fanMode"
      /\ KeyOrder[4] = "fan1" /\ KeyOrder[5] = "fan2" /\ KeyOrder[6] = "cycle"
      /\ KeyOrder[7] = "acModules" /\ KeyOrder[8] = "acCond"
  BY DEF KeyOrder
<1> QED
  BY <1>1, <1>2, <1>3, <1>4

(* A control record, field by field. *)
LEMMA ControlFields ==
    ASSUME NEW c
    PROVE  c \in Control <=> /\ c = [k \in ControlKey |-> c[k]]
                             /\ \A k \in ControlKey : c[k] \in FieldSet[k]
  BY TheKeys DEF Control, FieldSet

LEMMA MissingIsNoValue ==
    \A k \in ControlKey : Missing \notin FieldSet[k]
  BY StoreAssumption, TheKeys DEF FieldSet

----------------------------------------------------------------------------
\* What load_all makes of the values it finds.
BootMode(v) == IF v = Missing THEN DefaultProfile ELSE v

FirstControl == ProfileDefaults(DefaultProfile, StaticControl)

BootSetting(k, v, p) ==
    IF v # Missing THEN v ELSE IF k = "enabled" THEN ControlDefaultOn(p) ELSE FirstControl[k]

Fits(p, method, modules) ==
    \/ MethodAllowed(p, method)
    \/ p = "ac_monitor" /\ "assist_fans" \in modules

StorePc ==
    {Off, Ready, At("setProfile", 0), At("commitProfile", 0), At("commitControl", 0)}
      \cup {At("setControl", i) : i \in 1 .. 8}

StoreTypeOK ==
    /\ profile \in Profile
    /\ control \in Control
    /\ stored = [k \in ControlKey \cup {"profile"} |-> stored[k]]
    /\ stored["profile"] \subseteq Profile \cup {Missing}
    /\ \A k \in ControlKey : stored[k] \subseteq FieldSet[k] \cup {Missing}
    /\ pc \in StorePc
    /\ nvsFailed \in BOOLEAN
    /\ torn \in BOOLEAN

\* How far a save has come, and that it is behind an "ok".
SavedSoFar ==
    /\ pc.step = "setControl" =>
         \A i \in 1 .. 8 : i < pc.next => control[KeyOrder[i]] \in stored[KeyOrder[i]]
    /\ pc.step = "commitControl" => \A k \in ControlKey : control[k] \in stored[k]
    /\ answer = "ok" => pc = Ready /\ \A k \in ControlKey : stored[k] = {control[k]}

\* Without a failure the NVS holds the mode in force from its commit on, and the
\* settings in force when no request is under way.
ModeInForce ==
    ~nvsFailed /\ pc.step \in {"ready", "setControl", "commitControl"} =>
        \A v \in stored["profile"] : BootMode(v) = profile

SettingsInForce ==
    ~nvsFailed /\ pc = Ready =>
        \A k \in ControlKey \ {"method"} : \A v \in stored[k] : BootSetting(k, v, profile) = control[k]

\* Mode, method and modules go together in RAM, and in the NVS between the saves.
FitInRam == ~torn /\ pc # Off => Fits(profile, control.method, control.acModules)

FitInNvs ==
    ~torn /\ ~nvsFailed /\ pc \in {Off, Ready} =>
        \A v \in stored["profile"], m \in stored["method"], a \in stored["acModules"] :
            Fits(BootMode(v), BootSetting("method", m, BootMode(v)),
                 BootSetting("acModules", a, BootMode(v)))

OffIsFresh == pc = Off => ~nvsFailed

StoreInv ==
    /\ StoreTypeOK /\ OffIsFresh /\ SavedSoFar /\ ModeInForce /\ SettingsInForce /\ FitInRam /\ FitInNvs

----------------------------------------------------------------------------

LEMMA PcParts ==
    /\ \A s, i : At(s, i).step = s /\ At(s, i).next = i
    /\ Off # Ready /\ \A i : Off # At("setControl", i) /\ Ready # At("setControl", i)
    /\ Off.step = "off" /\ Ready.step = "ready"
  BY DEF At, Off, Ready

(* The first settings are the defaults of the default mode. *)
LEMMA FirstControlTyped ==
    /\ DefaultProfile \in Profile /\ StaticControl \in Control /\ FirstControl \in Control
    /\ Fits(DefaultProfile, FirstControl.method, FirstControl.acModules)
<1>1. DefaultProfile \in Profile
  BY DEF DefaultProfile, Profile
<1>2. StaticControl \in Control
  BY DEF StaticControl, Control, Method, FanRunMode, AcModule, CondAction
<1>3. FirstControl \in Control
  BY <1>1, <1>2, ProfileDefaultsTyped DEF FirstControl
<1>4. FirstControl.method = "pwm"
  BY <1>2 DEF FirstControl, ProfileDefaults, DefaultProfile, PwmControl, Control
<1> QED
  BY <1>1, <1>2, <1>3, <1>4 DEF Fits, MethodAllowed, DefaultProfile, PwmControl

(* An image has, for every key, one of the values a boot may find; the mode is
   made of its mode, and each setting of its own key. *)
LEMMA ImageRead ==
    ASSUME StoreTypeOK, NEW image \in Images
    PROVE  /\ image["profile"] \in stored["profile"]
           /\ \A k \in ControlKey : image[k] \in stored[k]
           /\ BootProfile(image) = BootMode(image["profile"])
           /\ BootProfile(image) \in Profile
           /\ \A k \in ControlKey : BootControl(image)[k] = BootSetting(k, image[k], BootProfile(image))
           /\ BootControl(image) \in Control
<1>1. image["profile"] \in stored["profile"] /\ \A k \in ControlKey : image[k] \in stored[k]
  BY TheKeys DEF Images
<1>2. BootProfile(image) = BootMode(image["profile"]) /\ BootProfile(image) \in Profile
  BY <1>1, FirstControlTyped DEF BootProfile, BootMode, StoreTypeOK
<1>3. DOMAIN FirstControl = ControlKey /\ \A k \in ControlKey : FirstControl[k] \in FieldSet[k]
  BY FirstControlTyped, ControlFields
<1>4. BootControl(image) = [k \in ControlKey |-> BootSetting(k, image[k], BootProfile(image))]
  BY <1>3 DEF BootControl, FirstControl, BootSetting
<1>5. ASSUME NEW k \in ControlKey
      PROVE  BootSetting(k, image[k], BootProfile(image)) \in FieldSet[k]
  <2>1. image[k] \in FieldSet[k] \cup {Missing}
    BY <1>1 DEF StoreTypeOK
  <2>2. ControlDefaultOn(BootProfile(image)) \in FieldSet["enabled"]
    BY DEF ControlDefaultOn, FieldSet
  <2> QED
    BY <1>3, <2>1, <2>2 DEF BootSetting
<1> DEFINE c == BootControl(image)
<1>6. c = [k \in ControlKey |-> c[k]] /\ \A k \in ControlKey : c[k] \in FieldSet[k]
  BY <1>4, <1>5
<1>7. c \in Control
  BY <1>6, ControlFields
<1> QED
  BY <1>1, <1>2, <1>4, <1>7

LEMMA StoreInitInv == StoreInit => StoreInv
<1> SUFFICES ASSUME StoreInit PROVE StoreInv
  OBVIOUS
<1>1. /\ stored = [k \in ControlKey \cup {"profile"} |-> stored[k]]
      /\ \A k \in ControlKey \cup {"profile"} : stored[k] = {Missing}
  BY DEF StoreInit
<1>2. StoreTypeOK /\ OffIsFresh
  BY <1>1, FirstControlTyped DEF StoreInit, StoreTypeOK, StorePc, OffIsFresh
<1>3. SavedSoFar /\ ModeInForce /\ SettingsInForce /\ FitInRam
  BY PcParts DEF StoreInit, SavedSoFar, ModeInForce, SettingsInForce, FitInRam
<1>4. FitInNvs
  <2>1. stored["profile"] = {Missing} /\ stored["method"] = {Missing} /\ stored["acModules"] = {Missing}
    BY <1>1, TheKeys
  <2> QED
    BY <2>1, FirstControlTyped DEF FitInNvs, BootMode, BootSetting
<1> QED
  BY <1>2, <1>3, <1>4 DEF StoreInv

(* A boot leaves one value per key: the one it took its settings from. *)
LEMMA BootInv == StoreInv /\ BootProfileStore => StoreInv'
<1> SUFFICES ASSUME StoreInv, BootProfileStore PROVE StoreInv'
  OBVIOUS
<1>1. StoreTypeOK /\ pc = Off /\ pc' = Ready /\ UNCHANGED <<answer, nvsFailed, torn>>
  BY DEF StoreInv, BootProfileStore
<1>2. PICK image \in Images :
        /\ profile' = BootProfile(image) /\ control' = BootControl(image)
        /\ stored' = [k \in DOMAIN stored |-> {image[k]}]
  BY DEF BootProfileStore
<1>3. /\ DOMAIN stored = ControlKey \cup {"profile"}
      /\ stored' = [k \in ControlKey \cup {"profile"} |-> stored'[k]]
      /\ \A k \in ControlKey \cup {"profile"} : stored'[k] = {image[k]}
  BY <1>1, <1>2 DEF StoreTypeOK
<1>4. /\ image["profile"] \in stored["profile"]
      /\ \A k \in ControlKey : image[k] \in stored[k]
      /\ BootProfile(image) = BootMode(image["profile"]) /\ profile' \in Profile
      /\ \A k \in ControlKey : control'[k] = BootSetting(k, image[k], profile')
      /\ control' \in Control
  BY <1>1, <1>2, ImageRead
<1>5. StoreTypeOK'
  <2>1. stored'["profile"] \subseteq Profile \cup {Missing}
    BY <1>1, <1>3, <1>4 DEF StoreTypeOK
  <2>2. \A k \in ControlKey : stored'[k] \subseteq FieldSet[k] \cup {Missing}
    BY <1>1, <1>3, <1>4 DEF StoreTypeOK
  <2> QED
    BY <1>1, <1>3, <1>4, <2>1, <2>2 DEF StoreTypeOK, StorePc
<1>6. answer # "ok"
  BY <1>1, PcParts DEF StoreInv, SavedSoFar
<1>7. SavedSoFar'
  BY <1>1, <1>6, PcParts DEF SavedSoFar
<1>8. ModeInForce' /\ SettingsInForce'
  BY <1>2, <1>3, <1>4 DEF ModeInForce, SettingsInForce
<1>9. "method" \in ControlKey /\ "acModules" \in ControlKey
  BY TheKeys
<1>10. ~torn /\ ~nvsFailed => Fits(profile', control'["method"], control'["acModules"])
  <2>1. ~torn /\ ~nvsFailed =>
          Fits(BootMode(image["profile"]),
               BootSetting("method", image["method"], BootMode(image["profile"])),
               BootSetting("acModules", image["acModules"], BootMode(image["profile"])))
    BY <1>1, <1>4, <1>9 DEF StoreInv, FitInNvs
  <2> QED
    BY <1>2, <1>4, <1>9, <2>1
<1>11. ~nvsFailed
  BY <1>1 DEF StoreInv, OffIsFresh
<1>12. FitInRam'
  BY <1>1, <1>4, <1>10, <1>11, <1>9 DEF FitInRam
<1>13. FitInNvs'
  <2>1. /\ stored'["profile"] = {image["profile"]} /\ stored'["method"] = {image["method"]}
        /\ stored'["acModules"] = {image["acModules"]}
    BY <1>3, <1>9
  <2> QED
    BY <1>1, <1>2, <1>4, <1>9, <1>10, <1>11, <2>1 DEF FitInNvs
<1>14. OffIsFresh'
  BY <1>1, PcParts DEF OffIsFresh
<1> QED
  BY <1>5, <1>7, <1>8, <1>12, <1>13, <1>14 DEF StoreInv

(* A boot that cannot open the namespace works with the defaults and counts as
   a failure. *)
LEMMA BootWithoutNvsInv == StoreInv /\ BootWithoutNvs => StoreInv'
<1> SUFFICES ASSUME StoreInv, BootWithoutNvs PROVE StoreInv'
  OBVIOUS
<1>1. /\ pc = Off /\ pc' = Ready /\ nvsFailed' = TRUE /\ nvsFailed'
      /\ profile' = DefaultProfile /\ control' = FirstControl
      /\ UNCHANGED <<stored, answer, torn>>
  BY DEF BootWithoutNvs, FirstControl
<1>2. StoreTypeOK'
  BY <1>1, FirstControlTyped DEF StoreInv, StoreTypeOK, StorePc
<1>3. SavedSoFar'
  BY <1>1, PcParts DEF StoreInv, SavedSoFar
<1>4. OffIsFresh' /\ ModeInForce' /\ SettingsInForce' /\ FitInNvs'
  BY <1>1, PcParts DEF OffIsFresh, ModeInForce, SettingsInForce, FitInNvs
<1>5. FitInRam'
  BY <1>1, FirstControlTyped DEF FitInRam
<1> QED
  BY <1>2, <1>3, <1>4, <1>5 DEF StoreInv

(* An accepted request touches RAM only, and a save begins. *)
LEMMA AcceptInv ==
    ASSUME StoreInv, NewRequest,
           NEW p \in Profile, NEW ctrl \in Control, NEW req, NEW first, Accept(p, ctrl, req, first),
           \/ first = At("setProfile", 0)
           \/ first = At("setControl", 1) /\ p = profile,
           ~torn => Fits(p, ctrl.method, ctrl.acModules)
    PROVE  StoreInv'
<1>1. /\ pc = Ready /\ pc' = first /\ profile' = p /\ control' = ctrl /\ answer' = "none"
      /\ UNCHANGED <<stored, nvsFailed, torn>>
  BY DEF NewRequest, Accept
<1>2. first.step \in {"setProfile", "setControl"} /\ (first.step = "setControl" => first.next = 1)
  BY PcParts
<1>3. first \in StorePc /\ first \notin {Off, Ready}
  BY PcParts DEF StorePc
<1>4. StoreTypeOK'
  BY <1>1, <1>3 DEF StoreInv, StoreTypeOK
<1>5. OffIsFresh' /\ SettingsInForce' /\ FitInRam' /\ FitInNvs'
  BY <1>1, <1>3 DEF OffIsFresh, SettingsInForce, FitInRam, FitInNvs
<1>6. SavedSoFar'
  BY <1>1, <1>2 DEF SavedSoFar
<1>7. ModeInForce'
  BY <1>1, <1>2, PcParts DEF StoreInv, ModeInForce
<1> QED
  BY <1>4, <1>5, <1>6, <1>7 DEF StoreInv

(* A refused one changes the method at most. *)
LEMMA RefuseInv ==
    ASSUME StoreInv, NewRequest, NEW ctrl \in Control, Refuse(ctrl),
           \A k \in ControlKey \ {"method"} : ctrl[k] = control[k],
           ~torn => Fits(profile, ctrl.method, ctrl.acModules)
    PROVE  StoreInv'
<1>1. /\ pc = Ready /\ control' = ctrl /\ answer' = "refused"
      /\ UNCHANGED <<profile, pc, stored, nvsFailed, torn>>
  BY DEF NewRequest, Refuse
<1>2. StoreTypeOK' /\ OffIsFresh' /\ ModeInForce' /\ FitInNvs'
  BY <1>1 DEF StoreInv, StoreTypeOK, OffIsFresh, ModeInForce, FitInNvs
<1>3. SavedSoFar'
  BY <1>1, PcParts DEF SavedSoFar
<1>4. SettingsInForce'
  BY <1>1 DEF StoreInv, SettingsInForce
<1>5. FitInRam'
  BY <1>1 DEF FitInRam
<1> QED
  BY <1>2, <1>3, <1>4, <1>5 DEF StoreInv

LEMMA DecodedIsTyped == ASSUME NEW req, RequestOK(req) PROVE RequestOK(Decode(req))
<1>1. \A k, n : n \in Int => Cast(k, n) \in Int
  BY DEF Cast
<1>2. DOMAIN Decode(req) = DOMAIN req
  BY DEF Decode
<1>3. \A k \in {"fan1", "fan2", "cycle"} \cap DOMAIN req : Decode(req)[k] = Cast(k, req[k])
  BY DEF Decode
<1>4. \A k \in {"enabled", "method", "fanMode"} \cap DOMAIN req : Decode(req)[k] = req[k]
  BY DEF Decode
<1> QED
  BY <1>1, <1>2, <1>3, <1>4 DEF RequestOK, FieldsOf

(* A control request keeps the method one the mode accepts; and one that is
   refused changes nothing but the method. *)
LEMMA ControlAfterFits ==
    ASSUME NEW p, NEW c \in Control, NEW req, RequestOK(req)
    PROVE  LET ctrl == ControlAfter(p, c, req)
           IN /\ Fits(p, c.method, c.acModules) => Fits(p, ctrl.method, ctrl.acModules)
              /\ ~ControlAccepted(p, req) => \A k \in ControlKey \ {"method"} : ctrl[k] = c[k]
<1> DEFINE ctrl == ControlAfter(p, c, req)
<1>1. CASE ControlAccepted(p, req)
  <2>1. ctrl.method = Asked(req, "method", c.method) /\ ctrl.acModules = c.acModules
    BY <1>1 DEF ControlAfter, Control
  <2>2. "method" \in FieldsOf(req) => MethodAllowed(p, req["method"])
    BY <1>1 DEF ControlAccepted
  <2> QED
    BY <1>1, <2>1, <2>2 DEF Fits, Asked
<1>2. CASE ~ControlAccepted(p, req) /\ "method" \in FieldsOf(req) /\ MethodAllowed(p, req["method"])
  <2>1. ctrl = [c EXCEPT !.method = req["method"]]
    BY <1>2 DEF ControlAfter
  <2>2. ctrl.method = req["method"] /\ ctrl.acModules = c.acModules
    BY <2>1 DEF Control
  <2>3. \A k \in ControlKey \ {"method"} : ctrl[k] = c[k]
    BY <2>1, TheKeys DEF Control
  <2> QED
    BY <1>2, <2>2, <2>3 DEF Fits
<1>3. CASE ~ControlAccepted(p, req) /\ ~("method" \in FieldsOf(req) /\ MethodAllowed(p, req["method"]))
  BY <1>3 DEF ControlAfter
<1> QED
  BY <1>1, <1>2, <1>3

LEMMA ModeAndModulesFit ==
    ASSUME NEW c \in Control
    PROVE  /\ \A p \in Profile :
                LET ctrl == ProfileDefaults(p, c) IN Fits(p, ctrl.method, ctrl.acModules)
           /\ \A modules \in SUBSET AcModule :
                LET ctrl == AcModulesAfter(c, modules)
                IN Fits("ac_monitor", ctrl.method, ctrl.acModules)
           /\ \A a : LET ctrl == [c EXCEPT !.acCond = a]
                     IN ctrl.method = c.method /\ ctrl.acModules = c.acModules
<1>1. ASSUME NEW p \in Profile
      PROVE  LET ctrl == ProfileDefaults(p, c) IN Fits(p, ctrl.method, ctrl.acModules)
  <2>1. ProfileDefaults(p, c).method = IF PwmControl(p) THEN "pwm" ELSE "none"
    BY DEF ProfileDefaults, Control
  <2> QED
    BY <2>1 DEF Fits, MethodAllowed
<1>2. ASSUME NEW modules \in SUBSET AcModule
      PROVE  LET ctrl == AcModulesAfter(c, modules)
             IN Fits("ac_monitor", ctrl.method, ctrl.acModules)
  <2>1. /\ AcModulesAfter(c, modules).acModules = modules
        /\ "assist_fans" \notin modules =>
             AcModulesAfter(c, modules).method \in {"ir", "electrical", "none"}
    BY DEF AcModulesAfter, Control
  <2> QED
    BY <2>1 DEF Fits, MethodAllowed, IrControl, ElectricalControl
<1>3. \A a : LET ctrl == [c EXCEPT !.acCond = a]
             IN ctrl.method = c.method /\ ctrl.acModules = c.acModules
  BY DEF Control
<1> QED
  BY <1>1, <1>2, <1>3

LEMMA RequestInv == StoreInv /\ Request => StoreInv'
<1> SUFFICES ASSUME StoreInv, Request PROVE StoreInv'
  OBVIOUS
<1>1. profile \in Profile /\ control \in Control /\ pc \in StorePc
  BY DEF StoreInv, StoreTypeOK
<1>2. pc = Ready /\ ~torn => Fits(profile, control.method, control.acModules)
  BY PcParts DEF StoreInv, FitInRam
<1>3. ASSUME NEW p \in ModeChoice, SetProfile(p) PROVE StoreInv'
  <2>1. p \in Profile /\ ProfileDefaults(p, control) \in Control
    BY <1>1, StoreAssumption, ProfileDefaultsTyped
  <2>2. Fits(p, ProfileDefaults(p, control).method, ProfileDefaults(p, control).acModules)
    BY <1>1, <2>1, ModeAndModulesFit
  <2> QED
    BY <1>3, <2>1, <2>2, AcceptInv DEF SetProfile
<1>4. ASSUME NEW req \in WebRequest, SetControl(req) PROVE StoreInv'
  <2> DEFINE ctrl == ControlAfter(profile, control, Decode(req))
  <2>1. RequestOK(Decode(req))
    BY StoreAssumption, DecodedIsTyped
  <2>2. ctrl \in Control
    BY <1>1, <2>1, ControlAfterTyped
  <2>3. NewRequest /\ pc = Ready
    BY <1>4 DEF SetControl, NewRequest
  <2>4. ~torn => Fits(profile, ctrl.method, ctrl.acModules)
    BY <1>1, <1>2, <2>1, <2>3, ControlAfterFits
  <2>5. ~ControlAccepted(profile, Decode(req)) =>
          \A k \in ControlKey \ {"method"} : ctrl[k] = control[k]
    BY <1>1, <2>1, ControlAfterFits
  <2>6. IF ControlAccepted(profile, Decode(req))
        THEN Accept(profile, ctrl, req, At("setControl", 1)) ELSE Refuse(ctrl)
    BY <1>4 DEF SetControl
  <2> HIDE DEF ctrl
  <2>7. CASE ControlAccepted(profile, Decode(req))
    BY <1>1, <2>2, <2>3, <2>4, <2>6, <2>7, AcceptInv
  <2>8. CASE ~ControlAccepted(profile, Decode(req))
    BY <2>2, <2>3, <2>4, <2>5, <2>6, <2>8, RefuseInv
  <2> QED
    BY <2>7, <2>8
<1>5. ASSUME NEW modules \in ModuleMask, SetAcModules(modules) PROVE StoreInv'
  <2>1. modules \in SUBSET AcModule
    BY StoreAssumption
  <2>2. CASE profile = "ac_monitor"
    <3>1. AcModulesAfter(control, modules) \in Control
      BY <1>1, <2>1, AcModulesTyped
    <3>2. Fits(profile, AcModulesAfter(control, modules).method,
               AcModulesAfter(control, modules).acModules)
      BY <1>1, <2>1, <2>2, ModeAndModulesFit
    <3> QED
      BY <1>1, <1>5, <2>2, <3>1, <3>2, AcceptInv DEF SetAcModules
  <2>3. CASE profile # "ac_monitor"
    BY <1>1, <1>2, <1>5, <2>3, RefuseInv DEF SetAcModules, NewRequest
  <2> QED
    BY <2>2, <2>3
<1>6. ASSUME NEW action \in CondChoice, SetAcCond(action) PROVE StoreInv'
  <2> DEFINE ctrl == [control EXCEPT !.acCond = action]
  <2>1. ctrl \in Control
    BY <1>1, StoreAssumption, ControlEdits
  <2>2. ctrl.method = control.method /\ ctrl.acModules = control.acModules
    BY <1>1, ModeAndModulesFit
  <2>3. NewRequest /\ pc = Ready /\ Accept(profile, ctrl, NoAsk, At("setControl", 1))
    BY <1>6 DEF SetAcCond, NewRequest
  <2>4. ~torn => Fits(profile, ctrl.method, ctrl.acModules)
    BY <1>2, <2>2, <2>3
  <2> HIDE DEF ctrl
  <2> QED
    BY <1>1, <2>1, <2>3, <2>4, AcceptInv
<1> QED
  BY <1>3, <1>4, <1>5, <1>6 DEF Request

(* A call of the NVS that fails ends the save: nothing is claimed of what it
   leaves. *)
LEMMA FailInv ==
    ASSUME StoreInv, pc \notin {Off, Ready}, Fail, SaveUnchanged, UNCHANGED stored
    PROVE  StoreInv'
<1>1. /\ pc' = Ready /\ answer' = "failed" /\ nvsFailed' = TRUE /\ nvsFailed'
      /\ UNCHANGED <<profile, control, stored, torn>>
  BY DEF Fail, SaveUnchanged
<1>2. StoreTypeOK'
  BY <1>1 DEF StoreInv, StoreTypeOK, StorePc
<1>3. OffIsFresh' /\ ModeInForce' /\ SettingsInForce' /\ FitInNvs'
  BY <1>1, PcParts DEF OffIsFresh, ModeInForce, SettingsInForce, FitInNvs
<1>4. SavedSoFar'
  BY <1>1, PcParts DEF SavedSoFar
<1>5. FitInRam'
  BY <1>1 DEF StoreInv, FitInRam
<1> QED
  BY <1>2, <1>3, <1>4, <1>5 DEF StoreInv

LEMMA SetProfileKeyInv == StoreInv /\ SetProfileKey => StoreInv'
<1> SUFFICES ASSUME StoreInv, SetProfileKey PROVE StoreInv'
  OBVIOUS
<1>1. pc = At("setProfile", 0) /\ pc \notin {Off, Ready}
  BY DEF SetProfileKey, At, Off, Ready
<1>2. CASE Fail /\ UNCHANGED stored
  BY <1>1, <1>2, FailInv DEF SetProfileKey
<1>3. CASE /\ stored' = [stored EXCEPT !["profile"] = @ \cup {profile}]
           /\ pc' = At("commitProfile", 0)
           /\ UNCHANGED <<answer, nvsFailed>>
  <2>1. UNCHANGED <<profile, control, torn>>
    BY DEF SetProfileKey, SaveUnchanged
  <2>2. /\ stored' = [k \in ControlKey \cup {"profile"} |-> stored'[k]]
        /\ stored'["profile"] = stored["profile"] \cup {profile}
        /\ \A k \in ControlKey : stored'[k] = stored[k]
    BY <1>3, TheKeys DEF StoreInv, StoreTypeOK
  <2>3. StoreTypeOK'
    BY <1>3, <2>1, <2>2 DEF StoreInv, StoreTypeOK, StorePc
  <2>4. pc' \notin {Off, Ready} /\ pc'.step = "commitProfile"
    BY <1>3 DEF At, Off, Ready
  <2>5. answer # "ok"
    BY <1>1 DEF StoreInv, SavedSoFar
  <2>6. OffIsFresh' /\ SavedSoFar' /\ ModeInForce' /\ SettingsInForce' /\ FitInNvs'
    BY <1>3, <2>4, <2>5 DEF OffIsFresh, SavedSoFar, ModeInForce, SettingsInForce, FitInNvs
  <2>7. FitInRam'
    BY <1>1, <2>1 DEF StoreInv, FitInRam
  <2> QED
    BY <2>3, <2>6, <2>7 DEF StoreInv
<1> QED
  BY <1>2, <1>3 DEF SetProfileKey

LEMMA CommitProfileInv == StoreInv /\ CommitProfile => StoreInv'
<1> SUFFICES ASSUME StoreInv, CommitProfile PROVE StoreInv'
  OBVIOUS
<1>1. pc = At("commitProfile", 0) /\ pc \notin {Off, Ready}
  BY DEF CommitProfile, At, Off, Ready
<1>2. CASE Fail /\ UNCHANGED stored
  BY <1>1, <1>2, FailInv DEF CommitProfile
<1>3. CASE /\ stored' = [stored EXCEPT !["profile"] = {profile}]
           /\ pc' = At("setControl", 1)
           /\ UNCHANGED <<answer, nvsFailed>>
  <2>1. UNCHANGED <<profile, control, torn>>
    BY DEF CommitProfile, SaveUnchanged
  <2>2. /\ stored' = [k \in ControlKey \cup {"profile"} |-> stored'[k]]
        /\ stored'["profile"] = {profile}
        /\ \A k \in ControlKey : stored'[k] = stored[k]
    BY <1>3, TheKeys DEF StoreInv, StoreTypeOK
  <2>3. pc' \in StorePc
    BY <1>3 DEF StorePc
  <2>4. StoreTypeOK'
    BY <1>3, <2>1, <2>2, <2>3 DEF StoreInv, StoreTypeOK
  <2>5. pc' \notin {Off, Ready} /\ pc'.step = "setControl" /\ pc'.next = 1
    BY <1>3 DEF At, Off, Ready
  <2>6. answer # "ok"
    BY <1>1 DEF StoreInv, SavedSoFar
  <2>7. OffIsFresh' /\ SavedSoFar' /\ SettingsInForce' /\ FitInNvs'
    BY <1>3, <2>5, <2>6 DEF OffIsFresh, SavedSoFar, SettingsInForce, FitInNvs
  <2>8. ModeInForce'
    <3>1. profile # Missing
      BY StoreAssumption DEF StoreInv, StoreTypeOK
    <3> QED
      BY <2>1, <2>2, <3>1 DEF ModeInForce, BootMode
  <2>9. FitInRam'
    BY <1>1, <2>1 DEF StoreInv, FitInRam
  <2> QED
    BY <2>4, <2>7, <2>8, <2>9 DEF StoreInv
<1> QED
  BY <1>2, <1>3 DEF CommitProfile

LEMMA SetControlKeyInv == StoreInv /\ SetControlKey => StoreInv'
<1> SUFFICES ASSUME StoreInv, SetControlKey PROVE StoreInv'
  OBVIOUS
<1> DEFINE key == KeyOrder[pc.next]
<1>1. pc.step = "setControl" /\ pc \notin {Off, Ready}
  BY DEF SetControlKey, At, Off, Ready
<1>2. PICK i \in 1 .. 8 : pc = At("setControl", i)
  BY <1>1, PcParts DEF StoreInv, StoreTypeOK, StorePc
<1>3. pc.next = i /\ key \in ControlKey /\ "profile" \notin ControlKey
  BY <1>2, PcParts, TheKeys DEF ControlKey
<1>4. CASE Fail /\ UNCHANGED stored
  BY <1>1, <1>4, FailInv DEF SetControlKey
<1>5. CASE /\ stored' = [stored EXCEPT ![key] = @ \cup {control[key]}]
           /\ pc' = IF pc.next = Len(KeyOrder) THEN At("commitControl", 0)
                    ELSE At("setControl", pc.next + 1)
           /\ UNCHANGED <<answer, nvsFailed>>
  <2> HIDE DEF key
  <2>1. UNCHANGED <<profile, control, torn>>
    BY DEF SetControlKey, SaveUnchanged
  <2>2. /\ stored' = [k \in ControlKey \cup {"profile"} |-> stored'[k]]
        /\ stored'["profile"] = stored["profile"]
        /\ \A k \in ControlKey : stored'[k] = IF k = key THEN stored[k] \cup {control[k]} ELSE stored[k]
    BY <1>3, <1>5 DEF StoreInv, StoreTypeOK
  <2>3. /\ i = 8 => pc' = At("commitControl", 0)
        /\ i < 8 => pc' = At("setControl", i + 1) /\ i + 1 \in 1 .. 8
    BY <1>3, <1>5, TheKeys
  <2>4. pc' \in StorePc
    BY <2>3 DEF StorePc
  <2>5. control[key] \in FieldSet[key]
    BY <1>3, ControlFields DEF StoreInv, StoreTypeOK
  <2>6. StoreTypeOK'
    BY <1>5, <2>1, <2>2, <2>4, <2>5 DEF StoreInv, StoreTypeOK
  <2>7. pc' \notin {Off, Ready}
    BY <2>3 DEF At, Off, Ready
  <2>8. answer # "ok"
    BY <1>1 DEF StoreInv, SavedSoFar
  <2>9. OffIsFresh' /\ SettingsInForce' /\ FitInNvs'
    BY <2>7 DEF OffIsFresh, SettingsInForce, FitInNvs
  <2>10. \A j \in 1 .. 8 : j < i + 1 => control[KeyOrder[j]] \in stored'[KeyOrder[j]]
    <3>1. ASSUME NEW j \in 1 .. 8, j < i + 1 PROVE control[KeyOrder[j]] \in stored'[KeyOrder[j]]
      <4>1. KeyOrder[j] \in ControlKey
        BY TheKeys DEF ControlKey
      <4>2. CASE j = i
        BY <1>3, <2>2, <4>1, <4>2 DEF key
      <4>3. CASE j # i
        <5>1. j < i
          BY <3>1, <4>3
        <5>2. control[KeyOrder[j]] \in stored[KeyOrder[j]]
          BY <1>1, <1>3, <5>1 DEF StoreInv, SavedSoFar
        <5> QED
          BY <2>2, <4>1, <5>2
      <4> QED
        BY <4>2, <4>3
    <3> QED
      BY <3>1
  <2>11. SavedSoFar'
    <3>1. CASE i < 8
      <4>1. pc'.step = "setControl" /\ pc'.next = i + 1
        BY <2>3, <3>1, PcParts
      <4> QED
        BY <1>5, <2>1, <2>8, <2>10, <4>1 DEF SavedSoFar
    <3>2. CASE i = 8
      <4>1. pc'.step = "commitControl"
        BY <2>3, <3>2, PcParts
      <4>2. \A k \in ControlKey : control[k] \in stored'[k]
        BY <2>10, <3>2, TheKeys DEF ControlKey
      <4> QED
        BY <1>5, <2>1, <2>8, <4>1, <4>2 DEF SavedSoFar
    <3> QED
      BY <3>1, <3>2
  <2>12. ModeInForce'
    BY <1>1, <1>5, <2>1, <2>2 DEF StoreInv, ModeInForce
  <2>13. FitInRam'
    BY <1>1, <2>1 DEF StoreInv, FitInRam
  <2> QED
    BY <2>6, <2>9, <2>11, <2>12, <2>13 DEF StoreInv
<1> QED
  BY <1>4, <1>5 DEF SetControlKey

(* The commit: every one of the eight values was set, so each key holds the
   value in RAM and no other. *)
LEMMA CommitControlInv == StoreInv /\ CommitControl => StoreInv'
<1> SUFFICES ASSUME StoreInv, CommitControl PROVE StoreInv'
  OBVIOUS
<1>1. pc = At("commitControl", 0) /\ pc \notin {Off, Ready} /\ pc.step = "commitControl"
  BY DEF CommitControl, At, Off, Ready
<1>2. CASE Fail /\ UNCHANGED stored
  BY <1>1, <1>2, FailInv DEF CommitControl
<1>3. CASE /\ stored' = [k \in DOMAIN stored |->
                          IF k \in ControlKey /\ control[k] \in stored[k]
                          THEN {control[k]} ELSE stored[k]]
           /\ pc' = Ready /\ answer' = "ok" /\ UNCHANGED nvsFailed
  <2>1. UNCHANGED <<profile, control, torn>>
    BY DEF CommitControl, SaveUnchanged
  <2>2. DOMAIN stored = ControlKey \cup {"profile"} /\ "profile" \notin ControlKey
    BY TheKeys DEF StoreInv, StoreTypeOK
  <2>3. \A k \in ControlKey : control[k] \in stored[k]
    BY <1>1 DEF StoreInv, SavedSoFar
  <2>4. /\ stored' = [k \in ControlKey \cup {"profile"} |-> stored'[k]]
        /\ stored'["profile"] = stored["profile"]
        /\ \A k \in ControlKey : stored'[k] = {control[k]}
    BY <1>3, <2>2, <2>3
  <2>5. \A k \in ControlKey : control[k] \in FieldSet[k] /\ control[k] # Missing
    BY ControlFields, MissingIsNoValue DEF StoreInv, StoreTypeOK
  <2>6. StoreTypeOK'
    BY <1>3, <2>1, <2>4, <2>5 DEF StoreInv, StoreTypeOK, StorePc
  <2>7. OffIsFresh' /\ SavedSoFar'
    BY <1>3, <2>1, <2>4, PcParts DEF OffIsFresh, SavedSoFar
  <2>8. ModeInForce'
    BY <1>1, <1>3, <2>1, <2>4 DEF StoreInv, ModeInForce
  <2>9. SettingsInForce'
    BY <2>1, <2>4, <2>5 DEF SettingsInForce, BootSetting
  <2>10. FitInRam'
    BY <1>1, <2>1 DEF StoreInv, FitInRam
  <2>11. FitInNvs'
    <3>1. /\ "method" \in ControlKey /\ "acModules" \in ControlKey
      BY TheKeys
    <3>2. /\ stored'["method"] = {control["method"]}
          /\ stored'["acModules"] = {control["acModules"]}
          /\ control["method"] # Missing /\ control["acModules"] # Missing
      BY <2>4, <2>5, <3>1
    <3>3. ~torn => Fits(profile, control["method"], control["acModules"])
      BY <1>1 DEF StoreInv, FitInRam
    <3>4. ~nvsFailed => \A v \in stored["profile"] : BootMode(v) = profile
      BY <1>1 DEF StoreInv, ModeInForce
    <3> QED
      BY <1>3, <2>1, <2>4, <3>2, <3>3, <3>4 DEF FitInNvs, BootSetting
  <2> QED
    BY <2>6, <2>7, <2>8, <2>9, <2>10, <2>11 DEF StoreInv
<1> QED
  BY <1>2, <1>3 DEF CommitControl

LEMMA ResetInv == StoreInv /\ Reset => StoreInv'
<1> SUFFICES ASSUME StoreInv, Reset PROVE StoreInv'
  OBVIOUS
<1>1. /\ pc # Off /\ pc' = Off /\ answer' = "none" /\ torn' = (torn \/ nvsFailed \/ pc # Ready)
      /\ nvsFailed' = FALSE /\ profile' = DefaultProfile /\ control' = StaticControl
      /\ UNCHANGED stored
  BY DEF Reset
<1>2. ~nvsFailed' /\ torn' \in BOOLEAN /\ (~torn' => ~torn /\ ~nvsFailed /\ pc = Ready)
  BY <1>1
<1>3. StoreTypeOK'
  BY <1>1, <1>2, FirstControlTyped DEF StoreInv, StoreTypeOK, StorePc
<1>4. OffIsFresh' /\ SavedSoFar' /\ ModeInForce' /\ SettingsInForce' /\ FitInRam'
  BY <1>1, <1>2, PcParts DEF OffIsFresh, SavedSoFar, ModeInForce, SettingsInForce, FitInRam
<1>5. FitInNvs'
  BY <1>1, <1>2 DEF StoreInv, FitInNvs
<1> QED
  BY <1>3, <1>4, <1>5 DEF StoreInv

LEMMA StoreNextInv == StoreInv /\ [StoreNext]_storeVars => StoreInv'
<1> SUFFICES ASSUME StoreInv, [StoreNext]_storeVars PROVE StoreInv'
  OBVIOUS
<1>1. CASE UNCHANGED storeVars
  BY <1>1 DEF storeVars, StoreInv, StoreTypeOK, OffIsFresh, SavedSoFar, ModeInForce,
              SettingsInForce, FitInRam, FitInNvs
<1> QED
  BY <1>1, BootInv, BootWithoutNvsInv, RequestInv, SetProfileKeyInv, CommitProfileInv,
     SetControlKeyInv, CommitControlInv, ResetInv DEF StoreNext, Save

LEMMA StoreInvHolds == StoreSpec => []StoreInv
  BY StoreInitInv, StoreNextInv, PTL DEF StoreSpec

----------------------------------------------------------------------------

(* The settings keep their ranges and an NVS key never holds a value of
   another key, through cuts and failures. *)
THEOREM StoreTypeCorrect == StoreSpec => []StoreTypeOK
<1>1. StoreInv => StoreTypeOK
  BY DEF StoreInv
<1> QED
  BY <1>1, StoreInvHolds, PTL

(* Settings that were answered "ok" are the ones of every boot: the commit finds
   all eight values set. *)
THEOREM OkSurvives == StoreSpec => []OkIsDurable
<1>1. StoreInv => OkIsDurable
  BY DEF StoreInv, SavedSoFar, OkIsDurable
<1> QED
  BY <1>1, StoreInvHolds, PTL

(* As long as the NVS works, a boot at rest finds the mode and settings in force,
   though mode and settings are committed apart and a reset may have parted them. *)
THEOREM RestartUnseen == StoreSpec => []RestartIsInvisible
<1>1. StoreInv => RestartIsInvisible
  <2> SUFFICES ASSUME StoreInv, pc = Ready, ~nvsFailed, NEW image \in Images
               PROVE  /\ BootProfile(image) = profile
                      /\ \A k \in ControlKey \ {"method"} : BootControl(image)[k] = control[k]
    BY DEF RestartIsInvisible, AtRest
  <2>1. StoreTypeOK
    BY DEF StoreInv
  <2>2. BootProfile(image) = profile
    BY <2>1, ImageRead, PcParts DEF StoreInv, ModeInForce
  <2> QED
    BY <2>1, <2>2, ImageRead DEF StoreInv, SettingsInForce
<1> QED
  BY <1>1, StoreInvHolds, PTL

(* The actuation method suits the mode, for all requests, refused ones and resets
   included, as long as no reset has torn a save. *)
THEOREM MethodFits == StoreSpec => []MethodFitsMode
<1>1. StoreInv => MethodFitsMode
  BY PcParts DEF StoreInv, FitInRam, Fits, MethodFitsMode, AtRest
<1> QED
  BY <1>1, StoreInvHolds, PTL

=============================================================================
