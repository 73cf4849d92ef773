----------------------------- MODULE ProfileStore ----------------------------
(***************************************************************************)
(* device_profile.c and its NVS namespace: the setters change RAM, then    *)
(* write the mode (save_profile_key) and the eight control keys            *)
(* (save_control), each with a commit of its own.  A reset can fall        *)
(* between any two writes, and every NVS call can fail.                    *)
(*                                                                         *)
(* The NVS is external.  What is known of it is what its API promises: a   *)
(* value that was set and not committed may or may not survive a reset.    *)
(* `stored' therefore maps a key to the set of values a boot may find.     *)
(*                                                                         *)
(* Requests come one at a time from the web server's task, with numbers    *)
(* as they stand in the JSON.                                              *)
(***************************************************************************)
EXTENDS DeviceProfile, Sequences

CONSTANTS
    Missing,        \* a key that was never written
    ModeChoice,     \* modes the user chooses from
    WebRequest,     \* control requests: functions on field names, numbers as sent
    ModuleMask,     \* sets of AC modules asked for
    CondChoice,     \* condensation actions asked for
    MaxResets,      \* bound: resets of the chip
    MaxRequests     \* bound: requests

ASSUME StoreAssumption ==
    /\ ModeChoice \subseteq Profile
    /\ ModuleMask \subseteq SUBSET AcModule
    /\ CondChoice \subseteq CondAction
    /\ \A req \in WebRequest : RequestOK(req)
    /\ Missing \notin Profile \cup Method \cup FanRunMode \cup CondAction
    /\ Missing \notin BOOLEAN
    /\ Missing \notin 0 .. 600
    /\ \A modules \in SUBSET AcModule : Missing # modules
    /\ MaxResets \in Nat
    /\ MaxRequests \in Nat

VARIABLES
    profile, control,   \* s_profile and s_control
    stored,             \* the NVS: per key, the values a boot may find
    pc,                 \* where the web task is in the setter, "off" before boot
    answer,             \* of the last request: "none", "ok", "refused" or "failed"
    asked,              \* the last control request, as it was sent
    resets, requests,   \* counted for the bounds
    nvsFailed,          \* since boot, or in it, some call of the NVS has failed
    torn                \* some reset found a save incomplete

storeVars == <<profile, control, stored, pc, answer, asked, resets, requests, nvsFailed, torn>>

\* The order save_control writes its keys in.
KeyOrder == <<"enabled", "method", "fanMode", "fan1", "fan2", "cycle", "acModules", "acCond">>
ControlKey == {KeyOrder[i] : i \in DOMAIN KeyOrder}

NoAsk == [k \in {} |-> 0]

At(step, i) == [step |-> step, next |-> i]
Off == At("off", 0)
Ready == At("ready", 0)

----------------------------------------------------------------------------
\* Numbers on their way in.  (uint8_t) and (uint16_t) of a JSON number; the setters'
\* clamping comes after the cast.
Cast(k, n) == IF k = "cycle" THEN n % 65536 ELSE n % 256

Decode(req) ==
    [k \in DOMAIN req |-> IF k \in {"fan1", "fan2", "cycle"} THEN Cast(k, req[k]) ELSE req[k]]

\* load_all, from one value per key: the mode first, then each key that is there.
BootProfile(image) == IF image["profile"] = Missing THEN DefaultProfile ELSE image["profile"]

BootControl(image) ==
    LET defaults == ProfileDefaults(DefaultProfile, StaticControl)
    IN [k \in DOMAIN defaults |->
          IF image[k] # Missing THEN image[k]
          ELSE IF k = "enabled" THEN ControlDefaultOn(BootProfile(image))
          ELSE defaults[k]]

\* What a boot may find.
Images ==
    [profile : stored["profile"], enabled : stored["enabled"], method : stored["method"],
     fanMode : stored["fanMode"], fan1 : stored["fan1"], fan2 : stored["fan2"],
     cycle : stored["cycle"], acModules : stored["acModules"], acCond : stored["acCond"]]

----------------------------------------------------------------------------

StoreInit ==
    /\ stored = [k \in ControlKey \cup {"profile"} |-> {Missing}]
    /\ profile = DefaultProfile
    /\ control = StaticControl
    /\ pc = Off
    /\ answer = "none"
    /\ asked = NoAsk
    /\ resets = 0
    /\ requests = 0
    /\ nvsFailed = FALSE
    /\ torn = FALSE

\* device_profile_init: the defaults of the default mode, then what the NVS holds.
BootProfileStore ==
    /\ pc = Off
    /\ \E image \in Images :
          /\ profile' = BootProfile(image)
          /\ control' = BootControl(image)
          /\ stored' = [k \in DOMAIN stored |-> {image[k]}]
    /\ pc' = Ready
    /\ UNCHANGED <<answer, asked, resets, requests, nvsFailed, torn>>

\* load_all cannot open the namespace: a warning in the log, and the defaults it is.
BootWithoutNvs ==
    /\ pc = Off
    /\ profile' = DefaultProfile
    /\ control' = ProfileDefaults(DefaultProfile, StaticControl)
    /\ nvsFailed' = TRUE
    /\ pc' = Ready
    /\ UNCHANGED <<stored, answer, asked, resets, requests, torn>>

\* The request is accepted: RAM changes at once, and the save begins.
Accept(p, ctrl, req, first) ==
    /\ profile' = p
    /\ control' = ctrl
    /\ asked' = req
    /\ pc' = first
    /\ answer' = "none"
    /\ UNCHANGED <<stored, resets, nvsFailed, torn>>

\* The request is refused: what it changed in RAM before stays, and nothing is saved.
Refuse(ctrl) ==
    /\ control' = ctrl
    /\ answer' = "refused"
    /\ asked' = NoAsk
    /\ UNCHANGED <<profile, stored, pc, resets, nvsFailed, torn>>

NewRequest ==
    /\ pc = Ready
    /\ requests < MaxRequests
    /\ requests' = requests + 1

\* device_profile_set
SetProfile(p) ==
    NewRequest /\ Accept(p, ProfileDefaults(p, control), NoAsk, At("setProfile", 0))

\* device_profile_set_control
SetControl(req) ==
    LET ctrl == ControlAfter(profile, control, Decode(req))
    IN /\ NewRequest
       /\ IF ControlAccepted(profile, Decode(req))
          THEN Accept(profile, ctrl, req, At("setControl", 1))
          ELSE Refuse(ctrl)

\* device_profile_set_ac_modules
SetAcModules(modules) ==
    /\ NewRequest
    /\ IF profile = "ac_monitor"
       THEN Accept(profile, AcModulesAfter(control, modules), NoAsk, At("setControl", 1))
       ELSE Refuse(control)

\* device_profile_set_ac_cond_action
SetAcCond(action) ==
    NewRequest /\ Accept(profile, [control EXCEPT !.acCond = action], NoAsk, At("setControl", 1))

----------------------------------------------------------------------------
\* The saves.  A call that fails ends the setter with its error.

Fail ==
    /\ pc' = Ready
    /\ answer' = "failed"
    /\ nvsFailed' = TRUE

SaveUnchanged == UNCHANGED <<profile, control, asked, resets, requests, torn>>

\* nvs_open and nvs_set_u8 of save_profile_key
SetProfileKey ==
    /\ pc = At("setProfile", 0)
    /\ \/ /\ stored' = [stored EXCEPT !["profile"] = @ \cup {profile}]
          /\ pc' = At("commitProfile", 0)
          /\ UNCHANGED <<answer, nvsFailed>>
       \/ Fail /\ UNCHANGED stored
    /\ SaveUnchanged

\* Fault: the defaults of the new mode are not saved with it.
CommitProfileOnly ==
    /\ pc = At("commitProfile", 0)
    /\ \/ /\ stored' = [stored EXCEPT !["profile"] = {profile}]
          /\ pc' = Ready
          /\ answer' = "ok"
          /\ UNCHANGED nvsFailed
       \/ Fail /\ UNCHANGED stored
    /\ SaveUnchanged

\* nvs_commit of save_profile_key
CommitProfile ==
    /\ pc = At("commitProfile", 0)
    /\ \/ /\ stored' = [stored EXCEPT !["profile"] = {profile}]
          /\ pc' = At("setControl", 1)
          /\ UNCHANGED <<answer, nvsFailed>>
       \/ Fail /\ UNCHANGED stored
    /\ SaveUnchanged

\* One nvs_set of save_control
SetControlKey ==
    /\ pc.step = "setControl"
    /\ \/ /\ stored' = [stored EXCEPT ![KeyOrder[pc.next]] = @ \cup {control[KeyOrder[pc.next]]}]
          /\ pc' = IF pc.next = Len(KeyOrder) THEN At("commitControl", 0)
                   ELSE At("setControl", pc.next + 1)
          /\ UNCHANGED <<answer, nvsFailed>>
       \/ Fail /\ UNCHANGED stored
    /\ SaveUnchanged

\* Fault: the result of the commit is not looked at.
CommitControlBlind ==
    /\ pc = At("commitControl", 0)
    /\ \/ stored' = [k \in DOMAIN stored |->
                       IF k \in ControlKey /\ control[k] \in stored[k]
                       THEN {control[k]} ELSE stored[k]]
       \/ UNCHANGED stored
    /\ pc' = Ready
    /\ answer' = "ok"
    /\ UNCHANGED nvsFailed
    /\ SaveUnchanged

\* nvs_commit of save_control: what the eight calls have set is what a boot will find.
CommitControl ==
    /\ pc = At("commitControl", 0)
    /\ \/ /\ stored' = [k \in DOMAIN stored |->
                          IF k \in ControlKey /\ control[k] \in stored[k]
                          THEN {control[k]} ELSE stored[k]]
          /\ pc' = Ready
          /\ answer' = "ok"
          /\ UNCHANGED nvsFailed
       \/ Fail /\ UNCHANGED stored
    /\ SaveUnchanged

\* A reset of the chip, at any point.
Reset ==
    /\ pc # Off
    /\ resets < MaxResets
    /\ resets' = resets + 1
    /\ pc' = Off
    /\ answer' = "none"
    /\ asked' = NoAsk
    /\ torn' = (torn \/ nvsFailed \/ pc # Ready)
    /\ nvsFailed' = FALSE
    /\ profile' = DefaultProfile
    /\ control' = StaticControl
    /\ UNCHANGED <<stored, requests>>

Request ==
    \/ \E p \in ModeChoice : SetProfile(p)
    \/ \E req \in WebRequest : SetControl(req)
    \/ \E modules \in ModuleMask : SetAcModules(modules)
    \/ \E action \in CondChoice : SetAcCond(action)

Save == SetProfileKey \/ CommitProfile \/ SetControlKey \/ CommitControl

StoreNext == BootProfileStore \/ BootWithoutNvs \/ Request \/ Save \/ Reset

StoreSpec == StoreInit /\ [][StoreNext]_storeVars

----------------------------------------------------------------------------

AtRest == pc = Ready

(* A request that was answered "ok" survives any reset, all of it, whatever
   failed before: device_profile_set_control and its siblings answer with the
   result of the commit. *)
OkIsDurable == AtRest /\ answer = "ok" => \A k \in ControlKey : stored[k] = {control[k]}

(* A restart cannot be noticed: as long as no call of the NVS has failed, every boot finds
   the mode and the settings that are in force now, the ones of the untouched
   NVS and the ones a reset in mid-save left behind included.  The method is
   left out: a refused request can have changed it in RAM. *)
RestartIsInvisible ==
    AtRest /\ ~nvsFailed =>
        \A image \in Images :
            /\ BootProfile(image) = profile
            /\ \A k \in ControlKey \ {"method"} : BootControl(image)[k] = control[k]

(* The actuation method always is one the mode accepts, or the PWM of Mobil AC's
   assist fans, across changes of mode and of AC modules, unless a reset has
   torn a save: the mode and the control record have a commit each. *)
MethodFitsMode ==
    AtRest /\ ~torn =>
        \/ MethodAllowed(profile, control.method)
        \/ profile = "ac_monitor" /\ "assist_fans" \in control.acModules

(* "Speeds clamped 0-100": after a request for a speed the stored speed is the
   one asked for, or the nearer end of the range. *)
SpeedsAreClamped ==
    AtRest /\ answer = "ok" =>
        \A k \in {"fan1", "fan2"} \cap DOMAIN asked : control[k] = Clamp(asked[k], 0, 100)

=============================================================================
