---------------------------- MODULE SensorSource ----------------------------
(***************************************************************************)
(* Where the readings come from: hardware_manager.c detects the sensors    *)
(* and holds the user's choice of a data source, sensor_manager.c reads    *)
(* the SHT40s or makes numbers up, sht4x_sensor.c talks to one sensor.     *)
(*                                                                         *)
(* Two tasks meet here.  The control task reads all slots once a second.   *)
(* POST /api/hardware/mode changes the source under hardware_manager's     *)
(* mutex, saves it, and then takes the sensor manager down and up again,   *)
(* slot by slot and with no lock, while the control task may be anywhere   *)
(* in a read.                                                              *)
(*                                                                         *)
(* The wires are external: a sensor may be missing at boot, refuse to be   *)
(* initialised, and fail any read.  So does a read through a handle the    *)
(* other task has freed meanwhile: it brings a reading or none.            *)
(***************************************************************************)
EXTENDS Integers, FiniteSets

CONSTANTS
    Slots,          \* SENSOR_MANAGER_MAX_SENSORS
    Missing,        \* the key was never written
    MaxRequests,    \* bound: requests for a data source
    MaxResets       \* bound: resets of the chip

ASSUME SourceAssumption ==
    /\ Slots \in Nat \ {0}
    /\ MaxRequests \in Nat
    /\ MaxResets \in Nat

Source == {"auto", "simulation", "hardware"}
Slot == 1 .. Slots

ASSUME MissingAssumption == Missing \notin Source

VARIABLES
    detected,       \* g_hw_status.detected, the sensors
    source,         \* s_data_source
    simulated,      \* g_hw_status.simulation_mode
    stored,         \* the NVS: the values a boot may find
    simMode,        \* s_simulation_mode
    active,         \* s_slot_active
    lastData,       \* s_last_data
    read,           \* the control task: where it is, and its local data
    web,            \* the web task: where it is, and target_sim
    answer,         \* of the last request that had the mutex: "none", "ok" or "failed"
    settled,        \* the read under way began after that request was answered
    requests, resets    \* counted for the bounds

hwVars == <<detected, source, simulated, stored>>
managerVars == <<simMode, active>>
boundVars == <<requests, resets>>
sourceVars == <<hwVars, managerVars, lastData, read, web, answer, settled, boundVars>>

Data == [from : {"none", "simulation", "sensors"}, valid : SUBSET Slot]
NoData == [from |-> "none", valid |-> {}]

At(step, i) == [step |-> step, slot |-> i]
Off == At("off", 0)
Idle == At("idle", 0)

SourceTypeOK ==
    /\ detected \subseteq Slot
    /\ source \in Source
    /\ simulated \in BOOLEAN
    /\ stored \subseteq Source \cup {Missing} /\ stored # {}
    /\ simMode \in BOOLEAN
    /\ active \subseteq detected
    /\ lastData \in Data
    /\ read.at \in {Off, Idle, At("publish", 0)} \cup {At("slot", i) : i \in Slot}
    /\ read.data \in Data
    /\ web.at \in {Off, Idle, At("save", 0), At("commit", 0), At("refresh", 0), At("switch", 0),
                   At("decide", 0)}
                 \cup {At("deinit", i) : i \in Slot} \cup {At("init", i) : i \in Slot}
    /\ web.target \in BOOLEAN
    /\ answer \in {"none", "ok", "failed"}
    /\ settled \in BOOLEAN

----------------------------------------------------------------------------

\* apply_data_source_preference: simulation or not, with these sensors detected
Applied(s, sensors) == s = "simulation" \/ (s = "auto" /\ sensors = {})

\* Fault: without a sensor there is simulation, whatever was asked for.
FallsBackAlways(s) == TRUE

\* init_hardware_sensors with no sensor initialised: simulation, unless hardware is forced.
FallsBack(s) == s # "hardware"

\* sht4x_init: the I2C driver, then the serial number as a sign of life
Sht4xInit == {"ok", "no memory", "bus error", "not present"}

\* sht4x_read with its two CRCs, and validate_reading on what it brings
Sht4xRead == {"valid", "no answer", "bad CRC", "out of range"}

\* generate_simulated_data: a reading in every slot
SimulatedData == [from |-> "simulation", valid |-> Slot]

\* load_data_source_preference: a missing key leaves the default.
BootSource(value) == IF value = Missing THEN "auto" ELSE value

SourceInit ==
    /\ detected = {}
    /\ source = "auto"
    /\ simulated = FALSE
    /\ stored = {Missing}
    /\ simMode = FALSE
    /\ active = {}
    /\ lastData = NoData
    /\ read = [at |-> Off, data |-> NoData]
    /\ web = [at |-> Off, target |-> FALSE]
    /\ answer = "none"
    /\ settled = FALSE
    /\ requests = 0 /\ resets = 0

\* init_i2c_master: the driver is configured and installed, or there is no bus.
I2cStarts == BOOLEAN

\* detect_sht40_sensors: who answers on the bus.
Detect(bus) == detected' \in IF bus THEN SUBSET Slot ELSE {{}}

\* sensor_manager_init: the sensors that were detected and let themselves be initialised.
InitSensorManager ==
    IF simulated'
    THEN simMode' = TRUE /\ active' = {}
    ELSE /\ active' \in SUBSET detected'
         /\ simMode' = (active' = {} /\ FallsBack(source'))

\* hardware_manager_init and sensor_manager_init, before the tasks start.
BootSensors ==
    /\ web.at = Off
    /\ \E bus \in I2cStarts : Detect(bus)
    /\ \E value \in stored : source' = BootSource(value) /\ stored' = {value}
    /\ simulated' = Applied(source', detected')
    /\ InitSensorManager
    /\ read' = [at |-> Idle, data |-> NoData]
    /\ web' = [web EXCEPT !.at = Idle]
    /\ UNCHANGED <<lastData, answer, settled, boundVars>>

\* A reset of the chip, at any point.
Reset ==
    /\ web.at # Off
    /\ resets < MaxResets
    /\ resets' = resets + 1
    /\ detected' = {} /\ source' = "auto" /\ simulated' = FALSE
    /\ simMode' = FALSE /\ active' = {}
    /\ lastData' = NoData
    /\ read' = [at |-> Off, data |-> NoData]
    /\ web' = [at |-> Off, target |-> FALSE]
    /\ answer' = "none"
    /\ settled' = FALSE
    /\ UNCHANGED <<stored, requests>>

----------------------------------------------------------------------------
\* The control task: sensor_manager_read_all, then sensor_manager_update_data

ReadVars == UNCHANGED <<hwVars, managerVars, web, answer, boundVars>>

\* s_simulation_mode decides once for the whole read.
StartRead ==
    /\ read.at = Idle
    /\ read' = IF simMode
               THEN [at |-> At("publish", 0), data |-> SimulatedData]
               ELSE [at |-> At("slot", 1), data |-> [from |-> "sensors", valid |-> {}]]
    /\ settled' = (web.at = Idle /\ answer = "ok")
    /\ UNCHANGED lastData /\ ReadVars

\* One slot; what goes wrong leaves it without a reading.
ReadSlot ==
    /\ read.at.step = "slot"
    /\ LET i == read.at.slot
       IN \E outcome \in Sht4xRead :
            read' = [at |-> IF i = Slots THEN At("publish", 0) ELSE At("slot", i + 1),
                     data |-> IF i \in active /\ outcome = "valid"
                              THEN [read.data EXCEPT !.valid = @ \cup {i}] ELSE read.data]
    /\ UNCHANGED <<lastData, settled>> /\ ReadVars

Publish ==
    /\ read.at = At("publish", 0)
    /\ lastData' = read.data
    /\ read' = [read EXCEPT !.at = Idle]
    /\ UNCHANGED settled /\ ReadVars

ControlStep == StartRead \/ ReadSlot \/ Publish

----------------------------------------------------------------------------
\* The web task: POST /api/hardware/mode

WebUnchanged == UNCHANGED <<detected, lastData, read, boundVars>>

GoTo(at) == web' = [web EXCEPT !.at = at]

Answer(a) == GoTo(Idle) /\ answer' = a

\* hardware_set_data_source, the part under the mutex.  A request that cannot have it for
\* 100 ms is answered with an error and changes nothing: it is no step.
SetDataSource(s) ==
    /\ web.at = Idle
    /\ requests < MaxRequests
    /\ requests' = requests + 1
    /\ source' = s
    /\ simulated' = Applied(s, detected)
    /\ GoTo(At("save", 0))
    /\ answer' = "none"
    /\ settled' = FALSE
    /\ UNCHANGED <<detected, stored, managerVars, lastData, read, resets>>

\* save_data_source_preference: nvs_open and nvs_set_u8.  A failure is a 500, and no refresh.
SaveDataSource ==
    /\ web.at = At("save", 0)
    /\ \/ stored' = stored \cup {source} /\ GoTo(At("commit", 0)) /\ UNCHANGED answer
       \/ Answer("failed") /\ UNCHANGED stored
    /\ UNCHANGED <<source, simulated, managerVars, settled>> /\ WebUnchanged

\* Fault: the answer of nvs_commit is not looked at.
CommitFailsUnseen == GoTo(At("refresh", 0)) /\ UNCHANGED answer

CommitFails == Answer("failed")

\* nvs_commit
CommitDataSource ==
    /\ web.at = At("commit", 0)
    /\ \/ stored' = {source} /\ GoTo(At("refresh", 0)) /\ UNCHANGED answer
       \/ CommitFails /\ UNCHANGED stored
    /\ UNCHANGED <<source, simulated, managerVars, settled>> /\ WebUnchanged

\* Fault: simulation, once there, is never left.
ModeIsCurrentOnceSimulated == simMode \/ ~simulated

ModeIsCurrent == simulated = simMode

\* sensor_manager_refresh_mode: nothing to do if the mode is the one it has.
RefreshMode ==
    /\ web.at = At("refresh", 0)
    /\ IF ModeIsCurrent
       THEN Answer("ok")
       ELSE web' = [at |-> At("deinit", 1), target |-> simulated] /\ UNCHANGED answer
    /\ UNCHANGED <<source, simulated, stored, managerVars, settled>> /\ WebUnchanged

\* One slot of sensor_manager_deinit
DeinitSlot ==
    /\ web.at.step = "deinit"
    /\ active' = active \ {web.at.slot}
    /\ GoTo(IF web.at.slot = Slots THEN At("switch", 0) ELSE At("deinit", web.at.slot + 1))
    /\ UNCHANGED <<source, simulated, stored, simMode, answer, settled>> /\ WebUnchanged

\* The new mode, and the last data forgotten
SwitchMode ==
    /\ web.at = At("switch", 0)
    /\ simMode' = web.target
    /\ lastData' = NoData
    /\ IF web.target THEN Answer("ok") ELSE GoTo(At("init", 1)) /\ UNCHANGED answer
    /\ UNCHANGED <<hwVars, active, read, settled, boundVars>>

\* Fault: sensors that were not detected are initialised too.
Initialised(outcome) == IF outcome = "ok" THEN active \cup {web.at.slot} ELSE active

\* The slots in use after sht4x_init, which is called for detected sensors only
ActiveAfter(outcome) ==
    IF web.at.slot \in detected /\ outcome = "ok" THEN active \cup {web.at.slot} ELSE active

\* One slot of init_hardware_sensors
InitSlot ==
    /\ web.at.step = "init"
    /\ \E outcome \in Sht4xInit : active' = ActiveAfter(outcome)
    /\ GoTo(IF web.at.slot = Slots THEN At("decide", 0) ELSE At("init", web.at.slot + 1))
    /\ UNCHANGED <<source, simulated, stored, simMode, answer, settled>> /\ WebUnchanged

\* The end of init_hardware_sensors: what to do without a sensor
DecideMode ==
    /\ web.at = At("decide", 0)
    /\ simMode' = (active = {} /\ FallsBack(source))
    /\ Answer("ok")
    /\ UNCHANGED <<source, simulated, stored, active, settled>> /\ WebUnchanged

Handler ==
    \/ SaveDataSource \/ CommitDataSource
    \/ RefreshMode \/ DeinitSlot \/ SwitchMode \/ InitSlot \/ DecideMode

SourceNext ==
    \/ BootSensors \/ Reset
    \/ ControlStep
    \/ Handler
    \/ \E s \in Source : SetDataSource(s)

SourceSpec ==
    /\ SourceInit /\ [][SourceNext]_sourceVars
    /\ WF_sourceVars(BootSensors) /\ WF_sourceVars(ControlStep) /\ WF_sourceVars(Handler)

----------------------------------------------------------------------------

(* "Sensor data source preference": what the control task reads after a request was answered
   with success comes from the source asked for: made-up numbers never pass for
   readings once the hardware was asked for, whatever the sensors do, and no
   reading passes once simulation was. *)
ReadsFollowTheSource ==
    settled /\ read.at = At("publish", 0) =>
        /\ source = "hardware" => read.data.from = "sensors"
        /\ source = "simulation" => read.data.from = "simulation"

(* A source whose request was answered with success is the source after any reset,
   also when earlier requests had failed half-way. *)
SourceIsKept == web.at = Idle /\ answer = "ok" => stored = {source}

(* A change of the source comes through: the data the rest of the firmware sees are of
   the source asked for in the end, unless it is changed again or the chip is reset. *)
SourceTakesEffect ==
    \A s \in {"hardware", "simulation"} :
        source = s /\ web.at = At("refresh", 0)
            ~> \/ lastData.from = (IF s = "hardware" THEN "sensors" ELSE "simulation")
               \/ source # s \/ web.at.step \in {"off", "save"}

=============================================================================
