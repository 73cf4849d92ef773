---------------------------- MODULE ReadingsProofs ---------------------------
(***************************************************************************)
(* From the sensors to the Mini-FTX automatic.  First which source the     *)
(* readings are of, while the web task changes it, for any number of       *)
(* slots; then what the automatic makes of what is read, for all air the   *)
(* sensors can report: any temperatures and humidities, any dew point,     *)
(* ticks of any length.                                                    *)
(***************************************************************************)
EXTENDS SensorSource, FrostRuntime, TLAPS

----------------------------------------------------------------------------
\* The source of the readings

\* What the choice of a source demands of readings.
Fits(s, sim) == (s = "hardware" => ~sim) /\ (s = "simulation" => sim)

FromFits(s, data) ==
    /\ s = "hardware" => data.from = "sensors"
    /\ s = "simulation" => data.from = "simulation"

\* Where the handler can be, and the steps on which the request is committed.
Committed == {"refresh", "deinit", "switch", "init", "decide"}

WebSteps == {"off", "idle", "save", "commit"} \cup Committed
WebPlace == [step : WebSteps, slot : Int]
ReadData == [from : {"none", "simulation", "sensors"}, valid : SUBSET Int]
ReadPlace == [step : {"off", "idle", "slot", "publish"}, slot : Int]

\* The source and its copy in the NVS; the handler carries it through to the mode.
SourceInv ==
    /\ read \in [at : ReadPlace, data : ReadData]
    /\ web \in [at : WebPlace, target : BOOLEAN]
    /\ detected \subseteq Slot
    /\ simulated \in BOOLEAN /\ simMode \in BOOLEAN
    /\ web.at.step = "idle" => web.at = Idle
    /\ web.at.step # "off" => simulated = Applied(source, detected)
    /\ web.at.step \in {"deinit", "switch"} => web.target = simulated
    /\ web.at.step \in {"init", "decide"} => ~simulated
    /\ answer = "ok" => /\ web.at.step = "idle"
                        /\ stored = {source} /\ Fits(source, simMode)
    /\ web.at.step \in Committed => stored = {source}

\* A read that began after the request was answered.
ReadInv ==
    settled => /\ web.at.step = "idle" /\ answer = "ok"
               /\ read.at.step \in {"slot", "publish"} => FromFits(source, read.data)

Inv == SourceInv /\ ReadInv

LEMMA Places ==
    /\ Off \in WebPlace /\ Off.step = "off"
    /\ Idle \in WebPlace /\ Idle.step = "idle"
    /\ Off \in ReadPlace /\ Idle \in ReadPlace
    /\ \A st \in WebSteps, i \in Int : At(st, i) \in WebPlace
    /\ \A st \in {"slot", "publish"}, i \in Int : At(st, i) \in ReadPlace
    /\ \A st, i : At(st, i).step = st
  BY DEF Off, Idle, At, WebSteps, WebPlace, ReadPlace

LEMMA Datas ==
    /\ NoData \in ReadData /\ SimulatedData \in ReadData /\ SimulatedData.from = "simulation"
    /\ [from |-> "sensors", valid |-> {}] \in ReadData
    /\ [from |-> "sensors", valid |-> {}].from = "sensors"
    /\ \A d \in ReadData, i \in Int : /\ [d EXCEPT !.valid = d.valid \cup {i}] \in ReadData
                                   /\ [d EXCEPT !.valid = d.valid \cup {i}].from = d.from
  BY SourceAssumption DEF NoData, SimulatedData, ReadData, Slot

LEMMA Records ==
    /\ \A a \in ReadPlace, d \in ReadData :
          /\ [at |-> a, data |-> d] \in [at : ReadPlace, data : ReadData]
          /\ [at |-> a, data |-> d].at = a /\ [at |-> a, data |-> d].data = d
    /\ \A w \in [at : WebPlace, target : BOOLEAN] : \A a \in WebPlace :
          /\ [w EXCEPT !.at = a] \in [at : WebPlace, target : BOOLEAN]
          /\ [w EXCEPT !.at = a].at = a /\ [w EXCEPT !.at = a].target = w.target
    /\ \A a \in WebPlace, b \in BOOLEAN :
          /\ [at |-> a, target |-> b] \in [at : WebPlace, target : BOOLEAN]
          /\ [at |-> a, target |-> b].at = a /\ [at |-> a, target |-> b].target = b
  OBVIOUS

LEMMA AppliedFits ==
    \A s, d : Applied(s, d) \in BOOLEAN /\ Fits(s, Applied(s, d))
  BY DEF Fits, Applied

LEMMA SourceInitOk == SourceInit => Inv
<1> SUFFICES ASSUME SourceInit PROVE Inv
  OBVIOUS
<1>1. read \in [at : ReadPlace, data : ReadData]
  BY Places, Datas, Records DEF SourceInit
<1>2. web \in [at : WebPlace, target : BOOLEAN] /\ web.at.step = "off"
  BY Places, Records DEF SourceInit
<1>3. SourceInv
  BY <1>1, <1>2 DEF SourceInit, SourceInv, Committed
<1> QED
  BY <1>3 DEF SourceInit, Inv, ReadInv

\* The handler's place after GoTo.
LEMMA Goes ==
    ASSUME NEW st \in WebSteps, NEW i \in Int, SourceInv, web' = [web EXCEPT !.at = At(st, i)]
    PROVE  /\ web' \in [at : WebPlace, target : BOOLEAN]
           /\ web'.at.step = st /\ web'.target = web.target
           /\ web'.at = At(st, i)
  BY Places, Records DEF SourceInv

LEMMA WebStepsAre ==
    /\ {"off", "idle", "save", "commit"} \subseteq WebSteps
    /\ {"refresh", "deinit", "switch", "init", "decide"} \subseteq WebSteps
    /\ Committed \subseteq WebSteps /\ Slot \subseteq Int /\ 0 \in Int
  BY SourceAssumption DEF WebSteps, Committed, Slot

\* The control task's steps.
LEMMA ReadStep == ASSUME Inv, ControlStep PROVE Inv'
<1> USE DEF Inv
<1>1. UNCHANGED <<hwVars, managerVars, web, answer>>
  BY DEF ControlStep, StartRead, ReadSlot, Publish, ReadVars
<1>2. SourceInv' <=> read' \in [at : ReadPlace, data : ReadData]
  BY <1>1 DEF SourceInv, hwVars, managerVars
<1>3. CASE StartRead
  <2>1. CASE simMode
    <3>1. read' = [at |-> At("publish", 0), data |-> SimulatedData]
      BY <1>3, <2>1 DEF StartRead
    <3>2. read' \in [at : ReadPlace, data : ReadData] /\ read'.data.from = "simulation"
      BY <3>1, Places, Datas, Records
    <3>3. ReadInv'
      BY <1>1, <1>3, <2>1, <3>2, Places DEF StartRead, ReadInv, SourceInv, Fits, FromFits, hwVars
    <3> QED
      BY <1>2, <3>2, <3>3
  <2>2. CASE ~simMode
    <3>1. read' = [at |-> At("slot", 1), data |-> [from |-> "sensors", valid |-> {}]]
      BY <1>3, <2>2 DEF StartRead
    <3>2. read' \in [at : ReadPlace, data : ReadData] /\ read'.data.from = "sensors"
      BY <3>1, Places, Datas, Records
    <3>3. ReadInv'
      BY <1>1, <1>3, <2>2, <3>2, Places DEF StartRead, ReadInv, SourceInv, Fits, FromFits, hwVars
    <3> QED
      BY <1>2, <3>2, <3>3
  <2> QED
    BY <2>1, <2>2
<1>4. CASE ReadSlot
  <2> DEFINE i == read.at.slot
  <2>1. PICK outcome \in Sht4xRead :
           read' = [at |-> IF i = Slots THEN At("publish", 0) ELSE At("slot", i + 1),
                    data |-> IF i \in active /\ outcome = "valid"
                             THEN [read.data EXCEPT !.valid = @ \cup {i}] ELSE read.data]
    BY <1>4 DEF ReadSlot
  <2>2. i \in Int /\ read.data \in ReadData /\ read.at.step = "slot"
    BY <1>4 DEF ReadSlot, SourceInv, ReadPlace
  <2>3. (IF i = Slots THEN At("publish", 0) ELSE At("slot", i + 1)) \in ReadPlace
    BY <2>2, Places
  <2>4. PICK a \in ReadPlace, d \in ReadData :
           read' = [at |-> a, data |-> d] /\ d.from = read.data.from
    BY <2>1, <2>2, <2>3, Datas
  <2>5. read' \in [at : ReadPlace, data : ReadData] /\ read'.data.from = read.data.from
    BY <2>4, Records
  <2>6. ReadInv'
    BY <1>1, <1>4, <2>2, <2>5 DEF ReadSlot, ReadInv, FromFits, hwVars
  <2> QED
    BY <1>2, <2>5, <2>6
<1>5. CASE Publish
  <2>1. read' = [read EXCEPT !.at = Idle]
    BY <1>5 DEF Publish
  <2>2. read' \in [at : ReadPlace, data : ReadData] /\ read'.at = Idle
    BY <2>1, Places DEF SourceInv
  <2>3. ReadInv'
    BY <1>1, <1>5, <2>2, Places DEF Publish, ReadInv
  <2> QED
    BY <1>2, <2>2, <2>3
<1> QED
  BY <1>3, <1>4, <1>5 DEF ControlStep

\* Boot and reset.
LEMMA BootStep == ASSUME Inv, BootSensors PROVE Inv'
<1>1. /\ web.at = Off /\ web' = [web EXCEPT !.at = Idle]
      /\ simulated' = Applied(source', detected') /\ answer' = answer /\ settled' = settled
      /\ InitSensorManager /\ read' = [at |-> Idle, data |-> NoData]
  BY DEF BootSensors
<1>2. web' \in [at : WebPlace, target : BOOLEAN] /\ web'.at = Idle
  BY <1>1, Places, Records DEF Inv, SourceInv
<1>3. read' \in [at : ReadPlace, data : ReadData] /\ read'.at = Idle
  BY <1>1, Places, Datas, Records
<1>4. detected' \subseteq Slot
  BY DEF BootSensors, Detect
<1>5. simMode' \in BOOLEAN /\ simulated' \in BOOLEAN
  BY <1>1, AppliedFits DEF InitSensorManager, FallsBack
<1> QED
  BY <1>1, <1>2, <1>3, <1>4, <1>5, Places DEF Inv, SourceInv, ReadInv, Committed

LEMMA ResetStep == ASSUME Inv, Reset PROVE Inv'
<1>1. /\ web' = [at |-> Off, target |-> FALSE] /\ read' = [at |-> Off, data |-> NoData]
      /\ detected' = {} /\ simulated' = FALSE /\ simMode' = FALSE
      /\ answer' = "none" /\ settled' = FALSE
  BY DEF Reset
<1>2. web' \in [at : WebPlace, target : BOOLEAN] /\ web'.at = Off
  BY <1>1, Places, Records
<1>3. read' \in [at : ReadPlace, data : ReadData]
  BY <1>1, Places, Datas, Records
<1> QED
  BY <1>1, <1>2, <1>3, Places DEF Inv, SourceInv, ReadInv, Committed

\* The web task's steps: each leaves the read alone, and none is made while a read counts as
\* settled but the one that begins a request.
LEMMA WebRead ==
    ASSUME Inv, UNCHANGED <<read, settled>>, web.at.step # "idle"
    PROVE  ReadInv'
  BY DEF Inv, ReadInv

LEMMA RequestStep == ASSUME Inv, NEW s \in Source, SetDataSource(s) PROVE Inv'
<1>1. /\ web.at = Idle /\ web' = [web EXCEPT !.at = At("save", 0)]
      /\ source' = s /\ simulated' = Applied(s, detected)
      /\ answer' = "none" /\ settled' = FALSE /\ UNCHANGED <<detected, managerVars, read>>
  BY DEF SetDataSource, GoTo
<1>2. /\ web' \in [at : WebPlace, target : BOOLEAN] /\ web'.at.step = "save"
  BY <1>1, Goes, WebStepsAre DEF Inv
<1> QED
  BY <1>1, <1>2, AppliedFits DEF Inv, SourceInv, ReadInv, Committed, managerVars

LEMMA HandlerStep == ASSUME Inv, Handler PROVE Inv'
<1> USE DEF Inv, WebUnchanged, GoTo, boundVars, managerVars, hwVars, Committed
<1>0. Idle = At("idle", 0)
  BY DEF Idle
<1>1. CASE SaveDataSource
  <2>1. web.at.step = "save" /\ UNCHANGED <<detected, source, simulated, simMode, read, settled>>
    BY <1>1, Places DEF SaveDataSource
  <2>2. CASE web' = [web EXCEPT !.at = At("commit", 0)] /\ answer' = answer
    <3>1. web' \in [at : WebPlace, target : BOOLEAN] /\ web'.at.step = "commit"
      BY <2>2, Goes, WebStepsAre
    <3> QED
      BY <2>1, <2>2, <3>1, WebRead DEF SourceInv
  <2>3. CASE web' = [web EXCEPT !.at = Idle] /\ answer' = "failed"
    <3>1. /\ web' \in [at : WebPlace, target : BOOLEAN]
          /\ web'.at.step = "idle" /\ web'.at = Idle
      BY <1>0, <2>3, Goes, WebStepsAre
    <3> QED
      BY <2>1, <2>3, <3>1, WebRead DEF SourceInv
  <2> QED
    BY <1>1, <2>2, <2>3 DEF SaveDataSource, Answer
<1>2. CASE CommitDataSource
  <2>1. web.at.step = "commit" /\ UNCHANGED <<detected, source, simulated, simMode, read, settled>>
    BY <1>2, Places DEF CommitDataSource
  <2>2. CASE web' = [web EXCEPT !.at = At("refresh", 0)] /\ answer' = answer /\ stored' = {source}
    <3>1. web' \in [at : WebPlace, target : BOOLEAN] /\ web'.at.step = "refresh"
      BY <2>2, Goes, WebStepsAre
    <3> QED
      BY <2>1, <2>2, <3>1, WebRead DEF SourceInv
  <2>3. CASE web' = [web EXCEPT !.at = Idle] /\ answer' = "failed"
    <3>1. /\ web' \in [at : WebPlace, target : BOOLEAN]
          /\ web'.at.step = "idle" /\ web'.at = Idle
      BY <1>0, <2>3, Goes, WebStepsAre
    <3> QED
      BY <2>1, <2>3, <3>1, WebRead DEF SourceInv
  <2> QED
    BY <1>2, <2>2, <2>3 DEF CommitDataSource, CommitFails, Answer
<1>3. CASE RefreshMode
  <2>1. /\ web.at.step = "refresh" /\ stored = {source}
        /\ UNCHANGED <<detected, source, simulated, stored, simMode, read, settled>>
    BY <1>3, Places DEF RefreshMode, SourceInv
  <2>2. simulated \in BOOLEAN /\ Fits(source, simulated)
    BY <2>1, AppliedFits DEF SourceInv
  <2>3. CASE ModeIsCurrent
    <3>1. web' = [web EXCEPT !.at = Idle] /\ answer' = "ok"
      BY <1>3, <2>3 DEF RefreshMode, Answer
    <3>2. /\ web' \in [at : WebPlace, target : BOOLEAN]
          /\ web'.at.step = "idle" /\ web'.at = Idle
      BY <1>0, <3>1, Goes, WebStepsAre
    <3>3. Fits(source, simMode)
      BY <2>2, <2>3 DEF ModeIsCurrent
    <3> QED
      BY <2>1, <3>1, <3>2, <3>3, WebRead DEF SourceInv
  <2>4. CASE ~ModeIsCurrent
    <3>1. web' = [at |-> At("deinit", 1), target |-> simulated] /\ answer' = answer
      BY <1>3, <2>4 DEF RefreshMode
    <3>2. /\ web' \in [at : WebPlace, target : BOOLEAN]
          /\ web'.at.step = "deinit" /\ web'.target = simulated
      BY <2>2, <3>1, Places, Records, WebStepsAre
    <3> QED
      BY <2>1, <3>1, <3>2, WebRead DEF SourceInv
  <2> QED
    BY <2>3, <2>4
<1>4. CASE DeinitSlot
  <2>1. /\ web.at.step = "deinit"
        /\ UNCHANGED <<detected, source, simulated, stored, simMode, read, answer, settled>>
    BY <1>4 DEF DeinitSlot
  <2>2. \E st \in {"switch", "deinit"}, i \in Int : web' = [web EXCEPT !.at = At(st, i)]
    BY <1>4 DEF DeinitSlot, SourceInv, WebPlace
  <2>3. /\ web' \in [at : WebPlace, target : BOOLEAN]
        /\ web'.at.step \in {"switch", "deinit"} /\ web'.target = web.target
    BY <2>2, Goes, WebStepsAre
  <2> QED
    BY <2>1, <2>3, WebRead DEF SourceInv
<1>5. CASE SwitchMode
  <2>1. /\ web.at.step = "switch" /\ simMode' = web.target /\ web.target = simulated
        /\ UNCHANGED <<detected, source, simulated, stored, read, settled>>
    BY <1>5, Places DEF SwitchMode, SourceInv
  <2>2. simulated \in BOOLEAN /\ Fits(source, simulated) /\ stored = {source}
    BY <2>1, AppliedFits DEF SourceInv
  <2>3. CASE web.target
    <3>1. web' = [web EXCEPT !.at = Idle] /\ answer' = "ok"
      BY <1>5, <2>3 DEF SwitchMode, Answer
    <3>2. /\ web' \in [at : WebPlace, target : BOOLEAN]
          /\ web'.at.step = "idle" /\ web'.at = Idle
      BY <1>0, <3>1, Goes, WebStepsAre
    <3> QED
      BY <2>1, <2>2, <3>1, <3>2, WebRead DEF SourceInv
  <2>4. CASE ~web.target
    <3>1. web' = [web EXCEPT !.at = At("init", 1)] /\ answer' = answer
      BY <1>5, <2>4 DEF SwitchMode
    <3>2. /\ web' \in [at : WebPlace, target : BOOLEAN] /\ web'.at.step = "init"
      BY <3>1, Goes, WebStepsAre
    <3> QED
      BY <2>1, <2>2, <2>4, <3>1, <3>2, WebRead DEF SourceInv
  <2> QED
    BY <2>3, <2>4
<1>6. CASE InitSlot
  <2>1. /\ web.at.step = "init"
        /\ UNCHANGED <<detected, source, simulated, stored, simMode, read, answer, settled>>
    BY <1>6 DEF InitSlot
  <2>2. \E st \in {"decide", "init"}, i \in Int : web' = [web EXCEPT !.at = At(st, i)]
    BY <1>6 DEF InitSlot, SourceInv, WebPlace
  <2>3. /\ web' \in [at : WebPlace, target : BOOLEAN] /\ web'.at.step \in {"decide", "init"}
    BY <2>2, Goes, WebStepsAre
  <2> QED
    BY <2>1, <2>3, WebRead DEF SourceInv
<1>7. CASE DecideMode
  <2>1. /\ web.at.step = "decide" /\ simMode' = (active = {} /\ FallsBack(source))
        /\ web' = [web EXCEPT !.at = Idle] /\ answer' = "ok"
        /\ UNCHANGED <<detected, source, simulated, stored, read, settled>>
    BY <1>7, Places DEF DecideMode, Answer
  <2>2. ~simulated /\ Fits(source, simulated) /\ stored = {source}
    BY <2>1, AppliedFits DEF SourceInv
  <2>3. simMode' \in BOOLEAN /\ Fits(source, simMode')
    BY <2>1, <2>2 DEF Fits, FallsBack
  <2>4. /\ web' \in [at : WebPlace, target : BOOLEAN]
        /\ web'.at.step = "idle" /\ web'.at = Idle
    BY <1>0, <2>1, Goes, WebStepsAre
  <2> QED
    BY <2>1, <2>2, <2>3, <2>4, WebRead DEF SourceInv
<1> QED
  BY <1>1, <1>2, <1>3, <1>4, <1>5, <1>6, <1>7 DEF Handler

LEMMA SourceStep == Inv /\ [SourceNext]_sourceVars => Inv'
<1> SUFFICES ASSUME Inv, [SourceNext]_sourceVars PROVE Inv'
  OBVIOUS
<1>1. CASE UNCHANGED sourceVars
  BY <1>1 DEF sourceVars, hwVars, managerVars, Inv, SourceInv, ReadInv
<1> QED
  BY <1>1, BootStep, ResetStep, ReadStep, HandlerStep, RequestStep DEF SourceNext

----------------------------------------------------------------------------
\* The types, in three groups: the sensors and the source, the read, the handler.

SensorTypes ==
    /\ detected \subseteq Slot /\ active \subseteq detected
    /\ source \in Source /\ simulated \in BOOLEAN /\ simMode \in BOOLEAN
    /\ stored \subseteq Source \cup {Missing} /\ stored # {}

ReadPlaces == {Off, Idle, At("publish", 0)} \cup {At("slot", i) : i \in Slot}
ReadTypes == read.at \in ReadPlaces /\ read.data \in Data /\ lastData \in Data

WebPlaces ==
    {Off, Idle, At("save", 0), At("commit", 0), At("refresh", 0), At("switch", 0), At("decide", 0)}
      \cup {At("deinit", i) : i \in Slot} \cup {At("init", i) : i \in Slot}
WebTypes ==
    /\ web.at \in WebPlaces /\ web.target \in BOOLEAN
    /\ answer \in {"none", "ok", "failed"} /\ settled \in BOOLEAN

SlotTypes == Inv /\ SensorTypes /\ ReadTypes /\ WebTypes

\* The loop over the slots stays on them: the one after the last is not begun.
LEMMA NextSlot ==
    /\ 1 \in Slot
    /\ \A i \in Slot : i # Slots => i + 1 \in Slot
  BY SourceAssumption DEF Slot

LEMMA SlotOf ==
    ASSUME WebTypes
    PROVE  web.at.step \in {"deinit", "init"} => web.at.slot \in Slot
  BY DEF WebTypes, WebPlaces, At, Off, Idle

LEMMA SensorTypesNext == ASSUME SlotTypes, SourceNext PROVE SensorTypes'
<1> USE DEF SlotTypes, SensorTypes
<1>1. CASE BootSensors
  <2>1. detected' \subseteq Slot
    BY <1>1 DEF BootSensors, Detect
  <2>2. source' \in Source /\ stored' \subseteq Source \cup {Missing} /\ stored' # {}
    BY <1>1 DEF BootSensors, BootSource, Source
  <2>3. simulated' \in BOOLEAN
    BY <1>1, AppliedFits DEF BootSensors
  <2>4. active' \subseteq detected' /\ simMode' \in BOOLEAN
    BY <1>1, <2>1 DEF BootSensors, InitSensorManager, FallsBack
  <2> QED
    BY <2>1, <2>2, <2>3, <2>4
<1>2. CASE Reset
  BY <1>2 DEF Reset, Source
<1>3. CASE ControlStep
  BY <1>3 DEF ControlStep, StartRead, ReadSlot, Publish, ReadVars, hwVars, managerVars
<1>4. ASSUME NEW s \in Source, SetDataSource(s) PROVE SensorTypes'
  BY <1>4, AppliedFits DEF SetDataSource, managerVars
<1>5. CASE Handler
  <2>1. CASE SaveDataSource \/ CommitDataSource
    BY <2>1 DEF SaveDataSource, CommitDataSource, WebUnchanged, managerVars
  <2>2. CASE RefreshMode
    BY <2>2 DEF RefreshMode, WebUnchanged, managerVars
  <2>3. CASE DeinitSlot
    BY <2>3 DEF DeinitSlot, WebUnchanged
  <2>4. CASE SwitchMode
    BY <2>4 DEF SwitchMode, WebTypes, hwVars
  <2>5. CASE InitSlot
    BY <2>5 DEF InitSlot, ActiveAfter, WebUnchanged
  <2>6. CASE DecideMode
    BY <2>6 DEF DecideMode, FallsBack, WebUnchanged
  <2> QED
    BY <1>5, <2>1, <2>2, <2>3, <2>4, <2>5, <2>6 DEF Handler
<1> QED
  BY <1>1, <1>2, <1>3, <1>4, <1>5 DEF SourceNext

LEMMA ReadTypesNext == ASSUME SlotTypes, SourceNext PROVE ReadTypes'
<1> USE DEF SlotTypes
<1>1. NoData \in Data /\ SimulatedData \in Data /\ [from |-> "sensors", valid |-> {}] \in Data
  BY DEF NoData, SimulatedData, Data
<1>2. \A a, d : [at |-> a, data |-> d].at = a /\ [at |-> a, data |-> d].data = d
  OBVIOUS
<1>3. \A i \in Slot : At("slot", i) \in ReadPlaces
  BY DEF ReadPlaces
<1>4. Off \in ReadPlaces /\ Idle \in ReadPlaces /\ At("publish", 0) \in ReadPlaces
  BY DEF ReadPlaces
<1>5. CASE BootSensors \/ Reset
  BY <1>1, <1>2, <1>4, <1>5 DEF BootSensors, Reset, ReadTypes
<1>6. CASE StartRead
  <2>1. lastData' = lastData
    BY <1>6 DEF StartRead
  <2>2. CASE simMode
    BY <1>1, <1>2, <1>4, <1>6, <2>1, <2>2 DEF StartRead, ReadTypes
  <2>3. CASE ~simMode
    BY <1>1, <1>2, <1>3, <1>6, <2>1, <2>3, NextSlot DEF StartRead, ReadTypes
  <2> QED
    BY <2>2, <2>3
<1>7. CASE ReadSlot
  <2> DEFINE i == read.at.slot
             place == IF i = Slots THEN At("publish", 0) ELSE At("slot", i + 1)
  <2>1. i \in Slot
    BY <1>7 DEF ReadSlot, ReadTypes, ReadPlaces, At, Off, Idle
  <2>2. place \in ReadPlaces
    BY <1>3, <1>4, <2>1, NextSlot
  <2>3. [read.data EXCEPT !.valid = @ \cup {i}] \in Data
    BY <2>1 DEF ReadTypes, Data
  <2>4. \E d \in Data : read' = [at |-> place, data |-> d]
    BY <1>7, <2>3 DEF ReadSlot, ReadTypes
  <2> HIDE DEF place
  <2> QED
    BY <1>2, <1>7, <2>2, <2>4 DEF ReadSlot, ReadTypes
<1>8. CASE Publish
  <2>1. read'.at = Idle /\ read'.data = read.data
    BY <1>8, Places DEF Publish, Inv, SourceInv
  <2> QED
    BY <1>4, <1>8, <2>1 DEF Publish, ReadTypes
<1>9. ASSUME NEW s \in Source, SetDataSource(s) PROVE ReadTypes'
  BY <1>9 DEF SetDataSource, ReadTypes
<1>10. CASE Handler /\ ~SwitchMode
  BY <1>10 DEF Handler, SaveDataSource, CommitDataSource, RefreshMode, DeinitSlot,
               InitSlot, DecideMode, WebUnchanged, ReadTypes
<1>11. CASE SwitchMode
  BY <1>1, <1>11 DEF SwitchMode, ReadTypes
<1> QED
  BY <1>5, <1>6, <1>7, <1>8, <1>9, <1>10, <1>11 DEF SourceNext, ControlStep

LEMMA WebTypesNext == ASSUME SlotTypes, SourceNext PROVE WebTypes'
<1> USE DEF SlotTypes
<1>1. /\ Off \in WebPlaces /\ Idle \in WebPlaces
      /\ \A st \in {"save", "commit", "refresh", "switch", "decide"} : At(st, 0) \in WebPlaces
      /\ \A st \in {"deinit", "init"}, i \in Slot : At(st, i) \in WebPlaces
  BY DEF WebPlaces
<1>2. web \in [at : WebPlace, target : BOOLEAN]
  BY DEF Inv, SourceInv
<1>3. \A a : [web EXCEPT !.at = a].at = a /\ [web EXCEPT !.at = a].target = web.target
  BY <1>2
<1>4. CASE BootSensors
  <2>1. web'.at = Idle /\ web'.target = web.target /\ UNCHANGED <<answer, settled>>
    BY <1>3, <1>4 DEF BootSensors
  <2> QED
    BY <1>1, <2>1 DEF WebTypes
<1>5. CASE Reset
  BY <1>1, <1>5 DEF Reset, WebTypes
<1>6. CASE ControlStep
  BY <1>6 DEF ControlStep, StartRead, ReadSlot, Publish, ReadVars, WebTypes
<1>7. ASSUME NEW s \in Source, SetDataSource(s) PROVE WebTypes'
  BY <1>1, <1>3, <1>7 DEF SetDataSource, GoTo, WebTypes
<1>8. CASE Handler /\ UNCHANGED answer
  <2>1. settled' = settled
    BY <1>8 DEF Handler, SaveDataSource, CommitDataSource, RefreshMode, DeinitSlot, SwitchMode,
                InitSlot, DecideMode
  <2>2. CASE SaveDataSource \/ CommitDataSource
    <3>1. \E a \in WebPlaces : web' = [web EXCEPT !.at = a]
      BY <1>1, <2>2 DEF SaveDataSource, CommitDataSource, CommitFails, Answer, GoTo
    <3> QED
      BY <1>3, <1>8, <2>1, <3>1 DEF WebTypes
  <2>3. CASE RefreshMode
    <3>1. \/ web' = [web EXCEPT !.at = Idle]
          \/ web' = [at |-> At("deinit", 1), target |-> simulated]
      BY <2>3 DEF RefreshMode, Answer, GoTo
    <3>2. At("deinit", 1) \in WebPlaces /\ simulated \in BOOLEAN
      BY <1>1, NextSlot DEF SensorTypes
    <3>3. web'.at \in WebPlaces /\ web'.target \in BOOLEAN
      <4>1. CASE web' = [web EXCEPT !.at = Idle]
        BY <1>1, <1>3, <4>1 DEF WebTypes
      <4>2. CASE web' = [at |-> At("deinit", 1), target |-> simulated]
        BY <3>2, <4>2
      <4> QED
        BY <3>1, <4>1, <4>2
    <3> QED
      BY <1>8, <2>1, <3>3 DEF WebTypes
  <2>4. CASE DeinitSlot \/ InitSlot
    <3>1. web.at.slot \in Slot
      BY <2>4, SlotOf DEF DeinitSlot, InitSlot
    <3>2. \E a \in WebPlaces : web' = [web EXCEPT !.at = a]
      BY <1>1, <2>4, <3>1, NextSlot DEF DeinitSlot, InitSlot, GoTo
    <3> QED
      BY <1>3, <1>8, <2>1, <3>2 DEF WebTypes
  <2>5. CASE SwitchMode \/ DecideMode
    <3>1. \E a \in WebPlaces : web' = [web EXCEPT !.at = a]
      BY <1>1, <2>5, NextSlot DEF SwitchMode, DecideMode, Answer, GoTo
    <3> QED
      BY <1>3, <1>8, <2>1, <3>1 DEF WebTypes
  <2> QED
    BY <1>8, <2>2, <2>3, <2>4, <2>5 DEF Handler
<1>9. CASE Handler /\ answer' # answer
  <2>1. \E a \in {"ok", "failed"} : Answer(a)
    BY <1>9 DEF Handler, SaveDataSource, CommitDataSource, CommitFails, RefreshMode, DeinitSlot,
                SwitchMode, InitSlot, DecideMode
  <2>2. settled' = settled
    BY <1>9 DEF Handler, SaveDataSource, CommitDataSource, RefreshMode, DeinitSlot, SwitchMode,
                InitSlot, DecideMode
  <2> QED
    BY <1>1, <1>3, <2>1, <2>2 DEF Answer, GoTo, WebTypes
<1> QED
  BY <1>4, <1>5, <1>6, <1>7, <1>8, <1>9 DEF SourceNext

(* Types: a slot in use is one that was detected, a read and a change of source never
   walk past the last slot, and nothing but sources gets into the NVS. *)
THEOREM SourceTypeCorrect == SourceSpec => []SourceTypeOK
<1>1. SourceInit => SlotTypes
  <2> SUFFICES ASSUME SourceInit PROVE SlotTypes
    OBVIOUS
  <2>1. SensorTypes /\ WebTypes
    BY DEF SourceInit, SensorTypes, WebTypes, WebPlaces, Source
  <2>2. ReadTypes
    BY DEF SourceInit, ReadTypes, ReadPlaces, NoData, Data
  <2> QED
    BY <2>1, <2>2, SourceInitOk DEF SlotTypes
<1>2. SlotTypes /\ [SourceNext]_sourceVars => SlotTypes'
  <2> SUFFICES ASSUME SlotTypes, [SourceNext]_sourceVars PROVE SlotTypes'
    OBVIOUS
  <2>1. Inv'
    BY SourceStep DEF SlotTypes
  <2>2. CASE UNCHANGED sourceVars
    BY <2>1, <2>2 DEF SlotTypes, SensorTypes, ReadTypes, WebTypes, sourceVars, hwVars, managerVars
  <2> QED
    BY <2>1, <2>2, SensorTypesNext, ReadTypesNext, WebTypesNext DEF SlotTypes
<1>3. SlotTypes => SourceTypeOK
  BY DEF SlotTypes, SensorTypes, ReadTypes, ReadPlaces, WebTypes, WebPlaces, SourceTypeOK
<1> QED
  BY <1>1, <1>2, <1>3, PTL DEF SourceSpec

(* Made-up numbers never pass for readings once the hardware was asked for, nor the other
   way round, for any number of slots. *)
THEOREM ReadsAreOfTheSource == SourceSpec => []ReadsFollowTheSource
<1>1. Inv => ReadsFollowTheSource
  BY Places DEF Inv, ReadInv, FromFits, ReadsFollowTheSource
<1> QED
  BY <1>1, SourceInitOk, SourceStep, PTL DEF SourceSpec

(* A source that was answered with success is the one a boot finds. *)
THEOREM SourceSurvives == SourceSpec => []SourceIsKept
<1>1. Inv => SourceIsKept
  BY DEF Inv, SourceInv, SourceIsKept
<1> QED
  BY <1>1, SourceInitOk, SourceStep, PTL DEF SourceSpec

----------------------------------------------------------------------------
\* The Mini-FTX automatic

(* The recommendation is a percentage and differs from the present speed by at
   most 20 points. *)
LEMMA RecommendInRange ==
    ASSUME NEW a \in AirRecord, NEW now \in 0 .. 100
    PROVE  /\ RecommendSpeed(a, now) \in 0 .. 100
           /\ Abs(RecommendSpeed(a, now) - now) <= 20
<1>1. TargetSpeed(a) \in {30, 50, 70, 90}
  BY DEF TargetSpeed
<1> QED
  BY <1>1 DEF RecommendSpeed, Abs

\* What ftx_calculate_max_safe_speed makes of d when `wanted' is requested.
Limited(r, d, a, wanted) ==
    /\ r \in FtxRecord
    /\ r.frostState = d.frostState /\ r.frostActive = d.frostActive
    /\ r.status = d.status /\ r.condRisk = d.condRisk
    /\ r.current = Least(wanted, r.maxSafe)
    /\ r.frostState # "idle" => r.current <= 30
    /\ r.condRisk => r.current <= 50
    /\ a.exhaustRh > 90 => r.current <= 60

(* ftx_calculate_max_safe_speed: the first limit found is also the tightest of
   those that apply, and only the five fields of the limit are written. *)
LEMMA SafeSpeedCaps ==
    ASSUME NEW d \in FtxRecord, NEW a \in AirRecord, NEW wanted \in 0 .. 100
    PROVE  Limited(SafeSpeed(d, a, wanted), d, a, wanted)
<1> DEFINE limit == LimitOf(d, a)
           r == SafeSpeed(d, a, wanted)
<1>1. limit \in Limit
  BY DEF LimitOf, Limit
<1>2. CapOf(limit) \in 0 .. 100 /\ Least(wanted, CapOf(limit)) \in 0 .. 100
  BY <1>1 DEF CapOf, Limit, Least
<1>3. r = [d EXCEPT !.requested = wanted, !.limit = limit, !.maxSafe = CapOf(limit),
                    !.current = Least(wanted, CapOf(limit))]
  BY DEF SafeSpeed
<1>4. /\ r \in FtxRecord
      /\ r.frostState = d.frostState /\ r.frostActive = d.frostActive
      /\ r.status = d.status /\ r.condRisk = d.condRisk
      /\ r.maxSafe = CapOf(limit)
      /\ r.current = Least(wanted, CapOf(limit))
  <2> HIDE DEF limit, r
  <2> QED
    BY <1>1, <1>2, <1>3 DEF FtxRecord
<1>5. d.frostState # "idle" => CapOf(limit) = 30
  BY DEF LimitOf, CapOf
<1>6. d.condRisk => CapOf(limit) <= 50
  BY DEF LimitOf, CapOf, FtxRecord
<1>7. a.exhaustRh > 90 => CapOf(limit) <= 60
  BY DEF LimitOf, CapOf, FtxRecord
<1> QED
  <2> HIDE DEF limit, r
  <2>1. Limited(r, d, a, wanted)
    BY <1>2, <1>4, <1>5, <1>6, <1>7 DEF Limited, Least
  <2> QED
    BY <2>1 DEF r

LEMMA FrostNextTyped ==
    ASSUME NEW state \in FrostState, NEW a \in AirRecord, NEW elapsed
    PROVE  /\ FrostNext(state, a, elapsed) \in FrostState
           /\ state = "active" => FrostNext(state, a, elapsed) # "warning"
  BY DEF FrostNext, FrostState

\* FrostFlagsAgree of a record rather than of the variable.
FlagsAgree(d) ==
    /\ d.frostActive <=> d.frostState = "active"
    /\ d.status = "frost_active" => d.frostActive

(* ftx_update keeps g_ftx_data a record of its type, and keeps the three copies
   of "frost protection is on" in agreement. *)
LEMMA FtxUpdateKeeps ==
    ASSUME NEW d \in FtxRecord, NEW a \in AirRecord, NEW elapsed
    PROVE  /\ FtxUpdate(d, a, elapsed) \in FtxRecord
           /\ FlagsAgree(d) => FlagsAgree(FtxUpdate(d, a, elapsed))
<1>1. CASE ~a.inRange
  BY <1>1 DEF FtxUpdate, FtxRecord, FlagsAgree
<1>2. CASE a.inRange
  <2> DEFINE state == FrostNext(d.frostState, a, elapsed)
             flagged == CASE state = "active" /\ d.frostState # "active" -> Activate(d)
                          [] state = "idle" /\ d.frostState = "active" -> Deactivate(d)
                          [] OTHER -> d
             moved == [flagged EXCEPT !.frostState = state, !.condRisk = a.dewRisk]
  <2>1. state \in FrostState /\ (d.frostState = "active" => state # "warning")
    BY FrostNextTyped DEF FtxRecord
  <2> HIDE DEF state
  <2>2. flagged \in FtxRecord
    BY DEF Activate, Deactivate, FtxRecord
  <2>3. FlagsAgree(d) =>
          /\ flagged.frostActive <=> state = "active"
          /\ flagged.status = "frost_active" => flagged.frostActive
    BY <2>1 DEF FlagsAgree, Activate, Deactivate, FtxRecord, FrostState
  <2> HIDE DEF flagged
  <2>4. /\ moved \in FtxRecord
        /\ moved.frostState = state
        /\ moved.frostActive = flagged.frostActive /\ moved.status = flagged.status
    BY <2>1, <2>2 DEF FtxRecord, AirRecord
  <2> HIDE DEF moved
  <2>5. d.requested \in 0 .. 100
    BY DEF FtxRecord
  <2>6. FtxUpdate(d, a, elapsed) = SafeSpeed(moved, a, d.requested)
    BY <1>2 DEF FtxUpdate, state, flagged, moved
  <2>7. /\ FtxUpdate(d, a, elapsed) \in FtxRecord
        /\ FtxUpdate(d, a, elapsed).frostState = moved.frostState
        /\ FtxUpdate(d, a, elapsed).frostActive = moved.frostActive
        /\ FtxUpdate(d, a, elapsed).status = moved.status
    <3>1. Limited(SafeSpeed(moved, a, d.requested), moved, a, d.requested)
      BY <2>4, <2>5, SafeSpeedCaps
    <3> QED
      BY <2>6, <3>1 DEF Limited
  <2>8. ASSUME FlagsAgree(d) PROVE FlagsAgree(FtxUpdate(d, a, elapsed))
    <3> DEFINE r == FtxUpdate(d, a, elapsed)
    <3>1. /\ r.frostState = state
          /\ r.frostActive = flagged.frostActive /\ r.status = flagged.status
      BY <2>4, <2>7
    <3>2. /\ flagged.frostActive <=> state = "active"
          /\ flagged.status = "frost_active" => flagged.frostActive
      BY <2>3, <2>8
    <3> HIDE DEF r
    <3>3. FlagsAgree(r)
      BY <3>1, <3>2, Zenon DEF FlagsAgree
    <3> QED
      BY <3>3 DEF r
  <2> QED
    BY <2>7, <2>8
<1> QED
  BY <1>1, <1>2

----------------------------------------------------------------------------

(* What one automatic tick does, of the variables it starts from. *)
LEMMA AutoTickEffect ==
    ASSUME FtxTypeOK, NEW dt \in 1 .. MaxTick, AutoTick(dt)
    PROVE  \E now \in 0 .. 100 :
              /\ auto => now = speed
              /\ air' \in AirRecord
              /\ ftx' \in FtxRecord
              /\ FlagsAgree(ftx) => FlagsAgree(ftx')
              /\ ftx'.current = Least(RecommendSpeed(air', now), ftx'.maxSafe)
              /\ ftx'.frostState # "idle" => ftx'.current <= 30
              /\ ftx'.condRisk => ftx'.current <= 50
              /\ air'.exhaustRh > 90 => ftx'.current <= 60
<1>1. PICK a \in Air, now \in {speed} \cup IF auto THEN {} ELSE OtherSpeed :
         /\ air' = a
         /\ ftx' = SafeSpeed(FtxUpdate(ftx, a, frostAge + dt), a, RecommendSpeed(a, now))
  BY DEF AutoTick, Measure
<1>2. a \in AirRecord /\ now \in 0 .. 100 /\ (auto => now = speed)
  BY FtxAssumption DEF FtxTypeOK
<1>3. RecommendSpeed(a, now) \in 0 .. 100
  BY <1>2, RecommendInRange
<1> DEFINE d == FtxUpdate(ftx, a, frostAge + dt)
<1>4. d \in FtxRecord /\ (FlagsAgree(ftx) => FlagsAgree(d))
  BY <1>2, FtxUpdateKeeps DEF FtxTypeOK
<1>5. ftx' = SafeSpeed(d, a, RecommendSpeed(a, now))
  BY <1>1
<1> HIDE DEF d
<1>6. /\ ftx' \in FtxRecord
      /\ ftx'.frostState = d.frostState /\ ftx'.frostActive = d.frostActive
      /\ ftx'.status = d.status
      /\ ftx'.current = Least(RecommendSpeed(a, now), ftx'.maxSafe)
      /\ ftx'.frostState # "idle" => ftx'.current <= 30
      /\ ftx'.condRisk => ftx'.current <= 50
      /\ a.exhaustRh > 90 => ftx'.current <= 60
  <2> DEFINE wanted == RecommendSpeed(a, now)
  <2>1. wanted \in 0 .. 100
    BY <1>3
  <2> HIDE DEF wanted
  <2>2. Limited(SafeSpeed(d, a, wanted), d, a, wanted)
    BY <1>2, <1>4, <2>1, SafeSpeedCaps
  <2>3. Limited(ftx', d, a, wanted)
    BY <1>5, <2>2 DEF wanted
  <2> QED
    BY <2>3 DEF Limited, wanted
<1>7. FlagsAgree(ftx) => FlagsAgree(ftx')
  BY <1>4, <1>6 DEF FlagsAgree
<1> QED
  BY <1>1, <1>2, <1>6, <1>7

(* ... and one tick of another mode. *)
LEMMA OtherTickEffect ==
    ASSUME FtxTypeOK, NEW dt \in 1 .. MaxTick, OtherTick(dt)
    PROVE  /\ air' \in AirRecord
           /\ ftx' \in FtxRecord
           /\ FlagsAgree(ftx) => FlagsAgree(ftx')
           /\ speed' \in 0 .. 100 /\ auto' = FALSE
<1>1. PICK a \in Air : air' = a /\ ftx' = FtxUpdate(ftx, a, frostAge + dt)
  BY DEF OtherTick, Measure
<1>2. a \in AirRecord
  BY FtxAssumption
<1>3. speed' \in 0 .. 100 /\ auto' = FALSE
  BY FtxAssumption DEF OtherTick
<1> QED
  BY <1>1, <1>2, <1>3, FtxUpdateKeeps DEF FtxTypeOK

LEMMA FtxInitTyped == FtxInit => FtxTypeOK
<1> SUFFICES ASSUME FtxInit PROVE FtxTypeOK
  OBVIOUS
<1>1. air \in AirRecord
  BY DEF FtxInit, AirRecord
<1>2. ftx \in FtxRecord
  BY DEF FtxInit, FtxRecord, FrostState, Limit
<1>3. frostAge \in 0 .. FrostMinRuntime /\ speed \in 0 .. 100
  BY FtxAssumption DEF FtxInit
<1>4. auto \in BOOLEAN /\ alertActive \in BOOLEAN
  BY Zenon DEF FtxInit, CondensationInit
<1> QED
  BY <1>1, <1>2, <1>3, <1>4 DEF FtxTypeOK, CondensationTypeOK

LEMMA FtxNextTyped == FtxTypeOK /\ [FtxNext]_ftxVars => FtxTypeOK'
<1> SUFFICES ASSUME FtxTypeOK, [FtxNext]_ftxVars PROVE FtxTypeOK'
  OBVIOUS
<1>1. ASSUME NEW dt \in 1 .. MaxTick, NEW a \in Air, Measure(a, frostAge + dt)
      PROVE CondensationTypeOK' /\ frostAge' \in 0 .. FrostMinRuntime
  <2>1. PICK rh \in SupplyRh : CheckHumidity(rh)
    BY <1>1 DEF Measure
  <2>2. AlertAfter(alertActive, rh) \in BOOLEAN
    <3>1. (ClampRh(rh) <= RhThreshold - RhHysteresis) \in BOOLEAN
      OBVIOUS
    <3>2. (ClampRh(rh) >= RhThreshold) \in BOOLEAN
      OBVIOUS
    <3> QED
      BY <3>1, <3>2, Zenon DEF AlertAfter
  <2>3. frostAge' \in 0 .. FrostMinRuntime
    BY <1>1, FtxAssumption DEF Measure, Least, FtxTypeOK
  <2> QED
    BY <2>1, <2>2, <2>3 DEF CheckHumidity, CondensationTypeOK
<1>2. ASSUME NEW dt \in 1 .. MaxTick, AutoTick(dt) PROVE FtxTypeOK'
  <2>1. CondensationTypeOK' /\ frostAge' \in 0 .. FrostMinRuntime
    BY <1>1, <1>2 DEF AutoTick
  <2>2. air' \in AirRecord /\ ftx' \in FtxRecord
    BY <1>2, AutoTickEffect
  <2>3. speed' \in 0 .. 100 /\ auto' \in BOOLEAN
    BY <1>2, <2>2 DEF AutoTick, FtxRecord
  <2> QED
    BY <2>1, <2>2, <2>3 DEF FtxTypeOK
<1>3. ASSUME NEW dt \in 1 .. MaxTick, OtherTick(dt) PROVE FtxTypeOK'
  <2>1. CondensationTypeOK' /\ frostAge' \in 0 .. FrostMinRuntime
    BY <1>1, <1>3 DEF OtherTick
  <2> QED
    BY <1>3, <2>1, OtherTickEffect DEF FtxTypeOK
<1>4. CASE UNCHANGED ftxVars
  BY <1>4 DEF ftxVars, FtxTypeOK, CondensationTypeOK
<1> QED
  BY <1>2, <1>3, <1>4 DEF FtxNext

(* Type correctness: every speed, requested, allowed or driven, is a percentage
   whatever the air. *)
THEOREM FtxTypeCorrect == FtxSpec => []FtxTypeOK
  BY FtxInitTyped, FtxNextTyped, PTL DEF FtxSpec

(* The flag, the state machine and the status of frost protection never
   disagree. *)
THEOREM FrostFlagsCorrect == FtxSpec => []FrostFlagsAgree
<1>1. FtxInit => FrostFlagsAgree
  BY DEF FtxInit, FrostFlagsAgree
<1>2. FtxTypeOK /\ FrostFlagsAgree /\ [FtxNext]_ftxVars => FrostFlagsAgree'
  <2> SUFFICES ASSUME FtxTypeOK, FlagsAgree(ftx), [FtxNext]_ftxVars PROVE FlagsAgree(ftx')
    BY DEF FrostFlagsAgree, FlagsAgree
  <2>1. CASE FtxNext
    BY <2>1, AutoTickEffect, OtherTickEffect DEF FtxNext
  <2>2. CASE UNCHANGED ftxVars
    BY <2>2 DEF ftxVars
  <2> QED
    BY <2>1, <2>2
<1> QED
  BY <1>1, <1>2, FtxTypeCorrect, PTL DEF FtxSpec

(* The automatic respects the cap of every hazard that is present, not only of
   the one it reports. *)
THEOREM CapsHold == FtxSpec => []EveryCapHolds
<1>1. FtxInit => EveryCapHolds
  BY DEF FtxInit, EveryCapHolds
<1>2. FtxTypeOK /\ EveryCapHolds /\ [FtxNext]_ftxVars => EveryCapHolds'
  <2> SUFFICES ASSUME FtxTypeOK, EveryCapHolds, [FtxNext]_ftxVars PROVE EveryCapHolds'
    OBVIOUS
  <2>1. ASSUME NEW dt \in 1 .. MaxTick, AutoTick(dt) PROVE EveryCapHolds'
    <3>1. ~alertActive' => speed' = ftx'.current
      BY <2>1 DEF AutoTick
    <3> QED
      BY <2>1, <3>1, AutoTickEffect DEF EveryCapHolds
  <2>2. ASSUME NEW dt \in 1 .. MaxTick, OtherTick(dt) PROVE EveryCapHolds'
    BY <2>2 DEF OtherTick, EveryCapHolds
  <2>3. CASE UNCHANGED ftxVars
    BY <2>3 DEF ftxVars, EveryCapHolds
  <2> QED
    BY <2>1, <2>2, <2>3 DEF FtxNext
<1> QED
  BY <1>1, <1>2, FtxTypeCorrect, PTL DEF FtxSpec

(* The speed never jumps: at most 20 points per automatic tick, unless down onto
   a cap. *)
THEOREM SlewCorrect == FtxSpec => SlewIsBounded
<1> DEFINE Slew ==
       auto /\ auto' /\ ~alertActive /\ ~alertActive' =>
          \/ Abs(speed' - speed) <= 20
          \/ speed' < speed /\ speed' = ftx'.maxSafe
<1>1. FtxTypeOK /\ [FtxNext]_ftxVars => [Slew]_ftxVars
  <2> SUFFICES ASSUME FtxTypeOK, FtxNext, auto, auto', ~alertActive' PROVE Slew
    OBVIOUS
  <2>1. PICK dt \in 1 .. MaxTick : AutoTick(dt)
    BY DEF FtxNext, OtherTick
  <2>2. /\ air' \in AirRecord /\ ftx' \in FtxRecord
        /\ ftx'.current = Least(RecommendSpeed(air', speed), ftx'.maxSafe)
    BY <2>1, AutoTickEffect
  <2>3. speed' = ftx'.current
    BY <2>1 DEF AutoTick
  <2>4. speed \in 0 .. 100 /\ ftx'.maxSafe \in 0 .. 100
    BY <2>2 DEF FtxTypeOK, FtxRecord
  <2>5. /\ RecommendSpeed(air', speed) \in 0 .. 100
        /\ Abs(RecommendSpeed(air', speed) - speed) <= 20
    BY <2>2, <2>4, RecommendInRange
  <2> QED
    BY <2>2, <2>3, <2>4, <2>5 DEF Least, Abs
<1> QED
  BY <1>1, FtxTypeCorrect, PTL DEF FtxSpec, SlewIsBounded

----------------------------------------------------------------------------
\* The minimum run time of frost protection

\* While it is active, the time since the stored time stamp is the time it has been.
AgeIsHistory ==
    /\ activeFor \in 0 .. FrostMinRuntime
    /\ ftx.frostState = "active" => activeFor = frostAge

HistInv == FtxTypeOK /\ AgeIsHistory

\* The frost state that a tick in air a leaves, whoever has the fan
NextFrostState(a, elapsed) ==
    IF a.inRange THEN FrostNext(ftx.frostState, a, elapsed) ELSE ftx.frostState

LEMMA TickMovesFrost ==
    ASSUME FtxTypeOK, NEW dt \in 1 .. MaxTick, AutoTick(dt) \/ OtherTick(dt)
    PROVE  \E a \in Air :
              /\ ftx'.frostState = NextFrostState(a, frostAge + dt)
              /\ frostAge' = IF Activates(ftx, a, frostAge + dt) THEN 0
                             ELSE Least(frostAge + dt, FrostMinRuntime)
<1>1. \A a, e : FtxUpdate(ftx, a, e).frostState
                  = IF a.inRange THEN FrostNext(ftx.frostState, a, e) ELSE ftx.frostState
  BY DEF FtxUpdate, SafeSpeed, Activate, Deactivate, FtxTypeOK, FtxRecord
<1>2. \A a, e, w : SafeSpeed(FtxUpdate(ftx, a, e), a, w).frostState = FtxUpdate(ftx, a, e).frostState
  BY DEF FtxUpdate, SafeSpeed, Activate, Deactivate, FtxTypeOK, FtxRecord
<1>3. CASE AutoTick(dt)
  BY <1>1, <1>2, <1>3 DEF AutoTick, Measure, NextFrostState
<1>4. CASE OtherTick(dt)
  BY <1>1, <1>4 DEF OtherTick, Measure, NextFrostState
<1> QED
  BY <1>3, <1>4

\* A tick keeps the two clocks together, and frost protection ends on time only.
LEMMA TickKeepsClocks ==
    ASSUME HistInv, HistNext
    PROVE  /\ AgeIsHistory'
           /\ ftx.frostState = "active" /\ ftx'.frostState # "active" => activeFor' >= FrostMinRuntime
<1>1. PICK dt \in 1 .. MaxTick :
        /\ AutoTick(dt) \/ OtherTick(dt)
        /\ activeFor' = IF ftx.frostState = "active"
                        THEN Least(activeFor + dt, FrostMinRuntime) ELSE 0
  BY DEF HistNext
<1>2. PICK a \in Air :
        /\ ftx'.frostState = NextFrostState(a, frostAge + dt)
        /\ frostAge' = IF Activates(ftx, a, frostAge + dt) THEN 0
                       ELSE Least(frostAge + dt, FrostMinRuntime)
  BY <1>1, TickMovesFrost DEF HistInv
<1>3. /\ FrostMinRuntime \in Nat /\ dt \in Nat
      /\ frostAge \in 0 .. FrostMinRuntime /\ activeFor \in 0 .. FrostMinRuntime
      /\ ftx.frostState \in FrostState
  BY FtxAssumption DEF HistInv, AgeIsHistory, FtxTypeOK, FtxRecord
<1>4. CASE ftx.frostState = "active"
  <2>1. activeFor = frostAge /\ activeFor' = Least(frostAge + dt, FrostMinRuntime)
    BY <1>1, <1>4 DEF HistInv, AgeIsHistory
  <2>2. ~Activates(ftx, a, frostAge + dt) /\ frostAge' = activeFor'
    BY <1>2, <1>4, <2>1 DEF Activates
  <2>3. activeFor' \in 0 .. FrostMinRuntime
    BY <1>3, <2>1 DEF Least
  <2>4. ftx'.frostState # "active" => frostAge + dt >= FrostMinRuntime
    BY <1>2, <1>4 DEF NextFrostState, FrostNext
  <2>5. ftx'.frostState # "active" => activeFor' >= FrostMinRuntime
    BY <1>3, <2>1, <2>4 DEF Least
  <2> QED
    BY <2>2, <2>3, <2>5 DEF AgeIsHistory
<1>5. CASE ftx.frostState # "active"
  <2>1. activeFor' = 0
    BY <1>1, <1>5
  <2>2. ftx'.frostState = "active" => Activates(ftx, a, frostAge + dt)
    BY <1>2, <1>5 DEF NextFrostState, Activates
  <2> QED
    BY <1>2, <1>3, <1>5, <2>1, <2>2 DEF AgeIsHistory
<1> QED
  BY <1>4, <1>5

\* With the history variable a tick is still a tick.
LEMMA HistTyped == HistSpec => []HistInv
<1>1. HistInit => HistInv
  BY FtxInitTyped, FtxAssumption DEF HistInit, HistInv, AgeIsHistory, FtxInit
<1>2. HistInv /\ [HistNext]_hvars => HistInv'
  <2> SUFFICES ASSUME HistInv, [HistNext]_hvars PROVE HistInv'
    OBVIOUS
  <2>1. [FtxNext]_ftxVars
    BY DEF HistNext, FtxNext, hvars
  <2>2. FtxTypeOK'
    BY <2>1, FtxNextTyped DEF HistInv
  <2>3. AgeIsHistory'
    BY TickKeepsClocks DEF HistInv, AgeIsHistory, hvars, ftxVars
  <2> QED
    BY <2>2, <2>3 DEF HistInv
<1> QED
  BY <1>1, <1>2, PTL DEF HistSpec

(* Frost protection that ends has lasted its minimum run time, whatever modes and
   readings came meanwhile and however long the ticks are. *)
THEOREM FrostRunsItsTime == HistSpec => FrostHoldsMinRuntime
<1> DEFINE OnTime ==
       ftx.frostState = "active" /\ ftx'.frostState # "active" => activeFor' >= FrostMinRuntime
<1>1. HistInv /\ [HistNext]_hvars => [OnTime]_hvars
  BY TickKeepsClocks
<1> QED
  BY <1>1, HistTyped, PTL DEF HistSpec, FrostHoldsMinRuntime

=============================================================================
