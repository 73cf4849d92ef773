-------------------------- MODULE ControlLoopProofs --------------------------
(***************************************************************************)
(* First the fan controller, whatever its callers ask for, in whatever     *)
(* order, with any set of fans.  Then the control loop: it keeps its types *)
(* and drives the fans only through the fan controller's interface, so     *)
(* what is proved of the controller holds of the loop: whatever the        *)
(* sensors read, whatever the web task stores between two reads of the     *)
(* settings, and across resets.                                            *)
(***************************************************************************)
EXTENDS ControlLoop, DeviceProfileProofs

----------------------------------------------------------------------------
\* The fan controller

(* fan_pwm_apply never asks the LEDC for more than FAN_PWM_MAX_DUTY, and a
   speed of 0 is a duty of 0. *)
LEMMA DutyInRange ==
    /\ \A percent \in Percent : DutyOf(percent) \in 0 .. 255
    /\ DutyOf(0) = 0
  BY DEF DutyOf, Percent

LEMMA StoppedTyped == Stopped \in FanRecord
  BY DEF Stopped, FanRecord, FanMode, Percent

(* The records the operations build from a fan's record are again such records. *)
LEMMA FanRecordEdits ==
    ASSUME NEW r \in FanRecord, NEW m \in FanMode, NEW p \in Percent, NEW q \in Percent
    PROVE  /\ r.mode \in FanMode /\ r.target \in Percent
           /\ [mode |-> m, speed |-> p, target |-> q] \in FanRecord
           /\ [r EXCEPT !.mode = m] \in FanRecord
           /\ [r EXCEPT !.mode = m, !.speed = p] \in FanRecord
  BY DEF FanRecord

LEMMA ModesAndEnds ==
    {"OFF", "MANUAL", "FAILSAFE"} \subseteq FanMode /\ 0 \in Percent
  BY DEF FanMode, Percent

LEMMA FanInitTyped == FanInit => FanTypeOK
<1> SUFFICES ASSUME FanInit PROVE FanTypeOK
  OBVIOUS
<1>1. fan \in [Fan -> FanRecord]
  BY StoppedTyped DEF FanInit
<1>2. duty \in [Fan -> 0 .. 255]
  BY DEF FanInit
<1>3. pwmPending \in [Task -> [Fan -> Percent \cup {NoWrite}]]
  BY DEF FanInit
<1> QED
  BY <1>1, <1>2, <1>3 DEF FanInit, FanTypeOK

LEMMA FanNextTyped == FanTypeOK /\ [FanNext]_fanVars => FanTypeOK'
<1> SUFFICES ASSUME FanTypeOK, [FanNext]_fanVars PROVE FanTypeOK'
  OBVIOUS
<1> USE DEF FanTypeOK
<1>1. CASE InitController
  <2>1. fan' \in [Fan -> FanRecord]
    BY <1>1, StoppedTyped DEF InitController
  <2>2. duty' \in [Fan -> 0 .. 255]
    BY <1>1 DEF InitController
  <2> QED
    BY <1>1, <2>1, <2>2 DEF InitController
<1>2. CASE ResetController
  <2>1. fan' \in [Fan -> FanRecord]
    BY <1>2, StoppedTyped DEF ResetController
  <2>2. duty' \in [Fan -> 0 .. 255]
    BY <1>2 DEF ResetController
  <2>3. pwmPending' \in [Task -> [Fan -> Percent \cup {NoWrite}]]
    BY <1>2 DEF ResetController
  <2> QED
    BY <1>2, <2>1, <2>2, <2>3 DEF ResetController
<1>3. ASSUME NEW t \in Task, EnterFailsafe(t) PROVE FanTypeOK'
  <2>1. fan' \in [Fan -> FanRecord]
    <3>1. \A f \in Fan : [fan[f] EXCEPT !.mode = "FAILSAFE", !.speed = 0] \in FanRecord
      BY FanRecordEdits, ModesAndEnds
    <3> QED
      BY <1>3, <3>1 DEF EnterFailsafe
  <2>2. pwmPending' \in [Task -> [Fan -> Percent \cup {NoWrite}]]
    <3>1. [f \in Fan |-> 0] \in [Fan -> Percent \cup {NoWrite}]
      BY ModesAndEnds
    <3> QED
      BY <1>3, <3>1 DEF EnterFailsafe
  <2> QED
    BY <1>3, <2>1, <2>2 DEF EnterFailsafe
<1>4. ASSUME NEW t \in Task, ExitFailsafe(t) PROVE FanTypeOK'
  <2>1. fan' \in [Fan -> FanRecord]
    BY <1>4 DEF ExitFailsafe, FanRecord, Percent, FanMode
  <2> QED
    BY <1>4, <2>1 DEF ExitFailsafe
<1>5. ASSUME NEW t \in Task, NEW f \in Fan, ApplyPwm(t, f) PROVE FanTypeOK'
  <2>1. duty' \in [Fan -> 0 .. 255]
    BY <1>5, DutyInRange DEF ApplyPwm
  <2>2. pwmPending' \in [Task -> [Fan -> Percent \cup {NoWrite}]]
    BY <1>5 DEF ApplyPwm
  <2> QED
    BY <1>5, <2>1, <2>2 DEF ApplyPwm
<1>6. ASSUME NEW t \in Task, NEW f \in Fan, NEW percent \in Percent, SetSpeed(t, f, percent)
      PROVE FanTypeOK'
  <2>1. fan' \in [Fan -> FanRecord]
    <3> DEFINE new == [mode   |-> IF failSafe THEN fan[f].mode ELSE "MANUAL",
                       speed  |-> IF failSafe THEN 0 ELSE percent,
                       target |-> percent]
    <3>1. new \in FanRecord
      BY FanRecordEdits, ModesAndEnds
    <3>2. fan' = [fan EXCEPT ![f] = new]
      BY <1>6 DEF SetSpeed
    <3> QED
      BY <3>1, <3>2
  <2>2. pwmPending' \in [Task -> [Fan -> Percent \cup {NoWrite}]]
    BY <1>6 DEF SetSpeed, Percent
  <2> QED
    BY <1>6, <2>1, <2>2 DEF SetSpeed
<1>7. ASSUME NEW t \in Task, NEW f \in Fan, NEW mode \in FanMode, SetMode(t, f, mode)
      PROVE FanTypeOK'
  <2>1. fan' \in [Fan -> FanRecord]
    <3> DEFINE new == IF mode \in {"OFF", "FAILSAFE"}
                      THEN [mode |-> mode, speed |-> 0, target |-> 0]
                      ELSE [fan[f] EXCEPT !.mode = mode]
    <3>1. new \in FanRecord
      BY FanRecordEdits, ModesAndEnds
    <3>2. fan' = [fan EXCEPT ![f] = new]
      BY <1>7 DEF SetMode
    <3> QED
      BY <3>1, <3>2
  <2> QED
    BY <1>7, <2>1 DEF SetMode
<1>8. CASE UNCHANGED fanVars
  BY <1>8 DEF fanVars
<1> QED
  BY <1>1, <1>2, <1>3, <1>4, <1>5, <1>6, <1>7, <1>8 DEF FanNext

(* Type correctness: no sequence of calls, by any number of tasks, takes a
   speed out of 0..100 or a duty out of 0..255. *)
THEOREM FanTypeCorrect == FanSpec => []FanTypeOK
  BY FanInitTyped, FanNextTyped, PTL DEF FanSpec

----------------------------------------------------------------------------

(* Why FailsafeStopsFans holds.  It is not inductive: a PWM write still pending
   from before could undo the stop, and a duty could be left over from a time
   when the LEDC was not set up.  With one calling task neither can be. *)
NoLeftovers ==
    /\ ~initialized => ~pwmReady
    /\ ~pwmReady => \A f \in Fan : duty[f] = 0

StopUnderWay ==
    failSafe => \A f \in Fan :
        /\ fan[f].speed = 0
        /\ \A t \in Task : pwmPending[t][f] \in {0, NoWrite}
        /\ duty[f] = 0 \/ \E t \in Task : pwmPending[t][f] = 0

FailsafeInv == FanTypeOK /\ NoLeftovers /\ StopUnderWay

(* With a single task that drives the fans, as control_task does in this
   firmware, the three facts hold in every state.  With a second task they do
   not: a write it has pending lands after the stop. *)
LEMMA FailsafeInvHolds ==
    ASSUME NEW Driver, Task = {Driver}
    PROVE  FanSpec => []FailsafeInv
<1>1. FanInit => FailsafeInv
  <2> SUFFICES ASSUME FanInit PROVE FailsafeInv
    OBVIOUS
  <2>1. FanTypeOK
    BY FanInitTyped
  <2> QED
    BY <2>1 DEF FanInit, FailsafeInv, NoLeftovers, StopUnderWay
<1>2. FailsafeInv /\ FanTypeOK' /\ [FanNext]_fanVars => FailsafeInv'
  <2> SUFFICES ASSUME FailsafeInv, FanTypeOK', [FanNext]_fanVars
               PROVE  NoLeftovers' /\ StopUnderWay'
    BY DEF FailsafeInv
  <2> USE DEF FailsafeInv, FanTypeOK
  <2>1. CASE ~initialized /\ InitController
    BY <2>1 DEF InitController, NoLeftovers, StopUnderWay
  <2>2. CASE ResetController
    BY <2>2 DEF ResetController, NoLeftovers, StopUnderWay
  <2>3. ASSUME NEW t \in Task, EnterFailsafe(t) PROVE NoLeftovers' /\ StopUnderWay'
    <3>1. NoLeftovers'
      BY <2>3 DEF EnterFailsafe, NoLeftovers
    <3>2. ASSUME NEW f \in Fan, NEW u \in Task
          PROVE fan'[f].speed = 0 /\ pwmPending'[u][f] = 0
      <4>1. u = t
        OBVIOUS
      <4>2. fan'[f].speed = 0
        <5>1. fan'[f] = [fan[f] EXCEPT !.mode = "FAILSAFE", !.speed = 0]
          BY <2>3, <3>2 DEF EnterFailsafe
        <5>2. fan[f] \in FanRecord
          OBVIOUS
        <5>3. [fan[f] EXCEPT !.mode = "FAILSAFE", !.speed = 0].speed = 0
          BY <5>2 DEF FanRecord
        <5> QED
          BY <5>1, <5>3
      <4> QED
        BY <2>3, <3>2, <4>1, <4>2 DEF EnterFailsafe
    <3> QED
      BY <3>1, <3>2 DEF StopUnderWay
  <2>4. ASSUME NEW t \in Task, ExitFailsafe(t) PROVE NoLeftovers' /\ StopUnderWay'
    BY <2>4 DEF ExitFailsafe, NoLeftovers, StopUnderWay
  <2>5. ASSUME NEW t \in Task, NEW f \in Fan, ApplyPwm(t, f)
        PROVE NoLeftovers' /\ StopUnderWay'
    <3>1. NoLeftovers'
      BY <2>5 DEF ApplyPwm, NoLeftovers
    <3>2. ASSUME failSafe PROVE duty'[f] = 0
      <4>1. pwmPending[t][f] = 0
        BY <2>5, <3>2 DEF ApplyPwm, StopUnderWay
      <4> QED
        BY <2>5, <4>1, DutyInRange DEF ApplyPwm, NoLeftovers
    <3>3. ASSUME failSafe, NEW g \in Fan \ {f}
          PROVE /\ duty'[g] = duty[g]
                /\ \A u \in Task : pwmPending'[u][g] = pwmPending[u][g]
      BY <2>5, <3>3 DEF ApplyPwm
    <3>4. StopUnderWay'
      <4> SUFFICES ASSUME failSafe, NEW g \in Fan
                   PROVE  /\ fan[g].speed = 0
                          /\ \A u \in Task : pwmPending'[u][g] \in {0, NoWrite}
                          /\ duty'[g] = 0 \/ \E u \in Task : pwmPending'[u][g] = 0
        BY <2>5 DEF ApplyPwm, StopUnderWay
      <4>1. CASE g = f
        BY <2>5, <3>2, <4>1 DEF ApplyPwm, StopUnderWay
      <4>2. CASE g # f
        BY <3>3, <4>2 DEF StopUnderWay
      <4> QED
        BY <4>1, <4>2
    <3> QED
      BY <3>1, <3>4
  <2>6. ASSUME NEW t \in Task, NEW f \in Fan, NEW percent \in Percent, SetSpeed(t, f, percent)
        PROVE NoLeftovers' /\ StopUnderWay'
    <3>1. NoLeftovers'
      BY <2>6 DEF SetSpeed, NoLeftovers
    <3>2. ASSUME failSafe, NEW g \in Fan
          PROVE /\ fan'[g].speed = 0
                /\ g = f => pwmPending'[t][g] = 0
                /\ g # f => pwmPending'[t][g] = pwmPending[t][g]
      BY <2>6, <3>2 DEF SetSpeed, StopUnderWay
    <3>3. \A u \in Task : u = t
      OBVIOUS
    <3> QED
      BY <2>6, <3>1, <3>2, <3>3 DEF SetSpeed, StopUnderWay
  <2>7. ASSUME NEW t \in Task, NEW f \in Fan, NEW mode \in FanMode, SetMode(t, f, mode)
        PROVE NoLeftovers' /\ StopUnderWay'
    <3>1. \A g \in Fan : fan[g].speed = 0 => fan'[g].speed = 0
      BY <2>7 DEF SetMode
    <3> QED
      BY <2>7, <3>1 DEF SetMode, NoLeftovers, StopUnderWay
  <2>8. CASE UNCHANGED fanVars
    BY <2>8 DEF fanVars, NoLeftovers, StopUnderWay
  <2> QED
    BY <2>1, <2>2, <2>3, <2>4, <2>5, <2>6, <2>7, <2>8 DEF FanNext
<1> QED
  BY <1>1, <1>2, FanTypeCorrect, PTL DEF FanSpec

(* Fail-safe stops every fan, when a single task drives them. *)
THEOREM FailsafeIsSafe ==
    ASSUME NEW Driver, Task = {Driver}
    PROVE  FanSpec => []FailsafeStopsFans
<1>1. FailsafeInv => FailsafeStopsFans
  BY FanAssumption DEF FailsafeInv, StopUnderWay, FailsafeStopsFans, Idle
<1> QED
  BY <1>1, FailsafeInvHolds, PTL

----------------------------------------------------------------------------
\* The control loop

OutcomeSet == [failsafe : {"enter", "exit", "keep"}, speed1 : Percent, speed2 : Percent]

(* The speeds apply_fan_policy hands out are percentages: the uint8_t casts
   lose nothing. *)
LEMMA PolicyTyped ==
    ASSUME temp \in Int, rh \in Int, NEW ctrl \in PolicyInput,
           NEW mode, NEW cap, NEW active, NEW o \in ApplyFanPolicy(mode, ctrl, cap, active)
    PROVE  o \in OutcomeSet
<1>1. ctrl.fan1 \in Percent /\ ctrl.fan2 \in Percent
  BY DEF PolicyInput
<1>2. \A f \in {"enter", "exit", "keep"}, s1 \in Percent, s2 \in Percent :
         Outcome(f, s1, s2) \in OutcomeSet
  BY DEF Outcome, OutcomeSet
<1>3. 0 \in Percent /\ 100 \in Percent /\ 60 \in Percent /\ 85 \in Percent
  BY DEF Percent
<1>4. Rest \in OutcomeSet
  BY <1>2, <1>3 DEF Rest
<1>5. AcPolicy(ctrl) \in OutcomeSet
  <2>1. AcAutoSpeed \in Percent
    BY DEF AcAutoSpeed, Min2, Percent
  <2>2. \A a \in Percent, b \in Percent : Max2(a, b) \in Percent
    BY DEF Max2
  <2> DEFINE base1 == IF ctrl.fanMode = "manual" THEN ctrl.fan1 ELSE AcAutoSpeed
             base2 == IF ctrl.fanMode = "manual" THEN ctrl.fan2 ELSE AcAutoSpeed
  <2>3. base1 \in Percent /\ base2 \in Percent
    BY <1>1, <2>1
  <2>4. AcPolicy(ctrl) \in {Outcome("exit", 0, 0), Outcome("exit", Max2(base1, 85), Max2(base2, 85)),
                            Outcome("exit", Max2(base1, 60), Max2(base1, 60)),
                            Outcome("exit", base1, base2)}
    BY DEF AcPolicy
  <2> HIDE DEF base1, base2
  <2> QED
    BY <1>2, <1>3, <2>2, <2>3, <2>4
<1>6. ManualPolicy(mode, ctrl, cap) \in OutcomeSet
  BY <1>1, <1>2, <1>3 DEF ManualPolicy
<1>7. AutoPolicy(mode) \subseteq OutcomeSet
  <2>1. CalcSpeedFromTemp(temp, 15, 25) \in Int
    BY DEF CalcSpeedFromTemp
  <2>2. ExchangerAutoSpeed \in Percent
    <3> DEFINE curve == CalcSpeedFromTemp(temp, 15, 25)
    <3>1. curve \in Int
      BY <2>1
    <3> HIDE DEF curve
    <3>2. Clamp(curve, 10, 60) \in Percent
      BY <3>1 DEF Clamp, Percent
    <3> QED
      BY <3>2 DEF ExchangerAutoSpeed, curve
  <2>3. \A s \in FtxSpeed : Outcome("exit", s, s) \in OutcomeSet
    BY <1>2, LoopAssumption
  <2>4. /\ Outcome("enter", 0, 0) \in OutcomeSet
        /\ Outcome("exit", 100, 100) \in OutcomeSet
        /\ Outcome("exit", ExchangerAutoSpeed, ExchangerAutoSpeed) \in OutcomeSet
    BY <1>2, <1>3, <2>2
  <2> QED
    BY <2>3, <2>4 DEF AutoPolicy
<1> QED
  BY <1>4, <1>5, <1>6, <1>7 DEF ApplyFanPolicy

----------------------------------------------------------------------------

(* Until app_main has run, the controller is down; and from the copy to the
   decision the tick holds a control record. *)
BootIsDown == pc = "boot" => ~initialized

CopyTaken == pc \in {"caps", "mode", "active", "decide"} => tick.ctrl \in PolicyInput

LoopInv == TypeOK /\ BootIsDown /\ CopyTaken

(* The tick's locals with one of them replaced. *)
LEMMA TickEdits ==
    /\ NoTick \in TickRecord
    /\ \A t \in TickRecord, c \in PolicyInput : [t EXCEPT !.ctrl = c] \in TickRecord
    /\ \A t \in TickRecord, p \in Profile : /\ [t EXCEPT !.cap = p] \in TickRecord
                                            /\ [t EXCEPT !.mode = p] \in TickRecord
                                            /\ [t EXCEPT !.activeIn = p] \in TickRecord
    /\ \A m \in ProfileOrNone, v1 \in Percent, v2 \in Percent :
         [NoTick EXCEPT !.mode = m, !.speed1 = v1, !.speed2 = v2] \in TickRecord
<1>1. NoTick \in TickRecord
  BY DEF NoTick, TickRecord, ProfileOrNone, Percent
<1>2. ASSUME NEW t \in TickRecord, NEW c \in PolicyInput
      PROVE  [t EXCEPT !.ctrl = c] \in TickRecord
  BY DEF TickRecord
<1>3. ASSUME NEW t \in TickRecord, NEW p \in Profile
      PROVE  /\ [t EXCEPT !.cap = p] \in TickRecord
             /\ [t EXCEPT !.mode = p] \in TickRecord
             /\ [t EXCEPT !.activeIn = p] \in TickRecord
  <2>1. p \in ProfileOrNone
    BY DEF ProfileOrNone
  <2>2. [t EXCEPT !.cap = p] \in TickRecord
    BY <2>1 DEF TickRecord
  <2>3. [t EXCEPT !.mode = p] \in TickRecord
    BY <2>1 DEF TickRecord
  <2>4. [t EXCEPT !.activeIn = p] \in TickRecord
    BY <2>1 DEF TickRecord
  <2> QED
    BY <2>2, <2>3, <2>4
<1>4. ASSUME NEW m \in ProfileOrNone, NEW v1 \in Percent, NEW v2 \in Percent
      PROVE  [NoTick EXCEPT !.mode = m, !.speed1 = v1, !.speed2 = v2] \in TickRecord
  <2> DEFINE t1 == [NoTick EXCEPT !.mode = m]
             t2 == [t1 EXCEPT !.speed1 = v1]
             t3 == [t2 EXCEPT !.speed2 = v2]
  <2>1. \A t \in TickRecord, n \in ProfileOrNone : [t EXCEPT !.mode = n] \in TickRecord
    BY DEF TickRecord
  <2>2. \A t \in TickRecord, v \in Percent : [t EXCEPT !.speed1 = v] \in TickRecord
    BY DEF TickRecord
  <2>3. \A t \in TickRecord, v \in Percent : [t EXCEPT !.speed2 = v] \in TickRecord
    BY DEF TickRecord
  <2>4. t1 \in TickRecord
    BY <1>1, <2>1
  <2> HIDE DEF t1
  <2>5. t2 \in TickRecord
    BY <2>2, <2>4
  <2> HIDE DEF t2
  <2>6. t3 \in TickRecord
    BY <2>3, <2>5
  <2> QED
    BY <2>6 DEF t1, t2
<1> QED
  BY <1>1, <1>2, <1>3, <1>4

(* A copy torn between two control records is still well-formed, field by field. *)
LEMMA CopyTyped ==
    ASSUME LoopInv, CopyControl
    PROVE  \E c : tick' = [tick EXCEPT !.ctrl = c] /\ c \in PolicyInput
<1>1. control \in Control /\ Storing \in Control
  BY DEF LoopInv, TypeOK, Storing, WriteRecord
<1>2. PassingModes \subseteq FanRunMode
  BY DEF LoopInv, TypeOK, PassingModes, WriteRecord
<1>3. \A c \in Control : /\ c.fanMode \in FanRunMode /\ c.fan1 \in Percent /\ c.fan2 \in Percent
                         /\ c.acModules \in SUBSET AcModule /\ c.acCond \in CondAction
  BY DEF Control, Percent
<1>4. PICK fanMode \in {control.fanMode, Storing.fanMode} \cup PassingModes,
           fan1 \in {control.fan1, Storing.fan1}, fan2 \in {control.fan2, Storing.fan2},
           modules \in {control.acModules, Storing.acModules},
           cond \in {control.acCond, Storing.acCond} :
        tick' = [tick EXCEPT !.ctrl = [fanMode |-> fanMode, fan1 |-> fan1, fan2 |-> fan2,
                                       acModules |-> modules, acCond |-> cond]]
  BY DEF CopyControl
<1>5. fanMode \in FanRunMode /\ fan1 \in Percent /\ fan2 \in Percent
      /\ modules \in SUBSET AcModule /\ cond \in CondAction
  BY <1>1, <1>2, <1>3
<1>6. [fanMode |-> fanMode, fan1 |-> fan1, fan2 |-> fan2,
       acModules |-> modules, acCond |-> cond] \in PolicyInput
  BY <1>5 DEF PolicyInput
<1> QED
  BY <1>4, <1>6

(* What a tick decides is a well-formed outcome. *)
LEMMA DecisionTyped ==
    ASSUME LoopInv, Decide
    PROVE  \E o \in OutcomeSet :
              /\ CASE o.failsafe = "enter" -> EnterFailsafe(ControlTask)
                   [] o.failsafe = "exit"  -> ExitFailsafe(ControlTask)
                   [] o.failsafe = "keep"  -> UNCHANGED fanVars
              /\ tick' = [NoTick EXCEPT !.mode = tick.mode,
                                        !.speed1 = o.speed1, !.speed2 = o.speed2]
<1>1. tick.ctrl \in PolicyInput /\ temp \in Int /\ rh \in Int
  BY DEF LoopInv, CopyTaken, TypeOK, Decide
<1>2. PICK enabled \in {control.enabled, Storing.enabled},
           modules \in {control.acModules, Storing.acModules} :
        \E o \in ApplyFanPolicy(tick.mode, tick.ctrl, tick.cap,
                                ControlActive(tick.activeIn, enabled, modules)) :
          /\ CASE o.failsafe = "enter" -> EnterFailsafe(ControlTask)
               [] o.failsafe = "exit"  -> ExitFailsafe(ControlTask)
               [] o.failsafe = "keep"  -> UNCHANGED fanVars
          /\ tick' = [NoTick EXCEPT !.mode = tick.mode,
                                    !.speed1 = o.speed1, !.speed2 = o.speed2]
  BY Zenon DEF Decide
<1>3. ASSUME NEW o \in ApplyFanPolicy(tick.mode, tick.ctrl, tick.cap,
                                      ControlActive(tick.activeIn, enabled, modules))
      PROVE  o \in OutcomeSet
  BY <1>1, <1>3, PolicyTyped
<1> QED
  BY <1>2, <1>3

(* Every step of the loop is a step of the fan controller's interface, or
   leaves the controller alone. *)
LEMMA StepIsFanStep == LoopInv /\ [Next]_vars => [FanNext]_fanVars
<1> SUFFICES ASSUME LoopInv, [Next]_vars PROVE [FanNext]_fanVars
  OBVIOUS
<1>1. ControlTask \in Task /\ Fan1 \in Fan /\ Fan2 \in Fan /\ "MANUAL" \in FanMode
  BY LoopAssumption DEF FanMode
<1>2. tick.speed1 \in Percent /\ tick.speed2 \in Percent
  BY DEF LoopInv, TypeOK, TickRecord
<1>3. CASE Boot
  BY <1>3 DEF Boot, LoopInv, BootIsDown, FanNext
<1>4. CASE Sense \/ CopyControl \/ ReadCaps \/ ReadMode \/ ReadActiveProfile
  BY <1>4 DEF Sense, TakeReading, CopyControl, ReadCaps, ReadMode, ReadActiveProfile, fanVars
<1>5. CASE Decide
  <2>1. PICK o \in OutcomeSet :
            CASE o.failsafe = "enter" -> EnterFailsafe(ControlTask)
              [] o.failsafe = "exit"  -> ExitFailsafe(ControlTask)
              [] o.failsafe = "keep"  -> UNCHANGED fanVars
    BY <1>5, DecisionTyped
  <2>2. o.failsafe \in {"enter", "exit", "keep"}
    BY DEF OutcomeSet
  <2>3. EnterFailsafe(ControlTask) \/ ExitFailsafe(ControlTask) \/ UNCHANGED fanVars
    BY <2>1, <2>2
  <2> QED
    BY <1>1, <2>3 DEF FanNext
<1>6. ASSUME NEW f \in Fan, NEW at, NEW next, DriveMode(f, at, next)
      PROVE  [FanNext]_fanVars
  BY <1>1, <1>6 DEF DriveMode, FanNext
<1>7. ASSUME NEW f \in Fan, NEW v \in Percent, NEW at, NEW next, DriveSpeed(f, v, at, next)
      PROVE  [FanNext]_fanVars
  BY <1>1, <1>7 DEF DriveSpeed, FanNext
<1>8. CASE Drive
  BY <1>1, <1>2, <1>6, <1>7, <1>8 DEF Drive
<1>9. CASE FinishPwm
  BY <1>1, <1>9 DEF FinishPwm, FanNext
<1>10. CASE WebStep
  <2>1. UNCHANGED loopVars
    BY <1>10 DEF WebStep, WebSetProfile, WebSetControl, WebSetAcModules, WebSetAcCond,
                 WebFinish, StartWrite
  <2> QED
    BY <2>1 DEF loopVars
<1>11. CASE Restart
  BY <1>11 DEF Restart, FanNext
<1>12. CASE UNCHANGED vars
  BY <1>12 DEF vars
<1> QED
  BY <1>3, <1>4, <1>5, <1>8, <1>9, <1>10, <1>11, <1>12 DEF Next, ControlStep

LEMMA LoopInitInv == Init => LoopInv
<1> SUFFICES ASSUME Init PROVE LoopInv
  OBVIOUS
<1>1. FanTypeOK
  BY FanInitTyped DEF Init
<1>2. control \in Control
  <2>1. StaticControl \in Control
    BY DEF StaticControl, Control, Method, FanRunMode, CondAction
  <2>2. DefaultProfile \in Profile
    BY DEF DefaultProfile, Profile
  <2> QED
    BY <2>1, <2>2, ProfileDefaultsTyped DEF Init
<1>3. profile \in Profile
  BY DEF Init, DefaultProfile, Profile
<1>4. requests \in 0 .. MaxRequests /\ pc \in LoopPc /\ temp \in Int /\ rh \in Int
  BY LoopAssumption DEF Init, LoopPc
<1>5. tick \in TickRecord /\ writing \in WriteRecord \cup {NoControl}
  BY TickEdits DEF Init
<1>6. CondensationTypeOK /\ fansDetected \in BOOLEAN
  BY DEF Init, CondensationInit, CondensationTypeOK
<1>7. BootIsDown /\ CopyTaken
  BY DEF Init, FanInit, BootIsDown, CopyTaken
<1> QED
  BY <1>1, <1>2, <1>3, <1>4, <1>5, <1>6, <1>7 DEF LoopInv, TypeOK

(* The types that the control task's own steps can disturb. *)
LoopTypes ==
    /\ CondensationTypeOK
    /\ fansDetected \in BOOLEAN
    /\ requests \in 0 .. MaxRequests
    /\ pc \in LoopPc
    /\ temp \in Int
    /\ rh \in Int
    /\ tick \in TickRecord

(* The settings, shared with the web task. *)
SettingTypes ==
    /\ profile \in Profile
    /\ control \in Control
    /\ writing \in WriteRecord \cup {NoControl}

LEMMA AlertTyped ==
    ASSUME CondensationTypeOK, NEW h, CheckHumidity(h)
    PROVE  CondensationTypeOK'
<1>1. AlertAfter(alertActive, h) \in BOOLEAN
  <2>1. (~(ClampRh(h) <= RhThreshold - RhHysteresis)) \in BOOLEAN
    OBVIOUS
  <2>2. (ClampRh(h) >= RhThreshold) \in BOOLEAN
    OBVIOUS
  <2> QED
    BY <2>1, <2>2, Zenon DEF AlertAfter
<1> QED
  BY <1>1, Zenon DEF CheckHumidity, CondensationTypeOK

LEMMA ControlStepTypes ==
    ASSUME LoopInv, ControlStep
    PROVE  LoopTypes' /\ SettingTypes'
<1> USE DEF LoopTypes, SettingTypes
<1>1. LoopTypes /\ SettingTypes
  BY DEF LoopInv, TypeOK
<1>2. \A p \in {"sense", "copy", "caps", "mode", "active", "decide",
               "mode1", "speed1", "mode2", "speed2"} : p \in LoopPc
  BY DEF LoopPc
<1>3. CASE Boot
  BY <1>1, <1>2, <1>3 DEF Boot, profileVars, CondensationTypeOK
<1>4. CASE Sense
  <2> PICK r \in Reading \cup {NoReading} : TakeReading(r)
    BY <1>4 DEF Sense
  <2>1. temp' \in Int /\ rh' \in Int
    BY <1>1, LoopAssumption DEF TakeReading
  <2>2. CondensationTypeOK'
    BY <1>1, AlertTyped DEF TakeReading
  <2>3. requests' \in 0 .. MaxRequests
    BY LoopAssumption DEF TakeReading
  <2>4. tick' \in TickRecord /\ pc' \in LoopPc
    BY <1>2, TickEdits DEF TakeReading
  <2>5. UNCHANGED <<fansDetected, profile, control, writing>>
    BY DEF TakeReading
  <2> QED
    BY <1>1, <2>1, <2>2, <2>3, <2>4, <2>5
<1>5. CASE CopyControl
  <2>1. PICK c : tick' = [tick EXCEPT !.ctrl = c] /\ c \in PolicyInput
    BY <1>5, CopyTyped
  <2>2. tick' \in TickRecord
    BY <1>1, <2>1, TickEdits
  <2>3. pc' \in LoopPc /\ UNCHANGED <<alertActive, fansDetected, profileVars, temp, rh>>
    BY <1>2, <1>5 DEF CopyControl
  <2> QED
    BY <1>1, <2>2, <2>3 DEF profileVars, CondensationTypeOK
<1>6. CASE ReadCaps \/ ReadMode \/ ReadActiveProfile
  <2>1. tick' \in TickRecord
    BY <1>1, <1>6, TickEdits DEF ReadCaps, ReadMode, ReadActiveProfile
  <2>2. pc' \in LoopPc /\ UNCHANGED <<alertActive, fansDetected, profileVars, temp, rh>>
    BY <1>2, <1>6 DEF ReadCaps, ReadMode, ReadActiveProfile
  <2> QED
    BY <1>1, <2>1, <2>2 DEF profileVars, CondensationTypeOK
<1>7. CASE Decide
  <2>1. tick' \in TickRecord
    <3>1. PICK o \in OutcomeSet : tick' = [NoTick EXCEPT !.mode = tick.mode,
                                              !.speed1 = o.speed1, !.speed2 = o.speed2]
      BY <1>7, DecisionTyped
    <3>2. o.speed1 \in Percent /\ o.speed2 \in Percent
      BY DEF OutcomeSet
    <3>3. tick.mode \in ProfileOrNone
      BY <1>1 DEF TickRecord
    <3> QED
      BY <3>1, <3>2, <3>3, TickEdits
  <2>2. pc' \in LoopPc /\ UNCHANGED <<alertActive, fansDetected, profileVars, temp, rh>>
    BY <1>2, <1>7 DEF Decide
  <2> QED
    BY <1>1, <2>1, <2>2 DEF profileVars, CondensationTypeOK
<1>8. CASE Drive
  <2>1. pc' \in LoopPc /\ UNCHANGED <<alertActive, fansDetected, profileVars, temp, rh, tick>>
    BY <1>2, <1>8 DEF Drive, DriveMode, DriveSpeed
  <2> QED
    BY <1>1, <2>1 DEF profileVars, CondensationTypeOK
<1>9. CASE FinishPwm
  BY <1>1, <1>9 DEF FinishPwm, profileVars, CondensationTypeOK
<1> QED
  BY <1>3, <1>4, <1>5, <1>6, <1>7, <1>8, <1>9 DEF ControlStep

(* What the web task stores is well-formed, and so is what a reset finds in the NVS. *)
LEMMA WebStepTypes ==
    ASSUME LoopInv, WebStep
    PROVE  LoopTypes' /\ SettingTypes'
<1> USE DEF LoopTypes, SettingTypes
<1>1. LoopTypes /\ SettingTypes
  BY DEF LoopInv, TypeOK
<1>2. UNCHANGED loopVars
  BY DEF WebStep, WebSetProfile, WebSetControl, WebSetAcModules, WebSetAcCond,
         WebFinish, StartWrite
<1>3. UNCHANGED fansDetected
  BY DEF WebStep, WebSetProfile, WebSetControl, WebSetAcModules, WebSetAcCond,
         WebFinish, StartWrite, loopVars, vars
<1>4. /\ CondensationTypeOK'
      /\ pc' \in LoopPc /\ temp' \in Int /\ rh' \in Int /\ tick' \in TickRecord
  BY <1>1, <1>2 DEF loopVars, CondensationTypeOK
<1>5. ASSUME NEW ctrl \in Control, NEW passing \in SUBSET FanRunMode
      PROVE  [ctrl |-> ctrl, from |-> profile, passing |-> passing] \in WriteRecord
  BY <1>1 DEF WriteRecord
<1>6. WebIdle => requests + 1 \in 0 .. MaxRequests
  BY <1>1, LoopAssumption DEF WebIdle
<1>7. ASSUME NEW ctrl \in Control, StartWrite(ctrl)
      PROVE  SettingTypes' /\ requests' \in 0 .. MaxRequests
  <2>1. [ctrl |-> ctrl, from |-> profile, passing |-> {}] \in WriteRecord
    BY <1>5
  <2> QED
    BY <1>1, <1>6, <1>7, <2>1 DEF StartWrite
<1>8. CASE WebSetProfile
  <2>1. PICK p \in ModeChoice :
           /\ profile' = p
           /\ writing' = [ctrl |-> ProfileDefaults(p, control), from |-> profile,
                          passing |-> IF p = "ac_monitor" THEN {"off"} ELSE {}]
    BY <1>8 DEF WebSetProfile
  <2>2. p \in Profile
    BY LoopAssumption
  <2>3. ProfileDefaults(p, control) \in Control
    BY <1>1, <2>2, ProfileDefaultsTyped
  <2>4. (IF p = "ac_monitor" THEN {"off"} ELSE {}) \in SUBSET FanRunMode
    BY DEF FanRunMode
  <2>5. writing' \in WriteRecord
    BY <1>5, <2>1, <2>3, <2>4
  <2>6. requests' \in 0 .. MaxRequests /\ UNCHANGED control
    BY <1>6, <1>8 DEF WebSetProfile
  <2> QED
    BY <1>1, <1>3, <1>4, <2>1, <2>2, <2>5, <2>6
<1>9. CASE WebSetControl
  <2>1. PICK req \in Request : StartWrite(ControlAfter(profile, control, req))
    BY <1>9 DEF WebSetControl
  <2>2. ControlAfter(profile, control, req) \in Control
    BY <1>1, LoopAssumption, ControlAfterTyped
  <2> QED
    BY <1>1, <1>3, <1>4, <1>7, <2>1, <2>2
<1>10. CASE WebSetAcModules
  <2>1. PICK modules \in ModuleMask : StartWrite(AcModulesAfter(control, modules))
    BY <1>10 DEF WebSetAcModules
  <2>2. AcModulesAfter(control, modules) \in Control
    BY <1>1, LoopAssumption, AcModulesTyped
  <2> QED
    BY <1>1, <1>3, <1>4, <1>7, <2>1, <2>2
<1>11. CASE WebSetAcCond
  <2>1. PICK action \in CondChoice : StartWrite([control EXCEPT !.acCond = action])
    BY <1>11 DEF WebSetAcCond
  <2>2. [control EXCEPT !.acCond = action] \in Control
    BY <1>1, LoopAssumption, ControlEdits
  <2> QED
    BY <1>1, <1>3, <1>4, <1>7, <2>1, <2>2
<1>12. CASE WebFinish
  <2>1. writing.ctrl \in Control
    BY <1>1, <1>12 DEF WebFinish, WriteRecord
  <2> QED
    BY <1>1, <1>3, <1>4, <1>12, <2>1 DEF WebFinish
<1> QED
  BY <1>8, <1>9, <1>10, <1>11, <1>12 DEF WebStep

LEMMA RestartTypes ==
    ASSUME LoopInv, Restart
    PROVE  LoopTypes' /\ SettingTypes'
<1> USE DEF LoopTypes, SettingTypes
<1>1. LoopTypes /\ SettingTypes
  BY DEF LoopInv, TypeOK
<1>2. profile' \in Profile /\ control' \in Control
  <2>1. writing # NoControl => writing.ctrl \in Control /\ writing.from \in Profile
    BY <1>1 DEF WriteRecord
  <2> QED
    BY <1>1, <2>1 DEF Restart
<1>3. requests' \in 0 .. MaxRequests
  BY LoopAssumption DEF Restart
<1>4. tick' \in TickRecord /\ writing' \in WriteRecord \cup {NoControl}
  BY TickEdits DEF Restart
<1>5. fansDetected' \in BOOLEAN /\ pc' = "boot" /\ temp' = 20 /\ rh' = 50
  BY Zenon DEF Restart
<1>6. CondensationTypeOK'
  BY Zenon DEF Restart, CondensationTypeOK
<1> QED
  BY <1>2, <1>3, <1>4, <1>5, <1>6 DEF LoopPc

LEMMA LoopNextInv == LoopInv /\ [Next]_vars => LoopInv'
<1> SUFFICES ASSUME LoopInv, [Next]_vars PROVE LoopInv'
  OBVIOUS
<1>1. FanTypeOK'
  BY StepIsFanStep, FanNextTyped DEF LoopInv, TypeOK
<1>2. LoopTypes' /\ SettingTypes'
  <2>1. CASE UNCHANGED vars
    BY <2>1 DEF LoopInv, TypeOK, LoopTypes, SettingTypes, vars, profileVars, CondensationTypeOK
  <2> QED
    BY <2>1, ControlStepTypes, WebStepTypes, RestartTypes DEF Next
<1>3. BootIsDown'
  <2>1. CASE ControlStep
    <3>1. pc' # "boot" \/ (FinishPwm /\ UNCHANGED <<pc, initialized>>)
      BY <2>1 DEF ControlStep, Boot, Sense, TakeReading, CopyControl, ReadCaps, ReadMode,
                  ReadActiveProfile, Decide, Drive, DriveMode, DriveSpeed, FinishPwm, ApplyPwm
    <3> QED
      BY <3>1 DEF LoopInv, BootIsDown
  <2>2. CASE WebStep
    <3>1. UNCHANGED loopVars
      BY <2>2 DEF WebStep, WebSetProfile, WebSetControl, WebSetAcModules, WebSetAcCond,
                  WebFinish, StartWrite
    <3> QED
      BY <3>1 DEF loopVars, fanVars, LoopInv, BootIsDown
  <2>3. CASE Restart
    BY <2>3 DEF Restart, ResetController, BootIsDown
  <2>4. CASE UNCHANGED vars
    BY <2>4 DEF vars, fanVars, LoopInv, BootIsDown
  <2> QED
    BY <2>1, <2>2, <2>3, <2>4 DEF Next
<1>4. CopyTaken'
  <2> DEFINE holding == {"caps", "mode", "active", "decide"}
  <2>1. CASE CopyControl
    <3>1. PICK c : tick' = [tick EXCEPT !.ctrl = c] /\ c \in PolicyInput
      BY <2>1, CopyTyped
    <3>2. tick'.ctrl = c
      BY <3>1 DEF LoopInv, TypeOK, TickRecord
    <3> QED
      BY <3>1, <3>2 DEF CopyTaken
  <2>2. CASE ReadCaps \/ ReadMode \/ ReadActiveProfile
    <3>1. pc \in holding /\ tick.ctrl \in PolicyInput
      BY <2>2 DEF ReadCaps, ReadMode, ReadActiveProfile, LoopInv, CopyTaken
    <3>2. tick'.ctrl = tick.ctrl
      BY <2>2 DEF ReadCaps, ReadMode, ReadActiveProfile, LoopInv, TypeOK, TickRecord
    <3> QED
      BY <3>1, <3>2 DEF CopyTaken
  <2>3. CASE Boot \/ Sense \/ Decide \/ Drive \/ Restart
    BY <2>3 DEF Boot, Sense, TakeReading, Decide, Drive, DriveMode, DriveSpeed, Restart, CopyTaken
  <2>4. CASE FinishPwm
    BY <2>4 DEF FinishPwm, LoopInv, CopyTaken
  <2>5. CASE WebStep
    <3>1. UNCHANGED loopVars
      BY <2>5 DEF WebStep, WebSetProfile, WebSetControl, WebSetAcModules, WebSetAcCond,
                  WebFinish, StartWrite
    <3> QED
      BY <3>1 DEF loopVars, LoopInv, CopyTaken
  <2>6. CASE UNCHANGED vars
    BY <2>6 DEF vars, LoopInv, CopyTaken
  <2> QED
    BY <2>1, <2>2, <2>3, <2>4, <2>5, <2>6 DEF Next, ControlStep
<1> QED
  BY <1>1, <1>2, <1>3, <1>4 DEF LoopInv, TypeOK, LoopTypes, SettingTypes

----------------------------------------------------------------------------

(* Type correctness of the loop: whatever the web API asks for and whenever
   the chip resets, settings, speeds and duties stay in range. *)
THEOREM LoopTypeCorrect == Spec => []TypeOK
<1>1. LoopInv => TypeOK
  BY DEF LoopInv
<1> QED
  BY <1>1, LoopInitInv, LoopNextInv, PTL DEF Spec

(* The control loop implements the fan controller's interface: every step of
   control_task, of the web task and of a reset is one call of the controller,
   one PWM write, or nothing the controller sees. *)
THEOREM LoopDrivesController == Spec => FanSpec
<1>1. Init => FanInit
  BY DEF Init
<1> QED
  BY <1>1, LoopInitInv, LoopNextInv, StepIsFanStep, PTL DEF Spec, FanSpec

(* So fail-safe stops the fans in the firmware as a whole: for all readings,
   settings, requests and interleavings, not only those of the runs. *)
THEOREM LoopFailsafeSafe == Spec => []FailsafeStopsFans
<1>1. Task = {ControlTask}
  BY LoopAssumption
<1>2. FanSpec => []FailsafeStopsFans
  BY <1>1, FailsafeIsSafe
<1> QED
  BY <1>2, LoopDrivesController, PTL

----------------------------------------------------------------------------
(* What is on the wire at the end of a tick.  In the middle of one the speed and
   the duty of a fan part: exit_failsafe changes the one without the other.  A
   fan is settled when they agree or the write that makes them agree is pending,
   and one that is not is still to be set before the tick ends. *)
Settled(f) ==
    IF pwmPending[ControlTask][f] = NoWrite
    THEN duty[f] = DutyOf(fan[f].speed)
    ELSE pwmPending[ControlTask][f] = fan[f].speed

StillToSet(f) ==
    /\ ~failSafe
    /\ \/ pc \in {"mode1", "speed1"}
       \/ f = Fan2 /\ pc \in {"mode2", "speed2"}

SpeedsOnTheWire == pwmReady => fansDetected /\ \A f \in Fan : Settled(f) \/ StillToSet(f)

BootIsFresh == pc = "boot" => tick = NoTick /\ Idle(ControlTask)

WireInv == LoopInv /\ FailsafeInv /\ BootIsFresh /\ SpeedsOnTheWire

LEMMA TheFans ==
    /\ ControlTask \in Task /\ Fan1 \in Fan /\ Fan2 \in Fan /\ Fan1 # Fan2
    /\ \A f \in Fan : f = Fan1 \/ f = Fan2
    /\ \A t \in Task : t = ControlTask
    /\ \A v \in Percent : v # NoWrite
  BY LoopAssumption, FanAssumption DEF Percent

LEMMA BootIsFreshNext ==
    ASSUME LoopInv, BootIsFresh, [Next]_vars
    PROVE  BootIsFresh'
<1>1. CASE Restart
  <2>1. \A f \in Fan : pwmPending'[ControlTask][f] = NoWrite
    BY <1>1, TheFans DEF Restart, ResetController
  <2> QED
    BY <1>1, <2>1 DEF Restart, BootIsFresh, Idle
<1>2. CASE WebStep \/ UNCHANGED vars
  BY <1>2 DEF WebStep, WebSetProfile, WebSetControl, WebSetAcModules, WebSetAcCond, WebFinish,
              StartWrite, loopVars, fanVars, vars, BootIsFresh, Idle
<1>3. CASE FinishPwm
  BY <1>3 DEF FinishPwm, ApplyPwm, BootIsFresh, Idle
<1>4. CASE Boot \/ Sense \/ CopyControl \/ ReadCaps \/ ReadMode \/ ReadActiveProfile \/ Decide
           \/ Drive
  <2>1. pc' # "boot"
    BY <1>4 DEF Boot, Sense, TakeReading, CopyControl, ReadCaps, ReadMode,
                ReadActiveProfile, Decide, Drive, DriveMode, DriveSpeed
  <2> QED
    BY <2>1 DEF BootIsFresh
<1> QED
  BY <1>1, <1>2, <1>3, <1>4 DEF Next, ControlStep

(* A speed that is set is on its way to the wire. *)
LEMMA SetSpeedSettles ==
    ASSUME FanTypeOK, NEW f \in Fan, NEW percent \in Percent, ~failSafe,
           SetSpeed(ControlTask, f, percent)
    PROVE  /\ Settled(f)' /\ fan'[f].speed = percent
           /\ \A g \in Fan \ {f} : fan'[g] = fan[g] /\ (Settled(g) => Settled(g)')
<1>1. /\ fan' = [fan EXCEPT ![f] = [mode |-> "MANUAL", speed |-> percent, target |-> percent]]
      /\ pwmPending' = [pwmPending EXCEPT ![ControlTask][f] = percent]
      /\ duty' = duty
  BY DEF SetSpeed
<1>2. fan'[f].speed = percent /\ pwmPending'[ControlTask][f] = percent
  BY <1>1, TheFans DEF FanTypeOK
<1>3. \A g \in Fan \ {f} : fan'[g] = fan[g] /\ pwmPending'[ControlTask][g] = pwmPending[ControlTask][g]
  BY <1>1, TheFans DEF FanTypeOK
<1> QED
  BY <1>1, <1>2, <1>3, TheFans DEF Settled

(* set_mode(MANUAL) changes no speed. *)
LEMMA SetManualKeeps ==
    ASSUME FanTypeOK, NEW f \in Fan, SetMode(ControlTask, f, "MANUAL"), NEW g \in Fan
    PROVE  fan'[g].speed = fan[g].speed /\ (Settled(g) => Settled(g)')
<1>1. fan' = [fan EXCEPT ![f] = [@ EXCEPT !.mode = "MANUAL"]]
  BY DEF SetMode
<1>2. fan'[g].speed = fan[g].speed
  BY <1>1 DEF FanTypeOK, FanRecord
<1> QED
  BY <1>2 DEF SetMode, Settled

(* fan_pwm_apply writes the speed the controller reports. *)
LEMMA ApplySettles ==
    ASSUME FanTypeOK, pwmReady, NEW f \in Fan, ApplyPwm(ControlTask, f), NEW g \in Fan, Settled(g)
    PROVE  Settled(g)'
<1>1. CASE g = f
  <2>1. pwmPending'[ControlTask][f] = NoWrite /\ duty'[f] = DutyOf(pwmPending[ControlTask][f])
    BY TheFans DEF ApplyPwm, FanTypeOK
  <2> QED
    BY <1>1, <2>1 DEF ApplyPwm, Settled
<1>2. CASE g # f
  <2>1. pwmPending'[ControlTask][g] = pwmPending[ControlTask][g] /\ duty'[g] = duty[g]
    BY <1>2, TheFans DEF ApplyPwm, FanTypeOK
  <2> QED
    BY <2>1 DEF ApplyPwm, Settled
<1> QED
  BY <1>1, <1>2

LEMMA SpeedsOnTheWireNext == WireInv /\ [Next]_vars => SpeedsOnTheWire'
<1> SUFFICES ASSUME WireInv, [Next]_vars, pwmReady'
             PROVE  fansDetected' /\ \A f \in Fan : Settled(f)' \/ StillToSet(f)'
  BY DEF SpeedsOnTheWire
<1> USE DEF WireInv
<1>1. FanTypeOK
  BY DEF FailsafeInv
<1>2. CASE Boot
  <2>1. ~pwmReady
    BY <1>2 DEF Boot, LoopInv, BootIsDown, FailsafeInv, NoLeftovers
  <2>2. fansDetected /\ InitController
    BY <1>2, <2>1 DEF Boot, fanVars
  <2>3. \A f \in Fan : fan'[f].speed = 0 /\ duty'[f] = 0 /\ pwmPending'[ControlTask][f] = NoWrite
    BY <1>2, <2>2 DEF Boot, BootIsFresh, Idle, InitController, Stopped
  <2> QED
    BY <1>2, <2>2, <2>3, DutyInRange DEF Boot, Settled
<1>3. CASE Restart
  BY <1>3 DEF Restart, ResetController
<1>4. CASE Sense \/ CopyControl \/ ReadCaps \/ ReadMode \/ ReadActiveProfile
  <2>1. UNCHANGED <<fanVars, fansDetected>> /\ \A f \in Fan : ~StillToSet(f)
    BY <1>4 DEF Sense, TakeReading, CopyControl, ReadCaps, ReadMode, ReadActiveProfile, StillToSet
  <2> QED
    BY <2>1 DEF fanVars, SpeedsOnTheWire, Settled
<1>5. CASE Decide
  <2>1. PICK o \in OutcomeSet :
            CASE o.failsafe = "enter" -> EnterFailsafe(ControlTask)
              [] o.failsafe = "exit"  -> ExitFailsafe(ControlTask)
              [] o.failsafe = "keep"  -> UNCHANGED fanVars
    BY <1>5, DecisionTyped
  <2>2. EnterFailsafe(ControlTask) \/ ExitFailsafe(ControlTask) \/ UNCHANGED fanVars
    BY <2>1 DEF OutcomeSet
  <2>3. pc = "decide" /\ pc' = "mode1" /\ UNCHANGED fansDetected
    BY <1>5 DEF Decide
  <2>4. pwmReady /\ fansDetected
    BY <2>2, <2>3 DEF EnterFailsafe, ExitFailsafe, fanVars, SpeedsOnTheWire
  <2>5. CASE EnterFailsafe(ControlTask)
    <3>1. ASSUME NEW f \in Fan PROVE fan'[f].speed = 0 /\ pwmPending'[ControlTask][f] = 0
      <4>1. fan'[f] = [fan[f] EXCEPT !.mode = "FAILSAFE", !.speed = 0]
        BY <2>5 DEF EnterFailsafe
      <4>2. fan[f] \in FanRecord
        BY <1>1 DEF FanTypeOK
      <4>3. fan'[f].speed = 0
        BY <4>1, <4>2 DEF FanRecord
      <4> QED
        BY <1>1, <2>5, <4>3, TheFans DEF EnterFailsafe, FanTypeOK
    <3>2. \A f \in Fan : Settled(f)'
      <4>1. 0 \in Percent
        BY DEF Percent
      <4>2. 0 # NoWrite
        BY <4>1, TheFans
      <4> QED
        BY <3>1, <4>2 DEF Settled
    <3> QED
      BY <2>3, <2>4, <3>2
  <2>6. CASE ExitFailsafe(ControlTask)
    <3>1. ~failSafe'
      BY <2>6 DEF ExitFailsafe
    <3>2. \A f \in Fan : StillToSet(f)'
      BY <2>3, <3>1 DEF StillToSet
    <3> QED
      BY <2>3, <2>4, <3>2
  <2>7. CASE UNCHANGED fanVars
    BY <2>3, <2>4, <2>7 DEF fanVars, SpeedsOnTheWire, Settled, StillToSet
  <2> QED
    BY <2>2, <2>5, <2>6, <2>7
<1>6. ASSUME NEW f \in Fan, NEW at, NEW next, DriveMode(f, at, next),
             \/ f = Fan1 /\ at = "mode1" /\ next = "speed1"
             \/ f = Fan2 /\ at = "mode2" /\ next = "speed2"
      PROVE  fansDetected' /\ \A g \in Fan : Settled(g)' \/ StillToSet(g)'
  <2>1. pwmReady /\ UNCHANGED <<fansDetected, failSafe>>
    BY <1>6 DEF DriveMode, SetMode, fanVars
  <2>2. \A g \in Fan : Settled(g) => Settled(g)'
    BY <1>1, <1>6, SetManualKeeps DEF DriveMode, fanVars, Settled
  <2>3. \A g \in Fan : StillToSet(g) => StillToSet(g)'
    BY <1>6, <2>1 DEF DriveMode, StillToSet
  <2> QED
    BY <2>1, <2>2, <2>3 DEF SpeedsOnTheWire
<1>7. ASSUME NEW f \in Fan, NEW v \in Percent, NEW at, NEW next, DriveSpeed(f, v, at, next),
             \/ f = Fan1 /\ at = "speed1" /\ next = "mode2"
             \/ f = Fan2 /\ at = "speed2" /\ next = "sense"
      PROVE  fansDetected' /\ \A g \in Fan : Settled(g)' \/ StillToSet(g)'
  <2>1. pwmReady /\ UNCHANGED <<fansDetected, failSafe>> /\ pc = at /\ pc' = next
    BY <1>7 DEF DriveSpeed, SetSpeed, fanVars
  <2>2. fansDetected
    BY <2>1 DEF SpeedsOnTheWire
  <2>3. CASE failSafe
    <3>1. UNCHANGED fanVars
      BY <1>7, <2>3 DEF DriveSpeed, Drives
    <3> QED
      BY <2>1, <2>3, <3>1 DEF fanVars, SpeedsOnTheWire, Settled, StillToSet
  <2>4. CASE ~failSafe
    <3>1. SetSpeed(ControlTask, f, v)
      BY <1>7, <2>2, <2>4 DEF DriveSpeed, Drives
    <3>2. Settled(f)' /\ \A g \in Fan \ {f} : Settled(g) => Settled(g)'
      BY <1>1, <2>4, <3>1, SetSpeedSettles
    <3>3. \A g \in Fan \ {f} : StillToSet(g) => StillToSet(g)'
      BY <1>7, <2>1, TheFans DEF StillToSet
    <3> QED
      BY <2>1, <3>2, <3>3 DEF SpeedsOnTheWire
  <2> QED
    BY <2>3, <2>4
<1>8. CASE Drive
  <2>1. tick.speed1 \in Percent /\ tick.speed2 \in Percent
    BY DEF LoopInv, TypeOK, TickRecord
  <2>2. CASE DriveMode(Fan1, "mode1", "speed1")
    BY <1>6, <2>2, TheFans
  <2>3. CASE DriveMode(Fan2, "mode2", "speed2")
    BY <1>6, <2>3, TheFans
  <2>4. CASE DriveSpeed(Fan1, tick.speed1, "speed1", "mode2")
    BY <1>7, <2>1, <2>4, TheFans
  <2>5. CASE DriveSpeed(Fan2, tick.speed2, "speed2", "sense")
    BY <1>7, <2>1, <2>5, TheFans
  <2> QED
    BY <1>8, <2>2, <2>3, <2>4, <2>5 DEF Drive
<1>9. CASE FinishPwm
  <2>1. PICK f \in Fan : ApplyPwm(ControlTask, f)
    BY <1>9 DEF FinishPwm
  <2>2. pwmReady /\ UNCHANGED <<fansDetected, failSafe, pc>>
    BY <1>9, <2>1 DEF FinishPwm, ApplyPwm
  <2>3. \A g \in Fan : Settled(g) => Settled(g)'
    BY <1>1, <2>1, <2>2, ApplySettles
  <2> QED
    BY <2>2, <2>3 DEF SpeedsOnTheWire, StillToSet
<1>10. CASE WebStep \/ UNCHANGED vars
  <2>1. UNCHANGED loopVars
    BY <1>10 DEF WebStep, WebSetProfile, WebSetControl, WebSetAcModules, WebSetAcCond, WebFinish,
                 StartWrite, vars, loopVars
  <2> QED
    BY <2>1 DEF loopVars, fanVars, SpeedsOnTheWire, Settled, StillToSet
<1> QED
  BY <1>2, <1>3, <1>4, <1>5, <1>8, <1>9, <1>10 DEF Next, ControlStep

LEMMA WireInvHolds == Spec => []WireInv
<1>1. Spec => []FailsafeInv
  <2>1. FanSpec => []FailsafeInv
    BY FailsafeInvHolds, LoopAssumption
  <2> QED
    BY <2>1, LoopDrivesController, PTL
<1>2. Init => BootIsFresh /\ SpeedsOnTheWire
  BY TheFans DEF Init, FanInit, BootIsFresh, SpeedsOnTheWire, Idle
<1>3. LoopInv /\ FailsafeInv /\ BootIsFresh /\ SpeedsOnTheWire /\ [Next]_vars
         => BootIsFresh' /\ SpeedsOnTheWire'
  BY BootIsFreshNext, SpeedsOnTheWireNext DEF WireInv
<1>4. WireInv <=> LoopInv /\ FailsafeInv /\ BootIsFresh /\ SpeedsOnTheWire
  BY DEF WireInv
<1> QED
  BY <1>1, <1>2, <1>3, <1>4, LoopInitInv, LoopNextInv, PTL DEF Spec

(* At the end of a tick the duty cycles are those of the speeds the controller
   reports, whatever way the tick took through fail-safe, the modes and the two
   calls that leave the PWM alone. *)
THEOREM DutyIsOfSpeed == Spec => []DutyTracksSpeed
<1>1. WireInv => DutyTracksSpeed
  BY DEF WireInv, SpeedsOnTheWire, DutyTracksSpeed, TickDone, Idle, Settled, StillToSet
<1> QED
  BY <1>1, WireInvHolds, PTL

----------------------------------------------------------------------------
(* With the alert up, a tick that sees the heat exchanger asks for no speed: it
   raises fail-safe, or it does not drive at all.  What the locals ask for
   becomes the fans' speed one fan at a time. *)
RestDecided ==
    tick.mode = "heat_exchanger" /\ alertActive /\ fansDetected /\ ~failSafe =>
        /\ pc \in {"mode1", "speed1", "mode2", "speed2", "sense"}
              => tick.speed1 = 0 /\ tick.speed2 = 0
        /\ pc \in {"mode2", "speed2", "sense"} => fan[Fan1].speed = 0
        /\ pc = "sense" => fan[Fan2].speed = 0

LEMMA AlertRests ==
    ASSUME alertActive, NEW ctrl, NEW cap, NEW active,
           NEW o \in ApplyFanPolicy("heat_exchanger", ctrl, cap, active)
    PROVE  o.failsafe = "enter" \/ o = Rest
<1>1. ~AcAssist("heat_exchanger", ctrl)
  BY DEF AcAssist
<1>2. ManualPolicy("heat_exchanger", ctrl, cap) = Outcome("enter", 0, 0)
  BY DEF ManualPolicy
<1>3. AutoPolicy("heat_exchanger") = {Outcome("enter", 0, 0)}
  BY DEF AutoPolicy
<1>4. o \in {Rest, Outcome("enter", 0, 0)}
  BY <1>1, <1>2, <1>3 DEF ApplyFanPolicy
<1> QED
  BY <1>4 DEF Outcome

LEMMA DecisionRests ==
    ASSUME WireInv, Decide, tick.mode = "heat_exchanger", alertActive, ~failSafe'
    PROVE  tick'.speed1 = 0 /\ tick'.speed2 = 0
<1>1. PICK enabled \in {control.enabled, Storing.enabled},
           modules \in {control.acModules, Storing.acModules} :
        \E o \in ApplyFanPolicy(tick.mode, tick.ctrl, tick.cap,
                                ControlActive(tick.activeIn, enabled, modules)) :
          /\ CASE o.failsafe = "enter" -> EnterFailsafe(ControlTask)
               [] o.failsafe = "exit"  -> ExitFailsafe(ControlTask)
               [] o.failsafe = "keep"  -> UNCHANGED fanVars
          /\ tick' = [NoTick EXCEPT !.mode = tick.mode,
                                    !.speed1 = o.speed1, !.speed2 = o.speed2]
  BY Zenon DEF Decide
<1>2. PICK o \in ApplyFanPolicy(tick.mode, tick.ctrl, tick.cap,
                                ControlActive(tick.activeIn, enabled, modules)) :
          /\ CASE o.failsafe = "enter" -> EnterFailsafe(ControlTask)
               [] o.failsafe = "exit"  -> ExitFailsafe(ControlTask)
               [] o.failsafe = "keep"  -> UNCHANGED fanVars
          /\ tick' = [NoTick EXCEPT !.mode = tick.mode,
                                    !.speed1 = o.speed1, !.speed2 = o.speed2]
  BY <1>1
<1>3. o.failsafe # "enter"
  BY <1>2 DEF EnterFailsafe
<1>4. o = Rest
  BY <1>3, AlertRests
<1> QED
  BY <1>2, <1>4 DEF Rest, Outcome, NoTick

LEMMA RestDecidedNext == WireInv /\ RestDecided /\ [Next]_vars => RestDecided'
<1> SUFFICES ASSUME WireInv, RestDecided, [Next]_vars PROVE RestDecided'
  OBVIOUS
<1>1. FanTypeOK
  BY DEF WireInv, FailsafeInv
<1>2. CASE Boot
  <2>1. tick'.mode = "none"
    BY <1>2 DEF WireInv, BootIsFresh, Boot, NoTick
  <2> QED
    BY <2>1 DEF RestDecided
<1>3. CASE Sense \/ Restart
  <2>1. tick'.mode = "none"
    BY <1>3 DEF Sense, TakeReading, Restart, NoTick
  <2> QED
    BY <2>1 DEF RestDecided
<1>4. CASE CopyControl \/ ReadCaps \/ ReadMode \/ ReadActiveProfile
  <2>1. pc' \in {"caps", "mode", "active", "decide"}
    BY <1>4 DEF CopyControl, ReadCaps, ReadMode, ReadActiveProfile
  <2> QED
    BY <2>1 DEF RestDecided
<1>5. CASE Decide
  <2>1. pc' = "mode1" /\ alertActive' = alertActive /\ tick'.mode = tick.mode
    BY <1>5, DecisionTyped DEF Decide, NoTick, WireInv
  <2> QED
    BY <1>5, <2>1, DecisionRests DEF RestDecided
<1>6. ASSUME NEW f \in Fan, NEW at, NEW next, DriveMode(f, at, next),
             <<at, next>> \in {<<"mode1", "speed1">>, <<"mode2", "speed2">>}
      PROVE  RestDecided'
  <2>1. \A g \in Fan : fan'[g].speed = fan[g].speed
    BY <1>1, <1>6, SetManualKeeps DEF DriveMode, fanVars
  <2>2. UNCHANGED <<fansDetected, failSafe, alertActive, tick>>
    BY <1>6 DEF DriveMode, SetMode, fanVars
  <2>3. pc = at /\ pc' = next
    BY <1>6 DEF DriveMode
  <2> QED
    BY <1>6, <2>1, <2>2, <2>3, TheFans DEF RestDecided
<1>7. CASE DriveSpeed(Fan1, tick.speed1, "speed1", "mode2")
  <2>1. UNCHANGED <<fansDetected, failSafe, alertActive, tick>> /\ pc = "speed1" /\ pc' = "mode2"
    BY <1>7 DEF DriveSpeed, SetSpeed, fanVars
  <2>2. ASSUME fansDetected, ~failSafe PROVE fan'[Fan1].speed = tick.speed1
    <3>1. SetSpeed(ControlTask, Fan1, tick.speed1) /\ tick.speed1 \in Percent
      BY <1>7, <2>2 DEF DriveSpeed, Drives, WireInv, LoopInv, TypeOK, TickRecord
    <3> QED
      BY <1>1, <2>2, <3>1, TheFans, SetSpeedSettles
  <2> QED
    BY <2>1, <2>2 DEF RestDecided
<1>8. CASE DriveSpeed(Fan2, tick.speed2, "speed2", "sense")
  <2>1. UNCHANGED <<fansDetected, failSafe, alertActive, tick>> /\ pc = "speed2" /\ pc' = "sense"
    BY <1>8 DEF DriveSpeed, SetSpeed, fanVars
  <2>2. ASSUME fansDetected, ~failSafe
        PROVE  fan'[Fan2].speed = tick.speed2 /\ fan'[Fan1] = fan[Fan1]
    <3>1. SetSpeed(ControlTask, Fan2, tick.speed2) /\ tick.speed2 \in Percent
      BY <1>8, <2>2 DEF DriveSpeed, Drives, WireInv, LoopInv, TypeOK, TickRecord
    <3> QED
      BY <1>1, <2>2, <3>1, TheFans, SetSpeedSettles
  <2> QED
    BY <2>1, <2>2 DEF RestDecided
<1>9. CASE FinishPwm
  BY <1>9 DEF FinishPwm, ApplyPwm, RestDecided
<1>10. CASE WebStep \/ UNCHANGED vars
  <2>1. UNCHANGED loopVars
    BY <1>10 DEF WebStep, WebSetProfile, WebSetControl, WebSetAcModules, WebSetAcCond, WebFinish,
                 StartWrite, vars, loopVars
  <2> QED
    BY <2>1 DEF loopVars, fanVars, RestDecided
<1>11. CASE Drive
  <2>1. Fan1 \in Fan /\ Fan2 \in Fan
    BY TheFans
  <2> QED
    BY <1>6, <1>7, <1>8, <1>11, <2>1 DEF Drive
<1> QED
  BY <1>2, <1>3, <1>4, <1>5, <1>9, <1>10, <1>11 DEF Next, ControlStep

(* SR-010 for every reading, setting, request and interleaving: when a tick that
   saw the heat exchanger ends with the alert up, both fans are at rest on the
   wire.  Fail-safe stops them, or the speeds are 0 and on the wire, or the
   PWM was never set up. *)
THEOREM CondensationIsSafe == Spec => []CondensationStopsExchanger
<1>1. Init => RestDecided
  BY DEF Init, NoTick, RestDecided
<1>2. WireInv /\ RestDecided => CondensationStopsExchanger
  <2> SUFFICES ASSUME WireInv, RestDecided, TickDone, tick.mode = "heat_exchanger", alertActive,
                      NEW f \in Fan
               PROVE  duty[f] = 0
    BY DEF CondensationStopsExchanger
  <2>1. pc = "sense" /\ \A g \in Fan : pwmPending[ControlTask][g] = NoWrite
    BY DEF TickDone, Idle
  <2>2. 0 # NoWrite
    <3>1. 0 \in Percent
      BY DEF Percent
    <3> QED
      BY <3>1, TheFans
  <2>3. CASE failSafe
    <3>1. duty[f] = 0 \/ \E t \in Task : pwmPending[t][f] = 0
      BY <2>3 DEF WireInv, FailsafeInv, StopUnderWay
    <3> QED
      BY <2>1, <2>2, <3>1, TheFans
  <2>4. CASE ~pwmReady
    BY <2>4 DEF WireInv, FailsafeInv, NoLeftovers
  <2>5. CASE pwmReady /\ ~failSafe
    <3>1. fansDetected /\ duty[f] = DutyOf(fan[f].speed)
      BY <2>1, <2>5 DEF WireInv, SpeedsOnTheWire, Settled, StillToSet
    <3>2. fan[f].speed = 0
      BY <2>1, <2>5, <3>1, TheFans DEF RestDecided
    <3> QED
      BY <3>1, <3>2, DutyInRange
  <2> QED
    BY <2>3, <2>4, <2>5
<1> QED
  BY <1>1, <1>2, RestDecidedNext, WireInvHolds, PTL DEF Spec

=============================================================================
