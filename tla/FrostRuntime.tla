---------------------------- MODULE FrostRuntime -----------------------------
(***************************************************************************)
(* HeatRecovery with a history variable: for how many seconds frost        *)
(* protection has been active without a break, told from the states alone  *)
(* and not from the time stamp the firmware keeps.                         *)
(***************************************************************************)
EXTENDS HeatRecovery

VARIABLE activeFor

hvars == <<ftxVars, activeFor>>

HistInit == FtxInit /\ activeFor = 0

HistNext ==
    \E dt \in 1 .. MaxTick :
        /\ AutoTick(dt) \/ OtherTick(dt)
        /\ activeFor' = IF ftx.frostState = "active"
                        THEN Least(activeFor + dt, FrostMinRuntime) ELSE 0

HistSpec == HistInit /\ [][HistNext]_hvars /\ WF_hvars(HistNext)

----------------------------------------------------------------------------

(* "Min 60s frost protection": an activation that ends has lasted at least the
   minimum run time, also when the state machine was left and entered again or
   readings were out of range meanwhile. *)
FrostHoldsMinRuntime ==
    [][ftx.frostState = "active" /\ ftx'.frostState # "active" => activeFor' >= FrostMinRuntime]_hvars

=============================================================================
