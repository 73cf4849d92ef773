--------------------------- MODULE MCSensorFailure --------------------------
(***************************************************************************)
(* ControlLoop for TLC with the consecutive reads without a valid sensor   *)
(* counted, as SENSOR_MAX_FAIL_COUNT of thermoflow_config.h would have it; *)
(* no code reads that constant.                                            *)
(***************************************************************************)
EXTENDS MCControlLoop

CONSTANT SensorMaxFailCount     \* SENSOR_MAX_FAIL_COUNT, 3

VARIABLE failedReads            \* consecutive ticks without a valid sensor, up to the maximum

FailureInit == Init /\ failedReads = 0

FailureNext ==
    \/ \E r \in Reading \cup {NoReading} :
          /\ TakeReading(r)
          /\ failedReads' = IF r # NoReading THEN 0
                            ELSE Min2(failedReads + 1, SensorMaxFailCount)
    \/ Next /\ ~Sense /\ UNCHANGED failedReads

FailureSpec == FailureInit /\ [][FailureNext]_<<vars, failedReads>>

(* "SENSOR_MAX_FAIL_COUNT 3 // Fail-safe after 3 errors", and SR-009: "Sensor
   communication failure -> fans OFF".  After that many ticks in a row without
   a valid sensor the fans are at rest. *)
SensorFailureStopsFans ==
    TickDone /\ failedReads = SensorMaxFailCount => \A f \in Fan : duty[f] = 0

=============================================================================
