--------------------------- MODULE NetworkServices ---------------------------
(***************************************************************************)
(* The services that need the network, as the tasks of main.c run them:    *)
(* each pass of control_task starts or feeds the MQTT client and then      *)
(* makes the health check of the firmware, next to ota_monitor_task and    *)
(* the dispatch task of the log.                                           *)
(***************************************************************************)
EXTENDS FirmwareUpdate, MqttFtx

VARIABLE connected      \* wifi_manager_is_connected()

servicesVars == <<updateVars, mqttVars, connected>>

ServicesInit == UpdateInit /\ MqttInit /\ connected = FALSE

\* try_start_mqtt and publish_mqtt_if_connected.
ControlMqtt == MqttControl(connected) /\ UNCHANGED <<updateVars, connected>>

\* The health check after it, in a pass that has read some sensors or none.
ControlHealth ==
    /\ mqttAt = "passed"
    /\ \E sensors \in {0, 1} : HealthStep(sensors)
    /\ UNCHANGED <<mqttVars, connected>>

\* The pass is over: no health check is due, or there was nothing to look at.
ControlDelay ==
    /\ health.at = "waiting"
    /\ \E sensors \in {0, 1} : ~HealthIsDue(sensors)
    /\ NextSecond
    /\ UNCHANGED <<updateVars, connected>>

OtaMonitor == MonitorTask(connected) /\ UNCHANGED <<mqttVars, connected>>

LogDispatch == DispatchTask /\ UNCHANGED <<updateVars, connected>>

\* The link and the clock.
WifiChanges == connected' = ~connected /\ UNCHANGED <<updateVars, mqttVars>>
SessionEnds == SessionLost /\ UNCHANGED <<updateVars, connected>>
TimePasses == Minute /\ UNCHANGED <<mqttVars, connected>>

Reboot == UpdateReboot /\ MqttReboot /\ connected' = FALSE

ServicesNext ==
    \/ ControlMqtt \/ ControlHealth \/ ControlDelay
    \/ OtaMonitor \/ LogDispatch
    \/ WifiChanges \/ SessionEnds \/ TimePasses
    \/ Reboot

ServicesSpec == ServicesInit /\ [][ServicesNext]_servicesVars

=============================================================================
