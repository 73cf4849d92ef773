------------------------------- MODULE MqttFtx -------------------------------
(***************************************************************************)
(* The MQTT client (mqtt_ftx.c over mqtt_client.c).  The control task      *)
(* makes one, connects it and publishes; when connecting fails it starts   *)
(* again a second later with a new client, and the old one is freed.  The  *)
(* dispatch task of the log publishes through the same client, without a   *)
(* lock.                                                                   *)
(*                                                                         *)
(* MQTT_BROKER_DEFAULT is taken to be set: with the empty default none of  *)
(* this happens.  Pinning is off, as mqtt_ftx_configure_tls leaves it, and *)
(* the TLS session is external: it comes up or not, and a write to it      *)
(* succeeds or not.                                                        *)
(***************************************************************************)
EXTENDS Naturals

VARIABLES
    client,         \* s_mqtt_client: NULL, or one that is connected or not
    session,        \* the TLS session of the client is alive
    started,        \* g_mqtt_started
    sink,           \* mqtt_ftx_register_log_sink was called
    mqttAt,         \* control_task in try_start_mqtt and publish_mqtt_if_connected
    dispatch        \* the dispatch task: where it is, and the client it has in hand

mqttVars == <<client, session, started, sink, mqttAt, dispatch>>

NoClient == [made |-> FALSE, connected |-> FALSE]

\* What the dispatch task has in hand: nothing, the client there is, or memory that was
\* freed under it.
InHand == {"nothing", "client", "freed"}

MqttInit ==
    /\ client = NoClient
    /\ session = FALSE
    /\ started = FALSE
    /\ sink = FALSE
    /\ mqttAt = "start"
    /\ dispatch = [at |-> "waiting", has |-> "nothing"]

----------------------------------------------------------------------------
\* mqtt_client_destroy: whoever has the client in hand has freed memory.
Destroyed(d) == IF d.has = "client" THEN [d EXCEPT !.has = "freed"] ELSE d

\* try_start_mqtt has nothing to do: it is started already, or there is no connection.
NothingToStart(wifi) ==
    /\ mqttAt = "start"
    /\ started \/ ~wifi
    /\ mqttAt' = "publish"
    /\ UNCHANGED <<client, session, started, sink, dispatch>>

\* mqtt_ftx_configure_tls: the old client is disconnected and destroyed, a new one is made.
ConfigureTls(wifi) ==
    /\ mqttAt = "start"
    /\ ~started /\ wifi
    /\ dispatch' = Destroyed(dispatch)
    /\ session' = FALSE
    /\ \/ client' = [made |-> TRUE, connected |-> FALSE] /\ mqttAt' = "connect"
       \/ client' = NoClient /\ mqttAt' = "publish"
    /\ UNCHANGED <<started, sink>>

\* Fault: g_mqtt_started is not set.
ConnectNotStarted ==
    /\ mqttAt = "connect"
    /\ \/ /\ client' = [client EXCEPT !.connected = TRUE]
          /\ session' = TRUE
          /\ mqttAt' = "register"
       \/ /\ mqttAt' = "publish"
          /\ UNCHANGED <<client, session>>
    /\ UNCHANGED <<started, sink, dispatch>>

\* mqtt_client_connect, which blocks the task; after it g_mqtt_started is set at once.
Connect ==
    /\ mqttAt = "connect"
    /\ \/ /\ client' = [client EXCEPT !.connected = TRUE]
          /\ session' = TRUE
          /\ started' = TRUE
          /\ mqttAt' = "register"
       \/ /\ mqttAt' = "publish"
          /\ UNCHANGED <<client, session, started>>
    /\ UNCHANGED <<sink, dispatch>>

\* mqtt_ftx_register_log_sink, whose result nobody looks at.
RegisterLogSink ==
    /\ mqttAt = "register"
    /\ sink' = TRUE
    /\ mqttAt' = "discover"
    /\ UNCHANGED <<client, session, started, dispatch>>

\* mqtt_ftx_ha_discovery, the first write.
HaDiscovery ==
    /\ mqttAt = "discover"
    /\ mqttAt' = "publish"
    /\ session' \in {session, FALSE}
    /\ UNCHANGED <<client, started, sink, dispatch>>

\* publish_mqtt_if_connected with mqtt_ftx_publish_full_state.  A write that fails is reported and leaves connected set.
PublishState ==
    /\ mqttAt = "publish"
    /\ mqttAt' = "passed"
    /\ IF started /\ client.connected THEN session' \in {session, FALSE} ELSE UNCHANGED session
    /\ UNCHANGED <<client, started, sink, dispatch>>

\* The rest of the second.
NextSecond ==
    /\ mqttAt = "passed"
    /\ mqttAt' = "start"
    /\ UNCHANGED <<client, session, started, sink, dispatch>>

MqttControl(wifi) ==
    \/ NothingToStart(wifi)
    \/ ConfigureTls(wifi) \/ Connect \/ RegisterLogSink \/ HaDiscovery
    \/ PublishState

----------------------------------------------------------------------------
\* mqtt_ftx_publish_raw in the dispatch task: the pointer is not NULL, and is followed.
TakeClient ==
    /\ dispatch.at = "waiting"
    /\ sink /\ client.made
    /\ dispatch' = [at |-> "checking", has |-> "client"]
    /\ UNCHANGED <<client, session, started, sink, mqttAt>>

\* mqtt_client_is_connected.
CheckConnected ==
    /\ dispatch.at = "checking"
    /\ dispatch' = IF client.connected THEN [dispatch EXCEPT !.at = "writing"]
                   ELSE [at |-> "waiting", has |-> "nothing"]
    /\ UNCHANGED <<client, session, started, sink, mqttAt>>

\* mqtt_client_publish writes the entry, with or without success.
WriteEntry ==
    /\ dispatch.at = "writing"
    /\ dispatch' = [at |-> "waiting", has |-> "nothing"]
    /\ session' \in {session, FALSE}
    /\ UNCHANGED <<client, started, sink, mqttAt>>

DispatchTask == TakeClient \/ CheckConnected \/ WriteEntry

\* The broker or the network ends the session: nobody is told.
SessionLost ==
    /\ session
    /\ session' = FALSE
    /\ UNCHANGED <<client, started, sink, mqttAt, dispatch>>

\* A reset.
MqttReboot ==
    /\ client' = NoClient
    /\ session' = FALSE
    /\ started' = FALSE
    /\ sink' = FALSE
    /\ mqttAt' = "start"
    /\ dispatch' = [at |-> "waiting", has |-> "nothing"]

----------------------------------------------------------------------------
(* The dispatch task publishes log entries through the client of the       *)
(* control task and holds no lock: that it never has a client in hand      *)
(* which mqtt_ftx_configure_tls has freed rests on the order in            *)
(* try_start_mqtt (main.c:393-401): no entry goes to a client before       *)
(* g_mqtt_started is set, and none is freed after.                         *)
ClientOutlivesItsUsers ==
    /\ dispatch.has # "freed"
    /\ dispatch.at # "waiting" => client.made
    /\ mqttAt = "connect" => client.made

=============================================================================
