----------------------------- MODULE WifiManager -----------------------------
(***************************************************************************)
(* wifi_manager.c: the boot task dials the stored network, waits for it,   *)
(* and falls back to a set-up access point next to the station; the event  *)
(* task handles what the WiFi driver reports, and dials again.  Both write *)
(* the same flags and the same status, with no lock.                       *)
(*                                                                         *)
(* External: the driver.  It is stopped, started and idle, busy connecting *)
(* or up, and reports an attempt that failed, a link that was lost and an  *)
(* address in the order they happen.  esp_wifi_set_mode, set_config and    *)
(* start are taken to work; esp_wifi_connect may fail where the code looks *)
(* at its result, and where it does not when the driver is not idle.       *)
(***************************************************************************)
EXTENDS WifiCredentials, Sequences

CONSTANTS
    WIFI_MAX_RETRIES,
    MaxEvents       \* bound: events the driver has reported and the event task not handled

ASSUME LinkAssumption ==
    /\ WIFI_MAX_RETRIES \in Nat
    /\ MaxEvents \in Nat \ {0, 1}

VARIABLES
    phase,          \* where the boot task is
    status,         \* s_status.state
    inProgress,     \* s_connect_in_progress
    fallback,       \* s_ap_fallback_active
    retries,        \* s_connect_retries
    bits,           \* s_wifi_event_group
    radio,          \* the driver: "stopped", "idle", "connecting", "up"
    ap,             \* the set-up access point is on the air
    events          \* reported and not handled

linkVars == <<phase, status, inProgress, fallback, retries, bits, radio, ap, events>>
vars == <<credVars, linkVars>>

LinkOff ==
    /\ phase = "off" /\ status = "DISCONNECTED"
    /\ inProgress = FALSE /\ fallback = FALSE /\ retries = 0 /\ bits = {}
    /\ radio = "stopped" /\ ap = FALSE /\ events = <<>>

Init == CredInit /\ LinkOff

----------------------------------------------------------------------------
\* The boot task: wifi_manager_init.

\* No other task knows of the manager yet: what comes before the first wait is one step.
Boot ==
    /\ phase = "off"
    /\ LoadAtBoot
    /\ retries' = 0 /\ bits' = {} /\ fallback' = FALSE
    /\ \/ /\ config' = NoCredentials        \* wifi_start_ap
          /\ phase' = "up" /\ status' = "AP_MODE" /\ ap' = TRUE
          /\ UNCHANGED <<inProgress, radio>>
       \/ /\ config' # NoCredentials        \* wifi_connect
          /\ status' = "CONNECTING" /\ inProgress' = TRUE
          /\ \/ phase' = "waiting" /\ radio' = "connecting"
             \/ phase' = "fallback" /\ radio' = "idle"
          /\ UNCHANGED ap
    /\ UNCHANGED events

\* xEventGroupWaitBits, by a bit or by the timeout of WIFI_CONNECT_TIMEOUT_S.
WaitEnds ==
    /\ phase = "waiting"
    /\ phase' = IF "CONNECTED" \in bits THEN "connected" ELSE "fallback"
    /\ inProgress' = FALSE
    /\ UNCHANGED <<credVars, status, fallback, retries, bits, radio, ap, events>>

SayConnected ==
    /\ phase = "connected"
    /\ status' = "CONNECTED"
    /\ phase' = "up"
    /\ UNCHANGED <<credVars, inProgress, fallback, retries, bits, radio, ap, events>>

\* wifi_start_apsta_fallback
StartFallback ==
    /\ phase = "fallback"
    /\ fallback' = TRUE /\ inProgress' = TRUE /\ retries' = 0 /\ bits' = {}
    /\ phase' = "stopping"
    /\ UNCHANGED <<credVars, status, radio, ap, events>>

\* esp_wifi_stop: an established link is reported lost, an attempt under way may be.
StopRadio ==
    /\ phase = "stopping"
    /\ radio' = "stopped" /\ ap' = FALSE
    /\ phase' = "starting"
    /\ \/ radio # "up" /\ UNCHANGED events
       \/ radio \in {"connecting", "up"} /\ events' = Append(events, "disconnected")
    /\ UNCHANGED <<credVars, status, inProgress, fallback, retries, bits>>

\* esp_wifi_set_mode to access point and station, and esp_wifi_start.
StartBoth ==
    /\ phase = "starting"
    /\ radio' = "idle" /\ ap' = TRUE
    /\ phase' = "dialing"
    /\ UNCHANGED <<credVars, status, inProgress, fallback, retries, bits, events>>

\* esp_wifi_connect; a failure is only logged.
DialAgain ==
    /\ phase = "dialing"
    /\ radio' \in {radio} \cup (IF radio = "idle" THEN {"connecting"} ELSE {})
    /\ phase' = "announcing"
    /\ UNCHANGED <<credVars, status, inProgress, fallback, retries, bits, ap, events>>

AnnounceAP ==
    /\ phase = "announcing"
    /\ status' = "AP_MODE"
    /\ phase' = "up"
    /\ UNCHANGED <<credVars, inProgress, fallback, retries, bits, radio, ap, events>>

----------------------------------------------------------------------------
\* The event task: wifi_event_handler.

Dialled == IF radio = "idle" THEN "connecting" ELSE radio

\* Fault: the handler dials only while the boot task waits for it.
WhenDisconnectedOnlyRetries ==
    IF inProgress /\ retries < WIFI_MAX_RETRIES
    THEN retries' = retries + 1 /\ radio' = Dialled /\ UNCHANGED bits
    ELSE bits' = (IF inProgress THEN bits \cup {"FAIL"} ELSE bits) /\ UNCHANGED <<retries, radio>>

WhenDisconnected ==
    \/ /\ inProgress /\ retries < WIFI_MAX_RETRIES
       /\ retries' = retries + 1
       /\ radio' = Dialled
       /\ UNCHANGED bits
    \/ /\ inProgress /\ retries >= WIFI_MAX_RETRIES
       /\ bits' = bits \cup {"FAIL"}
       /\ UNCHANGED <<retries, radio>>
    \/ /\ ~inProgress
       /\ radio' = IF config # NoCredentials THEN Dialled ELSE radio
       /\ UNCHANGED <<retries, bits>>

\* Fault: the status of a lost link is left as it was.
HandleDisconnectedUnsaid ==
    /\ events # <<>> /\ Head(events) = "disconnected"
    /\ events' = Tail(events)
    /\ WhenDisconnected
    /\ UNCHANGED <<credVars, phase, status, inProgress, fallback, ap>>

HandleDisconnected ==
    /\ events # <<>> /\ Head(events) = "disconnected"
    /\ events' = Tail(events)
    /\ status' = "DISCONNECTED"
    /\ WhenDisconnected
    /\ UNCHANGED <<credVars, phase, inProgress, fallback, ap>>

\* The set-up access point goes when the fallback has reached the stored network.
HandleGotIp ==
    /\ events # <<>> /\ Head(events) = "gotIp"
    /\ events' = Tail(events)
    /\ status' = "CONNECTED"
    /\ inProgress' = FALSE /\ retries' = 0
    /\ ap' = (ap /\ ~fallback) /\ fallback' = FALSE
    /\ bits' = bits \cup {"CONNECTED"}
    /\ UNCHANGED <<credVars, phase, radio>>

----------------------------------------------------------------------------
\* The driver (external).

Report(from, to, event) ==
    /\ radio = from /\ radio' = to
    /\ Len(events) < MaxEvents - 1          \* one place is kept for esp_wifi_stop
    /\ events' = Append(events, event)
    /\ UNCHANGED <<credVars, phase, status, inProgress, fallback, retries, bits, ap>>

AttemptEnds ==
    \/ Report("connecting", "idle", "disconnected")
    \/ Report("connecting", "up", "gotIp")

LinkLost == Report("up", "idle", "disconnected")

----------------------------------------------------------------------------
\* The web server runs once the manager is up, in both modes.

Web ==
    /\ phase = "up"
    /\ Request \/ WebStep \/ ForgetStep
    /\ UNCHANGED linkVars

PowerOff ==
    /\ phase' = "off" /\ status' = "DISCONNECTED"
    /\ inProgress' = FALSE /\ fallback' = FALSE /\ retries' = 0 /\ bits' = {}
    /\ radio' = "stopped" /\ ap' = FALSE /\ events' = <<>>

Reset == phase # "off" /\ ResetCredentials /\ PowerOff

Restart == RestartForgotten /\ PowerOff

BootTask ==
    \/ Boot \/ WaitEnds \/ SayConnected \/ StartFallback \/ StopRadio \/ StartBoth
    \/ DialAgain \/ AnnounceAP

EventTask == HandleDisconnected \/ HandleGotIp

Next == BootTask \/ EventTask \/ AttemptEnds \/ LinkLost \/ Web \/ Reset \/ Restart

\* Tasks are scheduled, and the driver ends every attempt to connect with a report.
Fairness == WF_vars(BootTask) /\ WF_vars(EventTask) /\ WF_vars(AttemptEnds)

Spec == Init /\ [][Next]_vars /\ Fairness

----------------------------------------------------------------------------

\* A configured device whose station is idle with nothing left to handle has its set-up
\* access point on the air: no order of timeout, late address, lost link and failed dial
\* leaves it where nobody can reach it (wifi_start_apsta_fallback, wifi_event_handler).
NeverCutOff ==
    phase = "up" /\ events = <<>> /\ radio = "idle" => ap

\* A status of CONNECTED without a link does not last: both tasks write the status, and the
\* one that lost the race is put right by a report still to come.  wifi_manager_is_connected
\* is what MQTT is started by.
StatusCatchesUp ==
    (status = "CONNECTED" /\ radio # "up") ~> (status # "CONNECTED" \/ radio = "up")

=============================================================================
