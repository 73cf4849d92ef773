--------------------------- MODULE FirmwareUpdate ---------------------------
(***************************************************************************)
(* Firmware over the air (ota_manager.c): the monitor task of main.c       *)
(* downloads an image, the control task is to confirm it once it runs and  *)
(* has been healthy for OTA_HEALTH_DELAY_MS, and the bootloader goes back  *)
(* to the factory image when a reset finds the new one not confirmed.      *)
(*                                                                         *)
(* esp_https_ota, the otadata and the bootloader are external (ESP-IDF,    *)
(* with CONFIG_BOOTLOADER_APP_ROLLBACK_ENABLE and partitions_secure.csv,   *)
(* as sdkconfig.defaults has them): there is the factory image, which is   *)
(* never written, and one slot for downloads, ota_0.  A download is        *)
(* refused while ota_0 runs, since it is the only slot to write to; it     *)
(* empties ota_0, and on success makes it the one to boot.  To mark the    *)
(* firmware valid marks the otadata entry, which is that of ota_0 whatever *)
(* runs.  OTA_SERVER_URL is taken to be set: with the empty default no     *)
(* download starts.                                                        *)
(***************************************************************************)
EXTENDS Naturals

CONSTANT MaxBoots       \* bound: resets

ASSUME UpdateAssumption == MaxBoots \in Nat

VARIABLES
    running,        \* the partition that runs
    whole,          \* ota_0 holds an image that is whole
    entry,          \* the otadata entry of ota_0, if there is one that counts
    status,         \* s_status, the fields somebody reads
    health,         \* the health check of control_task: where it is, and g_ota_health_ok
    monitor,        \* ota_monitor_task: where it is
    minutes,        \* since boot, up to OTA_HEALTH_DELAY_MS
    passed,         \* the image in ota_0 has run and passed the health check
    boots           \* counted for the bound

imageVars == <<running, whole, entry>>
updateVars == <<imageVars, status, health, monitor, minutes, passed, boots>>

----------------------------------------------------------------------------
\* s_status after ota_manager_init: can_rollback says that the next partition to update is
\* not the one that runs, and ota_0 is always the next.
BootStatus == [state |-> "IDLE", can_rollback |-> running # "ota_0", update_ready |-> FALSE]

\* s_status after ota_manager_reset: all zero.
ClearedStatus == [state |-> "IDLE", can_rollback |-> FALSE, update_ready |-> FALSE]

\* set_state.
SetState(s) == status' = [status EXCEPT !.state = s]

UpdateInit ==
    /\ running = "factory"
    /\ whole = FALSE
    /\ entry = "none"
    /\ status = BootStatus
    /\ health = [at |-> "waiting", ok |-> FALSE]
    /\ monitor = "asleep"
    /\ minutes = 0
    /\ passed = FALSE
    /\ boots = 0

\* A minute goes by.
Minute ==
    /\ minutes < 2
    /\ minutes' = minutes + 1
    /\ UNCHANGED <<imageVars, status, health, monitor, passed, boots>>

----------------------------------------------------------------------------
\* ota_monitor_task, which starts after a minute.

\* Without a connection the pass only looks at the status.
MonitorSkips ==
    /\ monitor = "asleep" /\ minutes >= 1
    /\ monitor' = "looking"
    /\ UNCHANGED <<imageVars, status, health, minutes, passed, boots>>

\* ota_manager_check_for_update: there always is one.
CheckForUpdate(connected) ==
    /\ monitor = "asleep" /\ minutes >= 1
    /\ connected
    /\ monitor' = "starting"
    /\ SetState("CHECKING")
    /\ UNCHANGED <<imageVars, health, minutes, passed, boots>>

\* ota_manager_start_update, up to the call of esp_https_ota.
StartUpdate ==
    /\ monitor = "starting"
    /\ monitor' = "connecting"
    /\ SetState("DOWNLOADING")
    /\ UNCHANGED <<imageVars, health, minutes, passed, boots>>

\* esp_https_ota: ota_0 is emptied.
DownloadBegins ==
    /\ monitor = "connecting"
    /\ running # "ota_0"
    /\ whole' = FALSE
    /\ monitor' = "downloading"
    /\ UNCHANGED <<running, entry, status, health, minutes, passed, boots>>

\* esp_https_ota returns an error: no server, a broken download, or ota_0 runs.
DownloadFails ==
    /\ monitor \in {"connecting", "downloading"}
    /\ monitor' = "looking"
    /\ SetState("ERROR")
    /\ UNCHANGED <<imageVars, health, minutes, passed, boots>>

\* esp_https_ota has written the image and made it the one to boot; there is no key to
\* verify a signature with, so it is READY.
DownloadEnds ==
    /\ monitor = "downloading"
    /\ whole' = TRUE
    /\ entry' = "new"
    /\ passed' = FALSE
    /\ status' = [status EXCEPT !.state = "READY", !.update_ready = TRUE]
    /\ monitor' = "looking"
    /\ UNCHANGED <<running, health, minutes, boots>>

\* ota_manager_reset after an error: the flag can_rollback goes with everything else.
MonitorLooks ==
    /\ monitor = "looking"
    /\ monitor' = "asleep"
    /\ status' = IF status.state = "ERROR" THEN ClearedStatus ELSE status
    /\ UNCHANGED <<imageVars, health, minutes, passed, boots>>

MonitorTask(connected) ==
    \/ MonitorSkips
    \/ CheckForUpdate(connected)
    \/ StartUpdate
    \/ DownloadBegins \/ DownloadFails \/ DownloadEnds
    \/ MonitorLooks

----------------------------------------------------------------------------
\* The health check in a pass of control_task.

HealthIsDue(sensors) == ~health.ok /\ minutes >= 2 /\ sensors > 0

\* ota_manager_get_status: a copy, with can_rollback at this moment.
LookAtHealth(sensors) ==
    /\ health.at = "waiting"
    /\ HealthIsDue(sensors)
    /\ passed' = (passed \/ running = "ota_0")
    /\ health' = IF status.can_rollback THEN [health EXCEPT !.at = "marking"]
                 ELSE [health EXCEPT !.ok = TRUE]
    /\ UNCHANGED <<imageVars, status, monitor, minutes, boots>>

\* ota_manager_mark_valid; when it fails, without an entry at any rate, the check is over
\* all the same.
MarkValid ==
    /\ health.at = "marking"
    /\ health' = [at |-> "waiting", ok |-> TRUE]
    /\ \/ /\ entry # "none"
          /\ entry' = "valid"
          /\ status' = [status EXCEPT !.state = "IDLE", !.can_rollback = FALSE]
       \/ UNCHANGED <<entry, status>>
    /\ UNCHANGED <<running, whole, monitor, minutes, passed, boots>>

HealthStep(sensors) == LookAtHealth(sensors) \/ MarkValid

----------------------------------------------------------------------------
\* The bootloader: an entry that is new gets its one try, one that had it counts no more, and
\* the factory image runs whenever there is no whole image to run instead.
Bootloader ==
    /\ entry' = CASE entry = "new" -> "pending"
                  [] entry = "pending" -> "none"
                  [] OTHER -> entry
    /\ running' = IF entry' # "none" /\ whole THEN "ota_0" ELSE "factory"
    /\ UNCHANGED whole

\* A reset, and the boot that follows: init_ota and the two tasks from their start.
UpdateReboot ==
    /\ boots < MaxBoots
    /\ boots' = boots + 1
    /\ Bootloader
    /\ status' = BootStatus'
    /\ health' = [at |-> "waiting", ok |-> FALSE]
    /\ monitor' = "asleep"
    /\ minutes' = 0
    /\ UNCHANGED passed

----------------------------------------------------------------------------
(* "Check if this is first boot after OTA ... Verify subsystems ... Mark   *)
(* as valid (prevents rollback)", docs/OTA_IMPLEMENTATION.md:183-192: an   *)
(* image from the air is confirmed once it has run and passed the health   *)
(* check, and not before.  Neither half holds: can_rollback, by which the  *)
(* check goes, is never set while ota_0 runs, and the check of the factory *)
(* image confirms the image that has just been downloaded.                 *)
ConfirmedWhenHealthy ==
    running = "ota_0" /\ health.at = "waiting" => (entry = "valid" <=> passed)

=============================================================================
