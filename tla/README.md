# ThermoFlow in TLA+

TLA+ specifications of the ThermoFlow firmware (ESP32-S3, ESP-IDF/FreeRTOS): a ventilation
controller that reads temperature and humidity sensors, drives two PWM fans under four
application modes (heat exchanger, Mini-FTX heat recovery, portable AC, sensor only), and is
operated through a web interface. `src/` below is the root of the repository.

The project starts from the part that can do harm when it is wrong, what the fans do: the path
from the web interface and the sensors to the PWM outputs, and the persistence of the settings
that steer it. Around it are the services of the firmware: where readings come from, Wi-Fi and
its credentials, the firmware update, MQTT, certificates, the log and the rate limiter.

## 1. The system

### Actors

| Task | Where | What it does |
|---|---|---|
| `app_main` | `main/main.c` | brings the components up, then ends |
| `control_task`, 1 Hz, under the task watchdog | `main/main.c` | sensors, humidity alert, heat recovery, fan policy, fans, MQTT, confirmation of a new firmware |
| `httpd` | `components/web_server` | one request at a time; changes mode, settings, data source |
| `ota_monitor_task` | `main/main.c` | downloads a new firmware |
| `sys_evt` | ESP-IDF | Wi-Fi and IP events to `wifi_manager` |
| `log_dispatch` | `components/log_manager` | log entries from a queue to serial, NVS and MQTT |

The chip can be reset at any moment: by the watchdog, by `esp_restart` (a change of Wi-Fi
settings, an update, the web interface),
by the power. RAM and the LEDC (PWM) peripheral then start from nothing; the NVS remains.

### Components

| Component | State | Operations | What makes it hard | What makes it correct |
|---|---|---|---|---|
| `fan_control` | mode, speed and target of each fan, fail-safe flag, LEDC duty | init, set_speed, set_mode, enter/exit fail-safe | the PWM is written after the mutex is released; some operations change the speed and not the PWM | fail-safe stops every fan on the wire; duty and reported speed agree |
| `anti_condensation` | alert flag | check, is_active | hysteresis | SR-010: high humidity stops the exchanger's fans |
| `device_profile` | mode, control record, their NVS copies | set, set_control, set_ac_modules, set_ac_cond_action, getters, load | no lock; two commits for one change; each NVS call can fail | "ok" is durable; a restart is not noticed; method and mode fit |
| `heat_recovery` | frost state, flags, caps, last values | ftx_update, recommended speed, safe speed | a timer, three copies of one fact, feedback through the fan controller | caps hold, frost lasts its minimum and ends, no oscillation |
| control loop (`main`) | last reading, locals of the tick | one tick | reads settings in four unlocked calls while `httpd` changes them | the fans obey mode, enable and alert by the end of a tick |
| `web_server` | sessions | REST handlers | partial requests, conversions of numbers | a refused request changes nothing it should not |
| `rate_limiter` | token buckets, client table | check, is_blocked | truncation, full table, order of the two limits, two readings of the clock in one check | nobody passes faster than a token bucket; one bucket per client |
| `wifi_manager`, `wifi_secure_storage` | connection state, retries, two copies of the credentials, device name | boot, events, fallback, store, forget, set name | retries against the set-up access point; two copies written call by call | the device can always be reached; a boot uses what was answered |
| `log_manager`, behind `audit_log` | ring, sequence, sink queue, NVS ring | write, dispatch, restore, clear, configure | several writers, a bounded queue, restoration by an index saved now and then | the log is the last entries, each once, in order; all readers agree |
| `ota_manager` | status, the one slot for downloads and its otadata entry | check, start, mark valid, reset | three tasks, unlocked status, resets; the check of one image and the entry of another | an image from the air is confirmed if and only if it was seen healthy (it is not so) |
| `mqtt_client` | started flag, connection, pins | connect, publish, pin API, verify | two tasks with no lock; mutex given up between change and save, and not taken by the verification | no use after free; only pinned brokers; RAM and NVS agree |
| `sensor_manager`, `hardware_manager`, `sht4x_sensor` | data source, detected hardware, sensor handles | read_all, refresh_mode, set_data_source | handles freed while they are read | a reading is of the chosen source |
| `cert_manager`, `security_utils` | certificates with their keys, cache | provision, store, load, delete, renew | two writes for one pair | a certificate comes with its own key |
| `sht3x_sensor`, `display_driver`, `tf_mem`, monocypher | - | I/O, allocation, vendored cryptography | - | out of scope |

### How they interact

`control_task` calls `sensor_manager`, `anti_condensation`, `heat_recovery`, then reads
`device_profile` and decides (`apply_fan_policy`), then calls `fan_control`. It is the only
task that drives the fans. `httpd` writes `device_profile` directly: the shared state of the
two tasks is `s_profile` and `s_control`, and neither has a lock. `device_profile` saves to
the NVS inside the web request. `heat_recovery` reads back the speed of FAN_1 from
`fan_control`, so the tick before is an input of the next.

After the fans, each pass of `control_task` starts or feeds the MQTT client
(`try_start_mqtt`, once `wifi_manager_is_connected`) and makes the health check of the running
firmware; `ota_monitor_task` downloads the next one, and `log_dispatch` publishes log entries
through the client of `control_task`. `httpd` changes the data source under the feet of a read,
stores the Wi-Fi credentials (forgetting them has a task of its own), renames the device and
configures the log.

## 2. The modules

| Module | Models | State |
|---|---|---|
| `FanController` | `fan_controller.c` | `s_fan_ctrl`, `s_pwm_ready`, the duty registers, PWM writes not yet done |
| `AntiCondensation` | `anti_condensation.c` | the alert |
| `DeviceProfile` | `device_profile.c` as operators on values: capabilities, defaults of a mode, what each setter makes of the control record | none |
| `ControlLoop` | `main.c`: `control_task`, `apply_fan_policy`, against the web handlers; EXTENDS the three above | theirs, the settings, the store under way, the tick's program counter and locals |
| `HeatRecovery` | `heat_recovery.c` in the tick; EXTENDS `AntiCondensation` | `g_ftx_data`, the frost timer, the speed of FAN_1 |
| `ProfileStore` | `device_profile.c` and its NVS namespace; EXTENDS `DeviceProfile` | RAM copy, the values a boot may find per key, the setter's position |
| `SensorSource` | `hardware_manager.c`, `sensor_manager.c`, `sht4x_sensor.c`: the data source and the reads | source, its NVS value, handles, positions of the control task and the handler |
| `WifiCredentials` | the two NVS copies of the credentials (`wifi_secure_storage.c`, `wifi_manager.c`) | both copies, the request under way, what the user was told, what went wrong behind it |
| `WifiManager` | `wifi_manager.c`: boot task, event task, driver; EXTENDS `WifiCredentials` | status, flags, retries, access point, radio, events |
| `DeviceName` | the device name in `wifi_manager.c` and its handler | RAM name, NVS name, rename under way |
| `LogManager` | `log_manager.c` behind `audit_log.c`, with the configuration handlers | ring, queue, NVS slots and meta, writers' positions |
| `RecentLog` | abstract: the last entries, each once, in order | a sequence |
| `RateLimiter` | `rate_limiter.c`, one service type | global bucket, client table, the check under way |
| `TokenBucket` | abstract: a token bucket per owner | credit, tokens that passed |
| `FirmwareUpdate` | `ota_manager.c`, `ota_monitor_task`, the health check, the bootloader | the partition that runs, the download slot, its otadata entry, status, health check, monitor |
| `MqttFtx` | `mqtt_ftx.c`, the connection of `mqtt_client.c`, `try_start_mqtt`, the dispatch task's publication | client, session, positions of both tasks |
| `NetworkServices` | one pass of `control_task` over the two before; EXTENDS them | theirs, the Wi-Fi status |
| `BrokerPins` | the pin API, the pin store and the verification of `mqtt_client.c` | pins in RAM and NVS, what of them a reader may still see, saves under way, verification |
| `Certificates` | `cert_manager.c`, the certificate part of `security_manager.c`, the HTTPS certificate of `web_server.c` | both places, caches, the call under way |
| `FrostRuntime` | `HeatRecovery` with a clock of its own for the frost time, apart from the time stamp of the code | how long frost protection has been active |
| `MC...` | instances for TLC; `MCSensorFailure` adds a counter of failed reads; `MCStores`, `MCSourceAndLimiter` and `MCServices` check several modules in one run | `part`, the module a behaviour moves in |
| `ControlLoopProofs` | theorems about the fan controller and the control loop | |
| `ReadingsProofs` | theorems about the data source and about heat recovery | |
| `DeviceProfileProofs`, `ProfileStoreProofs` | lemmas about the setters' operators, theorems about the store | |
| `LogManagerProofs`, `RateLimiterProofs`, `WifiManagerProofs`, `ServicesProofs` | theorems about the modules of these names; `ServicesProofs` has firmware, MQTT, certificates, pins and name | |

### How code becomes actions

**FanController.** An API call is the part under the mutex (`SetSpeed`, `SetMode`,
`EnterFailsafe`, `ExitFailsafe`), which leaves its PWM writes in `pwmPending[t]`, and
`ApplyPwm`, which does them one at a time: that is where the code releases the mutex. A task is in
one call at a time, so a call needs `Idle(t)`. `FanSpec` lets any tasks make any calls in
any order: it is the abstract specification of the controller, which the control loop is shown to implement.

**ControlLoop.** One tick is
`sense, copy, caps, mode, active, decide, mode1, speed1, mode2, speed2`. The five steps from
`copy` to `decide` are the reads `apply_fan_policy` makes of `device_profile`; the web task can
run between any two. A setter is two steps: the first changes `s_profile` (if it does) and
begins to store the record; `WebFinish` ends it. While a record is being stored each field is
read as old or new, independently (`CopyControl`), plus the value that passes through a field
on the way (`fan_mode` is first OFF, then AUTO on the way into the AC mode). That is the data
race of the code: each field of the structure is one aligned word or byte. `Restart` is a reset:
settings as the NVS may have them, everything else at power-on values; it can happen at any
step, in the middle of a store too. That the defaults are in force at the first start is the
empty NVS.

The Mini-FTX recommendation is "any of `FtxSpeed`" in this module; `HeatRecovery` models how
it is computed, and its tick in turn takes what the other modes do to the fan as "any of
`OtherSpeed`". Each module is thus open exactly where the other is detailed.

**HeatRecovery.** One step is one tick: nothing else writes `g_ftx_data`. `AutoTick` is the
tick in which the Mini-FTX automatic is in charge, `OtherTick` every other tick, in which
`ftx_update` runs all the same. Time passes by 1 to `MaxTick` seconds a tick.

**ProfileStore.** An NVS value that has been set and not committed may or may not survive a
reset, so `stored[key]` is the set of values a boot may find; set adds the new value, commit
leaves only that. Every NVS call can fail and ends the setter with an error; a reset can fall
between any two calls; a boot can fail to open the namespace at all (`BootWithoutNvs`). A boot
that opens it reads every key it holds.

**SensorSource.** A read goes slot by slot, and so does the handler that takes the sensors down
and up again; each slot is a step of either task. A read through a handle that has been freed
meanwhile is undefined: it brings a reading or none. `settled` says that the last request was
answered with success before the read began. A request that cannot have the mutex for 100 ms
(`hardware_manager.c:417`) is answered with an error and changes nothing; it is no step.

**WifiCredentials, WifiManager.** The NVS is as in `ProfileStore`: what is set and not
committed may survive a reset or not. Store, forget and migration are sequences of single calls,
each of which can fail. `WifiManager` adds the boot task, the event task and the driver, which
reports what happened in the order it did, to a queue of at most `MaxEvents`. `owed` is what the
user was told: the credentials of the last answer of ok, or `Unknown` after an error, while a request
is under way and when a reset cut one short. `lapses` is the set of things that have gone wrong behind an
answer that was given all the same, four kinds in all; the two properties differ in whether they allow for them.

**LogManager.** Drawing a sequence number is a load and a store outside the mutex, the commit
to the ring is one step, the queue and the NVS ring are served by the dispatch task. The
configuration handler reads, changes and writes in steps of its own. The NVS sink can fail
before its entry is set, or at the commit: then the entry is there and not counted towards the next meta.
`disturbed` records that a clear, a meta that could not be saved or an entry not counted has
parted the ring from the NVS slots. `boot` is the
entry's `boot_id`, as the count of resets. What `nvs_load_recent` restores (`Restored`) is the list
of the loop's turns that find an entry, in their order; it is written with a function rather than
a recursive operator, so that theorems can be about it.

**RateLimiter.** Time stamps are kept as ages, cut off where `refill_tokens` cuts them off, so
that the state is finite and the arithmetic of the code, truncation included, is unchanged. A
check of a client is two steps, because it reads the clock twice: at `rate_limiter.c:270` for the
global bucket, a new slot and both ends of a block, and in `refill_tokens` (`:166`) for the client's
own. The mutex is kept in between (`pending`), and `Tick` can come between. `drifted` marks the clients
whose bucket was refilled to a later instant than the global one and has not been full since.

**FirmwareUpdate, MqttFtx, NetworkServices.** The partitions are those of `partitions_secure.csv`, which
`sdkconfig.defaults` selects: the factory image and one slot for downloads, `ota_0`. So a download is refused
while `ota_0` runs, `can_rollback` ("the next partition to update is not the one that runs",
`ota_manager.c:57`) is true of the factory image and of no other, and
`esp_ota_mark_app_valid_cancel_rollback` marks the one otadata entry there is, that of `ota_0`, whatever runs.
`passed` says that the image now in `ota_0` has run and passed the health check. The bootloader gives a new entry one try.
`NetworkServices` orders one pass of `control_task`: MQTT, then the health check.

**Certificates, BrokerPins, DeviceName.** Each NVS write is a step, with "refused", "made but
answered with an error" and "made" as outcomes. `torn` names the places in which an error or a reset
came between the two writes of a pair. `BrokerPins` gives each call of the pin API a step that begins its change under
the mutex, one that gives the mutex up, and a third for the save. The verification takes no mutex and
reads one field a step: is there such a pin, is it active, has it ended, is it the broker's. While a change
or a reload is under way each read finds the old configuration or the new one (`Views`), a reload the cleared one
too, so that the end of one pin can be taken with the hash of another. A hash read half old and
half new is that of no key.
These parts are modelled for an embedder of the components too: nothing in `main.c` turns on
pinning (only the tests do), HTTPS (`use_https = false`, `main.c:546`), or, with
the empty defaults of `OTA_SERVER_URL` and `MQTT_BROKER_DEFAULT`, updates and MQTT.

## 3. Runs

| Run | Question | Result |
|---|---|---|
| `control_loop` | What is on the PWM outputs when a tick ends, whatever the web task does during it and wherever the chip resets? | `FailsafeStopsFans`, `CondensationStopsExchanger`, `DutyTracksSpeed` hold (4.3 million states) |
| `control_loop_live` | What does the loop come to when it is left alone? | `FailsafeReleased`, `ControlOffStopsFans`, `FtxFansAgree` hold |
| `heat_recovery` | The frost state machine, the caps and the recommendation over all sequences of readings | `FrostFlagsAgree`, `EveryCapHolds`, `FrostHoldsMinRuntime`, `SlewIsBounded`, `SteadyAirSettles`, `FrostEnds` hold |
| `stores` | What of the settings, and what of the log, survives resets and failures? What do the readers of the log see, with two writers and a dispatch task? | `OkIsDurable`, `RestartIsInvisible`, `MethodFitsMode`; `ReadersAgree`, `PersistedIsListed`, `ImplementsRecentLog` hold (5.3 million states) |
| `source_and_limiter` | What is published while the source changes under a read? Do the time stamps and truncated refills of the code amount to token buckets? | `ReadsFollowTheSource`, `SourceIsKept`, `SourceTakesEffect`; `OneSlotPerClient`, `OnlyDriftBlocks`, `ImplementsTokenBuckets` hold |
| `wifi` | What does the next boot connect to, and can the device still be reached? | `OnlyLapsesLoseCredentials`, `NeverCutOff`, `StatusCatchesUp` hold (3.1 million states) |
| `services` | MQTT, certificates, pins, name: what survives errors, resets and other tasks? | `ClientOutlivesItsUsers`, `AnsweredPairMatches`, `PinsAreKept`, `BrokerWasPinned`, `NameIsAsAnswered` hold (3.9 million states) |
| `frost_pause` | Do the fans stop in severe cold, as the comment says? | violated |
| `sensor_failure` | Do the fans stop when the sensors fail, as SR-009 and the header say? | violated |
| `profile_clamp` | Are speeds clamped to 0..100, as the header says? | violated |
| `wifi_saved` | Are credentials answered with ok the ones the next boot connects with, as the header says? | violated |
| `health_check` | Is an update confirmed once it was seen healthy, and not before, as the document says? | violated |

The five violated properties are statements of the repository's own documents and comments:

* **Severe cold.** `ftx_activate_frost_protection` returns "pause" below -5 degrees ("Severe
  cold - stop fans to prevent ice formation", `heat_recovery.c:106`), and `ftx_update` discards
  it (`heat_recovery.c:406`). The fans go on at up to 30 %.
* **Sensor failure.** `thermoflow_config.h:72` has `SENSOR_MAX_FAIL_COUNT 3 // Fail-safe after
  3 errors`, `PROJECT_FRAMEWORK.md:164,200` demands fans OFF. No code reads the constant:
  `control_task` keeps its last values (`main.c:423`).
* **Clamping.** The web handlers cast to `uint8_t` before the setter clamps
  (`web_server.c:1438`, `2198`): 300 becomes 44. `device_profile.h:110`: "Speeds clamped 0–100."
* **Saved credentials.** When the encrypted save fails and the plain copy is made, `wifi_save_config`
  answers `ESP_OK` (`wifi_manager.c:414-429`), and the boot prefers the encrypted copy: an older one, or the
  new name without its password, which the failed save has left. An empty password is not stored over an older one
  (`wifi_secure_storage.c:198-219`), with the same effect. `wifi_manager.h:136-137`: "password (may be empty string for open
  networks)", "ESP_OK if credentials saved successfully".
* **Health check.** While an update is downloaded, in the second minute, the factory image passes its health
  check and confirms the image just written (`ota_manager.c:215`), which then boots as confirmed. An image that
  runs from `ota_0` has no `can_rollback`, is reported healthy and never confirmed, and the next reset goes back to the factory image.
  `docs/OTA_IMPLEMENTATION.md:183-192` wants it marked valid after the first boot's checks.

Seen on the way and not made a run: `tests/test_fan_controller.c` expects fail-safe to be
active after `fan_controller_init`; the code clears it.

`services`, `stores` and `source_and_limiter` check parts that share no variable (four, two and two). The
MC module lets a behaviour move in one of them, chosen at the start and kept in `part`, so TLC looks at the sum of their
states and not the product; nothing is lost, since the states of one say nothing of another.

### What the properties allow for

Some properties hold only with an exception that names what the code does lose. These are
consequences of the code, kept as conditions so that everything else is still checked:

* `OnlyDriftBlocks`: a client's bucket is as large and as fast as the global one, which pays first and for
  all, so it is not one client's requests that bring about the "block 10s" of `rate_limiter_init`. What can is the clock: if it moves
  between the two readings of a check, the client's bucket is counted from a later instant, drops another part of a token
  than the global one, and a later request that the global bucket pays for finds it a token short. The property says that there is no other
  cause. (The only caller in the firmware, `web_rate_limit_check`, passes no client.)
* `PersistedIsListed`: after a clear the ring's index starts again and the slot numbers do not;
  a meta that fails to be saved is not noticed, nor an entry whose commit failed; restored entries come back in reverse order. It speaks
  of the session that ended. What earlier ones left may be passed over, so `docs/LOGGING.md:58`, "Last 32 entries restored
  after reboot", is not what the code does: entries below WARN fill the ring
  and not the NVS, a restart restores the few that are there, and the next meta counts from
  there and no longer reaches the higher slots. (The ring of a few entries in the run is too small
  to show it; five slots, one writer and six entries do.)
* `OnlyLapsesLoseCredentials` says that four things alone make a boot miss what was answered: only the plain copy was made where
  an encrypted one is preferred, an empty password met an older one, a migration at boot stopped after the name, a task that
  forgets was at work meanwhile or did only part of its work. The first two are the violation of `OkMeansSaved`. A request that a reset cuts
  short was not answered, and nothing is said of it.
* `NeverCutOff` promises the access point, not the network: after `WIFI_MAX_RETRIES` nobody
  dials again, though `wifi_manager.c:517-519` says "still retrying in background".
* `StatusCatchesUp` has no converse: AP_MODE written by the boot task over CONNECTED stays, and MQTT
  is then never started.
* `ReadsFollowTheSource` asks for a successful answer: a failed save leaves the source changed
  in RAM and not applied. The automatic source, once chosen after "hardware" with sensors that
  fail to start, does not fall back to simulation.
* `AnsweredPairMatches` leaves out a place that was torn; nothing in the code looks for such a
  pair, and a certificate without its key counts as fine in `cert_manager_check_and_renew`.
* `PinsAreKept`: a change whose save failed is answered with an error and stays in force; a pin
  store that cannot be read is an empty one. `BrokerWasPinned`: while pinning stays enforced, the list, read without
  the mutex, lets in only a broker whose key was pinned at some time during the verification; that its pin had not expired is
  promised only while the pins stay the same, because a remove or a reload under the loop gives an expired key the end of another pin. The legacy
  pin is saved, never loaded, and is compared with a hash of another kind (`mqtt_client.c:499`, `794`).
* `NameIsAsAnswered` is about names answered with success; a name whose save failed stays in RAM.

### Bounds, and why they are enough

* `MaxRequests = 1`: one web request starts per tick of the loop. It can be stored across the
  end of a tick, and another can start in the next, so a tick can see the end of one request
  and the whole of another. A request takes a flash commit; the reads of a tick take microseconds.
* Readings: dry and mild (20 degrees, 50 %), humid and below the alert's threshold inside its hysteresis band
  (18, 87), humid above it (18, 92). They put the exchanger's curve and the AC's
  condensation test on both sides. Requests: one to switch off, one to switch on with a manual
  speed; all four modes; the assist fans; one condensation action. The liveness run
  leaves the AC mode and the hysteresis reading out to keep the state space small; the safety run has both.
* `HeatRecovery`: seven airs, on both sides of every threshold, with each target speed, each
  cap, each combination the order of the caps could get wrong, the frost hysteresis band and a value out of
  range. `FrostMinRuntime` is 3 s instead of 60 with ticks of 1 and 2 s, so that the minimum is reached
  exactly and overshot.
* `stores`, the settings: three requests and one reset. Two requests give a state in which something was
  saved before, the third is torn. Deadlock is not checked in this run, `profile_clamp`, `wifi` and `wifi_saved`, because
  the bounds on requests, entries and resets stop the model. Type-correct data everywhere else is left to the proofs.
* `stores`, the log: two writers (interchangeable: no task is named, so they are a symmetry set), four entries in a ring
  and NVS of three (both wrap), a queue of one (it overflows), a meta after every write instead of every fifth,
  one reset, one change of configuration.
* `source_and_limiter`, the limiter: three clients for two slots, two of them with the same hash, so that probing, collision and a
  full table happen; 2/3 of a token a tick, so that truncation happens; buckets of three, requests of one and two
  tokens; a block of three ticks, which a check that is late enough outlives. The proofs lift all of these bounds.
* `SensorSource`: two slots, each present or missing; two requests, so that one can fail
  before another succeeds; one reset.
* `WifiManager`: two networks, one of them open; one store, one forget, one reset in any order; one retry;
  three events waiting, enough for a failure, an address and a loss to be late together.
* `services`: four boots (trial, rollback, trial again); three key
  pairs and two resets; two broker keys, two pins, two callers (keys and callers are symmetry sets: none is named), one day after the
  first (a pin can expire), two calls of the pin API (each can interrupt the other), on a store that is empty or full and either strict
  or not at all; four kinds of name. `health_check` needs two boots.

### Fairness

`WF(ControlStep)`: `control_task` is a 1 Hz task under the task watchdog, which resets the chip
if it does not come round. `WF(WebFinish)`: `httpd` runs a handler it has begun to its end.
Nothing is assumed of web requests, of resets or of the climate; the liveness properties state
their assumption on them themselves (`<>[]` the condition). `HeatRecovery` has weak fairness of
its tick for the same reason. `SensorSource` has it for the boot, the control task and a handler
that has begun; in the run with the limiter it is asked of its part alone. `WifiManager` has it for the boot task, the event task and the end of an attempt to connect:
the driver answers each with a report; that an attempt ever succeeds is not assumed.

### Mutants

Every property of a passing run is listed in `PROJECT.json` with a faulty version of a
definition of the model (marked "Fault:" in the modules), under which TLC finds the property
violated: a PWM write dropped from fail-safe, an alert ignored by the manual branch, a commit whose result is not looked at,
a probe that takes the first free slot, the plain credentials read before the encrypted ones.

## 4. What is proved

TLAPS checks these theorems for every value of the constants.

| Theorem | Statement | Argument |
|---|---|---|
| `FanTypeCorrect` | `FanSpec => []FanTypeOK` | directly inductive; `DutyInRange` bounds the duty |
| `FailsafeIsSafe` | one calling task: `FanSpec => []FailsafeStopsFans` | `FailsafeInv`, below |
| `FtxTypeCorrect`, `FrostFlagsCorrect`, `CapsHold` | invariants of `FtxSpec` | directly inductive with the type invariant; the caps by cases on `LimitOf` |
| `SlewCorrect` | `FtxSpec => SlewIsBounded` | needs that after an automatic tick the recommendation starts from the speed reported |
| `LoopTypeCorrect` | `Spec => []TypeOK` | `LoopInv`, below |
| `LoopDrivesController` | `Spec => FanSpec` | each step of the loop is a step of `FanNext` or leaves `fanVars` alone |
| `LoopFailsafeSafe` | `Spec => []FailsafeStopsFans` | from the two before |
| `DutyIsOfSpeed` | `Spec => []DutyTracksSpeed` | `WireInv`, below |
| `CondensationIsSafe` | `Spec => []CondensationStopsExchanger` | `RestDecided`, below |
| `FrostRunsItsTime` | `HistSpec => FrostHoldsMinRuntime` | while frost protection is active, the time since the stored time stamp is the time it has been active |
| `StoreTypeCorrect`, `OkSurvives`, `RestartUnseen`, `MethodFits` | `StoreSpec => []StoreTypeOK`, `OkIsDurable`, `RestartIsInvisible`, `MethodFitsMode` | `StoreInv`, below |
| `ReadersSeeOneLog`, `LogIsRecentLog` | `LogSpec => []ReadersAgree`, `LogSpec => ImplementsRecentLog` | `LogInv`, below |
| `RestartFindsTheLog` | `LogSpec => []PersistedIsListed` | `KeepInv`, below |
| `AlwaysAWayIn` | `Spec => []NeverCutOff` (`WifiManager`) | `LinkInv`, below |
| `OnlyLapsesLoseThem` | `Spec => []OnlyLapsesLoseCredentials` (`WifiManager`) | `CredInv`, below |
| `RateTypeCorrect`, `SlotsAreUnique`, `ClientsAreBlockedByDrift` | `RateSpec => []RateTypeOK`, `[]OneSlotPerClient`, `[]OnlyDriftBlocks` | `TableInv` and `DriftInv`, below |
| `LimiterImplementsBuckets` | `RateSpec => ImplementsTokenBuckets` | initial states and steps map to those of `TokenBucket`, with `TableInv` |
| `SourceTypeCorrect`, `ReadsAreOfTheSource`, `SourceSurvives` | invariants of `SourceSpec` | `SourceInv` and `ReadInv`: the handler carries the source through to the mode before it answers |
| `ClientIsThere` | `ServicesSpec => []ClientOutlivesItsUsers` | `MqttInv`: a client is used only after `started`, and none is freed after |
| `OwnImageNeverMarked` | while `ota_0` runs the health check never calls `ota_manager_mark_valid` | `can_rollback` is false of `ota_0` from its boot on, and no step sets it: one half of the violation `health_check` finds is the rule |
| `PairsMatch`, `NameKept` | invariants of `CertSpec`, `NameSpec` | half a pair is in the NVS only while a call is at work on it; a name under way is not answered yet |
| `PinsKept`, `OnlyPinnedBrokers` | `PinSpec => []PinsAreKept`, `PinSpec => BrokerWasPinned` | the first is inductive as it stands; the second needs `PinInv`: whatever the verification has yet to read has been noted (`AllNoted`), and what it has read of the pin in hand is still so while the pins stay the same (`ReadSoFar`) |

**FailsafeInv.** `FailsafeStopsFans` is not inductive: it says nothing of a state in which the
stop is on its way, nor of duties left from before the LEDC was set up. `FailsafeInv` adds that
an uninitialised controller has no PWM and duty 0 (`NoLeftovers`), and that while fail-safe is up every pending write is a 0 and
every fan is at rest or has such a write pending (`StopUnderWay`). The step where it
matters is `EnterFailsafe`: no other write may be pending then, and that is true because only
one task calls. With two tasks TLC finds the counterexample (a late `fan_pwm_apply`); the
firmware has one, `control_task`, and the theorem says so in its assumption.

**LoopInv** is `TypeOK` with `BootIsDown` (before `Boot` the controller is not initialised) and
`CopyTaken` (from `caps` to `decide` the tick holds a copied record). Without the first, `Boot`
would not be a step of `FanNext`; without the second, the policy would read fields of
something that is no record.

**WireInv and RestDecided.** In the middle of a tick speed and duty part, because leaving
fail-safe changes the one without the other. `SpeedsOnTheWire` says that each fan is settled (its duty is that of
its speed, or the write that makes it so is pending) or will still be set by this tick; the
step it turns on is the end of the tick, at which nobody is left to set. For SR-010,
`RestDecided` follows the decision to its effect: once the tick has seen the heat exchanger with the alert
up, either fail-safe is up or the locals ask for 0, then FAN_1 stands, then both.

**StoreInv.** That "ok" is durable needs to know how far a save has come: every key before the
current one has the value in force among those a boot may find (`SavedSoFar`). That a restart is not noticed needs,
besides, that the mode a boot would find is the one in force from its commit on
(`ModeInForce`), and that every value a boot may find for a key is read as the one in force
(`SettingsInForce`: a missing key counts as the default of the mode). `FitInRam` and `FitInNvs` carry mode,
method and modules through both commits, as long as no reset tears them.

**LogInv.** The ring is filled from its start and, once full, stays so (`FilledUp`); all readers compute
their places in it with a remainder, and lemmas bring these to one form. The refinement of `RecentLog`
needs that no entry is in two places: in two slots of the ring, in the ring and in a
writer's hand (`InOnePlace`), or restored from two slots of the NVS. The last follows from
`InItsSlot` (an entry lies in the slot of its number, so in one only) and from the loop of
`nvs_load_recent`, which looks at no slot twice.

**KeepInv.** What a restart would pass over is a matter of counting. Until the ring is full, the numbers drawn
are no more than the entries in it and in hand (`NumbersKeepUp`), so that a committed entry is ahead of the ring by
less than the number of other writers (`CommittedKeepUp`), duplicates and overtaking included. A meta saved
now lists all slots below the ring's count, or all there are; what is not listed is in `Ahead` of it
or was written since (`SavedSinceMeta`), and of these there are at most `MetaEvery`. The proof came
with a correction: without the restriction to the last session the property is false (above).

**LinkInv.** That the device can be reached is about a station that is idle with nothing to
handle. `GoesOnDialling` says of the phases in which no access point is promised that an idle
station has a loss still to be reported, upon which the event task dials; `LossIsReported`,
that the last report is never of an address since lost; `OffIsQuiet` and `StationIsConfigured` tie
the driver to the boot.

**CredInv.** A boot reads the encrypted copy first. `CopiesAsAsked` says how much of both copies is as the
handler asked at each of its calls, as long as no task that forgets runs: the encrypted copy from name to commit, and the plain one, which
counts when the encrypted save failed and there never was any. `ErasedAsAsked` says the same for the task that forgets as long as it is alone
and nothing failed, and `NothingOwed` that nothing is promised meanwhile, or not without a lapse. The answer is given in the
step in which all of it has come true, or names the lapse that kept it from coming true.

**TableInv and DriftInv.** That a client has one slot is not inductive: a hole on its way would
make the next lookup stop there. `TableInv` adds that every client's slot is reachable (all
slots before it on its way belong to others), and slots are never freed. `DriftInv` says that the bucket of
a client that has not drifted can pay for whatever the global one can (`NotBehind`; `Ahead` compares tokens, whole
tokens earned and the part of the next), and, between the two readings of a check (`PaidFirst`), that what the global bucket has just paid
is still in the client's. Without drift both buckets are aged alike and pay alike, except that
the global one also pays for others, so the order is kept through truncation.

**The refinement** maps a bucket to what it could pay now, in the finest unit. A refill that
discards a part of a token lowers the credit, which `TokenBucket` allows; no step raises it by
more than the rate, and what passes is paid for. A client that comes into the table does so
with a full bucket, which is what the abstract specification gave it from the beginning.

Assumptions: `FanAssumption`, `CondensationAssumption`, `LoopAssumption`, `FtxAssumption`,
`StoreAssumption`, `RateAssumption`, `SourceAssumption`, `MissingAssumption`, `LogAssumption`, `CredentialsAssumption`, `LinkAssumption`,
`UpdateAssumption`, `CertificatesAssumption`, `PinsAssumption`, `NameAssumption`,
stated with the constants; TLC evaluates them in the runs. They say that constants are of their kind
and that the values which stand for nothing are no values: `Missing` is no setting and no source,
`NoEntry` no entry and no hand, `Absent` and `Empty` no credentials. `StoreAssumption` asks that requests name
methods and fan modes that exist, with any whole number for a speed or a cycle, `LogAssumption`
that the NVS has no more slots than the ring and that some, finitely many, tasks write,
`LinkAssumption` that the event queue has room for two.

**Only model-checked.** Liveness (`FailsafeReleased`, `ControlOffStopsFans`, `FtxFansAgree`,
`SteadyAirSettles`, `FrostEnds`, `SourceTakesEffect`, `StatusCatchesUp`): out of the prover's
reach, as is everything with ENABLED. Every other property of a passing run is a theorem.
No module declares a RECURSIVE operator, so none is closed to the prover.

## 5. Hazards

`PROJECT.json` lists them with the line where each one bites and the properties that would
catch it. Those without a property say why: no code recovers (`g_mqtt_started`), no document
says which of two outcomes is right (a settings request that is refused half-way, a lost update of the log
configuration), or the next request repairs it by chance. A hazard whose only property is that of a violated run
is one that bites: the run shows how. The notes say what the properties of the others leave out.

## 6. Running it

    tlc -workers 2 -config ControlLoop.cfg MCControlLoop.tla
    tlapm ControlLoopProofs.tla

The other pairs of module and configuration are under "runs" in `PROJECT.json`.

## 7. Plan

Order of work, most important first. Items 1 to 10 are done.

1. `FanController`, `AntiCondensation`, `DeviceProfile`, `ControlLoop`: the fans.
2. `HeatRecovery`.
3. `ProfileStore`.
4. First theorems: types, fail-safe, caps, the loop implements the controller.
5. `RateLimiter` with `TokenBucket` and their refinement, checked and proved.
6. `WifiCredentials`, `WifiManager`, `DeviceName`.
7. `LogManager` with `RecentLog`; `SensorSource`.
8. `FirmwareUpdate`, `MqttFtx`, `NetworkServices`, `BrokerPins`, `Certificates`, with proofs of their properties.
9. The other safety properties as theorems: the store of the settings, the duty of the fans and SR-010, the
   frost time, the log and its refinement, credentials and reachability.
10. The log's failed commit, the limiter's second reading of the clock, the partitions of the firmware update, the
    verification of the pins field by field, and the answers of the Wi-Fi handler told apart from the lapses behind them.
11. Left: what a temporal property rests on, as theorems about single steps (that the frost timer only grows
    while protection is active, that an attempt to dial always ends in a report), and that
    `WifiManager` and `SensorSource` implement abstract specifications of their own. A candidate for a violated run: `docs/WIFI_AND_FLASH.md:54` and
    `wifi_manager.c:517-519` have the station go on dialling behind the set-up access point, and nobody does.

## 8. Not modelled

* Display, static web files, the SHT3x driver (nothing uses it): I/O without a protocol of their
  own. I2C transactions and CRC of the SHT4x: a read brings a reading or none.
* monocypher, the ciphers and hashes of `security_utils` and `wifi_secure_storage`, certificate and CSR formatting: a function of
  their inputs. Encrypting can fail; what was encrypted decrypts to what it was. Failures of the
  secure storage's initialisation and of decryption are left out.
* Sessions and authentication of the web server, its read-only endpoints; password hashing, OTA keys and pinning hashes of `security_utils`, most without a caller.
* `tf_mem`: allocation.
* `ota_manager_apply_update`, `ota_manager_rollback`, the public key of the images: nothing
  calls or sets them, so no signature is verified in this firmware.
* MQTT packets, subscriptions, single-topic publishers: the former are formatting, the latter have no callers.
* The hostname, driver failures other than of `esp_wifi_connect`, two forget tasks at once.
* Within modelled components: run-time statistics, efficiency and power figures, thermostat
  parameters nobody sets, callbacks nobody registers, `fan_controller_deinit` and
  `hardware_redetect`, which nothing calls. The dew-point formula is floating-point: its
  verdict is an input (`dewRisk`). Filter pressure and air flows never change in this firmware
  (`main.c:162`), so the filter cap and the unbalanced status cannot occur.
* NVS contents from other firmware versions: `load_all` checks ranges, which on values the setters stored are identities.
