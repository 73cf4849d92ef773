--------------------------- MODULE WifiCredentials ---------------------------
(***************************************************************************)
(* The two copies of the WiFi credentials in the NVS: encrypted            *)
(* (wifi_secure_storage.c) and plain (the legacy namespace of              *)
(* wifi_manager.c).  POST /api/wifi/config stores both, one NVS call after *)
(* the other; DELETE has a task of its own erase both and restart; a boot  *)
(* reads the encrypted copy first, copies one to the other where one is    *)
(* missing, and takes what it finds.                                       *)
(*                                                                         *)
(* The cipher is left out: encrypting fails like the NVS call after it,    *)
(* and what was stored decrypts to what was encrypted.                     *)
(*                                                                         *)
(* The NVS is external: a read sees the last value set; what was set and   *)
(* not committed may or may not survive a reset.                           *)
(***************************************************************************)
EXTENDS Naturals

CONSTANTS
    Ssid,           \* network names
    Password,       \* passwords
    Absent,         \* a key that is not there
    Empty,          \* the empty string: an open network
    Choice,         \* credentials the user enters
    MaxStores,      \* bound: requests to store credentials
    MaxForgets,     \* bound: requests to forget them
    MaxResets       \* bound: resets of the chip

Credentials == [ssid : Ssid, password : Password \cup {Empty}]

ASSUME CredentialsAssumption ==
    /\ Absent \notin Ssid \cup Password
    /\ Empty \notin Ssid \cup Password \cup {Absent}
    /\ Choice \subseteq Credentials
    /\ MaxStores \in Nat
    /\ MaxForgets \in Nat
    /\ MaxResets \in Nat

Key == {"ssid", "password"}

\* s_wifi_config of a device without credentials.
NoCredentials == [ssid |-> Empty, password |-> Empty]

\* What nobody was told: the answer was an error, was cut short or is still to come.
Unknown == [ssid |-> Absent, password |-> Absent]

VARIABLES
    enc, legacy,    \* the two copies: per key, what a read sees and what a reset may leave
    config,         \* s_wifi_config; configured is config # NoCredentials
    web,            \* the handler of POST: where it is, and whether the encrypted save worked
    forget,         \* the task DELETE starts: where it is, and whether it alone did its work
    owed,           \* history: the credentials the user was last told are stored
    lapses,         \* history: what has happened since that may keep a boot from finding them
    stores, forgets, resets     \* counted for the bounds

nvsVars == <<enc, legacy>>
credBounds == <<stores, forgets, resets>>
credVars == <<enc, legacy, config, web, forget, owed, lapses, credBounds>>

\* A key in the NVS.
Cell(v) == [now |-> v, may |-> {v}]
Written(cell, v) == [now |-> v, may |-> cell.may \cup {v}]

Committed(copy) == [k \in Key |-> Cell(copy[k].now)]

Copy(c) == [k \in Key |-> Cell(c[k])]
NoCopy == Copy(Unknown)

\* What may go wrong behind an answer of ok.
Lapse == {"only plain copy", "old password", "half migrated", "forgetting"}

Told(c, l) == owed' = c /\ lapses' = l

----------------------------------------------------------------------------
\* What a boot makes of the two copies.

\* wifi_secure_has_credentials
HasEncrypted(e) == e["ssid"].now # Absent

\* wifi_secure_load_credentials: a password that is not there is an empty one.
LoadEncrypted(e) ==
    [ssid |-> e["ssid"].now,
     password |-> IF e["password"].now = Absent THEN Empty ELSE e["password"].now]

\* The plain copy counts when both strings are there.
HasLegacy(l) == l["ssid"].now # Absent /\ l["password"].now # Absent
LoadLegacy(l) == [ssid |-> l["ssid"].now, password |-> l["password"].now]

\* Fault: the plain copy first.
LoadConfigLegacyFirst(e, l) ==
    IF HasLegacy(l) THEN LoadLegacy(l)
    ELSE IF HasEncrypted(e) THEN LoadEncrypted(e) ELSE NoCredentials

\* wifi_load_config: the encrypted copy first.
LoadConfig(e, l) ==
    IF HasEncrypted(e) THEN LoadEncrypted(e)
    ELSE IF HasLegacy(l) THEN LoadLegacy(l) ELSE NoCredentials

\* wifi_secure_migrate_from_legacy is due: no encrypted copy, and a plain name.
MigrationDue(e, l) == ~HasEncrypted(e) /\ l["ssid"].now # Absent

\* wifi_secure_store_credentials of the plain copy: the password only if there is one.
Migrated(e, l) ==
    LET pw == l["password"].now
    IN Committed([ssid |-> Cell(l["ssid"].now),
                  password |-> IF pw \in {Absent, Empty} THEN e["password"] ELSE Cell(pw)])

\* The migration stopped by an error: before the first call, after it, or at the commit.
MigrationCutShort(e, l) ==
    LET named == [e EXCEPT !["ssid"] = Written(@, l["ssid"].now)]
        pw == l["password"].now
    IN {e, named,
        IF pw \in {Absent, Empty} THEN named ELSE [named EXCEPT !["password"] = Written(@, pw)]}

\* The NVS as a reset leaves it.
Survivors(copy) ==
    {Copy(c) : c \in [ssid : copy["ssid"].may, password : copy["password"].may]}

----------------------------------------------------------------------------

\* A device from the factory, or one a firmware without encryption has left its copy on.
CredInit ==
    /\ enc = NoCopy
    /\ \E c \in Choice \cup {Unknown} :
          /\ legacy = Copy(c)
          /\ owed = IF c = Unknown THEN NoCredentials ELSE c
    /\ config = NoCredentials
    /\ web = [at |-> "idle", encSaved |-> FALSE]
    /\ forget = [at |-> "idle", clean |-> FALSE]
    /\ lapses = {}
    /\ stores = 0 /\ forgets = 0 /\ resets = 0

\* wifi_ensure_legacy_backup: the plain copy is made anew where it has no name.  A failure
\* is only logged.
BackedUp(l, c) ==
    IF l["ssid"].now # Absent THEN {l}
    ELSE LET named == [l EXCEPT !["ssid"] = Written(@, c.ssid)]
         IN {l, named, [named EXCEPT !["password"] = Written(@, c.password)], Copy(c)}

\* wifi_secure_migrate_from_legacy: what it may leave of the encrypted copy.
AfterMigration(e, l) ==
    IF MigrationDue(e, l) THEN {Migrated(e, l)} \cup MigrationCutShort(e, l) ELSE {e}

\* The NVS side of wifi_manager_init, on what a reset has left: the migration, then
\* wifi_load_config, which tries the migration again when it has to take the plain copy.
LoadAtBoot ==
    \E e0 \in Survivors(enc), l0 \in Survivors(legacy) : \E e1 \in AfterMigration(e0, l0) :
      /\ config' = LoadConfig(e1, l0)
      /\ \/ HasEncrypted(e1) /\ enc' = e1 /\ legacy' \in BackedUp(l0, config')
         \/ ~HasEncrypted(e1) /\ HasLegacy(l0) /\ enc' \in AfterMigration(e1, l0) /\ legacy' = l0
         \/ ~HasEncrypted(e1) /\ ~HasLegacy(l0) /\ enc' = e1 /\ legacy' = l0
      \* a migration that stops after the name leaves an encrypted copy without its password
      /\ lapses' = IF HasEncrypted(enc') /\ ~HasEncrypted(e0) /\ enc' # Migrated(e0, l0)
                   THEN lapses \cup {"half migrated"} ELSE lapses
      /\ UNCHANGED <<owed, web, forget, credBounds>>

\* Everything in RAM is gone, and with it the tasks.
LoseRAM ==
    /\ config' = NoCredentials
    /\ web' = [at |-> "idle", encSaved |-> FALSE]
    /\ forget' = [at |-> "idle", clean |-> FALSE]
    /\ UNCHANGED <<nvsVars, stores, forgets>>

\* A reset, and the restart a stored configuration asks for 800 ms later.
ResetCredentials ==
    /\ resets < MaxResets
    /\ resets' = resets + 1
    /\ IF web.at = "idle" /\ forget.at = "idle" THEN UNCHANGED <<owed, lapses>>
       ELSE Told(Unknown, {})
    /\ LoseRAM

----------------------------------------------------------------------------
\* POST /api/wifi/config: RAM first, then the encrypted copy, then the plain one.

StoreCredentials(c) ==
    /\ web.at = "idle"
    /\ stores < MaxStores
    /\ stores' = stores + 1
    /\ config' = c
    /\ web' = [at |-> "encSsid", encSaved |-> FALSE]
    /\ forget' = [forget EXCEPT !.clean = FALSE]
    /\ Told(Unknown, {})
    /\ UNCHANGED <<nvsVars, forgets, resets>>

WebGoesTo(at, saved) ==
    /\ web' = [at |-> at, encSaved |-> saved]
    /\ UNCHANGED <<config, forget, owed, lapses, credBounds>>

\* An encrypting or an NVS call fails: on with the plain copy.
EncryptedSaveFails ==
    /\ web.at \in {"encSsid", "encPassword", "encCommit"}
    /\ WebGoesTo("legacySsid", FALSE)
    /\ UNCHANGED nvsVars

StoreEncryptedSsid ==
    /\ web.at = "encSsid"
    /\ enc' = [enc EXCEPT !["ssid"] = Written(@, config.ssid)]
    /\ WebGoesTo(IF config.password = Empty THEN "encCommit" ELSE "encPassword", FALSE)
    /\ UNCHANGED legacy

StoreEncryptedPassword ==
    /\ web.at = "encPassword"
    /\ enc' = [enc EXCEPT !["password"] = Written(@, config.password)]
    /\ WebGoesTo("encCommit", FALSE)
    /\ UNCHANGED legacy

CommitEncrypted ==
    /\ web.at = "encCommit"
    /\ enc' = Committed(enc)
    /\ WebGoesTo("legacySsid", TRUE)
    /\ UNCHANGED legacy

StoreLegacySsid ==
    /\ web.at = "legacySsid"
    /\ legacy' = [legacy EXCEPT !["ssid"] = Written(@, config.ssid)]
    /\ WebGoesTo("legacyPassword", web.encSaved)
    /\ UNCHANGED enc

StoreLegacyPassword ==
    /\ web.at = "legacyPassword"
    /\ legacy' = [legacy EXCEPT !["password"] = Written(@, config.password)]
    /\ WebGoesTo("legacyCommit", web.encSaved)
    /\ UNCHANGED enc

\* What may go wrong behind an answer of ok: the encrypted copy failed and there is, or may
\* be, an older one or half of this one, which the boot prefers to the plain one; the
\* password is an empty one, which is not stored over an older one; a task erases what is
\* being stored.
AnsweredLapses ==
    (IF ~web.encSaved /\ enc["ssid"] # Cell(Absent) THEN {"only plain copy"} ELSE {})
    \cup (IF config.password = Empty /\ enc["password"] # Cell(Absent) THEN {"old password"} ELSE {})
    \cup (IF forget.at # "idle" THEN {"forgetting"} ELSE {})

AnswerOk == Told(config, AnsweredLapses)
AnswerError == Told(Unknown, {})

WebIsDone ==
    /\ web' = [at |-> "idle", encSaved |-> FALSE]
    /\ UNCHANGED <<enc, config, forget, credBounds>>

CommitLegacy ==
    /\ web.at = "legacyCommit"
    /\ legacy' = Committed(legacy)
    /\ AnswerOk
    /\ WebIsDone

\* After an encrypted save the failure is only logged; else the answer is an error.
LegacySaveFails ==
    /\ web.at \in {"legacySsid", "legacyPassword", "legacyCommit"}
    /\ IF web.encSaved THEN AnswerOk ELSE AnswerError
    /\ WebIsDone
    /\ UNCHANGED legacy

----------------------------------------------------------------------------
\* DELETE /api/wifi/config answers ok and has wifi_reset_task do the work 800 ms later.  The
\* model has one such task at a time.

ForgetCredentials ==
    /\ web.at = "idle" /\ forget.at = "idle"
    /\ forgets < MaxForgets
    /\ forgets' = forgets + 1
    /\ forget' = [at |-> "encErase", clean |-> TRUE]
    /\ Told(Unknown, {})
    /\ UNCHANGED <<nvsVars, config, web, stores, resets>>

\* The results of the calls are not looked at: those of the keys of failed stay.
Erased(copy, failed) ==
    [k \in Key |-> IF k \in failed THEN copy[k] ELSE Written(copy[k], Absent)]

ForgetGoesTo(at, worked) ==
    /\ forget' = [at |-> at, clean |-> forget.clean /\ worked]
    /\ UNCHANGED <<config, web, owed, lapses, credBounds>>

EraseEncrypted ==
    /\ forget.at = "encErase"
    /\ \E failed \in SUBSET Key :
          enc' = Erased(enc, failed) /\ ForgetGoesTo("encCommit", failed = {})
    /\ UNCHANGED legacy

CommitEncryptedErase ==
    /\ forget.at = "encCommit"
    /\ \/ enc' = Committed(enc) /\ ForgetGoesTo("legacyErase", TRUE)
       \/ enc' = enc /\ ForgetGoesTo("legacyErase", FALSE)
    /\ UNCHANGED legacy

EraseLegacy ==
    /\ forget.at = "legacyErase"
    /\ \E failed \in SUBSET Key :
          legacy' = Erased(legacy, failed) /\ ForgetGoesTo("legacyCommit", failed = {})
    /\ UNCHANGED enc

CommitLegacyErase ==
    /\ forget.at = "legacyCommit"
    /\ \/ legacy' = Committed(legacy) /\ ForgetGoesTo("restart", TRUE)
       \/ legacy' = legacy /\ ForgetGoesTo("restart", FALSE)
    /\ UNCHANGED enc

\* s_wifi_config cleared, and esp_restart.
RestartForgotten ==
    /\ forget.at = "restart"
    /\ Told(NoCredentials, IF forget.clean THEN {} ELSE {"forgetting"})
    /\ LoseRAM
    /\ UNCHANGED resets

----------------------------------------------------------------------------

Request ==
    \/ \E c \in Choice : StoreCredentials(c)
    \/ ForgetCredentials

WebStep ==
    \/ EncryptedSaveFails \/ StoreEncryptedSsid \/ StoreEncryptedPassword \/ CommitEncrypted
    \/ LegacySaveFails \/ StoreLegacySsid \/ StoreLegacyPassword \/ CommitLegacy

ForgetStep ==
    \/ EraseEncrypted \/ CommitEncryptedErase \/ EraseLegacy \/ CommitLegacyErase

\* The credentials a boot takes from the two copies when nothing fails.
BootTakes(e, l) ==
    LoadConfig(IF MigrationDue(e, l) THEN Migrated(e, l) ELSE e, l)

NextBootFindsThem ==
    \A e \in Survivors(enc), l \in Survivors(legacy) : BootTakes(e, l) = owed

\* What the user was told is what the next boot finds, whatever a reset leaves of the two
\* copies, unless one of four things went wrong behind the answer: only the plain copy was
\* made where an encrypted one is preferred, an empty password met an older one, a migration
\* stopped half-way, or a task that forgets was at work or did only part of it.  Nothing else
\* loses stored credentials, or brings forgotten ones back (wifi_save_config,
\* wifi_manager_reset, wifi_load_config).
OnlyLapsesLoseCredentials == owed # Unknown /\ lapses = {} => NextBootFindsThem

\* "Store WiFi credentials in NVS (encrypted when available)", "password may be empty string
\* for open networks", "ESP_OK if credentials saved successfully": credentials answered
\* with ok are the ones the next boot connects with (wifi_manager_store_credentials).
OkMeansSaved == stores > 0 /\ owed \in Credentials => NextBootFindsThem

=============================================================================
