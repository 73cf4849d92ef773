------------------------------ MODULE DeviceName ------------------------------
(***************************************************************************)
(* The name the user gives the device (wifi_manager.c).  POST              *)
(* /api/device/name cuts what was typed to the length of a name, keeps it  *)
(* in RAM and then stores it; a boot makes the device ID from the MAC,     *)
(* loads the name, and erases one in the format of a device ID, which an   *)
(* old firmware has left.                                                  *)
(*                                                                         *)
(* The NVS is external: a call fails, a read sees the last value set, and  *)
(* what was set and not committed may or may not survive a reset.  The     *)
(* hostname the network is told is left out.                               *)
(***************************************************************************)
CONSTANTS
    Typed,          \* what the user may type
    Name,           \* strings of at most DEVICE_NAME_MAX_LEN characters
    Malformed,      \* those of them with other characters than letters, digits and dashes
    IdLike,         \* those of them that look like a device ID
    Cut,            \* what is left of a typed one
    DeviceId,       \* the ID by the MAC
    FallbackId,     \* the ID when the MAC cannot be read
    NoName          \* the empty string, and a key that is not there

ASSUME NameAssumption ==
    /\ Malformed \subseteq Name /\ IdLike \subseteq Name \ Malformed
    /\ Cut \in [Typed -> Name]
    /\ {DeviceId, FallbackId} \subseteq IdLike
    /\ NoName \notin Name

VARIABLES
    apName,         \* s_ap_name, NoName until the boot has made it
    customName,     \* s_custom_device_name
    nameStore,      \* the NVS: what a read sees, and what a reset may leave
    rename,         \* the handler: "idle", "set" or "commit"
    answeredName    \* the name the last rename was answered ok with, if no other followed

nameVars == <<apName, customName, nameStore, rename, answeredName>>

NameInit ==
    /\ apName = NoName
    /\ customName = NoName
    /\ \E n \in (Name \ Malformed) \cup {NoName} : nameStore = [now |-> n, may |-> {n}]
    /\ rename = "idle"
    /\ answeredName = NoName

\* wifi_manager_get_display_name
DisplayName == IF customName # NoName THEN customName ELSE apName

----------------------------------------------------------------------------
\* wifi_generate_ap_name
GeneratedId == {DeviceId, FallbackId}

\* wifi_load_device_name: what is stored, or an error.
LoadedName(stored) == {stored, NoName}

\* wifi_sanitize_custom_device_name: a name equal to the ID is one that looks like an ID.
Sanitized(n) == IF n \in IdLike THEN NoName ELSE n

\* Erased for good, or until a reset, or not at all.
Erasures(n) ==
    {[now |-> NoName, may |-> {NoName}], [now |-> NoName, may |-> {n, NoName}],
     [now |-> n, may |-> {n}]}

NameBoot ==
    /\ apName = NoName
    /\ apName' \in GeneratedId
    /\ \E stored \in nameStore.may : \E n \in LoadedName(stored) :
          /\ customName' = Sanitized(n)
          /\ nameStore' \in IF Sanitized(n) = n THEN {[now |-> stored, may |-> {stored}]}
                            ELSE Erasures(n)
    /\ UNCHANGED <<rename, answeredName>>

NameReset ==
    /\ apName # NoName
    /\ apName' = NoName
    /\ customName' = NoName
    /\ rename' = "idle"
    /\ UNCHANGED <<nameStore, answeredName>>

----------------------------------------------------------------------------
\* wifi_is_valid_device_name
IsValidName(n) == n # NoName /\ n \notin Malformed

\* Fault: a name may look like a device ID.
MayBeSetAnyway(n) == IsValidName(n)

\* wifi_manager_set_device_name refuses anything else, and changes nothing.
MayBeSet(n) == IsValidName(n) /\ n \notin IdLike

\* device_name_handler, and wifi_manager_set_device_name up to the save.
Rename(typed) ==
    /\ apName # NoName /\ rename = "idle"
    /\ MayBeSet(Cut[typed])
    /\ customName' = Cut[typed]
    /\ answeredName' = NoName
    /\ rename' = "set"
    /\ UNCHANGED <<apName, nameStore>>

\* wifi_save_device_name; after an error the answer is one, and the name stays in RAM.
StoreName ==
    /\ rename = "set"
    /\ \/ /\ nameStore' = [now |-> customName, may |-> nameStore.may \cup {customName}]
          /\ rename' = "commit"
       \/ UNCHANGED nameStore /\ rename' = "idle"
    /\ UNCHANGED <<apName, customName, answeredName>>

\* The commit, and the answer, which shows the name.
CommitName ==
    /\ rename = "commit"
    /\ rename' = "idle"
    /\ \/ nameStore' = [nameStore EXCEPT !.may = {nameStore.now}] /\ answeredName' = DisplayName
       \/ UNCHANGED <<nameStore, answeredName>>
    /\ UNCHANGED <<apName, customName>>

NameNext ==
    \/ NameBoot \/ NameReset
    \/ \E typed \in Typed : Rename(typed)
    \/ StoreName \/ CommitName

NameSpec == NameInit /\ [][NameNext]_nameVars

----------------------------------------------------------------------------
(* The name in the answer to POST /api/device/name is the one the device   *)
(* has after the next boot, and after each one that can read it: neither   *)
(* the cut, nor a rename that failed half-way before it, nor the clean-up  *)
(* of every boot (wifi_manager.c:212-241) takes it away or changes it.     *)
NameIsAsAnswered ==
    answeredName # NoName /\ rename = "idle" =>
        \A n \in nameStore.may : Sanitized(n) = answeredName

=============================================================================
