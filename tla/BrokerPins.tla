------------------------------ MODULE BrokerPins ------------------------------
(***************************************************************************)
(* The broker keys a client of mqtt_client.c has pinned.  Every call of    *)
(* the pin API changes the configuration in RAM under the mutex, gives the *)
(* mutex up, and takes it again to save what is in RAM by then.            *)
(* mqtt_client_connect verifies the broker without the mutex, field after  *)
(* field of pin after pin: while a call copies and clears, each field read *)
(* is the old one or the new one.  A hash read half old and half new is    *)
(* the hash of no key.                                                     *)
(*                                                                         *)
(* This is a client with enable_pinning set, as the tests make one; the    *)
(* firmware leaves it off (MqttFtx).  A broker has one key and one         *)
(* certificate for it; a certificate that cannot be parsed, and a hash in  *)
(* hex that is too short, are refused before anything changes.  The NVS is *)
(* external: it cannot be read, or a save is refused, or its commit        *)
(* answers an error, or it is made.  The backup pin has_pin_2 is left out: *)
(* nothing sets it.                                                        *)
(***************************************************************************)
EXTENDS Naturals, SequencesExt

CONSTANTS
    BrokerKey,      \* keys of brokers
    NoKey,          \* none, or one that could not be read
    MaxPins,        \* MQTT_MAX_PINNED_CERTS
    Caller,         \* the tasks that use the pin API
    LastDay,        \* bound: the clock
    MaxCalls        \* bound: calls of the pin API

ASSUME PinsAssumption ==
    /\ NoKey \notin BrokerKey
    /\ MaxPins \in 1..255 /\ LastDay \in Nat /\ MaxCalls \in Nat

VARIABLES
    made,           \* there is a client
    pinConfig,      \* client->pin_config, with the change that is being made to it
    before,         \* what of it a reader without the mutex may still see
    legacyPin,      \* the key of the certificate of pinned_cert_hash, if has_pin
    pinStore,       \* the configuration in the NVS
    writing,        \* the caller that holds the mutex to change the RAM, if any
    saving,         \* the callers that have changed the RAM and not saved yet
    reloading,      \* the caller that holds the mutex to load the pins again, if any
    unsaved,        \* since the last save a save has failed, or the NVS could not be read
    verify,         \* mqtt_client_connect: where it is, with which key, since when
    peer,           \* the key of the broker there is a session with, or NoKey
    seen,           \* keys that were pinned at some time since the verification began
    enforced,       \* pinning has been enforced since it began
    steady,         \* the pins have been the same since it began
    day,            \* time(NULL)
    calls           \* counted for the bound

apiVars == <<made, pinConfig, before, legacyPin, pinStore, writing, saving, reloading, unsaved,
             calls>>
pinVars == <<apiVars, verify, peer, seen, enforced, steady, day>>

\* Kept as the hash of the key.
Pin == [key : BrokerKey, until : 0..LastDay]

PinConfig ==
    [enforce : BOOLEAN, fallback : BOOLEAN, pins : UNION {[1..n -> Pin] : n \in 0..MaxPins}]

\* What a client starts with, which is also what an empty NVS is read as; and what is left
\* when the namespace could not be opened.
NoPins == [enforce |-> FALSE, fallback |-> TRUE, pins |-> <<>>]
Cleared == [enforce |-> FALSE, fallback |-> FALSE, pins |-> <<>>]

\* What a read without the mutex may find.
Views == before \cup {pinConfig}

\* The fields of a slot of pins; the slots past pin_count are all zero.
Active(view, i) == i <= Len(view.pins)
ValidUntil(view, i) == IF Active(view, i) THEN view.pins[i].until ELSE 0
HashedKey(view, i) == IF Active(view, i) THEN view.pins[i].key ELSE NoKey

NotVerifying == [at |-> "none", key |-> NoKey, pin |-> 0, since |-> 0]

\* The NVS holds whatever an earlier use has left in it.
PinInit ==
    /\ made = FALSE
    /\ pinConfig = NoPins /\ before = {}
    /\ legacyPin = NoKey
    /\ pinStore \in PinConfig
    /\ writing = {} /\ saving = {} /\ reloading = {}
    /\ unsaved = FALSE
    /\ verify = NotVerifying
    /\ peer = NoKey
    /\ seen = {}
    /\ enforced = FALSE /\ steady = FALSE
    /\ day = 0
    /\ calls = 0

----------------------------------------------------------------------------
MutexFree == writing = {} /\ reloading = {}

\* load_pin_config_nvs; an error of the NVS goes unnoticed.
Loaded ==
    \/ pinConfig' = pinStore /\ unsaved' = FALSE
    \/ pinConfig' \in {NoPins, Cleared} /\ unsaved' = TRUE

\* mqtt_client_create.
CreateClient ==
    /\ ~made
    /\ made' = TRUE
    /\ Loaded
    /\ UNCHANGED <<before, legacyPin, pinStore, writing, saving, reloading, verify, peer, day,
                   calls>>

\* mqtt_client_destroy, when nobody is in a call.
DestroyClient ==
    /\ made /\ MutexFree /\ saving = {} /\ verify = NotVerifying
    /\ made' = FALSE
    /\ pinConfig' = NoPins
    /\ legacyPin' = NoKey
    /\ peer' = NoKey
    /\ UNCHANGED <<before, pinStore, writing, saving, reloading, unsaved, verify, day, calls>>

\* A reset, in the middle of a call perhaps.
PinReset ==
    /\ made
    /\ made' = FALSE
    /\ pinConfig' = NoPins /\ before' = {}
    /\ legacyPin' = NoKey
    /\ writing' = {} /\ saving' = {} /\ reloading' = {}
    /\ verify' = NotVerifying
    /\ peer' = NoKey
    /\ UNCHANGED <<pinStore, unsaved, day, calls>>

----------------------------------------------------------------------------
\* The pin API.  The change begins with the mutex taken and is under way until it is given up.

Changes(c, config) ==
    /\ made /\ MutexFree /\ c \notin saving
    /\ calls < MaxCalls
    /\ calls' = calls + 1
    /\ writing' = {c}
    /\ pinConfig' = config
    /\ before' = {pinConfig}
    /\ UNCHANGED <<made, pinStore, saving, reloading, unsaved, verify, peer, day>>

\* mqtt_client_add_pinned_cert.
AddPinnedCert(c) ==
    /\ Len(pinConfig.pins) < MaxPins
    /\ \E pin \in Pin : Changes(c, [pinConfig EXCEPT !.pins = Append(@, pin)])
    /\ UNCHANGED legacyPin

\* mqtt_client_remove_pinned_cert; a message names any number, of which eight bits count.
RemovePinnedCert(c) ==
    /\ \E index \in 0..MaxPins \cup {256} :
          /\ index % 256 < Len(pinConfig.pins)
          /\ Changes(c, [pinConfig EXCEPT !.pins = RemoveAt(@, (index % 256) + 1)])
    /\ UNCHANGED legacyPin

\* mqtt_client_clear_pinned_certs.
ClearPinnedCerts(c) ==
    /\ Changes(c, [pinConfig EXCEPT !.pins = <<>>])
    /\ legacyPin' = NoKey

\* mqtt_client_set_pinning_enforcement.
SetEnforcement(c) ==
    /\ \E on \in BOOLEAN : Changes(c, [pinConfig EXCEPT !.enforce = on])
    /\ UNCHANGED legacyPin

\* mqtt_client_set_ca_fallback.
SetCaFallback(c) ==
    /\ \E on \in BOOLEAN : Changes(c, [pinConfig EXCEPT !.fallback = on])
    /\ UNCHANGED legacyPin

\* mqtt_client_handle_pin_update, each of its commands one of the calls.
HandlePinUpdate(c) ==
    AddPinnedCert(c) \/ RemovePinnedCert(c) \/ ClearPinnedCerts(c) \/ SetEnforcement(c)

\* The mutex is given up, and all of the change can be seen.
ChangeMade ==
    /\ writing # {}
    /\ saving' = saving \cup writing
    /\ writing' = {}
    /\ before' = {}
    /\ UNCHANGED <<made, pinConfig, legacyPin, pinStore, reloading, unsaved, verify, peer, day,
                   calls>>

\* mqtt_client_pin_broker_cert, of the whole certificate; what it saves nothing loads.
PinBrokerCert ==
    /\ made
    /\ calls < MaxCalls
    /\ calls' = calls + 1
    /\ legacyPin' \in BrokerKey
    /\ UNCHANGED <<made, pinConfig, before, pinStore, writing, saving, reloading, unsaved, verify,
                   peer, day>>

----------------------------------------------------------------------------
\* mqtt_client_save_pin_config, under the mutex again.

SavePinConfig(c) ==
    /\ c \in saving /\ MutexFree
    /\ saving' = saving \ {c}
    /\ pinStore' = pinConfig
    /\ unsaved' = FALSE
    /\ UNCHANGED <<made, pinConfig, before, legacyPin, writing, reloading, verify, peer, day,
                   calls>>

\* Fault: the result of the save is not looked at.
SaveFailsUnseen(c) ==
    /\ c \in saving /\ MutexFree
    /\ saving' = saving \ {c}
    /\ pinStore' \in {pinStore, pinConfig}
    /\ UNCHANGED <<made, pinConfig, before, legacyPin, writing, reloading, unsaved, verify, peer,
                   day, calls>>

\* The caller is told; what it has changed in RAM stays.
SaveFails(c) ==
    /\ c \in saving /\ MutexFree
    /\ saving' = saving \ {c}
    /\ pinStore' \in {pinStore, pinConfig}
    /\ unsaved' = TRUE
    /\ UNCHANGED <<made, pinConfig, before, legacyPin, writing, reloading, verify, peer, day,
                   calls>>

\* mqtt_client_load_pin_config, all of it under the mutex: cleared first, then filled, or
\* left as after an error.
ReloadBegins(c) ==
    /\ made /\ MutexFree /\ c \notin saving
    /\ calls < MaxCalls
    /\ calls' = calls + 1
    /\ reloading' = {c}
    /\ before' = {pinConfig, Cleared}
    /\ Loaded
    /\ UNCHANGED <<made, legacyPin, pinStore, writing, saving, verify, peer, day>>

ReloadEnds ==
    /\ reloading # {}
    /\ reloading' = {}
    /\ before' = {}
    /\ UNCHANGED <<made, pinConfig, legacyPin, pinStore, writing, saving, unsaved, verify, peer,
                   day, calls>>

----------------------------------------------------------------------------
\* mqtt_client_connect, one read after the other.

\* Fault: the end of a pin is not looked at.
ExpiredNever(until, t) == FALSE

\* verify_against_pins: the end of a pin.
Expired(until, t) == until > 0 /\ t > until

\* extract_spki_hash: of the key in a certificate, DER-encoded.
SpkiHash(key) == [of |-> "key", key |-> key]

\* calc_cert_hash_der: of all of a certificate.
CertHash(key) == [of |-> "certificate", key |-> key]

\* verify_against_pins begins with the legacy pin, and compares a hash of the one kind with
\* one of the other.
MatchesLegacy(key, legacy) == legacy # NoKey /\ SpkiHash(key) = CertHash(legacy)

GoTo(at) == verify' = [verify EXCEPT !.at = at] /\ UNCHANGED peer
NextPin == verify' = [verify EXCEPT !.at = "count", !.pin = @ + 1] /\ UNCHANGED peer
LetIn == verify' = NotVerifying /\ peer' = verify.key
Refuse == verify' = NotVerifying /\ UNCHANGED peer

\* The TLS session is up, with a broker whose key may not be readable.
StartConnect ==
    /\ made /\ verify = NotVerifying /\ peer = NoKey
    /\ \E key \in BrokerKey \cup {NoKey} :
          verify' = [at |-> "enforced?", key |-> key, pin |-> 1, since |-> 0]
    /\ UNCHANGED <<apiVars, peer, day>>

\* There is something to verify if pinning is enforced, or there are pins, or a legacy pin.
MustVerify ==
    /\ \/ /\ verify.at = "enforced?"
          /\ \E view \in Views : GoTo(IF view.enforce THEN "verify" ELSE "pins?")
       \/ /\ verify.at = "pins?"
          /\ \E view \in Views : GoTo(IF view.pins # <<>> THEN "verify" ELSE "legacy?")
       \/ /\ verify.at = "legacy?"
          /\ IF legacyPin # NoKey THEN GoTo("verify") ELSE LetIn
    /\ UNCHANGED <<apiVars, day>>

\* verify_peer_certificate, and the legacy pin.
StartVerify ==
    /\ verify.at = "verify"
    /\ IF verify.key = NoKey THEN GoTo("enforces?")
       ELSE IF MatchesLegacy(verify.key, legacyPin) THEN LetIn
       ELSE verify' = [verify EXCEPT !.at = "count", !.since = day] /\ UNCHANGED peer
    /\ UNCHANGED <<apiVars, day>>

\* verify_against_pins, one field of one pin: is there one, is it active, has it expired, is
\* it the broker's.
VerifyPin ==
    /\ \E view \in Views :
          \/ /\ verify.at = "count"
             /\ GoTo(IF verify.pin <= Len(view.pins) THEN "active" ELSE "enforces?")
          \/ /\ verify.at = "active"
             /\ IF Active(view, verify.pin) THEN GoTo("until") ELSE NextPin
          \/ /\ verify.at = "until"
             /\ IF Expired(ValidUntil(view, verify.pin), verify.since) THEN NextPin
                ELSE GoTo("hash")
          \/ /\ verify.at = "hash"
             /\ IF HashedKey(view, verify.pin) = verify.key THEN LetIn ELSE NextPin
    /\ UNCHANGED <<apiVars, day>>

\* Without a match: the session is ended, or goes on if that is allowed.
Decide ==
    /\ \E view \in Views :
          \/ /\ verify.at = "enforces?"
             /\ IF view.enforce THEN Refuse ELSE GoTo("fallback?")
          \/ /\ verify.at = "fallback?"
             /\ IF view.fallback THEN LetIn ELSE Refuse
    /\ UNCHANGED <<apiVars, day>>

\* mqtt_client_disconnect.
Disconnect ==
    /\ peer # NoKey
    /\ peer' = NoKey
    /\ UNCHANGED <<apiVars, verify, day>>

\* A day goes by.
NextDay ==
    /\ day < LastDay + 1
    /\ day' = day + 1
    /\ UNCHANGED <<apiVars, verify, peer>>

----------------------------------------------------------------------------
PinStep ==
    \/ CreateClient \/ DestroyClient \/ PinReset
    \/ \E c \in Caller : HandlePinUpdate(c) \/ SetCaFallback(c) \/ SavePinConfig(c) \/ SaveFails(c)
                         \/ ReloadBegins(c)
    \/ ChangeMade \/ ReloadEnds
    \/ PinBrokerCert
    \/ StartConnect \/ MustVerify \/ StartVerify \/ VerifyPin \/ Decide \/ Disconnect
    \/ NextDay

\* The keys of the pins, expired or not, and of those good at the time t.
PinnedKeys(view) == {view.pins[i].key : i \in DOMAIN view.pins}
GoodAt(t, view) ==
    {view.pins[i].key : i \in {j \in DOMAIN view.pins : view.pins[j].until \notin 1..t - 1}}

\* What the verification under way could go by.
Witness ==
    IF verify' = NotVerifying THEN seen' = {} /\ enforced' = FALSE /\ steady' = FALSE
    ELSE LET begins == verify = NotVerifying
             keys == UNION {PinnedKeys(view) : view \in Views'}
         IN  /\ seen' = IF begins THEN keys ELSE seen \cup keys
             /\ enforced' = (/\ begins \/ enforced
                             /\ \A view \in Views' : view.enforce)
             /\ steady' = (/\ begins \/ (steady /\ pinConfig'.pins = pinConfig.pins)
                           /\ \A view \in Views' : view.pins = pinConfig'.pins)

PinNext == PinStep /\ Witness

PinSpec == PinInit /\ [][PinNext]_pinVars

----------------------------------------------------------------------------
(* When no call is under way and the last save was one that worked, the    *)
(* next client, after a restart as well, loads what this one goes by,      *)
(* although each call gives up the mutex between its change and its save.  *)
PinsAreKept == made /\ MutexFree /\ saving = {} /\ ~unsaved => pinConfig = pinStore

(* While pinning is enforced from the beginning of the verification to its *)
(* end, only a broker is let in whose key was pinned at some time in       *)
(* between, whatever the pin API does to the pins under the loop that      *)
(* reads them without the mutex (mqtt_client.c:445-468), and only one      *)
(* whose pin had not expired if the pins stayed the same.  The code gives  *)
(* no more: between two reads a remove or a reload moves the pins, and an  *)
(* expired key goes by the end of another pin.                             *)
BrokerWasPinned ==
    [][peer = NoKey /\ peer' # NoKey /\ enforced
       => /\ peer' \in seen
          /\ steady => peer' \in GoodAt(verify.since, pinConfig)]_pinVars

=============================================================================
