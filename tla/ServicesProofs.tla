---------------------------- MODULE ServicesProofs ----------------------------
(***************************************************************************)
(* The services around the fan control, for any number of images, resets,  *)
(* key pairs, pins, callers and names.                                     *)
(***************************************************************************)
EXTENDS NetworkServices, Certificates, BrokerPins, DeviceName, SequenceTheorems, TLAPS

----------------------------------------------------------------------------
(* The device's name.                                                      *)

\* While a rename is under way its name is one that may be kept; a name that was answered
\* is all a boot can find.
NameInv ==
    /\ nameStore \in [now : Name \cup {NoName}, may : SUBSET (Name \cup {NoName})]
    /\ rename \in {"idle", "set", "commit"}
    /\ rename # "idle" => /\ apName # NoName
                          /\ customName \in Name \ IdLike
                          /\ answeredName = NoName
    /\ rename = "commit" => nameStore.now = customName
    /\ answeredName # NoName => /\ answeredName \in Name \ IdLike
                                /\ nameStore.may = {answeredName}

LEMMA NoNameIsKept == Sanitized(NoName) = NoName /\ \A n \in Name \ IdLike : Sanitized(n) = n
  BY NameAssumption DEF Sanitized

LEMMA NameInitOk == NameInit => NameInv
  BY NameAssumption DEF NameInit, NameInv

LEMMA NameStep == NameInv /\ [NameNext]_nameVars => NameInv'
<1> SUFFICES ASSUME NameInv, [NameNext]_nameVars PROVE NameInv'
  OBVIOUS
<1> USE DEF NameInv
<1>1. CASE NameBoot
  <2>1. PICK stored \in nameStore.may : \E n \in LoadedName(stored) :
          nameStore' \in IF Sanitized(n) = n THEN {[now |-> stored, may |-> {stored}]}
                         ELSE Erasures(n)
    BY <1>1 DEF NameBoot
  <2>2. PICK n \in LoadedName(stored) :
          nameStore' \in IF Sanitized(n) = n THEN {[now |-> stored, may |-> {stored}]}
                         ELSE Erasures(n)
    BY <2>1
  <2>3. stored \in Name \cup {NoName} /\ n \in {stored, NoName}
    BY <2>2 DEF LoadedName
  <2>4. nameStore' \in [now : Name \cup {NoName}, may : SUBSET (Name \cup {NoName})]
    <3>1. CASE Sanitized(n) = n
      BY <2>2, <2>3, <3>1
    <3>2. CASE Sanitized(n) # n
      BY <2>2, <2>3, <3>2 DEF Erasures
    <3> QED
      BY <3>1, <3>2
  <2>5. answeredName # NoName => nameStore'.may = {answeredName}
    <3> SUFFICES ASSUME answeredName # NoName PROVE nameStore'.may = {answeredName}
      OBVIOUS
    <3>1. stored = answeredName
      BY <2>1
    <3>2. Sanitized(n) = n
      BY <2>3, <3>1, NoNameIsKept
    <3> QED
      BY <2>2, <3>1, <3>2
  <2>6. rename = "idle" /\ rename' = rename /\ answeredName' = answeredName
    BY <1>1 DEF NameBoot
  <2> QED
    BY <2>4, <2>5, <2>6
<1>2. CASE NameReset
  BY <1>2 DEF NameReset
<1>3. ASSUME NEW typed \in Typed, Rename(typed) PROVE NameInv'
  <2>1. Cut[typed] \in Name \ IdLike
    BY <1>3, NameAssumption DEF Rename, MayBeSet
  <2> QED
    BY <1>3, <2>1 DEF Rename
<1>4. CASE StoreName
  BY <1>4 DEF StoreName
<1>5. CASE CommitName
  <2>1. DisplayName = customName
    BY <1>5, NameAssumption DEF CommitName, DisplayName
  <2>2. CASE nameStore' = [nameStore EXCEPT !.may = {nameStore.now}] /\ answeredName' = DisplayName
    BY <1>5, <2>1, <2>2 DEF CommitName
  <2>3. CASE UNCHANGED <<nameStore, answeredName>>
    BY <1>5, <2>3 DEF CommitName
  <2> QED
    BY <1>5, <2>2, <2>3 DEF CommitName
<1>6. CASE UNCHANGED nameVars
  BY <1>6 DEF nameVars
<1> QED
  BY <1>1, <1>2, <1>3, <1>4, <1>5, <1>6 DEF NameNext

(* The name in the answer to POST /api/device/name is the one the device has after
   any boot that can read it, whatever the user types. *)
THEOREM NameKept == NameSpec => []NameIsAsAnswered
<1>1. NameInv => NameIsAsAnswered
  BY NoNameIsKept DEF NameInv, NameIsAsAnswered
<1> QED
  BY <1>1, NameInitOk, NameStep, PTL DEF NameSpec

----------------------------------------------------------------------------
(* Certificates.                                                           *)

Entry == [cert : Nat, key : Nat]

CertTypeOK ==
    /\ nvs \in [Place -> Entry]
    /\ cache \in [Place -> Entry]
    /\ torn \subseteq Place
    /\ pairs \in Nat
    /\ call \in [at : {"none", "storeCert", "storeKey", "dropCert", "eraseCert", "eraseKey"},
                 in : Place, pair : Nat, imported : BOOLEAN]
    /\ call.at = "storeCert" => call.pair # 0

\* Half a pair is in the NVS only while it is being stored or taken out again.
HalvesUnderWay ==
    /\ call.at = "storeKey" => nvs[call.in].cert = call.pair
    /\ \A p \in Place \ torn :
          \/ call.at \in {"storeKey", "dropCert"} /\ call.in = p
          \/ Complete(nvs[p]) => nvs[p].cert = nvs[p].key

\* The cache of the device's pair was filled from a place that was whole.
CacheWhole ==
    "device" \notin torn => cache["device"].cert = cache["device"].key

CertInv == CertTypeOK /\ HalvesUnderWay /\ CacheWhole

LEMMA CertInitOk == CertInit => CertInv
  BY DEF CertInit, CertInv, CertTypeOK, HalvesUnderWay, CacheWhole, Entry, Nothing, NoCall,
         Complete, Place

LEMMA NothingIsEntry == Nothing \in Entry /\ "device" \in Place /\ "https" \in Place
  BY DEF Nothing, Entry, Place

LEMMA DeviceLoadedOk ==
    ASSUME CertInv, DeviceLoaded, UNCHANGED <<nvs, torn>>, call.at = "none"
    PROVE  cache' \in [Place -> Entry] /\ CacheWhole'
<1> USE DEF CertInv
<1>1. CASE cache["device"] = Nothing /\ Complete(nvs["device"])
  <2>1. cache' = [cache EXCEPT !["device"] = nvs["device"]]
    BY <1>1 DEF DeviceLoaded
  <2>2. "device" \notin torn => nvs["device"].cert = nvs["device"].key
    BY <1>1, NothingIsEntry DEF HalvesUnderWay
  <2> QED
    BY <2>1, <2>2, NothingIsEntry DEF CacheWhole, CertTypeOK
<1>2. CASE ~(cache["device"] = Nothing /\ Complete(nvs["device"]))
  BY <1>2 DEF DeviceLoaded, CacheWhole, CertTypeOK
<1> QED
  BY <1>1, <1>2

LEMMA MadePairOk ==
    ASSUME CertInv, NEW p \in Place, NEW imported \in BOOLEAN, MadePair(p, imported),
           call.at = "none", cache' \in [Place -> Entry], CacheWhole'
    PROVE  CertInv'
  BY DEF MadePair, CertInv, CertTypeOK, HalvesUnderWay

LEMMA CertStep == CertInv /\ [CertNext]_certVars => CertInv'
<1> SUFFICES ASSUME CertInv, [CertNext]_certVars PROVE CertInv'
  OBVIOUS
<1> USE DEF certBounds
<1>1. CASE LoadDevice
  <2>1. cache' \in [Place -> Entry] /\ CacheWhole'
    BY <1>1, DeviceLoadedOk DEF LoadDevice
  <2> QED
    BY <1>1, <2>1 DEF LoadDevice, CertInv, CertTypeOK, HalvesUnderWay
<1>2. CASE LoadHttps
  <2>1. cache' \in [Place -> Entry] /\ cache'["device"] = cache["device"]
    BY <1>2, NothingIsEntry DEF LoadHttps, CertInv, CertTypeOK
  <2> QED
    BY <1>2, <2>1 DEF LoadHttps, CertInv, CertTypeOK, HalvesUnderWay, CacheWhole
<1>3. CASE FreeHttps
  <2>1. cache' \in [Place -> Entry] /\ cache'["device"] = cache["device"]
    BY <1>3, NothingIsEntry DEF FreeHttps, CertInv, CertTypeOK
  <2> QED
    BY <1>3, <2>1 DEF FreeHttps, CertInv, CertTypeOK, HalvesUnderWay, CacheWhole
<1>4. CASE ProvisionDevice \/ ProvisionHttps \/ ImportDevice \/ RenewHttps
  <2>1. cache' \in [Place -> Entry] /\ CacheWhole' /\ call.at = "none"
    <3>1. cache' = cache /\ torn' = torn /\ call.at = "none"
      BY <1>4 DEF ProvisionDevice, ProvisionHttps, ImportDevice, RenewHttps, SelfSignedDevice,
                  SelfSignedHttps, MadePair
    <3> QED
      BY <3>1 DEF CertInv, CertTypeOK, CacheWhole
  <2>2. \E p \in Place, imported \in BOOLEAN : MadePair(p, imported)
    BY <1>4, NothingIsEntry DEF ProvisionDevice, ProvisionHttps, ImportDevice, RenewHttps,
                                SelfSignedDevice, SelfSignedHttps
  <2> QED
    BY <2>1, <2>2, MadePairOk
<1>5. CASE RenewDevice
  <2>1. call.at = "none" /\ DeviceLoaded /\ MadePair("device", FALSE)
    BY <1>5 DEF RenewDevice, SelfSignedDevice
  <2>2. UNCHANGED <<nvs, torn>>
    BY <2>1 DEF MadePair
  <2>3. cache' \in [Place -> Entry] /\ CacheWhole'
    BY <2>1, <2>2, DeviceLoadedOk
  <2> QED
    BY <2>1, <2>3, NothingIsEntry, MadePairOk
<1>6. CASE StoreCert
  <2>1. cache' = cache /\ pairs' = pairs
    BY <1>6 DEF StoreCert
  <2>2. CASE /\ nvs' = [nvs EXCEPT ![call.in].cert = call.pair]
             /\ call' = [call EXCEPT !.at = "storeKey"]
             /\ UNCHANGED torn
    BY <1>6, <2>1, <2>2 DEF StoreCert, CertInv, CertTypeOK, HalvesUnderWay, CacheWhole, Entry,
                            Complete
  <2>3. CASE call' = NoCall /\ UNCHANGED <<nvs, torn>>
    BY <1>6, <2>1, <2>3 DEF StoreCert, CertInv, CertTypeOK, HalvesUnderWay, CacheWhole, NoCall,
                            Place
  <2>4. CASE /\ nvs' = [nvs EXCEPT ![call.in].cert = call.pair]
             /\ call' = NoCall
             /\ torn' = torn \cup {call.in}
    BY <1>6, <2>1, <2>4 DEF StoreCert, CertInv, CertTypeOK, HalvesUnderWay, CacheWhole, Entry,
                            NoCall, Place, Complete
  <2> QED
    BY <1>6, <2>2, <2>3, <2>4 DEF StoreCert
<1>7. CASE StoreKey
  <2>1. pairs' = pairs /\ call.at = "storeKey" /\ nvs[call.in].cert = call.pair
    BY <1>7 DEF StoreKey, CertInv, HalvesUnderWay
  <2>2. CASE /\ nvs' = [nvs EXCEPT ![call.in].key = call.pair]
             /\ call' = NoCall
             /\ torn' = torn \ {call.in}
             /\ CacheAfterStore
    <3>1. nvs' \in [Place -> Entry] /\ Nothing \in Entry
      BY <2>2, NothingIsEntry DEF CertInv, CertTypeOK, Entry
    <3>2. HalvesUnderWay'
      BY <2>1, <2>2 DEF CertInv, CertTypeOK, HalvesUnderWay, NoCall, Entry, Complete
    <3>3. cache' \in [Place -> Entry] /\ CacheWhole'
      <4>1. CASE call.in = "https"
        BY <2>2, <4>1 DEF CacheAfterStore, CertInv, CertTypeOK, CacheWhole
      <4>2. CASE call.in = "device"
        BY <2>2, <4>2, NothingIsEntry DEF CacheAfterStore, CertInv, CertTypeOK, CacheWhole,
                                          Nothing, Entry
      <4> QED
        BY <4>1, <4>2 DEF CertInv, CertTypeOK, Place
    <3> QED
      BY <2>1, <2>2, <3>1, <3>2, <3>3 DEF CertInv, CertTypeOK, NoCall, Place
  <2>3. CASE /\ nvs' \in {nvs, [nvs EXCEPT ![call.in].key = call.pair]}
             /\ call' = [call EXCEPT !.at = "dropCert"]
             /\ UNCHANGED <<torn, cache, cachedDue>>
    BY <2>1, <2>3 DEF CertInv, CertTypeOK, HalvesUnderWay, CacheWhole, Entry, Complete
  <2> QED
    BY <1>7, <2>2, <2>3 DEF StoreKey
<1>8. CASE DropCert
  <2>1. pairs' = pairs /\ cache' = cache /\ call' = NoCall /\ call.at = "dropCert"
    BY <1>8 DEF DropCert
  <2>2. CASE nvs' = [nvs EXCEPT ![call.in].cert = 0] /\ UNCHANGED torn
    BY <2>1, <2>2 DEF CertInv, CertTypeOK, HalvesUnderWay, CacheWhole, Entry, NoCall, Place,
                      Complete
  <2>3. CASE torn' = torn \cup {call.in} /\ UNCHANGED nvs
    BY <2>1, <2>3 DEF CertInv, CertTypeOK, HalvesUnderWay, CacheWhole, NoCall, Place
  <2> QED
    BY <1>8, <2>2, <2>3 DEF DropCert
<1>9. ASSUME NEW p \in Place, DeleteBegins(p) PROVE CertInv'
  BY <1>9 DEF DeleteBegins, CertInv, CertTypeOK, HalvesUnderWay, CacheWhole, NoCall
<1>10. CASE EraseCert
  <2>1. CASE nvs' = nvs
    BY <1>10, <2>1 DEF EraseCert, CertInv, CertTypeOK, HalvesUnderWay, CacheWhole
  <2>2. CASE nvs' = [nvs EXCEPT ![call.in].cert = 0]
    BY <1>10, <2>2 DEF EraseCert, CertInv, CertTypeOK, HalvesUnderWay, CacheWhole, Entry,
                       Complete
  <2> QED
    BY <1>10, <2>1, <2>2 DEF EraseCert
<1>11. CASE EraseKey
  <2>1. cache' \in [Place -> Entry] /\ CacheWhole'
    BY <1>11, NothingIsEntry DEF EraseKey, CertInv, CertTypeOK, CacheWhole, Nothing, Entry
  <2> QED
    BY <1>11, <2>1 DEF EraseKey, CertInv, CertTypeOK, HalvesUnderWay, Entry, NoCall, Place,
                       Complete
<1>12. CASE Aging
  BY <1>12 DEF Aging, CertInv, CertTypeOK, HalvesUnderWay, CacheWhole
<1>13. CASE CertReboot
  <2>1. cache' \in [Place -> Entry] /\ CacheWhole'
    BY <1>13, NothingIsEntry DEF CertReboot, CacheWhole, Nothing
  <2> QED
    BY <1>13, <2>1 DEF CertReboot, CertInv, CertTypeOK, HalvesUnderWay, NoCall, Place
<1>14. CASE UNCHANGED certVars
  BY <1>14 DEF certVars, CertInv, CertTypeOK, HalvesUnderWay, CacheWhole
<1> QED
  BY <1>1, <1>2, <1>3, <1>4, <1>5, <1>6, <1>7, <1>8, <1>9, <1>10, <1>11, <1>12, <1>13, <1>14
     DEF CertNext

(* A certificate is never answered with the key of another, but where a reset or an
   error came between the two writes. *)
THEOREM PairsMatch == CertSpec => []AnsweredPairMatches
<1>1. CertInv => AnsweredPairMatches
  BY NothingIsEntry DEF CertInv, CertTypeOK, HalvesUnderWay, CacheWhole, AnsweredPairMatches,
                        Answered
<1> QED
  BY <1>1, CertInitOk, CertStep, PTL DEF CertSpec

----------------------------------------------------------------------------
(* The MQTT client and the two tasks that use it.                          *)

\* No entry is published before the client is there to stay.
MqttInv ==
    /\ client \in [made : BOOLEAN, connected : BOOLEAN]
    /\ started => client.made
    /\ sink => started
    /\ mqttAt \in {"register", "discover"} => started
    /\ mqttAt = "connect" => client.made
    /\ dispatch \in [at : {"waiting", "checking", "writing"}, has : {"nothing", "client"}]
    /\ dispatch.at # "waiting" => sink
    /\ dispatch.has = "client" => sink

LEMMA MqttInitOk == ServicesInit => MqttInv
  BY DEF ServicesInit, MqttInit, MqttInv, NoClient

LEMMA MqttStep == MqttInv /\ [ServicesNext]_servicesVars => MqttInv'
<1> SUFFICES ASSUME MqttInv, [ServicesNext]_servicesVars PROVE MqttInv'
  OBVIOUS
<1>1. CASE ControlMqtt
  <2>1. CASE NothingToStart(connected)
    BY <2>1 DEF NothingToStart, MqttInv
  <2>2. CASE ConfigureTls(connected)
    <3>1. dispatch.has # "client" /\ ~sink
      BY <2>2 DEF ConfigureTls, MqttInv
    <3>2. dispatch' = dispatch /\ UNCHANGED <<started, sink>>
      BY <2>2, <3>1 DEF ConfigureTls, Destroyed
    <3>3. /\ client' \in [made : BOOLEAN, connected : BOOLEAN]
          /\ mqttAt' = "connect" => client'.made
          /\ mqttAt' \in {"connect", "publish"}
      <4>1. /\ NoClient \in [made : BOOLEAN, connected : BOOLEAN]
            /\ [made |-> TRUE, connected |-> FALSE] \in [made : BOOLEAN, connected : BOOLEAN]
            /\ [made |-> TRUE, connected |-> FALSE].made
        BY DEF NoClient
      <4>2. CASE client' = [made |-> TRUE, connected |-> FALSE] /\ mqttAt' = "connect"
        BY <4>1, <4>2
      <4>3. CASE client' = NoClient /\ mqttAt' = "publish"
        BY <4>1, <4>3
      <4> QED
        BY <2>2, <4>2, <4>3 DEF ConfigureTls
    <3>4. ~started
      BY <2>2 DEF ConfigureTls
    <3> QED
      BY <3>1, <3>2, <3>3, <3>4 DEF MqttInv
  <2>3. CASE Connect
    BY <2>3 DEF Connect, MqttInv
  <2>4. CASE RegisterLogSink
    BY <2>4 DEF RegisterLogSink, MqttInv
  <2>5. CASE HaDiscovery
    BY <2>5 DEF HaDiscovery, MqttInv
  <2>6. CASE PublishState
    BY <2>6 DEF PublishState, MqttInv
  <2> QED
    BY <1>1, <2>1, <2>2, <2>3, <2>4, <2>5, <2>6 DEF ControlMqtt, MqttControl
<1>2. CASE ControlDelay
  BY <1>2 DEF ControlDelay, NextSecond, MqttInv
<1>3. CASE LogDispatch
  <2>1. UNCHANGED <<client, started, sink, mqttAt>>
    BY <1>3 DEF LogDispatch, DispatchTask, TakeClient, CheckConnected, WriteEntry
  <2>2. CASE TakeClient
    BY <2>1, <2>2 DEF TakeClient, MqttInv
  <2>3. CASE CheckConnected
    <3>1. CASE client.connected
      BY <2>1, <2>3, <3>1 DEF CheckConnected, MqttInv
    <3>2. CASE ~client.connected
      BY <2>1, <2>3, <3>2 DEF CheckConnected, MqttInv
    <3> QED
      BY <3>1, <3>2
  <2>4. CASE WriteEntry
    BY <2>1, <2>4 DEF WriteEntry, MqttInv
  <2> QED
    BY <1>3, <2>2, <2>3, <2>4 DEF LogDispatch, DispatchTask
<1>4. CASE SessionEnds
  BY <1>4 DEF SessionEnds, SessionLost, MqttInv
<1>5. CASE Reboot
  BY <1>5 DEF Reboot, MqttReboot, NoClient, MqttInv
<1>6. CASE UNCHANGED mqttVars
  BY <1>6 DEF mqttVars, MqttInv
<1> QED
  BY <1>1, <1>2, <1>3, <1>4, <1>5, <1>6 DEF ServicesNext, servicesVars, ControlHealth, OtaMonitor,
                                           WifiChanges, TimePasses

(* The dispatch task never publishes through a client that was freed. *)
THEOREM ClientIsThere == ServicesSpec => []ClientOutlivesItsUsers
<1>1. MqttInv => ClientOutlivesItsUsers
  BY DEF MqttInv, ClientOutlivesItsUsers
<1> QED
  BY <1>1, MqttInitOk, MqttStep, PTL DEF ServicesSpec

----------------------------------------------------------------------------
(* Firmware over the air.                                                  *)

(* The health check never confirms the image it has just seen working: whatever the
   monitor task does and wherever resets fall, can_rollback is not set while ota_0 runs,
   and without it ota_manager_mark_valid is not called (main.c:490). *)
THEOREM OwnImageNeverMarked ==
    ServicesSpec => [](running = "ota_0" => ~status.can_rollback /\ health.at = "waiting")
<1> DEFINE Inv == /\ health.at \in {"waiting", "marking"}
                  /\ running = "ota_0" => ~status.can_rollback /\ health.at = "waiting"
<1>1. ServicesInit => Inv
  BY DEF ServicesInit, UpdateInit
<1>2. Inv /\ [ServicesNext]_servicesVars => Inv'
  <2> SUFFICES ASSUME Inv, [ServicesNext]_servicesVars PROVE Inv'
    OBVIOUS
  <2>1. CASE OtaMonitor
    <3>1. UNCHANGED <<running, health>>
      BY <2>1 DEF OtaMonitor, MonitorTask, imageVars, MonitorSkips, CheckForUpdate, StartUpdate,
                  DownloadBegins, DownloadFails, DownloadEnds, MonitorLooks
    <3>2. status'.can_rollback => status.can_rollback
      <4>1. CASE UNCHANGED status
        BY <4>1
      <4>2. CASE \E state : SetState(state)
        BY <4>2 DEF SetState
      <4>3. CASE DownloadEnds
        BY <4>3 DEF DownloadEnds
      <4>4. CASE MonitorLooks
        BY <4>4 DEF MonitorLooks, ClearedStatus
      <4> QED
        BY <2>1, <4>1, <4>2, <4>3, <4>4 DEF OtaMonitor, MonitorTask, MonitorSkips,
           CheckForUpdate, StartUpdate, DownloadBegins, DownloadFails
    <3> QED
      BY <3>1, <3>2
  <2>2. ASSUME NEW n \in {0, 1}, LookAtHealth(n) PROVE Inv'
    <3>1. UNCHANGED <<running, status>>
      BY <2>2 DEF LookAtHealth, imageVars
    <3>2. CASE status.can_rollback
      BY <2>2, <3>1, <3>2 DEF LookAtHealth
    <3>3. CASE ~status.can_rollback
      BY <2>2, <3>1, <3>3 DEF LookAtHealth
    <3> QED
      BY <3>2, <3>3
  <2>3. CASE MarkValid
    <3>1. running # "ota_0" /\ running' = running /\ health'.at = "waiting"
      BY <2>3 DEF MarkValid
    <3> QED
      BY <3>1
  <2>4. CASE Reboot
    <3>1. status' = BootStatus' /\ health'.at = "waiting"
      BY <2>4 DEF Reboot, UpdateReboot
    <3> QED
      BY <3>1 DEF BootStatus
  <2>5. CASE UNCHANGED <<running, status, health>>
    BY <2>5
  <2> QED
    BY <2>1, <2>2, <2>3, <2>4, <2>5
       DEF ServicesNext, servicesVars, updateVars, imageVars, ControlMqtt, ControlHealth, HealthStep,
           ControlDelay, LogDispatch, WifiChanges, SessionEnds, TimePasses, Minute
<1>3. Inv => (running = "ota_0" => ~status.can_rollback /\ health.at = "waiting")
  OBVIOUS
<1> QED
  BY <1>1, <1>2, <1>3, PTL DEF ServicesSpec

----------------------------------------------------------------------------
(* The pins of the MQTT client.                                            *)

(* What the client goes by is what the next one will load, once every call that changes
   it has saved. *)
THEOREM PinsKept == PinSpec => []PinsAreKept
<1> DEFINE Kept == made /\ writing = {} /\ saving = {} /\ ~unsaved => pinConfig = pinStore
<1>1. PinInit => Kept
  BY DEF PinInit
<1>2. Kept /\ [PinNext]_pinVars => Kept'
  <2> SUFFICES ASSUME Kept, [PinNext]_pinVars PROVE Kept'
    OBVIOUS
  <2> USE DEF MutexFree
  <2>1. CASE CreateClient \/ DestroyClient \/ PinReset
    BY <2>1 DEF CreateClient, DestroyClient, PinReset, Loaded
  <2>2. ASSUME NEW c \in Caller, HandlePinUpdate(c) \/ SetCaFallback(c) PROVE writing' # {}
    BY <2>2 DEF HandlePinUpdate, SetCaFallback, AddPinnedCert, RemovePinnedCert,
                ClearPinnedCerts, SetEnforcement, Changes
  <2>3. ASSUME NEW c \in Caller, SavePinConfig(c) \/ SaveFails(c) \/ ReloadBegins(c)
        PROVE  Kept'
    BY <2>3 DEF SavePinConfig, SaveFails, ReloadBegins, Loaded
  <2>4. CASE ChangeMade
    <3>1. PICK c \in writing : TRUE
      BY <2>4 DEF ChangeMade
    <3>2. c \in saving'
      BY <2>4, <3>1 DEF ChangeMade
    <3> QED
      BY <3>2
  <2>5. CASE ReloadEnds
    BY <2>5 DEF ReloadEnds
  <2>6. CASE PinBrokerCert
    BY <2>6 DEF PinBrokerCert
  <2>7. CASE UNCHANGED apiVars
    BY <2>7 DEF apiVars
  <2> QED
    BY <2>1, <2>2, <2>3, <2>4, <2>5, <2>6, <2>7
       DEF PinNext, PinStep, StartConnect, MustVerify, StartVerify, VerifyPin, Decide, Disconnect,
           NextDay, pinVars
<1>3. Kept => PinsAreKept
  BY DEF PinsAreKept, MutexFree
<1> QED
  BY <1>1, <1>2, <1>3, PTL DEF PinSpec

ConfigOK(config) ==
    config \in [enforce : BOOLEAN, fallback : BOOLEAN, pins : Seq(Pin)]

ReadingPins == {"count", "active", "until", "hash"}

VerifyOK ==
    \/ verify = NotVerifying
    \/ verify \in [at : {"enforced?", "pins?", "legacy?", "verify", "enforces?", "fallback?"}
                        \cup ReadingPins,
                   key : BrokerKey \cup {NoKey}, pin : Nat \ {0}, since : Nat]

PinTypeOK ==
    /\ ConfigOK(pinConfig) /\ ConfigOK(pinStore)
    /\ \A view \in before : ConfigOK(view)
    /\ day \in Nat
    /\ VerifyOK
    /\ verify.at \in ReadingPins => verify.key \in BrokerKey

\* Whatever the verification has yet to read has been noted.
AllNoted ==
    verify # NotVerifying =>
       /\ \A view \in Views : PinnedKeys(view) \subseteq seen
       /\ steady => \A view \in Views : view.pins = pinConfig.pins

\* What it has read: that pinning is not enforced; and of the pin in hand, while the pins stay
\* the same, that it is there and has not expired.
ReadSoFar ==
    /\ verify.at \in {"pins?", "legacy?", "fallback?"} => ~enforced
    /\ steady /\ verify.at \in {"until", "hash"} => Active(pinConfig, verify.pin)
    /\ steady /\ verify.at = "hash" => ~Expired(ValidUntil(pinConfig, verify.pin), verify.since)

PinInv == PinTypeOK /\ AllNoted /\ ReadSoFar

LEMMA ConfigValues ==
    /\ ConfigOK(NoPins) /\ ConfigOK(Cleared)
    /\ \A config \in PinConfig : ConfigOK(config)
<1>1. <<>> \in Seq(Pin)
  OBVIOUS
<1>2. ASSUME NEW n \in 0..MaxPins, NEW s \in [1..n -> Pin] PROVE s \in Seq(Pin)
  BY <1>2, PinsAssumption, SeqDef
<1> QED
  BY <1>1, <1>2 DEF ConfigOK, NoPins, Cleared, PinConfig

LEMMA ConfigEdits ==
    ASSUME NEW config, ConfigOK(config)
    PROVE  /\ config.pins \in Seq(Pin)
           /\ \A b \in BOOLEAN : /\ ConfigOK([config EXCEPT !.enforce = b])
                                 /\ ConfigOK([config EXCEPT !.fallback = b])
           /\ \A s \in Seq(Pin) : ConfigOK([config EXCEPT !.pins = s])
  BY DEF ConfigOK

LEMMA RemoveAtTyped ==
    ASSUME NEW S, NEW s \in Seq(S), NEW i \in 1..Len(s)
    PROVE  RemoveAt(s, i) \in Seq(S)
<1>1. SubSeq(s, 1, i - 1) \in Seq(S) /\ SubSeq(s, i + 1, Len(s)) \in Seq(S)
  BY SubSeqProperties
<1> QED
  BY <1>1, ConcatProperties DEF RemoveAt

LEMMA PinInitOk == PinInit => PinInv
  BY ConfigValues DEF PinInit, PinInv, PinTypeOK, VerifyOK, AllNoted, ReadSoFar, ReadingPins,
                      NotVerifying

\* The calls of the pin API, and what they leave alone.
LEMMA PinApiStep ==
    ASSUME PinTypeOK, NEW c \in Caller,
           \/ HandlePinUpdate(c) \/ SetCaFallback(c) \/ SavePinConfig(c) \/ SaveFails(c)
           \/ ReloadBegins(c)
    PROVE  PinTypeOK' /\ UNCHANGED <<verify, peer>>
<1> USE DEF PinTypeOK, VerifyOK
<1>1. ASSUME NEW config, ConfigOK(config), Changes(c, config)
      PROVE  PinTypeOK' /\ UNCHANGED <<verify, peer>>
  BY <1>1 DEF Changes
<1>2. CASE AddPinnedCert(c)
  <2>1. PICK pin \in Pin : Changes(c, [pinConfig EXCEPT !.pins = Append(pinConfig.pins, pin)])
    BY <1>2 DEF AddPinnedCert
  <2>2. Append(pinConfig.pins, pin) \in Seq(Pin)
    BY ConfigEdits
  <2> QED
    BY <1>1, <2>1, <2>2, ConfigEdits
<1>3. CASE RemovePinnedCert(c)
  <2>1. PICK i \in 0..MaxPins \cup {256} :
           /\ i % 256 < Len(pinConfig.pins)
           /\ Changes(c, [pinConfig EXCEPT !.pins = RemoveAt(pinConfig.pins, (i % 256) + 1)])
    BY <1>3 DEF RemovePinnedCert
  <2>2. (i % 256) + 1 \in 1..Len(pinConfig.pins)
    BY <2>1, ConfigEdits, PinsAssumption
  <2>3. RemoveAt(pinConfig.pins, (i % 256) + 1) \in Seq(Pin)
    BY <2>2, ConfigEdits, RemoveAtTyped
  <2> QED
    BY <1>1, <2>1, <2>3, ConfigEdits
<1>4. CASE ClearPinnedCerts(c)
  <2>1. <<>> \in Seq(Pin)
    OBVIOUS
  <2> QED
    BY <1>1, <1>4, <2>1, ConfigEdits DEF ClearPinnedCerts
<1>5. CASE SetEnforcement(c) \/ SetCaFallback(c)
  BY <1>1, <1>5, ConfigEdits DEF SetEnforcement, SetCaFallback
<1>6. CASE SavePinConfig(c) \/ SaveFails(c)
  BY <1>6 DEF SavePinConfig, SaveFails
<1>7. CASE ReloadBegins(c)
  BY <1>7, ConfigValues DEF ReloadBegins, Loaded
<1> QED
  BY <1>2, <1>3, <1>4, <1>5, <1>6, <1>7 DEF HandlePinUpdate

\* What the witnesses say after a step in which a verification goes on.
LEMMA WitnessStep ==
    ASSUME PinNext, verify' # NotVerifying
    PROVE  /\ AllNoted'
           /\ verify # NotVerifying /\ steady' => steady /\ pinConfig'.pins = pinConfig.pins
           /\ verify # NotVerifying /\ enforced' => enforced
           /\ enforced' => \A view \in Views' : view.enforce
<1>1. /\ seen' = IF verify = NotVerifying THEN UNION {PinnedKeys(view) : view \in Views'}
                 ELSE seen \cup UNION {PinnedKeys(view) : view \in Views'}
      /\ enforced' = (/\ verify = NotVerifying \/ enforced
                      /\ \A view \in Views' : view.enforce)
      /\ steady' = (/\ verify = NotVerifying \/ (steady /\ pinConfig'.pins = pinConfig.pins)
                    /\ \A view \in Views' : view.pins = pinConfig'.pins)
  BY DEF PinNext, Witness
<1>2. \A view \in Views' : PinnedKeys(view) \subseteq seen'
  BY <1>1
<1>3. AllNoted'
  BY <1>1, <1>2 DEF AllNoted, PinnedKeys
<1> QED
  BY <1>1, <1>3

LEMMA PinInvStep == PinInv /\ [PinNext]_pinVars => PinInv'
<1> SUFFICES ASSUME PinInv, [PinNext]_pinVars PROVE PinInv'
  OBVIOUS
<1> USE DEF PinInv, PinTypeOK
<1>1. ASSUME verify' = NotVerifying, PinTypeOK' PROVE PinInv'
  BY <1>1 DEF AllNoted, ReadSoFar, NotVerifying
<1>2. ASSUME verify' = verify, verify # NotVerifying, PinNext, PinTypeOK' PROVE PinInv'
  <2>1. /\ AllNoted'
        /\ steady' => steady /\ pinConfig'.pins = pinConfig.pins
        /\ enforced' => enforced
    BY <1>2, WitnessStep
  <2>2. ReadSoFar'
    BY <1>2, <2>1 DEF ReadSoFar, Active, ValidUntil
  <2> QED
    BY <1>2, <2>1, <2>2
<1>3. CASE /\ PinNext
           /\ CreateClient \/ DestroyClient \/ ChangeMade \/ ReloadEnds \/ PinBrokerCert \/ Disconnect
              \/ NextDay
  <2>1. UNCHANGED verify /\ PinTypeOK'
    BY <1>3, ConfigValues DEF CreateClient, DestroyClient, ChangeMade, ReloadEnds, PinBrokerCert,
       Disconnect, NextDay, Loaded, VerifyOK, apiVars
  <2> QED
    BY <1>1, <1>2, <1>3, <2>1
<1>4. CASE PinReset
  <2>1. verify' = NotVerifying /\ PinTypeOK'
    BY <1>4, ConfigValues DEF PinReset, VerifyOK, NotVerifying, ReadingPins
  <2> QED
    BY <1>1, <2>1
<1>5. ASSUME NEW c \in Caller, PinNext,
             \/ HandlePinUpdate(c) \/ SetCaFallback(c) \/ SavePinConfig(c) \/ SaveFails(c)
             \/ ReloadBegins(c)
      PROVE  PinInv'
  BY <1>1, <1>2, <1>5, PinApiStep
<1>6. ASSUME PinNext, UNCHANGED <<apiVars, day>>, VerifyOK',
             verify'.at \in ReadingPins => verify'.key \in BrokerKey,
             ReadSoFar' \/ verify' = NotVerifying
      PROVE  PinInv'
  <2>1. PinTypeOK' /\ Views' = Views
    BY <1>6 DEF apiVars, Views
  <2>2. CASE verify' = NotVerifying
    BY <1>1, <2>1, <2>2
  <2>3. CASE verify' # NotVerifying
    BY <1>6, <2>1, <2>3, WitnessStep
  <2> QED
    BY <2>2, <2>3
<1>7. CASE PinNext /\ StartConnect
  <2>1. VerifyOK' /\ verify'.at = "enforced?" /\ UNCHANGED <<apiVars, day>>
    BY <1>7 DEF StartConnect, VerifyOK
  <2> QED
    BY <1>6, <1>7, <2>1 DEF ReadSoFar, ReadingPins
<1>8. ASSUME PinNext, verify # NotVerifying, UNCHANGED <<apiVars, day>>,
             verify' \in [at : {"enforced?", "pins?", "legacy?", "verify", "enforces?", "fallback?"}
                               \cup ReadingPins,
                          key : {verify.key}, pin : Nat \ {0}, since : Nat],
             verify'.at \in ReadingPins => verify.key \in BrokerKey,
             verify'.at \in {"pins?", "legacy?", "fallback?"} =>
                ~enforced \/ \E view \in Views : ~view.enforce,
             verify'.at \in {"until", "hash"} =>
                verify'.pin = verify.pin /\ (steady => Active(pinConfig, verify.pin)),
             verify'.at = "hash" =>
                /\ verify'.since = verify.since
                /\ steady => ~Expired(ValidUntil(pinConfig, verify.pin), verify.since)
      PROVE  PinInv'
  <2>1. UNCHANGED <<pinConfig, Views>> /\ verify.key \in BrokerKey \cup {NoKey}
    BY <1>8 DEF apiVars, Views, VerifyOK
  <2>2. VerifyOK' /\ verify' # NotVerifying /\ verify'.key = verify.key
    BY <1>8, <2>1 DEF VerifyOK, NotVerifying, ReadingPins
  <2>3. /\ steady' => steady
        /\ enforced' => enforced /\ \A view \in Views : view.enforce
    BY <1>8, <2>1, <2>2, WitnessStep
  <2>4. ReadSoFar'
    BY <1>8, <2>1, <2>3 DEF ReadSoFar, Active, ValidUntil
  <2> QED
    BY <1>6, <1>8, <2>2, <2>4
<1>9. ASSUME PinNext, UNCHANGED <<apiVars, day>>, verify' = NotVerifying PROVE PinInv'
  BY <1>6, <1>9 DEF VerifyOK, NotVerifying, ReadingPins
<1>10. verify # NotVerifying => verify \in [at : {"enforced?", "pins?", "legacy?", "verify",
             "enforces?", "fallback?"} \cup ReadingPins,
             key : BrokerKey \cup {NoKey}, pin : Nat \ {0}, since : Nat]
  BY DEF VerifyOK
<1>11. CASE PinNext /\ MustVerify
  <2>1. verify # NotVerifying /\ UNCHANGED <<apiVars, day>>
    BY <1>11 DEF MustVerify, NotVerifying
  <2>2. CASE verify' = NotVerifying
    BY <1>9, <1>11, <2>1, <2>2
  <2>3. CASE /\ verify.at = "enforced?"
             /\ \E view \in Views : GoTo(IF view.enforce THEN "verify" ELSE "pins?")
    BY <1>8, <1>10, <1>11, <2>1, <2>3 DEF GoTo, ReadingPins
  <2>4. CASE /\ verify.at = "pins?"
             /\ \E view \in Views : GoTo(IF view.pins # <<>> THEN "verify" ELSE "legacy?")
    BY <1>8, <1>10, <1>11, <2>1, <2>4 DEF GoTo, ReadingPins, ReadSoFar
  <2>5. CASE GoTo("verify")
    BY <1>8, <1>10, <1>11, <2>1, <2>5 DEF GoTo, ReadingPins
  <2> QED
    BY <1>11, <2>2, <2>3, <2>4, <2>5 DEF MustVerify, LetIn
<1>12. CASE PinNext /\ StartVerify
  <2>1. verify # NotVerifying /\ UNCHANGED <<apiVars, day>>
    BY <1>12 DEF StartVerify, NotVerifying
  <2>2. CASE GoTo("enforces?")
    BY <1>8, <1>10, <1>12, <2>1, <2>2 DEF GoTo, ReadingPins
  <2>3. CASE verify' = NotVerifying
    BY <1>9, <1>12, <2>1, <2>3
  <2>4. CASE verify.key # NoKey /\ verify' = [verify EXCEPT !.at = "count", !.since = day]
    BY <1>8, <1>10, <1>12, <2>1, <2>4 DEF ReadingPins
  <2> QED
    BY <1>12, <2>2, <2>3, <2>4 DEF StartVerify, LetIn
<1>13. CASE PinNext /\ VerifyPin
  <2>1. verify # NotVerifying /\ UNCHANGED <<apiVars, day>> /\ verify.key \in BrokerKey
    BY <1>13 DEF VerifyPin, NotVerifying, ReadingPins
  <2>2. PICK view \in Views : VerifyPin!1!(view)
    BY <1>13 DEF VerifyPin
  <2>3. steady => view.pins = pinConfig.pins
    BY <2>1, <2>2 DEF AllNoted
  <2>4. CASE LetIn
    BY <1>9, <1>13, <2>1, <2>4 DEF LetIn
  <2>5. CASE NextPin
    <3>1. /\ verify.pin + 1 \in Nat \ {0} /\ verify.since \in Nat
          /\ verify' = [verify EXCEPT !.at = "count", !.pin = verify.pin + 1]
      BY <1>10, <2>1, <2>5 DEF NextPin
    <3> QED
      BY <1>8, <1>10, <1>13, <2>1, <3>1 DEF ReadingPins
  <2>6. CASE GoTo("enforces?")
    BY <1>8, <1>10, <1>13, <2>1, <2>6 DEF GoTo, ReadingPins
  <2>7. CASE GoTo("active")
    BY <1>8, <1>10, <1>13, <2>1, <2>7 DEF GoTo, ReadingPins
  <2>8. CASE GoTo("until") /\ Active(view, verify.pin)
    BY <1>8, <1>10, <1>13, <2>1, <2>3, <2>8 DEF GoTo, ReadingPins, Active
  <2>9. CASE /\ verify.at = "until"
             /\ GoTo("hash") /\ ~Expired(ValidUntil(view, verify.pin), verify.since)
    BY <1>8, <1>10, <1>13, <2>1, <2>3, <2>9 DEF GoTo, ReadingPins, ReadSoFar, Active, ValidUntil
  <2> QED
    BY <2>2, <2>4, <2>5, <2>6, <2>7, <2>8, <2>9
<1>14. CASE PinNext /\ Decide
  <2>1. verify # NotVerifying /\ UNCHANGED <<apiVars, day>>
    BY <1>14 DEF Decide, NotVerifying
  <2>2. CASE verify' = NotVerifying
    BY <1>9, <1>14, <2>1, <2>2
  <2>3. CASE (\E view \in Views : ~view.enforce) /\ GoTo("fallback?")
    BY <1>8, <1>10, <1>14, <2>1, <2>3 DEF GoTo, ReadingPins
  <2> QED
    BY <1>14, <2>2, <2>3 DEF Decide, LetIn, Refuse
<1>15. CASE UNCHANGED pinVars
  <2>1. UNCHANGED <<pinConfig, pinStore, before, day, verify, seen, enforced, steady>>
    BY <1>15 DEF pinVars, apiVars
  <2> QED
    BY <2>1 DEF AllNoted, ReadSoFar, VerifyOK, Views
<1> QED
  BY <1>3, <1>4, <1>5, <1>7, <1>11, <1>12, <1>13, <1>14, <1>15 DEF PinNext, PinStep

(* No broker is let in, while pinning is enforced, whose key was not pinned at some time
   since its session began; and if the pins stayed the same, none whose pin had expired. *)
THEOREM OnlyPinnedBrokers == PinSpec => BrokerWasPinned
<1> DEFINE A == peer = NoKey /\ peer' # NoKey /\ enforced
                => /\ peer' \in seen
                   /\ steady => peer' \in GoodAt(verify.since, pinConfig)
<1>1. PinInv /\ [PinNext]_pinVars => [A]_pinVars
  <2> SUFFICES ASSUME PinInv, PinNext, peer = NoKey, peer' # NoKey, enforced
               PROVE  /\ peer' \in seen
                      /\ steady => peer' \in GoodAt(verify.since, pinConfig)
    OBVIOUS
  <2> USE DEF PinInv, PinTypeOK
  <2>1. \A key : ~MatchesLegacy(key, legacyPin)
    BY DEF MatchesLegacy, SpkiHash, CertHash
  <2>2. CASE VerifyPin
    <3>1. PICK view \in Views : VerifyPin!1!(view)
      BY <2>2 DEF VerifyPin
    <3>2. /\ verify.at = "hash" /\ peer' = verify.key
          /\ HashedKey(view, verify.pin) = verify.key
      BY <3>1 DEF GoTo, NextPin, LetIn
    <3>3. /\ verify # NotVerifying /\ verify.key \in BrokerKey
          /\ verify.pin \in Nat \ {0} /\ verify.since \in Nat
      BY <3>2 DEF NotVerifying, ReadingPins, VerifyOK
    <3>4. ConfigOK(view)
      BY DEF Views
    <3>5. verify.pin \in DOMAIN view.pins /\ view.pins[verify.pin].key = verify.key
      BY <3>2, <3>3, <3>4, ConfigEdits, PinsAssumption DEF HashedKey, Active
    <3>6. peer' \in seen
      BY <3>2, <3>3, <3>5 DEF AllNoted, PinnedKeys
    <3>7. ASSUME steady PROVE peer' \in GoodAt(verify.since, pinConfig)
      <4>1. view.pins = pinConfig.pins
        BY <3>3, <3>7 DEF AllNoted
      <4>2. ~Expired(pinConfig.pins[verify.pin].until, verify.since)
        BY <3>2, <3>7 DEF ReadSoFar, ValidUntil
      <4>3. pinConfig.pins[verify.pin].until \in Nat
        <5>1. pinConfig.pins[verify.pin] \in Pin
          BY <3>5, <4>1, ConfigEdits
        <5> QED
          BY <5>1, PinsAssumption DEF Pin
      <4>4. pinConfig.pins[verify.pin].until \notin 1..verify.since - 1
        BY <3>3, <4>2, <4>3 DEF Expired
      <4> QED
        BY <3>2, <3>5, <4>1, <4>4 DEF GoodAt
    <3> QED
      BY <3>6, <3>7
  <2>3. CASE MustVerify
    BY <2>3 DEF MustVerify, ReadSoFar, GoTo, LetIn
  <2>4. CASE Decide
    BY <2>4 DEF Decide, ReadSoFar, GoTo, LetIn, Refuse
  <2>5. CASE StartVerify
    BY <2>1, <2>5 DEF StartVerify, GoTo
  <2>6. CASE CreateClient \/ DestroyClient \/ PinReset \/ ChangeMade \/ ReloadEnds \/ PinBrokerCert
             \/ StartConnect \/ Disconnect \/ NextDay
    BY <2>6 DEF CreateClient, DestroyClient, PinReset, ChangeMade, ReloadEnds, PinBrokerCert,
                StartConnect, Disconnect, NextDay
  <2> QED
    BY <2>2, <2>3, <2>4, <2>5, <2>6, PinApiStep DEF PinNext, PinStep
<1> QED
  BY <1>1, PinInitOk, PinInvStep, PTL DEF PinSpec, BrokerWasPinned

==============================================================================
