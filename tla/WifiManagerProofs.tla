-------------------------- MODULE WifiManagerProofs --------------------------
(***************************************************************************)
(* Proofs about WiFi: the next boot finds the credentials the user was     *)
(* told of, but for four lapses, and a configured device always has a way  *)
(* in.  Both hold for all credentials, any number of requests, resets,     *)
(* retries and events.                                                     *)
(***************************************************************************)
EXTENDS WifiManager, TLAPS

----------------------------------------------------------------------------
\* The two copies in the NVS

Value == Ssid \cup Password \cup {Empty, Absent}
Loaded == [ssid : Value, password : Value]
NvsCopy == [Key -> [now : Value, may : SUBSET Value]]

\* Nothing in it waits for a commit.
Settled(copy) == \A k \in Key : copy[k].may = {copy[k].now}

\* A copy is its two keys.
LEMMA CopyIs ==
    ASSUME NEW a \in NvsCopy, NEW b \in NvsCopy,
           a["ssid"] = b["ssid"], a["password"] = b["password"]
    PROVE  a = b
  BY DEF NvsCopy, Key

LEMMA CellTyped ==
    /\ \A v \in Value : Cell(v) \in [now : Value, may : SUBSET Value] /\ Cell(v).now = v
                        /\ Cell(v).may = {v}
    /\ \A c \in [now : Value, may : SUBSET Value], v \in Value :
           Written(c, v) \in [now : Value, may : SUBSET Value] /\ Written(c, v).now = v
  BY DEF Cell, Written

LEMMA CopyTyped ==
    ASSUME NEW c, c.ssid \in Value, c.password \in Value,
           c = [ssid |-> c.ssid, password |-> c.password]
    PROVE  /\ Copy(c) \in NvsCopy /\ Settled(Copy(c))
           /\ Copy(c)["ssid"] = Cell(c.ssid) /\ Copy(c)["password"] = Cell(c.password)
<1>1. Copy(c)["ssid"] = Cell(c.ssid) /\ Copy(c)["password"] = Cell(c.password)
  BY DEF Copy, Key
<1>2. \A k \in Key : c[k] \in Value /\ Copy(c)[k] = Cell(c[k])
  BY DEF Copy, Key
<1> QED
  BY <1>1, <1>2, CellTyped DEF Copy, NvsCopy, Settled

\* What is committed is settled.
LEMMA CommittedTyped ==
    ASSUME NEW copy \in NvsCopy
    PROVE  /\ Committed(copy) \in NvsCopy /\ Settled(Committed(copy))
           /\ \A k \in Key : Committed(copy)[k] = Cell(copy[k].now)
<1>1. \A k \in Key : copy[k].now \in Value /\ Committed(copy)[k] = Cell(copy[k].now)
  BY DEF Committed, NvsCopy
<1> QED
  BY <1>1, CellTyped DEF Committed, NvsCopy, Settled

\* A write of one key
LEMMA WrittenTyped ==
    ASSUME NEW copy \in NvsCopy, NEW k \in Key, NEW v \in Value
    PROVE  /\ [copy EXCEPT ![k] = Written(@, v)] \in NvsCopy
           /\ [copy EXCEPT ![k] = Written(@, v)][k].now = v
           /\ \A o \in Key \ {k} : [copy EXCEPT ![k] = Written(@, v)][o] = copy[o]
<1>1. Written(copy[k], v) \in [now : Value, may : SUBSET Value] /\ Written(copy[k], v).now = v
  BY CellTyped DEF NvsCopy
<1> QED
  BY <1>1 DEF NvsCopy

\* A reset leaves settled copies, and of a settled copy itself.
LEMMA SurvivorsSettled ==
    ASSUME NEW copy \in NvsCopy, NEW e \in Survivors(copy)
    PROVE  /\ e \in NvsCopy /\ Settled(e)
           /\ Settled(copy) => e = copy
<1>1. PICK c \in [ssid : copy["ssid"].may, password : copy["password"].may] : e = Copy(c)
  BY DEF Survivors
<1>2. /\ c.ssid \in copy["ssid"].may /\ c.password \in copy["password"].may
      /\ c = [ssid |-> c.ssid, password |-> c.password]
      /\ copy["ssid"].may \in SUBSET Value /\ copy["password"].may \in SUBSET Value
  BY <1>1 DEF NvsCopy, Key
<1>3. e \in NvsCopy /\ Settled(e) /\ e["ssid"] = Cell(c.ssid) /\ e["password"] = Cell(c.password)
  BY <1>1, <1>2, CopyTyped
<1>4. ASSUME Settled(copy) PROVE e = copy
  <2>1. \A k \in Key : copy[k] = Cell(copy[k].now)
    BY <1>4 DEF Settled, NvsCopy, Cell
  <2>2. c.ssid = copy["ssid"].now /\ c.password = copy["password"].now
    BY <1>2, <1>4 DEF Settled, Key
  <2> QED
    BY <1>3, <2>1, <2>2, CopyIs DEF Key
<1> QED
  BY <1>3, <1>4

----------------------------------------------------------------------------
\* The invariant about the credentials

CredTypeOK ==
    /\ enc \in NvsCopy /\ legacy \in NvsCopy
    /\ config \in Loaded
    /\ web \in [at : {"idle", "encSsid", "encPassword", "encCommit",
                      "legacySsid", "legacyPassword", "legacyCommit"}, encSaved : BOOLEAN]
    /\ forget \in [at : {"idle", "encErase", "encCommit", "legacyErase", "legacyCommit", "restart"},
                   clean : BOOLEAN]

\* Nothing is promised while a request is under way, or not without a lapse; a boot finds none.
NothingOwed ==
    /\ web.at # "idle" => owed = Unknown
    /\ forget.at # "idle" => owed = Unknown \/ lapses # {}
    /\ phase = "off" => web.at = "idle" /\ forget.at = "idle"

\* The two copies are as the handler has come to make them, unless a task that forgets runs.
CopiesAsAsked ==
    /\ web.at # "idle" => config \in Credentials
    /\ web.encSaved => web.at \in {"legacySsid", "legacyPassword", "legacyCommit"}
    /\ forget.at = "idle" =>
           /\ web.at \in {"encPassword", "encCommit"} => enc["ssid"].now = config.ssid
           /\ web.at = "encCommit" /\ config.password # Empty =>
                  enc["password"].now = config.password
           /\ web.encSaved =>
                  /\ enc["ssid"] = Cell(config.ssid)
                  /\ config.password # Empty => enc["password"] = Cell(config.password)
           /\ web.at \in {"legacyPassword", "legacyCommit"} => legacy["ssid"].now = config.ssid
           /\ web.at = "legacyCommit" => legacy["password"].now = config.password

\* Both copies are erased as far as the task that forgets has come, when it was alone and
\* nothing failed.
ErasedAsAsked ==
    forget.clean =>
        /\ web.at = "idle"
        /\ forget.at = "encCommit" => \A k \in Key : enc[k].now = Absent
        /\ forget.at \in {"legacyErase", "legacyCommit", "restart"} => enc = NoCopy
        /\ forget.at = "legacyCommit" => \A k \in Key : legacy[k].now = Absent
        /\ forget.at = "restart" => legacy = NoCopy

CredInv ==
    CredTypeOK /\ NothingOwed /\ CopiesAsAsked /\ ErasedAsAsked /\ OnlyLapsesLoseCredentials

----------------------------------------------------------------------------
\* The invariant about the link

LinkTypeOK ==
    /\ phase \in {"off", "waiting", "connected", "fallback", "stopping", "starting", "dialing",
                  "announcing", "up"}
    /\ radio \in {"stopped", "idle", "connecting", "up"}
    /\ inProgress \in BOOLEAN /\ fallback \in BOOLEAN /\ ap \in BOOLEAN
    /\ events \in Seq({"disconnected", "gotIp"})

\* Before a boot, and from esp_wifi_stop to esp_wifi_start, the driver does nothing.
OffIsQuiet ==
    /\ phase \in {"off", "starting"} => radio = "stopped"
    /\ phase = "off" => events = <<>>

\* An address that was lost again is reported lost after it.
LossIsReported == events # <<>> /\ events[Len(events)] = "gotIp" => radio = "up"

\* Only a configured device uses its station.
StationIsConfigured == phase \notin {"off", "up"} \/ radio # "stopped" => config # NoCredentials

\* Once an address was reported, or without a set-up access point, the event task dials
\* whenever the link is lost: it has the loss still to handle.
GoesOnDialling ==
    \/ phase = "waiting" /\ "CONNECTED" \in bits
    \/ phase = "connected"
    \/ phase \in {"dialing", "announcing", "up"} /\ ~ap
    => ~inProgress /\ (radio = "idle" => events # <<>>)

LinkInv == LinkTypeOK /\ OffIsQuiet /\ LossIsReported /\ StationIsConfigured /\ GoesOnDialling

WifiInv == CredInv /\ LinkInv

----------------------------------------------------------------------------
\* The link

LEMMA LinkInit == Init => LinkInv
<1> SUFFICES ASSUME Init PROVE LinkInv
  OBVIOUS
<1>1. /\ phase = "off" /\ radio = "stopped" /\ events = <<>>
      /\ inProgress \in BOOLEAN /\ fallback \in BOOLEAN /\ ap \in BOOLEAN
  BY DEF Init, LinkOff
<1>2. events \in Seq({"disconnected", "gotIp"})
  BY <1>1
<1> QED
  BY <1>1, <1>2
  DEF LinkInv, LinkTypeOK, OffIsQuiet, LossIsReported, StationIsConfigured, GoesOnDialling

\* One more event at the end of the queue
LEMMA Reported ==
    ASSUME NEW queue \in Seq({"disconnected", "gotIp"}), NEW e \in {"disconnected", "gotIp"}
    PROVE  /\ Append(queue, e) \in Seq({"disconnected", "gotIp"})
           /\ Append(queue, e) # <<>>
           /\ Append(queue, e)[Len(Append(queue, e))] = e
  OBVIOUS

\* One less at its head: the last one stays the last.
LEMMA Handled ==
    ASSUME NEW queue \in Seq({"disconnected", "gotIp"}), queue # <<>>
    PROVE  /\ Tail(queue) \in Seq({"disconnected", "gotIp"})
           /\ Tail(queue) # <<>> => Tail(queue)[Len(Tail(queue))] = queue[Len(queue)]
           /\ Tail(queue) = <<>> => Head(queue) = queue[Len(queue)]
  OBVIOUS

LEMMA BootTaskLink == LinkInv /\ BootTask => LinkInv'
<1> SUFFICES ASSUME LinkInv, BootTask PROVE LinkInv'
  OBVIOUS
<1> USE DEF LinkInv, LinkTypeOK, OffIsQuiet, LossIsReported, StationIsConfigured, GoesOnDialling
<1>1. CASE Boot
  BY <1>1 DEF Boot
<1>2. CASE WaitEnds
  BY <1>2 DEF WaitEnds, credVars
<1>3. CASE SayConnected
  BY <1>3 DEF SayConnected, credVars
<1>4. CASE StartFallback
  BY <1>4 DEF StartFallback, credVars
<1>5. CASE StopRadio
  <2>1. /\ phase' = "starting" /\ phase = "stopping" /\ radio' = "stopped" /\ ap' \in BOOLEAN
        /\ UNCHANGED <<inProgress, fallback, config>>
    BY <1>5 DEF StopRadio, credVars
  <2>2. CASE radio # "up" /\ UNCHANGED events
    BY <2>1, <2>2
  <2>3. CASE events' = Append(events, "disconnected")
    <3>1. /\ events' \in Seq({"disconnected", "gotIp"}) /\ events' # <<>>
          /\ events'[Len(events')] = "disconnected"
      BY <2>3, Reported
    <3> QED
      BY <2>1, <3>1
  <2> QED
    BY <1>5, <2>2, <2>3 DEF StopRadio
<1>6. CASE StartBoth
  <2>1. /\ phase' = "dialing" /\ phase = "starting" /\ radio' = "idle" /\ ap' = TRUE
        /\ UNCHANGED <<inProgress, fallback, config, events>>
    BY <1>6 DEF StartBoth, credVars
  <2>2. radio # "up" /\ ~(events # <<>> /\ events[Len(events)] = "gotIp")
    BY <2>1
  <2> QED
    BY <2>1, <2>2
<1>7. CASE DialAgain
  BY <1>7 DEF DialAgain, credVars
<1>8. CASE AnnounceAP
  BY <1>8 DEF AnnounceAP, credVars
<1> QED
  BY <1>1, <1>2, <1>3, <1>4, <1>5, <1>6, <1>7, <1>8 DEF BootTask

LEMMA EventTaskLink == LinkInv /\ EventTask => LinkInv'
<1> SUFFICES ASSUME LinkInv, EventTask PROVE LinkInv'
  OBVIOUS
<1> USE DEF LinkInv, LinkTypeOK, OffIsQuiet, LossIsReported, StationIsConfigured, GoesOnDialling
<1>0. /\ events # <<>> /\ events' = Tail(events) /\ phase' = phase /\ config' = config
      /\ phase # "off"
  BY DEF EventTask, HandleDisconnected, HandleGotIp, credVars
<1>1. /\ events' \in Seq({"disconnected", "gotIp"})
      /\ events' # <<>> => events'[Len(events')] = events[Len(events)]
      /\ events' = <<>> => Head(events) = events[Len(events)]
  BY <1>0, Handled
<1>2. CASE HandleDisconnected
  <2>1. UNCHANGED <<inProgress, fallback, ap>>
    BY <1>2 DEF HandleDisconnected
  <2>2. radio' \in {radio, Dialled} /\ bits' \in {bits, bits \cup {"FAIL"}}
        /\ (~inProgress => bits' = bits /\ (config # NoCredentials => radio' = Dialled))
    BY <1>2 DEF HandleDisconnected, WhenDisconnected
  <2>3. radio' = radio \/ (radio = "idle" /\ radio' = "connecting")
    BY <2>2 DEF Dialled
  <2>4. ~inProgress /\ radio # "stopped" => radio' # "idle"
    BY <2>2 DEF Dialled
  <2>5. "CONNECTED" \in bits' <=> "CONNECTED" \in bits
    BY <2>2
  <2>6. LinkTypeOK' /\ OffIsQuiet' /\ StationIsConfigured'
    BY <1>0, <1>1, <2>1, <2>3
  <2>7. LossIsReported'
    BY <1>0, <1>1, <2>3
  <2>8. GoesOnDialling'
    BY <1>0, <2>1, <2>3, <2>4, <2>5
  <2> QED
    BY <2>6, <2>7, <2>8
<1>3. CASE HandleGotIp
  <2>1. /\ Head(events) = "gotIp" /\ radio' = radio /\ inProgress' = FALSE
        /\ fallback' = FALSE /\ ap' \in BOOLEAN /\ (ap' => ap)
    BY <1>3 DEF HandleGotIp
  <2>2. radio = "idle" => events' # <<>>
    BY <1>0, <1>1, <2>1
  <2> QED
    BY <1>0, <1>1, <2>1, <2>2
<1> QED
  BY <1>2, <1>3 DEF EventTask

LEMMA DriverLink == LinkInv /\ (AttemptEnds \/ LinkLost) => LinkInv'
<1> SUFFICES ASSUME LinkInv,
                    NEW from \in {"connecting", "up"}, NEW to \in {"idle", "up"},
                    NEW event \in {"disconnected", "gotIp"},
                    event = "gotIp" => to = "up",
                    Report(from, to, event)
             PROVE  LinkInv'
  BY DEF AttemptEnds, LinkLost
<1>1. /\ events' = Append(events, event) /\ radio = from /\ radio' = to
      /\ UNCHANGED <<phase, inProgress, fallback, bits, ap, config>>
  BY DEF Report, credVars
<1>2. events' \in Seq({"disconnected", "gotIp"}) /\ events' # <<>> /\ events'[Len(events')] = event
  BY <1>1, Reported DEF LinkInv, LinkTypeOK
<1> QED
  BY <1>1, <1>2
  DEF LinkInv, LinkTypeOK, OffIsQuiet, LossIsReported, StationIsConfigured, GoesOnDialling

LEMMA RequestLink == LinkInv /\ (Web \/ Reset \/ Restart) => LinkInv'
<1> SUFFICES ASSUME LinkInv, Web \/ Reset \/ Restart PROVE LinkInv'
  OBVIOUS
<1> USE DEF LinkInv, LinkTypeOK, OffIsQuiet, LossIsReported, StationIsConfigured, GoesOnDialling
<1>1. CASE Web
  <2>1. config' = config \/ config' \in Choice
    BY <1>1 DEF Web, Request, WebStep, ForgetStep, StoreCredentials, ForgetCredentials, WebGoesTo,
                EncryptedSaveFails, StoreEncryptedSsid, StoreEncryptedPassword, CommitEncrypted,
                StoreLegacySsid, StoreLegacyPassword, CommitLegacy, LegacySaveFails, WebIsDone,
                EraseEncrypted, CommitEncryptedErase, EraseLegacy, CommitLegacyErase, ForgetGoesTo
  <2>2. config' = config \/ config' # NoCredentials
    BY <2>1, CredentialsAssumption DEF Credentials, NoCredentials
  <2>3. UNCHANGED linkVars
    BY <1>1 DEF Web
  <2> QED
    BY <2>2, <2>3 DEF linkVars
<1>2. CASE Reset \/ Restart
  <2>1. /\ phase' = "off" /\ radio' = "stopped" /\ events' = <<>>
        /\ inProgress' \in BOOLEAN /\ fallback' \in BOOLEAN /\ ap' \in BOOLEAN
    BY <1>2 DEF Reset, Restart, PowerOff
  <2>2. events' \in Seq({"disconnected", "gotIp"})
    BY <2>1
  <2> QED
    BY <2>1, <2>2
<1> QED
  BY <1>1, <1>2

LEMMA LinkInvNext == LinkInv /\ [Next]_vars => LinkInv'
<1>1. LinkInv /\ UNCHANGED vars => LinkInv'
  BY DEF vars, linkVars, credVars,
         LinkInv, LinkTypeOK, OffIsQuiet, LossIsReported, StationIsConfigured, GoesOnDialling
<1> QED
  BY <1>1, BootTaskLink, EventTaskLink, DriverLink, RequestLink DEF Next

LEMMA InvNeverCutOff == LinkInv => NeverCutOff
  BY DEF LinkInv, LinkTypeOK, GoesOnDialling, NeverCutOff

(* Whatever the order of time-out, late address, lost link and failed dial, a configured device
   whose station is idle with nothing left to handle has its set-up access point on the air:
   for every number of retries and of events under way. *)
THEOREM AlwaysAWayIn == Spec => []NeverCutOff
  BY LinkInit, LinkInvNext, InvNeverCutOff, PTL DEF Spec

----------------------------------------------------------------------------
\* The credentials

LEMMA Values ==
    /\ Absent \in Value /\ Empty \in Value
    /\ Credentials \cup {NoCredentials} \subseteq Loaded
    /\ \A c \in Credentials \cup {NoCredentials} : c.ssid # Absent /\ c.password # Absent
    /\ Choice \subseteq Credentials
<1>1. /\ Absent \in Value /\ Empty \in Value /\ Ssid \subseteq Value /\ Password \subseteq Value
      /\ Choice \subseteq Credentials
  BY CredentialsAssumption DEF Value
<1>2. Credentials \cup {NoCredentials} \subseteq Loaded
  BY <1>1 DEF Credentials, NoCredentials, Loaded
<1>3. \A c \in Credentials \cup {NoCredentials} : c.ssid # Absent /\ c.password # Absent
  BY CredentialsAssumption DEF Credentials, NoCredentials
<1> QED
  BY <1>1, <1>2, <1>3

\* What a boot takes is made of what the copies hold.
LEMMA LoadedTyped ==
    ASSUME NEW e \in NvsCopy, NEW l \in NvsCopy PROVE LoadConfig(e, l) \in Loaded
<1>1. \A k \in Key : e[k].now \in Value /\ l[k].now \in Value
  BY DEF NvsCopy
<1> QED
  BY <1>1, Values
  DEF Key, LoadConfig, LoadEncrypted, LoadLegacy, NoCredentials, Loaded, Value

LEMMA NoCopyTyped ==
    /\ NoCopy \in NvsCopy /\ Settled(NoCopy)
    /\ NoCopy["ssid"] = Cell(Absent) /\ NoCopy["password"] = Cell(Absent)
<1>1. /\ Unknown.ssid = Absent /\ Unknown.password = Absent
      /\ Unknown = [ssid |-> Unknown.ssid, password |-> Unknown.password]
  BY DEF Unknown
<1> QED
  BY <1>1, Values, CopyTyped DEF NoCopy

\* A boot that finds an encrypted copy takes that.
LEMMA EncryptedWins ==
    ASSUME NEW e, NEW l, HasEncrypted(e) PROVE BootTakes(e, l) = LoadEncrypted(e)
  BY DEF BootTakes, MigrationDue, LoadConfig

\* The migrated copy is settled, and read back as what the boot takes.
LEMMA MigratedTyped ==
    ASSUME NEW e \in NvsCopy, NEW l \in NvsCopy, MigrationDue(e, l)
    PROVE  /\ Migrated(e, l) \in NvsCopy /\ Settled(Migrated(e, l)) /\ HasEncrypted(Migrated(e, l))
           /\ BootTakes(e, l) = LoadEncrypted(Migrated(e, l))
<1> DEFINE pw == l["password"].now
           last == IF pw \in {Absent, Empty} THEN e["password"] ELSE Cell(pw)
           f == [ssid |-> Cell(l["ssid"].now), password |-> last]
<1>1. l["ssid"].now \in Value /\ pw \in Value /\ l["ssid"].now # Absent
  BY DEF NvsCopy, Key, MigrationDue
<1>2. last \in [now : Value, may : SUBSET Value]
  BY <1>1, CellTyped DEF NvsCopy, Key
<1>3. f \in NvsCopy /\ f["ssid"].now = l["ssid"].now
  <2>1. Cell(l["ssid"].now) \in [now : Value, may : SUBSET Value] /\ Cell(l["ssid"].now).now = l["ssid"].now
    BY <1>1, CellTyped
  <2> HIDE DEF last
  <2>2. DOMAIN f = Key /\ f = [k \in Key |-> IF k = "ssid" THEN Cell(l["ssid"].now) ELSE last]
    BY DEF Key
  <2> QED
    BY <1>2, <2>1, <2>2 DEF NvsCopy, Key
<1>4. Migrated(e, l) = Committed(f)
  BY DEF Migrated
<1> HIDE DEF f
<1>5. /\ Migrated(e, l) \in NvsCopy /\ Settled(Migrated(e, l))
      /\ Migrated(e, l)["ssid"] = Cell(l["ssid"].now)
  BY <1>3, <1>4, CommittedTyped DEF Key
<1>6. HasEncrypted(Migrated(e, l))
  BY <1>1, <1>5, CellTyped DEF HasEncrypted
<1>7. BootTakes(e, l) = LoadEncrypted(Migrated(e, l))
  BY <1>6 DEF BootTakes, LoadConfig
<1> QED
  BY <1>5, <1>6, <1>7

\* It has the name of the plain copy, and its password unless an empty one met an older one.
LEMMA MigratedHolds ==
    ASSUME NEW e \in NvsCopy, NEW l \in NvsCopy,
           e["password"].now = Absent \/ l["password"].now # Empty,
           l["ssid"].now # Absent, l["password"].now # Absent
    PROVE  LoadEncrypted(Migrated(e, l)) = [ssid |-> l["ssid"].now, password |-> l["password"].now]
<1>1. l["ssid"].now \in Value /\ l["password"].now \in Value
  BY DEF NvsCopy, Key
<1> DEFINE pw == l["password"].now
<1>2. /\ Migrated(e, l)["ssid"] = Cell(l["ssid"].now)
      /\ Migrated(e, l)["password"] =
            Cell((IF pw \in {Absent, Empty} THEN e["password"] ELSE Cell(pw)).now)
  BY <1>1, CellTyped DEF Migrated, Committed, Key
<1>3. CASE pw = Empty
  BY <1>1, <1>2, <1>3, Values, CellTyped DEF LoadEncrypted
<1>4. CASE pw # Empty
  BY <1>1, <1>2, <1>4, CellTyped DEF LoadEncrypted
<1> QED
  BY <1>3, <1>4

\* A migration that is cut short leaves the encrypted copy as it was, or with a name.
LEMMA CutShortTyped ==
    ASSUME NEW e \in NvsCopy, NEW l \in NvsCopy, MigrationDue(e, l), NEW m \in MigrationCutShort(e, l)
    PROVE  m \in NvsCopy /\ (m = e \/ HasEncrypted(m))
<1> DEFINE named == [e EXCEPT !["ssid"] = Written(@, l["ssid"].now)]
           pw == l["password"].now
           full == [named EXCEPT !["password"] = Written(@, pw)]
<1>1. l["ssid"].now \in Value /\ pw \in Value /\ l["ssid"].now # Absent
  BY DEF NvsCopy, Key, MigrationDue
<1>2. named \in NvsCopy /\ named["ssid"].now = l["ssid"].now
  BY <1>1, WrittenTyped DEF Key
<1>3. full \in NvsCopy /\ full["ssid"] = named["ssid"]
  <2> HIDE DEF named
  <2> QED
    BY <1>1, <1>2, WrittenTyped DEF Key
<1>4. m \in {e, named, full}
  BY DEF MigrationCutShort
<1> HIDE DEF named, full
<1> QED
  BY <1>1, <1>2, <1>3, <1>4 DEF HasEncrypted

\* The copies a boot leaves are well formed,
LEMMA AfterMigrationTyped ==
    ASSUME NEW e \in NvsCopy, NEW l \in NvsCopy, NEW m \in AfterMigration(e, l)
    PROVE  /\ m \in NvsCopy
           /\ m = e \/ (MigrationDue(e, l) /\ HasEncrypted(m))
<1>1. CASE MigrationDue(e, l)
  BY <1>1, MigratedTyped, CutShortTyped DEF AfterMigration
<1>2. CASE ~MigrationDue(e, l)
  BY <1>2 DEF AfterMigration
<1> QED
  BY <1>1, <1>2

LEMMA BackedUpTyped ==
    ASSUME NEW l \in NvsCopy, NEW c \in Loaded, NEW b \in BackedUp(l, c)
    PROVE  b \in NvsCopy
<1> DEFINE named == [l EXCEPT !["ssid"] = Written(@, c.ssid)]
           full == [named EXCEPT !["password"] = Written(@, c.password)]
<1>1. c.ssid \in Value /\ c.password \in Value /\ c = [ssid |-> c.ssid, password |-> c.password]
  BY DEF Loaded
<1>2. named \in NvsCopy
  BY <1>1, WrittenTyped DEF Key
<1>3. full \in NvsCopy
  <2> HIDE DEF named
  <2> QED
    BY <1>1, <1>2, WrittenTyped DEF Key
<1>4. Copy(c) \in NvsCopy
  BY <1>1, CopyTyped
<1>5. b \in {l, named, full, Copy(c)}
  BY DEF BackedUp
<1> QED
  BY <1>2, <1>3, <1>4, <1>5

\* and the next boot still takes what it is held to, unless a migration was cut short.
LEMMA BootKeeps ==
    ASSUME CredTypeOK, OnlyLapsesLoseCredentials, LoadAtBoot
    PROVE  /\ enc' \in NvsCopy /\ legacy' \in NvsCopy
           /\ config' \in Loaded
           /\ OnlyLapsesLoseCredentials'
<1>1. PICK e0 \in Survivors(enc), l0 \in Survivors(legacy) : \E e1 \in AfterMigration(e0, l0) :
         /\ config' = LoadConfig(e1, l0)
         /\ \/ HasEncrypted(e1) /\ enc' = e1 /\ legacy' \in BackedUp(l0, config')
            \/ ~HasEncrypted(e1) /\ HasLegacy(l0) /\ enc' \in AfterMigration(e1, l0) /\ legacy' = l0
            \/ ~HasEncrypted(e1) /\ ~HasLegacy(l0) /\ enc' = e1 /\ legacy' = l0
         /\ lapses' = IF HasEncrypted(enc') /\ ~HasEncrypted(e0) /\ enc' # Migrated(e0, l0)
                      THEN lapses \cup {"half migrated"} ELSE lapses
         /\ owed' = owed
  BY DEF LoadAtBoot
<1>2. PICK e1 \in AfterMigration(e0, l0) :
         /\ config' = LoadConfig(e1, l0)
         /\ \/ HasEncrypted(e1) /\ enc' = e1 /\ legacy' \in BackedUp(l0, config')
            \/ ~HasEncrypted(e1) /\ HasLegacy(l0) /\ enc' \in AfterMigration(e1, l0) /\ legacy' = l0
            \/ ~HasEncrypted(e1) /\ ~HasLegacy(l0) /\ enc' = e1 /\ legacy' = l0
         /\ lapses' = IF HasEncrypted(enc') /\ ~HasEncrypted(e0) /\ enc' # Migrated(e0, l0)
                      THEN lapses \cup {"half migrated"} ELSE lapses
         /\ owed' = owed
  BY <1>1
<1>3. e0 \in NvsCopy /\ Settled(e0) /\ l0 \in NvsCopy /\ Settled(l0)
  BY SurvivorsSettled DEF CredTypeOK
<1>4. e1 \in NvsCopy /\ (e1 = e0 \/ (MigrationDue(e0, l0) /\ HasEncrypted(e1)))
  BY <1>3, AfterMigrationTyped
<1>5. config' \in Loaded
  BY <1>2, <1>3, <1>4, LoadedTyped
<1>6. enc' \in NvsCopy /\ legacy' \in NvsCopy
  BY <1>2, <1>3, <1>4, <1>5, AfterMigrationTyped, BackedUpTyped
<1>7. ASSUME owed' # Unknown, lapses' = {},
             NEW e \in Survivors(enc'), NEW l \in Survivors(legacy')
      PROVE  BootTakes(e, l) = owed'
  <2>1. owed' = owed /\ BootTakes(e0, l0) = owed
    <3>1. owed' = owed /\ lapses = {}
      BY <1>2, <1>7
    <3> QED
      BY <1>1, <1>7, <3>1 DEF OnlyLapsesLoseCredentials, NextBootFindsThem
  <2>2. CASE HasEncrypted(e0)
    <3>1. e1 = e0 /\ enc' = e0
      BY <1>2, <1>4, <2>2 DEF MigrationDue
    <3>2. e = e0
      BY <1>3, <3>1, SurvivorsSettled
    <3> QED
      BY <2>1, <2>2, <3>2, EncryptedWins
  <2>3. CASE ~HasEncrypted(e0) /\ HasEncrypted(enc')
    <3>1. MigrationDue(e0, l0)
      <4>1. CASE HasEncrypted(e1)
        BY <1>4, <2>3, <4>1
      <4>2. CASE ~HasEncrypted(e1)
        <5>1. e1 = e0 /\ enc' \in AfterMigration(e0, l0)
          BY <1>2, <1>4, <2>3, <4>2
        <5> QED
          BY <1>3, <2>3, <5>1, AfterMigrationTyped
      <4> QED
        BY <4>1, <4>2
    <3>2. enc' = Migrated(e0, l0)
      BY <1>2, <1>7, <2>3
    <3>3. e = Migrated(e0, l0)
      BY <1>3, <1>6, <3>1, <3>2, MigratedTyped, SurvivorsSettled
    <3> QED
      BY <1>3, <2>1, <2>3, <3>1, <3>2, <3>3, MigratedTyped, EncryptedWins
  <2>4. CASE ~HasEncrypted(e0) /\ ~HasEncrypted(enc')
    <3>1. ~HasEncrypted(e1) /\ e1 = e0 /\ legacy' = l0
      BY <1>2, <1>4, <2>4
    <3>2. enc' = e0
      BY <1>2, <1>3, <2>4, <3>1, AfterMigrationTyped
    <3>3. e = e0 /\ l = l0
      BY <1>3, <3>1, <3>2, SurvivorsSettled
    <3> QED
      BY <2>1, <3>3
  <2> QED
    BY <2>2, <2>3, <2>4
<1> QED
  BY <1>5, <1>6, <1>7 DEF OnlyLapsesLoseCredentials, NextBootFindsThem

LEMMA CredInitOk == Init => CredInv
<1> SUFFICES ASSUME Init PROVE CredInv
  OBVIOUS
<1>1. PICK c \in Choice \cup {Unknown} :
         legacy = Copy(c) /\ owed = IF c = Unknown THEN NoCredentials ELSE c
  BY DEF Init, CredInit
<1>2. /\ enc = NoCopy /\ config = NoCredentials
      /\ web = [at |-> "idle", encSaved |-> FALSE] /\ forget = [at |-> "idle", clean |-> FALSE]
  BY DEF Init, CredInit
<1>3. legacy \in NvsCopy /\ Settled(legacy)
  BY <1>1, Values, CopyTyped, NoCopyTyped DEF NoCopy, Loaded
<1>4. CredTypeOK
  BY <1>2, <1>3, Values, NoCopyTyped DEF CredTypeOK
<1>5. BootTakes(enc, legacy) = owed
  <2>1. ~HasEncrypted(enc)
    BY <1>2, NoCopyTyped, Values, CellTyped DEF HasEncrypted
  <2>2. CASE c = Unknown
    <3>1. legacy["ssid"].now = Absent
      BY <1>1, <2>2, NoCopyTyped, Values, CellTyped DEF NoCopy
    <3> QED
      BY <1>1, <2>1, <2>2, <3>1 DEF BootTakes, MigrationDue, LoadConfig, HasLegacy
  <2>3. CASE c # Unknown
    <3>1. c \in Credentials /\ c \in Loaded /\ c.ssid # Absent /\ c.password # Absent
      BY <2>3, Values
    <3>2. legacy["ssid"].now = c.ssid /\ legacy["password"].now = c.password
      BY <1>1, <3>1, CopyTyped, CellTyped DEF Loaded
    <3>3. MigrationDue(enc, legacy)
      BY <2>1, <3>1, <3>2 DEF MigrationDue
    <3>4. BootTakes(enc, legacy) = LoadEncrypted(Migrated(enc, legacy))
      BY <1>2, <1>3, <3>3, NoCopyTyped, MigratedTyped
    <3>5. LoadEncrypted(Migrated(enc, legacy)) = [ssid |-> c.ssid, password |-> c.password]
      <4>1. enc \in NvsCopy /\ enc["password"].now = Absent
        BY <1>2, NoCopyTyped, Values, CellTyped
      <4> QED
        BY <1>3, <3>1, <3>2, <4>1, MigratedHolds
    <3> QED
      BY <1>1, <2>3, <3>1, <3>4, <3>5 DEF Loaded
  <2> QED
    BY <2>2, <2>3
<1>6. OnlyLapsesLoseCredentials
  BY <1>2, <1>3, <1>5, NoCopyTyped, SurvivorsSettled
  DEF OnlyLapsesLoseCredentials, NextBootFindsThem
<1> QED
  BY <1>2, <1>4, <1>6 DEF CredInv, NothingOwed, CopiesAsAsked, ErasedAsAsked

\* The boot
LEMMA BootCred == CredInv /\ Boot => CredInv'
<1> SUFFICES ASSUME CredInv, Boot PROVE CredInv'
  OBVIOUS
<1>1. /\ enc' \in NvsCopy /\ legacy' \in NvsCopy /\ config' \in Loaded
      /\ OnlyLapsesLoseCredentials'
  BY BootKeeps DEF CredInv, Boot
<1>2. web' = web /\ forget' = forget /\ web.at = "idle" /\ forget.at = "idle"
  BY DEF CredInv, NothingOwed, Boot, LoadAtBoot
<1>3. ~web.encSaved
  BY <1>2 DEF CredInv, CopiesAsAsked
<1> QED
  BY <1>1, <1>2, <1>3 DEF CredInv, CredTypeOK, NothingOwed, CopiesAsAsked, ErasedAsAsked

\* A reset, and the restart of the task that forgets
LEMMA ResetCred == CredInv /\ (Reset \/ Restart) => CredInv'
<1> SUFFICES ASSUME CredInv, Reset \/ Restart PROVE CredInv'
  OBVIOUS
<1>1. /\ config' = NoCredentials /\ web' = [at |-> "idle", encSaved |-> FALSE]
      /\ forget' = [at |-> "idle", clean |-> FALSE] /\ enc' = enc /\ legacy' = legacy
  BY DEF Reset, Restart, ResetCredentials, RestartForgotten, LoseRAM, nvsVars
<1>2. OnlyLapsesLoseCredentials'
  <2> USE DEF OnlyLapsesLoseCredentials, NextBootFindsThem
  <2>1. CASE owed' = owed /\ lapses' = lapses
    BY <1>1, <2>1 DEF CredInv
  <2>2. CASE owed' = Unknown \/ lapses' = {"forgetting"}
    BY <2>2
  <2>3. CASE owed' = NoCredentials /\ enc = NoCopy /\ legacy = NoCopy
    <3>1. BootTakes(NoCopy, NoCopy) = NoCredentials
      BY NoCopyTyped, Values, CellTyped
      DEF BootTakes, MigrationDue, HasEncrypted, LoadConfig, HasLegacy
    <3> QED
      BY <1>1, <2>3, <3>1, NoCopyTyped, SurvivorsSettled
  <2>4. \/ owed' = owed /\ lapses' = lapses
        \/ owed' = Unknown \/ lapses' = {"forgetting"}
        \/ owed' = NoCredentials /\ enc = NoCopy /\ legacy = NoCopy
    BY DEF Reset, Restart, ResetCredentials, RestartForgotten, Told, CredInv, ErasedAsAsked
  <2> QED
    BY <2>1, <2>2, <2>3, <2>4
<1> QED
  BY <1>1, <1>2, Values DEF CredInv, CredTypeOK, NothingOwed, CopiesAsAsked, ErasedAsAsked

\* A request, to store credentials or to forget them
LEMMA RequestCred == CredInv /\ phase = "up" /\ phase' = "up" /\ Request => CredInv'
<1> SUFFICES ASSUME CredInv, phase = "up", phase' = "up", Request PROVE CredInv'
  OBVIOUS
<1> USE DEF CredInv, CredTypeOK, NothingOwed, CopiesAsAsked, ErasedAsAsked,
            OnlyLapsesLoseCredentials
<1>1. ASSUME NEW c \in Choice, StoreCredentials(c) PROVE CredInv'
  <2>1. /\ config' = c /\ web' = [at |-> "encSsid", encSaved |-> FALSE] /\ owed' = Unknown
        /\ forget' = [forget EXCEPT !.clean = FALSE] /\ enc' = enc /\ legacy' = legacy
    BY <1>1 DEF StoreCredentials, Told, nvsVars
  <2>2. c \in Credentials /\ c \in Loaded
    BY Values
  <2>3. forget'.at = forget.at /\ forget'.clean = FALSE
    BY <2>1
  <2> QED
    BY <2>1, <2>2, <2>3
<1>2. CASE ForgetCredentials
  <2>1. /\ web.at = "idle" /\ web' = web /\ config' = config /\ enc' = enc /\ legacy' = legacy
        /\ forget' = [at |-> "encErase", clean |-> TRUE] /\ owed' = Unknown
    BY <1>2 DEF ForgetCredentials, Told, nvsVars
  <2> QED
    BY <2>1
<1> QED
  BY <1>1, <1>2 DEF Request

\* The encrypted save of POST, call by call
LEMMA EncryptedSaveCred ==
    CredInv /\ phase' = phase /\ phase = "up"
    /\ (EncryptedSaveFails \/ StoreEncryptedSsid \/ StoreEncryptedPassword \/ CommitEncrypted)
    => CredInv'
<1> SUFFICES ASSUME CredInv, phase = "up", phase' = "up",
                    EncryptedSaveFails \/ StoreEncryptedSsid \/ StoreEncryptedPassword \/ CommitEncrypted
             PROVE  CredInv'
  OBVIOUS
<1>1. /\ config' = config /\ forget' = forget /\ owed' = owed /\ lapses' = lapses /\ legacy' = legacy
      /\ web.at \in {"encSsid", "encPassword", "encCommit"} /\ owed = Unknown /\ ~forget.clean
      /\ ~web.encSaved
  BY DEF EncryptedSaveFails, StoreEncryptedSsid, StoreEncryptedPassword, CommitEncrypted,
         WebGoesTo, nvsVars, CredInv, NothingOwed, ErasedAsAsked, CopiesAsAsked
<1>2. config \in Credentials /\ config.ssid \in Value /\ config.password \in Value
  BY <1>1 DEF CredInv, CredTypeOK, CopiesAsAsked, Loaded
<1>3. enc \in NvsCopy
  BY DEF CredInv, CredTypeOK
<1>4. CASE EncryptedSaveFails
  <2>1. enc' = enc /\ web' = [at |-> "legacySsid", encSaved |-> FALSE]
    BY <1>4 DEF EncryptedSaveFails, WebGoesTo, nvsVars
  <2> QED
    BY <1>1, <1>2, <2>1
    DEF CredInv, CredTypeOK, NothingOwed, CopiesAsAsked, ErasedAsAsked, OnlyLapsesLoseCredentials
<1>5. CASE StoreEncryptedSsid
  <2>1. /\ enc' = [enc EXCEPT !["ssid"] = Written(@, config.ssid)]
        /\ web' = [at |-> IF config.password = Empty THEN "encCommit" ELSE "encPassword",
                   encSaved |-> FALSE]
    BY <1>5 DEF StoreEncryptedSsid, WebGoesTo
  <2>2. enc' \in NvsCopy /\ enc'["ssid"].now = config.ssid
    BY <1>2, <1>3, <2>1, WrittenTyped DEF Key
  <2> QED
    BY <1>1, <1>2, <2>1, <2>2
    DEF CredInv, CredTypeOK, NothingOwed, CopiesAsAsked, ErasedAsAsked, OnlyLapsesLoseCredentials
<1>6. CASE StoreEncryptedPassword
  <2>1. /\ enc' = [enc EXCEPT !["password"] = Written(@, config.password)]
        /\ web' = [at |-> "encCommit", encSaved |-> FALSE] /\ web.at = "encPassword"
    BY <1>6 DEF StoreEncryptedPassword, WebGoesTo
  <2>2. enc' \in NvsCopy /\ enc'["password"].now = config.password /\ enc'["ssid"] = enc["ssid"]
    <3>1. "password" \in Key /\ "ssid" \in Key \ {"password"}
      BY DEF Key
    <3>2. enc' \in NvsCopy /\ enc'["password"].now = config.password
      <4>1. /\ Written(enc["password"], config.password) \in [now : Value, may : SUBSET Value]
            /\ Written(enc["password"], config.password).now = config.password
        BY <1>2, <1>3, <3>1, CellTyped DEF NvsCopy
      <4> QED
        BY <1>3, <2>1, <3>1, <4>1 DEF NvsCopy
    <3>3. enc'["ssid"] = enc["ssid"]
      BY <1>3, <2>1, <3>1 DEF NvsCopy
    <3> QED
      BY <3>2, <3>3
  <2> QED
    BY <1>1, <1>2, <2>1, <2>2
    DEF CredInv, CredTypeOK, NothingOwed, CopiesAsAsked, ErasedAsAsked, OnlyLapsesLoseCredentials
<1>7. CASE CommitEncrypted
  <2>1. /\ enc' = Committed(enc) /\ web' = [at |-> "legacySsid", encSaved |-> TRUE]
        /\ web.at = "encCommit"
    BY <1>7 DEF CommitEncrypted, WebGoesTo
  <2>2. /\ enc' \in NvsCopy
        /\ enc'["ssid"] = Cell(enc["ssid"].now) /\ enc'["password"] = Cell(enc["password"].now)
    BY <1>3, <2>1, CommittedTyped DEF Key
  <2> QED
    BY <1>1, <1>2, <2>1, <2>2
    DEF CredInv, CredTypeOK, NothingOwed, CopiesAsAsked, ErasedAsAsked, OnlyLapsesLoseCredentials
<1> QED
  BY <1>4, <1>5, <1>6, <1>7

\* What the handler has encrypted and committed is what a boot takes.
LEMMA EncryptedIsTaken ==
    ASSUME NEW e \in NvsCopy, NEW c \in Credentials,
           e["ssid"] = Cell(c.ssid),
           c.password # Empty => e["password"] = Cell(c.password),
           c.password # Empty \/ e["password"] = Cell(Absent)
    PROVE  \A s \in Survivors(e) : \A l : BootTakes(s, l) = c
<1>1. /\ c.ssid \in Value /\ c.password \in Value /\ c.ssid # Absent /\ c.password # Absent
      /\ c = [ssid |-> c.ssid, password |-> c.password]
  BY Values DEF Loaded
<1>2. Settled(e)
  BY <1>1, Values, CellTyped DEF Settled, Key
<1>3. HasEncrypted(e) /\ LoadEncrypted(e) = c
  BY <1>1, Values, CellTyped DEF HasEncrypted, LoadEncrypted
<1> QED
  BY <1>2, <1>3, SurvivorsSettled, EncryptedWins

\* Where no encrypted copy is or was under way, what is committed in the plain one is what a
\* boot migrates and takes.
LEMMA PlainIsTaken ==
    ASSUME NEW e \in NvsCopy, NEW p \in NvsCopy, NEW c \in Credentials,
           e["ssid"] = Cell(Absent),
           c.password # Empty \/ e["password"] = Cell(Absent),
           p["ssid"] = Cell(c.ssid), p["password"] = Cell(c.password)
    PROVE  \A s \in Survivors(e) : \A l \in Survivors(p) : BootTakes(s, l) = c
<1>1. /\ c.ssid \in Value /\ c.password \in Value /\ c.ssid # Absent /\ c.password # Absent
      /\ c = [ssid |-> c.ssid, password |-> c.password]
  BY Values DEF Loaded
<1>2. SUFFICES ASSUME NEW s \in Survivors(e), NEW l \in Survivors(p) PROVE BootTakes(s, l) = c
  OBVIOUS
<1>3. Settled(p) /\ p["ssid"].now = c.ssid /\ p["password"].now = c.password
  BY <1>1, CellTyped DEF Settled, Key
<1>4. l = p
  BY <1>3, SurvivorsSettled
<1>5. s \in NvsCopy /\ Settled(s)
  BY SurvivorsSettled
<1>6. PICK v \in [ssid : e["ssid"].may, password : e["password"].may] : s = Copy(v)
  BY DEF Survivors
<1>7. /\ v.ssid = Absent /\ v.ssid \in Value /\ v.password \in Value
      /\ e["password"] = Cell(Absent) => v.password = Absent
      /\ v = [ssid |-> v.ssid, password |-> v.password]
  <2>1. v.ssid \in e["ssid"].may /\ v.password \in e["password"].may
    OBVIOUS
  <2>2. e["ssid"].may = {Absent} /\ (e["password"] = Cell(Absent) => e["password"].may = {Absent})
    BY DEF Cell
  <2>3. e["password"].may \subseteq Value
    BY DEF NvsCopy, Key
  <2> QED
    BY <2>1, <2>2, <2>3, Values
<1>8. /\ s["ssid"].now = Absent
      /\ c.password # Empty \/ s["password"].now = Absent
  BY <1>6, <1>7, CopyTyped, CellTyped
<1>9. MigrationDue(s, l) /\ ~HasEncrypted(s)
  BY <1>1, <1>3, <1>4, <1>8 DEF MigrationDue, HasEncrypted
<1>10. BootTakes(s, l) = LoadEncrypted(Migrated(s, l))
  BY <1>3, <1>4, <1>5, <1>9, MigratedTyped
<1>11. LoadEncrypted(Migrated(s, l)) = [ssid |-> c.ssid, password |-> c.password]
  BY <1>1, <1>3, <1>4, <1>5, <1>8, MigratedHolds
<1> QED
  BY <1>1, <1>10, <1>11

\* An answer without a lapse
LEMMA LapseFree ==
    AnsweredLapses = {} <=>
        /\ forget.at = "idle"
        /\ web.encSaved \/ enc["ssid"] = Cell(Absent)
        /\ config.password # Empty \/ enc["password"] = Cell(Absent)
  BY DEF AnsweredLapses

\* The plain copy, call by call, and the answer
LEMMA LegacySaveCred ==
    CredInv /\ phase' = phase /\ phase = "up"
    /\ (LegacySaveFails \/ StoreLegacySsid \/ StoreLegacyPassword \/ CommitLegacy)
    => CredInv'
<1> SUFFICES ASSUME CredInv, phase = "up", phase' = "up",
                    LegacySaveFails \/ StoreLegacySsid \/ StoreLegacyPassword \/ CommitLegacy
             PROVE  CredInv'
  OBVIOUS
<1>1. /\ config' = config /\ forget' = forget /\ enc' = enc
      /\ web.at \in {"legacySsid", "legacyPassword", "legacyCommit"} /\ owed = Unknown
      /\ ~forget.clean
  BY DEF LegacySaveFails, StoreLegacySsid, StoreLegacyPassword, CommitLegacy, WebIsDone,
         WebGoesTo, CredInv, NothingOwed, ErasedAsAsked
<1>2. config \in Credentials /\ config.ssid \in Value /\ config.password \in Value
  BY <1>1 DEF CredInv, CredTypeOK, CopiesAsAsked, Loaded
<1>3. enc \in NvsCopy /\ legacy \in NvsCopy
  BY DEF CredInv, CredTypeOK
<1>4. legacy' \in NvsCopy
  <2>1. \/ legacy' = legacy \/ legacy' = Committed(legacy)
        \/ legacy' = [legacy EXCEPT !["ssid"] = Written(@, config.ssid)]
        \/ legacy' = [legacy EXCEPT !["password"] = Written(@, config.password)]
    BY DEF LegacySaveFails, StoreLegacySsid, StoreLegacyPassword, CommitLegacy
  <2> QED
    BY <1>2, <1>3, <2>1, CommittedTyped, WrittenTyped DEF Key
<1>5. CASE StoreLegacySsid
  <2>1. /\ web' = [at |-> "legacyPassword", encSaved |-> web.encSaved]
        /\ owed' = owed /\ lapses' = lapses
        /\ legacy' = [legacy EXCEPT !["ssid"] = Written(@, config.ssid)]
    BY <1>5 DEF StoreLegacySsid, WebGoesTo
  <2>2. legacy'["ssid"].now = config.ssid
    BY <1>2, <1>3, <2>1, WrittenTyped DEF Key
  <2> QED
    BY <1>1, <1>2, <1>4, <2>1, <2>2
    DEF CredInv, CredTypeOK, NothingOwed, CopiesAsAsked, ErasedAsAsked, OnlyLapsesLoseCredentials
<1>6. CASE StoreLegacyPassword
  <2>1. /\ web' = [at |-> "legacyCommit", encSaved |-> web.encSaved]
        /\ owed' = owed /\ lapses' = lapses /\ web.at = "legacyPassword"
        /\ legacy' = [legacy EXCEPT !["password"] = Written(@, config.password)]
    BY <1>6 DEF StoreLegacyPassword, WebGoesTo
  <2>2. "password" \in Key /\ "ssid" \in Key \ {"password"}
    BY DEF Key
  <2>3. legacy'["password"].now = config.password /\ legacy'["ssid"] = legacy["ssid"]
    <3>1. Written(legacy["password"], config.password).now = config.password
      BY <1>2, <1>3, <2>2, CellTyped DEF NvsCopy
    <3> QED
      BY <1>3, <2>1, <2>2, <3>1 DEF NvsCopy
  <2> QED
    BY <1>1, <1>2, <1>4, <2>1, <2>3
    DEF CredInv, CredTypeOK, NothingOwed, CopiesAsAsked, ErasedAsAsked, OnlyLapsesLoseCredentials
<1>7. CASE WebIsDone /\ (CommitLegacy \/ LegacySaveFails)
  <2>1. web' = [at |-> "idle", encSaved |-> FALSE]
    BY <1>7 DEF WebIsDone
  <2>2. \/ AnswerOk /\ (web.encSaved \/ (web.at = "legacyCommit" /\ legacy' = Committed(legacy)))
        \/ AnswerError
    BY <1>7 DEF CommitLegacy, LegacySaveFails
  <2>3. OnlyLapsesLoseCredentials'
    <3>1. SUFFICES ASSUME owed' # Unknown, lapses' = {} PROVE NextBootFindsThem'
      BY DEF OnlyLapsesLoseCredentials
    <3>2. owed' = config /\ AnsweredLapses = {}
      BY <2>2, <3>1 DEF AnswerOk, AnswerError, Told
    <3>3. /\ forget.at = "idle"
          /\ web.encSaved \/ enc["ssid"] = Cell(Absent)
          /\ config.password # Empty \/ enc["password"] = Cell(Absent)
      BY <3>2, LapseFree
    <3>4. CASE web.encSaved
      <4>1. /\ enc["ssid"] = Cell(config.ssid)
            /\ config.password # Empty => enc["password"] = Cell(config.password)
        BY <3>3, <3>4 DEF CredInv, CopiesAsAsked
      <4> QED
        BY <1>1, <1>2, <1>3, <3>2, <3>3, <4>1, EncryptedIsTaken DEF NextBootFindsThem
    <3>5. CASE ~web.encSaved
      <4>1. web.at = "legacyCommit" /\ legacy' = Committed(legacy) /\ enc["ssid"] = Cell(Absent)
        BY <2>2, <3>1, <3>3, <3>5 DEF AnswerError, Told
      <4>2. legacy["ssid"].now = config.ssid /\ legacy["password"].now = config.password
        BY <3>3, <4>1 DEF CredInv, CopiesAsAsked
      <4>3. legacy'["ssid"] = Cell(config.ssid) /\ legacy'["password"] = Cell(config.password)
        BY <1>3, <4>1, <4>2, CommittedTyped DEF Key
      <4> QED
        BY <1>1, <1>2, <1>3, <1>4, <3>2, <3>3, <4>1, <4>3, PlainIsTaken DEF NextBootFindsThem
    <3> QED
      BY <3>4, <3>5
  <2>4. forget.at # "idle" => owed' = Unknown \/ lapses' # {}
    <3>1. forget.at # "idle" => AnsweredLapses # {}
      BY LapseFree
    <3> QED
      BY <2>2, <3>1 DEF AnswerOk, AnswerError, Told
  <2> QED
    BY <1>1, <1>4, <2>1, <2>3, <2>4
    DEF CredInv, CredTypeOK, NothingOwed, CopiesAsAsked, ErasedAsAsked
<1> QED
  BY <1>5, <1>6, <1>7 DEF LegacySaveFails, CommitLegacy

\* The task that forgets, call by call
LEMMA ForgetCred == CredInv /\ phase' = phase /\ phase = "up" /\ ForgetStep => CredInv'
<1> SUFFICES ASSUME CredInv, phase = "up", phase' = "up", ForgetStep PROVE CredInv'
  OBVIOUS
<1>1. /\ config' = config /\ web' = web /\ owed' = owed /\ lapses' = lapses
      /\ forget.at # "idle" /\ (owed = Unknown \/ lapses # {})
      /\ enc \in NvsCopy /\ legacy \in NvsCopy
  BY DEF ForgetStep, EraseEncrypted, CommitEncryptedErase, EraseLegacy, CommitLegacyErase,
         ForgetGoesTo, CredInv, CredTypeOK, NothingOwed
<1>2. ASSUME NEW copy \in NvsCopy, NEW failed \in SUBSET Key
      PROVE  /\ Erased(copy, failed) \in NvsCopy
             /\ failed = {} => \A k \in Key : Erased(copy, failed)[k].now = Absent
  <2>1. \A k \in Key : /\ Written(copy[k], Absent) \in [now : Value, may : SUBSET Value]
                       /\ Written(copy[k], Absent).now = Absent
    BY Values, CellTyped DEF NvsCopy
  <2> QED
    BY <2>1 DEF Erased, NvsCopy
<1>3. ASSUME NEW copy \in NvsCopy, \A k \in Key : copy[k].now = Absent
      PROVE  Committed(copy) = NoCopy
  BY <1>3, CommittedTyped, NoCopyTyped, CopyIs DEF Key
<1>4. CASE EraseEncrypted
  <2>1. PICK failed \in SUBSET Key :
           /\ enc' = Erased(enc, failed)
           /\ forget' = [at |-> "encCommit", clean |-> forget.clean /\ failed = {}]
    BY <1>4 DEF EraseEncrypted, ForgetGoesTo
  <2>2. legacy' = legacy
    BY <1>4 DEF EraseEncrypted
  <2>3. /\ enc' \in NvsCopy
        /\ forget'.clean => forget.clean /\ \A k \in Key : enc'[k].now = Absent
    BY <1>1, <1>2, <2>1
  <2>4. forget' \in [at : {"encCommit"}, clean : BOOLEAN]
    BY <2>1
  <2> QED
    BY <1>1, <2>2, <2>3, <2>4
    DEF CredInv, CredTypeOK, NothingOwed, CopiesAsAsked, ErasedAsAsked, OnlyLapsesLoseCredentials
<1>5. CASE CommitEncryptedErase
  <2>1. /\ legacy' = legacy /\ forget.at = "encCommit"
        /\ \/ enc' = Committed(enc) /\ forget' = [at |-> "legacyErase", clean |-> forget.clean /\ TRUE]
           \/ enc' = enc /\ forget' = [at |-> "legacyErase", clean |-> forget.clean /\ FALSE]
    BY <1>5 DEF CommitEncryptedErase, ForgetGoesTo
  <2>2. forget' \in [at : {"legacyErase"}, clean : BOOLEAN] /\ (forget'.clean => forget.clean)
    <3>1. \A b \in BOOLEAN : /\ [at |-> "legacyErase", clean |-> b] \in [at : {"legacyErase"}, clean : BOOLEAN]
                             /\ [at |-> "legacyErase", clean |-> b].clean = b
      OBVIOUS
    <3>2. (forget.clean /\ TRUE) \in BOOLEAN /\ (forget.clean /\ FALSE) \in BOOLEAN
      OBVIOUS
    <3> QED
      BY <2>1, <3>1, <3>2
  <2>3. enc' \in NvsCopy
    BY <1>1, <2>1, CommittedTyped
  <2>4. forget'.clean => enc' = NoCopy
    BY <1>1, <1>3, <2>1, <2>2 DEF CredInv, ErasedAsAsked
  <2> QED
    BY <1>1, <2>1, <2>2, <2>3, <2>4
    DEF CredInv, CredTypeOK, NothingOwed, CopiesAsAsked, ErasedAsAsked, OnlyLapsesLoseCredentials
<1>6. CASE EraseLegacy
  <2>1. PICK failed \in SUBSET Key :
           /\ legacy' = Erased(legacy, failed)
           /\ forget' = [at |-> "legacyCommit", clean |-> forget.clean /\ failed = {}]
    BY <1>6 DEF EraseLegacy, ForgetGoesTo
  <2>2. enc' = enc /\ forget.at = "legacyErase"
    BY <1>6 DEF EraseLegacy
  <2>3. /\ legacy' \in NvsCopy
        /\ forget'.clean => forget.clean /\ \A k \in Key : legacy'[k].now = Absent
    BY <1>1, <1>2, <2>1
  <2>4. forget' \in [at : {"legacyCommit"}, clean : BOOLEAN]
    BY <2>1
  <2> QED
    BY <1>1, <2>2, <2>3, <2>4
    DEF CredInv, CredTypeOK, NothingOwed, CopiesAsAsked, ErasedAsAsked, OnlyLapsesLoseCredentials
<1>7. CASE CommitLegacyErase
  <2>1. /\ enc' = enc /\ forget.at = "legacyCommit"
        /\ \/ legacy' = Committed(legacy) /\ forget' = [at |-> "restart", clean |-> forget.clean /\ TRUE]
           \/ legacy' = legacy /\ forget' = [at |-> "restart", clean |-> forget.clean /\ FALSE]
    BY <1>7 DEF CommitLegacyErase, ForgetGoesTo
  <2>2. forget' \in [at : {"restart"}, clean : BOOLEAN] /\ (forget'.clean => forget.clean)
    <3>1. \A b \in BOOLEAN : /\ [at |-> "restart", clean |-> b] \in [at : {"restart"}, clean : BOOLEAN]
                             /\ [at |-> "restart", clean |-> b].clean = b
      OBVIOUS
    <3>2. (forget.clean /\ TRUE) \in BOOLEAN /\ (forget.clean /\ FALSE) \in BOOLEAN
      OBVIOUS
    <3> QED
      BY <2>1, <3>1, <3>2
  <2>3. legacy' \in NvsCopy
    BY <1>1, <2>1, CommittedTyped
  <2>4. forget'.clean => legacy' = NoCopy
    BY <1>1, <1>3, <2>1, <2>2 DEF CredInv, ErasedAsAsked
  <2> QED
    BY <1>1, <2>1, <2>2, <2>3, <2>4
    DEF CredInv, CredTypeOK, NothingOwed, CopiesAsAsked, ErasedAsAsked, OnlyLapsesLoseCredentials
<1> QED
  BY <1>4, <1>5, <1>6, <1>7 DEF ForgetStep

\* The link's own steps leave the credentials alone.
LEMMA LinkCred ==
    ASSUME CredInv, UNCHANGED credVars, phase' = "off" => phase = "off"
    PROVE  CredInv'
  BY DEF credVars, nvsVars, CredInv, CredTypeOK, NothingOwed, CopiesAsAsked, ErasedAsAsked,
         OnlyLapsesLoseCredentials, NextBootFindsThem

LEMMA CredInvNext == CredInv /\ [Next]_vars => CredInv'
<1> SUFFICES ASSUME CredInv, [Next]_vars PROVE CredInv'
  OBVIOUS
<1>1. CASE Boot
  BY <1>1, BootCred
<1>2. CASE Reset \/ Restart
  BY <1>2, ResetCred
<1>3. CASE Web
  <2>1. phase = "up" /\ phase' = "up" /\ (Request \/ WebStep \/ ForgetStep)
    BY <1>3 DEF Web, linkVars
  <2> QED
    BY <2>1, RequestCred, EncryptedSaveCred, LegacySaveCred, ForgetCred DEF WebStep
<1>4. CASE WaitEnds \/ SayConnected \/ StartFallback \/ StopRadio \/ StartBoth \/ DialAgain
           \/ AnnounceAP
  BY <1>4, LinkCred
  DEF WaitEnds, SayConnected, StartFallback, StopRadio, StartBoth, DialAgain, AnnounceAP
<1>5. CASE EventTask \/ AttemptEnds \/ LinkLost
  BY <1>5, LinkCred
  DEF EventTask, HandleDisconnected, HandleGotIp, AttemptEnds, LinkLost, Report
<1>6. CASE UNCHANGED vars
  BY <1>6, LinkCred DEF vars, linkVars
<1> QED
  BY <1>1, <1>2, <1>3, <1>4, <1>5, <1>6 DEF Next, BootTask

(* Wherever a reset falls and whichever call to the NVS fails, the next boot connects with the
   credentials last answered with ok and finds none after a DELETE, unless one of the four
   lapses happened: the plain copy alone made beside an encrypted one, an empty password over
   an older one, a migration stopped half-way, a task that forgets disturbed.  For all names and
   passwords, and any number of requests and resets.  (With a lapse the code does lose them:
   OkMeansSaved does not hold.) *)
THEOREM OnlyLapsesLoseThem == Spec => []OnlyLapsesLoseCredentials
<1>1. CredInv => OnlyLapsesLoseCredentials
  BY DEF CredInv
<1> QED
  BY <1>1, CredInitOk, CredInvNext, PTL DEF Spec

=============================================================================
