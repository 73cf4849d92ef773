----------------------------- MODULE LogManager -----------------------------
(***************************************************************************)
(* log_manager.c behind the audit_log.c facade: a ring of entries in RAM   *)
(* under a mutex, a queue to the task that serves the slow sinks, and the  *)
(* NVS, which holds one entry per slot and, every few writes, the index    *)
(* and count of the ring ("meta") a restart reads the slots by.            *)
(*                                                                         *)
(* Writers are tasks that log.  The sequence number is drawn outside the   *)
(* mutex, by a load and a store on a chip with two cores.  An entry that   *)
(* the level or the audit filter holds back changes nothing and is no      *)
(* step.  The sinks matter here as far as they touch state: the NVS sink;  *)
(* an nvs_set_blob with its commit replaces a blob as a whole or fails.    *)
(***************************************************************************)
EXTENDS Integers, Sequences, FiniteSets

CONSTANTS
    Task,           \* tasks that write log entries
    NoEntry,        \* an empty slot or hand
    Capacity,       \* config.capacity
    NvsSlots,       \* TF_LOG_NVS_CAPACITY
    QueueLen,       \* LOG_SINK_QUEUE_LEN
    MetaEvery,      \* NVS writes from one meta to the next: 5
    ConfigChoice,   \* what a request for a configuration leaves it at
    MaxEntries,     \* bound: entries written
    MaxBoots,       \* bound: resets of the chip
    MaxPuts         \* bound: changes of the configuration

\* boot: the session it was written in (boot_id).  severe: of level WARN or above, or an
\* audit event.
Entry == [id : 1 .. MaxEntries, boot : 0 .. MaxBoots, seq : 0 .. MaxEntries,
          severe : BOOLEAN]

\* What a task holds: an entry, and whether the number after its own is stored.
InHand == [entry : Entry, stored : BOOLEAN]

ASSUME LogAssumption ==
    /\ Task # {} /\ IsFiniteSet(Task)
    /\ Capacity \in Nat \ {0}
    /\ NvsSlots \in 1 .. Capacity
    /\ QueueLen \in Nat \ {0}
    /\ MetaEvery \in Nat \ {0}
    /\ ConfigChoice \subseteq [minWarn : BOOLEAN, nvs : BOOLEAN]
    /\ {MaxEntries, MaxBoots, MaxPuts} \subseteq Nat
    /\ NoEntry \notin Entry \cup InHand

VARIABLES
    up,             \* s_log.initialized
    entries,        \* the ring
    writeIndex, count,
    sequence,       \* the next sequence number
    held,           \* per task: the entry on its way to the mutex
    config,         \* what of tf_log_config_t the model tells apart
    sinkQueue,      \* entries for the dispatch task
    sinkBusy,       \* the entry the dispatch task works on
    metaDue,        \* nvs_writes_since_meta
    nvsEntry,       \* the entries in the NVS, by slot
    nvsMeta,        \* the meta record in the NVS
    web,            \* where the web server's handler is, with its copy of the configuration
    written, boots, puts,  \* counted for the bounds
    disturbed       \* the log was cleared, a meta not saved, or an entry not counted

logVars == <<up, entries, writeIndex, count, sequence, held, config, sinkQueue, sinkBusy,
             metaDue, nvsEntry, nvsMeta, web, written, boots, puts, disturbed>>

ramVars == <<up, entries, writeIndex, count>>
nvsVars == <<metaDue, nvsEntry, nvsMeta>>
boundVars == <<written, boots, puts>>

Config == [minWarn : BOOLEAN, nvs : BOOLEAN]
Meta == [writeIndex : 0 .. Capacity - 1, count : 0 .. Capacity]

Ring == 0 .. Capacity - 1
Slot == 0 .. NvsSlots - 1

\* audit_log_init: WARN and above, persisted.
DefaultConfig == [minWarn |-> TRUE, nvs |-> TRUE]
Idle == [step |-> "idle", copy |-> DefaultConfig]
NoMeta == [writeIndex |-> 0, count |-> 0]

Smaller(m, n) == IF m < n THEN m ELSE n

----------------------------------------------------------------------------

LogInit ==
    /\ up = FALSE
    /\ entries = [i \in Ring |-> NoEntry]
    /\ writeIndex = 0 /\ count = 0 /\ sequence = 0
    /\ held = [t \in Task |-> NoEntry]
    /\ config = DefaultConfig
    /\ sinkQueue = <<>>
    /\ sinkBusy = NoEntry
    /\ metaDue = 0
    /\ nvsEntry = [s \in Slot |-> NoEntry]
    /\ nvsMeta = NoMeta
    /\ web = Idle
    /\ written = 0 /\ boots = 0 /\ puts = 0
    /\ disturbed = FALSE

\* How many entries nvs_load_recent looks for.
LoadCount(meta) == Smaller(meta.count, NvsSlots)

\* The slots it looks at, backwards from the ring's write index.
LoadSlot(meta, i) == (meta.writeIndex + NvsSlots - i) % NvsSlots
LoadOrder(meta) == [i \in 1 .. LoadCount(meta) |-> LoadSlot(meta, i)]

\* The turns of its loop at which it finds an entry, and these turns in their order
Found == {i \in 1 .. LoadCount(nvsMeta) : nvsEntry[LoadSlot(nvsMeta, i)] # NoEntry}
FoundInOrder ==
    CHOOSE turn \in [1 .. Cardinality(Found) -> Found] :
        \A m, n \in DOMAIN turn : m < n => turn[m] < turn[n]

\* nvs_load_recent: the entries it finds, in the order it appends them to the ring.
Restored == [n \in DOMAIN FoundInOrder |-> nvsEntry[LoadSlot(nvsMeta, FoundInOrder[n])]]

\* log_manager_init
InitLog ==
    /\ ~up
    /\ up' = TRUE
    /\ entries' = [i \in Ring |-> IF i < Len(Restored) THEN Restored[i + 1] ELSE NoEntry]
    /\ count' = Len(Restored)
    /\ writeIndex' = Len(Restored) % Capacity
    /\ UNCHANGED <<sequence, held, config, sinkQueue, sinkBusy, nvsVars, web, boundVars, disturbed>>

\* Fault: the write index stays where it was.
EmptyRingIndexKept ==
    /\ entries' = [i \in Ring |-> NoEntry]
    /\ count' = 0
    /\ UNCHANGED writeIndex

EmptyRing ==
    /\ entries' = [i \in Ring |-> NoEntry]
    /\ count' = 0
    /\ writeIndex' = 0

\* A reset of the chip: what is in RAM is gone.
LogReset ==
    /\ up
    /\ boots < MaxBoots
    /\ boots' = boots + 1
    /\ up' = FALSE
    /\ EmptyRing
    /\ sequence' = 0
    /\ held' = [t \in Task |-> NoEntry]
    /\ config' = DefaultConfig
    /\ sinkQueue' = <<>>
    /\ sinkBusy' = NoEntry
    /\ metaDue' = 0
    /\ web' = Idle
    /\ UNCHANGED <<nvsEntry, nvsMeta, written, puts, disturbed>>

----------------------------------------------------------------------------
\* Writing: log_manager_write, log_manager_write_audit

\* write_entry_va up to the load of s_log.sequence
Stamp(t, severe) ==
    /\ up /\ held[t] = NoEntry
    /\ severe \/ ~config.minWarn
    /\ written < MaxEntries
    /\ written' = written + 1
    /\ held' = [held EXCEPT ![t] =
                  [entry |-> [id |-> written + 1, boot |-> boots, seq |-> sequence,
                              severe |-> severe],
                   stored |-> FALSE]]
    /\ UNCHANGED <<ramVars, sequence, config, sinkQueue, sinkBusy, nvsVars, web,
                   boots, puts, disturbed>>

\* The store of the incremented number
StoreSequence(t) ==
    /\ held[t] # NoEntry /\ ~held[t].stored
    /\ sequence' = held[t].entry.seq + 1
    /\ held' = [held EXCEPT ![t].stored = TRUE]
    /\ UNCHANGED <<ramVars, config, sinkQueue, sinkBusy, nvsVars, web, boundVars, disturbed>>

\* Fault: the write index moves on before the entry is stored.
AppendEntryAhead(e) ==
    /\ entries' = [entries EXCEPT ![(writeIndex + 1) % Capacity] = e]
    /\ writeIndex' = (writeIndex + 1) % Capacity
    /\ count' = Smaller(count + 1, Capacity)

\* append_entry
AppendEntry(e) ==
    /\ entries' = [entries EXCEPT ![writeIndex] = e]
    /\ writeIndex' = (writeIndex + 1) % Capacity
    /\ count' = Smaller(count + 1, Capacity)

\* commit_entry under the mutex: the sinks do without the entry when the queue is full.
CommitEntry(t) ==
    /\ held[t] # NoEntry /\ held[t].stored
    /\ AppendEntry(held[t].entry)
    /\ sinkQueue' = IF Len(sinkQueue) < QueueLen THEN Append(sinkQueue, held[t].entry)
                    ELSE sinkQueue
    /\ held' = [held EXCEPT ![t] = NoEntry]
    /\ UNCHANGED <<up, sequence, config, sinkBusy, nvsVars, web, boundVars, disturbed>>

----------------------------------------------------------------------------
\* The dispatch task.  What sink_nvs is not meant to keep is done with at once.

Persisted(e) == config.nvs /\ e.severe

\* The fifth write since the last meta.
MetaIsDue(n) == n >= MetaEvery

TakeEntry ==
    /\ up /\ sinkBusy = NoEntry /\ sinkQueue # <<>>
    /\ ~MetaIsDue(metaDue)
    /\ sinkBusy' = IF Persisted(Head(sinkQueue)) THEN Head(sinkQueue) ELSE NoEntry
    /\ sinkQueue' = Tail(sinkQueue)
    /\ UNCHANGED <<ramVars, sequence, held, config, nvsVars, web, boundVars, disturbed>>

\* nvs_save_entry: the entry goes to the slot of its sequence number, or the NVS refuses it,
\* or takes it and fails at the commit, so that it is there but not counted.
SaveEntry ==
    LET stored == [nvsEntry EXCEPT ![sinkBusy.seq % NvsSlots] = sinkBusy]
    IN /\ sinkBusy # NoEntry
       /\ \/ nvsEntry' = stored /\ metaDue' = metaDue + 1 /\ UNCHANGED disturbed
          \/ UNCHANGED <<nvsEntry, metaDue, disturbed>>
          \/ nvsEntry' = stored /\ UNCHANGED metaDue /\ disturbed' = TRUE
       /\ sinkBusy' = NoEntry
       /\ UNCHANGED <<ramVars, sequence, held, config, sinkQueue, nvsMeta, web, boundVars>>

\* Fault: the count is left out of the initialiser.
MetaNowUncounted == [writeIndex |-> writeIndex, count |-> 0]

MetaNow == [writeIndex |-> writeIndex, count |-> count]

\* nvs_save_meta: index and count of the ring as they are by now.  A failure is not noticed.
SaveMeta ==
    /\ up /\ MetaIsDue(metaDue)
    /\ \/ /\ nvsMeta' = MetaNow
          /\ UNCHANGED disturbed
       \/ /\ UNCHANGED nvsMeta
          /\ disturbed' = TRUE
    /\ metaDue' = 0
    /\ UNCHANGED <<ramVars, sequence, held, config, sinkQueue, sinkBusy, nvsEntry, web, boundVars>>

----------------------------------------------------------------------------
\* The web server: DELETE /api/logs and PUT /api/logs/config

\* log_manager_clear, the part under the mutex
ClearRing ==
    /\ up /\ web = Idle
    /\ EmptyRing
    /\ web' = [Idle EXCEPT !.step = "erase"]
    /\ disturbed' = TRUE
    /\ UNCHANGED <<up, sequence, held, config, sinkQueue, sinkBusy, nvsVars, boundVars>>

\* The part after it: the namespace erased, unless it cannot be opened.
EraseNvs ==
    /\ up /\ web.step = "erase"
    /\ \/ /\ nvsEntry' = [s \in Slot |-> NoEntry]
          /\ nvsMeta' = NoMeta
       \/ UNCHANGED <<nvsEntry, nvsMeta>>
    /\ web' = Idle
    /\ UNCHANGED <<ramVars, sequence, held, config, sinkQueue, sinkBusy, metaDue,
                   boundVars, disturbed>>

\* logs_config_put_handler: a copy of the configuration with the fields of the request
ReadConfig(c) ==
    /\ up /\ web = Idle
    /\ puts < MaxPuts
    /\ puts' = puts + 1
    /\ web' = [step |-> "put", copy |-> c]
    /\ UNCHANGED <<ramVars, sequence, held, config, sinkQueue, sinkBusy, nvsVars,
                   written, boots, disturbed>>

\* log_manager_set_config with the copy
WriteConfig ==
    /\ up /\ web.step = "put"
    /\ config' = web.copy
    /\ web' = Idle
    /\ UNCHANGED <<ramVars, sequence, held, sinkQueue, sinkBusy, nvsVars, boundVars, disturbed>>

Write == \E t \in Task : (\E severe \in BOOLEAN : Stamp(t, severe)) \/ StoreSequence(t) \/ CommitEntry(t)
Dispatch == TakeEntry \/ SaveEntry \/ SaveMeta
LogRequest == ClearRing \/ EraseNvs \/ WriteConfig \/ \E c \in ConfigChoice : ReadConfig(c)

LogNext == InitLog \/ LogReset \/ Write \/ Dispatch \/ LogRequest

LogSpec == LogInit /\ [][LogNext]_logVars

----------------------------------------------------------------------------
\* log_manager_get_entry (index 0 is the oldest) and log_manager_get_recent (newest first)

GetEntry(index) ==
    IF count < Capacity THEN entries[index] ELSE entries[(writeIndex + index) % Capacity]

GetRecent ==
    LET newest == (writeIndex + Capacity - 1) % Capacity
    IN [i \in 1 .. count |-> entries[(newest + Capacity - (i - 1)) % Capacity]]

OldestFirst == [i \in 1 .. count |-> GetRecent[count + 1 - i]]

\* logs_get_handler asks for as many as there can be, export_entries as well.
Shown == GetRecent
Exported == GetRecent

\* The slots that log_manager_verify looks at.
Verified == {IF count < Capacity THEN i ELSE (writeIndex + i) % Capacity : i \in 0 .. count - 1}

(* All ways to read the log tell of the same entries, before and after the ring is
   full and after a clear: by index from the oldest on, back from the newest in the
   page and in the export, and the check of the checksums, which passes over none. *)
ReadersAgree ==
    /\ \A i \in 1 .. count : GetEntry(i - 1) = Exported[count + 1 - i]
    /\ {entries[s] : s \in Verified} = {Shown[i] : i \in 1 .. count}
    /\ NoEntry \notin {entries[s] : s \in Verified}

(* The ring with its index and count is a log of the last Capacity entries, through wraps,
   clears, concurrent writers and restarts. *)
Log == INSTANCE RecentLog WITH recent <- OldestFirst
ImplementsRecentLog == Log!RecentSpec

Listed == {LoadOrder(nvsMeta)[i] : i \in DOMAIN LoadOrder(nvsMeta)}
PassedOver ==
    {s \in Slot \ Listed : nvsEntry[s] # NoEntry /\ nvsEntry[s].boot = boots}

(* A restart finds what the NVS holds of the session before it, though it counts by the
   ring and the slots by sequence number: as long as nothing was cleared, every meta was
   saved and no call failed after it had stored its entry, it passes over no more than
   the writes a meta is still to come for, and one for each writer that drew its number
   and let another one commit first.  What earlier sessions left is another matter: a
   restart restores fewer entries than the ring held when some were not persisted, and
   the next meta counts from there. *)
PersistedIsListed ==
    disturbed \/ Cardinality(PassedOver) <= MetaEvery + Cardinality(Task) - 1

=============================================================================
