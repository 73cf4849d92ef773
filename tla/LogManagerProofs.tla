-------------------------- MODULE LogManagerProofs --------------------------
(***************************************************************************)
(* Proofs about the log manager: its readers agree, the ring with its index*)
(* and its count implements the abstract log, and a restart finds what was *)
(* persisted, for every capacity, number of slots, of writers, of resets. *)
(*                                                                         *)
(* All readers compute their places in the ring with a remainder; the      *)
(* proofs bring them to one form, PlaceOf.  That the log never shows an    *)
(* entry twice rests on three facts: a committed entry is newer than all   *)
(* there are or was in its writer's hand only, a slot of the NVS holds     *)
(* entries of its own remainder only, and a restart looks at no slot       *)
(* twice.  What a restart passes over is counted: the numbers drawn never  *)
(* run ahead of the ring by more than what the writers have in hand.       *)
(***************************************************************************)
EXTENDS LogManager, FiniteSetTheorems, TLAPS

\* The numbers among the constants
LEMMA Sizes ==
    Capacity \in Nat \ {0} /\ NvsSlots \in 1 .. Capacity /\ MaxEntries \in Nat /\ MaxBoots \in Nat
  BY LogAssumption

----------------------------------------------------------------------------
\* Remainders

\* A remainder is below its divisor.
LEMMA ModInRange == ASSUME NEW a \in Int, NEW n \in Nat \ {0} PROVE a % n \in 0 .. n - 1
  OBVIOUS

\* A number is its quotient times the divisor and its remainder.
LEMMA DivMod ==
    ASSUME NEW a \in Int, NEW n \in Nat \ {0}
    PROVE  a \div n \in Int /\ a = n * (a \div n) + (a % n)
  OBVIOUS

\* Below the divisor a number is its own remainder.
LEMMA ModBelow == ASSUME NEW n \in Nat \ {0}, NEW a \in 0 .. n - 1 PROVE a % n = a
  OBVIOUS

\* In the round after that, the divisor is taken off once.
LEMMA ModOnce == ASSUME NEW n \in Nat \ {0}, NEW a \in n .. 2 * n - 1 PROVE a % n = a - n
  OBVIOUS

\* A positive multiple of a divisor is no less than it.
LEMMA MultipleAtLeast ==
    ASSUME NEW n \in Nat \ {0}, NEW q \in Int, q > 0 PROVE n * q >= n
  OBVIOUS

\* What makes a positive multiple is positive.
LEMMA PositiveFactor ==
    ASSUME NEW n \in Nat \ {0}, NEW q \in Int, n * q > 0 PROVE q > 0
  OBVIOUS

\* Two numbers with one remainder are at least a divisor apart.
LEMMA SameModApart ==
    ASSUME NEW n \in Nat \ {0}, NEW a \in Int, NEW b \in Int, a % n = b % n, a < b
    PROVE  b - a >= n
<1>1. b - a = n * ((b \div n) - (a \div n))
  BY DivMod
<1>2. (b \div n) - (a \div n) \in Int
  BY DivMod
<1>3. (b \div n) - (a \div n) > 0
  BY <1>1, <1>2, PositiveFactor
<1> QED
  BY <1>1, <1>2, <1>3, MultipleAtLeast

----------------------------------------------------------------------------
\* The places in the ring

\* The place of the i-th oldest of c entries, in a ring to be written next at w.
PlaceOf(w, c, i) ==
    IF c < Capacity THEN i - 1
    ELSE IF w + i - 1 < Capacity THEN w + i - 1 ELSE w + i - 1 - Capacity

\* log_manager_get_entry looks at that place,
LEMMA PlaceByIndex ==
    ASSUME NEW w \in Ring, NEW c \in 0 .. Capacity, NEW i \in 1 .. c
    PROVE  (IF c < Capacity THEN i - 1 ELSE (w + (i - 1)) % Capacity) = PlaceOf(w, c, i)
<1> USE Sizes DEF Ring
<1> DEFINE at == w + (i - 1)
<1>1. CASE c < Capacity
  BY <1>1 DEF PlaceOf
<1>2. CASE c = Capacity /\ at < Capacity
  <2>1. at \in 0 .. Capacity - 1
    BY <1>2
  <2>2. at % Capacity = at
    BY <2>1, ModBelow
  <2> QED
    BY <1>2, <2>2 DEF PlaceOf
<1>3. CASE c = Capacity /\ at >= Capacity
  <2>1. at \in Capacity .. 2 * Capacity - 1
    BY <1>3
  <2>2. at % Capacity = at - Capacity
    BY <2>1, ModOnce
  <2> QED
    BY <1>3, <2>2 DEF PlaceOf
<1> QED
  BY <1>1, <1>2, <1>3

\* and so does log_manager_get_recent, that counts back from the newest.
LEMMA PlaceFromNewest ==
    ASSUME NEW w \in Ring, NEW c \in 0 .. Capacity, NEW i \in 1 .. c,
           c < Capacity => w = c
    PROVE  (((w + Capacity - 1) % Capacity) + Capacity - ((c + 1 - i) - 1)) % Capacity
              = PlaceOf(w, c, i)
<1> USE Sizes DEF Ring
<1> DEFINE newest == (w + Capacity - 1) % Capacity
           from == newest + Capacity - ((c + 1 - i) - 1)
<1>1. newest = IF w = 0 THEN Capacity - 1 ELSE w - 1
  <2>1. CASE w = 0
    <3>1. w + Capacity - 1 \in 0 .. Capacity - 1
      BY <2>1
    <3> QED
      BY <2>1, <3>1, ModBelow
  <2>2. CASE w # 0
    <3>1. w + Capacity - 1 \in Capacity .. 2 * Capacity - 1
      BY <2>2
    <3> QED
      BY <2>2, <3>1, ModOnce
  <2> QED
    BY <2>1, <2>2
<1> HIDE DEF newest
<1>2. CASE c < Capacity
  <2>1. from = Capacity + (i - 1)
    BY <1>1, <1>2
  <2>2. from \in Capacity .. 2 * Capacity - 1
    BY <1>2, <2>1
  <2>3. from % Capacity = i - 1
    BY <2>1, <2>2, ModOnce
  <2> QED
    BY <1>2, <2>3 DEF PlaceOf, newest
<1>3. CASE c = Capacity
  <2>1. from = newest + i
    BY <1>1, <1>3
  <2>2. CASE newest + i < Capacity
    <3>1. from \in 0 .. Capacity - 1
      BY <1>1, <2>1, <2>2
    <3>2. from % Capacity = newest + i
      BY <2>1, <3>1, ModBelow
    <3>3. PlaceOf(w, c, i) = newest + i
      BY <1>1, <1>3, <2>2 DEF PlaceOf
    <3> QED
      BY <3>2, <3>3 DEF newest
  <2>3. CASE newest + i >= Capacity
    <3>1. from \in Capacity .. 2 * Capacity - 1
      BY <1>1, <1>3, <2>1, <2>3
    <3> HIDE DEF from
    <3>2. from % Capacity = from - Capacity
      BY <3>1, ModOnce
    <3>3. PlaceOf(w, c, i) = newest + i - Capacity
      BY <1>1, <1>3, <2>3 DEF PlaceOf
    <3> QED
      BY <2>1, <3>2, <3>3 DEF newest, from
  <2> QED
    BY <1>1, <2>2, <2>3
<1> QED
  BY <1>2, <1>3

\* The places of c entries are c different ones, below c.
LEMMA PlacesApart ==
    ASSUME NEW w \in Ring, NEW c \in 0 .. Capacity
    PROVE  /\ \A i \in 1 .. c : PlaceOf(w, c, i) \in Ring /\ PlaceOf(w, c, i) < c
           /\ \A i, j \in 1 .. c : PlaceOf(w, c, i) = PlaceOf(w, c, j) => i = j
  BY Sizes DEF PlaceOf, Ring

----------------------------------------------------------------------------
\* What nvs_load_recent restores

\* A finite set of numbers can be listed in order.
LEMMA ListedInOrder ==
    ASSUME NEW S \in SUBSET Int, IsFiniteSet(S)
    PROVE  \E list \in [1 .. Cardinality(S) -> S] :
               \A m, n \in DOMAIN list : m < n => list[m] < list[n]
<1> DEFINE UpTo(i) == {j \in S : j <= i}
           rank == [i \in S |-> Cardinality(UpTo(i))]
           size == Cardinality(S)
<1>1. size \in Nat
  BY FS_CardinalityType
<1>2. ASSUME NEW i \in S
      PROVE  IsFiniteSet(UpTo(i)) /\ Cardinality(UpTo(i)) \in 1 .. size
  <2>1. IsFiniteSet(UpTo(i)) /\ Cardinality(UpTo(i)) <= size
    BY FS_Subset, UpTo(i) \in SUBSET S
  <2>2. UpTo(i) # {}
    OBVIOUS
  <2>3. Cardinality(UpTo(i)) # 0
    BY <2>1, <2>2, FS_EmptySet
  <2> QED
    BY <1>1, <2>1, <2>3, FS_CardinalityType
<1>3. ASSUME NEW i \in S, NEW j \in S, i < j
      PROVE  rank[i] < rank[j]
  <2>1. UpTo(i) \in SUBSET UpTo(j)
    <3>1. ASSUME NEW k \in UpTo(i) PROVE k \in S /\ k <= j
      BY <1>3
    <3> QED
      BY <3>1
  <2>2. UpTo(i) # UpTo(j)
    BY <1>3
  <2>3. Cardinality(UpTo(i)) <= Cardinality(UpTo(j)) /\ Cardinality(UpTo(i)) # Cardinality(UpTo(j))
    BY <1>2, <2>1, <2>2, FS_Subset
  <2> QED
    BY <1>1, <1>2, <2>3
<1>4. rank \in [S -> 1 .. size]
  BY <1>2
<1> HIDE DEF rank
<1>5. rank \in Injection(S, 1 .. size)
  <2>1. ASSUME NEW i \in S, NEW j \in S, rank[i] = rank[j] PROVE i = j
    <3>1. rank[i] \in Int
      BY <1>1, <1>4
    <3>2. ~(i < j) /\ ~(j < i)
      BY <1>3, <2>1, <3>1
    <3> QED
      BY <3>2
  <2> HIDE DEF size
  <2> QED
    BY <1>4, <2>1 DEF Injection, IsInjective
<1>6. rank \in Surjection(S, 1 .. size)
  <2>1. IsFiniteSet(1 .. size) /\ Cardinality(1 .. size) = size
    BY <1>1, FS_Interval
  <2> QED
    BY <1>5, <2>1, FS_Injection
<1> DEFINE list == [m \in 1 .. size |-> CHOOSE i \in S : rank[i] = m]
<1>7. ASSUME NEW m \in 1 .. size PROVE list[m] \in S /\ rank[list[m]] = m
  BY <1>6 DEF Surjection
<1>8. list \in [1 .. size -> S]
  BY <1>7
<1> HIDE DEF list
<1>9. ASSUME NEW m \in 1 .. size, NEW n \in 1 .. size, m < n PROVE list[m] < list[n]
  <2> HIDE DEF size
  <2>1. list[m] \in S /\ list[n] \in S /\ rank[list[m]] = m /\ rank[list[n]] = n
    BY <1>7
  <2>2. list[m] \in Int /\ list[n] \in Int /\ m \in Int /\ n \in Int
    <3>1. \A i \in S : i \in Int
      OBVIOUS
    <3>2. m \in Int /\ n \in Int
      BY <1>1
    <3> QED
      BY <2>1, <3>1, <3>2
  <2>3. list[n] < list[m] => n < m
    BY <1>3, <2>1
  <2>4. list[n] # list[m]
    BY <1>9, <2>1, <2>2
  <2> QED
    BY <1>9, <2>2, <2>3, <2>4
<1> QED
  BY <1>8, <1>9

\* No two turns of the loop look at one slot.
LEMMA SlotsApart ==
    ASSUME NEW meta \in Meta, NEW i \in 1 .. LoadCount(meta), NEW j \in 1 .. LoadCount(meta)
    PROVE  /\ LoadSlot(meta, i) \in Slot
           /\ LoadSlot(meta, i) = LoadSlot(meta, j) => i = j
<1> DEFINE at(k) == meta.writeIndex + NvsSlots - k
<1>1. /\ NvsSlots \in Nat \ {0}
      /\ LoadCount(meta) \in Nat /\ LoadCount(meta) <= NvsSlots
      /\ at(i) \in Int /\ at(j) \in Int
  BY Sizes DEF LoadCount, Smaller, Meta
<1>2. LoadSlot(meta, i) \in Slot
  BY <1>1, ModInRange DEF LoadSlot, Slot
<1>3. ASSUME LoadSlot(meta, i) = LoadSlot(meta, j) PROVE ~(at(i) < at(j)) /\ ~(at(j) < at(i))
  <2>1. at(i) % NvsSlots = at(j) % NvsSlots
    BY <1>3 DEF LoadSlot
  <2>2. at(i) - at(j) < NvsSlots /\ at(j) - at(i) < NvsSlots
    BY <1>1, Sizes DEF Meta
  <2> HIDE DEF at
  <2> QED
    BY <1>1, <2>1, <2>2, SameModApart
<1>4. ASSUME LoadSlot(meta, i) = LoadSlot(meta, j) PROVE i = j
  BY <1>1, <1>3, <1>4 DEF Meta
<1> QED
  BY <1>2, <1>4

\* An entry is in the slot of its sequence number.
InItsSlot == \A s \in Slot : nvsEntry[s] # NoEntry => nvsEntry[s].seq % NvsSlots = s

\* What is restored was kept, fits into the ring and repeats nothing.
LEMMA RestoredApart ==
    ASSUME nvsMeta \in Meta, nvsEntry \in [Slot -> Entry \cup {NoEntry}], InItsSlot
    PROVE  /\ Restored \in Seq(Entry)
           /\ Len(Restored) <= Capacity
           /\ \A n \in 1 .. Len(Restored) : \E s \in Slot : Restored[n] \in Entry /\ Restored[n] = nvsEntry[s]
           /\ \A m, n \in 1 .. Len(Restored) : Restored[m] = Restored[n] => m = n
<1>1. LoadCount(nvsMeta) \in Nat /\ LoadCount(nvsMeta) <= NvsSlots
  BY Sizes DEF LoadCount, Smaller, Meta
<1>2. IsFiniteSet(Found) /\ Cardinality(Found) \in Nat /\ Cardinality(Found) <= LoadCount(nvsMeta)
  <2>1. IsFiniteSet(1 .. LoadCount(nvsMeta)) /\ Cardinality(1 .. LoadCount(nvsMeta)) = LoadCount(nvsMeta)
    BY <1>1, FS_Interval
  <2>2. Found \in SUBSET (1 .. LoadCount(nvsMeta))
    BY DEF Found
  <2> QED
    BY <2>1, <2>2, FS_Subset, FS_CardinalityType
<1>3. /\ FoundInOrder \in [1 .. Cardinality(Found) -> Found]
      /\ \A m, n \in DOMAIN FoundInOrder : m < n => FoundInOrder[m] < FoundInOrder[n]
  <2>1. Found \in SUBSET Int
    BY <1>1 DEF Found
  <2> QED
    BY <1>2, <2>1, ListedInOrder DEF FoundInOrder
<1> DEFINE size == Cardinality(Found)
<1>4. ASSUME NEW n \in 1 .. size
      PROVE  /\ FoundInOrder[n] \in 1 .. LoadCount(nvsMeta)
             /\ LoadSlot(nvsMeta, FoundInOrder[n]) \in Slot
             /\ nvsEntry[LoadSlot(nvsMeta, FoundInOrder[n])] \in Entry
  <2>1. FoundInOrder[n] \in Found
    BY <1>3
  <2> QED
    BY <2>1, SlotsApart DEF Found
<1>5. DOMAIN Restored = 1 .. size /\ \A n \in 1 .. size : Restored[n] \in Entry
  BY <1>3, <1>4 DEF Restored
<1>6. Restored \in Seq(Entry) /\ Len(Restored) = size
  <2>1. Restored \in [1 .. size -> Entry]
    BY <1>3, <1>4 DEF Restored
  <2> QED
    BY <1>2, <2>1
<1>7. ASSUME NEW m \in 1 .. size, NEW n \in 1 .. size, Restored[m] = Restored[n]
      PROVE  m = n
  <2>1. LoadSlot(nvsMeta, FoundInOrder[m]) = LoadSlot(nvsMeta, FoundInOrder[n])
    BY <1>3, <1>4, <1>7, LogAssumption DEF Restored, InItsSlot
  <2>2. FoundInOrder[m] = FoundInOrder[n]
    BY <1>4, <2>1, SlotsApart
  <2> QED
    BY <1>1, <1>2, <1>3, <1>4, <2>2
<1>8. \A n \in 1 .. size : \E s \in Slot : Restored[n] \in Entry /\ Restored[n] = nvsEntry[s]
  BY <1>3, <1>4, <1>5 DEF Restored
<1> QED
  BY <1>1, <1>2, <1>6, <1>7, <1>8, Sizes

----------------------------------------------------------------------------
\* The invariant

LogTypeOK ==
    /\ up \in BOOLEAN
    /\ entries \in [Ring -> Entry \cup {NoEntry}]
    /\ writeIndex \in Ring /\ count \in 0 .. Capacity
    /\ written \in 0 .. MaxEntries /\ boots \in 0 .. MaxBoots
    /\ sequence \in 0 .. written
    /\ held \in [Task -> InHand \cup {NoEntry}]
    /\ sinkQueue \in Seq(Entry)
    /\ sinkBusy \in Entry \cup {NoEntry}
    /\ nvsEntry \in [Slot -> Entry \cup {NoEntry}]
    /\ nvsMeta \in Meta

\* The ring is filled from its start; once it is full it stays so, until it is cleared.
FilledUp ==
    /\ count < Capacity => writeIndex = count
    /\ \A i \in Ring : i < count <=> entries[i] # NoEntry

\* Only a log in operation has anything in RAM.
EmptyWhenDown ==
    ~up => /\ count = 0 /\ sinkQueue = <<>> /\ sinkBusy = NoEntry
           /\ \A t \in Task : held[t] = NoEntry

\* Whatever is somewhere was written,
WrittenBefore ==
    /\ \A i \in Ring : entries[i] # NoEntry => entries[i].id <= written
    /\ \A i \in 1 .. Len(sinkQueue) : sinkQueue[i].id <= written
    /\ sinkBusy # NoEntry => sinkBusy.id <= written
    /\ \A s \in Slot : nvsEntry[s] # NoEntry => nvsEntry[s].id <= written
    /\ \A t \in Task : held[t] # NoEntry => /\ held[t].entry.id <= written
                                            /\ held[t].entry.seq < written

\* and an entry is in one place of the ring, or in the hand of one task.
InOnePlace ==
    /\ \A i, j \in Ring : entries[i] # NoEntry /\ entries[i] = entries[j] => i = j
    /\ \A t \in Task : held[t] # NoEntry =>
           /\ \A i \in Ring : entries[i] # held[t].entry
           /\ \A u \in Task : held[u] # NoEntry /\ held[t].entry = held[u].entry => t = u

LogInv == LogTypeOK /\ FilledUp /\ EmptyWhenDown /\ WrittenBefore /\ InOnePlace /\ InItsSlot

LEMMA LogInvInit == LogInit => LogInv
<1> SUFFICES ASSUME LogInit PROVE LogInv
  OBVIOUS
<1>1. writeIndex \in Ring /\ count \in 0 .. Capacity /\ nvsMeta \in Meta
  BY Sizes DEF LogInit, Ring, Meta, NoMeta
<1>2. written \in 0 .. MaxEntries /\ boots \in 0 .. MaxBoots /\ sequence \in 0 .. written
  BY Sizes DEF LogInit
<1>3. LogTypeOK
  BY <1>1, <1>2 DEF LogInit, LogTypeOK
<1> QED
  BY <1>3 DEF LogInit, LogInv, FilledUp, EmptyWhenDown, WrittenBefore, InOnePlace, InItsSlot, Ring

\* Entries and hands are told from NoEntry.
LEMMA EntryKnown ==
    /\ NoEntry \notin Entry /\ NoEntry \notin InHand
    /\ \A e \in Entry : e.id \in 1 .. MaxEntries /\ e.seq \in 0 .. MaxEntries
    /\ \A h \in InHand : h.entry \in Entry
  BY LogAssumption DEF Entry, InHand

\* log_manager_init
LEMMA InitLogKeeps == LogInv /\ InitLog => LogInv'
<1> SUFFICES ASSUME LogInv, InitLog PROVE LogInv'
  OBVIOUS
<1> DEFINE R == Restored
<1>1. /\ R \in Seq(Entry) /\ Len(R) \in Nat /\ Len(R) <= Capacity
      /\ \A m, n \in 1 .. Len(R) : R[m] = R[n] => m = n
      /\ \A n \in 1 .. Len(R) : R[n] \in Entry
  BY RestoredApart DEF LogInv, LogTypeOK
<1>2. \A n \in 1 .. Len(R) : R[n].id <= written
  <2>1. ASSUME NEW n \in 1 .. Len(R) PROVE R[n].id <= written
    <3>1. PICK s \in Slot : R[n] \in Entry /\ R[n] = nvsEntry[s]
      BY RestoredApart DEF LogInv, LogTypeOK
    <3> QED
      BY <3>1, EntryKnown DEF LogInv, WrittenBefore
  <2> QED
    BY <2>1
<1>3. /\ entries' = [i \in Ring |-> IF i < Len(R) THEN R[i + 1] ELSE NoEntry]
      /\ count' = Len(R) /\ writeIndex' = Len(R) % Capacity
  BY DEF InitLog
<1> HIDE DEF R
<1>4. \A i \in Ring : /\ i < Len(R) => i + 1 \in 1 .. Len(R) /\ entries'[i] = R[i + 1]
                      /\ ~(i < Len(R)) => entries'[i] = NoEntry
  BY <1>1, <1>3, Sizes DEF Ring
<1>5. writeIndex' \in Ring /\ (count' < Capacity => writeIndex' = count')
  <2>1. writeIndex' \in Ring
    BY <1>1, <1>3, Sizes, ModInRange DEF Ring
  <2>2. Len(R) < Capacity => Len(R) % Capacity = Len(R)
    BY <1>1, Sizes, ModBelow
  <2> QED
    BY <1>3, <2>1, <2>2
<1>6. LogTypeOK'
  BY <1>1, <1>3, <1>4, <1>5, Sizes DEF LogInv, LogTypeOK, InitLog, nvsVars, boundVars, Ring
<1>7. FilledUp'
  BY <1>1, <1>3, <1>4, <1>5, EntryKnown DEF FilledUp
<1>8. WrittenBefore'
  <2>1. \A i \in Ring : entries'[i] # NoEntry => entries'[i].id <= written
    BY <1>1, <1>2, <1>4 DEF LogInv, WrittenBefore
  <2> QED
    BY <2>1 DEF LogInv, WrittenBefore, InitLog, nvsVars, boundVars
<1>9. InOnePlace'
  <2>1. \A i, j \in Ring : entries'[i] # NoEntry /\ entries'[i] = entries'[j] => i = j
    BY <1>1, <1>4, EntryKnown, Sizes DEF Ring
  <2> QED
    BY <2>1 DEF LogInv, EmptyWhenDown, InOnePlace, InitLog
<1> QED
  BY <1>6, <1>7, <1>8, <1>9 DEF LogInv, EmptyWhenDown, InItsSlot, InitLog, nvsVars

\* log_manager_clear's part under the mutex, and a reset
LEMMA EmptyRingKeeps == LogInv /\ (LogReset \/ ClearRing) => LogInv'
<1> SUFFICES ASSUME LogInv, LogReset \/ ClearRing PROVE LogInv'
  OBVIOUS
<1>1. entries' = [i \in Ring |-> NoEntry] /\ count' = 0 /\ writeIndex' = 0
  BY DEF LogReset, ClearRing, EmptyRing
<1>2. \A i \in Ring : entries'[i] = NoEntry /\ ~(i < count')
  BY <1>1 DEF Ring
<1>3. FilledUp'
  BY <1>1, <1>2 DEF FilledUp
<1>4. 0 \in Ring
  BY Sizes DEF Ring
<1>5. CASE LogReset
  <2>1. held' = [t \in Task |-> NoEntry] /\ sequence' = 0 /\ sinkQueue' = <<>> /\ sinkBusy' = NoEntry
        /\ up' = FALSE /\ UNCHANGED <<nvsEntry, nvsMeta, written>>
        /\ boots < MaxBoots /\ boots' = boots + 1
    BY <1>5 DEF LogReset
  <2>2. LogTypeOK'
    <3>1. /\ entries' \in [Ring -> Entry \cup {NoEntry}]
          /\ held' \in [Task -> InHand \cup {NoEntry}]
          /\ sinkQueue' \in Seq(Entry)
      BY <1>1, <2>1
    <3>2. writeIndex' \in Ring /\ count' \in 0 .. Capacity /\ sequence' \in 0 .. written'
      BY <1>1, <1>4, <2>1, Sizes DEF LogInv, LogTypeOK
    <3>3. boots' \in 0 .. MaxBoots
      BY <2>1, Sizes DEF LogInv, LogTypeOK
    <3> QED
      BY <2>1, <3>1, <3>2, <3>3 DEF LogInv, LogTypeOK
  <2>3. WrittenBefore' /\ InOnePlace'
    BY <1>2, <2>1 DEF LogInv, WrittenBefore, InOnePlace
  <2> QED
    BY <1>1, <1>3, <2>1, <2>2, <2>3 DEF LogInv, EmptyWhenDown, InItsSlot
<1>6. CASE ClearRing
  <2>1. UNCHANGED <<up, sequence, held, sinkQueue, sinkBusy, nvsEntry, nvsMeta, written, boots>>
    BY <1>6 DEF ClearRing, nvsVars, boundVars
  <2>2. LogTypeOK'
    BY <1>1, <1>4, <2>1, Sizes DEF LogInv, LogTypeOK
  <2>3. WrittenBefore'
    BY <1>2, <2>1 DEF LogInv, WrittenBefore
  <2>4. InOnePlace'
    <3>1. \A t \in Task : held[t] # NoEntry => held[t].entry # NoEntry
      BY EntryKnown DEF LogInv, LogTypeOK
    <3> QED
      BY <1>2, <2>1, <3>1 DEF LogInv, InOnePlace
  <2> QED
    BY <1>1, <1>3, <2>1, <2>2, <2>3, <2>4 DEF LogInv, EmptyWhenDown, InItsSlot
<1> QED
  BY <1>5, <1>6

\* write_entry_va up to the load of the sequence number
LEMMA StampKeeps ==
    ASSUME LogInv, NEW t \in Task, NEW severe \in BOOLEAN, Stamp(t, severe) PROVE LogInv'
<1> DEFINE e == [id |-> written + 1, boot |-> boots, seq |-> sequence, severe |-> severe]
<1>1. /\ e \in Entry /\ e.id = written + 1 /\ e.seq = sequence
      /\ written \in Nat /\ written' = written + 1 /\ written' \in 0 .. MaxEntries
      /\ sequence \in 0 .. written
  BY Sizes DEF LogInv, LogTypeOK, Stamp, Entry
<1> HIDE DEF e
<1>2. /\ held' = [held EXCEPT ![t] = [entry |-> e, stored |-> FALSE]]
      /\ held \in [Task -> InHand \cup {NoEntry}]
  BY DEF LogInv, LogTypeOK, Stamp, e
<1>3. held'[t].entry = e /\ held'[t] \in InHand /\ \A u \in Task \ {t} : held'[u] = held[u]
  BY <1>1, <1>2 DEF InHand
<1>4. /\ \A i \in Ring : entries[i] # e
      /\ \A u \in Task \ {t} : held[u] # NoEntry => held[u].entry # e
  <2>1. \A i \in Ring : entries[i] # NoEntry => entries[i].id <= written
    BY DEF LogInv, WrittenBefore
  <2>2. \A u \in Task : held[u] # NoEntry => held[u].entry.id <= written
    BY DEF LogInv, WrittenBefore
  <2>3. ~(e.id <= written)
    BY <1>1
  <2> QED
    BY <1>1, <2>1, <2>2, <2>3, EntryKnown
<1>5. LogTypeOK'
  BY <1>1, <1>2, <1>3 DEF LogInv, LogTypeOK, Stamp, ramVars, nvsVars
<1>6. WrittenBefore'
  <2>1. ASSUME NEW u \in Task, held'[u] # NoEntry
        PROVE  held'[u].entry.id <= written' /\ held'[u].entry.seq < written'
    <3>1. CASE u = t
      BY <1>1, <1>3, <3>1
    <3>2. CASE u # t
      <4>1. held'[u] = held[u] /\ held[u].entry \in Entry
        BY <1>2, <1>3, <2>1, <3>2, EntryKnown
      <4>2. held[u].entry.id <= written /\ held[u].entry.seq < written
        BY <2>1, <4>1 DEF LogInv, WrittenBefore
      <4> QED
        BY <1>1, <4>1, <4>2, EntryKnown, Sizes
    <3> QED
      BY <3>1, <3>2
  <2>2. \A f \in Entry : f.id <= written => f.id <= written'
    BY <1>1, EntryKnown, Sizes
  <2>3. \A i \in Ring : entries[i] # NoEntry => entries[i] \in Entry
    BY DEF LogInv, LogTypeOK
  <2>4. \A s \in Slot : nvsEntry[s] # NoEntry => nvsEntry[s] \in Entry
    BY DEF LogInv, LogTypeOK
  <2>5. \A i \in 1 .. Len(sinkQueue) : sinkQueue[i] \in Entry
    BY DEF LogInv, LogTypeOK
  <2>6. sinkBusy # NoEntry => sinkBusy \in Entry
    BY DEF LogInv, LogTypeOK
  <2> QED
    BY <2>1, <2>2, <2>3, <2>4, <2>5, <2>6 DEF LogInv, WrittenBefore, Stamp, ramVars, nvsVars
<1>7. InOnePlace'
  BY <1>3, <1>4 DEF LogInv, InOnePlace, Stamp, ramVars
<1> QED
  BY <1>5, <1>6, <1>7 DEF LogInv, FilledUp, EmptyWhenDown, InItsSlot, Stamp, ramVars, nvsVars

\* The store of the incremented number
LEMMA StoreSequenceKeeps == ASSUME LogInv, NEW t \in Task, StoreSequence(t) PROVE LogInv'
<1>1. held[t] \in InHand /\ held[t].entry \in Entry /\ held[t].entry.seq < written
  BY EntryKnown DEF LogInv, LogTypeOK, WrittenBefore, StoreSequence
<1>2. held'[t].entry = held[t].entry /\ held'[t] \in InHand
  BY <1>1 DEF LogInv, LogTypeOK, StoreSequence, InHand
<1>3. \A u \in Task \ {t} : held'[u] = held[u]
  BY DEF LogInv, LogTypeOK, StoreSequence
<1>4. \A u \in Task : /\ held'[u] # NoEntry <=> held[u] # NoEntry
                      /\ held[u] # NoEntry => held'[u].entry = held[u].entry
  BY <1>1, <1>2, <1>3, EntryKnown
<1>5. sequence' \in 0 .. written /\ held' \in [Task -> InHand \cup {NoEntry}]
  <2>1. sequence' \in 0 .. written
    BY <1>1, EntryKnown, Sizes DEF LogInv, LogTypeOK, StoreSequence
  <2> QED
    BY <1>2, <2>1 DEF LogInv, LogTypeOK, StoreSequence
<1>6. LogTypeOK'
  BY <1>5 DEF LogInv, LogTypeOK, StoreSequence, ramVars, nvsVars, boundVars
<1>7. WrittenBefore' /\ InOnePlace'
  BY <1>4 DEF LogInv, WrittenBefore, InOnePlace, StoreSequence, ramVars, nvsVars, boundVars
<1> QED
  BY <1>4, <1>6, <1>7
  DEF LogInv, FilledUp, EmptyWhenDown, InItsSlot, StoreSequence, ramVars, nvsVars

\* append_entry: the ring after one more entry
LEMMA Appended ==
    ASSUME LogInv, NEW e \in Entry, AppendEntry(e)
    PROVE  /\ entries' \in [Ring -> Entry \cup {NoEntry}]
           /\ entries'[writeIndex] = e
           /\ \A i \in Ring : i # writeIndex => entries'[i] = entries[i]
           /\ writeIndex' = IF writeIndex + 1 < Capacity THEN writeIndex + 1 ELSE 0
           /\ count' = IF count < Capacity THEN count + 1 ELSE Capacity
<1>1. writeIndex' = IF writeIndex + 1 < Capacity THEN writeIndex + 1 ELSE 0
  <2>1. writeIndex' = (writeIndex + 1) % Capacity /\ writeIndex + 1 \in 0 .. Capacity
    BY Sizes DEF LogInv, LogTypeOK, AppendEntry, Ring
  <2>2. CASE writeIndex + 1 < Capacity
    <3>1. writeIndex + 1 \in 0 .. Capacity - 1
      BY <2>1, <2>2, Sizes
    <3>2. (writeIndex + 1) % Capacity = writeIndex + 1
      BY <3>1, Sizes, ModBelow
    <3> QED
      BY <2>1, <2>2, <3>2
  <2>3. CASE ~(writeIndex + 1 < Capacity)
    <3>1. writeIndex + 1 = Capacity /\ Capacity \in Capacity .. 2 * Capacity - 1
      BY <2>1, <2>3, Sizes
    <3>2. Capacity % Capacity = Capacity - Capacity
      BY <3>1, Sizes, ModOnce
    <3> QED
      BY <2>1, <2>3, <3>1, <3>2, Sizes
  <2> QED
    BY <2>2, <2>3
<1>2. entries' = [entries EXCEPT ![writeIndex] = e] /\ writeIndex \in Ring
      /\ entries \in [Ring -> Entry \cup {NoEntry}]
  BY DEF LogInv, LogTypeOK, AppendEntry
<1>3. count' = IF count < Capacity THEN count + 1 ELSE Capacity
  BY Sizes DEF LogInv, LogTypeOK, AppendEntry, Smaller
<1> QED
  BY <1>1, <1>2, <1>3

\* commit_entry
LEMMA CommitEntryKeeps == ASSUME LogInv, NEW t \in Task, CommitEntry(t) PROVE LogInv'
<1> DEFINE e == held[t].entry
<1>1. /\ e \in Entry /\ AppendEntry(e) /\ held[t] # NoEntry
      /\ UNCHANGED <<up, sequence, sinkBusy, nvsEntry, nvsMeta, written, boots>>
  BY EntryKnown DEF LogInv, LogTypeOK, CommitEntry, nvsVars, boundVars
<1>2. /\ entries' \in [Ring -> Entry \cup {NoEntry}]
      /\ entries'[writeIndex] = e
      /\ \A i \in Ring : i # writeIndex => entries'[i] = entries[i]
      /\ writeIndex' = IF writeIndex + 1 < Capacity THEN writeIndex + 1 ELSE 0
      /\ count' = IF count < Capacity THEN count + 1 ELSE Capacity
  BY <1>1, Appended
<1>3. held' = [held EXCEPT ![t] = NoEntry] /\ held \in [Task -> InHand \cup {NoEntry}]
  BY DEF LogInv, LogTypeOK, CommitEntry
<1>4. held'[t] = NoEntry /\ \A u \in Task : u # t => held'[u] = held[u]
  BY <1>3
<1>5. sinkQueue' \in Seq(Entry) /\ \A i \in 1 .. Len(sinkQueue') : sinkQueue'[i].id <= written
  <2>1. sinkQueue \in Seq(Entry) /\ (sinkQueue' = Append(sinkQueue, e) \/ sinkQueue' = sinkQueue)
    BY DEF LogInv, LogTypeOK, CommitEntry
  <2>2. e.id <= written /\ \A i \in 1 .. Len(sinkQueue) : sinkQueue[i].id <= written
    BY <1>1 DEF LogInv, WrittenBefore
  <2> HIDE DEF e
  <2> QED
    BY <1>1, <2>1, <2>2
<1>6. e.id <= written /\ (\A i \in Ring : entries[i] # e)
      /\ \A u \in Task : held[u] # NoEntry /\ u # t => held[u].entry # e
  BY <1>1 DEF LogInv, WrittenBefore, InOnePlace
<1> HIDE DEF e
<1>7. writeIndex \in Ring /\ count \in 0 .. Capacity
  BY DEF LogInv, LogTypeOK
<1>8. LogTypeOK'
  <2>1. writeIndex' \in Ring /\ count' \in 0 .. Capacity
    BY <1>2, <1>7, Sizes DEF Ring
  <2>2. held' \in [Task -> InHand \cup {NoEntry}]
    BY <1>3
  <2> QED
    BY <1>1, <1>2, <1>5, <2>1, <2>2 DEF LogInv, LogTypeOK, CommitEntry, boundVars
<1>9. FilledUp'
  <2>1. count < Capacity => writeIndex = count
    BY DEF LogInv, FilledUp
  <2>2. \A i \in Ring : i < count <=> entries[i] # NoEntry
    BY DEF LogInv, FilledUp
  <2>3. count' < Capacity => writeIndex' = count'
    BY <1>2, <1>7, <2>1, Sizes
  <2>4. ASSUME NEW i \in Ring PROVE i < count' <=> entries'[i] # NoEntry
    <3>1. i \in 0 .. Capacity - 1
      BY DEF Ring
    <3>2. CASE i = writeIndex
      BY <1>1, <1>2, <1>7, <2>1, <3>1, <3>2, EntryKnown, Sizes
    <3>3. CASE i # writeIndex
      BY <1>2, <1>7, <2>1, <2>2, <3>1, <3>3, Sizes
    <3> QED
      BY <3>2, <3>3
  <2> QED
    BY <2>3, <2>4 DEF FilledUp
<1>10. EmptyWhenDown'
  BY <1>1 DEF LogInv, EmptyWhenDown
<1>11. WrittenBefore'
  <2>1. ASSUME NEW i \in Ring, entries'[i] # NoEntry PROVE entries'[i].id <= written
    BY <1>2, <1>6, <2>1 DEF LogInv, WrittenBefore
  <2>2. ASSUME NEW u \in Task, held'[u] # NoEntry
        PROVE  held'[u].entry.id <= written /\ held'[u].entry.seq < written
    BY <1>4, <2>2 DEF LogInv, WrittenBefore
  <2> QED
    BY <1>1, <1>5, <2>1, <2>2 DEF LogInv, WrittenBefore
<1>12. InOnePlace'
  <2>1. ASSUME NEW i \in Ring, NEW j \in Ring, entries'[i] # NoEntry, entries'[i] = entries'[j]
        PROVE  i = j
    BY <1>2, <1>6, <2>1 DEF LogInv, InOnePlace
  <2>2. ASSUME NEW u \in Task, held'[u] # NoEntry
        PROVE  /\ \A i \in Ring : entries'[i] # held'[u].entry
               /\ \A v \in Task : held'[v] # NoEntry /\ held'[u].entry = held'[v].entry => u = v
    BY <1>2, <1>4, <1>6, <2>2 DEF LogInv, InOnePlace
  <2> QED
    BY <2>1, <2>2 DEF InOnePlace
<1> QED
  BY <1>1, <1>8, <1>9, <1>10, <1>11, <1>12 DEF LogInv, InItsSlot

\* The dispatch task: what it takes, saves and counts
LEMMA DispatchKeeps == LogInv /\ Dispatch => LogInv'
<1> SUFFICES ASSUME LogInv, Dispatch PROVE LogInv'
  OBVIOUS
<1>1. CASE TakeEntry
  <2>1. sinkQueue \in Seq(Entry) /\ sinkQueue # <<>>
    BY <1>1 DEF LogInv, LogTypeOK, TakeEntry
  <2>2. /\ sinkQueue' \in Seq(Entry) /\ sinkBusy' \in Entry \cup {NoEntry}
        /\ \A i \in 1 .. Len(sinkQueue') : i + 1 \in 1 .. Len(sinkQueue) /\ sinkQueue'[i] = sinkQueue[i + 1]
        /\ sinkBusy' # NoEntry => sinkBusy' = sinkQueue[1]
    BY <1>1, <2>1 DEF TakeEntry
  <2>3. /\ \A i \in 1 .. Len(sinkQueue') : sinkQueue'[i].id <= written
        /\ sinkBusy' # NoEntry => sinkBusy'.id <= written
    BY <2>1, <2>2 DEF LogInv, WrittenBefore
  <2>4. UNCHANGED <<up, entries, writeIndex, count, sequence, held, nvsEntry, nvsMeta, written, boots>> /\ up
    BY <1>1 DEF TakeEntry, ramVars, nvsVars, boundVars
  <2> QED
    BY <2>2, <2>3, <2>4
    DEF LogInv, LogTypeOK, FilledUp, EmptyWhenDown, WrittenBefore, InOnePlace, InItsSlot
<1>2. CASE SaveEntry
  <2>1. UNCHANGED <<up, entries, writeIndex, count, sequence, held, sinkQueue, nvsMeta, written, boots>>
        /\ sinkBusy' = NoEntry /\ sinkBusy \in Entry
    BY <1>2 DEF LogInv, LogTypeOK, SaveEntry, ramVars, boundVars
  <2>2. /\ nvsEntry' \in [Slot -> Entry \cup {NoEntry}]
        /\ \A s \in Slot : nvsEntry'[s] # NoEntry =>
               nvsEntry'[s].id <= written /\ nvsEntry'[s].seq % NvsSlots = s
    <3>1. CASE nvsEntry' = nvsEntry
      BY <3>1 DEF LogInv, LogTypeOK, WrittenBefore, InItsSlot
    <3>2. CASE nvsEntry' = [nvsEntry EXCEPT ![sinkBusy.seq % NvsSlots] = sinkBusy]
      <4>1. sinkBusy.id <= written
        BY <2>1, EntryKnown DEF LogInv, WrittenBefore
      <4>2. ASSUME NEW s \in Slot PROVE nvsEntry'[s] = IF s = sinkBusy.seq % NvsSlots THEN sinkBusy ELSE nvsEntry[s]
        BY <3>2 DEF LogInv, LogTypeOK
      <4> QED
        BY <2>1, <3>2, <4>1, <4>2 DEF LogInv, LogTypeOK, WrittenBefore, InItsSlot
    <3> QED
      BY <1>2, <3>1, <3>2 DEF SaveEntry
  <2> QED
    BY <2>1, <2>2
    DEF LogInv, LogTypeOK, FilledUp, EmptyWhenDown, WrittenBefore, InOnePlace, InItsSlot
<1>3. CASE SaveMeta
  <2>1. MetaNow \in Meta
    BY DEF LogInv, LogTypeOK, MetaNow, Meta, Ring
  <2>2. UNCHANGED <<up, entries, writeIndex, count, sequence, held, sinkQueue, sinkBusy, nvsEntry, written, boots>>
        /\ nvsMeta' \in Meta
    BY <1>3, <2>1 DEF LogInv, LogTypeOK, SaveMeta, ramVars, boundVars
  <2> QED
    BY <2>2 DEF LogInv, LogTypeOK, FilledUp, EmptyWhenDown, WrittenBefore, InOnePlace, InItsSlot
<1> QED
  BY <1>1, <1>2, <1>3 DEF Dispatch

\* What is left of log_manager_clear, and the configuration
LEMMA WebKeeps ==
    LogInv /\ (EraseNvs \/ WriteConfig \/ (\E c \in ConfigChoice : ReadConfig(c))) => LogInv'
<1> SUFFICES ASSUME LogInv, EraseNvs \/ WriteConfig \/ \E c \in ConfigChoice : ReadConfig(c)
             PROVE  LogInv'
  OBVIOUS
<1>1. UNCHANGED <<up, entries, writeIndex, count, sequence, held, sinkQueue, sinkBusy, written, boots>>
  BY DEF EraseNvs, WriteConfig, ReadConfig, ramVars, boundVars
<1>2. /\ nvsEntry' \in [Slot -> Entry \cup {NoEntry}] /\ nvsMeta' \in Meta
      /\ \A s \in Slot : nvsEntry'[s] # NoEntry => nvsEntry'[s] = nvsEntry[s]
  <2>1. NoMeta \in Meta
    BY Sizes DEF NoMeta, Meta
  <2>2. \/ nvsEntry' = nvsEntry /\ nvsMeta' = nvsMeta
        \/ nvsEntry' = [s \in Slot |-> NoEntry] /\ nvsMeta' = NoMeta
    BY DEF EraseNvs, WriteConfig, ReadConfig, nvsVars
  <2> QED
    BY <2>1, <2>2 DEF LogInv, LogTypeOK
<1> QED
  BY <1>1, <1>2 DEF LogInv, LogTypeOK, FilledUp, EmptyWhenDown, WrittenBefore, InOnePlace, InItsSlot

LEMMA LogInvNext == LogInv /\ [LogNext]_logVars => LogInv'
<1> SUFFICES ASSUME LogInv, [LogNext]_logVars PROVE LogInv'
  OBVIOUS
<1>1. CASE InitLog
  BY <1>1, InitLogKeeps
<1>2. CASE LogReset \/ ClearRing
  BY <1>2, EmptyRingKeeps
<1>3. ASSUME NEW t \in Task, NEW severe \in BOOLEAN, Stamp(t, severe) PROVE LogInv'
  BY <1>3, StampKeeps
<1>4. ASSUME NEW t \in Task, StoreSequence(t) PROVE LogInv'
  BY <1>4, StoreSequenceKeeps
<1>5. ASSUME NEW t \in Task, CommitEntry(t) PROVE LogInv'
  BY <1>5, CommitEntryKeeps
<1>6. CASE Dispatch
  BY <1>6, DispatchKeeps
<1>7. CASE EraseNvs \/ WriteConfig \/ \E c \in ConfigChoice : ReadConfig(c)
  BY <1>7, WebKeeps
<1>8. CASE UNCHANGED logVars
  BY <1>8
  DEF logVars, LogInv, LogTypeOK, FilledUp, EmptyWhenDown, WrittenBefore, InOnePlace, InItsSlot
<1> QED
  BY <1>1, <1>2, <1>3, <1>4, <1>5, <1>6, <1>7, <1>8 DEF LogNext, Write, LogRequest

LEMMA LogInvHolds == LogSpec => []LogInv
<1> QED
  BY LogInvInit, LogInvNext, PTL DEF LogSpec

----------------------------------------------------------------------------
\* The readers

\* log_manager_get_recent, by places
LEMMA RecentByPlace ==
    ASSUME LogInv, NEW i \in 1 .. count
    PROVE  /\ count + 1 - i \in 1 .. count
           /\ GetRecent[count + 1 - i] = entries[PlaceOf(writeIndex, count, i)]
<1>1. writeIndex \in Ring /\ count \in 0 .. Capacity /\ (count < Capacity => writeIndex = count)
  BY DEF LogInv, LogTypeOK, FilledUp
<1>2. count + 1 - i \in 1 .. count
  BY <1>1
<1> QED
  BY <1>1, <1>2, PlaceFromNewest DEF GetRecent

\* log_manager_get_entry, by places
LEMMA EntryByPlace ==
    ASSUME LogInv, NEW i \in 1 .. count
    PROVE  GetEntry(i - 1) = entries[PlaceOf(writeIndex, count, i)]
<1>1. writeIndex \in Ring /\ count \in 0 .. Capacity
  BY DEF LogInv, LogTypeOK
<1>2. (IF count < Capacity THEN i - 1 ELSE (writeIndex + (i - 1)) % Capacity)
         = PlaceOf(writeIndex, count, i)
  BY <1>1, PlaceByIndex
<1> QED
  BY <1>2 DEF GetEntry

LEMMA InvReadersAgree == LogInv => ReadersAgree
<1> SUFFICES ASSUME LogInv PROVE ReadersAgree
  OBVIOUS
<1> DEFINE at(i) == PlaceOf(writeIndex, count, i)
<1>1. writeIndex \in Ring /\ count \in 0 .. Capacity /\ count \in Nat
  BY Sizes DEF LogInv, LogTypeOK
<1>2. \A i \in 1 .. count : GetEntry(i - 1) = Exported[count + 1 - i]
  BY EntryByPlace, RecentByPlace DEF Exported
<1>3. Verified = {at(i) : i \in 1 .. count}
  <2>1. \A i \in 1 .. count :
           (IF count < Capacity THEN i - 1 ELSE (writeIndex + (i - 1)) % Capacity) = at(i)
    BY <1>1, PlaceByIndex
  <2> HIDE DEF at
  <2>2. ASSUME NEW s \in Verified PROVE s \in {at(i) : i \in 1 .. count}
    <3>1. PICK k \in 0 .. count - 1 :
             s = IF count < Capacity THEN k ELSE (writeIndex + k) % Capacity
      BY DEF Verified
    <3>2. k + 1 \in 1 .. count /\ (k + 1) - 1 = k
      BY <1>1
    <3>3. s = at(k + 1)
      BY <2>1, <3>1, <3>2
    <3> QED
      BY <3>2, <3>3
  <2>3. ASSUME NEW i \in 1 .. count PROVE at(i) \in Verified
    <3>1. i - 1 \in 0 .. count - 1
      BY <1>1
    <3> QED
      BY <2>1, <3>1 DEF Verified
  <2> QED
    BY <2>2, <2>3
<1>4. {entries[s] : s \in Verified} = {Shown[i] : i \in 1 .. count}
  <2>1. \A i \in 1 .. count : Shown[count + 1 - i] = entries[at(i)]
    BY RecentByPlace DEF Shown
  <2>2. \A i \in 1 .. count : count + 1 - i \in 1 .. count /\ count + 1 - (count + 1 - i) = i
    BY <1>1
  <2> HIDE DEF at
  <2>3. ASSUME NEW i \in 1 .. count PROVE entries[at(i)] \in {Shown[k] : k \in 1 .. count}
    BY <2>1, <2>2
  <2>4. ASSUME NEW i \in 1 .. count PROVE Shown[i] \in {entries[s] : s \in Verified}
    <3>1. Shown[i] = entries[at(count + 1 - i)]
      BY <2>1, <2>2
    <3> QED
      BY <1>3, <2>2, <3>1
  <2> QED
    BY <1>3, <2>3, <2>4
<1>5. NoEntry \notin {entries[s] : s \in Verified}
  <2>1. \A i \in 1 .. count : at(i) \in Ring /\ at(i) < count
    BY <1>1, PlacesApart
  <2> HIDE DEF at
  <2> QED
    BY <1>3, <2>1 DEF LogInv, FilledUp
<1> QED
  BY <1>2, <1>4, <1>5 DEF ReadersAgree

(* Whatever was written, cleared and restored, page, export, index and the check of the
   checksums go over the same entries, for every capacity of the ring. *)
THEOREM ReadersSeeOneLog == LogSpec => []ReadersAgree
  BY LogInvHolds, InvReadersAgree, PTL

----------------------------------------------------------------------------
\* The abstract log

\* What the log holds, oldest first, by places
HeldByPlace == OldestFirst = [i \in 1 .. count |-> entries[PlaceOf(writeIndex, count, i)]]

LEMMA OldestByPlace == LogInv => HeldByPlace
  BY RecentByPlace DEF OldestFirst, HeldByPlace

LEMMA OldestByPlaceNext == LogInv' => HeldByPlace'
  BY OldestByPlace, PTL

\* It is a sequence of count entries, none of them twice.
OldestIsApart ==
    /\ OldestFirst \in Seq(Entry) /\ Len(OldestFirst) = count
    /\ Log!Distinct(OldestFirst)

LEMMA OldestApart == LogInv => OldestIsApart
<1> SUFFICES ASSUME LogInv PROVE OldestIsApart
  OBVIOUS
<1> DEFINE at(i) == PlaceOf(writeIndex, count, i)
<1>1. writeIndex \in Ring /\ count \in 0 .. Capacity /\ count \in Nat
  BY Sizes DEF LogInv, LogTypeOK
<1>2. /\ \A i \in 1 .. count : at(i) \in Ring /\ at(i) < count
      /\ \A i, j \in 1 .. count : at(i) = at(j) => i = j
  BY <1>1, PlacesApart
<1>3. OldestFirst = [i \in 1 .. count |-> entries[at(i)]]
  BY OldestByPlace DEF HeldByPlace
<1> HIDE DEF at
<1>4. \A i \in 1 .. count : entries[at(i)] \in Entry
  BY <1>2 DEF LogInv, LogTypeOK, FilledUp
<1>5. OldestFirst \in Seq(Entry) /\ Len(OldestFirst) = count
  BY <1>1, <1>3, <1>4
<1>6. ASSUME NEW i \in 1 .. count, NEW j \in 1 .. count, OldestFirst[i] = OldestFirst[j]
      PROVE  i = j
  BY <1>2, <1>3, <1>4, <1>6, EntryKnown DEF LogInv, InOnePlace
<1> QED
  BY <1>3, <1>5, <1>6 DEF OldestIsApart, Log!Distinct

LEMMA OldestApartNext == LogInv' => OldestIsApart'
  BY OldestApart, PTL

\* commit_entry adds to the log what its task had in hand, and the oldest entry makes room.
LEMMA CommitAdds == ASSUME LogInv, LogInv', NEW t \in Task, CommitEntry(t) PROVE Log!Add
<1> DEFINE e == held[t].entry
           O == OldestFirst
           at(i) == PlaceOf(writeIndex, count, i)
           atNext(i) == PlaceOf(writeIndex', count', i)
<1>1. e \in Entry /\ AppendEntry(e) /\ up /\ up' = up
  BY EntryKnown DEF LogInv, LogTypeOK, EmptyWhenDown, CommitEntry
<1>2. /\ entries'[writeIndex] = e
      /\ \A i \in Ring : i # writeIndex => entries'[i] = entries[i]
      /\ writeIndex' = IF writeIndex + 1 < Capacity THEN writeIndex + 1 ELSE 0
      /\ count' = IF count < Capacity THEN count + 1 ELSE Capacity
  BY <1>1, Appended
<1>3. /\ writeIndex \in Ring /\ writeIndex \in 0 .. Capacity - 1
      /\ count \in 0 .. Capacity /\ (count < Capacity => writeIndex = count)
  BY DEF LogInv, LogTypeOK, FilledUp, Ring
<1>4. /\ O \in Seq(Entry) /\ Len(O) = count
      /\ O' \in Seq(Entry) /\ Len(O') = count' /\ Log!Distinct(O')
  BY OldestApart, OldestApartNext DEF OldestIsApart, Log!Distinct
<1>5. /\ \A i \in 1 .. count : O[i] = entries[at(i)]
      /\ \A i \in 1 .. count' : O'[i] = entries'[atNext(i)]
  BY OldestByPlace, OldestByPlaceNext DEF HeldByPlace
<1>6. \A i \in 1 .. count : at(i) \in Ring
  BY <1>3, PlacesApart
<1> HIDE DEF e, O
<1>7. CASE count < Capacity
  <2>1. count' = count + 1 /\ atNext(count + 1) = writeIndex
        /\ \A i \in 1 .. count : i \in 1 .. count' /\ atNext(i) = at(i) /\ at(i) # writeIndex
    BY <1>2, <1>3, <1>7, Sizes DEF PlaceOf
  <2> HIDE DEF at, atNext
  <2>2. \A i \in 1 .. count : O'[i] = O[i]
    BY <1>2, <1>3, <1>5, <1>6, <2>1
  <2>3. O'[count + 1] = e
    BY <1>2, <1>3, <1>5, <2>1
  <2>4. O' = Append(O, e)
    BY <1>1, <1>3, <1>4, <2>1, <2>2, <2>3
  <2>5. Len(Append(O, e)) = count + 1 /\ ~(count + 1 > Capacity) /\ O'[Len(O')] = e /\ O' # <<>>
    BY <1>1, <1>3, <1>4, <1>7, <2>1, <2>3, <2>4, Sizes
  <2> QED
    BY <1>1, <1>4, <2>4, <2>5 DEF Log!Add, O
<1>8. CASE count = Capacity
  <2>1. count' = count /\ atNext(count) = writeIndex
        /\ \A i \in 1 .. count - 1 : atNext(i) = at(i + 1) /\ at(i + 1) # writeIndex
    BY <1>2, <1>3, <1>8, Sizes DEF PlaceOf
  <2> HIDE DEF at, atNext
  <2>2. \A i \in 1 .. count - 1 : i \in 1 .. count' /\ i + 1 \in 1 .. count
    BY <1>3, <2>1
  <2>3. \A i \in 1 .. count - 1 : O'[i] = O[i + 1]
    BY <1>2, <1>5, <1>6, <2>1, <2>2
  <2>4. count \in 1 .. count' /\ O'[count] = e
    BY <1>2, <1>3, <1>5, <1>8, <2>1, Sizes
  <2> DEFINE last == Append(O, e)
  <2>5. /\ last \in Seq(Entry) /\ Len(last) = count + 1 /\ last[count + 1] = e
        /\ \A i \in 1 .. count : last[i] = O[i]
    BY <1>1, <1>3, <1>4
  <2> HIDE DEF last
  <2>6. O' = Tail(last)
    <3>1. Tail(last) \in Seq(Entry) /\ Len(Tail(last)) = count
          /\ \A i \in 1 .. count : Tail(last)[i] = last[i + 1]
      BY <1>3, <1>8, <2>5, Sizes
    <3>2. \A i \in 1 .. count : O'[i] = Tail(last)[i]
      <4>1. ASSUME NEW i \in 1 .. count PROVE O'[i] = Tail(last)[i]
        <5>1. CASE i = count
          BY <2>4, <2>5, <3>1, <5>1
        <5>2. CASE i # count
          BY <1>3, <2>2, <2>3, <2>5, <3>1, <5>2
        <5> QED
          BY <5>1, <5>2
      <4> QED
        BY <4>1
    <3> QED
      BY <1>4, <2>1, <3>1, <3>2
  <2>7. Len(last) > Capacity /\ O'[Len(O')] = e /\ O' # <<>>
    BY <1>3, <1>4, <1>8, <2>1, <2>4, <2>5, Sizes
  <2> QED
    BY <1>1, <1>4, <2>6, <2>7 DEF Log!Add, O, last
<1> QED
  BY <1>3, <1>7, <1>8, Sizes

\* Every step is one of the abstract log, or none.
LEMMA LogStep ==
    ASSUME LogInv, LogInv', [LogNext]_logVars
    PROVE  [Log!RecentNext]_<<OldestFirst, up>>
<1>1. OldestIsApart /\ OldestIsApart'
  BY OldestApart, OldestApartNext
<1>2. HeldByPlace /\ HeldByPlace'
  BY OldestByPlace, OldestByPlaceNext
<1>3. CASE InitLog
  <2>1. ~up /\ up' /\ count' <= Capacity
    BY <1>3, Sizes DEF InitLog, LogInv, LogTypeOK
  <2> QED
    BY <1>1, <2>1 DEF OldestIsApart, Log!RecentNext, Log!Start, Log!Distinct
<1>4. CASE LogReset \/ ClearRing
  <2>1. up /\ count' = 0 /\ (~up' \/ up')
    BY <1>4 DEF LogReset, ClearRing, EmptyRing
  <2>2. OldestFirst' = <<>>
    BY <1>1, <2>1 DEF OldestIsApart
  <2> QED
    BY <2>1, <2>2 DEF Log!RecentNext, Log!Wipe, Log!Stop
<1>5. ASSUME NEW t \in Task, CommitEntry(t) PROVE Log!Add
  BY <1>5, CommitAdds
<1>6. CASE UNCHANGED ramVars
  BY <1>2, <1>6 DEF HeldByPlace, ramVars
<1>7. InitLog \/ LogReset \/ ClearRing \/ (\E t \in Task : CommitEntry(t)) \/ UNCHANGED ramVars
  BY DEF LogNext, Write, Dispatch, LogRequest, Stamp, StoreSequence, TakeEntry, SaveEntry, SaveMeta,
         EraseNvs, ReadConfig, WriteConfig, ramVars, logVars
<1> QED
  BY <1>3, <1>4, <1>5, <1>6, <1>7 DEF Log!RecentNext

(* The ring with its index and its count is a log of the last Capacity entries, for every
   capacity, number of slots, of writers and of boots: what is committed is added at the end
   and the oldest makes room, a clear empties it, and no entry is ever in it twice, the ones a
   restart brings back included. *)
THEOREM LogIsRecentLog == LogSpec => ImplementsRecentLog
<1>1. LogInit => Log!RecentInit
  <2> SUFFICES ASSUME LogInit PROVE Log!RecentInit
    OBVIOUS
  <2>1. OldestIsApart /\ count = 0 /\ ~up
    BY LogInvInit, OldestApart DEF LogInit
  <2> QED
    BY <2>1 DEF OldestIsApart, Log!RecentInit
<1>2. LogInv /\ LogInv' /\ [LogNext]_logVars => [Log!RecentNext]_<<OldestFirst, up>>
  BY LogStep
<1> QED
  BY <1>1, <1>2, LogInvHolds, PTL DEF LogSpec, ImplementsRecentLog, Log!RecentSpec

----------------------------------------------------------------------------
\* What a restart would pass over

\* A whole number of divisors more leaves the remainder alone.
LEMMA ModShift ==
    ASSUME NEW n \in Nat \ {0}, NEW q \in Int, NEW a \in 0 .. n - 1 PROVE (n * q + a) % n = a
<1> DEFINE p == (n * q + a) \div n
           b == (n * q + a) % n
<1>1. p \in Int /\ n * q + a = n * p + b /\ b \in 0 .. n - 1
  BY DivMod, ModInRange
<1> HIDE DEF p, b
<1>2. n * (q - p) = b - a /\ n * (p - q) = a - b
  BY <1>1
<1>3. ~(q - p > 0) /\ ~(p - q > 0)
  BY <1>1, <1>2, MultipleAtLeast
<1>4. q = p
  BY <1>1, <1>3
<1> QED
  BY <1>1, <1>4 DEF b

\* A remainder is no more than the number.
LEMMA ModAtMost == ASSUME NEW n \in Nat \ {0}, NEW a \in Nat PROVE a % n <= a
  OBVIOUS

Holding == {t \in Task : held[t] # NoEntry}
Queued == {sinkQueue[i] : i \in 1 .. Len(sinkQueue)}

\* The slots of the numbers that other writers may have drawn ahead of the last meta
Ahead == {s \in Slot : nvsMeta.count <= s /\ s <= nvsMeta.count + Cardinality(Task) - 2}

\* A meta is never more than MetaEvery writes old.
SavesAreCounted ==
    metaDue \in 0 .. MetaEvery /\ (sinkBusy # NoEntry => metaDue < MetaEvery)

\* The NVS is erased in the course of a clear only.
ClearIsNoted == web.step = "erase" => disturbed

\* Nothing is of a session to come.
NoneFromLater ==
    /\ \A s \in Slot : nvsEntry[s] # NoEntry => nvsEntry[s].boot <= boots
    /\ \A t \in Task : held[t] # NoEntry => held[t].entry.boot <= boots
    /\ \A e \in Queued : e.boot <= boots
    /\ sinkBusy # NoEntry => sinkBusy.boot <= boots

\* Until the ring is full, the numbers drawn are no more than the entries in it and in hand,
NumbersKeepUp ==
    ~disturbed /\ count < Capacity =>
        /\ sequence <= count + Cardinality(Holding)
        /\ \A t \in Task : held[t] # NoEntry => held[t].entry.seq + 1 <= count + Cardinality(Holding)

\* and a committed one is ahead of the ring by what the other writers have in hand at most.
CommittedKeepUp ==
    ~disturbed /\ count < Capacity =>
        LET limit == count + Cardinality(Task) - 2
        IN /\ \A e \in Queued : e.seq <= limit
           /\ sinkBusy # NoEntry => sinkBusy.seq <= limit
           /\ \A s \in Slot : nvsEntry[s] # NoEntry /\ nvsEntry[s].boot = boots
                                => nvsEntry[s].seq <= limit

\* What is passed over otherwise was written since the last meta.
SavedSinceMeta == ~disturbed => Cardinality(PassedOver \ Ahead) <= metaDue

KeepInv ==
    /\ SavesAreCounted /\ ClearIsNoted /\ NoneFromLater
    /\ NumbersKeepUp /\ CommittedKeepUp /\ SavedSinceMeta

\* The numbers that are compared
LEMMA Counts ==
    ASSUME LogInv
    PROVE  /\ Cardinality(Task) \in Nat \ {0} /\ MetaEvery \in Nat \ {0}
           /\ IsFiniteSet(Holding) /\ Cardinality(Holding) \in 0 .. Cardinality(Task)
           /\ count \in 0 .. Capacity /\ Capacity \in Nat \ {0} /\ NvsSlots \in 1 .. Capacity
           /\ sequence \in Nat /\ boots \in Nat
           /\ \A t \in Task : held[t] # NoEntry => held[t].entry.seq \in Nat /\ held[t].entry.boot \in Nat
           /\ \A e \in Queued : e.seq \in Nat /\ e.boot \in Nat /\ e \in Entry
           /\ sinkBusy # NoEntry => sinkBusy.seq \in Nat /\ sinkBusy.boot \in Nat
           /\ \A s \in Slot : nvsEntry[s] # NoEntry => nvsEntry[s].seq \in Nat /\ nvsEntry[s].boot \in Nat
<1>1. /\ IsFiniteSet(Task) /\ Task # {} /\ MetaEvery \in Nat \ {0}
  BY LogAssumption
<1>2. Cardinality(Task) \in Nat \ {0}
  BY <1>1, FS_CardinalityType, FS_EmptySet
<1>3. IsFiniteSet(Holding) /\ Cardinality(Holding) \in Nat /\ Cardinality(Holding) <= Cardinality(Task)
  BY <1>1, FS_Subset, FS_CardinalityType DEF Holding
<1>4. \A e \in Entry : e.seq \in Nat /\ e.boot \in Nat
  BY Sizes DEF Entry
<1>5. \A e \in Queued : e \in Entry
  BY DEF Queued, LogInv, LogTypeOK
<1>6. count \in 0 .. Capacity /\ sequence \in Nat /\ boots \in Nat
  BY Sizes DEF LogInv, LogTypeOK
<1>7. \A t \in Task : held[t] # NoEntry => held[t].entry \in Entry
  BY EntryKnown DEF LogInv, LogTypeOK
<1>8. /\ sinkBusy # NoEntry => sinkBusy \in Entry
      /\ \A s \in Slot : nvsEntry[s] # NoEntry => nvsEntry[s] \in Entry
  BY DEF LogInv, LogTypeOK
<1> QED
  BY <1>1, <1>2, <1>3, <1>4, <1>5, <1>6, <1>7, <1>8, Sizes

LEMMA SlotsFinite == \A S \in SUBSET Slot : IsFiniteSet(S) /\ Cardinality(S) \in Nat
<1>1. IsFiniteSet(Slot)
  BY Sizes, FS_Interval DEF Slot
<1> QED
  BY <1>1, FS_Subset, FS_CardinalityType

\* The invariant says what is claimed.
LEMMA InvPersistedIsListed == LogInv /\ KeepInv => PersistedIsListed
<1> SUFFICES ASSUME LogInv, KeepInv, ~disturbed
             PROVE  Cardinality(PassedOver) <= MetaEvery + Cardinality(Task) - 1
  BY DEF PersistedIsListed
<1> DEFINE T == Cardinality(Task)
           c == nvsMeta.count
<1>1. T \in Nat \ {0} /\ MetaEvery \in Nat /\ c \in Nat
  BY Counts DEF LogInv, LogTypeOK, Meta
<1> HIDE DEF T, c
<1>2. PassedOver \in SUBSET Slot /\ Ahead \in SUBSET Slot
  BY DEF PassedOver, Ahead
<1>3. Cardinality(PassedOver \ Ahead) \in Nat /\ Cardinality(PassedOver \ Ahead) <= MetaEvery
  BY <1>1, <1>2, SlotsFinite DEF KeepInv, SavesAreCounted, SavedSinceMeta
<1>4. IsFiniteSet(Ahead) /\ Cardinality(Ahead) \in Nat /\ Cardinality(Ahead) <= T - 1
  <2>1. IsFiniteSet(c .. c + T - 2) /\ Cardinality(c .. c + T - 2) = T - 1
    <3> DEFINE d == c + T - 2
    <3>1. c \in Int /\ d \in Int /\ d >= c - 1 /\ d - c + 1 = T - 1 /\ (c > d => T - 1 = 0)
      BY <1>1
    <3> HIDE DEF d
    <3>2. IsFiniteSet(c .. d) /\ Cardinality(c .. d) = IF c > d THEN 0 ELSE d - c + 1
      BY <3>1, FS_Interval
    <3>3. Cardinality(c .. d) = T - 1
      BY <3>1, <3>2
    <3> QED
      BY <3>2, <3>3 DEF d
  <2>2. Ahead \in SUBSET (c .. c + T - 2)
    BY <1>1 DEF Ahead, Slot, T, c
  <2> QED
    BY <2>1, <2>2, FS_Subset, FS_CardinalityType
<1>5. Cardinality((PassedOver \ Ahead) \cup Ahead) <= Cardinality(PassedOver \ Ahead) + Cardinality(Ahead)
  <2> DEFINE P == PassedOver \ Ahead
  <2>1. IsFiniteSet(P) /\ IsFiniteSet(Ahead) /\ P \cap Ahead = {}
    BY <1>2, SlotsFinite
  <2> HIDE DEF P
  <2>2. Cardinality(P \cup Ahead) = Cardinality(P) + Cardinality(Ahead) - Cardinality(P \cap Ahead)
    BY <2>1, FS_Union
  <2>3. Cardinality(P \cap Ahead) = 0
    BY <2>1, FS_EmptySet
  <2>4. Cardinality(P) \in Nat
    BY <1>3 DEF P
  <2>5. Cardinality(P \cup Ahead) <= Cardinality(P) + Cardinality(Ahead)
    BY <1>4, <2>2, <2>3, <2>4
  <2> QED
    BY <2>5 DEF P
<1>6. /\ PassedOver \in SUBSET ((PassedOver \ Ahead) \cup Ahead)
      /\ (PassedOver \ Ahead) \cup Ahead \in SUBSET Slot
  BY <1>2
<1>7. Cardinality(PassedOver) <= Cardinality((PassedOver \ Ahead) \cup Ahead)
  BY <1>6, SlotsFinite, FS_Subset
<1>8. Cardinality(PassedOver) \in Nat /\ Cardinality((PassedOver \ Ahead) \cup Ahead) \in Nat
  BY <1>2, <1>6, SlotsFinite
<1> QED
  BY <1>1, <1>3, <1>4, <1>5, <1>7, <1>8 DEF T

\* What the steps of the writers leave alone
LEMMA WriteLeaves ==
    ASSUME Write
    PROVE  UNCHANGED <<sinkBusy, metaDue, nvsEntry, nvsMeta, web, boots, disturbed>>
  BY DEF Write, Stamp, StoreSequence, CommitEntry, nvsVars, boundVars

LEMMA WriteSaves == LogInv /\ KeepInv /\ Write => SavesAreCounted' /\ ClearIsNoted' /\ SavedSinceMeta'
<1> SUFFICES ASSUME KeepInv, Write PROVE SavesAreCounted' /\ ClearIsNoted' /\ SavedSinceMeta'
  OBVIOUS
<1>1. UNCHANGED <<sinkBusy, metaDue, nvsEntry, nvsMeta, web, boots, disturbed>>
  BY WriteLeaves
<1>2. PassedOver' = PassedOver /\ Ahead' = Ahead
  BY <1>1 DEF PassedOver, Ahead, Listed, LoadOrder, LoadSlot, LoadCount
<1> QED
  BY <1>1, <1>2 DEF KeepInv, SavesAreCounted, ClearIsNoted, SavedSinceMeta

\* write_entry_va up to the load of the sequence number
LEMMA StampKeepsUp ==
    ASSUME LogInv, LogInv', KeepInv, NEW t \in Task, NEW severe \in BOOLEAN, Stamp(t, severe)
    PROVE  NoneFromLater' /\ NumbersKeepUp' /\ CommittedKeepUp'
<1>1. /\ UNCHANGED <<count, sequence, sinkQueue, sinkBusy, nvsEntry, boots, disturbed>>
      /\ held[t] = NoEntry
  BY DEF Stamp, ramVars, nvsVars
<1>2. /\ held'[t] # NoEntry /\ held'[t].entry.seq = sequence /\ held'[t].entry.boot = boots
      /\ \A u \in Task : u # t => held'[u] = held[u]
  <2> DEFINE hand == [entry |-> [id |-> written + 1, boot |-> boots, seq |-> sequence,
                                 severe |-> severe],
                      stored |-> FALSE]
  <2>1. held' = [held EXCEPT ![t] = hand] /\ held \in [Task -> InHand \cup {NoEntry}]
    BY DEF Stamp, LogInv, LogTypeOK
  <2>2. held'[t] = hand /\ \A u \in Task : u # t => held'[u] = held[u]
    BY <2>1
  <2>3. hand \in InHand
    BY Sizes DEF Stamp, LogInv, LogTypeOK, InHand, Entry
  <2>4. hand.entry.seq = sequence /\ hand.entry.boot = boots
    OBVIOUS
  <2> HIDE DEF hand
  <2> QED
    BY <2>2, <2>3, <2>4, EntryKnown
<1>3. Holding' = Holding \cup {t} /\ t \notin Holding
  BY <1>1, <1>2 DEF Holding
<1>4. Cardinality(Holding') = Cardinality(Holding) + 1
  BY <1>3, Counts, FS_AddElement
<1>5. NoneFromLater'
  <2>1. \A u \in Task : held'[u] # NoEntry => held'[u].entry.boot <= boots
    BY <1>2, Counts DEF KeepInv, NoneFromLater
  <2> QED
    BY <1>1, <2>1 DEF KeepInv, NoneFromLater, Queued
<1>6. NumbersKeepUp'
  <2> SUFFICES ASSUME ~disturbed, count < Capacity
               PROVE  /\ sequence <= count + Cardinality(Holding')
                      /\ \A u \in Task : held'[u] # NoEntry =>
                            held'[u].entry.seq + 1 <= count + Cardinality(Holding')
    BY <1>1 DEF NumbersKeepUp
  <2>1. /\ sequence <= count + Cardinality(Holding)
        /\ \A u \in Task : held[u] # NoEntry => held[u].entry.seq + 1 <= count + Cardinality(Holding)
    BY DEF KeepInv, NumbersKeepUp
  <2>2. sequence + 1 <= count + Cardinality(Holding')
    BY <1>4, <2>1, Counts
  <2>3. ASSUME NEW u \in Task, held'[u] # NoEntry
        PROVE  held'[u].entry.seq + 1 <= count + Cardinality(Holding')
    <3>1. CASE u = t
      BY <1>2, <2>2, <3>1
    <3>2. CASE u # t
      BY <1>2, <1>4, <2>1, <2>3, <3>2, Counts
    <3> QED
      BY <3>1, <3>2
  <2> QED
    BY <1>4, <2>1, <2>3, Counts
<1>7. CommittedKeepUp'
  BY <1>1 DEF KeepInv, CommittedKeepUp, Queued
<1> QED
  BY <1>5, <1>6, <1>7

\* The store of the incremented number
LEMMA StoreKeepsUp ==
    ASSUME LogInv, LogInv', KeepInv, NEW t \in Task, StoreSequence(t)
    PROVE  NoneFromLater' /\ NumbersKeepUp' /\ CommittedKeepUp'
<1>1. /\ UNCHANGED <<count, sinkQueue, sinkBusy, nvsEntry, boots, disturbed>>
      /\ held[t] # NoEntry /\ sequence' = held[t].entry.seq + 1
  BY DEF StoreSequence, ramVars, nvsVars, boundVars
<1>2. \A u \in Task : /\ held'[u] # NoEntry <=> held[u] # NoEntry
                      /\ held[u] # NoEntry => held'[u].entry = held[u].entry
  <2>1. held[t] \in InHand /\ held' = [held EXCEPT ![t].stored = TRUE]
        /\ held \in [Task -> InHand \cup {NoEntry}]
    BY <1>1 DEF StoreSequence, LogInv, LogTypeOK
  <2>2. held'[t].entry = held[t].entry /\ held'[t] \in InHand
    BY <2>1 DEF InHand
  <2>3. \A u \in Task : u # t => held'[u] = held[u]
    BY <2>1
  <2> QED
    BY <1>1, <2>2, <2>3, EntryKnown
<1>3. Holding' = Holding
  BY <1>2 DEF Holding
<1>4. NoneFromLater'
  BY <1>1, <1>2 DEF KeepInv, NoneFromLater, Queued
<1>5. NumbersKeepUp'
  BY <1>1, <1>2, <1>3 DEF KeepInv, NumbersKeepUp
<1>6. CommittedKeepUp'
  BY <1>1 DEF KeepInv, CommittedKeepUp, Queued
<1> QED
  BY <1>4, <1>5, <1>6

\* commit_entry
LEMMA CommitKeepsUp ==
    ASSUME LogInv, LogInv', KeepInv, NEW t \in Task, CommitEntry(t)
    PROVE  NoneFromLater' /\ NumbersKeepUp' /\ CommittedKeepUp'
<1> DEFINE e == held[t].entry
<1>1. /\ UNCHANGED <<sequence, sinkBusy, nvsEntry, boots, disturbed>>
      /\ held[t] # NoEntry /\ held' = [held EXCEPT ![t] = NoEntry]
      /\ AppendEntry(e)
      /\ sinkQueue' = Append(sinkQueue, e) \/ sinkQueue' = sinkQueue
  BY DEF CommitEntry, nvsVars, boundVars
<1>2. e \in Entry /\ sinkQueue \in Seq(Entry) /\ held \in [Task -> InHand \cup {NoEntry}]
  BY <1>1, EntryKnown DEF LogInv, LogTypeOK
<1>3. held'[t] = NoEntry /\ \A u \in Task : u # t => held'[u] = held[u]
  BY <1>1, <1>2
<1>4. Holding' = Holding \ {t} /\ t \in Holding
  BY <1>1, <1>3 DEF Holding
<1>5. Cardinality(Holding') = Cardinality(Holding) - 1
  BY <1>4, Counts, FS_RemoveElement
<1>6. count' = IF count < Capacity THEN count + 1 ELSE Capacity
  BY <1>1, <1>2, Appended
<1>7. Queued' \subseteq Queued \cup {e}
  <2> HIDE DEF e
  <2>1. CASE sinkQueue' = Append(sinkQueue, e)
    BY <1>2, <2>1 DEF Queued
  <2>2. CASE sinkQueue' = sinkQueue
    BY <2>2 DEF Queued
  <2> QED
    BY <1>1, <2>1, <2>2
<1>8. NoneFromLater'
  <2>1. e.boot <= boots /\ \A f \in Queued : f.boot <= boots
    BY <1>1 DEF KeepInv, NoneFromLater
  <2>2. \A f \in Queued' : f.boot <= boots
    BY <1>7, <2>1
  <2>3. \A u \in Task : held'[u] # NoEntry => held'[u].entry.boot <= boots
    BY <1>3 DEF KeepInv, NoneFromLater
  <2> QED
    BY <1>1, <2>2, <2>3 DEF KeepInv, NoneFromLater
<1>9. CASE disturbed \/ ~(count' < Capacity)
  BY <1>1, <1>8, <1>9 DEF NumbersKeepUp, CommittedKeepUp
<1>10. CASE ~disturbed /\ count' < Capacity
  <2>1. count < Capacity /\ count' = count + 1
    BY <1>6, <1>10, Counts
  <2>2. /\ sequence <= count + Cardinality(Holding)
        /\ \A u \in Task : held[u] # NoEntry => held[u].entry.seq + 1 <= count + Cardinality(Holding)
    BY <1>10, <2>1 DEF KeepInv, NumbersKeepUp
  <2>3. count' + Cardinality(Holding') = count + Cardinality(Holding)
    BY <1>5, <2>1, Counts
  <2>4. NumbersKeepUp'
    BY <1>1, <1>3, <2>2, <2>3 DEF NumbersKeepUp
  <2> DEFINE limit == count + Cardinality(Task) - 2
             limitNext == count' + Cardinality(Task) - 2
  <2>5. limit \in Int /\ limitNext \in Int /\ limit <= limitNext
    BY <2>1, Counts
  <2>6. e.seq <= limitNext
    <3>1. e.seq + 1 <= count + Cardinality(Holding)
      BY <1>1, <2>2
    <3>2. e.seq \in Nat
      BY <1>1, Counts
    <3> HIDE DEF e
    <3> QED
      BY <2>1, <3>1, <3>2, Counts
  <2>7. /\ \A f \in Queued : f.seq <= limit
        /\ sinkBusy # NoEntry => sinkBusy.seq <= limit
        /\ \A s \in Slot : nvsEntry[s] # NoEntry /\ nvsEntry[s].boot = boots => nvsEntry[s].seq <= limit
    BY <1>10, <2>1 DEF KeepInv, CommittedKeepUp
  <2> HIDE DEF limit, limitNext, e
  <2>8. \A f \in Queued' : f.seq <= limitNext
    BY <1>7, <2>5, <2>6, <2>7, Counts
  <2>9. sinkBusy # NoEntry => sinkBusy.seq <= limitNext
    BY <2>5, <2>7, Counts
  <2>10. \A s \in Slot : nvsEntry[s] # NoEntry /\ nvsEntry[s].boot = boots => nvsEntry[s].seq <= limitNext
    BY <2>5, <2>7, Counts
  <2>11. CommittedKeepUp'
    BY <1>1, <2>8, <2>9, <2>10 DEF CommittedKeepUp, limitNext
  <2> QED
    BY <1>8, <2>4, <2>11
<1> QED
  BY <1>9, <1>10

\* log_manager_init: the ring can only have grown.
LEMMA InitLogKeepsUp == ASSUME LogInv, LogInv', KeepInv, InitLog PROVE KeepInv'
<1>1. UNCHANGED <<sequence, held, sinkQueue, sinkBusy, metaDue, nvsEntry, nvsMeta, web, boots,
                  disturbed>>
  BY DEF InitLog, nvsVars, boundVars
<1>2. /\ count = 0 /\ count' \in Nat
      /\ sinkQueue = <<>> /\ sinkBusy = NoEntry
  BY Sizes DEF InitLog, LogInv, LogTypeOK, EmptyWhenDown
<1>3. Holding' = Holding /\ Queued' = Queued /\ PassedOver' = PassedOver /\ Ahead' = Ahead
  BY <1>1 DEF Holding, Queued, PassedOver, Ahead, Listed, LoadOrder, LoadSlot, LoadCount
<1>4. SavesAreCounted' /\ ClearIsNoted' /\ NoneFromLater' /\ SavedSinceMeta'
  BY <1>1, <1>3 DEF KeepInv, SavesAreCounted, ClearIsNoted, NoneFromLater, SavedSinceMeta
<1>5. NumbersKeepUp'
  <2> DEFINE bound == count + Cardinality(Holding)
             boundNext == count' + Cardinality(Holding)
  <2>1. bound \in Int /\ boundNext \in Int /\ bound <= boundNext
    BY <1>2, Counts
  <2>2. ~disturbed => /\ sequence <= bound
                      /\ \A t \in Task : held[t] # NoEntry => held[t].entry.seq + 1 <= bound
    BY <1>2, Counts DEF KeepInv, NumbersKeepUp
  <2> HIDE DEF bound, boundNext
  <2>3. ~disturbed => sequence <= boundNext
    BY <2>1, <2>2, Counts
  <2>4. ~disturbed => \A t \in Task : held[t] # NoEntry => held[t].entry.seq + 1 <= boundNext
    BY <2>1, <2>2, Counts
  <2> QED
    BY <1>1, <1>3, <2>3, <2>4 DEF NumbersKeepUp, boundNext
<1>6. CommittedKeepUp'
  <2> DEFINE limit == count + Cardinality(Task) - 2
             limitNext == count' + Cardinality(Task) - 2
  <2>1. limit \in Int /\ limitNext \in Int /\ limit <= limitNext
    BY <1>2, Counts
  <2>2. ~disturbed => \A s \in Slot : nvsEntry[s] # NoEntry /\ nvsEntry[s].boot = boots
                                        => nvsEntry[s].seq <= limit
    BY <1>2, Counts DEF KeepInv, CommittedKeepUp
  <2> HIDE DEF limit, limitNext
  <2>3. ~disturbed => \A s \in Slot : nvsEntry[s] # NoEntry /\ nvsEntry[s].boot = boots
                                        => nvsEntry[s].seq <= limitNext
    BY <2>1, <2>2, Counts
  <2>4. Queued' = {} /\ sinkBusy' = NoEntry
    BY <1>1, <1>2 DEF Queued
  <2> QED
    BY <1>1, <2>3, <2>4 DEF CommittedKeepUp, limitNext
<1> QED
  BY <1>4, <1>5, <1>6 DEF KeepInv

\* A reset begins a session of which nothing is written yet.
LEMMA ResetKeepsUp == ASSUME LogInv, LogInv', KeepInv, LogReset PROVE KeepInv'
<1>1. /\ UNCHANGED <<nvsEntry, nvsMeta, disturbed>>
      /\ boots' = boots + 1 /\ sequence' = 0 /\ count' = 0 /\ metaDue' = 0
      /\ held' = [t \in Task |-> NoEntry] /\ sinkQueue' = <<>> /\ sinkBusy' = NoEntry
      /\ web' = Idle
  BY DEF LogReset, EmptyRing
<1>2. Queued' = {} /\ Holding' = {}
  BY <1>1 DEF Queued, Holding
<1>3. ASSUME NEW s \in Slot, nvsEntry[s] # NoEntry
      PROVE  nvsEntry[s].boot <= boots' /\ nvsEntry[s].boot # boots'
  <2>1. nvsEntry[s].boot <= boots
    BY <1>3 DEF KeepInv, NoneFromLater
  <2> QED
    BY <1>1, <1>3, <2>1, Counts
<1>4. SavesAreCounted' /\ ClearIsNoted'
  BY <1>1, Counts DEF SavesAreCounted, ClearIsNoted, Idle
<1>5. NoneFromLater'
  BY <1>1, <1>2, <1>3 DEF NoneFromLater
<1>6. NumbersKeepUp'
  BY <1>1, <1>2, FS_EmptySet DEF NumbersKeepUp
<1>7. CommittedKeepUp'
  BY <1>1, <1>2, <1>3 DEF CommittedKeepUp
<1>8. SavedSinceMeta'
  <2>1. (PassedOver \ Ahead)' = {}
    BY <1>1, <1>3 DEF PassedOver
  <2> QED
    BY <1>1, <2>1, FS_EmptySet DEF SavedSinceMeta
<1> QED
  BY <1>4, <1>5, <1>6, <1>7, <1>8 DEF KeepInv

\* The web server: a clear is noted before the NVS is erased.
LEMMA WebKeepsUp == ASSUME LogInv, LogInv', KeepInv, LogRequest PROVE KeepInv'
<1>1. UNCHANGED <<sequence, held, sinkQueue, sinkBusy, metaDue, boots>>
  BY DEF LogRequest, ClearRing, EraseNvs, ReadConfig, WriteConfig, nvsVars, boundVars
<1>2. Holding' = Holding /\ Queued' = Queued
  BY <1>1 DEF Holding, Queued
<1>3. /\ disturbed' \/ UNCHANGED <<count, nvsEntry, nvsMeta, disturbed>>
      /\ \A s \in Slot : nvsEntry'[s] # NoEntry => nvsEntry'[s] = nvsEntry[s]
      /\ web'.step = "erase" => disturbed'
  <2>1. CASE ClearRing
    BY <2>1 DEF ClearRing, nvsVars
  <2>2. CASE EraseNvs
    BY <2>2 DEF EraseNvs, KeepInv, ClearIsNoted, Idle
  <2>3. CASE WriteConfig \/ \E c \in ConfigChoice : ReadConfig(c)
    BY <2>3 DEF WriteConfig, ReadConfig, Idle, nvsVars, ramVars, boundVars
  <2> QED
    BY <2>1, <2>2, <2>3 DEF LogRequest
<1>4. SavesAreCounted' /\ ClearIsNoted' /\ NoneFromLater'
  BY <1>1, <1>2, <1>3 DEF KeepInv, SavesAreCounted, ClearIsNoted, NoneFromLater
<1>5. CASE disturbed'
  BY <1>4, <1>5 DEF KeepInv, NumbersKeepUp, CommittedKeepUp, SavedSinceMeta
<1>6. CASE UNCHANGED <<count, nvsEntry, nvsMeta, disturbed>>
  <2>1. PassedOver' = PassedOver /\ Ahead' = Ahead
    BY <1>1, <1>6 DEF PassedOver, Ahead, Listed, LoadOrder, LoadSlot, LoadCount
  <2> QED
    BY <1>1, <1>2, <1>4, <1>6, <2>1 DEF KeepInv, NumbersKeepUp, CommittedKeepUp, SavedSinceMeta
<1> QED
  BY <1>3, <1>5, <1>6

----------------------------------------------------------------------------
\* The dispatch task

LEMMA TakeKeepsUp == ASSUME LogInv, LogInv', KeepInv, TakeEntry PROVE KeepInv'
<1>1. /\ UNCHANGED <<count, sequence, held, metaDue, nvsEntry, nvsMeta, web, boots, disturbed>>
      /\ sinkQueue # <<>> /\ sinkQueue' = Tail(sinkQueue) /\ ~(metaDue >= MetaEvery)
      /\ sinkBusy' = Head(sinkQueue) \/ sinkBusy' = NoEntry
  BY DEF TakeEntry, MetaIsDue, ramVars, nvsVars, boundVars
<1>2. sinkQueue \in Seq(Entry)
  BY DEF LogInv, LogTypeOK
<1>3. Queued' \subseteq Queued /\ (sinkBusy' # NoEntry => sinkBusy' \in Queued)
  BY <1>1, <1>2 DEF Queued
<1>4. Holding' = Holding /\ PassedOver' = PassedOver /\ Ahead' = Ahead
  BY <1>1 DEF Holding, PassedOver, Ahead, Listed, LoadOrder, LoadSlot, LoadCount
<1>5. SavesAreCounted'
  BY <1>1, Counts DEF KeepInv, SavesAreCounted
<1>6. ClearIsNoted' /\ SavedSinceMeta' /\ NumbersKeepUp'
  BY <1>1, <1>4 DEF KeepInv, ClearIsNoted, SavedSinceMeta, NumbersKeepUp
<1>7. NoneFromLater'
  BY <1>1, <1>3 DEF KeepInv, NoneFromLater
<1>8. CommittedKeepUp'
  BY <1>1, <1>3 DEF KeepInv, CommittedKeepUp
<1> QED
  BY <1>5, <1>6, <1>7, <1>8 DEF KeepInv

\* nvs_save_entry: one more slot can be passed over, and it is counted.
LEMMA SaveKeepsUp == ASSUME LogInv, LogInv', KeepInv, SaveEntry PROVE KeepInv'
<1> DEFINE at == sinkBusy.seq % NvsSlots
<1>1. /\ UNCHANGED <<count, sequence, held, sinkQueue, nvsMeta, web, boots>>
      /\ sinkBusy # NoEntry /\ sinkBusy' = NoEntry
      /\ \/ /\ nvsEntry' = [nvsEntry EXCEPT ![at] = sinkBusy]
            /\ metaDue' = metaDue + 1 /\ disturbed' = disturbed
         \/ UNCHANGED <<nvsEntry, metaDue, disturbed>>
         \/ /\ nvsEntry' = [nvsEntry EXCEPT ![at] = sinkBusy]
            /\ metaDue' = metaDue /\ disturbed'
  BY DEF SaveEntry, ramVars, boundVars
<1>2. Holding' = Holding /\ Queued' = Queued /\ Ahead' = Ahead /\ Listed' = Listed
  BY <1>1 DEF Holding, Queued, Ahead, Listed, LoadOrder, LoadSlot, LoadCount
<1>3. metaDue \in 0 .. MetaEvery /\ metaDue < MetaEvery /\ MetaEvery \in Nat
  BY <1>1, Counts DEF KeepInv, SavesAreCounted
<1>4. CASE UNCHANGED <<nvsEntry, metaDue, disturbed>>
  <2>1. PassedOver' = PassedOver
    BY <1>1, <1>2, <1>4 DEF PassedOver
  <2> QED
    BY <1>1, <1>2, <1>4, <2>1
    DEF KeepInv, SavesAreCounted, ClearIsNoted, NoneFromLater, NumbersKeepUp, CommittedKeepUp,
        SavedSinceMeta
<1>t. nvsEntry \in [Slot -> Entry \cup {NoEntry}]
  BY DEF LogInv, LogTypeOK
<1>5. CASE /\ nvsEntry' = [nvsEntry EXCEPT ![at] = sinkBusy]
           /\ metaDue' = metaDue + 1 /\ disturbed' = disturbed
  <2>2. \A s \in Slot : nvsEntry'[s] = IF s = at THEN sinkBusy ELSE nvsEntry[s]
    BY <1>5, <1>t
  <2> HIDE DEF at
  <2>3. SavesAreCounted' /\ ClearIsNoted' /\ NumbersKeepUp'
    BY <1>1, <1>2, <1>3, <1>5 DEF KeepInv, SavesAreCounted, ClearIsNoted, NumbersKeepUp
  <2>4. NoneFromLater'
    BY <1>1, <1>2, <2>2 DEF KeepInv, NoneFromLater
  <2>5. CommittedKeepUp'
    BY <1>1, <1>2, <2>2 DEF KeepInv, CommittedKeepUp
  <2>6. SavedSinceMeta'
    <3> SUFFICES ASSUME ~disturbed PROVE Cardinality((PassedOver \ Ahead)') <= metaDue + 1
      BY <1>1, <1>5 DEF SavedSinceMeta
    <3> DEFINE P == PassedOver \ Ahead
    <3>1. (PassedOver \ Ahead)' \in SUBSET (P \cup {at})
      BY <1>1, <1>2, <2>2 DEF PassedOver
    <3>2. P \in SUBSET Slot /\ (PassedOver \ Ahead)' \in SUBSET Slot
      BY DEF PassedOver
    <3>3. IsFiniteSet(P) /\ Cardinality(P) \in Nat /\ Cardinality(P) <= metaDue
      BY <3>2, SlotsFinite DEF KeepInv, SavedSinceMeta
    <3> HIDE DEF P
    <3>4. /\ IsFiniteSet(P \cup {at})
          /\ Cardinality(P \cup {at}) = IF at \in P THEN Cardinality(P) ELSE Cardinality(P) + 1
      BY <3>3, FS_AddElement
    <3>5. Cardinality((PassedOver \ Ahead)') <= Cardinality(P \cup {at})
      BY <3>1, <3>4, FS_Subset
    <3>6. Cardinality((PassedOver \ Ahead)') \in Nat
      BY <3>2, SlotsFinite
    <3> QED
      BY <1>3, <3>3, <3>4, <3>5, <3>6
  <2> QED
    BY <2>3, <2>4, <2>5, <2>6 DEF KeepInv
<1>6. CASE /\ nvsEntry' = [nvsEntry EXCEPT ![at] = sinkBusy]
           /\ metaDue' = metaDue /\ disturbed'
  <2>1. \A s \in Slot : nvsEntry'[s] = IF s = at THEN sinkBusy ELSE nvsEntry[s]
    BY <1>6, <1>t
  <2>2. SavesAreCounted' /\ ClearIsNoted'
    BY <1>1, <1>3, <1>6 DEF KeepInv, SavesAreCounted, ClearIsNoted
  <2>3. NoneFromLater'
    BY <1>1, <1>2, <2>1 DEF KeepInv, NoneFromLater
  <2>4. NumbersKeepUp' /\ CommittedKeepUp' /\ SavedSinceMeta'
    BY <1>6 DEF NumbersKeepUp, CommittedKeepUp, SavedSinceMeta
  <2> QED
    BY <2>2, <2>3, <2>4 DEF KeepInv
<1> QED
  BY <1>1, <1>4, <1>5, <1>6

\* By a ring of at least as many entries as there are slots a restart looks at all of them,
LEMMA FullRingListsAll ==
    ASSUME NEW meta \in Meta, meta.count >= NvsSlots, NEW s \in Slot
    PROVE  \E i \in 1 .. LoadCount(meta) : LoadSlot(meta, i) = s
<1>1. NvsSlots \in Nat \ {0} /\ meta.writeIndex \in Nat /\ meta.count \in Nat /\ s \in 0 .. NvsSlots - 1
  BY Sizes DEF Meta, Slot
<1>2. LoadCount(meta) = NvsSlots
  BY <1>1 DEF LoadCount, Smaller
<1> DEFINE w == meta.writeIndex
           q == w \div NvsSlots
           r == w % NvsSlots
           turn == IF r > s THEN r - s ELSE r - s + NvsSlots
           turns == IF r > s THEN q + 1 ELSE q
<1>3. q \in Int /\ r \in 0 .. NvsSlots - 1 /\ w = NvsSlots * q + r
  <2>1. w \in Int
    BY <1>1
  <2> HIDE DEF w
  <2>2. w \div NvsSlots \in Int /\ w = NvsSlots * (w \div NvsSlots) + (w % NvsSlots)
    BY <1>1, <2>1, DivMod
  <2>3. w % NvsSlots \in 0 .. NvsSlots - 1
    BY <1>1, <2>1, ModInRange
  <2> QED
    BY <2>2, <2>3
<1> HIDE DEF w, q, r
<1>4. turn \in 1 .. NvsSlots /\ turns \in Int
  BY <1>1, <1>3
<1>5. w + NvsSlots - turn = NvsSlots * turns + s
  <2>1. CASE r > s
    <3>1. NvsSlots * turns = NvsSlots * q + NvsSlots
      BY <1>1, <1>3, <2>1
    <3> QED
      BY <1>1, <1>3, <2>1, <3>1
  <2>2. CASE ~(r > s)
    BY <1>1, <1>3, <2>2
  <2> QED
    BY <2>1, <2>2
<1> HIDE DEF turn, turns
<1>6. (w + NvsSlots - turn) % NvsSlots = s
  BY <1>1, <1>4, <1>5, ModShift
<1> QED
  BY <1>2, <1>4, <1>6 DEF LoadSlot, w

\* and by a smaller one at those below its count.
LEMMA SmallRingListsBelow ==
    ASSUME NEW meta \in Meta, meta.count < NvsSlots, meta.writeIndex = meta.count,
           NEW s \in Slot, s < meta.count
    PROVE  \E i \in 1 .. LoadCount(meta) : LoadSlot(meta, i) = s
<1>1. NvsSlots \in Nat \ {0} /\ meta.count \in Nat /\ s \in Nat
  BY Sizes DEF Meta, Slot
<1> DEFINE turn == meta.count - s
<1>2. LoadCount(meta) = meta.count /\ turn \in 1 .. meta.count
  BY <1>1 DEF LoadCount, Smaller
<1>3. meta.writeIndex + NvsSlots - turn = NvsSlots * 1 + s
  BY <1>1
<1> HIDE DEF turn
<1>4. LoadSlot(meta, turn) = s
  BY <1>1, <1>3, ModShift DEF LoadSlot, Slot
<1> QED
  BY <1>2, <1>4

\* nvs_save_meta: what a restart would pass over after it is ahead.
LEMMA MetaKeepsUp == ASSUME LogInv, LogInv', KeepInv, SaveMeta PROVE KeepInv'
<1>1. /\ UNCHANGED <<count, writeIndex, sequence, held, sinkQueue, sinkBusy, nvsEntry, web, boots>>
      /\ metaDue' = 0 /\ (disturbed => disturbed')
  BY DEF SaveMeta, ramVars, boundVars
<1>2. Holding' = Holding /\ Queued' = Queued
  BY <1>1 DEF Holding, Queued
<1>3. SavesAreCounted' /\ ClearIsNoted' /\ NoneFromLater'
  BY <1>1, <1>2, Counts DEF SaveMeta, KeepInv, SavesAreCounted, ClearIsNoted, NoneFromLater
<1>4. CASE disturbed'
  BY <1>3, <1>4 DEF KeepInv, NumbersKeepUp, CommittedKeepUp, SavedSinceMeta
<1>5. CASE ~disturbed'
  <2>1. nvsMeta' = MetaNow /\ ~disturbed
    BY <1>1, <1>5 DEF SaveMeta
  <2>2. NumbersKeepUp' /\ CommittedKeepUp'
    BY <1>1, <1>2, <2>1 DEF KeepInv, NumbersKeepUp, CommittedKeepUp
  <2>3. nvsMeta' \in Meta /\ nvsMeta'.count = count /\ nvsMeta'.writeIndex = writeIndex
    BY <2>1 DEF LogInv, LogTypeOK, MetaNow
  <2>4. \A s \in Slot : (\E i \in 1 .. LoadCount(nvsMeta') : LoadSlot(nvsMeta', i) = s) => s \in Listed'
    BY DEF Listed, LoadOrder
  <2>5. ASSUME NEW s \in PassedOver' PROVE s \in Ahead'
    <3>1. s \in Slot /\ s \notin Listed' /\ nvsEntry[s] # NoEntry /\ nvsEntry[s].boot = boots
      BY <1>1, <2>5 DEF PassedOver
    <3>2. count < NvsSlots
      BY <2>3, <2>4, <3>1, FullRingListsAll, Counts
    <3>3. count < Capacity /\ writeIndex = count
      BY <3>2, Counts DEF LogInv, FilledUp
    <3>4. ~(s < count)
      BY <2>3, <2>4, <3>1, <3>2, <3>3, SmallRingListsBelow
    <3>5. nvsEntry[s].seq <= count + Cardinality(Task) - 2
      BY <2>1, <3>1, <3>3 DEF KeepInv, CommittedKeepUp
    <3>6. s <= nvsEntry[s].seq
      <4>1. nvsEntry[s].seq \in Nat /\ nvsEntry[s].seq % NvsSlots = s
        BY <3>1, Counts DEF LogInv, InItsSlot
      <4> QED
        BY <4>1, ModAtMost, Sizes
    <3>7. count <= s /\ s <= count + Cardinality(Task) - 2
      BY <3>1, <3>4, <3>5, <3>6, Counts DEF Slot
    <3> QED
      BY <2>3, <3>1, <3>7 DEF Ahead
  <2>6. SavedSinceMeta'
    <3>1. (PassedOver \ Ahead)' = {}
      BY <2>5
    <3> QED
      BY <1>1, <3>1, FS_EmptySet DEF SavedSinceMeta
  <2> QED
    BY <1>3, <2>2, <2>6 DEF KeepInv
<1> QED
  BY <1>4, <1>5

LEMMA KeepInvInit == LogInit => KeepInv
<1> SUFFICES ASSUME LogInit PROVE KeepInv
  OBVIOUS
<1>1. Holding = {} /\ Queued = {} /\ PassedOver \ Ahead = {}
  BY DEF LogInit, Holding, Queued, PassedOver
<1>2. Cardinality(Holding) = 0 /\ Cardinality(PassedOver \ Ahead) = 0
  BY <1>1, FS_EmptySet
<1>3. SavesAreCounted /\ ClearIsNoted /\ NoneFromLater
  BY <1>1, LogAssumption DEF LogInit, SavesAreCounted, ClearIsNoted, NoneFromLater, Idle
<1>4. NumbersKeepUp /\ CommittedKeepUp /\ SavedSinceMeta
  BY <1>1, <1>2 DEF LogInit, NumbersKeepUp, CommittedKeepUp, SavedSinceMeta
<1> QED
  BY <1>3, <1>4 DEF KeepInv

LEMMA KeepInvNext == LogInv /\ LogInv' /\ KeepInv /\ [LogNext]_logVars => KeepInv'
<1> SUFFICES ASSUME LogInv, LogInv', KeepInv, [LogNext]_logVars PROVE KeepInv'
  OBVIOUS
<1>1. CASE InitLog
  BY <1>1, InitLogKeepsUp
<1>2. CASE LogReset
  BY <1>2, ResetKeepsUp
<1>3. CASE Write
  <2>1. NoneFromLater' /\ NumbersKeepUp' /\ CommittedKeepUp'
    BY <1>3, StampKeepsUp, StoreKeepsUp, CommitKeepsUp DEF Write
  <2> QED
    BY <1>3, <2>1, WriteSaves DEF KeepInv
<1>4. CASE Dispatch
  BY <1>4, TakeKeepsUp, SaveKeepsUp, MetaKeepsUp DEF Dispatch
<1>5. CASE LogRequest
  BY <1>5, WebKeepsUp
<1>6. CASE UNCHANGED logVars
  <2>1. Holding' = Holding /\ Queued' = Queued /\ PassedOver' = PassedOver /\ Ahead' = Ahead
    BY <1>6 DEF logVars, Holding, Queued, PassedOver, Ahead, Listed, LoadOrder, LoadSlot, LoadCount
  <2> QED
    BY <1>6, <2>1
    DEF logVars, KeepInv, SavesAreCounted, ClearIsNoted, NoneFromLater, NumbersKeepUp,
        CommittedKeepUp, SavedSinceMeta
<1> QED
  BY <1>1, <1>2, <1>3, <1>4, <1>5, <1>6 DEF LogNext

(* A restart finds what the NVS holds of the session before it, but for the writes since
   the last meta and one for each other writer, for every capacity, number of slots, of
   writers and of boots, and for every distance between two metas. *)
THEOREM RestartFindsTheLog == LogSpec => []PersistedIsListed
<1>1. LogInit => KeepInv
  BY KeepInvInit
<1>2. LogInv /\ LogInv' /\ KeepInv /\ [LogNext]_logVars => KeepInv'
  BY KeepInvNext
<1>3. LogInv /\ KeepInv => PersistedIsListed
  BY InvPersistedIsListed
<1> QED
  BY <1>1, <1>2, <1>3, LogInvHolds, PTL DEF LogSpec

=============================================================================
