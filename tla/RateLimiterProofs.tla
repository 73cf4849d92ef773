--------------------------- MODULE RateLimiterProofs ---------------------------
(***************************************************************************)
(* What holds of the rate limiter for any rate, bucket, table and hash.    *)
(***************************************************************************)
EXTENDS RateLimiter, TLAPS

Probe(c, i) == (Hash[c] + i) % ClientSlots

LEMMA ProbeInTable == \A c \in Client, i \in Index : Probe(c, i) \in Index
  BY RateAssumption DEF Probe, Index

LEMMA Numbers ==
    /\ Bucket \in Nat /\ Block \in Nat
    /\ Unit \in Nat /\ Unit > 0
    /\ Rate \in Nat /\ Rate <= Unit
    /\ \A n \in Amount : n \in Nat /\ n > 0
  BY RateAssumption

LEMMA LevelFields ==
    ASSUME NEW level \in Level
    PROVE  /\ level.tokens \in Nat /\ level.tokens <= Bucket
           /\ level.whole \in Nat /\ level.whole <= Bucket
           /\ level.part \in Nat /\ level.part < Unit
  BY Numbers DEF Level

LEMMA LevelEdits ==
    ASSUME NEW level \in Level
    PROVE  /\ \A t \in 0 .. Bucket : [level EXCEPT !.tokens = t] \in Level
           /\ \A q \in 0 .. Unit - 1 : [level EXCEPT !.part = q] \in Level
           /\ \A w \in 0 .. Bucket, q \in 0 .. Unit - 1 :
                 [level EXCEPT !.whole = w, !.part = q] \in Level
  BY DEF Level

(* Refilling, taking and ageing make levels out of levels. *)
LEMMA FullIsLevel == FullLevel \in Level
  BY RateAssumption DEF Level, FullLevel

LEMMA RefillIsLevel ==
    ASSUME NEW level \in Level
    PROVE  /\ RefillTokens(level) \in Level
           /\ RefillTokens(level).tokens = Lesser(level.tokens + level.whole, Bucket)
           /\ RefillTokens(level).whole = 0 /\ RefillTokens(level).part = 0
<1>1. Lesser(level.tokens + level.whole, Bucket) \in 0 .. Bucket
  BY LevelFields, Numbers DEF Lesser
<1> QED
  BY <1>1, RateAssumption DEF RefillTokens, Level

LEMMA ConsumeIsLevel ==
    ASSUME NEW level \in Level, NEW n \in Amount
    PROVE  Consume(level, n) \in Level
<1>1. level.tokens >= n => level.tokens - n \in 0 .. Bucket
  BY LevelFields, Numbers
<1> QED
  BY <1>1, LevelEdits DEF Consume

LEMMA AgedIsLevel ==
    ASSUME NEW level \in Level
    PROVE  Aged(level) \in Level
<1>1. CASE level.whole = Bucket
  BY <1>1 DEF Aged
<1>2. CASE level.whole # Bucket /\ level.part + Rate < Unit
  <2>1. level.part + Rate \in 0 .. Unit - 1
    BY <1>2, LevelFields, Numbers
  <2> QED
    BY <1>2, <2>1, LevelEdits DEF Aged
<1>3. CASE level.whole # Bucket /\ ~(level.part + Rate < Unit)
  <2>1. level.whole + 1 \in 0 .. Bucket /\ level.part + Rate - Unit \in 0 .. Unit - 1
    BY <1>3, LevelFields, Numbers
  <2> QED
    BY <1>3, <2>1, LevelEdits DEF Aged
<1> QED
  BY <1>1, <1>2, <1>3

(* find_client_slot finds the first slot on the client's way that is its own or free. *)
LEMMA FoundSlot ==
    ASSUME NEW c \in Client, NEW s \in FindClientSlot(c)
    PROVE  \E i \in Index : /\ s = Probe(c, i) /\ s \in Index
                           /\ slot[s].client \in {c, NoClient}
                           /\ \A j \in Index : j < i => slot[Probe(c, j)].client \notin {c, NoClient}
<1> DEFINE fits == {i \in Index : slot[Probe(c, i)].client \in {c, NoClient}}
<1>1. FindClientSlot(c) = {Probe(c, i) : i \in {j \in fits : \A k \in fits : j <= k}}
  BY DEF FindClientSlot, Probe
<1>2. PICK i \in Index : s = Probe(c, i) /\ i \in fits /\ \A k \in fits : i <= k
  BY <1>1
<1>3. \A j \in Index : j < i => slot[Probe(c, j)].client \notin {c, NoClient}
  BY <1>2 DEF Index
<1> QED
  BY <1>2, <1>3, ProbeInTable

----------------------------------------------------------------------------
(* Types.                                                                  *)

SlotRecord == [client : Client \cup {NoClient}, level : Level, blockLeft : 0 .. Block]

PendingRecord == [slot : Index, tokens : Amount \cup {0}, late : 0 .. Block + 1]

TakenRecord == [all : Amount \cup {0}, client : Client \cup {NoClient}, tokens : Amount \cup {0}]

LEMMA IdleTyped == NoCheck \in PendingRecord /\ Nothing \in TakenRecord
  BY RateAssumption DEF NoCheck, Nothing, Taken, PendingRecord, TakenRecord, Index

LEMMA RateInitTyped == RateInit => RateTypeOK
<1> SUFFICES ASSUME RateInit PROVE RateTypeOK
  OBVIOUS
<1>1. slot \in [Index -> SlotRecord]
  BY FullIsLevel, Numbers DEF RateInit, SlotRecord
<1> QED
  BY <1>1, FullIsLevel, IdleTyped
     DEF RateInit, RateTypeOK, SlotRecord, PendingRecord, TakenRecord

\* What a check finds: the slot of a known client, or a new one's, filled now.
LEMMA CheckClientTyped ==
    ASSUME RateTypeOK, NEW c \in Client, NEW s \in Index, NEW n \in Amount, CheckClient(c, s, n)
    PROVE  /\ slot' \in [Index -> SlotRecord] /\ pending' \in PendingRecord
           /\ slot[s].client = c => slot' = slot
           /\ slot[s].client # c => slot'[s] = [client |-> c, level |-> FullLevel, blockLeft |-> 0]
           /\ \A t \in Index \ {s} : slot'[t] = slot[t]
           /\ pending' \in {NoCheck, [slot |-> s, tokens |-> n, late |-> 0]}
<1> DEFINE r == [client |-> c, level |-> FullLevel, blockLeft |-> 0]
<1>1. slot \in [Index -> SlotRecord]
  BY DEF RateTypeOK, SlotRecord
<1>2. r \in SlotRecord
  BY FullIsLevel, Numbers DEF SlotRecord
<1>3. slot' = IF slot[s].client = c THEN slot ELSE [slot EXCEPT ![s] = r]
  BY DEF CheckClient, NewLevel
<1>4. pending' \in {NoCheck, [slot |-> s, tokens |-> n, late |-> 0]}
  BY DEF CheckClient
<1>5. [slot |-> s, tokens |-> n, late |-> 0] \in PendingRecord
  BY Numbers DEF PendingRecord
<1> HIDE DEF r
<1>6. /\ slot' \in [Index -> SlotRecord]
      /\ slot[s].client # c => slot'[s] = r
      /\ \A t \in Index \ {s} : slot'[t] = slot[t]
  BY <1>1, <1>2, <1>3
<1> QED
  BY <1>3, <1>4, <1>5, <1>6, IdleTyped DEF r

\* What the rest of a check does, whatever the clock did meanwhile.
LEMMA CheckEndsTyped ==
    ASSUME RateTypeOK, CheckEnds
    PROVE  \E s \in Index, n \in Amount, left \in 0 .. Block :
              /\ s = pending.slot /\ n = pending.tokens
              /\ slot[s] \in SlotRecord /\ RefillTokens(slot[s].level) \in Level
              /\ slot' = [slot EXCEPT ![s] =
                    [client |-> slot[s].client,
                     level |-> Consume(RefillTokens(slot[s].level), n),
                     blockLeft |-> left]]
              /\ slot' \in [Index -> SlotRecord]
              /\ RefillTokens(slot[s].level).tokens >= n =>
                    left = 0 /\ passed' = Taken(0, slot[s].client, n)
              /\ ~(RefillTokens(slot[s].level).tokens >= n) => passed' = Nothing
<1> DEFINE s == pending.slot  n == pending.tokens  level == RefillTokens(slot[s].level)
           left == IF level.tokens >= n THEN 0 ELSE BlockLeft(pending.late)
           r == [client |-> slot[s].client, level |-> Consume(level, n), blockLeft |-> left]
<1>1. s \in Index /\ n \in Amount /\ pending.late \in Nat
  BY Numbers DEF RateTypeOK, CheckEnds, MutexFree
<1>2. slot \in [Index -> SlotRecord] /\ slot[s] \in SlotRecord
  BY <1>1 DEF RateTypeOK, SlotRecord
<1>3. level \in Level /\ Consume(level, n) \in Level
  BY <1>1, <1>2, RefillIsLevel, ConsumeIsLevel DEF SlotRecord
<1>4. left \in 0 .. Block
  BY <1>1, Numbers DEF BlockLeft
<1>5. slot' = [slot EXCEPT ![s] = r]
  BY DEF CheckEnds
<1>6. r \in SlotRecord
  BY <1>2, <1>3, <1>4 DEF SlotRecord
<1>7. slot' \in [Index -> SlotRecord]
  BY <1>1, <1>2, <1>5, <1>6
<1>8. /\ level.tokens >= n => left = 0 /\ passed' = Taken(0, slot[s].client, n)
      /\ ~(level.tokens >= n) => passed' = Nothing
  BY DEF CheckEnds
<1> HIDE DEF s, n, level, left
<1> QED
  BY <1>1, <1>2, <1>3, <1>4, <1>5, <1>7, <1>8 DEF s, n, level

LEMMA RateStepTyped == RateTypeOK /\ [RateNext]_rateVars => RateTypeOK'
<1> SUFFICES ASSUME RateTypeOK, [RateNext]_rateVars PROVE RateTypeOK'
  OBVIOUS
<1>0. /\ global \in Level /\ slot \in [Index -> SlotRecord] /\ pending \in PendingRecord
      /\ passed \in TakenRecord /\ drifted \in [Index -> BOOLEAN]
  BY DEF RateTypeOK, SlotRecord, PendingRecord, TakenRecord
<1>q. SUFFICES /\ global' \in Level /\ slot' \in [Index -> SlotRecord] /\ pending' \in PendingRecord
               /\ passed' \in TakenRecord /\ drifted' \in [Index -> BOOLEAN]
  BY DEF RateTypeOK, SlotRecord, PendingRecord, TakenRecord
<1>1. CASE Tick
  <2>1. global' \in Level
    BY <1>0, <1>1, AgedIsLevel DEF Tick
  <2>2. ASSUME NEW s \in Index
        PROVE  [slot[s] EXCEPT !.level = Aged(slot[s].level),
                               !.blockLeft = IF slot[s].blockLeft > 0 THEN slot[s].blockLeft - 1
                                             ELSE 0] \in SlotRecord
    <3>1. slot[s] \in SlotRecord /\ slot[s].level \in Level
      BY <1>0 DEF SlotRecord
    <3>2. Aged(slot[s].level) \in Level
      BY <3>1, AgedIsLevel
    <3>3. (IF slot[s].blockLeft > 0 THEN slot[s].blockLeft - 1 ELSE 0) \in 0 .. Block
      BY <3>1, RateAssumption DEF SlotRecord
    <3> QED
      BY <3>1, <3>2, <3>3 DEF SlotRecord
  <2>3. slot' \in [Index -> SlotRecord]
    BY <1>1, <2>2 DEF Tick
  <2>4. pending' \in PendingRecord
    <3>1. Lesser(pending.late + 1, Block + 1) \in 0 .. Block + 1
      BY <1>0, Numbers DEF PendingRecord, Lesser
    <3>2. [pending EXCEPT !.late = Lesser(pending.late + 1, Block + 1)] \in PendingRecord
      BY <1>0, <3>1 DEF PendingRecord
    <3> QED
      BY <1>1, <3>2, IdleTyped DEF Tick
  <2> QED
    BY <1>0, <1>1, <2>1, <2>3, <2>4, IdleTyped DEF Tick
<1>2. ASSUME NEW c \in Client \cup {NoClient}, NEW n \in Amount, Check(c, n) PROVE RateTypeOK'
  <2>1. global' \in Level /\ drifted' = drifted
    BY <1>0, <1>2, RefillIsLevel, ConsumeIsLevel DEF Check, CheckGlobal
  <2>2. passed' \in TakenRecord
    BY <1>2, IdleTyped DEF Check, Taken, TakenRecord
  <2>3. slot' \in [Index -> SlotRecord] /\ pending' \in PendingRecord
    <3>1. CASE slot' = slot /\ pending' = pending
      BY <1>0, <3>1
    <3>2. CASE c # NoClient /\ \E s \in FindClientSlot(c) : CheckClient(c, s, n)
      <4>1. PICK s \in FindClientSlot(c) : CheckClient(c, s, n)
        BY <3>2
      <4>2. c \in Client /\ s \in Index
        BY <3>2, <4>1, FoundSlot
      <4> QED
        BY <4>1, <4>2, CheckClientTyped
    <3> QED
      BY <1>2, <3>1, <3>2 DEF Check
  <2> QED
    BY <1>0, <2>1, <2>2, <2>3 DEF RateTypeOK, SlotRecord, PendingRecord, TakenRecord
<1>3. CASE CheckEnds
  <2>1. PICK s \in Index, n \in Amount : /\ slot' \in [Index -> SlotRecord]
                                        /\ slot[s].client \in Client \cup {NoClient}
                                        /\ passed' \in {Taken(0, slot[s].client, n), Nothing}
    BY <1>3, CheckEndsTyped DEF SlotRecord
  <2>2. passed' \in TakenRecord
    BY <2>1, IdleTyped DEF Taken, TakenRecord
  <2>3. drifted' \in [Index -> BOOLEAN]
    BY <1>0, <1>3 DEF CheckEnds
  <2> QED
    BY <1>0, <1>3, <2>1, <2>2, <2>3, IdleTyped DEF CheckEnds
<1>4. CASE UNCHANGED rateVars
  BY <1>0, <1>4 DEF rateVars
<1> QED
  BY <1>1, <1>2, <1>3, <1>4 DEF RateNext, RateTypeOK, SlotRecord, PendingRecord, TakenRecord

(* No bucket holds more than its size or less than nothing, with any number of clients. *)
THEOREM RateTypeCorrect == RateSpec => []RateTypeOK
  BY RateInitTyped, RateStepTyped, PTL DEF RateSpec

----------------------------------------------------------------------------
(* One slot per client.                                                    *)

\* A client's slot is one on its way, and the slots before it are others'.
Reachable(s) ==
    slot[s].client # NoClient =>
        \E i \in Index : /\ s = Probe(slot[s].client, i)
                        /\ \A j \in Index :
                              j < i => slot[Probe(slot[s].client, j)].client
                                          \notin {slot[s].client, NoClient}

TableInv == RateTypeOK /\ OneSlotPerClient /\ \A s \in Index : Reachable(s)

\* The clients of the table stay where they are, but one may come.
LEMMA TableChanges ==
    ASSUME RateTypeOK, [RateNext]_rateVars
    PROVE  \/ \A t \in Index : slot'[t].client = slot[t].client
           \/ \E c \in Client : \E s \in FindClientSlot(c) :
                 /\ slot'[s].client = c
                 /\ \A t \in Index \ {s} : slot'[t] = slot[t]
<1>1. CASE Tick
  BY <1>1 DEF Tick, RateTypeOK, SlotRecord
<1>2. ASSUME NEW c \in Client \cup {NoClient}, NEW n \in Amount, Check(c, n), slot' # slot
      PROVE  \E s \in FindClientSlot(c) :
                /\ c \in Client /\ slot'[s].client = c
                /\ \A t \in Index \ {s} : slot'[t] = slot[t]
  <2>1. c # NoClient /\ \E s \in FindClientSlot(c) : CheckClient(c, s, n)
    BY <1>2 DEF Check
  <2>2. PICK s \in FindClientSlot(c) : CheckClient(c, s, n)
    BY <2>1
  <2>3. c \in Client /\ s \in Index
    BY <2>1, <2>2, FoundSlot
  <2>4. slot'[s] = [client |-> c, level |-> FullLevel, blockLeft |-> 0]
    BY <1>2, <2>2, <2>3, CheckClientTyped
  <2>5. \A t \in Index \ {s} : slot'[t] = slot[t]
    BY <2>2, <2>3, CheckClientTyped
  <2>6. slot'[s].client = c
    BY <2>4
  <2> QED
    BY <2>2, <2>3, <2>5, <2>6
<1>3. ASSUME CheckEnds PROVE \A t \in Index : slot'[t].client = slot[t].client
  BY <1>3, CheckEndsTyped DEF RateTypeOK
<1>4. CASE UNCHANGED rateVars
  BY <1>4 DEF rateVars
<1>5. CASE slot' = slot
  BY <1>5
<1> QED
  BY <1>1, <1>2, <1>3, <1>4, <1>5 DEF RateNext

LEMMA TableInit == RateInit => TableInv
<1> SUFFICES ASSUME RateInit PROVE TableInv
  OBVIOUS
<1>1. \A s \in Index : slot[s].client = NoClient
  BY DEF RateInit
<1> QED
  BY <1>1, RateInitTyped DEF TableInv, OneSlotPerClient, Reachable

LEMMA TableStep == TableInv /\ [RateNext]_rateVars => TableInv'
<1> SUFFICES ASSUME TableInv, [RateNext]_rateVars PROVE TableInv'
  OBVIOUS
<1> USE DEF TableInv
<1>1. RateTypeOK'
  BY RateStepTyped
<1>2. CASE \A t \in Index : slot'[t].client = slot[t].client
  <2>1. OneSlotPerClient'
    BY <1>2 DEF OneSlotPerClient
  <2>2. ASSUME NEW s \in Index PROVE Reachable(s)'
    <3> SUFFICES ASSUME slot'[s].client # NoClient PROVE Reachable(s)'
      BY DEF Reachable
    <3>1. slot[s].client \in Client
      BY <1>2 DEF RateTypeOK
    <3>2. \A j \in Index : Probe(slot[s].client, j) \in Index
      BY <3>1, ProbeInTable
    <3> QED
      BY <1>2, <3>1, <3>2 DEF Reachable, Probe
  <2> QED
    BY <1>1, <2>1, <2>2
<1>3. ASSUME NEW c \in Client, NEW s \in FindClientSlot(c), slot'[s].client = c,
             \A t \in Index \ {s} : slot'[t] = slot[t]
      PROVE  TableInv'
  <2>1. PICK i \in Index : /\ s = Probe(c, i) /\ s \in Index
                          /\ slot[s].client \in {c, NoClient}
                          /\ \A j \in Index : j < i => slot[Probe(c, j)].client \notin {c, NoClient}
    BY <1>3, FoundSlot
  <2>2. \A t \in Index : slot[t].client # NoClient => slot'[t].client = slot[t].client
    BY <1>3, <2>1
  <2>3. c # NoClient
    BY RateAssumption
  <2>4. ASSUME NEW t \in Index \ {s}, slot[t].client = c PROVE FALSE
    <3>1. PICK k \in Index : /\ t = Probe(c, k)
                            /\ \A j \in Index : j < k => slot[Probe(c, j)].client \notin {c, NoClient}
      BY <2>3, <2>4 DEF Reachable
    <3>2. CASE k < i
      BY <2>1, <2>4, <3>1, <3>2
    <3>3. CASE i < k
      <4>1. slot[s].client = c
        BY <2>1, <3>1, <3>3
      <4> QED
        BY <2>1, <2>3, <2>4, <4>1 DEF OneSlotPerClient
    <3>4. CASE i = k
      BY <2>1, <2>4, <3>1, <3>4
    <3> QED
      BY <3>2, <3>3, <3>4 DEF Index
  <2>5. OneSlotPerClient'
    BY <1>3, <2>1, <2>4 DEF OneSlotPerClient
  <2>6. ASSUME NEW t \in Index PROVE Reachable(t)'
    <3> SUFFICES ASSUME slot'[t].client # NoClient PROVE Reachable(t)'
      BY DEF Reachable
    <3>1. CASE t = s
      <4>1. \A j \in Index : Probe(c, j) \in Index
        BY ProbeInTable
      <4>2. \A j \in Index : j < i => slot'[Probe(c, j)].client \notin {c, NoClient}
        BY <2>1, <2>2, <4>1
      <4> QED
        BY <1>3, <2>1, <3>1, <4>2 DEF Reachable, Probe
    <3>2. CASE t # s
      <4>1. slot[t].client \in Client /\ slot'[t].client = slot[t].client
        BY <1>3, <3>2 DEF RateTypeOK
      <4>2. \A j \in Index : Probe(slot[t].client, j) \in Index
        BY <4>1, ProbeInTable
      <4> QED
        BY <2>2, <2>3, <4>1, <4>2 DEF Reachable, Probe
    <3> QED
      BY <3>1, <3>2
  <2> QED
    BY <1>1, <2>5, <2>6
<1> QED
  BY <1>2, <1>3, TableChanges

(* Linear probing never loses a client: none has two slots, for any hash and any table. *)
THEOREM SlotsAreUnique == RateSpec => []OneSlotPerClient
<1>1. TableInv => OneSlotPerClient
  BY DEF TableInv
<1> QED
  BY <1>1, TableInit, TableStep, PTL DEF RateSpec

----------------------------------------------------------------------------
(* Only drift blocks.                                                      *)

\* A bucket can pay for whatever another can.
Ahead(level, g) ==
    \/ level.tokens + level.whole >= Bucket
    \/ level.tokens + level.whole > g.tokens + g.whole
    \/ level.tokens + level.whole = g.tokens + g.whole /\ level.part >= g.part

\* A client that has not drifted is not blocked and no less able to pay than all together.
NotBehind(s) ==
    slot[s].client # NoClient /\ ~drifted[s] =>
        slot[s].blockLeft = 0 /\ Ahead(slot[s].level, global)

\* A check the clock has not moved in: the global bucket has paid, and what it paid is
\* still in the client's, unless that one has drifted before.
PaidFirst ==
    ~MutexFree /\ pending.late = 0 =>
        /\ global.whole = 0 /\ global.part = 0
        /\ global.tokens + pending.tokens <= Bucket
        /\ ~drifted[pending.slot] =>
              RefillTokens(slot[pending.slot].level).tokens >= global.tokens + pending.tokens

DriftInv == RateTypeOK /\ PaidFirst /\ \A s \in Index : NotBehind(s)

LEMMA AgedFields ==
    ASSUME NEW level \in Level
    PROVE  \/ level.whole = Bucket /\ Aged(level) = level
           \/ /\ level.part + Rate < Unit
              /\ Aged(level).tokens = level.tokens /\ Aged(level).whole = level.whole
              /\ Aged(level).part = level.part + Rate
           \/ /\ level.part + Rate >= Unit
              /\ Aged(level).tokens = level.tokens /\ Aged(level).whole = level.whole + 1
              /\ Aged(level).part = level.part + Rate - Unit
<1>1. level.part + Rate < Unit \/ level.part + Rate >= Unit
  BY LevelFields, Numbers
<1>2. level.part + Rate >= Unit => ~(level.part + Rate < Unit)
  BY LevelFields, Numbers
<1> QED
  BY <1>1, <1>2 DEF Aged, Level

LEMMA ConsumeFields ==
    ASSUME NEW level \in Level, NEW n
    PROVE  /\ Consume(level, n).whole = level.whole /\ Consume(level, n).part = level.part
           /\ Consume(level, n).tokens = IF level.tokens >= n THEN level.tokens - n
                                         ELSE level.tokens
  BY DEF Consume, Level

(* Time is as good to the one that is ahead as to the other. *)
LEMMA AheadAged ==
    ASSUME NEW l \in Level, NEW g \in Level, Ahead(l, g)
    PROVE  Ahead(Aged(l), Aged(g))
<1>1. Aged(l) \in Level /\ Aged(g) \in Level
  BY AgedIsLevel
<1>2. CASE l.whole = Bucket /\ Aged(l) = l
  BY <1>1, <1>2, LevelFields, Numbers DEF Ahead
<1>3. CASE g.whole = Bucket /\ Aged(g) = g
  BY <1>1, <1>3, AgedFields, LevelFields, Numbers DEF Ahead
<1>4. CASE l.whole # Bucket /\ g.whole # Bucket
  <2>1. \/ /\ l.part + Rate < Unit
           /\ Aged(l).tokens = l.tokens /\ Aged(l).whole = l.whole
           /\ Aged(l).part = l.part + Rate
        \/ /\ l.part + Rate >= Unit
           /\ Aged(l).tokens = l.tokens /\ Aged(l).whole = l.whole + 1
           /\ Aged(l).part = l.part + Rate - Unit
    BY <1>4, AgedFields
  <2>2. \/ /\ g.part + Rate < Unit
           /\ Aged(g).tokens = g.tokens /\ Aged(g).whole = g.whole
           /\ Aged(g).part = g.part + Rate
        \/ /\ g.part + Rate >= Unit
           /\ Aged(g).tokens = g.tokens /\ Aged(g).whole = g.whole + 1
           /\ Aged(g).part = g.part + Rate - Unit
    BY <1>4, AgedFields
  <2>3. /\ l.tokens \in Nat /\ l.whole \in Nat /\ l.part \in Nat /\ l.part < Unit
        /\ g.tokens \in Nat /\ g.whole \in Nat /\ g.part \in Nat /\ g.part < Unit
    BY LevelFields
  <2> QED
    BY <2>1, <2>2, <2>3, Numbers DEF Ahead
<1> QED
  BY <1>2, <1>3, <1>4 DEF Aged

(* The one that is ahead has as many tokens, once both are refilled. *)
LEMMA AheadRefilled ==
    ASSUME NEW l \in Level, NEW g \in Level, Ahead(l, g)
    PROVE  RefillTokens(l).tokens >= RefillTokens(g).tokens
<1>1. /\ RefillTokens(l).tokens = Lesser(l.tokens + l.whole, Bucket)
      /\ RefillTokens(g).tokens = Lesser(g.tokens + g.whole, Bucket)
  BY RefillIsLevel
<1> QED
  BY <1>1, LevelFields, Numbers DEF Ahead, Lesser

(* What the one behind pays does not put it ahead. *)
LEMMA AheadKept ==
    ASSUME NEW l \in Level, NEW g \in Level, NEW n \in Amount, Ahead(l, g)
    PROVE  Ahead(l, Consume(RefillTokens(g), n))
<1>1. /\ RefillTokens(g) \in Level /\ RefillTokens(g).whole = 0 /\ RefillTokens(g).part = 0
      /\ RefillTokens(g).tokens = Lesser(g.tokens + g.whole, Bucket)
  BY RefillIsLevel
<1>2. /\ l.tokens \in Nat /\ l.whole \in Nat /\ l.part \in Nat
      /\ g.tokens \in Nat /\ g.whole \in Nat /\ g.part \in Nat
      /\ n \in Nat
  BY LevelFields, Numbers
<1>3. RefillTokens(g).tokens \in Nat /\ RefillTokens(g).tokens <= g.tokens + g.whole
  BY <1>1, <1>2, Numbers DEF Lesser
<1>4. /\ Consume(RefillTokens(g), n).whole = 0 /\ Consume(RefillTokens(g), n).part = 0
      /\ Consume(RefillTokens(g), n).tokens = IF RefillTokens(g).tokens >= n
                                              THEN RefillTokens(g).tokens - n
                                              ELSE RefillTokens(g).tokens
  BY <1>1, ConsumeFields
<1> QED
  BY <1>2, <1>3, <1>4, Numbers DEF Ahead

LEMMA DriftInit == RateInit => DriftInv
<1> SUFFICES ASSUME RateInit PROVE DriftInv
  OBVIOUS
<1>1. \A s \in Index : slot[s].client = NoClient
  BY DEF RateInit
<1>2. MutexFree
  BY DEF RateInit, NoCheck, MutexFree
<1> QED
  BY <1>1, <1>2, RateInitTyped DEF DriftInv, NotBehind, PaidFirst

\* The global bucket pays in an instant, and the client's is refilled in it or later.
LEMMA DriftCheck ==
    ASSUME DriftInv, NEW c \in Client \cup {NoClient}, NEW n \in Amount, Check(c, n)
    PROVE  PaidFirst' /\ \A s \in Index : NotBehind(s)'
<1> DEFINE g == RefillTokens(global)
<1>1. /\ global \in Level /\ g \in Level /\ global' = Consume(g, n) /\ drifted' = drifted
      /\ \A s \in Index : slot[s] \in SlotRecord /\ slot[s].level \in Level
  BY RefillIsLevel DEF DriftInv, RateTypeOK, SlotRecord, Check, CheckGlobal
<1>2. \A l \in Level : Ahead(l, global) => Ahead(l, global')
  BY <1>1, AheadKept
<1>3. CASE slot' = slot /\ pending' = pending
  <2>1. MutexFree /\ MutexFree'
    BY <1>3 DEF Check, MutexFree
  <2>2. \A s \in Index : NotBehind(s)'
    BY <1>1, <1>2, <1>3 DEF DriftInv, NotBehind
  <2> QED
    BY <2>1, <2>2 DEF PaidFirst
<1>4. ASSUME g.tokens >= n, c # NoClient, NEW s \in FindClientSlot(c), CheckClient(c, s, n)
      PROVE  PaidFirst' /\ \A t \in Index : NotBehind(t)'
  <2>1. c \in Client /\ s \in Index
    BY <1>4, FoundSlot
  <2>2. /\ slot[s].client = c => slot' = slot
        /\ slot[s].client # c => slot'[s] = [client |-> c, level |-> FullLevel, blockLeft |-> 0]
        /\ \A t \in Index \ {s} : slot'[t] = slot[t]
        /\ pending' \in {NoCheck, [slot |-> s, tokens |-> n, late |-> 0]}
    BY <1>4, <2>1, CheckClientTyped DEF DriftInv
  <2>3. /\ FullLevel \in Level /\ RefillTokens(FullLevel).tokens = Bucket
        /\ \A x : Ahead(FullLevel, x)
    BY FullIsLevel, Numbers, RefillIsLevel DEF FullLevel, Ahead, Lesser
  <2>4. ASSUME NEW t \in Index PROVE NotBehind(t)'
    <3>1. CASE slot'[t] = slot[t]
      BY <1>1, <1>2, <3>1 DEF DriftInv, NotBehind
    <3>2. CASE slot'[t] # slot[t]
      <4>1. slot'[t] = [client |-> c, level |-> FullLevel, blockLeft |-> 0]
        BY <2>2, <3>2
      <4>2. slot'[t].blockLeft = 0 /\ slot'[t].level = FullLevel
        BY <4>1
      <4> QED
        BY <2>3, <4>2 DEF NotBehind
    <3> QED
      BY <3>1, <3>2
  <2>5. /\ global'.whole = 0 /\ global'.part = 0 /\ global'.tokens = g.tokens - n
        /\ g.tokens \in Nat /\ g.tokens <= Bucket /\ n \in Nat
    BY <1>1, <1>4, RefillIsLevel, ConsumeFields, LevelFields, Numbers
  <2>6. CASE pending' = NoCheck
    BY <2>4, <2>6 DEF PaidFirst, MutexFree, NoCheck
  <2>7. CASE pending' = [slot |-> s, tokens |-> n, late |-> 0]
    <3>1. pending'.slot = s /\ pending'.tokens = n
      BY <2>7
    <3>2. global'.tokens + n = g.tokens
      BY <2>5
    <3>3. ASSUME ~drifted[s] PROVE RefillTokens(slot'[s].level).tokens >= g.tokens
      <4>1. CASE slot[s].client = c
        <5>1. Ahead(slot[s].level, global)
          BY <1>4, <2>1, <3>3, <4>1 DEF DriftInv, NotBehind
        <5> QED
          BY <1>1, <2>1, <2>2, <4>1, <5>1, AheadRefilled
      <4>2. CASE slot[s].client # c
        <5>1. slot'[s].level = FullLevel
          BY <2>2, <4>2
        <5> QED
          BY <2>3, <2>5, <5>1, Numbers
      <4> QED
        BY <4>1, <4>2
    <3>4. PaidFirst'
      BY <1>1, <2>5, <3>1, <3>2, <3>3 DEF PaidFirst
    <3> QED
      BY <2>4, <3>4
  <2> QED
    BY <2>2, <2>6, <2>7
<1> QED
  BY <1>1, <1>3, <1>4 DEF Check

\* A client that could pay in the global bucket's instant has paid, and is not behind it.
LEMMA DriftCheckEnds ==
    ASSUME DriftInv, CheckEnds
    PROVE  PaidFirst' /\ \A s \in Index : NotBehind(s)'
<1>1. PICK s \in Index, n \in Amount, left \in 0 .. Block :
         /\ s = pending.slot /\ n = pending.tokens
         /\ slot[s] \in SlotRecord /\ RefillTokens(slot[s].level) \in Level
         /\ slot' = [slot EXCEPT ![s] = [client |-> slot[s].client,
                                         level |-> Consume(RefillTokens(slot[s].level), n),
                                         blockLeft |-> left]]
         /\ RefillTokens(slot[s].level).tokens >= n => left = 0
  BY CheckEndsTyped DEF DriftInv
<1> DEFINE level == RefillTokens(slot[s].level)
<1>2. /\ slot \in [Index -> SlotRecord] /\ drifted \in [Index -> BOOLEAN] /\ global \in Level
      /\ pending.late \in Nat
  BY Numbers DEF DriftInv, RateTypeOK, SlotRecord
<1>3. /\ slot'[s].blockLeft = left /\ slot'[s].level = Consume(level, n)
      /\ \A t \in Index \ {s} : slot'[t] = slot[t]
  BY <1>1, <1>2
<1>4. /\ global' = global /\ \A t \in Index \ {s} : drifted'[t] = drifted[t]
      /\ ~drifted'[s] => ~(pending.late > 0) /\ (~drifted[s] \/ ~(level.tokens < Bucket))
  BY <1>1, <1>2 DEF CheckEnds
<1>5. PaidFirst'
  BY DEF CheckEnds, PaidFirst, MutexFree, NoCheck
<1>6. ASSUME ~drifted'[s] PROVE left = 0 /\ Ahead(slot'[s].level, global)
  <2>1. /\ global.whole = 0 /\ global.part = 0 /\ global.tokens + n <= Bucket
        /\ ~drifted[s] => level.tokens >= global.tokens + n
    <3>1. ~MutexFree /\ pending.late = 0
      BY <1>2, <1>4, <1>6 DEF CheckEnds
    <3> QED
      BY <1>1, <3>1 DEF DriftInv, PaidFirst
  <2>2. /\ level.tokens \in Nat /\ global.tokens \in Nat /\ n \in Nat /\ level.whole = 0
        /\ level.part = 0
    BY <1>1, <1>2, LevelFields, Numbers, RefillIsLevel DEF SlotRecord
  <2>3. level.tokens >= global.tokens + n
    BY <1>4, <1>6, <2>1, <2>2, Numbers
  <2>4. level.tokens >= n
    BY <2>2, <2>3
  <2>5. /\ slot'[s].level.tokens = level.tokens - n
        /\ slot'[s].level.whole = 0 /\ slot'[s].level.part = 0
    BY <1>1, <1>3, <2>2, <2>4, ConsumeFields
  <2> QED
    BY <1>1, <2>1, <2>2, <2>3, <2>4, <2>5 DEF Ahead
<1>7. ASSUME NEW t \in Index PROVE NotBehind(t)'
  <2>1. CASE t = s
    BY <1>3, <1>4, <1>6, <2>1 DEF NotBehind
  <2>2. CASE t # s
    BY <1>3, <1>4, <2>2 DEF DriftInv, NotBehind
  <2> QED
    BY <2>1, <2>2
<1> QED
  BY <1>5, <1>7

\* The clock is as good to every bucket.
LEMMA DriftTick ==
    ASSUME DriftInv, Tick
    PROVE  PaidFirst' /\ \A s \in Index : NotBehind(s)'
<1>1. /\ global \in Level /\ global' = Aged(global) /\ drifted' = drifted
      /\ \A s \in Index : slot[s] \in SlotRecord /\ slot[s].level \in Level
  BY DEF DriftInv, RateTypeOK, SlotRecord, Tick
<1>2. PaidFirst'
  <2>1. CASE MutexFree
    BY <2>1 DEF Tick, PaidFirst, MutexFree, NoCheck
  <2>2. CASE ~MutexFree
    <3>1. pending' = [pending EXCEPT !.late = Lesser(pending.late + 1, Block + 1)]
      BY <2>2 DEF Tick
    <3>2. pending.late \in Nat /\ Lesser(pending.late + 1, Block + 1) > 0
      BY Numbers DEF DriftInv, RateTypeOK, Lesser
    <3>3. pending'.late # 0
      BY <3>1, <3>2 DEF DriftInv, RateTypeOK
    <3> QED
      BY <3>3 DEF PaidFirst
  <2> QED
    BY <2>1, <2>2
<1>3. ASSUME NEW s \in Index PROVE NotBehind(s)'
  <2> DEFINE left == IF slot[s].blockLeft > 0 THEN slot[s].blockLeft - 1 ELSE 0
  <2>1. slot'[s] = [slot[s] EXCEPT !.level = Aged(slot[s].level), !.blockLeft = left]
    BY DEF Tick
  <2>2. /\ slot'[s].client = slot[s].client /\ slot'[s].level = Aged(slot[s].level)
        /\ slot'[s].blockLeft = left
    BY <1>1, <2>1 DEF SlotRecord
  <2>3. slot[s].blockLeft = 0 => left = 0
    OBVIOUS
  <2> QED
    BY <1>1, <2>2, <2>3, AheadAged DEF DriftInv, NotBehind
<1> QED
  BY <1>2, <1>3

LEMMA DriftStep == DriftInv /\ [RateNext]_rateVars => DriftInv'
<1> SUFFICES ASSUME DriftInv, [RateNext]_rateVars PROVE DriftInv'
  OBVIOUS
<1>1. RateTypeOK'
  BY RateStepTyped DEF DriftInv
<1>2. CASE UNCHANGED rateVars
  BY <1>1, <1>2 DEF rateVars, DriftInv, PaidFirst, NotBehind, MutexFree
<1>3. CASE RateNext
  BY <1>1, <1>3, DriftTick, DriftCheck, DriftCheckEnds DEF RateNext, DriftInv
<1> QED
  BY <1>2, <1>3

(* A client is refused for its own sake, or blocked, only if the clock moved between the two
   readings of a check of it since its bucket was last full, for any rate, bucket, block and
   number of clients. *)
THEOREM ClientsAreBlockedByDrift == RateSpec => []OnlyDriftBlocks
<1>1. DriftInv => OnlyDriftBlocks
  <2> SUFFICES ASSUME DriftInv PROVE OnlyDriftBlocks
    OBVIOUS
  <2>1. ASSUME NEW c \in Client, IsBlocked(c) PROVE \E s \in Index : slot[s].client = c /\ drifted[s]
    <3>1. PICK s \in FindClientSlot(c) : slot[s].client = c /\ slot[s].blockLeft > 0
      BY <2>1 DEF IsBlocked
    <3>2. s \in Index /\ c # NoClient
      BY <3>1, FoundSlot, RateAssumption
    <3>3. drifted[s]
      BY <3>1, <3>2 DEF DriftInv, NotBehind
    <3> QED
      BY <3>1, <3>2, <3>3
  <2>2. ASSUME ~MutexFree, pending.late = 0, ~drifted[pending.slot]
        PROVE  RefillTokens(slot[pending.slot].level).tokens >= pending.tokens
    <3> DEFINE paid == RefillTokens(slot[pending.slot].level).tokens
    <3>1. paid >= global.tokens + pending.tokens
      BY <2>2 DEF DriftInv, PaidFirst
    <3>2. paid \in Nat /\ global.tokens \in Nat /\ pending.tokens \in Nat
      <4>1. global \in Level /\ slot[pending.slot].level \in Level /\ pending.tokens \in Nat
        BY Numbers DEF DriftInv, RateTypeOK
      <4> QED
        BY <4>1, RefillIsLevel, LevelFields
    <3> QED
      BY <3>1, <3>2
  <2> QED
    BY <2>1, <2>2 DEF OnlyDriftBlocks
<1> QED
  BY <1>1, DriftInit, DriftStep, PTL DEF RateSpec

----------------------------------------------------------------------------
(* The limiter implements a token bucket for all and one for each client.  *)

LEMMA Products ==
    /\ 0 * Unit = 0 /\ Bucket * Unit \in Nat
    /\ \A a, b \in Nat : /\ a * Unit \in Nat
                         /\ (a + b) * Unit = a * Unit + b * Unit
                         /\ (a + 1) * Unit = a * Unit + Unit
  BY Numbers

(* More tokens are worth more. *)
LEMMA Monotone ==
    ASSUME NEW a \in Nat, NEW b \in Nat
    PROVE  /\ a <= b => a * Unit <= b * Unit
           /\ a < b => a * Unit + Unit <= b * Unit
<1>1. ASSUME a <= b PROVE a * Unit <= b * Unit
  <2>1. b - a \in Nat /\ b = a + (b - a)
    BY <1>1
  <2>2. b * Unit = a * Unit + (b - a) * Unit /\ (b - a) * Unit \in Nat /\ a * Unit \in Nat
    BY <2>1, Products
  <2> QED
    BY <2>2
<1>2. ASSUME a < b PROVE a * Unit + Unit <= b * Unit
  <2>1. (b - a) - 1 \in Nat /\ b = (a + 1) + ((b - a) - 1) /\ a + 1 \in Nat
    BY <1>2
  <2>2. b * Unit = (a + 1) * Unit + ((b - a) - 1) * Unit /\ ((b - a) - 1) * Unit \in Nat
    BY <2>1, Products
  <2>3. (a + 1) * Unit = a * Unit + Unit /\ a * Unit \in Nat
    BY Products
  <2> QED
    BY <2>2, <2>3, Numbers
<1> QED
  BY <1>1, <1>2

(* A full bucket is worth most; below that the credit counts tokens and their part. *)
LEMMA CreditBounds ==
    ASSUME NEW l \in Level
    PROVE  /\ Credit(l) \in Nat /\ Credit(l) <= Bucket * Unit
           /\ Credit(FullLevel) = Bucket * Unit
<1>1. /\ l.tokens \in Nat /\ l.whole \in Nat /\ l.part \in Nat /\ l.part < Unit
      /\ l.tokens + l.whole \in Nat
  BY LevelFields
<1>2. ASSUME l.tokens + l.whole >= Bucket
      PROVE  Credit(l) \in Nat /\ Credit(l) <= Bucket * Unit
  <2>1. Credit(l) = Bucket * Unit
    BY <1>2 DEF Credit
  <2>2. Bucket * Unit \in Nat
    BY Products
  <2> QED
    BY <2>1, <2>2
<1>3. ASSUME ~(l.tokens + l.whole >= Bucket)
      PROVE  Credit(l) \in Nat /\ Credit(l) <= Bucket * Unit
  <2> DEFINE earned == (l.tokens + l.whole) * Unit
  <2>1. l.tokens + l.whole < Bucket
    BY <1>1, <1>3, Numbers
  <2>2. earned + Unit <= Bucket * Unit
    BY <1>1, <2>1, Monotone, Numbers
  <2>3. Credit(l) = earned + l.part
    BY <1>3 DEF Credit
  <2>4. earned \in Nat /\ Bucket * Unit \in Nat
    BY <1>1, Products
  <2> HIDE DEF earned
  <2> QED
    BY <1>1, <2>2, <2>3, <2>4, Numbers
<1>4. Credit(FullLevel) = Bucket * Unit
  BY Numbers DEF FullLevel, Credit
<1> QED
  BY <1>2, <1>3, <1>4

(* A step of the clock earns no more than the rate. *)
LEMMA CreditAged ==
    ASSUME NEW l \in Level
    PROVE  Credit(Aged(l)) <= Credit(l) + Rate
<1> DEFINE a == Aged(l)  n == l.tokens + l.whole
<1>1. /\ l.tokens \in Nat /\ l.whole \in Nat /\ l.part \in Nat /\ l.part < Unit /\ n \in Nat
      /\ Rate \in Nat /\ Bucket \in Nat /\ Unit \in Nat
  BY LevelFields, Numbers
<1>2. a \in Level
  BY AgedIsLevel
<1>3. /\ Credit(l) \in Nat /\ Credit(a) \in Nat /\ Credit(a) <= Bucket * Unit
      /\ Bucket * Unit \in Nat
  BY <1>2, CreditBounds, Products
<1>4. CASE n >= Bucket
  <2>1. Credit(l) = Bucket * Unit
    BY <1>4 DEF Credit
  <2> QED
    BY <1>1, <1>3, <2>1
<1>5. CASE n < Bucket
  <2>1. Credit(l) = n * Unit + l.part /\ n * Unit \in Nat
    <3>1. ~(l.tokens + l.whole >= Bucket)
      BY <1>1, <1>5
    <3> QED
      BY <1>1, <3>1, Products DEF Credit
  <2>2. CASE /\ l.part + Rate < Unit
             /\ a.tokens = l.tokens /\ a.whole = l.whole /\ a.part = l.part + Rate
    <3>1. Credit(a) = n * Unit + (l.part + Rate)
      <4>1. ~(a.tokens + a.whole >= Bucket)
        BY <1>1, <1>5, <2>2
      <4> QED
        BY <2>2, <4>1 DEF Credit
    <3> QED
      BY <1>1, <2>1, <3>1
  <2>3. CASE /\ l.part + Rate >= Unit
             /\ a.tokens = l.tokens /\ a.whole = l.whole + 1 /\ a.part = l.part + Rate - Unit
    <3>1. a.tokens + a.whole = n + 1 /\ (n + 1) * Unit = n * Unit + Unit
      <4>1. a.tokens + a.whole = n + 1
        BY <1>1, <2>3
      <4>2. (n + 1) * Unit = n * Unit + Unit
        BY <1>1, Products
      <4> QED
        BY <4>1, <4>2
    <3>2. CASE n + 1 >= Bucket
      <4>1. n + 1 = Bucket
        BY <1>1, <1>5, <3>2
      <4>2. Credit(a) <= n * Unit + Unit
        BY <1>3, <3>1, <4>1
      <4> QED
        BY <1>1, <1>3, <2>1, <2>3, <4>2
    <3>3. CASE ~(n + 1 >= Bucket)
      <4>1. Credit(a) = n * Unit + Unit + (l.part + Rate - Unit)
        BY <2>3, <3>1, <3>3 DEF Credit
      <4> QED
        BY <1>1, <2>1, <4>1
    <3> QED
      BY <3>2, <3>3
  <2>4. l.whole # Bucket
    BY <1>1, <1>5
  <2> QED
    BY <2>2, <2>3, <2>4, AgedFields
<1> QED
  BY <1>1, <1>4, <1>5

(* Refilling makes nothing, and what is taken is paid. *)
LEMMA CreditPaid ==
    ASSUME NEW l \in Level, NEW n \in Amount
    PROVE  /\ Credit(Consume(RefillTokens(l), n)) <= Credit(l)
           /\ RefillTokens(l).tokens >= n =>
                 Credit(Consume(RefillTokens(l), n)) <= Credit(l) - n * Unit
<1> DEFINE r == RefillTokens(l)  t == r.tokens  c == Consume(r, n)
<1>1. /\ r \in Level /\ r.whole = 0 /\ r.part = 0 /\ t = Lesser(l.tokens + l.whole, Bucket)
  BY RefillIsLevel
<1>2. /\ l.tokens \in Nat /\ l.whole \in Nat /\ l.part \in Nat /\ t \in Nat /\ t <= Bucket
      /\ n \in Nat /\ n > 0 /\ Bucket \in Nat /\ Unit \in Nat
  BY <1>1, LevelFields, Numbers
<1>3. t * Unit <= Credit(l)
  <2>1. CASE l.tokens + l.whole >= Bucket
    <3>1. Credit(l) = Bucket * Unit
      BY <2>1 DEF Credit
    <3> QED
      BY <1>2, <3>1, Monotone
  <2>2. CASE ~(l.tokens + l.whole >= Bucket)
    <3>1. t = l.tokens + l.whole
      BY <1>1, <1>2, <2>2 DEF Lesser
    <3>2. Credit(l) = t * Unit + l.part
      BY <2>2, <3>1 DEF Credit
    <3> QED
      BY <1>2, <3>2, Products
  <2> QED
    BY <2>1, <2>2
<1>4. \A x \in Level : x.whole = 0 /\ x.part = 0 => Credit(x) <= x.tokens * Unit
  <2> SUFFICES ASSUME NEW x \in Level, x.whole = 0, x.part = 0
               PROVE  Credit(x) <= x.tokens * Unit
    OBVIOUS
  <2>1. x.tokens \in Nat /\ x.tokens <= Bucket /\ x.tokens + x.whole = x.tokens
    BY LevelFields
  <2>2. CASE x.tokens >= Bucket
    <3>1. x.tokens = Bucket
      BY <1>2, <2>1, <2>2
    <3>2. Credit(x) = Bucket * Unit
      BY <2>1, <2>2 DEF Credit
    <3> QED
      BY <3>1, <3>2, Products
  <2>3. CASE ~(x.tokens >= Bucket)
    <3>1. Credit(x) = (x.tokens + x.whole) * Unit + x.part
      BY <2>1, <2>3 DEF Credit
    <3>2. Credit(x) = x.tokens * Unit + 0
      BY <2>1, <3>1
    <3>3. x.tokens * Unit \in Nat
      BY <2>1, Products
    <3> QED
      BY <3>2, <3>3
  <2> QED
    BY <2>2, <2>3
<1>5. c \in Level /\ c.whole = 0 /\ c.part = 0
  BY <1>1, ConsumeFields, ConsumeIsLevel
<1>6. Credit(c) <= c.tokens * Unit /\ Credit(c) \in Nat /\ Credit(l) \in Nat
  BY <1>4, <1>5, CreditBounds
<1>7. CASE t >= n
  <2>1. c.tokens = t - n
    BY <1>1, <1>7, ConsumeFields
  <2>2. t - n \in Nat /\ t = n + (t - n)
    BY <1>2, <1>7
  <2>3. t * Unit = n * Unit + (t - n) * Unit /\ n * Unit \in Nat /\ (t - n) * Unit \in Nat
    BY <1>2, <2>2, Products
  <2> QED
    BY <1>3, <1>6, <2>1, <2>3
<1>8. CASE ~(t >= n)
  <2>1. c.tokens = t
    BY <1>1, <1>8, ConsumeFields
  <2> QED
    BY <1>2, <1>3, <1>6, <1>8, <2>1, Products
<1> QED
  BY <1>7, <1>8

\* OwnerCredit of a state, and OwnerSeen, of its values.
CreditIn(g, table, o) ==
    IF o = NoClient THEN Credit(g)
    ELSE IF \E s \in Index : table[s].client = o
    THEN Credit(table[CHOOSE s \in Index : table[s].client = o].level)
    ELSE Bucket * Unit

SeenIn(p, o) ==
    IF o = NoClient THEN p.all ELSE IF p.client = o THEN p.tokens ELSE 0

LEMMA OwnersCredit ==
    /\ OwnerCredit = [o \in Owner |-> CreditIn(global, slot, o)]
    /\ OwnerCredit' = [o \in Owner |-> CreditIn(global', slot', o)]
    /\ OwnerSeen = [o \in Owner |-> SeenIn(passed, o)]
    /\ OwnerSeen' = [o \in Owner |-> SeenIn(passed', o)]
  BY DEF OwnerCredit, OwnerSeen, CreditIn, SeenIn, Tracked

\* The table that holds o in the slot s only.
HoldsAt(table, o, s) ==
    s \in Index /\ table[s].client = o /\ \A t \in Index : table[t].client = o => t = s

LEMMA CreditOfSlot ==
    ASSUME NEW g, NEW table, NEW o \in Client, NEW s, HoldsAt(table, o, s)
    PROVE  CreditIn(g, table, o) = Credit(table[s].level)
<1>1. (CHOOSE t \in Index : table[t].client = o) = s
  BY DEF HoldsAt
<1>2. o # NoClient
  BY RateAssumption
<1> QED
  BY <1>1, <1>2 DEF CreditIn, HoldsAt

LEMMA CreditOfNone ==
    ASSUME NEW g, NEW table, NEW o \in Client, ~\E s \in Index : table[s].client = o
    PROVE  CreditIn(g, table, o) = Bucket * Unit
  BY RateAssumption DEF CreditIn

LEMMA TableHolds ==
    /\ TableInv => \A o \in Client, s \in Index : slot[s].client = o => HoldsAt(slot, o, s)
    /\ TableInv' => \A o \in Client, s \in Index : slot'[s].client = o => HoldsAt(slot', o, s)
  BY RateAssumption DEF TableInv, OneSlotPerClient, HoldsAt

LEMMA CreditTyped ==
    ASSUME NEW g \in Level, NEW table \in [Index -> SlotRecord], NEW o \in Owner
    PROVE  CreditIn(g, table, o) \in 0 .. Bucket * Unit
<1>1. \A l \in Level : Credit(l) \in 0 .. Bucket * Unit
  BY CreditBounds, Products
<1>2. CASE o # NoClient /\ \E s \in Index : table[s].client = o
  <2>1. (CHOOSE s \in Index : table[s].client = o) \in Index
    BY <1>2
  <2> QED
    BY <1>1, <1>2, <2>1 DEF CreditIn, SlotRecord
<1>3. CASE o # NoClient /\ ~\E s \in Index : table[s].client = o
  BY <1>3, Products DEF CreditIn
<1>4. CASE o = NoClient
  BY <1>1, <1>4 DEF CreditIn
<1> QED
  BY <1>2, <1>3, <1>4

LEMMA TickEarns ==
    ASSUME TableInv, TableInv', Tick, NEW o \in Owner
    PROVE  /\ CreditIn(global', slot', o) <= CreditIn(global, slot, o) + Rate
           /\ SeenIn(passed', o) = 0
<1>1. /\ global \in Level /\ global' = Aged(global)
      /\ \A s \in Index : /\ slot[s] \in SlotRecord /\ slot[s].level \in Level
                         /\ slot'[s].client = slot[s].client
                         /\ slot'[s].level = Aged(slot[s].level)
  BY DEF Tick, TableInv, RateTypeOK, SlotRecord
<1>2. SeenIn(passed', o) = 0
  BY DEF Tick, SeenIn, Nothing, Taken
<1>3. CASE o = NoClient
  BY <1>1, <1>2, <1>3, CreditAged DEF CreditIn
<1>4. ASSUME o # NoClient, NEW s \in Index, slot[s].client = o
      PROVE  CreditIn(global', slot', o) <= CreditIn(global, slot, o) + Rate
  <2>1. o \in Client
    BY <1>4 DEF Owner
  <2>2. HoldsAt(slot, o, s) /\ HoldsAt(slot', o, s)
    BY <1>1, <1>4, <2>1, TableHolds
  <2>3. /\ CreditIn(global, slot, o) = Credit(slot[s].level)
        /\ CreditIn(global', slot', o) = Credit(slot'[s].level)
    BY <2>1, <2>2, CreditOfSlot
  <2> QED
    BY <1>1, <2>3, CreditAged
<1>5. CASE o # NoClient /\ ~\E s \in Index : slot[s].client = o
  <2>1. ~\E s \in Index : slot'[s].client = o
    BY <1>1, <1>5
  <2>2. CreditIn(global, slot, o) = Bucket * Unit /\ CreditIn(global', slot', o) = Bucket * Unit
    BY <1>5, <2>1, CreditOfNone DEF Owner
  <2>3. Bucket * Unit \in Nat /\ Rate \in Nat
    BY Products, Numbers
  <2> QED
    BY <1>2, <2>2, <2>3
<1> QED
  BY <1>2, <1>3, <1>4, <1>5

\* The global bucket pays for a check; the client's is what it was, a new one's is full.
LEMMA CheckPays ==
    ASSUME TableInv, TableInv', NEW c \in Owner, NEW n \in Amount, Check(c, n), NEW o \in Owner
    PROVE  CreditIn(global', slot', o) <=
               CreditIn(global, slot, o) - SeenIn(passed', o) * Unit
<1>1. /\ global \in Level /\ global' = Consume(RefillTokens(global), n)
      /\ slot \in [Index -> SlotRecord] /\ slot' \in [Index -> SlotRecord] /\ global' \in Level
  BY DEF Check, CheckGlobal, TableInv, RateTypeOK, SlotRecord
<1>2. /\ CreditIn(global, slot, o) \in Nat /\ CreditIn(global', slot', o) \in Nat
      /\ 0 * Unit = 0 /\ n * Unit \in Nat
  <2>1. Bucket * Unit \in Nat /\ 0 * Unit = 0 /\ n * Unit \in Nat
    BY Products, Numbers
  <2> QED
    BY <1>1, <2>1, CreditTyped
<1>3. CASE o = NoClient
  <2>1. /\ CreditIn(global, slot, o) = Credit(global)
        /\ CreditIn(global', slot', o) = Credit(Consume(RefillTokens(global), n))
    BY <1>1, <1>3 DEF CreditIn
  <2>2. \/ SeenIn(passed', o) = 0
        \/ SeenIn(passed', o) = n /\ RefillTokens(global).tokens >= n
    BY <1>3 DEF Check, SeenIn, Nothing, Taken
  <2>3. CreditIn(global', slot', o) <= CreditIn(global, slot, o)
    BY <1>1, <2>1, CreditPaid
  <2>4. RefillTokens(global).tokens >= n =>
            CreditIn(global', slot', o) <= CreditIn(global, slot, o) - n * Unit
    BY <1>1, <2>1, CreditPaid
  <2> QED
    BY <1>2, <2>2, <2>3, <2>4
<1>4. CASE o # NoClient
  <2>1. o \in Client
    BY <1>4 DEF Owner
  <2>2. SeenIn(passed', o) = 0
    BY <1>4 DEF Check, SeenIn, Nothing, Taken
  <2>3. CreditIn(global', slot', o) = CreditIn(global, slot, o)
    <3>1. CASE slot' = slot
      BY <1>4, <3>1 DEF CreditIn
    <3>2. ASSUME c # NoClient, NEW s \in FindClientSlot(c), CheckClient(c, s, n), slot' # slot
          PROVE  CreditIn(global', slot', o) = CreditIn(global, slot, o)
      <4>1. c \in Client /\ s \in Index
        BY <3>2, FoundSlot DEF Owner
      <4>2. /\ slot[s].client # c
            /\ slot'[s] = [client |-> c, level |-> FullLevel, blockLeft |-> 0]
            /\ \A t \in Index \ {s} : slot'[t] = slot[t]
        BY <3>2, <4>1, CheckClientTyped DEF TableInv
      <4>3. slot'[s].client = c /\ slot'[s].level = FullLevel
        BY <4>2
      <4>4. slot[s].client = NoClient
        BY <3>2, <4>1, <4>2, FoundSlot
      <4>5. HoldsAt(slot', c, s)
        BY <4>1, <4>3, TableHolds
      <4>6. CASE o = c
        <5>1. ~\E t \in Index : slot[t].client = c
          BY <4>2, <4>5 DEF HoldsAt
        <5>2. CreditIn(global, slot, o) = Bucket * Unit
          BY <2>1, <4>6, <5>1, CreditOfNone
        <5>3. CreditIn(global', slot', o) = Credit(FullLevel)
          BY <2>1, <4>3, <4>5, <4>6, CreditOfSlot
        <5> QED
          BY <5>2, <5>3, FullIsLevel, CreditBounds
      <4>7. CASE o # c
        <5>1. ASSUME NEW t \in Index, slot[t].client = o
              PROVE  CreditIn(global', slot', o) = CreditIn(global, slot, o)
          <6>1. slot'[t] = slot[t]
            BY <1>4, <4>2, <4>4, <5>1
          <6>2. HoldsAt(slot, o, t) /\ HoldsAt(slot', o, t)
            BY <2>1, <5>1, <6>1, TableHolds
          <6> QED
            BY <2>1, <6>1, <6>2, CreditOfSlot
        <5>2. CASE ~\E t \in Index : slot[t].client = o
          <6>1. ~\E t \in Index : slot'[t].client = o
            BY <4>2, <4>3, <4>7, <5>2
          <6> QED
            BY <2>1, <5>2, <6>1, CreditOfNone
        <5> QED
          BY <5>1, <5>2
      <4> QED
        BY <4>6, <4>7
    <3> QED
      BY <3>1, <3>2 DEF Check
  <2> QED
    BY <1>2, <2>2, <2>3
<1> QED
  BY <1>3, <1>4

\* The client's own bucket pays at the end of the check.
LEMMA CheckEndsPays ==
    ASSUME TableInv, TableInv', CheckEnds, NEW o \in Owner
    PROVE  CreditIn(global', slot', o) <=
               CreditIn(global, slot, o) - SeenIn(passed', o) * Unit
<1>1. PICK s \in Index, n \in Amount, left \in 0 .. Block :
         /\ slot[s] \in SlotRecord /\ slot[s].level \in Level
         /\ slot' = [slot EXCEPT ![s] = [client |-> slot[s].client,
                                         level |-> Consume(RefillTokens(slot[s].level), n),
                                         blockLeft |-> left]]
         /\ RefillTokens(slot[s].level).tokens >= n => passed' = Taken(0, slot[s].client, n)
         /\ ~(RefillTokens(slot[s].level).tokens >= n) => passed' = Nothing
  BY CheckEndsTyped DEF TableInv, SlotRecord
<1>2. /\ slot \in [Index -> SlotRecord] /\ slot' \in [Index -> SlotRecord]
      /\ global \in Level /\ global' = global
  BY DEF TableInv, RateTypeOK, SlotRecord, CheckEnds
<1>3. /\ slot'[s].client = slot[s].client
      /\ slot'[s].level = Consume(RefillTokens(slot[s].level), n)
      /\ \A t \in Index \ {s} : slot'[t] = slot[t]
  BY <1>1, <1>2
<1>4. /\ CreditIn(global, slot, o) \in Nat /\ CreditIn(global', slot', o) \in Nat
      /\ 0 * Unit = 0 /\ n * Unit \in Nat
  <2>1. Bucket * Unit \in Nat /\ 0 * Unit = 0 /\ n * Unit \in Nat
    BY Products, Numbers
  <2> QED
    BY <1>2, <2>1, CreditTyped
<1>5. CASE o = slot[s].client /\ o # NoClient
  <2>1. o \in Client
    BY <1>5 DEF Owner
  <2>2. HoldsAt(slot, o, s) /\ HoldsAt(slot', o, s)
    BY <1>3, <1>5, <2>1, TableHolds
  <2>3. /\ CreditIn(global, slot, o) = Credit(slot[s].level)
        /\ CreditIn(global', slot', o) = Credit(Consume(RefillTokens(slot[s].level), n))
    BY <1>3, <2>1, <2>2, CreditOfSlot
  <2>4. \/ SeenIn(passed', o) = 0
        \/ SeenIn(passed', o) = n /\ RefillTokens(slot[s].level).tokens >= n
    BY <1>1, <1>5 DEF SeenIn, Nothing, Taken
  <2>5. CreditIn(global', slot', o) <= CreditIn(global, slot, o)
    BY <1>1, <2>3, CreditPaid
  <2>6. RefillTokens(slot[s].level).tokens >= n =>
            CreditIn(global', slot', o) <= CreditIn(global, slot, o) - n * Unit
    BY <1>1, <2>3, CreditPaid
  <2> QED
    BY <1>4, <2>4, <2>5, <2>6
<1>6. CASE ~(o = slot[s].client /\ o # NoClient)
  <2>1. SeenIn(passed', o) = 0
    BY <1>1, <1>6 DEF SeenIn, Nothing, Taken
  <2>2. CreditIn(global', slot', o) = CreditIn(global, slot, o)
    <3>1. CASE o = NoClient
      BY <1>2, <3>1 DEF CreditIn
    <3>2. ASSUME o # NoClient, NEW t \in Index, slot[t].client = o
          PROVE  CreditIn(global', slot', o) = CreditIn(global, slot, o)
      <4>1. o \in Client /\ slot'[t] = slot[t]
        BY <1>3, <1>6, <3>2 DEF Owner
      <4>2. HoldsAt(slot, o, t) /\ HoldsAt(slot', o, t)
        BY <3>2, <4>1, TableHolds
      <4> QED
        BY <4>1, <4>2, CreditOfSlot
    <3>3. CASE o # NoClient /\ ~\E t \in Index : slot[t].client = o
      <4>1. o \in Client /\ ~\E t \in Index : slot'[t].client = o
        BY <1>3, <3>3 DEF Owner
      <4> QED
        BY <3>3, <4>1, CreditOfNone
    <3> QED
      BY <3>1, <3>2, <3>3
  <2> QED
    BY <1>4, <2>1, <2>2
<1> QED
  BY <1>5, <1>6

LEMMA BucketsTyped ==
    ASSUME TableInv'
    PROVE  /\ OwnerCredit' \in [Owner -> 0 .. Buckets!Full]
           /\ OwnerSeen' \in [Owner -> Amount \cup {0}]
<1>1. /\ global' \in Level /\ slot' \in [Index -> SlotRecord]
      /\ passed'.tokens \in Amount \cup {0} /\ passed'.all \in Amount \cup {0}
  BY DEF TableInv, RateTypeOK, SlotRecord
<1>2. \A o \in Owner : CreditIn(global', slot', o) \in 0 .. Bucket * Unit
  BY <1>1, CreditTyped
<1>3. \A o \in Owner : SeenIn(passed', o) \in Amount \cup {0}
  BY <1>1 DEF SeenIn
<1> QED
  BY <1>2, <1>3, OwnersCredit DEF Buckets!Full

LEMMA BucketsInit == RateInit => Buckets!BucketInit
<1> SUFFICES ASSUME RateInit PROVE Buckets!BucketInit
  OBVIOUS
<1>1. global = FullLevel /\ passed = Nothing /\ ~\E s \in Index : slot[s].client # NoClient
  BY DEF RateInit
<1>2. ASSUME NEW o \in Owner
      PROVE  CreditIn(global, slot, o) = Bucket * Unit /\ SeenIn(passed, o) = 0
  <2>1. SeenIn(passed, o) = 0
    BY <1>1 DEF SeenIn, Nothing, Taken
  <2>2. CASE o = NoClient
    BY <1>1, <2>1, <2>2, CreditBounds, FullIsLevel DEF CreditIn
  <2>3. CASE o # NoClient
    BY <1>1, <2>1, <2>3, CreditOfNone DEF Owner
  <2> QED
    BY <2>2, <2>3
<1> QED
  BY <1>2, OwnersCredit DEF Buckets!BucketInit, Buckets!Full

LEMMA BucketsStep ==
    TableInv /\ TableInv' /\ [RateNext]_rateVars
        => [Buckets!BucketNext]_<<OwnerCredit, OwnerSeen>>
<1> SUFFICES ASSUME TableInv, TableInv', [RateNext]_rateVars
             PROVE  [Buckets!BucketNext]_<<OwnerCredit, OwnerSeen>>
  OBVIOUS
<1>1. CASE Tick
  <2>1. \A o \in Owner : /\ OwnerCredit'[o] <= OwnerCredit[o] + Rate
                         /\ OwnerSeen'[o] = 0
    BY <1>1, TickEarns, OwnersCredit
  <2>2. OwnerSeen' = [o \in Owner |-> 0]
    BY <2>1, OwnersCredit
  <2> QED
    BY <2>1, <2>2, BucketsTyped DEF Buckets!BucketNext, Buckets!Earn
<1>2. ASSUME NEW c \in Client \cup {NoClient}, NEW n \in Amount, Check(c, n)
      PROVE  Buckets!Pass
  <2>1. \A o \in Owner : OwnerCredit'[o] <= OwnerCredit[o] - OwnerSeen'[o] * Unit
    BY <1>2, CheckPays, OwnersCredit DEF Owner
  <2> QED
    BY <2>1, BucketsTyped DEF Buckets!Pass
<1>3. ASSUME CheckEnds PROVE Buckets!Pass
  <2>1. \A o \in Owner : OwnerCredit'[o] <= OwnerCredit[o] - OwnerSeen'[o] * Unit
    BY <1>3, CheckEndsPays, OwnersCredit
  <2> QED
    BY <2>1, BucketsTyped DEF Buckets!Pass
<1>4. CASE UNCHANGED rateVars
  BY <1>4 DEF rateVars, OwnerCredit, OwnerSeen, Tracked
<1> QED
  BY <1>1, <1>2, <1>3, <1>4 DEF RateNext, Buckets!BucketNext

(* The limiter is a token bucket for all requests and one for each client in the table: for
   any rate, size, hash, clients and amounts, no owner passes more than its bucket and the
   time allow. *)
THEOREM LimiterImplementsBuckets == RateSpec => ImplementsTokenBuckets
  BY BucketsInit, BucketsStep, TableInit, TableStep, PTL
     DEF RateSpec, ImplementsTokenBuckets, Buckets!BucketSpec

=============================================================================
