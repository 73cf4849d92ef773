----------------------------- MODULE RateLimiter ----------------------------
(***************************************************************************)
(* rate_limiter.c for one service type; the types share nothing but a      *)
(* mutex.  There is one bucket for all requests and one for each client in *)
(* a table of hashed slots with linear probing.                            *)
(*                                                                         *)
(* Times are ages: of a bucket's last_update_us, the tokens earned since   *)
(* and the part of the next one; of blocked_until_us, what is left.  What  *)
(* was earned is counted no further than a full bucket, where              *)
(* refill_tokens cuts it off.  (The wrap of 32 bits in tokens_to_add takes *)
(* years without a request.)                                               *)
(*                                                                         *)
(* A check reads the clock twice: once for the global bucket, a new        *)
(* client's bucket and both ends of a block, once more in refill_tokens    *)
(* for the client's own.  It keeps the mutex in between, but not the clock *)
(* from moving, so a check of a client is two steps.                       *)
(***************************************************************************)
EXTENDS Integers, FiniteSets

CONSTANTS
    Client,      \* the clients, by their identifier
    NoClient,    \* client NULL: the global bucket only
    ClientSlots, \* MAX_CLIENTS_PER_TYPE
    Hash,        \* hash_client
    Unit,        \* one token, in earnings: 1000000 in the code
    Rate,        \* earned in a step of the clock: tokens_per_second for a microsecond
    Bucket,      \* bucket_size
    Block,       \* block_duration_ms, in steps of the clock
    Amount       \* tokens asked for at once

ASSUME RateAssumption ==
    /\ NoClient \notin Client
    /\ ClientSlots \in Nat \ {0}
    /\ Hash \in [Client -> Nat]
    /\ Unit \in Nat \ {0}
    /\ Rate \in 0 .. Unit
    /\ Bucket \in Nat
    /\ Block \in Nat
    /\ Amount \subseteq Nat \ {0}

VARIABLES
    global,     \* global_tokens and its age
    slot,       \* clients[]: who holds the slot, its bucket, its block
    pending,    \* the check between its two readings of the clock, no tokens if there is none
    passed,     \* what the last step took from the global bucket and from a client's
    drifted     \* history: whose last refills were not all of the global one's instant

rateVars == <<global, slot, pending, passed, drifted>>

Index == 0 .. ClientSlots - 1
Level == [tokens : 0 .. Bucket, whole : 0 .. Bucket, part : 0 .. Unit - 1]

\* No check has the mutex.
NoCheck == [slot |-> 0, tokens |-> 0, late |-> 0]
MutexFree == pending.tokens = 0

\* What a step takes: all tokens of the global bucket, the client's of its own.
Taken(all, c, n) == [all |-> all, client |-> c, tokens |-> n]
Nothing == Taken(0, NoClient, 0)

RateTypeOK ==
    /\ global \in Level
    /\ slot \in [Index -> [client : Client \cup {NoClient}, level : Level, blockLeft : 0 .. Block]]
    /\ pending \in [slot : Index, tokens : Amount \cup {0}, late : 0 .. Block + 1]
    /\ passed \in [all : Amount \cup {0}, client : Client \cup {NoClient}, tokens : Amount \cup {0}]
    /\ drifted \in [Index -> BOOLEAN]

Lesser(m, n) == IF m < n THEN m ELSE n

\* A bucket filled to the brim now.
FullLevel == [tokens |-> Bucket, whole |-> 0, part |-> 0]

----------------------------------------------------------------------------

\* Fault: the first free slot on the way is taken before the client's own is looked for.
FindClientSlotFree(c) ==
    LET probe(i) == (Hash[c] + i) % ClientSlots
        fits == {i \in Index : slot[probe(i)].client = NoClient}
    IN {probe(i) : i \in {j \in fits : \A k \in fits : j >= k}}

\* find_client_slot: the slot of the client or the first free one, none if the table is full.
FindClientSlot(c) ==
    LET probe(i) == (Hash[c] + i) % ClientSlots
        fits == {i \in Index : slot[probe(i)].client \in {c, NoClient}}
    IN {probe(i) : i \in {j \in fits : \A k \in fits : j <= k}}

\* Fault: last_update_us is left where it was when time is turned into tokens.
RefillTokensKept(level) == [level EXCEPT !.tokens = Lesser(@ + level.whole, Bucket)]

\* refill_tokens: whole tokens only, and what is short of one is forgotten.
RefillTokens(level) ==
    [tokens |-> Lesser(level.tokens + level.whole, Bucket), whole |-> 0, part |-> 0]

\* Fault: the tokens are taken whether they are there or not.
ConsumeAnyway(level, n) == [level EXCEPT !.tokens = @ - n]

\* Take n tokens, if they are there.
Consume(level, n) == IF level.tokens >= n THEN [level EXCEPT !.tokens = @ - n] ELSE level

RateInit ==
    /\ global = FullLevel
    /\ slot = [s \in Index |-> [client |-> NoClient, level |-> FullLevel, blockLeft |-> 0]]
    /\ pending = NoCheck
    /\ passed = Nothing
    /\ drifted = [s \in Index |-> FALSE]

\* Fault: a new client starts with the tokens of an all-zero slot.
NewLevelEmpty == [tokens |-> 0, whole |-> 0, part |-> 0]

\* The bucket of a new client.
NewLevel == FullLevel

\* The request of a client with slot s, once the global bucket has let it through:
\* one that is blocked is refused, the others have yet to be refilled.
CheckClient(c, s, n) ==
    LET known == slot[s].client = c
    IN /\ slot' = IF known THEN slot
                  ELSE [slot EXCEPT ![s] = [client |-> c, level |-> NewLevel, blockLeft |-> 0]]
       /\ pending' = IF known /\ slot[s].blockLeft > 0 THEN NoCheck
                     ELSE [slot |-> s, tokens |-> n, late |-> 0]

\* The global bucket of rate_limiter_check_n, refilled and charged first.
CheckGlobal(n) == global' = Consume(RefillTokens(global), n)

\* rate_limiter_check_n as far as the second reading of the clock: the global bucket
\* pays first, whatever the client's then says.
Check(c, n) ==
    /\ MutexFree
    /\ CheckGlobal(n)
    /\ passed' = IF RefillTokens(global).tokens >= n THEN Taken(n, NoClient, 0) ELSE Nothing
    /\ IF RefillTokens(global).tokens >= n /\ c # NoClient /\ FindClientSlot(c) # {}
       THEN \E s \in FindClientSlot(c) : CheckClient(c, s, n)
       ELSE UNCHANGED <<slot, pending>>
    /\ UNCHANGED drifted

\* What is left of a block that began when the check did.
BlockLeft(late) == IF late < Block THEN Block - late ELSE 0

\* The rest of it: the client's bucket is refilled to a later instant, then charged;
\* one that cannot pay is refused, and blocked.
CheckEnds ==
    LET s == pending.slot
        n == pending.tokens
        level == RefillTokens(slot[s].level)
        pays == level.tokens >= n
    IN /\ ~MutexFree
       /\ slot' = [slot EXCEPT ![s] =
              [client |-> @.client,
               level |-> Consume(level, n),
               blockLeft |-> IF pays THEN 0 ELSE BlockLeft(pending.late)]]
       /\ passed' = IF pays THEN Taken(0, slot[s].client, n) ELSE Nothing
       /\ drifted' = [drifted EXCEPT ![s] = pending.late > 0 \/ (@ /\ level.tokens < Bucket)]
       /\ pending' = NoCheck
       /\ UNCHANGED global

\* esp_timer_get_time moves on.
Aged(level) ==
    IF level.whole = Bucket THEN level
    ELSE IF level.part + Rate < Unit THEN [level EXCEPT !.part = @ + Rate]
    ELSE [level EXCEPT !.whole = @ + 1, !.part = @ + Rate - Unit]

Tick ==
    /\ global' = Aged(global)
    /\ slot' = [s \in Index |-> [slot[s] EXCEPT
                    !.level = Aged(@),
                    !.blockLeft = IF @ > 0 THEN @ - 1 ELSE 0]]
    /\ pending' = IF MutexFree THEN NoCheck ELSE [pending EXCEPT !.late = Lesser(@ + 1, Block + 1)]
    /\ passed' = Nothing
    /\ UNCHANGED drifted

RateNext == Tick \/ CheckEnds \/ \E c \in Client \cup {NoClient}, n \in Amount : Check(c, n)

RateSpec == RateInit /\ [][RateNext]_rateVars

----------------------------------------------------------------------------

Tracked(c) == \E s \in Index : slot[s].client = c

(* No client ever has two slots, with two buckets to spend: linear probing finds
   the client again, whatever others have been put on its way since. *)
OneSlotPerClient ==
    \A s, t \in Index : slot[s].client = slot[t].client /\ slot[s].client # NoClient => s = t

\* What a bucket could pay for now, and what a client has to spend.
Credit(level) ==
    IF level.tokens + level.whole >= Bucket THEN Bucket * Unit
    ELSE (level.tokens + level.whole) * Unit + level.part

Owner == Client \cup {NoClient}

OwnerCredit ==
    [o \in Owner |->
       IF o = NoClient THEN Credit(global)
       ELSE IF Tracked(o) THEN Credit(slot[CHOOSE s \in Index : slot[s].client = o].level)
       ELSE Bucket * Unit]

\* A request counts for all when the global bucket pays, even if the client's own then
\* refuses it.  A client that found the table full has no bucket to pay from.
OwnerSeen ==
    [o \in Owner |->
       IF o = NoClient THEN passed.all
       ELSE IF passed.client = o THEN passed.tokens ELSE 0]

Buckets == INSTANCE TokenBucket WITH credit <- OwnerCredit, seen <- OwnerSeen

(* "Token bucket algorithm with configurable rate/burst", "Global and per-client
   limits": all requests together, and those of each client that has a slot, pass
   no faster than a token bucket of that rate and size would let them. *)
ImplementsTokenBuckets == Buckets!BucketSpec

\* rate_limiter_is_blocked.
IsBlocked(c) == \E s \in FindClientSlot(c) : slot[s].client = c /\ slot[s].blockLeft > 0

(* A client is refused for its own sake, or blocked, only by the drift of its bucket: only
   if the clock moved between the two readings of a check of it, this one or an earlier
   one since its bucket was last full.  Without such a check its bucket, of the size and
   the rate of the global one, can pay whatever that one pays, through any requests of
   others: the "block 10s on violation" of rate_limiter_init is not what one client's
   violation brings about, since the global bucket, paying for all, is empty first. *)
OnlyDriftBlocks ==
    /\ \A c \in Client : IsBlocked(c) => \E s \in Index : slot[s].client = c /\ drifted[s]
    /\ (~MutexFree /\ pending.late = 0 /\ ~drifted[pending.slot])
          => RefillTokens(slot[pending.slot].level).tokens >= pending.tokens

=============================================================================
