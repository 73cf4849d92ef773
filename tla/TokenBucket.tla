----------------------------- MODULE TokenBucket ----------------------------
(***************************************************************************)
(* What a token bucket for each of several owners promises: in any stretch *)
(* of time no more passes than one full bucket and what the rate earns in  *)
(* that time.  It may pass less: credit can be lost, never be made up.     *)
(***************************************************************************)
EXTENDS Integers

CONSTANTS
    Owner,      \* who has a bucket
    Unit,       \* the credit one token is worth
    Rate,       \* the credit earned in one step of the clock
    Bucket,     \* tokens in a full bucket
    Amount      \* tokens a request may ask for

VARIABLES
    credit,     \* what may pass at once, in units
    seen        \* the tokens that passed in the last step

Full == Bucket * Unit

BucketInit ==
    /\ credit = [o \in Owner |-> Full]
    /\ seen = [o \in Owner |-> 0]

\* The clock: no credit grows by more than the rate.
Earn ==
    /\ credit' \in [Owner -> 0 .. Full]
    /\ \A o \in Owner : credit'[o] <= credit[o] + Rate
    /\ seen' = [o \in Owner |-> 0]

\* Requests: what passes is paid for by its owner.
Pass ==
    /\ credit' \in [Owner -> 0 .. Full]
    /\ seen' \in [Owner -> Amount \cup {0}]
    /\ \A o \in Owner : credit'[o] <= credit[o] - seen'[o] * Unit

BucketNext == Earn \/ Pass

BucketSpec == BucketInit /\ [][BucketNext]_<<credit, seen>>

=============================================================================
