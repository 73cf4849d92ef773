------------------------------ MODULE RecentLog -----------------------------
(***************************************************************************)
(* What the log promises its readers: the last Capacity entries, in the    *)
(* order they were committed, none of them twice; all of them gone after a *)
(* clear; and at a start whatever was kept, again without repetition.      *)
(***************************************************************************)
EXTENDS Integers, Sequences

CONSTANT Capacity       \* entries the log can hold

VARIABLES
    recent,             \* the entries, oldest first
    up                  \* the log is in operation

Distinct(s) == \A i, j \in DOMAIN s : s[i] = s[j] => i = j

RecentInit == recent = <<>> /\ ~up

\* One more entry; the oldest goes when there is no room.
Add ==
    /\ up /\ up'
    /\ recent' # <<>>
    /\ LET last == Append(recent, recent'[Len(recent')])
       IN recent' = IF Len(last) > Capacity THEN Tail(last) ELSE last
    /\ Distinct(recent')

Wipe == up /\ up' /\ recent' = <<>>

Start == ~up /\ up' /\ Len(recent') <= Capacity /\ Distinct(recent')

Stop == up /\ ~up' /\ recent' = <<>>

RecentNext == Add \/ Wipe \/ Start \/ Stop

RecentSpec == RecentInit /\ [][RecentNext]_<<recent, up>>

=============================================================================
