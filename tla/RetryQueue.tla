---------------------------- MODULE RetryQueue ----------------------------
(***************************************************************************)
(* internal/retry/retry.go: the bounded queue of failed operations.        *)
(*                                                                         *)
(* Its callers take the items that are due, try them and mark them.  Due   *)
(* hands out an item without claiming it, so that two callers may try it   *)
(* at the same time and mark it one after the other.  The program makes    *)
(* the queue and shows it; no caller is written yet, and the ones here do  *)
(* what the operations' comments allow.                                    *)
(***************************************************************************)
EXTENDS Naturals, Sequences

CONSTANTS
    Cap,            \* max of New (100 in main)
    MaxShift,       \* the bound on the shift (20)
    MaxDelay,       \* the longest delay, 24 h, in minutes
    Caller,         \* callers of Due
    MaxAdds         \* bound: calls of Add

ASSUME RetryAssumption ==
    /\ Cap \in Nat /\ MaxShift \in Nat /\ MaxDelay \in Nat \ {0} /\ MaxAdds \in Nat
\* Arithmetic that the provers do not know.
ASSUME PowerAssumption == 2 ^ 0 = 1 /\ \A n \in 0 .. MaxShift : 2 ^ n \in Nat

Ids == 1 .. MaxAdds
\* The item with id i is at place i.  Attempts count up to MaxShift, as far as
\* they matter; NextAt is the number of minutes left, 0 once it is before now.
Item == [attempts : 0 .. MaxShift, wait : 0 .. MaxDelay, done : BOOLEAN]

VARIABLES
    items,      \* the queue
    hand,       \* hand[c]: the ids that Due gave to c and c has not marked
    nadds,      \* calls of Add
    (* For a property. *)
    resting     \* resting[i]: minutes since item i was added or marked failed

retryVars == <<items, hand, nadds, resting>>

RetryTypeOK ==
    /\ items \in Seq(Item) /\ Len(items) <= Cap /\ Len(items) <= nadds
    /\ hand \in [Caller -> SUBSET (1 .. Len(items))]
    /\ nadds \in 0 .. MaxAdds
    /\ resting \in [Ids -> 0 .. MaxDelay]

RetryInit ==
    /\ items = <<>> /\ hand = [c \in Caller |-> {}] /\ nadds = 0
    /\ resting = [i \in Ids |-> 0]

-----------------------------------------------------------------------------
\* A bug to catch: the delay is not capped.
DelayUncapped(attempts) == 2 ^ attempts

\* 2^attempts minutes, with the shift bounded, and no more than a day.
Delay(attempts) ==
    LET shift == IF attempts > MaxShift THEN MaxShift ELSE attempts
    IN IF 2 ^ shift > MaxDelay THEN MaxDelay ELSE 2 ^ shift

\* Dropped without a word when the queue is full; the queue never gets shorter.
Add ==
    /\ nadds < MaxAdds
    /\ nadds' = nadds + 1
    /\ items' = IF Len(items) >= Cap THEN items
                ELSE Append(items, [attempts |-> 0, wait |-> 1, done |-> FALSE])
    /\ UNCHANGED <<hand, resting>>

\* A bug to catch: what has failed often is left out.
DueItemsFewTries ==
    {i \in 1 .. Len(items) : ~items[i].done /\ items[i].wait = 0 /\ items[i].attempts < MaxShift}

DueItems == {i \in 1 .. Len(items) : ~items[i].done /\ items[i].wait = 0}

\* Due: pointers to the items that are due, also to those in other hands.
Take(c) ==
    /\ hand[c] = {}
    /\ DueItems # {}
    /\ hand' = [hand EXCEPT ![c] = DueItems]
    /\ UNCHANGED <<items, nadds, resting>>

MarkDone(c, i) ==
    /\ i \in hand[c]
    /\ items' = [items EXCEPT ![i].done = TRUE]
    /\ hand' = [hand EXCEPT ![c] = @ \ {i}]
    /\ UNCHANGED <<nadds, resting>>

\* A bug to catch: the delay is computed before the attempt is counted.
MarkFailedShort(c, i) ==
    /\ i \in hand[c]
    /\ LET n == IF items[i].attempts < MaxShift THEN items[i].attempts + 1 ELSE MaxShift
       IN items' = [items EXCEPT ![i].attempts = n, ![i].wait = Delay(items[i].attempts)]
    /\ hand' = [hand EXCEPT ![c] = @ \ {i}]
    /\ resting' = [resting EXCEPT ![i] = 0]
    /\ UNCHANGED nadds

MarkFailed(c, i) ==
    /\ i \in hand[c]
    /\ LET n == IF items[i].attempts < MaxShift THEN items[i].attempts + 1 ELSE MaxShift
       IN items' = [items EXCEPT ![i].attempts = n, ![i].wait = Delay(n)]
    /\ hand' = [hand EXCEPT ![c] = @ \ {i}]
    /\ resting' = [resting EXCEPT ![i] = 0]
    /\ UNCHANGED nadds

\* A minute passes.
Pass ==
    /\ items' = [i \in 1 .. Len(items) |->
                    [items[i] EXCEPT !.wait = IF @ > 0 THEN @ - 1 ELSE 0]]
    /\ resting' = [i \in Ids |-> IF i <= Len(items) /\ resting[i] < MaxDelay
                                 THEN resting[i] + 1 ELSE resting[i]]
    /\ UNCHANGED <<hand, nadds>>

RetryNext ==
    \/ Add \/ Pass
    \/ \E c \in Caller : Take(c) \/ \E i \in hand[c] : MarkDone(c, i) \/ MarkFailed(c, i)

RetrySpec == RetryInit /\ [][RetryNext]_retryVars

-----------------------------------------------------------------------------
(* Properties. *)

\* No operation is due before its backoff has passed, whoever marked it failed,
\* and in whatever order: it rests for 2^attempts minutes, a day at most.
BackoffKept ==
    \A i \in DueItems : resting[i] >= Delay(items[i].attempts)

Unfinished(i) == i <= Len(items) /\ ~items[i].done

\* What is in the queue and not done is due again and again: it is not lost,
\* however often it fails and however many callers fail it.
ComesBack == \A i \in 1 .. Cap : Unfinished(i) ~> (i \in DueItems \/ ~Unfinished(i))
=============================================================================
