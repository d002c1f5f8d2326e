---------------------------- MODULE StoresProofs ----------------------------
(***************************************************************************)
(* Theorems about the schedule store and the retry queue: for any ids,     *)
(* entries, calendar, numbers of requests and faults, and callers.         *)
(***************************************************************************)
EXTENDS Scheduler, RetryQueue, TLAPS

USE DEF storeVars, checkVars, ghosts

-----------------------------------------------------------------------------
(* The schedule store. *)

LEMMA TimeFacts == Time = 0 .. MaxTime /\ MaxTime \in Nat /\ 0 \in Time
BY CalendarAssumption DEF Time

LEMMA EntryFacts ==
  /\ NoEntry \notin Entry /\ NoEntry \notin Id /\ Torn \notin Entries
  /\ Body \subseteq Entry /\ Empty \in Entries
  /\ \A e \in Entry, t \in Time : [e EXCEPT !.lastRun = t] \in Entry
BY EntryAssumption DEF Entry, Entries, Empty

LEMMA SchedTypeInit == SchedInit => SchedTypeOK
<1> SUFFICES ASSUME SchedInit PROVE SchedTypeOK
  OBVIOUS
<1>1. behind \in BOOLEAN
  BY DEF SchedInit
<1>2. last \in [Id -> Time] /\ nposts \in 0 .. MaxPosts /\ nfaults \in 0 .. MaxFaults
  BY TimeFacts, CalendarAssumption DEF SchedInit
<1>. QED
  BY <1>1, <1>2, TimeFacts, EntryFacts DEF SchedInit, SchedTypeOK

\* A write ends: what it leaves of the file and the lock.
LEMMA WrittenTypes ==
  ASSUME SchedTypeOK, NEW fails, Written(fails)
  PROVE  /\ file' \in Entries \cup {Torn} /\ lock' = "free"
         /\ behind' \in BOOLEAN /\ nfaults' \in 0 .. MaxFaults
<1>1. behind' \in BOOLEAN
  BY DEF Written
<1>2. file' = file \/ file' = entries
  BY DEF Written
<1>3. nfaults' = nfaults \/ (nfaults < MaxFaults /\ nfaults' = nfaults + 1)
  BY DEF Written
<1>4. nfaults' \in 0 .. MaxFaults
  BY <1>3, CalendarAssumption DEF SchedTypeOK
<1>. QED
  BY <1>1, <1>2, <1>4 DEF SchedTypeOK, Written

LEMMA SchedTypeStep == SchedTypeOK /\ [SchedNext]_schedVars => SchedTypeOK'
<1> SUFFICES ASSUME SchedTypeOK, [SchedNext]_schedVars PROVE SchedTypeOK'
  OBVIOUS
<1> USE TimeFacts, EntryFacts, CalendarAssumption
<1>1. ASSUME NEW i \in Id, NEW e \in Body, PostSchedule(i, e) PROVE SchedTypeOK'
  BY <1>1 DEF SchedTypeOK, PostSchedule, Upsert, Entries
<1>2. ASSUME NEW fails \in BOOLEAN, PostWritten(fails) PROVE SchedTypeOK'
  BY <1>2, WrittenTypes DEF SchedTypeOK, PostWritten
<1>3. ASSUME NEW fails \in BOOLEAN, Trigger(fails) PROVE SchedTypeOK'
  <2>1. last' \in [Id -> Time]
    BY <1>3 DEF SchedTypeOK, Trigger
  <2>. QED
    BY <1>3, <2>1, WrittenTypes DEF SchedTypeOK, Trigger
<1>4. CASE StartCheck
  BY <1>4 DEF SchedTypeOK, StartCheck
<1>5. CASE EndCheck
  BY <1>5 DEF SchedTypeOK, EndCheck
<1>6. ASSUME NEW i \in Id, PassEntry(i) PROVE SchedTypeOK'
  BY <1>6 DEF SchedTypeOK, PassEntry, Entries
<1>7. ASSUME NEW i \in Id, SaveEntry(i) PROVE SchedTypeOK'
  <2>1. snap[i] \in Entry
    BY <1>7 DEF SchedTypeOK, SaveEntry, Entries
  <2>. QED
    BY <1>7, <2>1 DEF SchedTypeOK, SaveEntry, Upsert, Entries
<1>8. CASE Minutely
  BY <1>8 DEF SchedTypeOK, Minutely
<1>9. CASE Restart
  BY <1>9 DEF SchedTypeOK, Restart
<1>10. CASE UNCHANGED schedVars
  BY <1>10 DEF SchedTypeOK, schedVars
<1>. QED
  BY <1>1, <1>2, <1>3, <1>4, <1>5, <1>6, <1>7, <1>8, <1>9, <1>10
     DEF SchedNext, SchedRequest, StoreStep, CheckStep, TimeIsUp

\* A check saves an entry exactly while it holds the lock, and it has taken the
\* entry out of its snapshot; without a check the snapshot is empty.
Locked ==
    /\ lock = "check" <=> saving # NoEntry
    /\ saving # NoEntry => check # 0 /\ snap[saving] = NoEntry
    /\ check = 0 => \A i \in Id : snap[i] = NoEntry

\* A tick is later than the ticks of all checks before it.
Ordered ==
    /\ ticker <= now /\ check <= now
    /\ ticker # 0 => check < ticker
    /\ \A i \in Id :
          /\ last[i] <= now
          /\ ticker # 0 => last[i] < ticker
          /\ check # 0 /\ (snap[i] # NoEntry \/ saving = i) => last[i] < check

Kept ==
    \A i \in Id : posted[i] # NoEntry /\ i \notin raced =>
        /\ Same(entries[i], posted[i])
        /\ Due(i) => Same(snap[i], posted[i])

SchedInv == SchedTypeOK /\ Locked /\ Ordered /\ Kept /\ FileIsMemory

LEMMA SchedInvInit == SchedInit => SchedInv
<1>. USE TimeFacts
<1>1. SchedInit => Locked /\ Kept
  BY EntryFacts DEF SchedInit, Locked, Kept, Empty
<1>2. SchedInit => Ordered /\ FileIsMemory
  BY DEF SchedInit, Ordered, FileIsMemory
<1>. QED
  BY <1>1, <1>2, SchedTypeInit DEF SchedInv

LEMMA PostInv ==
  ASSUME SchedInv, NEW i \in Id, NEW e \in Body, PostSchedule(i, e)
  PROVE  Locked' /\ Ordered' /\ Kept' /\ FileIsMemory'
<1>. USE EntryFacts
<1>1. Locked' /\ Ordered' /\ FileIsMemory'
  BY DEF SchedInv, SchedTypeOK, PostSchedule, Upsert, Locked, Ordered, FileIsMemory
<1>2. ASSUME NEW j \in Id, posted'[j] # NoEntry, j \notin raced'
      PROVE  Same(entries'[j], posted'[j]) /\ (Due(j)' => Same(snap'[j], posted'[j]))
  <2>1. /\ entries' = [entries EXCEPT ![i] = e] /\ posted' = [posted EXCEPT ![i] = e]
        /\ snap' = snap /\ check' = check
        /\ raced' = IF check # 0 /\ Due(i) THEN raced \cup {i} ELSE raced \ {i}
    BY DEF PostSchedule, Upsert
  <2>2. entries \in [Id -> Entry \cup {NoEntry}] /\ posted \in [Id -> Entry \cup {NoEntry}]
    BY DEF SchedInv, SchedTypeOK, Entries
  <2>3. Due(j)' <=> Due(j)
    BY <2>1 DEF Due
  <2>4. CASE j = i
    <3>1. e # NoEntry /\ entries'[j] = e /\ posted'[j] = e
      BY <2>1, <2>2, <2>4
    <3>2. ~Due(j)
      BY <1>2, <2>1, <2>4 DEF SchedInv, Locked, Due
    <3>. QED
      BY <2>3, <3>1, <3>2 DEF Same
  <2>5. CASE j # i
    <3>1. entries'[j] = entries[j] /\ posted'[j] = posted[j] /\ j \notin raced
      BY <1>2, <2>1, <2>2, <2>5
    <3>. QED
      BY <1>2, <2>1, <2>3, <3>1 DEF SchedInv, Kept
  <2>. QED
    BY <2>4, <2>5
<1>. QED
  BY <1>1, <1>2 DEF Kept, Same, Due

LEMMA WrittenInv ==
  ASSUME SchedInv, NEW fails \in BOOLEAN, PostWritten(fails) \/ Trigger(fails)
  PROVE  Locked' /\ Ordered' /\ Kept' /\ FileIsMemory'
<1>1. Kept'
  BY DEF SchedInv, Kept, Same, Due, PostWritten, Trigger
<1>2. FileIsMemory'
  BY DEF SchedInv, PostWritten, Trigger, Written, FileIsMemory
<1>3. CASE PostWritten(fails)
  BY <1>1, <1>2, <1>3 DEF SchedInv, SchedTypeOK, PostWritten, Written, Locked, Ordered
<1>4. CASE Trigger(fails)
  <2>1. /\ lock = "check" /\ lock' = "free" /\ saving' = NoEntry
        /\ last' = [last EXCEPT ![saving] = check]
        /\ now' = now /\ ticker' = ticker /\ check' = check /\ snap' = snap
    BY <1>4 DEF Trigger, Written
  <2>2. /\ saving \in Id /\ check # 0 /\ snap[saving] = NoEntry
        /\ last \in [Id -> Time] /\ now \in Time /\ ticker \in Time /\ check \in Time
    BY <2>1 DEF SchedInv, SchedTypeOK, Locked
  <2>3. last'[saving] = check /\ \A i \in Id \ {saving} : last'[i] = last[i]
    BY <2>1, <2>2
  <2>4. Locked'
    BY <2>1 DEF SchedInv, Locked
  <2>5. Ordered'
    BY <2>1, <2>2, <2>3, EntryFacts DEF SchedInv, Ordered
  <2>. QED
    BY <1>1, <1>2, <2>4, <2>5
<1>. QED
  BY <1>3, <1>4

LEMMA StartCheckInv ==
  ASSUME SchedInv, StartCheck
  PROVE  Locked' /\ Ordered' /\ Kept' /\ FileIsMemory'
<1>1. /\ check = 0 /\ ticker # 0 /\ lock = "free" /\ saving = NoEntry
      /\ check' = ticker /\ ticker' = 0 /\ snap' = entries
      /\ UNCHANGED <<entries, file, lock, now, saving, posted, raced, last, behind>>
  BY DEF StartCheck, SchedInv, Locked
<1>2. /\ last \in [Id -> Time] /\ now \in Time /\ ticker \in Time
  BY DEF SchedInv, SchedTypeOK
<1>3. Locked' /\ FileIsMemory'
  BY <1>1 DEF SchedInv, Locked, FileIsMemory
<1>4. Ordered'
  BY <1>1, <1>2, TimeFacts, EntryFacts DEF SchedInv, Ordered
<1>5. Kept'
  BY <1>1 DEF SchedInv, Kept, Same
<1>. QED
  BY <1>3, <1>4, <1>5

\* The check goes on from an entry that it leaves or saves.
LEMMA EntryInv ==
  ASSUME SchedInv, NEW i \in Id, PassEntry(i) \/ SaveEntry(i)
  PROVE  Locked' /\ Ordered' /\ Kept' /\ FileIsMemory'
<1>1. /\ check # 0 /\ saving = NoEntry /\ snap[i] # NoEntry
      /\ snap' = [snap EXCEPT ![i] = NoEntry] /\ snap \in [Id -> Entry \cup {NoEntry}]
      /\ UNCHANGED <<now, ticker, check, posted, raced, last, behind>>
  BY DEF SchedInv, SchedTypeOK, Entries, PassEntry, SaveEntry
<1>2. snap'[i] = NoEntry /\ \A j \in Id \ {i} : snap'[j] = snap[j]
  BY <1>1
<1>3. ~Due(i)' /\ \A j \in Id \ {i} : Due(j)' <=> Due(j)
  BY <1>1, <1>2 DEF Due
<1>4. CASE PassEntry(i)
  <2>1. UNCHANGED <<entries, file, lock, saving>>
    BY <1>4 DEF PassEntry
  <2>2. Locked' /\ Ordered' /\ FileIsMemory'
    BY <1>1, <1>2, <2>1 DEF SchedInv, Locked, Ordered, FileIsMemory
  <2>3. Kept'
    BY <1>1, <1>2, <1>3, <2>1 DEF SchedInv, Kept, Same
  <2>. QED
    BY <2>2, <2>3
<1>5. CASE SaveEntry(i)
  <2>1. /\ Due(i) /\ lock = "free" /\ lock' = "check" /\ saving' = i
        /\ entries' = [entries EXCEPT ![i] = [snap[i] EXCEPT !.lastRun = check]]
        /\ entries \in [Id -> Entry \cup {NoEntry}] /\ snap[i] \in Entry /\ check \in Time
    BY <1>1, <1>5 DEF SchedInv, SchedTypeOK, Entries, SaveEntry, Upsert
  <2>2. Locked' /\ FileIsMemory'
    BY <1>1, <1>2, <2>1, EntryFacts DEF SchedInv, Locked, FileIsMemory
  <2>3. Ordered'
    BY <1>1, <1>2, <2>1 DEF SchedInv, Ordered
  <2>4. Kept'
    <3>1. ASSUME NEW j \in Id, posted[j] # NoEntry, j \notin raced
          PROVE  Same(entries'[j], posted[j])
      <4>1. CASE j = i
        <5>1. entries'[i] = [snap[i] EXCEPT !.lastRun = check] /\ entries'[i] \in Entry
          BY <2>1, EntryFacts
        <5>2. entries'[i].enabled = snap[i].enabled /\ entries'[i].cron = snap[i].cron
          BY <2>1, <5>1 DEF Entry
        <5>. QED
          BY <2>1, <3>1, <4>1, <5>1, <5>2, EntryFacts DEF SchedInv, Kept, Same
      <4>2. CASE j # i
        BY <2>1, <3>1, <4>2 DEF SchedInv, Kept
      <4>. QED
        BY <4>1, <4>2
    <3>. QED
      BY <1>1, <1>2, <1>3, <3>1 DEF SchedInv, Kept, Same
  <2>. QED
    BY <2>2, <2>3, <2>4
<1>. QED
  BY <1>4, <1>5

LEMMA OtherInv ==
  ASSUME SchedInv, EndCheck \/ Minutely \/ Restart \/ UNCHANGED schedVars
  PROVE  Locked' /\ Ordered' /\ Kept' /\ FileIsMemory'
<1>1. CASE EndCheck
  <2>1. Locked' /\ FileIsMemory'
    BY <1>1 DEF SchedInv, EndCheck, Locked, FileIsMemory, Empty
  <2>2. Ordered'
    BY <1>1 DEF SchedInv, SchedTypeOK, EndCheck, Ordered, Empty, Time
  <2>3. Kept'
    BY <1>1 DEF SchedInv, EndCheck, Kept, Same, Due, Empty
  <2>. QED
    BY <2>1, <2>2, <2>3
<1>2. CASE Minutely
  <2>1. Locked' /\ FileIsMemory' /\ Kept'
    BY <1>2 DEF SchedInv, Minutely, Locked, FileIsMemory, Kept, Same, Due
  <2>2. Ordered'
    BY <1>2 DEF SchedInv, SchedTypeOK, Minutely, Ordered, Time
  <2>. QED
    BY <2>1, <2>2
<1>3. CASE Restart
  <2>1. /\ entries' = IF file = Torn THEN Empty ELSE file
        /\ posted' = entries' /\ raced' = {} /\ behind' = (file = Torn)
        /\ lock' = "free" /\ ticker' = 0 /\ check' = 0 /\ snap' = Empty /\ saving' = NoEntry
        /\ UNCHANGED <<file, now, last>>
    BY <1>3 DEF Restart
  <2>2. Locked' /\ FileIsMemory' /\ Kept'
    BY <2>1 DEF Locked, FileIsMemory, Kept, Same, Due, Empty
  <2>3. Ordered'
    BY <2>1 DEF SchedInv, SchedTypeOK, Ordered, Time
  <2>. QED
    BY <2>2, <2>3
<1>4. CASE UNCHANGED schedVars
  BY <1>4 DEF SchedInv, schedVars, Locked, Ordered, Kept, Same, Due, FileIsMemory
<1>. QED
  BY <1>1, <1>2, <1>3, <1>4

LEMMA SchedStep == SchedInv /\ [SchedNext]_schedVars => SchedInv'
<1> SUFFICES ASSUME SchedInv, [SchedNext]_schedVars PROVE SchedInv'
  OBVIOUS
<1>1. SchedTypeOK'
  BY SchedTypeStep DEF SchedInv
<1>2. Locked' /\ Ordered' /\ Kept' /\ FileIsMemory'
  BY PostInv, WrittenInv, StartCheckInv, EntryInv, OtherInv
     DEF SchedNext, SchedRequest, StoreStep, CheckStep, TimeIsUp
<1>. QED
  BY <1>1, <1>2 DEF SchedInv

LEMMA SchedAlways == SchedSpec => []SchedInv
BY SchedInvInit, SchedStep, PTL DEF SchedSpec

\* Every variable of the store, its file and the Runner keeps its type.
THEOREM SchedTypeCorrect == SchedSpec => []SchedTypeOK
<1>1. SchedInv => SchedTypeOK
  BY DEF SchedInv
<1>. QED
  BY <1>1, SchedAlways, PTL

\* An entry that is not what was posted last for its id, was posted while a check was
\* under way that had found the id due.
LostOnlyToCheck ==
    \A i \in Id : posted[i] # NoEntry /\ ~Same(entries[i], posted[i]) => i \in raced

\* For any ids and any number of requests, checks, failures and restarts: there is
\* one way to lose a POST.  (That it is one, the run post_lost shows.)
THEOREM PostsLostOnlyToChecks == SchedSpec => []LostOnlyToCheck
<1>1. SchedInv => LostOnlyToCheck
  BY DEF SchedInv, Kept, LostOnlyToCheck
<1>. QED
  BY <1>1, SchedAlways, PTL

\* No tick triggers an entry twice.
THEOREM TriggeredOncePerTick == SchedSpec => []OncePerTick
<1>1. SchedInv => OncePerTick
  BY DEF SchedInv, SchedTypeOK, Locked, Ordered, OncePerTick
<1>. QED
  BY <1>1, SchedAlways, PTL

\* The file holds what the store holds, unless its last write failed.
THEOREM FileHoldsStore == SchedSpec => []FileIsMemory
<1>1. SchedInv => FileIsMemory
  BY DEF SchedInv
<1>. QED
  BY <1>1, SchedAlways, PTL

-----------------------------------------------------------------------------
(* The retry queue. *)

LEMMA DelayFacts ==
  /\ \A n \in 0 .. MaxShift : Delay(n) \in 0 .. MaxDelay
  /\ Delay(0) = 1
<1>1. ASSUME NEW n \in 0 .. MaxShift PROVE Delay(n) \in 0 .. MaxDelay
  <2> DEFINE power == 2 ^ n
  <2>1. power \in Nat
    BY PowerAssumption
  <2>2. Delay(n) = IF power > MaxDelay THEN MaxDelay ELSE power
    BY RetryAssumption DEF Delay
  <2> HIDE DEF power
  <2>. QED
    BY <2>1, <2>2, RetryAssumption
<1>2. Delay(0) = 1
  <2>1. ~(0 > MaxShift) /\ ~(1 > MaxDelay)
    BY RetryAssumption
  <2>2. 2 ^ 0 = 1
    BY PowerAssumption
  <2>3. Delay(0) = IF 2 ^ 0 > MaxDelay THEN MaxDelay ELSE 2 ^ 0
    BY <2>1 DEF Delay
  <2>. QED
    BY <2>1, <2>2, <2>3
<1>. QED
  BY <1>1, <1>2

\* What an item waits and has rested makes up its backoff.
Rested ==
    \A i \in 1 .. Len(items) : items[i].wait + resting[i] >= Delay(items[i].attempts)

RetryInv == RetryTypeOK /\ Rested

LEMMA RetryInvInit == RetryInit => RetryInv
BY RetryAssumption DEF RetryInit, RetryInv, RetryTypeOK, Rested, Ids

LEMMA ItemFacts ==
  ASSUME RetryTypeOK, NEW i \in 1 .. Len(items)
  PROVE  /\ items[i] \in Item /\ items[i].attempts \in 0 .. MaxShift
         /\ items[i].wait \in 0 .. MaxDelay /\ items[i].done \in BOOLEAN
         /\ i \in Ids /\ resting[i] \in 0 .. MaxDelay
<1>1. items \in Seq(Item) /\ Len(items) \in Nat /\ Len(items) <= MaxAdds
  BY RetryAssumption DEF RetryTypeOK
<1>2. items[i] \in Item
  BY <1>1
<1>3. i \in Ids
  BY <1>1, RetryAssumption DEF Ids
<1>. QED
  BY <1>2, <1>3 DEF Item, RetryTypeOK

LEMMA AddInv == RetryInv /\ Add => RetryInv'
<1> SUFFICES ASSUME RetryInv, Add PROVE RetryInv'
  OBVIOUS
<1> DEFINE new == [attempts |-> 0, wait |-> 1, done |-> FALSE]
<1>1. /\ items \in Seq(Item) /\ Len(items) \in Nat /\ Len(items) <= Cap /\ Len(items) <= nadds
      /\ nadds \in 0 .. MaxAdds /\ nadds' = nadds + 1 /\ nadds < MaxAdds
      /\ UNCHANGED <<hand, resting>>
      /\ items' = IF Len(items) >= Cap THEN items ELSE Append(items, new)
  BY DEF RetryInv, RetryTypeOK, Add
<1>2. new \in Item
  BY RetryAssumption DEF Item
<1>3. CASE Len(items) >= Cap
  BY <1>1, <1>3, RetryAssumption DEF RetryInv, RetryTypeOK, Rested
<1>4. CASE ~(Len(items) >= Cap)
  <2>1. /\ items' \in Seq(Item) /\ Len(items') = Len(items) + 1
        /\ \A i \in 1 .. Len(items) : items'[i] = items[i]
        /\ items'[Len(items) + 1] = new
    BY <1>1, <1>2, <1>4
  <2>2. RetryTypeOK'
    BY <1>1, <1>4, <2>1, RetryAssumption DEF RetryInv, RetryTypeOK
  <2>3. ASSUME NEW i \in 1 .. Len(items')
        PROVE  items'[i].wait + resting'[i] >= Delay(items'[i].attempts)
    <3>1. CASE i \in 1 .. Len(items)
      BY <1>1, <2>1, <3>1 DEF RetryInv, Rested
    <3>2. CASE i = Len(items) + 1
      <4>1. items'[i].wait = 1 /\ items'[i].attempts = 0
        BY <2>1, <3>2
      <4>2. resting'[i] \in 0 .. MaxDelay
        BY <1>1, <2>1, <2>2, <2>3, ItemFacts, RetryAssumption DEF Ids, RetryTypeOK
      <4>. QED
        BY <4>1, <4>2, DelayFacts, RetryAssumption
    <3>. QED
      BY <1>1, <2>1, <3>1, <3>2
  <2>. QED
    BY <2>2, <2>3 DEF RetryInv, Rested
<1>. QED
  BY <1>3, <1>4

LEMMA TakeInv ==
  ASSUME RetryInv, NEW c \in Caller, Take(c)
  PROVE  RetryInv'
<1>1. DueItems \subseteq 1 .. Len(items)
  BY DEF DueItems
<1>2. RetryTypeOK'
  BY <1>1 DEF RetryInv, RetryTypeOK, Take
<1>. QED
  BY <1>2 DEF RetryInv, Rested, Take

LEMMA MarkInv ==
  ASSUME RetryInv, NEW c \in Caller, NEW i \in hand[c], MarkDone(c, i) \/ MarkFailed(c, i)
  PROVE  RetryInv'
<1>1. /\ items \in Seq(Item) /\ Len(items) \in Nat /\ i \in 1 .. Len(items)
      /\ hand \in [Caller -> SUBSET (1 .. Len(items))] /\ resting \in [Ids -> 0 .. MaxDelay]
      /\ hand' = [hand EXCEPT ![c] = @ \ {i}] /\ nadds' = nadds
  BY DEF RetryInv, RetryTypeOK, MarkDone, MarkFailed
<1>2. hand' \in [Caller -> SUBSET (1 .. Len(items))]
  BY <1>1
<1>3. i \in Ids /\ items[i] \in Item /\ items[i].attempts \in 0 .. MaxShift
  BY <1>1, ItemFacts DEF RetryInv
<1>4. ASSUME NEW e \in Item, items' = [items EXCEPT ![i] = e], resting' \in [Ids -> 0 .. MaxDelay],
             \A j \in Ids \ {i} : resting'[j] = resting[j],
             e.wait + resting'[i] >= Delay(e.attempts)
      PROVE  RetryInv'
  <2>1. /\ items' \in Seq(Item) /\ Len(items') = Len(items)
        /\ items'[i] = e /\ \A j \in 1 .. Len(items) : j # i => items'[j] = items[j]
    BY <1>1, <1>4
  <2>2. RetryTypeOK'
    BY <1>1, <1>2, <1>4, <2>1 DEF RetryInv, RetryTypeOK
  <2>3. \A j \in 1 .. Len(items) : j \in Ids
    BY ItemFacts DEF RetryInv
  <2>4. \A j \in 1 .. Len(items) : items'[j].wait + resting'[j] >= Delay(items'[j].attempts)
    BY <1>4, <2>1, <2>3 DEF RetryInv, Rested
  <2>. QED
    BY <2>1, <2>2, <2>4 DEF RetryInv, Rested
<1>5. CASE MarkDone(c, i)
  <2> DEFINE e == [items[i] EXCEPT !.done = TRUE]
  <2>1. e \in Item /\ e.wait = items[i].wait /\ e.attempts = items[i].attempts
    BY <1>3 DEF Item
  <2>2. items' = [items EXCEPT ![i] = e] /\ resting' = resting
    BY <1>5 DEF MarkDone
  <2>3. e.wait + resting'[i] >= Delay(e.attempts)
    BY <1>1, <2>1, <2>2 DEF RetryInv, Rested
  <2> HIDE DEF e
  <2>. QED
    BY <1>1, <1>4, <2>1, <2>2, <2>3
<1>6. CASE MarkFailed(c, i)
  <2> DEFINE n == IF items[i].attempts < MaxShift THEN items[i].attempts + 1 ELSE MaxShift
             e == [[items[i] EXCEPT !.attempts = n] EXCEPT !.wait = Delay(n)]
  <2>1. n \in 0 .. MaxShift /\ Delay(n) \in 0 .. MaxDelay
    BY <1>3, RetryAssumption, DelayFacts
  <2>2. /\ items' = [items EXCEPT ![i].attempts = n, ![i].wait = Delay(n)]
        /\ resting' = [resting EXCEPT ![i] = 0]
    BY <1>6 DEF MarkFailed
  <2> HIDE DEF n
  <2>3. e \in Item /\ e.wait = Delay(n) /\ e.attempts = n
    BY <1>3, <2>1 DEF Item
  <2>4. items' = [items EXCEPT ![i] = e]
    BY <1>1, <2>2
  <2>5. /\ resting' \in [Ids -> 0 .. MaxDelay] /\ resting'[i] = 0
        /\ \A j \in Ids \ {i} : resting'[j] = resting[j]
    BY <1>1, <1>3, <2>2, RetryAssumption
  <2> HIDE DEF e
  <2>6. e.wait + resting'[i] >= Delay(e.attempts)
    BY <2>1, <2>3, <2>5
  <2>. QED
    BY <1>4, <2>3, <2>4, <2>5, <2>6
<1>. QED
  BY <1>5, <1>6

LEMMA PassInv == RetryInv /\ Pass => RetryInv'
<1> SUFFICES ASSUME RetryInv, Pass PROVE RetryInv'
  OBVIOUS
<1>1. /\ items \in Seq(Item) /\ Len(items) \in Nat
      /\ items' = [i \in 1 .. Len(items) |->
                       [items[i] EXCEPT !.wait = IF @ > 0 THEN @ - 1 ELSE 0]]
      /\ resting' = [i \in Ids |-> IF i <= Len(items) /\ resting[i] < MaxDelay
                                   THEN resting[i] + 1 ELSE resting[i]]
      /\ resting \in [Ids -> 0 .. MaxDelay]
      /\ UNCHANGED <<hand, nadds>>
  BY DEF RetryInv, RetryTypeOK, Pass
<1>2. ASSUME NEW i \in 1 .. Len(items)
      PROVE  /\ items'[i] \in Item /\ items'[i].attempts = items[i].attempts
             /\ items'[i].wait = IF items[i].wait > 0 THEN items[i].wait - 1 ELSE 0
  <2> DEFINE w == IF items[i].wait > 0 THEN items[i].wait - 1 ELSE 0
  <2>1. items[i] \in Item /\ items[i].wait \in 0 .. MaxDelay
    BY ItemFacts DEF RetryInv
  <2>2. w \in 0 .. MaxDelay
    BY <2>1, RetryAssumption
  <2>3. items'[i] = [items[i] EXCEPT !.wait = w]
    BY <1>1
  <2> HIDE DEF w
  <2>4. items'[i] \in Item /\ items'[i].attempts = items[i].attempts /\ items'[i].wait = w
    BY <2>1, <2>2, <2>3 DEF Item
  <2>. QED
    BY <2>4 DEF w
<1>3. items' \in Seq(Item) /\ Len(items') = Len(items)
  BY <1>1, <1>2
<1>4. resting' \in [Ids -> 0 .. MaxDelay]
  BY <1>1, RetryAssumption
<1>5. RetryTypeOK'
  BY <1>1, <1>3, <1>4 DEF RetryInv, RetryTypeOK
<1>6. ASSUME NEW i \in 1 .. Len(items)
      PROVE  items'[i].wait + resting'[i] >= Delay(items'[i].attempts)
  <2>1. /\ items[i].attempts \in 0 .. MaxShift /\ items[i].wait \in 0 .. MaxDelay
        /\ i \in Ids /\ resting[i] \in 0 .. MaxDelay
        /\ items[i].wait + resting[i] >= Delay(items[i].attempts)
    BY ItemFacts DEF RetryInv, Rested
  <2>2. Delay(items[i].attempts) \in 0 .. MaxDelay
    BY <2>1, DelayFacts
  <2>3. resting'[i] = IF resting[i] < MaxDelay THEN resting[i] + 1 ELSE resting[i]
    BY <1>1, <2>1
  <2>. QED
    BY <1>2, <2>1, <2>2, <2>3, RetryAssumption
<1>. QED
  BY <1>3, <1>5, <1>6 DEF RetryInv, Rested

LEMMA RetryStep == RetryInv /\ [RetryNext]_retryVars => RetryInv'
<1>1. RetryInv /\ UNCHANGED retryVars => RetryInv'
  BY DEF RetryInv, RetryTypeOK, Rested, retryVars
<1>. QED
  BY <1>1, AddInv, PassInv, TakeInv, MarkInv DEF RetryNext

LEMMA RetryAlways == RetrySpec => []RetryInv
BY RetryInvInit, RetryStep, PTL DEF RetrySpec

\* The queue and its callers keep their types: the queue keeps its capacity, and an
\* item waits no longer than a day.
THEOREM RetryTypeCorrect == RetrySpec => []RetryTypeOK
<1>1. RetryInv => RetryTypeOK
  BY DEF RetryInv
<1>. QED
  BY <1>1, RetryAlways, PTL

\* For any capacity and any number of callers, no item is due before its backoff
\* has passed, whoever failed it last.
THEOREM BackoffIsKept == RetrySpec => []BackoffKept
<1>1. RetryInv => BackoffKept
  <2> SUFFICES ASSUME RetryInv, NEW i \in DueItems
               PROVE  resting[i] >= Delay(items[i].attempts)
    BY DEF BackoffKept
  <2>1. i \in 1 .. Len(items) /\ items[i].wait = 0
    BY DEF DueItems
  <2>2. resting[i] \in 0 .. MaxDelay /\ items[i].wait + resting[i] >= Delay(items[i].attempts)
    BY <2>1, ItemFacts DEF RetryInv, Rested
  <2>. QED
    BY <2>1, <2>2, RetryAssumption
<1>. QED
  BY <1>1, RetryAlways, PTL
=============================================================================
