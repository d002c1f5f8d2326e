----------------------------- MODULE Scheduler -----------------------------
(***************************************************************************)
(* internal/scheduler/schedule.go: the schedule store with its file, the   *)
(* Runner that triggers the entries that are due every minute, and         *)
(* handlePostSchedule of internal/api/server.go, which stores an entry.    *)
(*                                                                         *)
(* The store's lock makes each Upsert, with the write of the file, atomic  *)
(* for the others.  Runner.check holds no lock between its snapshot of     *)
(* the entries and the Upserts of the copies it has updated.               *)
(***************************************************************************)
EXTENDS Naturals, FiniteSets

CONSTANTS
    Id,         \* ids of entries
    NoEntry,    \* an id without entry
    Torn,       \* a file that does not parse
    Body,       \* the entries a POST may hold
    Hours, Minutes, Days,   \* bounds: a small calendar (24, 60 and 7)
    MaxTime,    \* bound: minutes
    MaxPosts,   \* bound: POST requests
    MaxFaults   \* bound: failed writes and restarts

ASSUME CalendarAssumption ==
    /\ Hours \in Nat \ {0} /\ Minutes \in Nat \ {0} /\ Days \in Nat \ {0}
    /\ MaxTime \in Nat /\ MaxPosts \in Nat /\ MaxFaults \in Nat

\* A minute since midnight of a Sunday; 0, the first, also stands for "never".
Time == 0 .. MaxTime
\* The expressions: HH:MM stands for a minute of the day, and "bad" for whatever
\* is none of them.
Cron == [kind : {"@hourly", "@daily", "@weekly", "HH:MM", "bad"}, at : 0 .. Hours * Minutes - 1]
Entry == [enabled : BOOLEAN, cron : Cron, lastRun : Time]
Entries == [Id -> Entry \cup {NoEntry}]
Empty == [i \in Id |-> NoEntry]

ASSUME EntryAssumption == NoEntry \notin Entry \cup Id /\ Torn \notin Entries /\ Body \subseteq Entry

VARIABLES
    entries,    \* the store, by id
    file,       \* the content of its file; torn while it is written
    lock,       \* who holds the store's lock for a write: "free", "post" or "check"
    now,        \* the clock, in minutes
    ticker,     \* the ticker's channel: the time of one tick, 0 when empty
    check,      \* the check in progress: the time it was given, 0 when there is none
    snap,       \* the entries of its snapshot that it has not come to
    saving,     \* the id that a check is saving, or NoEntry
    (* For the properties. *)
    posted,     \* what the last POST of an id said, since the last restart
    raced,      \* ids posted while a check that may replace them was under way
    last,       \* the time of the last tick for which an id was triggered
    behind,     \* the last write of the file failed
    nposts, nfaults

storeVars == <<entries, file, lock>>
checkVars == <<ticker, check, snap, saving>>
ghosts == <<posted, raced, last, behind, nposts, nfaults>>
schedVars == <<storeVars, now, checkVars, ghosts>>

SchedTypeOK ==
    /\ entries \in Entries
    /\ file \in Entries \cup {Torn}
    /\ lock \in {"free", "post", "check"}
    /\ now \in Time /\ ticker \in Time /\ check \in Time
    /\ snap \in Entries
    /\ saving \in Id \cup {NoEntry}
    /\ posted \in Entries /\ raced \subseteq Id
    /\ last \in [Id -> Time] /\ behind \in BOOLEAN
    /\ nposts \in 0 .. MaxPosts /\ nfaults \in 0 .. MaxFaults

SchedInit ==
    /\ entries = Empty /\ file = Empty /\ lock = "free"
    /\ now = 0 /\ ticker = 0 /\ check = 0 /\ snap = Empty /\ saving = NoEntry
    /\ posted = Empty /\ raced = {} /\ last = [i \in Id |-> 0]
    /\ behind = FALSE /\ nposts = 0 /\ nfaults = 0

-----------------------------------------------------------------------------
Minute(t) == t % Minutes
Hour(t) == (t \div Minutes) % Hours
Weekday(t) == (t \div (Minutes * Hours)) % Days     \* 0 is Sunday

isDue(e, t) ==
    CASE e.cron.kind = "@hourly" -> Minute(t) = 0
      [] e.cron.kind = "@daily" -> Hour(t) = 0 /\ Minute(t) = 0
      [] e.cron.kind = "@weekly" -> Weekday(t) = 0 /\ Hour(t) = 0 /\ Minute(t) = 0
      [] e.cron.kind = "HH:MM" -> Hour(t) * Minutes + Minute(t) = e.cron.at
      [] OTHER -> FALSE

\* Upsert: the entry is replaced in memory, then WriteFile opens and truncates
\* the file, or fails to.
Upsert(i, e, who) ==
    /\ lock = "free"
    /\ lock' = who
    /\ entries' = [entries EXCEPT ![i] = e]
    /\ file' = Torn \/ (nfaults < MaxFaults /\ file' = file)

Due(i) == snap[i] # NoEntry /\ snap[i].enabled /\ isDue(snap[i], check)

\* handlePostSchedule: whatever entry the body holds, its last_run included.
PostSchedule(i, e) ==
    /\ nposts < MaxPosts
    /\ nposts' = nposts + 1
    /\ Upsert(i, e, "post")
    /\ posted' = [posted EXCEPT ![i] = e]
    /\ raced' = IF check # 0 /\ Due(i) THEN raced \cup {i} ELSE raced \ {i}
    /\ UNCHANGED <<now, checkVars, last, behind, nfaults>>

\* A bug to catch: the failure is not returned.
WrittenQuietly(fails) ==
    /\ lock' = "free"
    /\ IF fails THEN nfaults < MaxFaults /\ nfaults' = nfaults + 1 /\ UNCHANGED <<file, behind>>
       ELSE file = Torn /\ file' = entries /\ behind' = FALSE /\ nfaults' = nfaults

\* WriteFile ends, and the lock is given back.  A write that fails leaves a file
\* that does not parse, or the old one; memory keeps the entry.
Written(fails) ==
    /\ lock' = "free"
    /\ IF fails THEN /\ nfaults < MaxFaults /\ nfaults' = nfaults + 1
                     /\ behind' = TRUE /\ file' = file
       ELSE file = Torn /\ file' = entries /\ behind' = FALSE /\ nfaults' = nfaults

PostWritten(fails) ==
    /\ lock = "post"
    /\ Written(fails)
    /\ UNCHANGED <<entries, now, checkVars, posted, raced, last, nposts>>

\* A bug to catch: the channel holds the last tick, not the first.
MinutelyLatest ==
    /\ now < MaxTime
    /\ now' = now + 1
    /\ ticker' = now + 1
    /\ UNCHANGED <<storeVars, check, snap, saving, ghosts>>

\* A minute passes; a tick is dropped when the last one is still in the channel.
Minutely ==
    /\ now < MaxTime
    /\ now' = now + 1
    /\ ticker' = IF ticker = 0 THEN now + 1 ELSE ticker
    /\ UNCHANGED <<storeVars, check, snap, saving, ghosts>>

\* A bug to catch: the tick is looked at, not received.
StartCheckPeeking ==
    /\ check = 0 /\ ticker # 0 /\ lock = "free"
    /\ check' = ticker
    /\ snap' = entries
    /\ UNCHANGED <<storeVars, now, ticker, saving, ghosts>>

\* Runner.Run receives a tick, and check takes its snapshot.
StartCheck ==
    /\ check = 0 /\ ticker # 0 /\ lock = "free"
    /\ check' = ticker
    /\ ticker' = 0
    /\ snap' = entries
    /\ UNCHANGED <<storeVars, now, saving, ghosts>>

\* The loop goes on to an entry that is disabled or not due.
PassEntry(i) ==
    /\ check # 0 /\ saving = NoEntry /\ snap[i] # NoEntry
    /\ ~Due(i)
    /\ snap' = [snap EXCEPT ![i] = NoEntry]
    /\ UNCHANGED <<storeVars, now, ticker, check, saving, ghosts>>

\* The copy of an entry that is due is stored, with the time of the tick.
SaveEntry(i) ==
    /\ check # 0 /\ saving = NoEntry /\ snap[i] # NoEntry
    /\ Due(i)
    /\ Upsert(i, [snap[i] EXCEPT !.lastRun = check], "check")
    /\ saving' = i
    /\ snap' = [snap EXCEPT ![i] = NoEntry]
    /\ UNCHANGED <<now, ticker, check, ghosts>>

\* Stored or not (an error is logged), its operation is triggered.
Trigger(fails) ==
    /\ lock = "check"
    /\ Written(fails)
    /\ last' = [last EXCEPT ![saving] = check]
    /\ saving' = NoEntry
    /\ UNCHANGED <<entries, now, ticker, check, snap, posted, raced, nposts>>

EndCheck ==
    /\ check # 0 /\ saving = NoEntry /\ snap = Empty
    /\ check' = 0
    /\ UNCHANGED <<storeVars, now, ticker, snap, saving, ghosts>>

\* The process dies and New reads the file: one that does not parse is dropped.
Restart ==
    /\ nfaults < MaxFaults
    /\ nfaults' = nfaults + 1
    /\ entries' = IF file = Torn THEN Empty ELSE file
    /\ posted' = entries' /\ raced' = {} /\ behind' = (file = Torn)
    /\ lock' = "free" /\ ticker' = 0 /\ check' = 0 /\ snap' = Empty /\ saving' = NoEntry
    /\ UNCHANGED <<file, now, last, nposts>>

\* The model's time is over, and everything that was started has ended.
TimeIsUp ==
    /\ now = MaxTime /\ lock = "free" /\ check = 0 /\ ticker = 0
    /\ UNCHANGED schedVars

SchedRequest == \E i \in Id : \E e \in Body : PostSchedule(i, e)
StoreStep == \E fails \in BOOLEAN : PostWritten(fails) \/ Trigger(fails)
CheckStep == StartCheck \/ EndCheck \/ \E i \in Id : PassEntry(i) \/ SaveEntry(i)
SchedNext == SchedRequest \/ StoreStep \/ CheckStep \/ Minutely \/ Restart \/ TimeIsUp

SchedSpec == SchedInit /\ [][SchedNext]_schedVars

-----------------------------------------------------------------------------
(* Properties. *)

\* An entry with what p says, but for the time of the last run.
Same(e, p) == e # NoEntry /\ e.enabled = p.enabled /\ e.cron = p.cron

\* "Changes take effect within 60 seconds" (docs/ui.md:275): what was posted last for
\* an id is what the store holds and the Runner goes by.
PostKept == \A i \in Id : posted[i] # NoEntry => Same(entries[i], posted[i])

\* No tick triggers an operation twice, however late the check of it runs and
\* whatever was posted or restarted in between.
OncePerTick == saving # NoEntry => last[saving] < check

\* A restart brings back what the store held, unless the last write of the file
\* failed, or the crash fell into a write.
FileIsMemory == lock = "free" /\ ~behind => file = entries

\* The tick in the channel triggers what is due at it, also when the lock is
\* held, the clock goes on and later ticks are dropped, once requests, failures
\* and restarts have stopped; the exception is an id posted during a check that
\* finds it due and may be about to put the old entry back.
TickHandled ==
    \A i \in Id :
        /\ nposts = MaxPosts /\ nfaults = MaxFaults /\ i \notin raced
        /\ ticker # 0 /\ entries[i] # NoEntry /\ entries[i].enabled /\ isDue(entries[i], ticker)
        ~> saving = i
=============================================================================
