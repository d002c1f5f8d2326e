------------------------------ MODULE Watcher ------------------------------
(***************************************************************************)
(* internal/watcher/watcher.go: the event loop of watch mode.              *)
(*                                                                         *)
(* inotify queues an event for a change in a watched directory.  The loop  *)
(* takes the events one by one: it watches the directories that appear,    *)
(* notes the drive in pending and starts the debounce timer again; when    *)
(* the timer has fired it hands pending to its callback and waits for it.  *)
(* Main says what the callback does; here it starts, writes and returns.   *)
(***************************************************************************)
EXTENDS Naturals, Sequences

CONSTANTS
    Root,       \* the watched drives
    Dir,        \* the directories that may come and go below them
    Parent,     \* Parent[d]: where d is
    Above,      \* Above[p]: the places that hold p, p among them
    RootOf,     \* RootOf[p]: the drive that p is on
    QueueCap,   \* capacity of the inotify queue (16384)
    MaxChanges  \* bound: changes that users make; after them the drives are quiet

Place == Root \cup Dir
\* What a change is reported as: its drive, or a path of its own (RootFor).
Target == [root : Root, hidden : BOOLEAN]
Drive(r) == [root |-> r, hidden |-> FALSE]
\* An event names a directory ("create"), a file of a place ("change"), a path
\* below a drive whose first name starts with a dot ("hidden"), or the tool's
\* own files: bitrot.db, its shadow and the canary ("db"), or the shadow's
\* rollback journal ("journal").
Event == [at : Place, kind : {"create", "change", "hidden", "db", "journal"}]

ASSUME TreeAssumption ==
    /\ Root \cap Dir = {}
    /\ Parent \in [Dir -> Place]
    /\ Above \in [Place -> SUBSET Place]
    /\ \A r \in Root : Above[r] = {r}
    /\ \A d \in Dir : Above[d] = {d} \cup Above[Parent[d]]
    /\ RootOf \in [Place -> Root]
    /\ \A p \in Place : \A q \in Above[p] : RootOf[q] = RootOf[p]
ASSUME QueueAssumption == QueueCap \in Nat /\ MaxChanges \in Nat

VARIABLES
    exists,     \* the directories there are
    watched,    \* the places with an inotify watch
    queue,      \* events on their way to the loop
    pending,    \* targets with an event since the last callback
    timer,      \* the debounce timer: "off", "armed" or "fired"
    pc,         \* the loop: "select", "call" (in the callback) or "ended"
    changed,    \* what the callback was given
    cancelled,  \* the context is
    (* For the properties. *)
    stale,      \* targets with a change that no callback has been given yet
    missed,     \* drives with one that was lost, and the loss logged (see Silent)
    blind,      \* places that stay without a watch: an error was logged
    nchanges    \* changes made by users

loopVars == <<pending, timer, pc, changed>>
vars == <<exists, watched, queue, loopVars, cancelled, stale, missed, blind, nchanges>>

TypeOK ==
    /\ exists \subseteq Dir /\ watched \subseteq Place /\ blind \subseteq Place
    /\ queue \in Seq(Event) /\ Len(queue) <= QueueCap
    /\ pending \subseteq Target /\ changed \subseteq Target
    /\ timer \in {"off", "armed", "fired"}
    /\ pc \in {"select", "call", "ended"}
    /\ cancelled \in BOOLEAN
    /\ stale \subseteq Target /\ missed \subseteq Root
    /\ nchanges \in 0 .. MaxChanges

\* New: the directories that exist, any of which fw.Add may refuse (the limit
\* on watches): that is logged, and the directory goes unwatched.
Init ==
    /\ exists \in {ds \in SUBSET Dir : \A d \in ds : Parent[d] \in Root \cup ds}
    /\ \E refused \in SUBSET (Root \cup exists) :
          /\ watched = (Root \cup exists) \ refused
          /\ blind = refused
    /\ queue = <<>> /\ pending = {} /\ timer = "off" /\ pc = "select" /\ changed = {}
    /\ cancelled = FALSE /\ stale = {} /\ missed = {} /\ nchanges = 0

-----------------------------------------------------------------------------
(* The users of the drives, and inotify. *)

Full == Len(queue) >= QueueCap
\* A change in p will not be heard of: p goes unwatched for good, or the queue
\* overflows, which inotify reports in place of the event and the loop logs.
Silent(p) == p \in blind \/ (p \in watched /\ Full)

\* A bug to catch: the queue has no end.
QueuedAlways(p, kind, at) ==
    IF p \in watched THEN Append(queue, [at |-> at, kind |-> kind]) ELSE queue

Queued(p, kind, at) ==
    IF p \in watched /\ ~Full THEN Append(queue, [at |-> at, kind |-> kind]) ELSE queue

UserStep ==
    /\ pc # "ended" /\ nchanges < MaxChanges
    /\ nchanges' = nchanges + 1
    /\ UNCHANGED <<loopVars, cancelled>>

\* A file of p is created, written or removed.
Change(p) ==
    /\ UserStep
    /\ p \in Root \cup exists
    /\ queue' = Queued(p, "change", p)
    /\ stale' = stale \cup {Drive(RootOf[p])}
    /\ missed' = IF Silent(p) THEN missed \cup {RootOf[p]} ELSE missed
    /\ UNCHANGED <<exists, watched, blind>>

\* The same below a name that starts with a dot: heard of in the same way, and
\* not reported as the drive's.
ChangeHidden(r) ==
    /\ UserStep
    /\ queue' = Queued(r, "hidden", r)
    /\ stale' = stale \cup {[root |-> RootOf[r], hidden |-> TRUE]}
    /\ missed' = IF Silent(r) THEN missed \cup {RootOf[r]} ELSE missed
    /\ UNCHANGED <<exists, watched, blind>>

MakeDir(d) ==
    /\ UserStep
    /\ d \notin exists /\ Parent[d] \in Root \cup exists
    /\ exists' = exists \cup {d}
    /\ queue' = Queued(Parent[d], "create", d)
    /\ blind' = IF Silent(Parent[d]) THEN blind \cup {d} ELSE blind
    /\ UNCHANGED <<watched, stale, missed>>

\* An empty directory is removed, and with it its watch.
RemoveDir(d) ==
    /\ UserStep
    /\ d \in exists /\ \A c \in exists : Parent[c] # d
    /\ exists' = exists \ {d}
    /\ watched' = watched \ {d}
    /\ blind' = blind \ {d}
    /\ queue' = Queued(Parent[d], "change", Parent[d])
    /\ UNCHANGED <<stale, missed>>

-----------------------------------------------------------------------------
(* The loop. *)

\* rootFor: the drive of the path, or the path itself where the relative path
\* starts with a dot.
RootFor(e) == [root |-> RootOf[e.at], hidden |-> e.kind = "hidden"]

\* A bug to catch: only the directory that was created is watched, not its tree.
AddOne(d, refused) ==
    /\ refused \subseteq ({d} \cap exists) \ watched
    /\ watched' = watched \cup (({d} \cap exists) \ refused)
    /\ blind' = (blind \ {d}) \cup refused

\* addTree, from a directory that Stat has found.  WalkDir watches a directory
\* before it lists it, so what is made in it meanwhile is found or announced.
AddTree(d, refused) ==
    LET tree == {p \in exists : d \in Above[p]}
    IN /\ refused \subseteq tree \ watched
       /\ watched' = watched \cup (tree \ refused)
       /\ blind' = (blind \ tree) \cup refused

\* The tool's own files are skipped.
Skip ==
    /\ pc = "select" /\ queue # <<>> /\ Head(queue).kind = "db"
    /\ queue' = Tail(queue)
    /\ UNCHANGED <<exists, watched, loopVars, cancelled, stale, missed, blind, nchanges>>

\* A bug to catch: the timer is stopped where it should be started again.
NotedStopping(e) ==
    /\ pending' = pending \cup {RootFor(e)}
    /\ timer' = IF timer = "off" THEN "armed" ELSE "off"
    /\ queue' = Tail(queue)
    /\ UNCHANGED <<exists, pc, changed, cancelled, stale, missed, nchanges>>

\* The target is pending; the timer is stopped, drained and started again.
Noted(e) ==
    /\ pending' = pending \cup {RootFor(e)}
    /\ timer' = "armed"
    /\ queue' = Tail(queue)
    /\ UNCHANGED <<exists, pc, changed, cancelled, stale, missed, nchanges>>

\* A bug to catch: a new directory is watched, and nothing more.
ReceiveDirQuietly ==
    /\ pc = "select" /\ queue # <<>>
    /\ LET e == Head(queue)
       IN \/ /\ e.kind = "create"
             /\ \E refused \in SUBSET exists : AddTree(e.at, refused)
             /\ queue' = Tail(queue)
             /\ UNCHANGED <<exists, loopVars, cancelled, stale, missed, nchanges>>
          \/ /\ e.kind \notin {"create", "db"}
             /\ Noted(e)
             /\ UNCHANGED <<watched, blind>>

Receive ==
    /\ pc = "select" /\ queue # <<>>
    /\ LET e == Head(queue)
       IN /\ e.kind # "db"
          /\ IF e.kind = "create"
             THEN \E refused \in SUBSET exists : AddTree(e.at, refused)
             ELSE UNCHANGED <<watched, blind>>
          /\ Noted(e)

Tick ==
    /\ pc = "select" /\ timer = "armed"
    /\ timer' = "fired"
    /\ UNCHANGED <<exists, watched, queue, pending, pc, changed, cancelled, stale, missed, blind, nchanges>>

\* case <-timerC: the callback starts with what was pending.
Fire ==
    /\ pc = "select" /\ timer = "fired"
    /\ changed' = pending
    /\ pending' = {}
    /\ timer' = "off"
    /\ pc' = IF pending = {} THEN "select" ELSE "call"
    /\ stale' = {t \in stale : t \notin pending /\ Drive(t.root) \notin pending}
    /\ missed' = {r \in missed : Drive(r) \notin pending}
    /\ UNCHANGED <<exists, watched, queue, cancelled, blind, nchanges>>

\* The callback writes the tool's own files to a drive, of the kinds in own.
Writes(r, own) ==
    LET room == QueueCap - Len(queue)
        n == IF r \notin watched THEN 0 ELSE IF room < Len(own) THEN room ELSE Len(own)
    IN queue' = queue \o [i \in 1 .. n |-> [at |-> r, kind |-> own[i]]]

\* ... and returns, to the loop (or to whoever called it).
Return(next) ==
    /\ pc = "call"
    /\ pc' = next
    /\ changed' = {}
    /\ UNCHANGED <<exists, watched, queue, pending, timer, cancelled, stale, missed, blind, nchanges>>

Cancel ==
    /\ pc # "ended" /\ ~cancelled
    /\ cancelled' = TRUE
    /\ UNCHANGED <<exists, watched, queue, loopVars, stale, missed, blind, nchanges>>

\* A bug to catch: the loop ends when nothing is left to do.
StopWhenIdle ==
    /\ pc = "select" /\ cancelled /\ pending = {} /\ queue = <<>>
    /\ pc' = "ended"
    /\ UNCHANGED <<exists, watched, queue, pending, timer, changed, cancelled, stale, missed, blind, nchanges>>

Stop ==
    /\ pc = "select" /\ cancelled
    /\ pc' = "ended"
    /\ UNCHANGED <<exists, watched, queue, pending, timer, changed, cancelled, stale, missed, blind, nchanges>>

Users == \E p \in Place : \/ Change(p)
                          \/ p \in Root /\ ChangeHidden(p)
                          \/ p \in Dir /\ (MakeDir(p) \/ RemoveDir(p))
Loop == Skip \/ Receive \/ Fire

-----------------------------------------------------------------------------
(* Properties. *)

\* A target that waits for the callback has a timer that will start it: no
\* order of events, ticks and callbacks leaves it there with no timer running.
PendingHasTimer == pc # "ended" /\ pending # {} => timer # "off"

Announced(d) == \E i \in 1 .. Len(queue) : queue[i].kind = "create" /\ queue[i].at \in Above[d]

\* A directory goes unwatched only after an error was logged, or for as long as
\* the event of a directory that holds it is still queued: none is overlooked
\* because it was made, with others in it, while the loop was busy.
WatchedOrAnnounced == \A d \in exists : d \in watched \/ d \in blind \/ Announced(d)

\* The target, or its whole drive, waits for the callback, or an event of it for
\* the loop.
Heard(t) ==
    \E u \in {t, Drive(t.root)} :
        \/ u \in pending
        \/ \E i \in 1 .. Len(queue) :
               queue[i].kind \in {"create", "change", "hidden"} /\ RootFor(queue[i]) = u

\* A change that no callback has been given is in pending or in the queue, unless
\* an error was logged that says otherwise: also one made in a directory that is
\* not watched yet, below a name with a dot, or during a callback.
NothingForgotten == \A t \in stale : t.root \in missed \/ Heard(t)
=============================================================================
