---------------------------- MODULE SyncPipeline ----------------------------
(***************************************************************************)
(* SyncDirectory of internal/scanner/scanner.go: a walker goroutine, a     *)
(* pool of hashing workers, the goroutine that closes their results, and   *)
(* the collector (the caller) that writes the shadow database, joined by   *)
(* two bounded channels and cancelled through one context.                 *)
(*                                                                         *)
(* A file is known by its signature (size and mtime, whole seconds) and by *)
(* the hash of its content.  A record also carries a history: added_at,    *)
(* last_scrubbed and scrub_count, named here by the path under which it    *)
(* was first stored.  The files of the drive do not change during a sync.  *)
(* WalkDir visits them in some fixed order; paths being plain names, every *)
(* order of visit is the lexical order of some tree.                       *)
(***************************************************************************)
EXTENDS Naturals, Sequences, FiniteSets

CONSTANTS
    Path, Sig, Hash,    \* file paths, signatures, content hashes
    Worker,             \* the hashing goroutines
    WorkCap, ResultCap, \* capacities of the two channels (512 in the code)
    ProgressEvery,      \* a progress event every so many files (250 in the code)
    Absent,             \* no such file, no such record
    NoHash,             \* no hash: not known, or could not be computed
    Fresh,              \* the history of a record created by this sync
    Worlds              \* the databases, drives and faults a sync may meet

File == [sig : Sig, hash : Hash]
Record == [sig : Sig, hash : Hash, hist : Path \cup {Fresh}]
Item == [path : Path, known : Hash \cup {NoHash}]
Result == [path : Path, hash : Hash \cup {NoHash}]
Change == [path : Path, rec : Record, from : Path \cup {Absent}]
Fault == {"walk", "hash", "db", "cancel"}

ASSUME NamesAssumption ==
    Absent \notin File \cup Record \cup Path /\ NoHash \notin Hash /\ Fresh \notin Path
\* The number of workers is at least one, whatever the machine and the settings say.
ASSUME SizesAssumption ==
    /\ IsFiniteSet(Path) /\ Worker # {}
    /\ WorkCap \in Nat \ {0} /\ ResultCap \in Nat \ {0} /\ ProgressEvery \in Nat \ {0}
ASSUME WorldsAssumption ==
    Worlds \subseteq [old : [Path -> Record \cup {Absent}],
                     disk : [Path -> File \cup {Absent}],
                     faults : SUBSET Fault]

VARIABLES
    disk,       \* the regular files of the drive
    old,        \* dbFiles: the records loaded when the sync began
    faults,     \* what may go wrong during the sync
    db,         \* the files table of the shadow database
    ctxDone,    \* has the context been cancelled?
    wpc,        \* walker: "walk", "send" or "done" (work is closed)
    todo,       \* files it has yet to visit
    item,       \* the work item it is about to send
    walkErr,    \* WalkDir returned an error
    seen,       \* seenFiles; FilesScanned is its size
    work,       \* channel from the walker to the workers
    wst,        \* each worker: "idle", "busy" or "gone"
    held,       \* the item it holds
    results,    \* channel from the workers to the collector
    cpc,        \* collector: where it is in SyncDirectory
    change,     \* the record it is about to write, and where it moved from
    sweep,      \* records the deletion sweep has yet to remove
    stats,      \* FilesAdded, FilesModified, FilesMoved, FilesRemoved
    errs,       \* paths with a line in result.Errors
    outcome,    \* what SyncDirectory returned
    progClosed, \* has the caller closed ProgressCh?
    panicked    \* a goroutine sent on the closed channel

envVars == <<disk, old, faults, ctxDone, progClosed>>
walkVars == <<wpc, todo, item, walkErr, seen, panicked>>
poolVars == <<wst, held>>
upVars == <<envVars, walkVars, poolVars, work>>
collVars == <<cpc, change, sweep, outcome, db, stats>>
vars == <<upVars, results, collVars, errs>>

NoStats == [added |-> 0, modified |-> 0, moved |-> 0, removed |-> 0]

TypeOK ==
    /\ disk \in [Path -> File \cup {Absent}]
    /\ old \in [Path -> Record \cup {Absent}]
    /\ db \in [Path -> Record \cup {Absent}]
    /\ faults \subseteq Fault
    /\ ctxDone \in BOOLEAN /\ walkErr \in BOOLEAN
    /\ wpc \in {"walk", "send", "done"}
    /\ todo \subseteq Path /\ seen \subseteq Path
    /\ sweep \subseteq Path /\ errs \subseteq Path
    /\ item \in Item \cup {Absent}
    /\ work \in Seq(Item) /\ Len(work) <= WorkCap
    /\ wst \in [Worker -> {"idle", "busy", "gone"}]
    /\ held \in [Worker -> Item \cup {Absent}]
    /\ results \in Seq(Result) /\ Len(results) <= ResultCap
    /\ cpc \in {"load", "collect", "delete", "upsert", "sweep", "returned"}
    /\ change \in Change \cup {Absent}
    /\ stats \in [added : Nat, modified : Nat, moved : Nat, removed : Nat]
    /\ outcome \in {"none", "ok", "cancelled", "failed"}
    /\ progClosed \in BOOLEAN /\ panicked \in BOOLEAN

Init ==
    /\ \E w \in Worlds : old = w.old /\ disk = w.disk /\ faults = w.faults /\ db = w.old
    /\ ctxDone = FALSE
    /\ wpc = "walk" /\ todo = {p \in Path : disk[p] # Absent}
    /\ item = Absent /\ walkErr = FALSE
    /\ seen = {} /\ work = <<>>
    /\ wst = [w \in Worker |-> "idle"]
    /\ held = [w \in Worker |-> Absent]
    /\ results = <<>>
    /\ cpc = "load" /\ change = Absent /\ sweep = {}
    /\ stats = NoStats /\ errs = {} /\ outcome = "none"
    /\ progClosed = FALSE /\ panicked = FALSE

\* The goroutines start once the records are loaded; "failed" is a return before that.
Running == cpc # "load" /\ outcome # "failed"

-----------------------------------------------------------------------------
(* The walker. *)

\* A bug to catch: every file is hashed again.
KnownHashNever(p) == NoHash

\* A record that matches the file's size and mtime gives its hash to the item.
KnownHash(p) ==
    IF old[p] # Absent /\ old[p].sig = disk[p].sig THEN old[p].hash ELSE NoHash

\* The callback of WalkDir on a regular file, up to the send.  Every
\* ProgressEvery files it emits an event, which panics on a closed channel.
Visit(p) ==
    /\ Running /\ wpc = "walk" /\ p \in todo
    /\ todo' = todo \ {p}
    /\ seen' = seen \cup {p}
    /\ item' = [path |-> p, known |-> KnownHash(p)]
    /\ wpc' = "send"
    /\ panicked' = (panicked \/ (progClosed /\ Cardinality(seen') % ProgressEvery = 0))
    /\ UNCHANGED <<collVars, envVars, poolVars, walkErr, work, results, errs>>

\* WalkDir or Info reports an error: it is noted and the walk goes on.
VisitFails(p) ==
    /\ "walk" \in faults
    /\ Running /\ wpc = "walk" /\ p \in todo
    /\ todo' = todo \ {p}
    /\ errs' = errs \cup {p}
    /\ UNCHANGED <<collVars, envVars, poolVars, wpc, item, walkErr, seen, panicked, work,
                   results>>

\* select: the send, if the channel has room.
SendWork ==
    /\ Running /\ wpc = "send" /\ Len(work) < WorkCap
    /\ work' = Append(work, item)
    /\ item' = Absent
    /\ wpc' = "walk"
    /\ UNCHANGED <<collVars, envVars, poolVars, todo, walkErr, seen, panicked, results,
                   errs>>

\* select: ctx.Done, if the context is cancelled; WalkDir returns its error.
StopWalk ==
    /\ Running /\ wpc = "send" /\ ctxDone
    /\ item' = Absent
    /\ walkErr' = TRUE
    /\ wpc' = "done"
    /\ UNCHANGED <<collVars, envVars, poolVars, todo, seen, panicked, work, results, errs>>

\* WalkDir returns nil; the deferred close of work follows.
FinishWalk ==
    /\ Running /\ wpc = "walk" /\ todo = {}
    /\ wpc' = "done"
    /\ UNCHANGED <<collVars, envVars, poolVars, todo, item, walkErr, seen, panicked, work,
                   results, errs>>

-----------------------------------------------------------------------------
(* The workers. *)

Take(w) ==
    /\ Running /\ wst[w] = "idle" /\ work # <<>>
    /\ work' = Tail(work)
    /\ IF ctxDone
       THEN wst' = [wst EXCEPT ![w] = "gone"] /\ UNCHANGED held
       ELSE /\ wst' = [wst EXCEPT ![w] = "busy"]
            /\ held' = [held EXCEPT ![w] = Head(work)]
    /\ UNCHANGED <<walkVars, collVars, envVars, results, errs>>

\* What ComputeHash may answer: it fails when the file cannot be read, and
\* between two chunks of a cancelled context.
HashOf(p) ==
    {disk[p].hash} \cup (IF ctxDone \/ "hash" \in faults THEN {NoHash} ELSE {})

\* The result, known or computed, is sent; the send waits for room, whatever
\* became of the context.
Reply(w) ==
    /\ wst[w] = "busy" /\ Len(results) < ResultCap
    /\ \E h \in IF held[w].known # NoHash THEN {held[w].known} ELSE HashOf(held[w].path) :
         results' = Append(results, [path |-> held[w].path, hash |-> h])
    /\ wst' = [wst EXCEPT ![w] = "idle"]
    /\ held' = [held EXCEPT ![w] = Absent]
    /\ UNCHANGED <<walkVars, collVars, envVars, work, errs>>

\* work is closed and drained.
Exit(w) ==
    /\ wst[w] = "idle" /\ work = <<>> /\ wpc = "done"
    /\ wst' = [wst EXCEPT ![w] = "gone"]
    /\ UNCHANGED <<walkVars, collVars, envVars, held, work, results, errs>>

\* A bug to catch: a worker that stops for the context skips wg.Done.
ResultsClosedUncancelled == ~ctxDone /\ \A w \in Worker : wst[w] = "gone"

\* wg.Wait has returned, and results is closed.
ResultsClosed == \A w \in Worker : wst[w] = "gone"

-----------------------------------------------------------------------------
(* The collector. *)

Return(out) == cpc' = "returned" /\ outcome' = out

\* The first lines of SyncDirectory: ctx.Err, then GetAllFiles.
Load ==
    /\ cpc = "load"
    /\ \/ ~ctxDone /\ cpc' = "collect" /\ UNCHANGED outcome
       \/ ctxDone /\ Return("failed")
       \/ "db" \in faults /\ Return("failed")
    /\ UNCHANGED <<upVars, results, change, sweep, db, stats, errs>>

Received == Head(results)

\* A bug to catch: a record whose file has been seen counts as moved.
MovedFromAny(p) == {q \in Path \ {p} : old[q] # Absent /\ old[q].sig = disk[p].sig}

\* findMovedFile: a record of the same signature whose path has not been seen: its
\* file is gone, or the walk has yet to come to it.
MovedFrom(p) == {q \in Path \ (seen \cup {p}) : old[q] # Absent /\ old[q].sig = disk[p].sig}

Receive == cpc = "collect" /\ results # <<>> /\ results' = Tail(results)

\* The context is checked once per result.
CollectCancelled ==
    /\ Receive
    /\ ctxDone
    /\ Return("cancelled")
    /\ UNCHANGED <<upVars, change, sweep, db, stats, errs>>

\* A bug to catch: one unreadable file ends the sync at once.
CollectErrorReturns ==
    /\ Receive
    /\ ~ctxDone /\ Received.hash = NoHash
    /\ Return("ok")
    /\ UNCHANGED <<upVars, change, sweep, db, stats, errs>>

\* A file that could not be hashed is noted and skipped.
CollectError ==
    /\ Receive
    /\ ~ctxDone /\ Received.hash = NoHash
    /\ errs' = errs \cup {Received.path}
    /\ UNCHANGED <<upVars, collVars>>

\* The path is in the database: its history is kept, its hash and signature replaced.
CollectKnown ==
    /\ Receive
    /\ LET p == Received.path IN
         /\ ~ctxDone /\ Received.hash # NoHash /\ old[p] # Absent
         /\ stats' = IF old[p].sig = disk[p].sig THEN stats
                     ELSE [stats EXCEPT !.modified = @ + 1]
         /\ change' = [path |-> p, from |-> Absent,
                       rec |-> [sig |-> disk[p].sig, hash |-> Received.hash,
                                hist |-> old[p].hist]]
    /\ cpc' = "upsert"
    /\ UNCHANGED <<upVars, sweep, outcome, db, errs>>

\* A moved file takes over the old record's history and hash.
CollectMoved ==
    /\ Receive
    /\ LET p == Received.path IN
         /\ ~ctxDone /\ Received.hash # NoHash /\ old[p] = Absent
         /\ \E q \in MovedFrom(p) :
              change' = [path |-> p, from |-> q,
                         rec |-> [sig |-> disk[p].sig, hash |-> old[q].hash,
                                  hist |-> old[q].hist]]
    /\ stats' = [stats EXCEPT !.moved = @ + 1]
    /\ cpc' = "delete"
    /\ UNCHANGED <<upVars, sweep, outcome, db, errs>>

\* A bug to catch: a file that could not be hashed is recorded.
CollectAddedUnchecked ==
    /\ Receive
    /\ LET p == Received.path IN
         /\ ~ctxDone /\ old[p] = Absent /\ MovedFrom(p) = {}
         /\ change' = [path |-> p, from |-> Absent,
                       rec |-> [sig |-> disk[p].sig, hash |-> Received.hash,
                                hist |-> Fresh]]
    /\ stats' = [stats EXCEPT !.added = @ + 1]
    /\ cpc' = "upsert"
    /\ UNCHANGED <<upVars, sweep, outcome, db, errs>>

\* A new file starts a history of its own.
CollectAdded ==
    /\ Receive
    /\ LET p == Received.path IN
         /\ ~ctxDone /\ Received.hash # NoHash /\ old[p] = Absent /\ MovedFrom(p) = {}
         /\ change' = [path |-> p, from |-> Absent,
                       rec |-> [sig |-> disk[p].sig, hash |-> Received.hash,
                                hist |-> Fresh]]
    /\ stats' = [stats EXCEPT !.added = @ + 1]
    /\ cpc' = "upsert"
    /\ UNCHANGED <<upVars, sweep, outcome, db, errs>>

\* Does a statement take effect?  Never under a cancelled context.
Applied == IF ctxDone THEN {FALSE} ELSE IF "db" \in faults THEN BOOLEAN ELSE {TRUE}

\* DeleteFile of the moved-from record; a failure is only logged.
DeleteMovedFrom ==
    /\ cpc = "delete"
    /\ \E ok \in Applied : db' = IF ok THEN [db EXCEPT ![change.from] = Absent] ELSE db
    /\ cpc' = "upsert"
    /\ UNCHANGED <<upVars, results, change, sweep, outcome, stats, errs>>

\* UpsertFile; a failure is noted in result.Errors.
UpsertFile ==
    /\ cpc = "upsert"
    /\ \E ok \in Applied :
         /\ db' = IF ok THEN [db EXCEPT ![change.path] = change.rec] ELSE db
         /\ errs' = IF ok THEN errs ELSE errs \cup {change.path}
    /\ change' = Absent
    /\ cpc' = "collect"
    /\ UNCHANGED <<upVars, results, sweep, outcome, stats>>

\* A bug to catch: the sweep goes over the records as they are now.
LeftoverNow == {p \in Path : db[p] # Absent} \ seen

\* The records loaded at the start whose files were not seen.
Leftover == {p \in Path : old[p] # Absent} \ seen

\* results is closed and drained, and the walker's error has arrived.
AwaitWalker ==
    /\ cpc = "collect" /\ results = <<>> /\ ResultsClosed /\ wpc = "done"
    /\ IF walkErr
       THEN Return("cancelled") /\ UNCHANGED sweep
       ELSE /\ sweep' = Leftover
            /\ cpc' = "sweep" /\ UNCHANGED outcome
    /\ UNCHANGED <<upVars, results, change, db, stats, errs>>

\* DeleteFile of a record not seen on disk; counted even when it fails.
SweepRecord(p) ==
    /\ cpc = "sweep" /\ p \in sweep
    /\ sweep' = sweep \ {p}
    /\ \E ok \in Applied : db' = IF ok THEN [db EXCEPT ![p] = Absent] ELSE db
    /\ stats' = [stats EXCEPT !.removed = @ + 1]
    /\ UNCHANGED <<upVars, results, cpc, change, outcome, errs>>

FinishSync ==
    /\ cpc = "sweep" /\ sweep = {}
    /\ Return("ok")
    /\ UNCHANGED <<upVars, results, change, sweep, db, stats, errs>>

-----------------------------------------------------------------------------
(* The caller. *)

\* SIGINT, SIGTERM or the server's shutdown cancels the context.
Cancel ==
    /\ "cancel" \in faults /\ ~ctxDone /\ cpc # "returned"
    /\ ctxDone' = TRUE
    /\ UNCHANGED <<walkVars, collVars, poolVars, disk, old, faults, progClosed, work,
                   results, errs>>

\* The run's goroutine in the web server closes ProgressCh when Run returns.
CloseProgress ==
    /\ cpc = "returned" /\ ~progClosed
    /\ progClosed' = TRUE
    /\ UNCHANGED <<walkVars, collVars, poolVars, disk, old, faults, ctxDone, work, results,
                   errs>>

\* SyncDirectory has returned: nothing more has to happen.
Done == progClosed /\ UNCHANGED vars

Walker ==
    \/ \E p \in Path : Visit(p) \/ VisitFails(p)
    \/ SendWork \/ StopWalk \/ FinishWalk

WorkerStep(w) == Take(w) \/ Reply(w) \/ Exit(w)

Collector ==
    \/ Load
    \/ CollectCancelled \/ CollectError \/ CollectKnown \/ CollectMoved \/ CollectAdded
    \/ DeleteMovedFrom \/ UpsertFile
    \/ AwaitWalker \/ FinishSync
    \/ \E p \in Path : SweepRecord(p)

Next ==
    \/ Walker
    \/ \E w \in Worker : WorkerStep(w)
    \/ Collector
    \/ Cancel \/ CloseProgress \/ Done

Spec == Init /\ [][Next]_vars

\* The Go scheduler runs every goroutine that can proceed; nobody has to cancel.
FairSpec ==
    /\ Spec
    /\ WF_vars(Walker)
    /\ \A w \in Worker : WF_vars(WorkerStep(w))
    /\ WF_vars(Collector)
    /\ WF_vars(CloseProgress)

-----------------------------------------------------------------------------
(* Properties. *)

\* A sync that nobody interrupts and whose statements take effect.
Undisturbed == {"cancel", "db"} \cap faults = {}

Twins(p) == {q \in Path \ {p} : old[q] # Absent /\ old[q].sig = disk[p].sig}
TakenFrom(q, rec) == rec.hash = old[q].hash /\ rec.hist = old[q].hist

\* A record that was there keeps its history, and its hash if the file is unchanged.
Kept(p, rec) ==
    /\ old[p] # Absent
    /\ rec.hist = old[p].hist
    /\ rec.hash = IF old[p].sig = disk[p].sig THEN old[p].hash ELSE disk[p].hash

\* A new path that takes over the record of a file that is gone ...
Moved(p, rec) == old[p] = Absent /\ \E q \in Twins(p) \ seen : TakenFrom(q, rec)

\* ... or, by mistake, of one that the walk had yet to come to: its twin is still there.
Mistaken(p, rec) == old[p] = Absent /\ \E q \in Twins(p) \cap seen : TakenFrom(q, rec)

\* A new path with a history of its own: every file it might be is still there.
Added(p, rec) ==
    old[p] = Absent /\ Twins(p) \subseteq seen /\ rec.hash = disk[p].hash /\ rec.hist = Fresh

\* The record a sync may leave for a file.
Justified(p, rec) ==
    /\ rec.sig = disk[p].sig
    /\ Kept(p, rec) \/ Moved(p, rec) \/ Mistaken(p, rec) \/ Added(p, rec)

\* An undisturbed sync that returns normally leaves exactly the records of the
\* files it saw, however the goroutines interleaved: each is the old one, or
\* taken over from a file of the same size and mtime, as it must be when such a
\* record has lost its file, or new; only a path with a reported error may be
\* stale or missing.  (That it may be Mistaken is what MovesAreReal denies.)
SyncMirrorsDisk ==
    Undisturbed /\ outcome = "ok" =>
        \A p \in Path :
            IF p \in seen
            THEN \/ db[p] # Absent /\ Justified(p, db[p])
                 \/ p \in errs /\ db[p] \in {old[p], Absent}
            ELSE db[p] = Absent

\* A record taken over from another path is that of a file that is gone:
\* duplicates are not mistaken for moves.
MovesAreReal ==
    outcome = "ok" =>
        \A p \in Path : \A q \in Path \ {p} :
            db[p] # Absent /\ db[p].hist = q => q \notin seen

\* A file whose size and mtime still match its record never gets another hash:
\* silent corruption stays visible to the next scrub, whatever fails meanwhile.
NoLaundering ==
    \A p \in Path :
        (disk[p] # Absent /\ old[p] # Absent /\ db[p] # Absent /\ old[p].sig = disk[p].sig)
            => db[p] = old[p]

\* The counters of an undisturbed sync account for the change in the number of
\* records, even when one old record is taken over by several new files, unless
\* the content of some file could not be read.
CounterBalance ==
    LET count(t) == Cardinality({p \in Path : t[p] # Absent})
    IN Undisturbed /\ outcome = "ok" /\ errs \cap seen = {} =>
         count(db) + stats.removed = count(old) + stats.added + stats.moved

\* No goroutine sends a progress event after the caller has closed the channel
\* (the send panics), whatever fails: SyncDirectory does not return before its
\* walker has finished, unless it is cancelled.  A cancelled one may.
NoSendAfterClose == panicked => outcome = "cancelled"

\* SyncDirectory returns in every case: the bounded channels never leave the
\* walker, the workers and the collector waiting on each other, cancelled or not.
SyncReturns == <>(cpc = "returned")

\* Every goroutine SyncDirectory started ends, unless the context is cancelled: a
\* worker that is sending its result has no other way out of the send.
GoroutinesEnd ==
    <>ctxDone \/ <>(outcome = "failed" \/ (wpc = "done" /\ ResultsClosed))

\* A sync that returns normally, and is therefore promoted to production, has
\* recorded every file it saw, or reported an error for it, and has no other record.
SyncComplete ==
    outcome = "ok" =>
        \A p \in Path :
            /\ p \in seen \ errs => db[p] # Absent /\ db[p].sig = disk[p].sig
            /\ p \notin seen => db[p] = Absent
=============================================================================
