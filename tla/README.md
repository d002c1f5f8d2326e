# A TLA+ model of bit-rot-detector

bit-rot-detector keeps a database of file hashes on every drive it watches, verifies a share of
them in every run, and must never let a failure of its own look like, or hide, a failure of the
disk. These modules model the parts of it where that is hard to test: the replacement of the
database by renaming, the goroutines of a sync, the order in which files are verified over many
runs, the drives that run together and their workers, the operations of the web server, the
event loop of watch mode with the reports it makes, the schedule and the retry queue. TLC checks the
models on small instances, TLAPS proves the most important results for every value of the constants. Source paths are those of
the repository; `PROJECT.json` maps every definition to the lines it stands for.

    tlc -workers 2 -config MCShadowSwap.cfg MCShadowSwap.tla      # a run
    tlapm ShadowSwapProofs.tla                                    # the proofs of a module

## 1. The system

| Component | State | Operations |
|---|---|---|
| storage (`internal/storage/repository.go`) | `bitrot.db`, `bitrot.db.shadow` and its journal on each drive; one SQLite handle per run | `Open`, `UpsertFile`, `DeleteFile`, `UpdateScrubStatus`, `InsertRunHistory`, `Commit`, `Rollback`, queries on the production file |
| coordinator (`internal/coordinator/coordinator.go`) | `.bitrot-canary` and the checksum in it; a semaphore of `MaxWorkers` drives; one result per drive | `Run`, `processDrive` |
| scanner, sync (`internal/scanner/scanner.go`) | `dbFiles`, `seenFiles`, the channels `work` and `results`, counters and errors | `SyncDirectory`, `findMovedFile`, `emitProgress` |
| scanner, scrub (same file) | the selected files; `last_scrubbed` in the database | `ScrubFiles`, with `GetFilesForScrub` |
| hasher (`internal/hasher/hasher.go`) | none | `ComputeHash`, `ComputeChecksumFile` |
| api (`internal/api/server.go`) | `status.Running`, the last results, a progress channel per operation, the subscribers of `progressHub` | `startOperationForPaths`, `publish`, `subscribe`, the GET handlers |
| monitor (`internal/monitor/drive.go`) | none; reads `/proc/mounts` and `/sys/block` | `Detect` |
| watcher (`internal/watcher/watcher.go`) | fsnotify's queue and watches, `pending`, the debounce timer | `New`, `Run`, `addTree`, `rootFor` |
| main (`cmd/bit-rot-detector/main.go`) and mailer (`internal/mailer/mailer.go`) | the results of a run; an exit code | `run`, its callback, `SendUnifiedReport` |
| scheduler (`internal/scheduler/schedule.go`) | the entries, a file behind them | `Upsert`, `GetAll`, `Runner.check` |
| retry queue (`internal/retry/retry.go`) | bounded list of items | `Add`, `Due`, `MarkDone`, `MarkFailed` |
| settings, config, domain, dashboard | one value behind a lock; none | wiring and text |

How they interact. `main` chooses who calls `coordinator.Run`: the command line once, the
watcher's event loop after a quiet period, or the web server on a request. `Run` starts one
goroutine per drive; each passes the canary check, opens the shadow database, syncs and/or
scrubs, checks the canary again, inserts the history row, commits by renaming the shadow over
`bitrot.db`, and stores the new file's checksum in the canary. Every error in between ends in
`Rollback`. A sync is a walker, a pool of workers and a collector joined by two channels of 512
places and one context. Requests of the dashboard read `bitrot.db` by name at any moment.
Progress events go from the scanner through one channel per operation, which the server closes
when `Run` returns, to a forwarder and from there to the subscribers.

Some wiring the documents mention is not in the code: `main` creates the schedule store and the
retry queue but no `Runner`, and nothing calls `retry.Queue.Add`; both are libraries as yet
(docs/ui.md:275 and docs/ops.md:185 speak of a runner). The settings' notification rules can be
saved and are read by nobody but the API.

What is hard, and what would make each component right:

| Component | What is hard | What must hold |
|---|---|---|
| swap | crashes and errors at every step, a leftover shadow or journal, a second process, readers while a file is renamed over theirs | production = what the committed runs acknowledged; replaced, never written to; a reader sees one committed state; an error leaves no shadow |
| sync | three kinds of goroutines share `seenFiles`, the records of the start are used while the table changes, cancellation, statements that fail | a sync that returns normally leaves the justified records and no other; an unchanged file keeps its hash; nobody waits for ever; no event after the channel is closed |
| scrub | the order over many runs, files that stay bad, cancelled runs, truncated quotas | every file's turn comes; rot is reported |
| server | two requests at once, events of an old operation after the next has begun, a full subscriber, shutdown | one operation at a time; a drive is processed only while `running`; every accepted operation ends |
| watcher | events during the callback, the timer against an event, its own writes as events, a queue that overflows | every change is followed by a sync, or a loss is logged; without changes it comes to rest |
| main, mailer | one drive fails and another has rotted, or one does both; single files that could not be read; a drive that failed waits for its next change | the report and the exit code hide none of it |
| monitor | nested, remote and doubled mounts in a map's random order; drives that share a disk | the disk found is the one the drive is on; a rotational disk is not crowded |
| scheduler | a snapshot written back over a newer entry, ticks that are dropped, a file torn by a crash | no update is lost, none is triggered twice for a tick, a restart finds what was stored |
| retry queue | items handed out without being claimed, a queue that only grows | no operation before its backoff, none forgotten |

## 2. The modules

| Module | Models | State and actions against the code |
|---|---|---|
| `ShadowSwap` | `storage` and `processDrive` on one drive | `prod`, `shadow` are the names, bound to inodes; `file` the statements whose effect an inode holds; `fd`, `src`, `rd` open handles; `pc` the place in `processDrive`. One action per file operation: `RemoveStale`, `CreateShadow`, `Copy`, `OpenSQLite`, `WriteRecord`, `PostCheck`, `InsertRunHistory`, `Commit`, `Rollback`, `ComputeChecksum`, `TruncateCanary`, `WriteCanary`, each with its failure, and the environment: `Crash`, `CanaryVanishes`, readers |
| `AtomicDb` | what `storage` promises | one variable, one action: a run's effects join the database at once |
| `SyncPipeline` | `SyncDirectory` | the walker (`Visit`, `SendWork`, `StopWalk`, ...), each worker (`Take`, `Reply`, `Exit`), the collector (`Collect...`, `DeleteMovedFrom`, `UpsertFile`, `AwaitWalker`, `SweepRecord`, ...), the caller (`Cancel`, `CloseProgress`) |
| `ScrubRotation` | successive runs of `ScrubFiles` on a fixed set of records | `age` is `last_scrubbed` counted in runs, `minAge` the filter; `BeginScrub` selects, `Validate`, `Mismatch`, `CheckFails`, `CheckLost` check one file, `FinishScrub` commits, `StopScrub` (cancelled) and `LoseRun` (the canary or the commit fails) roll back; `Decay`, `Restore` are the disk and the user, also in the middle of a run |
| `RunServer` | `startOperationForPaths`, `coordinator.Run` and `progressHub` | `running` and `shown` are the status; `opc`, `job` the goroutine of an operation and those of its drives (`StartOperation`, `EnterJob`, `EndJob`, `Publish`, `CloseProgCh`); `prog`, `fwd`, `held` its channel and forwarder (`Emit`, `Forward`, `HubPublish`, `ForwarderEnds`); `subs`, `buf` the hub (`Subscribe`, `Deliver`, `Disconnect`) |
| `DriveWorkers` | `monitor.Detect` and the drives of one `coordinator.Run` | `table` is `/proc/mounts`; `stage` where a drive is: at the semaphore, let in, hashing; `device`, `workers` what `Detect` gave it. `MountPoint`, `Matching`, `DeviceForPath`, `KnownDisk`, `DetectedWorkers` are `parseMounts`, `deviceForPath`, `baseDevice` and `readRotational`, `Detect`; `Enter`, `Detect`, `Leave` the goroutine of a drive |
| `Watcher` | `watcher.go`, with inotify below it | `queue`, `watched` are inotify's; `pending`, `timer`, `pc` the loop's. `Skip`, `Receive` (with `AddTree`, `RootFor`, `Noted`), `Tick`, `Fire`, `Stop` are the cases of the select; `Change`, `ChangeHidden`, `MakeDir`, `RemoveDir` the users; `Writes` what a run does to its own files; `stale` the changes that no callback has been given |
| `Main` | `run` without a flag and with `-watch`; the report | extends `Watcher`; `changed`, `outcome` are the run in progress, `failed`, `rot` what is known of a drive, `told` its last report, `exit` the code. `EndDrive` is `processDrive` seen from outside, `EndRun` the report and the return of the callback or of `run` |
| `Scheduler` | the schedule store, `Runner`, `handlePostSchedule` | `entries`, `file`, `lock` are the store; `ticker`, `check`, `snap`, `saving` the Runner. `PostSchedule`, `PostWritten`, `StartCheck`, `PassEntry`, `SaveEntry`, `Trigger`, `EndCheck`, `Minutely`, `Restart` |
| `RetryQueue` | `retry.Queue` | `items`; `hand` what each caller of `Due` holds. `Add`, `Take` (`Due`), `MarkDone`, `MarkFailed`, `Pass` (a minute) |
| `Parts` | the composition of `ScrubRotation`, `RunServer`, `Scheduler`, `RetryQueue` and `DriveWorkers` | one of them at a time, named by `part`: they share no variable and do not call each other |
| `ShadowSwapProofs`, `SyncPipelineProofs`, `ScrubRotationProofs`, `RunServerProofs`, `DriveWorkersProofs`, `MainProofs`, `StoresProofs` | | the theorems |
| `MC...` | | instances and symmetry sets for TLC |

`ShadowSwap` treats the sync and the scrub as a number of row writes that succeed or fail;
`SyncPipeline` is what happens inside one of those runs; `ScrubRotation` looks at the scrubs of
many runs and takes the atomicity that `ShadowSwap` establishes for granted; `RunServer` looks at
who starts the runs, and knows of each only that it is active, emits events and ends, which is
what `SyncReturns` says of it; `Main` is the other caller of the runs and knows of each
drive how far it got, whether it found rot and whether it lists errors with single files; `DriveWorkers` is the inside of `Run` as far as it
concerns disks. Definitions marked
"A bug to catch" are altered versions of their neighbour, used to see that a property fails
when the code is wrong; no specification uses them.

Abstractions, and why they are sound for the properties stated:

- *Swap.* The content of a database is the set of the statements whose effect it holds, be they
  INSERT, REPLACE, UPDATE or DELETE: a deleted row that comes back and an inserted row that goes
  are both an effect missing from the set. A crash is the death of the process, not of the
  machine: the code makes no claim about the latter. `processDrive` reads the canary's checksum
  only to log a mismatch, so `Start` does not branch on it. What SQLite makes of a journal beside a
  database is modelled from its documented behaviour: on a zero-length file the journal is dropped;
  otherwise whole pages, as they were before the interrupted transaction, are written over a file
  with other pages, so that any effects may appear and vanish (`Replayed`), and either the mixture
  passes `integrity_check` (`OpenSQLite`) or it does not (`OpenSQLiteFails`). A torn file stays torn.
- *Sync.* A file is a signature (size and mtime, all that the code compares) and a content. The
  drive does not change during a sync; a record's history (`added_at`, `last_scrubbed`,
  `scrub_count`) is the name of the path that brought it into the database. `Visit` may come in
  any order, since every order is the lexical order of some names. Each check of the context
  that can change the outcome is its own guard; the checks at the same place in a loop are one.
- *Scrub.* `last_scrubbed` is used to order and to filter, hence an age in runs. Timestamps have
  a resolution of a second and ties are broken by SQLite: any oldest subset may be selected. The
  percentage is a fraction `Percent / Whole`, so that tenths of a percent can be given; the code
  computes it as a float64, which may fall just short of a whole number and then takes one file
  less, as a slightly smaller percentage would.
- *Server.* An operation is the set of its drives; whether it syncs or scrubs plays no part. An
  event is its place among the events of its drive: the phases and figures in it are text, and
  the walker and the collector of a drive may emit in any order. The channels keep their
  capacities as constants (256 and 64 in the code). There is no shutdown: in web mode `main`
  returns without waiting for the operation, so that a SIGTERM is a `Cancel` of `SyncPipeline`
  followed by a `Crash` of `ShadowSwap`, with the walker it may leave behind.
- *Drives.* A place has a text that begins another's or does not (`Begins`, which is all that
  `strings.HasPrefix` sees) and holds it or does not (`Holds`, the truth); the two differ for
  `/mnt/data` and `/mnt/data2`, and for a blank, which `/proc/mounts` writes as `\040`. Symbolic
  links are resolved. A device is known by the disk that stripping its name finds (`KnownDisk`), or
  unknown to `/sys/block`, like an LVM volume. A table that cannot be read, and another operating
  system, are the empty table: `NumCPU` workers. The table does not change during a run.
- *Watcher.* The roots always exist and directories are not renamed. `AddTree` is one action:
  `WalkDir` adds a directory to the watches before it lists it, so that whatever is made in it
  meanwhile is either found or announced. `MaxChanges` is also the users' pause, without which
  the debounce never ends: each event restarts the timer. An event of the tool's own files is of
  kind "db" (skipped by name) or "journal" (not skipped). A change is stale until a callback is
  given its target: the drive, or for a change below a name with a dot the path that `rootFor`
  makes of it. A change is exempt (`missed`) only when the watcher has logged its loss: the queue
  overflows, or the directory was refused a watch. `cancelled` may come at any moment.
- *Main.* "scan" is the sync or the scrub, whichever the flags ask for (both, without a flag); a
  drive may end at any stage, for whatever reason, cancellation included, with or without rot and
  errors of single files (`Outcome`), of which `DriveResult` says what is returned. `rot` keeps the
  finding of the last scrub that ran to its end, also when a later run fails before it has scrubbed.
  A failing `Open` may have written a journal, as `createSchema` does. SMTP is outside: "mailed"
  means that the mailer was asked to send.
- *Scheduler.* The Runner goes through its snapshot in any order, which covers the one the map
  gives it. A store without a file, as `main` makes it, is one whose writes succeed. A calendar
  of `Hours`, `Minutes` and `Days` stands for 24, 60 and 7.
- *Retry queue.* Its callers do what the comments of `Due`, `MarkDone` and `MarkFailed` allow,
  two of them at once. Attempts are counted up to `MaxShift`, above which they change nothing.

## 3. The runs

| Run | Question | Bounds |
|---|---|---|
| `swap` | Is production always exactly the committed runs, replaced as a whole, whatever fails, and readers undisturbed? Does the swap implement `AtomicDb`? | one process, one reader, three runs, one record and one history row per run, three inodes |
| `swap_replay` (fails) | The same when a crash may fall inside a transaction | as above |
| `sync` | Is the table right after a sync, the counters too? Does an unchanged file keep its hash? Does a sync return, do its goroutines end, does none of them use a closed channel? | three paths, each one of twelve kinds of record and file (gone, new, unchanged, rotten, edited, over two signatures and two contents), two workers, channels of one place, walk and hash errors; for four of the kinds hash and database errors and a cancellation at any point |
| `sync_cancel` (fails) | Is a cancelled sync ever reported as complete? | two paths, one worker |
| `sync_moves` (fails) | Is a file that is still there ever taken for moved? | two paths, one worker, no faults |
| `parts` | Of the scrub: how long can a good file wait, is rot reported, is every file verified? | three files, a quota of 68 percent, with no filter and one of two runs; one bad file at a time, one cancelled or failed run, lost check or file restored in the middle of a run |
| | Of the server: can two operations touch a drive at once, can the status go back, do events overtake each other, does everything end although nobody reads? | two drives, requests for one of them or for both, one at a time in `Run`, two operations, two events per drive, channels of one place, one client |
| | Of the schedule: does a tick trigger once, is it handled, is the file what the store holds? | two ids, three bodies (disabled, `@weekly`, `HH:MM`), two requests, one failure or restart, four minutes of a calendar of two days of two minutes |
| | Of the retry queue: is the backoff kept with two callers, does an item come back? | a queue of two, three calls of `Add`, shift up to 2, delay up to 3, two callers |
| | Of the drives: is the disk of a drive found? | every table of up to three lines: a partition of a rotational disk, a solid-state disk, a remote file system at `/`, `/mnt/data`, `/mnt/data/my disk`; the target paths `/mnt/data/my disk/photos` and `/mnt/data2` |
| `drives` (fails) | Does a rotational disk have one worker? | tables of up to two lines, two targets |
| `watch` | Is every change heard of followed by a run, and every directory watched? Are reports and exit code true? Does a cancelled watcher stop? | two drives, the first with a directory in a directory; a queue of two events, two changes; refused watches; every outcome of a run |
| `watch_feedback` (fails) | Does it come to rest after the last change? | as above, one change |
| `watch_hidden` (fails) | Is every change, below whatever name, followed by a run of its drive? | as above, one change |
| `report` (fails) | Is a run with errors of any kind mailed? | as above, one change |
| `post_lost` (fails) | Does what was posted take effect? | one id, two requests, no failures |

Why the bounds are enough to be worth something. Three runs let a second run find what the
first left and a third find what the second made of it; one record and the history row of a run
are enough to split it, which is what atomicity is about; three inodes are `bitrot.db`, the
shadow and one that only an open handle keeps alive. Three files are the least with a
record whose file has not been visited, one that has, and a new file that looks like both;
channels of one place with two workers reach every combination of full and empty that larger
ones have. In `parts`, of the scrub, a slot is held
by a bad file and three files do not fit two slots, so that somebody always waits; with the filter
a run finds none, one, two or three eligible files, of which it selects none, one (0.68 truncated to
zero, and raised to one), one (1.36) or two (2.04). `MaxAge` is above every wait that the bound
allows. Of the server two operations are the least where an old forwarder meets a new operation,
and four events against two places overflow both channels. Of the drives three lines at three
nested points give every order of a deeper and a shallower mount, a remote one and a doubled one.
Of the stores four minutes are enough for a tick to be dropped behind one that waits, and for every
expression of the instance to be due and not due; two requests of one id meet a check between its
snapshot and its write; with `MaxShift` 2 and `MaxDelay` 3 the delay is uncapped, capped by the day
and past the shift. The expressions `@daily` (the same as `@weekly` in form) and malformed ones are
in the model, not in the instance. One part at a time is enough because the parts share nothing
(`Parts`). In `watch` two changes, one of them a new directory, fall before, into and after a
callback, and the queue of two overflows from the run's own writes; the tree of two directories is
the least in which one is made inside another that is not watched yet.

The properties, each at its definition with the code behaviour it is about:

- `ProdIsCommittedRuns` (refuted with crashes inside transactions), `ReaderSnapshot`, `CanaryMatches`, `NoStaleShadow`,
  `NeverModifiedInPlace`, `AtomicCommit` (`ShadowSwap`);
- `SyncMirrorsDisk`, `NoLaundering`, `CounterBalance`, `NoSendAfterClose`, `SyncReturns`,
  `GoroutinesEnd`, and, refuted, `SyncComplete`, `MovesAreReal` (`SyncPipeline`);
- `BoundedWait`, `RotReported`, `EventuallyVerified` (`ScrubRotation`; in `Parts`, `ScrubVerifies` says the
  last of the part at work), and the types of all parts, `PartsTypeOK`;
- `OneOperation`, `StatusIsLatest`, `InOrder`, `OperationEnds`, `ForwardersEnd` (`RunServer`);
- `DeepestMatch` and, refuted, `OneWorkerPerDisk` (`DriveWorkers`);
- `PendingHasTimer`, `WatchedOrAnnounced`, `NothingForgotten` (`Watcher`), `ReportTruthful`,
  `ExitTruthful`, `ChangeSynced`, `StopsOnCancel`, and, refuted, `ComesToRest`, `EveryChangeSynced`,
  `ErrorsMailed` (`Main`);
- `OncePerTick`, `FileIsMemory`, `TickHandled` and, refuted, `PostKept` (`Scheduler`), `BackoffKept`,
  `ComesBack` (`RetryQueue`).

Fairness. `SyncPipeline`: weak fairness of the walker, of each worker, of the collector and of
the caller's close, because the Go scheduler runs every goroutine that can go on, and a send or
receive on a channel is continuously possible until it happens (each channel has its one reader
side waiting, and a free place is not taken away from a single sender; two workers that compete
for one place take turns only because the collector drains it again and again, which the runs
cover). `Cancel` is not fair: nobody has to cancel.

`Parts` asks for weak fairness of one action, `Progress`: whatever part is at work, something of it
goes on while something can. That is less than fairness for each goroutine, and enough, because
what can go on by itself without end is a scrub after a scrub or a minute after a minute. For the
scrub it holds because cron, the watcher or the user starts run after run; cancellations are
bounded by `MaxStops`, since somebody who cancels every run will never see a result; `Decay` and
`Restore` are not fair. In the server it is the goroutine of an operation, its forwarder and each
drive's goroutine, whose `processDrive` returns (`SyncReturns`); one drive that waits at the
semaphore is let in because places are only given back, never taken by a later operation; clients
need not ask, read or stay. In the schedule it is a write that has begun and the Runner's goroutine;
requests, failures and restarts are not fair, and `TickHandled` speaks of the time after the last
of them. In the queue it is time. The drives have no liveness property, nor has the swap.

`Main`: likewise weak fairness of `Progress`, the loop, the timer and the run of the drives, each of
which returns; strong fairness of `StopWatching`, because Go's `select` picks at random among the
cases that are ready, so that a cancelled context is picked if it is ready again and again, even
when the tool's own events keep the loop busy (weak fairness would be too little: the case is not
ready during a callback). Users and cancellation are not fair.

Deadlock is checked in every run. Where the program stops on purpose there is an explicit
stuttering step (`Done` of `SyncPipeline`, `Ended` of `Main`, `TimeIsUp` of `Scheduler`), enabled
only when everything that was started has ended; the others always have a step: the swap's canary
and readers, the scrubs, the server's clients, the runs of the drives, the minutes of the queue.

## 4. What is proved

For any number of processes, readers, inodes, runs and writes (`ShadowSwapProofs`):

| Theorem | Assumes | Says |
|---|---|---|
| `TypeCorrect` | | `TypeOK` |
| `ProdNeverModified` | `Exclusive` | no step writes to the inode that is `bitrot.db` |
| `ReadersSeeSnapshots` | `Exclusive` | a reader's file does not change while it is open |
| `ProdIsExact` | `Exclusive`, no crash inside a transaction | production is exactly the effects acknowledged to the committed runs |
| `SwapImplementsAtomicDb` | as above | the refinement `AtomicCommit` |
| `RunsCleanUp` | | a run that has ended leaves no shadow, but for the failures that cannot remove it |
| `CanaryIsTrue` | `Exclusive` | between runs the checksum in the canary is that of production, unless a failure kept it from being written |

`Exclusive` (a run begins only when no other is active on the drive) is what the sequential
callers and, in the web server, `status.Running` (`OneOperationAtATime`, below) provide within
one process. Nothing provides it between processes, nor inside one when a drive is configured
under two spellings, as `config.Load` removes duplicates by text (`/mnt/a`, `/mnt/a/`); section 5
says what happens then.

The argument. `TInv` adds to the types that a process in a run has one (`Owned`). `Structure`
says who may hold what: one process at a time (`Alone`), whose handle is on the shadow while it
works (`Placed`), the shadow and production are different inodes (`Apart`), and readers hold
complete files (`Watched`); without it nothing excludes a write through a handle to a file that
has become production in the meantime. From it `Frame` follows: what each step leaves alone.
`Contents` relates files to the log of acknowledged statements: runs are numbered as they start
(`Numbered`), there is no journal, and production, the copy being made and the shadow hold the effect
of every committed one (`Kept`). `Exact` sharpens this to equality, with the effects of the run in
progress as the difference, and gives the refinement directly: at `Commit` the difference is what joins the
abstract database, and no other step changes production. `RunsCleanUp` needs no `Exclusive`: in
`Cleared` a shadow without `litter` has a process whose run will still remove or rename it, and
one run's rollback cannot create one. `CanaryIsTrue` follows the checksum through the three steps
that bring it into the canary (`Sealed`): once computed it stays that of production until it is
written, because nobody else commits meanwhile.

For any number of files, contents and workers, any channel capacities and any set of faults
(`SyncPipelineProofs`):

| Theorem | Says |
|---|---|
| `SyncTypeCorrect` | `TypeOK`, the capacities of the channels included |
| `SyncNeverLaunders` | `NoLaundering` |
| `SyncNeverSendsAfterClose` | `NoSendAfterClose`: only a cancelled sync can |
| `SyncWritesJustified` | at every moment a record is the old one, gone, or justified (`RecordJustified`) |
| `SyncMovesAreReal` | where no new file has a twin that is still there no move is mistaken (`NothingMistaken`) |
| `SyncReturnsClean` | a sync that returns without an error has no goroutine left (`ReturnsClean`) |
| `SyncNeverStuck` | until the sync has returned, the guard of some step is true (`NeverStuck`) |
| `SyncMirrors` | `SyncMirrorsDisk`, of a sync that is not disturbed |
| `SyncBalances` | `CounterBalance`, of the same |
| `SyncIsComplete` | `SyncComplete`, of the same (`Undisturbed`) |

The number of workers is at least one (scanner.go:60-63) and a drive has finitely many files
(`SizesAssumption`); nothing else is assumed of the sizes, and nothing of the faults. What the last three say
is said of a sync without a cancellation and without failing statements (`Undisturbed`), files and
directories that cannot be read remaining possible, and the condition is needed: without it TLC
refutes each of them, as `sync_cancel` does with `SyncComplete`. Justified are a record that was
there (`Kept`), one taken over from a path of the same size and mtime that is gone (`Moved`) or, by
mistake, still there (`Mistaken`), and a new one (`Added`), which there may be only if every such
path is still there. `SyncMirrors` therefore does not say that a move is a move: `SyncMovesAreReal` does,
of drives without duplicates, and `sync_moves` shows that duplicates are enough to break it.

`NoLaundering` is about the table and not inductive: the hash that would break it is on its way
long before. `Travelling` follows it: every item in `work` or in a worker's hands has the known
hash of its path, every result for an unchanged file the recorded hash, and every pending change
of an unchanged file is its old record. `EndInv` is the argument for
`SyncNeverSendsAfterClose` and its neighbours: the collector gets past `AwaitWalker` only when the
walker is done, and without a cancellation there is no other way to return once the walker has
started.

`SyncMirrors` follows a file from the walker to its record. `NoneLost` says where a file that was
seen is: on its way (`InItem`, `InWork`, `InHand`, `InResults`, `InChange`) or `Settled`, with a
record or an error. When the
channels are closed and empty (`Drained`) the stages are, too, so that only `Settled` remains.
`RecordsJustified` is the other direction, that each record stems from the file and the old
records; the case of a move is where the argument is delicate, since `findMovedFile` may pick the record of
a file that exists and is on its way: its record is deleted, and made again by the file's own
result, which has to come later (the last lines of `RecordsJustified`). `Sweeping` ties the sweep to the paths
it still has to look at. `SyncBalances` adds that no path is in two places or twice in one
(`Distinct`), so that each result is counted once, and `Counting`: unless a file was unreadable,
added and moved are the new files collected so far (`NewFiles`), and what the sweep has removed
and has still to remove are the records left over (`Leftover`). `SyncNeverStuck` is the part of `SyncReturns` that does not speak of fairness: it
rules out that the walker waits for room in `work`, each worker for room in `results` and the
collector for a result, or the walker's end, at once; under fairness TLC shows the rest.

For any drives, requests, clients, channel capacities and number of operations
(`RunServerProofs`):

| Theorem | Says |
|---|---|
| `ServerTypeCorrect` | `ServerTypeOK`, the capacities of the channels included |
| `OneOperationAtATime` | `OneOperation` |
| `StatusNeverStale` | `StatusIsLatest` |
| `EventsStayInOrder` | `InOrder` |
| `ServerDrainsChannels` | the channel of an operation is closed only when no drive works for it, and its forwarder ends only when it is closed and empty (`ChannelsDrained`) |

`OneOperation` speaks of drives being processed; that the flag protects them follows only once
the flag is tied to the operation that set it (`Flag`) and a drive that waits or is active to an
operation that has not published yet (`Waited`). `Latest` is the first half of `StatusIsLatest`;
the second follows from `Waited`. `EventsStayInOrder` looks at what is in a client's channel, in
the hub's hands, with a forwarder and in an operation's channel as one stream (`Before`, `HeldBy`,
`Stream`), which each step passes on or shortens. That the streams of two operations on one drive
do not mix needs more than `Flag`: an old forwarder may go on after its operation, and `Sorted`
says that whatever it still holds was issued before any event of the next; `Unborn` and `Tagged`
say whose events a channel can hold.

For any files and quotas (`ScrubRotationProofs`):

| Theorem | Says |
|---|---|
| `ScrubTypeCorrect` | `ScrubTypeOK`; a run selects only files with a record |
| `WaitIsBounded` | `BoundedWait`, which speaks of the rotation without an age filter (`minAge = 0`) |

The argument of `WaitIsBounded` counts the files that have passed a waiting one: `Passed` is a set
of other, younger files, verified since it was, and every run that does not select the file takes
none of them and adds at least `n - MaxBad`, as only bad files keep their place (`FewBad`) and a
run with a stop is charged to the stop. Since the set never holds the file itself, its size stays
below the number of files. The invariant has one form for the time between runs (`BetweenRuns`)
and one for each moment of a run (`DuringRun`, `InRun`), which is needed because a file may turn
bad, or be restored, between its selection and its check. The bound on ages does not help: where
`MaxAge` leaves no room for the argument (`Room`) the property holds because waits stop at
`MaxAge`, and it is proved for every `MaxAge`. The proof corrected the property: it used to charge
a stop with one slot, and TLC, asked about three files, a quota of 100 percent and three stops,
found that a lost check of the file itself costs it a whole run.

For any target paths, mounts, devices and numbers of workers (`DriveWorkersProofs`):

| Theorem | Says |
|---|---|
| `DriveTypeCorrect` | `DrivesTypeOK` |
| `DeviceIsFound` | `DeepestMatch` |
| `WorkersOfSeparateDisks` | `OneWorkerPerDisk`, if `Separate` |

Nothing is assumed of the names: that the texts of the mount points tell what holds the drive
(`TextsAgree`) and that the drive's own device is mounted once and not covered (`MountedOnce`) are
conditions of `DeepestMatch`, on the table at hand and for the drive at hand, so that the other
lines may be doubled, remote or misleading about other drives. Each is needed, and TLC refutes the
property without it. `Separate` is what it takes besides for "1 worker per physical disk": a disk
that `/sys/block` lists, and no second drive on it. What a drive has is what `Detect` gave it
(`Detected`); the line of its own device is the one the map keeps (`OwnLine`), and the longest text
that matches is then the deepest mount point (`FoundIsOn`).

For any drives, trees of directories, queue lengths and outcomes of runs (`MainProofs`):

| Theorem | Says |
|---|---|
| `MainTypeCorrect` | `MainTypeOK`, the capacity of the event queue included |
| `TimerNotLost` | `PendingHasTimer` |
| `NoDirOverlooked` | `WatchedOrAnnounced` |
| `NoChangeForgotten` | `NothingForgotten` |
| `ReportsAreTrue` | `ReportTruthful` |
| `ExitCodeIsTrue` | `ExitTruthful` |

The first four come from one invariant, `WatcherInv`. `NothingForgotten` needs
`WatchedOrAnnounced`: a change in a directory that is not watched yet is heard of only because the
event of a directory above it is still queued, and that event will make its drive pending; it
needs `Rooted` as well, since a queued directory may be gone by the time it is looked at, and what
is below a place that exists exists too. The targets include those below a name with a dot:
they are not forgotten either, but handed to a callback that can do nothing with them. Facts about the queue are stated on the set of its
elements (`Elems`). The reports need `RunInv`: a drive of the run in progress is, once it has
ended, as its result says (`Settled`), every other drive as its last report says (`Reported`). Rot of
an earlier run (`"before"`) goes with a failure, which is why a report that covers it is mailed.

For any ids, entries, requests and failures, and any callers, capacities and delays
(`StoresProofs`):

| Theorem | Says |
|---|---|
| `SchedTypeCorrect` | `SchedTypeOK` |
| `PostsLostOnlyToChecks` | what was posted last is what the store holds, unless a check that found the id due was under way (`LostOnlyToCheck`) |
| `TriggeredOncePerTick` | `OncePerTick` |
| `FileHoldsStore` | `FileIsMemory` |
| `RetryTypeCorrect` | `RetryTypeOK`, the capacity and the cap of a day included |
| `BackoffIsKept` | `BackoffKept` |

`Locked` ties the lock to the entry being saved; `Ordered` says that a tick in the channel is
later than every check before it, and that an id in the snapshot has not been triggered for this
check; `Kept` adds to `LostOnlyToCheck` the entries of the snapshot that are still to be put back,
which must agree with what was posted last. `PostKept` itself is false (`post_lost`); the theorem
says that there is no other way to lose a POST. `Rested` of the retry queue says that what is
left of the wait and what has passed add up to the delay. `PowerAssumption` states two facts of
arithmetic about powers of two that the provers lack; TLC evaluates it.

Only model-checked: the properties under fairness (`SyncReturns`, `GoroutinesEnd`,
`RotReported`, `ScrubVerifies`, `OperationEnds`, `ForwardersEnd`, `ChangeSynced`,
`StopsOnCancel`, `TickHandled`, `ComesBack`), which are beyond the prover; `SyncNeverStuck`,
`SyncReturnsClean`, `ServerDrainsChannels` and `WaitIsBounded` are what is proved of the first of
them without fairness. Every safety invariant and every action property of the passing runs has a
theorem (`PartsTypeOK` one for each part). The theorems about a part are about its own
specification (`ScrubSpec`, `ServerSpec`, `SchedSpec`, `RetrySpec`, `DrivesSpec`), of which `Parts`
runs one. All assumptions on constants are named in the modules and evaluated by TLC.

## 5. What the models found

Each of the following is a run that fails, with the statement it contradicts in `PROJECT.json`.

- `swap_replay`: `Open` removes `-wal` and `-shm`, which never exist in the journal mode it
  selects, and not `bitrot.db.shadow-journal`, which does. After a crash inside a transaction
  the next `Open` copies production to the shadow, and SQLite writes the pages of the killed run's
  shadow over it: its effects appear in what is committed next, and effects of committed runs can
  vanish from it.
- `sync_cancel`: a context that is cancelled after the last check in the collector makes the
  remaining statements fail, upserts and deletions; `SyncDirectory` logs them, returns nil, and the
  run is committed.
- `sync_moves`: `findMovedFile` looks at `seenFiles` while the walker still fills it, so that a copy
  of a file that is collected before the walker has come to the file itself counts as moved from it.
  The record of the file is made anew by its own result: `SyncMirrorsDisk` holds, but the history has
  gone to the copy, and the counters speak of a move.
- `watch_feedback`: every transaction creates and removes `bitrot.db.shadow-journal` in the root of
  the drive. The watcher skips three names and not this one, so that each run starts the next.
- `watch_hidden`: a change below a name that starts with a dot is reported under its own path
  (watcher.go:175), at which there is no canary: the drive is not processed, and the mail says
  WARNING.
- `report`: errors with single files, in `SyncResult.Errors` and `ScrubResult.Errors`, do not count as
  a failure: a run that has nothing else is a SUCCESS and need not be mailed, although mailer.go:37-39
  speaks of runs without errors.
- `post_lost`: a `POST` between the snapshot of a check and its `Upsert` is undone, where
  docs/ui.md:275 promises that changes take effect.
- `drives`: `deviceForPath` compares texts, so that `/mnt/data2` is taken to be below the mount point
  `/mnt/data`, and a rotational disk may get `NumCPU` workers, or a fast one a single one, where
  drive.go:20 says "1 worker per physical disk". The same run fails in a second way, which takes a
  few steps more: the limit is made per target path, and the paths of one disk run together.

The same models show, without a run of their own:

- *Swap.* The shadow has one name. A second process on the drive truncates or unlinks the first
  one's file, and the rename promotes a file that the other is still writing to
  (`NeverModifiedInPlace` with two in `Proc`, two runs and five inodes), where
  docs/architecture.md:97-98 says that production "is never modified in place"; the cron table of
  docs/ops.md:105-112 starts two runs at 02:00.
- *Sync.* After a cancellation `SyncDirectory` may return while the walker goes on, and the walker's
  next event goes to a closed channel and panics, which `NoSendAfterClose` exempts. A deletion
  that fails in the sweep is counted as removed and committed (`SyncComplete` with the fault
  "db"); a directory that cannot be read loses the records of its files
  (`SyncMirrorsDisk` allows it: such files are not seen); a new file that has the size and mtime
  of a vanished record takes over its hash, whatever it contains (`Moved`); after a cancellation a
  worker may stay blocked in its send for ever (`GoroutinesEnd` exempts cancelled runs).
- *Scrub.* A file that fails its check keeps its `last_scrubbed` and is first in every following
  run; when as many files fail as a run selects, nothing else is verified (`ScrubVerifies`
  with three files, `Percent = 340` and `MaxBad = 1`). A mismatch found by a scrub that is
  cancelled later is dropped with the rest of its result (`StopScrub`).
- *Drives.* A device that is mounted twice is known by its last line only (`DeepestMatch` without
  `MountedOnce`); a mount point with a blank in its name begins no path (`TextsAgree`); a drive on a
  remote file system gets the workers of the local disk above it. `MaxWorkers` bounds the drives and
  the workers of each; their product is what may hash at once, although config.go:39 calls it "the
  upper bound on the number of concurrent hashing goroutines" and only coordinator.go:60 says "per
  drive".
- *Watch mode.* An overflow and a refused watch are logged and not made up for (`missed`, `blind`). A
  drive that failed is not tried again before it changes. The callback scrubs as well, where the
  README speaks of sync.
- *Scheduler.* A minute whose tick was dropped is not made up. A file torn by a crash is dropped
  without a word, and a failed write leaves memory and file apart (`behind`).
- *Retry queue.* Finished items are never removed: after `Cap` calls of `Add` the queue takes
  nothing more.

One hazard turned out not to be one: the walker does not skip the journal of the shadow either,
but reads the names of a directory before it passes on the first of its files, and the collector
writes only after that, so that the journal of its own run is never among them.

`RotReported` and `ScrubVerifies` are checked with and without an age filter; `BoundedWait` is stated
for the rotation without one only.

## 6. What is left

Proofs that would add most: a bound for the wait under an age filter; that rot is reported after a
bounded number of runs, as `WaitIsBounded` says of good files, for which the rotation would have
to count how long a file has been bad; the counterpart of `SyncNeverStuck` for the goroutines of
the server; a refinement of the sync, from its many goroutines to one step that compares the drive
with the table, of which `SyncMirrors` and `SyncBalances` are the substance.

Models that could be added: a rename of a directory in watch mode, whose watches keep the old
name; a root that is unmounted and mounted again while the watcher runs; the composition of
`Main` with `ShadowSwap`, so that the outcomes of a run are derived and not chosen.

Not modelled, and why:

- *settings*: the same lock and `WriteFile` as the schedule store, whose model shows what those
  do; nothing but the API reads the values.
- *config*, *domain*, flags and environment variables: values read once, types without behaviour.
- *mailer beyond the status*: the text of the mail and SMTP.
- *hasher beyond its errors*: BLAKE3 is a library.
- *api beyond operations, progress and schedule*: JSON and CSV handlers over committed databases;
  what they read is `ReaderSnapshot`.
- *dashboard*: presentation.
