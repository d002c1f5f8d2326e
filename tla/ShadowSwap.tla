----------------------------- MODULE ShadowSwap -----------------------------
(***************************************************************************)
(* The shadow-database swap of one drive: storage.Open, Commit, Rollback   *)
(* and the readers of internal/storage/repository.go, driven by            *)
(* processDrive of internal/coordinator/coordinator.go.                    *)
(*                                                                         *)
(* The drive is a directory: the names bitrot.db and bitrot.db.shadow are  *)
(* bound to inodes or to nothing, and an open database is a handle on an   *)
(* inode, whatever its name has become since.  The content of a database   *)
(* is the set of the statements whose effect it holds: <<run, k>> is the   *)
(* k-th statement of a run, an INSERT, REPLACE, UPDATE or DELETE (k = 0    *)
(* inserts its run_history row), so that a deleted row that comes back and *)
(* an inserted row that goes are both an effect missing from the set.  A   *)
(* zero-length file is the empty set; Schema is the effect of createSchema.*)
(*                                                                         *)
(* A crash is the death of a process; the kernel and the disk survive.     *)
(***************************************************************************)
EXTENDS Naturals, FiniteSets

CONSTANTS
    Proc,               \* processes (or goroutines) that may run on the drive
    Reader,             \* dashboard requests that read the production DB
    Inode,              \* files that can exist at once
    NoFile,             \* a name bound to nothing, a handle not open
    MaxRuns,            \* bound: runs started
    MaxWrites,          \* bound: file-record writes of one run
    Exclusive,          \* TRUE: a run starts only when no other is active
    CrashInTransaction  \* TRUE: a crash may fall inside an SQLite transaction

ASSUME NoFileAssumption == NoFile \notin Inode
ASSUME BoundsAssumption == MaxRuns \in Nat /\ MaxWrites \in Nat
ASSUME SwitchAssumption == Exclusive \in BOOLEAN /\ CrashInTransaction \in BOOLEAN

Run == 1 .. MaxRuns
Schema == <<0, 0>>
Write == {Schema} \cup (Run \X (0 .. MaxWrites))
WritesOf(r) == {Schema} \cup ({r} \X (0 .. MaxWrites))

Working == {"work", "post", "history", "commit"}

VARIABLES
    prod,       \* inode of bitrot.db
    shadow,     \* inode of bitrot.db.shadow
    file,       \* file[i]: the statements whose effect inode i holds
    torn,       \* inodes with half-written pages: integrity_check rejects them
    journal,    \* the effects on the old pages in bitrot.db.shadow-journal, {} if none
    canary,     \* does .bitrot-canary exist?
    checksum,   \* the content whose checksum it holds; {} when it is empty
    pc,         \* where each process is in processDrive
    run,        \* its run
    fd,         \* its handle on the shadow
    src,        \* its handle on the production DB, while copying
    nwrites,    \* the writes its sync and scrub have issued
    sum,        \* the checksum it is about to store
    started,    \* runs started so far
    acked,      \* the writes whose caller saw no error
    committed,  \* the runs whose Commit returned nil
    rd,         \* each reader's handle on the production DB
    snap,       \* the rows that were in the database when the reader opened it
    litter,     \* history: a failure since the last Open may have left a shadow
    unsealed    \* history: a failure since the last canary write may have made it stale

dirVars == <<prod, shadow, file, torn, journal>>
canaryVars == <<canary, checksum>>
jobVars == <<run, nwrites, sum>>
handleVars == <<fd, src>>
logVars == <<started, acked, committed>>
readerVars == <<rd, snap>>
faultVars == <<litter, unsealed>>
sideVars == <<canaryVars, readerVars, faultVars>>
vars == <<dirVars, sideVars, pc, jobVars, handleVars, logVars>>

Rows(i) == IF i = NoFile THEN {} ELSE file[i]

\* Inodes that a name or a handle refers to; the others are free.
Live == {prod, shadow} \cup {fd[p] : p \in Proc} \cup {src[p] : p \in Proc}
            \cup {rd[r] : r \in Reader}

TypeOK ==
    /\ prod \in Inode \cup {NoFile}
    /\ shadow \in Inode \cup {NoFile}
    /\ file \in [Inode -> SUBSET Write]
    /\ torn \subseteq Inode
    /\ journal \subseteq Write
    /\ canary \in BOOLEAN
    /\ checksum \subseteq Write
    /\ pc \in [Proc -> {"idle", "clear", "create", "copy", "open", "sum",
                        "truncate", "seal", "rollback"} \cup Working]
    /\ run \in [Proc -> Run \cup {0}]
    /\ fd \in [Proc -> Inode \cup {NoFile}]
    /\ src \in [Proc -> Inode \cup {NoFile}]
    /\ nwrites \in [Proc -> 0 .. MaxWrites]
    /\ sum \in [Proc -> SUBSET Write]
    /\ started \in 0 .. MaxRuns
    /\ acked \subseteq Write
    /\ committed \subseteq Run
    /\ rd \in [Reader -> Inode \cup {NoFile}]
    /\ snap \in [Reader -> SUBSET Write]
    /\ litter \in BOOLEAN
    /\ unsealed \in BOOLEAN

\* A drive set up as the README says: an empty canary and no database.
Init ==
    /\ prod = NoFile /\ shadow = NoFile
    /\ file = [i \in Inode |-> {}]
    /\ torn = {} /\ journal = {}
    /\ canary = TRUE /\ checksum = {}
    /\ pc = [p \in Proc |-> "idle"]
    /\ run = [p \in Proc |-> 0]
    /\ fd = [p \in Proc |-> NoFile]
    /\ src = [p \in Proc |-> NoFile]
    /\ nwrites = [p \in Proc |-> 0]
    /\ sum = [p \in Proc |-> {}]
    /\ started = 0 /\ acked = {} /\ committed = {}
    /\ rd = [r \in Reader |-> NoFile]
    /\ snap = [r \in Reader |-> {}]
    /\ litter = FALSE /\ unsealed = FALSE

Go(p, label) == pc' = [pc EXCEPT ![p] = label]

-----------------------------------------------------------------------------
(* processDrive, one step per operation on the drive. *)

\* readCanary: without the file the run ends before the database is touched.
Start(p) ==
    /\ pc[p] = "idle"
    /\ Exclusive => \A q \in Proc : pc[q] = "idle"
    /\ started < MaxRuns
    /\ started' = started + 1
    /\ IF canary
       THEN /\ Go(p, "clear")
            /\ run' = [run EXCEPT ![p] = started + 1]
            /\ nwrites' = [nwrites EXCEPT ![p] = 0]
       ELSE UNCHANGED <<pc, run, nwrites>>
    /\ UNCHANGED <<sideVars, dirVars, handleVars, sum, acked, committed>>

\* A bug to catch: a leftover shadow is taken up where the last run left it.
ResumeShadow(p) ==
    /\ pc[p] = "clear"
    /\ Go(p, IF shadow = NoFile THEN "create" ELSE "open")
    /\ UNCHANGED <<sideVars, dirVars, jobVars, logVars, handleVars>>

\* Open removes a leftover shadow; a removal that fails is only logged.  The
\* -wal and -shm files removed with it never exist in DELETE journal mode.
RemoveStale(p) ==
    /\ pc[p] = "clear"
    /\ Go(p, "create")
    /\ shadow' \in {NoFile, shadow}
    /\ litter' = (litter /\ shadow' # NoFile)
    /\ UNCHANGED <<jobVars, logVars, canaryVars, handleVars, readerVars, prod, file, torn,
                   journal, unsealed>>

\* copyFile opens bitrot.db, if there is one, and creates or truncates the shadow.
CreateShadow(p) ==
    /\ pc[p] = "create"
    /\ \E i \in IF shadow = NoFile THEN Inode \ Live ELSE {shadow} :
         /\ shadow' = i
         /\ fd' = [fd EXCEPT ![p] = i]
         /\ file' = [file EXCEPT ![i] = {}]
         /\ torn' = torn \ {i}
    /\ src' = [src EXCEPT ![p] = prod]
    /\ Go(p, "copy")
    /\ UNCHANGED <<sideVars, jobVars, logVars, prod, journal>>

\* os.Open or os.Create fails: Open returns the error, there is nothing to undo.
CreateShadowFails(p) ==
    /\ pc[p] = "create"
    /\ Go(p, "idle")
    /\ UNCHANGED <<sideVars, dirVars, jobVars, logVars, handleVars>>

\* io.Copy and Sync, then both handles are closed.
Copy(p) ==
    /\ pc[p] = "copy"
    /\ file' = [file EXCEPT ![fd[p]] = Rows(src[p])]
    /\ torn' = IF src[p] \in torn THEN torn \cup {fd[p]} ELSE torn
    /\ fd' = [fd EXCEPT ![p] = NoFile]
    /\ src' = [src EXCEPT ![p] = NoFile]
    /\ Go(p, "open")
    /\ UNCHANGED <<sideVars, jobVars, logVars, prod, shadow, journal>>

\* The copy stops half way (a full disk): Open returns and leaves the torn shadow.
CopyFails(p) ==
    /\ pc[p] = "copy"
    /\ torn' = torn \cup {fd[p]}
    /\ fd' = [fd EXCEPT ![p] = NoFile]
    /\ src' = [src EXCEPT ![p] = NoFile]
    /\ litter' = TRUE
    /\ Go(p, "idle")
    /\ UNCHANGED <<jobVars, logVars, canaryVars, readerVars, prod, shadow, file, journal,
                   unsealed>>

\* What SQLite makes of a journal it finds beside a database it opens: on a
\* zero-length file it is dropped, otherwise its pages, whole and as they were
\* before the interrupted transaction of another shadow, are written over the
\* file's.  Where the two files differ, effects that these pages hold appear, and
\* effects whose page is replaced, or has moved, vanish.  (SQLite is a library,
\* its source is not under src/.)
Replayed(rows) ==
    IF rows = {} \/ journal \in {{}, rows} THEN {rows}
    ELSE {(rows \cup journal) \ gone : gone \in SUBSET (rows \cup journal)}

\* openSQLite opens the shadow by name (SQLite creates a missing file) and rolls
\* a journal back.  A file that was torn stays so, and a mixture of pages may be:
\* past integrity_check the content is one of those that hang together.
\* createSchema then makes the tables that are missing.
OpenSQLite(p) ==
    /\ pc[p] = "open"
    /\ shadow \notin torn
    /\ \E i \in IF shadow = NoFile THEN Inode \ Live ELSE {shadow} :
         /\ shadow' = i
         /\ fd' = [fd EXCEPT ![p] = i]
         /\ torn' = IF shadow = NoFile THEN torn \ {i} ELSE torn
         /\ \E rows \in Replayed(Rows(shadow)) :
              file' = [file EXCEPT ![i] = {Schema} \cup rows]
    /\ journal' = {}
    /\ Go(p, "work")
    /\ UNCHANGED <<sideVars, jobVars, logVars, prod, src>>

\* A pragma, integrity_check (of a torn file, or of the mixture that a replay made)
\* or createSchema fails: the shadow is removed by name, if that succeeds.
OpenSQLiteFails(p) ==
    /\ pc[p] = "open"
    /\ \/ shadow' = NoFile /\ UNCHANGED litter
       \/ shadow' = shadow /\ litter' = TRUE
    /\ journal' \in {{}, journal}
    /\ Go(p, "idle")
    /\ UNCHANGED <<jobVars, logVars, canaryVars, readerVars, handleVars, prod, file, torn,
                   unsealed>>

\* One statement through the handle; its caller sees success or an error.
Put(p, w) ==
    \/ /\ file' = [file EXCEPT ![fd[p]] = @ \cup {w}]
       /\ acked' = acked \cup {w}
    \/ UNCHANGED <<file, acked>>

\* UpsertFile, DeleteFile or UpdateScrubStatus; a failed one is only logged.
WriteRecord(p) ==
    /\ pc[p] = "work"
    /\ nwrites[p] < MaxWrites
    /\ nwrites' = [nwrites EXCEPT ![p] = @ + 1]
    /\ Put(p, <<run[p], nwrites[p] + 1>>)
    /\ UNCHANGED <<sideVars, handleVars, prod, shadow, torn, journal, pc, run, sum,
                   started, committed>>

\* Sync and scrub both returned nil.
WorkDone(p) ==
    /\ pc[p] = "work"
    /\ Go(p, "post")
    /\ UNCHANGED <<sideVars, dirVars, jobVars, logVars, handleVars>>

\* A bug to catch: an error path without the deferred rollback.
WorkFailsBare(p) ==
    /\ pc[p] = "work"
    /\ Go(p, "idle")
    /\ UNCHANGED <<sideVars, dirVars, jobVars, logVars, handleVars>>

\* Sync or scrub returned an error, a cancelled context included.
WorkFails(p) ==
    /\ pc[p] = "work"
    /\ Go(p, "rollback")
    /\ UNCHANGED <<sideVars, dirVars, jobVars, logVars, handleVars>>

\* The canary post-check: os.Stat of the canary.
PostCheck(p) ==
    /\ pc[p] = "post"
    /\ Go(p, IF canary THEN "history" ELSE "rollback")
    /\ UNCHANGED <<sideVars, dirVars, jobVars, logVars, handleVars>>

\* A bug to catch: the row is filed under the run that will start next.
InsertNextRunHistory(p) ==
    /\ pc[p] = "history"
    /\ Put(p, <<started + 1, 0>>)
    /\ Go(p, "commit")
    /\ UNCHANGED <<sideVars, jobVars, handleVars, prod, shadow, torn, journal, started,
                   committed>>

\* InsertRunHistory; its failure is only logged.
InsertRunHistory(p) ==
    /\ pc[p] = "history"
    /\ Put(p, <<run[p], 0>>)
    /\ Go(p, "commit")
    /\ UNCHANGED <<sideVars, jobVars, handleVars, prod, shadow, torn, journal, started,
                   committed>>

\* A bug to catch: the shadow is copied over bitrot.db instead of renamed.
CommitByCopy(p) ==
    /\ pc[p] = "commit"
    /\ shadow # NoFile
    /\ prod' = IF prod = NoFile THEN shadow ELSE prod
    /\ file' = [file EXCEPT ![prod'] = file[shadow]]
    /\ shadow' = NoFile
    /\ fd' = [fd EXCEPT ![p] = NoFile]
    /\ committed' = committed \cup {run[p]}
    /\ Go(p, "sum")
    /\ UNCHANGED <<sideVars, jobVars, torn, journal, src, started, acked>>

\* Commit: close the handle and rename bitrot.db.shadow to bitrot.db, by name.
Commit(p) ==
    /\ pc[p] = "commit"
    /\ shadow # NoFile
    /\ prod' = shadow
    /\ shadow' = NoFile
    /\ fd' = [fd EXCEPT ![p] = NoFile]
    /\ committed' = committed \cup {run[p]}
    /\ Go(p, "sum")
    /\ UNCHANGED <<sideVars, jobVars, file, torn, journal, src, started, acked>>

\* Close or Rename fails; the deferred Rollback follows.
CommitFails(p) ==
    /\ pc[p] = "commit"
    /\ fd' = [fd EXCEPT ![p] = NoFile]
    /\ Go(p, "rollback")
    /\ UNCHANGED <<sideVars, dirVars, jobVars, logVars, src>>

\* Rollback: close the handle and remove the shadow by name.
Rollback(p) ==
    /\ pc[p] = "rollback"
    /\ fd' = [fd EXCEPT ![p] = NoFile]
    /\ \/ shadow' = NoFile /\ UNCHANGED litter
       \/ shadow' = shadow /\ litter' = TRUE
    /\ Go(p, "idle")
    /\ UNCHANGED <<jobVars, logVars, canaryVars, readerVars, prod, file, torn, journal,
                   unsealed, src>>

\* A bug to catch: the checksum is taken before the history row is inserted.
ComputeChecksumEarly(p) ==
    /\ pc[p] = "sum"
    /\ sum' = [sum EXCEPT ![p] = Rows(prod) \ {<<run[p], 0>>}]
    /\ Go(p, "truncate")
    /\ UNCHANGED <<sideVars, dirVars, logVars, handleVars, run, nwrites>>

\* ComputeChecksumFile of bitrot.db after the commit.
ComputeChecksum(p) ==
    /\ pc[p] = "sum"
    /\ sum' = [sum EXCEPT ![p] = Rows(prod)]
    /\ Go(p, "truncate")
    /\ UNCHANGED <<sideVars, dirVars, logVars, handleVars, run, nwrites>>

\* writeCanary, first half: os.WriteFile creates or truncates the canary.
TruncateCanary(p) ==
    /\ pc[p] = "truncate"
    /\ canary' = TRUE
    /\ checksum' = {}
    /\ Go(p, "seal")
    /\ UNCHANGED <<dirVars, jobVars, logVars, handleVars, readerVars, faultVars>>

\* writeCanary, second half; the run is over.
WriteCanary(p) ==
    /\ pc[p] = "seal"
    /\ checksum' = IF canary THEN sum[p] ELSE checksum
    /\ unsealed' = FALSE
    /\ Go(p, "idle")
    /\ UNCHANGED <<dirVars, jobVars, logVars, handleVars, readerVars, canary, litter>>

\* Hashing bitrot.db or writing the canary fails: logged, and the run is over.
SealFails(p) ==
    /\ pc[p] \in {"sum", "truncate", "seal"}
    /\ unsealed' = TRUE
    /\ Go(p, "idle")
    /\ UNCHANGED <<dirVars, jobVars, logVars, canaryVars, handleVars, readerVars, litter>>

-----------------------------------------------------------------------------
(* Readers, the user and the kernel. *)

\* GetRunHistoryForPath, GetRunsByIDs, GetCorruptionHistory: a request opens
\* bitrot.db by name, and reads it until it closes its handle.
ReaderOpen(r) ==
    /\ rd[r] = NoFile
    /\ prod # NoFile
    /\ rd' = [rd EXCEPT ![r] = prod]
    /\ snap' = [snap EXCEPT ![r] = file[prod]]
    /\ UNCHANGED <<dirVars, jobVars, logVars, canaryVars, handleVars, faultVars, pc>>

ReaderClose(r) ==
    /\ rd[r] # NoFile
    /\ rd' = [rd EXCEPT ![r] = NoFile]
    /\ snap' = [snap EXCEPT ![r] = {}]
    /\ UNCHANGED <<dirVars, jobVars, logVars, canaryVars, handleVars, faultVars, pc>>

\* The mount disappears or the user deletes the canary; the user touches it again.
CanaryVanishes ==
    /\ canary
    /\ canary' = FALSE
    /\ checksum' = {}
    /\ UNCHANGED <<dirVars, jobVars, logVars, handleVars, readerVars, faultVars, pc>>

CanaryTouched ==
    /\ ~canary
    /\ canary' = TRUE
    /\ UNCHANGED <<dirVars, jobVars, logVars, handleVars, readerVars, faultVars, checksum,
                   pc>>

\* The process dies: its handles close, nothing it deferred runs.  Inside an
\* SQLite transaction the shadow is left torn, with its journal beside it.
Crash(p) ==
    /\ pc[p] # "idle"
    /\ Go(p, "idle")
    /\ fd' = [fd EXCEPT ![p] = NoFile]
    /\ src' = [src EXCEPT ![p] = NoFile]
    /\ litter' = TRUE
    /\ unsealed' = TRUE
    /\ \/ pc[p] = "copy" /\ torn' = torn \cup {fd[p]} /\ UNCHANGED journal
       \/ /\ CrashInTransaction /\ pc[p] \in {"work", "history"}
          /\ torn' = torn \cup {fd[p]}
          /\ journal' = file[fd[p]]
       \/ pc[p] # "copy" /\ UNCHANGED <<torn, journal>>
    /\ UNCHANGED <<jobVars, logVars, canaryVars, readerVars, prod, shadow, file>>

ProcStep(p) ==
    \/ RemoveStale(p) \/ CreateShadow(p) \/ CreateShadowFails(p)
    \/ Copy(p) \/ CopyFails(p) \/ OpenSQLite(p) \/ OpenSQLiteFails(p)
    \/ WriteRecord(p) \/ WorkDone(p) \/ WorkFails(p)
    \/ PostCheck(p) \/ InsertRunHistory(p) \/ Commit(p) \/ CommitFails(p)
    \/ Rollback(p) \/ ComputeChecksum(p) \/ TruncateCanary(p)
    \/ WriteCanary(p) \/ SealFails(p)

Next ==
    \/ \E p \in Proc : Start(p) \/ ProcStep(p) \/ Crash(p)
    \/ \E r \in Reader : ReaderOpen(r) \/ ReaderClose(r)
    \/ CanaryVanishes \/ CanaryTouched

Spec == Init /\ [][Next]_vars

-----------------------------------------------------------------------------
(* Properties. *)

AtRest == \A p \in Proc : pc[p] = "idle"

\* The production database holds exactly the effects acknowledged to the runs that
\* committed: a rolled-back, cancelled or crashed run leaves none of its effects
\* behind, however far it got, and no later run drops a committed one.
ProdIsCommittedRuns ==
    Rows(prod) = IF prod = NoFile THEN {}
                 ELSE {Schema} \cup {w \in acked : w[1] \in committed}

\* A dashboard request that has opened bitrot.db reads one committed database to
\* its end: runs that commit meanwhile rename a new file into place.
ReaderSnapshot ==
    \A r \in Reader : rd[r] # NoFile => file[rd[r]] = snap[r] /\ rd[r] \notin torn

\* Between runs a stored checksum is the one of bitrot.db, unless a crash or a
\* failed canary write came after the last successful canary write: the
\* mismatch warning of processDrive means an interrupted run or a changed file.
CanaryMatches ==
    (AtRest /\ checksum # {} /\ ~unsealed) => checksum = Rows(prod)

\* Between runs there is no bitrot.db.shadow, unless a crash, a failed copy or a
\* failed removal left it there: every error path of a run rolls back.
NoStaleShadow == (AtRest /\ shadow # NoFile) => litter

\* The file that is bitrot.db is never written to: it is replaced by renaming.
NeverModifiedInPlace ==
    [][prod # NoFile =>
         /\ file'[prod] = file[prod]
         /\ (prod \in torn') = (prod \in torn)]_vars

\* Seen through bitrot.db alone the swap is the atomic database: every step of
\* every process either commits one run as a whole or changes nothing.
Abstract == INSTANCE AtomicDb WITH db <- Rows(prod)
AtomicCommit == Abstract!ASpec
=============================================================================
