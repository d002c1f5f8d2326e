------------------------------ MODULE AtomicDb ------------------------------
(***************************************************************************)
(* What the storage package promises of one drive's bitrot.db, with no     *)
(* shadow file, no directory entry and no crash in sight: the production   *)
(* database changes only when a run commits, a run commits at most once,   *)
(* and a commit adds that run's writes to what was there before.  The      *)
(* package comment puts it as "if the process is interrupted at any point  *)
(* before Commit [...] the production database remains unchanged".         *)
(***************************************************************************)
EXTENDS Naturals

CONSTANTS
    Run,        \* the runs of the tool on this drive
    WritesOf(_) \* the rows run r may write

VARIABLES
    db,         \* the rows of the production database
    committed   \* the runs whose Commit succeeded

avars == <<db, committed>>

AInit == db = {} /\ committed = {}

\* Commit of run r: its rows W, and the tables of the schema, join the database.
ACommit(r, W) ==
    /\ r \notin committed
    /\ db' = db \cup W
    /\ committed' = committed \cup {r}

ANext == \E r \in Run : \E W \in SUBSET WritesOf(r) : ACommit(r, W)

ASpec == AInit /\ [][ANext]_avars
=============================================================================
