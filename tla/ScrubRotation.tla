--------------------------- MODULE ScrubRotation ---------------------------
(***************************************************************************)
(* Successive scrub runs over one drive: GetFilesForScrub and              *)
(* UpdateScrubStatus of internal/storage/repository.go, ScrubFiles of      *)
(* internal/scanner/scanner.go, and the run of processDrive around them,   *)
(* which keeps what a scrub recorded or drops it.                          *)
(*                                                                         *)
(* The records are those of a fixed set of files.  last_scrubbed is used   *)
(* only to order and to filter, so it is kept as an age: the number of     *)
(* runs started since, up to MaxAge.  Runs are at least a second apart,    *)
(* the resolution of the column; a run's own updates may tie.  A file that *)
(* was never scrubbed is as old as can be, as NULL sorts first.            *)
(***************************************************************************)
EXTENDS Naturals, FiniteSets

CONSTANTS
    File,       \* the files with a record
    Percent,    \* SCRUB_PERCENTAGE
    Whole,      \* what all of them is: 100 when Percent is in percents, 1000 in tenths
    Filters,    \* SCRUB_FREQUENCY in runs, one of: 0 is "daily", no filter
    MaxAge,     \* bound: ages are not told apart beyond it
    MaxBad,     \* files that may be bad at the same time
    MaxStops    \* bound: cancellations, lost checks, failed runs, files restored
                \* while a run is under way

ASSUME FileAssumption == IsFiniteSet(File)
ASSUME RotationAssumption ==
    /\ Percent \in Nat /\ Whole \in Nat \ {0} /\ MaxAge \in Nat \ {0}
    /\ MaxBad \in Nat /\ MaxStops \in Nat
    /\ Filters \subseteq 0 .. MaxAge

VARIABLES
    minAge,     \* the filter that is set; it does not change
    content,    \* what a scrub of each file would find; a missing file is unreadable
    age,        \* last_scrubbed in the production database
    phase,      \* "idle" or "scrub"
    queue,      \* selected files yet to be checked
    validated,  \* files whose status this run has updated in the shadow
    mismatched, \* FilesCorrupted of this run
    reported,   \* FilesCorrupted of the last run that delivered its result
    wait,       \* history: completed runs a file has stayed good and unverified
    cancelled,  \* has the context of this run been cancelled?
    stops       \* how many of what MaxStops bounds there have been

runVars == <<phase, queue, validated, mismatched, cancelled>>
scrubVars == <<minAge, content, age, runVars, reported, wait, stops>>

Bad == {f \in File : content[f] # "good"}

ScrubTypeOK ==
    /\ minAge \in 0 .. MaxAge
    /\ content \in [File -> {"good", "rotten", "unreadable"}]
    /\ age \in [File -> 0 .. MaxAge]
    /\ phase \in {"idle", "scrub"}
    /\ queue \subseteq File /\ validated \subseteq File
    /\ mismatched \subseteq File /\ reported \subseteq File
    /\ wait \in [File -> 0 .. MaxAge]
    /\ cancelled \in BOOLEAN
    /\ stops \in 0 .. MaxStops

\* After the first sync nothing has been scrubbed yet.
ScrubInit ==
    /\ minAge \in Filters
    /\ content = [f \in File |-> "good"]
    /\ age = [f \in File |-> MaxAge]
    /\ phase = "idle" /\ queue = {} /\ validated = {} /\ mismatched = {} /\ reported = {}
    /\ wait = [f \in File |-> 0]
    /\ cancelled = FALSE /\ stops = 0

-----------------------------------------------------------------------------
\* The WHERE clause of the query.
Eligible == {f \in File : age[f] >= minAge}

\* max(1, int(k * percentage / 100)), at most k.  Where the code's float64 falls just
\* short of a whole number it takes one file less, as a smaller percentage would.
Quota(k) ==
    LET n == (k * Percent) \div Whole
        m == IF n < 1 THEN 1 ELSE n
    IN IF m > k THEN k ELSE m

\* A bug to catch: ORDER BY last_scrubbed DESC.
SelectionsNewest ==
    {s \in SUBSET Eligible :
        /\ Cardinality(s) = Quota(Cardinality(Eligible))
        /\ \A f \in s, g \in Eligible \ s : age[f] <= age[g]}

\* ORDER BY last_scrubbed ASC, then the first n: an oldest subset, ties broken anyhow.
Selections ==
    {s \in SUBSET Eligible :
        /\ Cardinality(s) = Quota(Cardinality(Eligible))
        /\ \A f \in s, g \in Eligible \ s : age[f] >= age[g]}

\* One run older.
Older(f) == IF age[f] = MaxAge THEN MaxAge ELSE age[f] + 1

\* processDrive opens the shadow and ScrubFiles selects its files.
BeginScrub ==
    /\ phase = "idle"
    /\ queue' \in Selections
    /\ age' = [f \in File |-> Older(f)]
    /\ phase' = "scrub" /\ validated' = {} /\ mismatched' = {}
    /\ UNCHANGED <<minAge, content, cancelled, reported, wait, stops>>

\* The head of the loop: the context is checked before every file.
Checking(f) ==
    /\ phase = "scrub" /\ ~cancelled /\ f \in queue
    /\ queue' = queue \ {f}

\* A file whose hash matches: UpdateScrubStatus.
Validate(f) ==
    /\ Checking(f) /\ content[f] = "good"
    /\ validated' = validated \cup {f}
    /\ UNCHANGED <<minAge, content, age, phase, mismatched, cancelled, reported, wait, stops>>

\* A bug to catch: the mismatch is logged and not listed.
MismatchUnlisted(f) ==
    /\ Checking(f) /\ content[f] = "rotten"
    /\ UNCHANGED <<minAge, content, age, phase, validated, mismatched, cancelled, reported, wait, stops>>

\* BIT ROT DETECTED: the file is listed, its status stays as it is.
Mismatch(f) ==
    /\ Checking(f) /\ content[f] = "rotten"
    /\ mismatched' = mismatched \cup {f}
    /\ UNCHANGED <<minAge, content, age, phase, validated, cancelled, reported, wait, stops>>

\* Not found, or not readable: an error line, the status stays as it is.
CheckFails(f) ==
    /\ Checking(f) /\ content[f] = "unreadable"
    /\ UNCHANGED <<minAge, content, age, phase, validated, mismatched, cancelled, reported, wait, stops>>

\* The context is cancelled while the file is hashed, or its status update fails:
\* an error is noted or logged, and the loop goes on.
CheckLost(f) ==
    /\ Checking(f)
    /\ stops < MaxStops /\ stops' = stops + 1
    /\ \/ content[f] \in {"good", "rotten"} /\ cancelled' = TRUE
       \/ content[f] = "good" /\ UNCHANGED cancelled
    /\ UNCHANGED <<minAge, content, age, phase, validated, mismatched, reported, wait>>

\* The loop ends, even if the context was cancelled during its last file: the
\* shadow is committed, the result goes to the report.
FinishScrub ==
    /\ phase = "scrub" /\ queue = {}
    /\ age' = [f \in File |-> IF f \in validated THEN 0 ELSE age[f]]
    /\ reported' = mismatched
    /\ wait' = [f \in File |-> IF f \in validated \/ content[f] # "good" THEN 0
                               ELSE IF wait[f] = MaxAge THEN MaxAge ELSE wait[f] + 1]
    /\ phase' = "idle" /\ validated' = {} /\ mismatched' = {} /\ cancelled' = FALSE
    /\ UNCHANGED <<minAge, content, queue, stops>>

CancelScrub ==
    /\ phase = "scrub" /\ ~cancelled
    /\ cancelled' = TRUE
    /\ stops < MaxStops /\ stops' = stops + 1
    /\ UNCHANGED <<minAge, content, age, phase, queue, validated, mismatched, reported, wait>>

\* The head of the loop under a cancelled context: ScrubFiles returns ctx.Err,
\* processDrive drops the result and rolls the shadow back.
StopScrub ==
    /\ phase = "scrub" /\ queue # {} /\ cancelled
    /\ phase' = "idle" /\ queue' = {} /\ validated' = {} /\ mismatched' = {} /\ cancelled' = FALSE
    /\ UNCHANGED <<minAge, content, age, reported, wait, stops>>

\* Every file has been checked, but the canary is gone or the commit fails: the
\* verified statuses are dropped with the shadow, the result is not.
LoseRun ==
    /\ phase = "scrub" /\ queue = {}
    /\ stops < MaxStops /\ stops' = stops + 1
    /\ reported' = mismatched
    /\ phase' = "idle" /\ validated' = {} /\ mismatched' = {} /\ cancelled' = FALSE
    /\ UNCHANGED <<minAge, content, age, queue, wait>>

\* A file rots, is deleted or becomes unreadable, and the user restores it, between
\* two runs or even while one is under way.
Decay(f) ==
    /\ content[f] = "good" /\ Cardinality(Bad) < MaxBad
    /\ \E c \in {"rotten", "unreadable"} : content' = [content EXCEPT ![f] = c]
    /\ wait' = [wait EXCEPT ![f] = 0]
    /\ UNCHANGED <<minAge, age, runVars, reported, stops>>

Restore(f) ==
    /\ content[f] # "good"
    /\ IF phase = "idle" THEN stops' = stops ELSE stops < MaxStops /\ stops' = stops + 1
    /\ content' = [content EXCEPT ![f] = "good"]
    /\ UNCHANGED <<minAge, age, runVars, reported, wait>>

ScrubStep ==
    \/ BeginScrub \/ FinishScrub \/ StopScrub
    \/ \E f \in File : Validate(f) \/ Mismatch(f) \/ CheckFails(f)

\* ScrubStep is what goes on by itself; the rest may happen or not.
ScrubNext ==
    \/ ScrubStep \/ CancelScrub \/ LoseRun
    \/ \E f \in File : CheckLost(f) \/ Decay(f) \/ Restore(f)

ScrubSpec == ScrubInit /\ [][ScrubNext]_scrubVars

-----------------------------------------------------------------------------
(* Properties. *)

\* Without an age filter and with fewer bad files than a run selects, every good
\* file is verified within as many completed runs as the slots left to good files
\* need to go round, while files rot, vanish and come back: bad files hold their
\* place at the head of the queue, the rest rotates behind them, and a lost check,
\* a cancellation, a failed run or a file that comes back in the middle of one
\* costs no more than the slots of one run.
BoundedWait ==
    LET n == Quota(Cardinality(File))
    IN minAge = 0 /\ n > MaxBad =>
         \A f \in File :
             wait[f] * (n - MaxBad) < Cardinality(File) + stops * (n - MaxBad)

\* A file that rots and stays rotten is reported by some run, cancelled runs and
\* other bad files notwithstanding, as long as a run selects more than can be bad.
RotReported ==
    \A f \in File : (content[f] = "rotten") ~> (content[f] # "rotten" \/ f \in reported)

\* Selected in least-recently-scrubbed order, all files are eventually verified:
\* a file that stays good is verified again and again.
EventuallyVerified ==
    \A f \in File : []<>(content[f] # "good" \/ f \in validated)
=============================================================================
