------------------------------- MODULE Main -------------------------------
(***************************************************************************)
(* run of cmd/bit-rot-detector/main.go, without a flag ("once": process    *)
(* every drive, report, exit) and with -watch ("watch": the loop of        *)
(* Watcher, whose callback processes and reports the drives that changed). *)
(* The conversions of coordinator.go and SendUnifiedReport of mailer.go    *)
(* make the report.  How a drive is processed is in ShadowSwap and         *)
(* SyncPipeline; here it gets as far as some stage, for whatever reason.   *)
(***************************************************************************)
EXTENDS Watcher

CONSTANTS
    NotifyOnSuccess,    \* cfg.Email.NotifyOnSuccess
    None                \* no result, no report, no exit code yet

ASSUME NotifyAssumption == NotifyOnSuccess \in BOOLEAN

VARIABLES
    mode,       \* "once" or "watch"
    outcome,    \* the result of each target of the run in progress, None before it ends
    exit,       \* the exit code, once there is one
    (* For the properties. *)
    failed,     \* drives whose last run was not committed
    rot,        \* whether a drive's last run found rot ("now"), or the last that scrubbed
                \* it to the end did ("before"), or that one did not ("none")
    told        \* the last report that covered the drive: its status and whether it was mailed

mainVars == <<mode, outcome, exit, failed, rot, told>>
allVars == <<vars, mainVars>>

\* What processDrive fails at ("scan": the sync or the scrub); "done": the
\* shadow is committed.
Stage == {"canary", "open", "scan", "postcheck", "commit", "done"}
Scrubbed == {"postcheck", "commit", "done"}
\* How far it got, and whether the scrub returned corrupted files, and the sync
\* or the scrub a list of errors with single files.
Outcome == {o \in [stage : Stage, rot : BOOLEAN, files : BOOLEAN] :
    /\ o.rot => o.stage \in Scrubbed
    /\ o.files => o.stage \notin {"canary", "open"}}
\* The tool's own files that it writes.  The journal beside the shadow comes with a
\* row: a file's during the sync, the history's before the commit, and with the
\* tables of a new database.
OwnFiles(stage) ==
    CASE stage = "canary" -> {<<>>}
      [] stage = "open" -> {<<>>, <<"db">>, <<"journal", "db">>}
      [] stage \in {"scan", "postcheck"} -> {<<"db">>, <<"journal", "db">>}
      [] OTHER -> {<<"journal", "db">>}

\* DriveResult: whether Err is set, ScrubResult is there and has FilesCorrupted, and
\* SyncResult or ScrubResult is there and has Errors.
Result == [err : BOOLEAN, corrupted : BOOLEAN, files : BOOLEAN]

Status == {"SUCCESS", "WARNING", "CRITICAL"}

MainTypeOK ==
    /\ TypeOK
    /\ mode \in {"once", "watch"}
    /\ outcome \in [Target -> Result \cup {None}]
    /\ exit \in {0, 1, None}
    /\ failed \subseteq Root /\ rot \in [Root -> {"none", "now", "before"}]
    /\ told \in [Root -> [status : Status, mailed : BOOLEAN] \cup {None}]

ASSUME NoneAssumption ==
    None \notin Result \cup [status : Status, mailed : BOOLEAN] \cup {0, 1}

\* Nobody watches in mode "once", and run calls the coordinator at once.
OnceInit ==
    /\ mode = "once" /\ pc = "call" /\ changed = {Drive(r) : r \in Root}
    /\ exists = {} /\ watched = {} /\ blind = Place
    /\ queue = <<>> /\ pending = {} /\ timer = "off"
    /\ cancelled = FALSE /\ stale = {} /\ missed = {} /\ nchanges = 0

MainInit ==
    /\ OnceInit \/ (mode = "watch" /\ Init)
    /\ outcome = [t \in Target |-> None] /\ exit = None
    /\ failed = {} /\ rot = [r \in Root |-> "none"] /\ told = [r \in Root |-> None]

-----------------------------------------------------------------------------
(* The results of a run. *)

\* What processDrive returns: with an error unless it is done; with the scrub's
\* result if the scrub returned one, whatever failed later.
DriveResult(o) == [err |-> o.stage # "done", corrupted |-> o.rot, files |-> o.files]

CollectErrors(results) == {t \in DOMAIN results : results[t].err}
HasBitRot(results) == \E t \in DOMAIN results : results[t].corrupted

\* A bug to catch: an error hides the rot found in the same run.
ErrorsFirst(results) ==
    IF CollectErrors(results) # {} THEN "WARNING"
    ELSE IF HasBitRot(results) THEN "CRITICAL" ELSE "SUCCESS"

ReportStatus(results) ==
    IF HasBitRot(results) THEN "CRITICAL"
    ELSE IF CollectErrors(results) # {} THEN "WARNING" ELSE "SUCCESS"

\* SendUnifiedReport, which goes by errors and corrupted files; what SMTP does
\* with the mail is not modelled.
Report(results) ==
    LET status == ReportStatus(results)
    IN [status |-> status, mailed |-> status # "SUCCESS" \/ NotifyOnSuccess]

\* A bug to catch: rot alone does not make the exit code non-zero.
ExitOnErrors(results) == IF CollectErrors(results) # {} THEN 1 ELSE 0

ExitCode(results) == IF CollectErrors(results) # {} \/ HasBitRot(results) THEN 1 ELSE 0

-----------------------------------------------------------------------------
(* The run. *)

\* processDrive of one target; at a path that is no drive there is no canary.
\* Its context may be cancelled, which fails the sync or the scrub.
EndDrive(t, o) ==
    /\ pc = "call" /\ t \in changed /\ outcome[t] = None
    /\ t.hidden => o.stage = "canary"
    /\ outcome' = [outcome EXCEPT ![t] = DriveResult(o)]
    /\ IF t.hidden THEN UNCHANGED <<failed, rot>>
       ELSE /\ failed' = IF o.stage = "done" THEN failed \ {t.root} ELSE failed \cup {t.root}
            /\ rot' = [rot EXCEPT ![t.root] =
                  IF o.rot THEN "now" ELSE IF o.stage \in Scrubbed \/ @ = "none" THEN "none"
                  ELSE "before"]
    /\ \E own \in OwnFiles(o.stage) : Writes(t.root, own)
    /\ UNCHANGED <<exists, watched, loopVars, cancelled, stale, missed, blind, nchanges,
                   mode, exit, told>>

\* Every drive is processed; the report is made and mailed.  In mode "once" the
\* process exits; in mode "watch" the callback returns: a drive that failed is
\* not tried again before it changes again.
EndRun ==
    LET results == [t \in changed |-> outcome[t]]
    IN /\ \A t \in changed : outcome[t] # None
       /\ Return(IF mode = "once" THEN "ended" ELSE "select")
       /\ told' = [r \in Root |-> IF Drive(r) \in changed THEN Report(results) ELSE told[r]]
       /\ exit' = IF mode = "once" THEN ExitCode(results) ELSE exit
       /\ outcome' = [t \in Target |-> None]
       /\ UNCHANGED <<mode, failed, rot>>

\* Watch mode was stopped: exit code 0.
StopWatching == Stop /\ exit' = 0 /\ UNCHANGED <<mode, outcome, failed, rot, told>>

Ended == pc = "ended" /\ UNCHANGED allVars

MainNext ==
    \/ Users /\ UNCHANGED mainVars
    \/ Loop /\ UNCHANGED mainVars
    \/ Tick /\ UNCHANGED mainVars
    \/ Cancel /\ UNCHANGED mainVars
    \/ \E t \in Target, o \in Outcome : EndDrive(t, o)
    \/ EndRun
    \/ StopWatching
    \/ Ended

Spec == MainInit /\ [][MainNext]_allVars

\* What goes on by itself: the loop's goroutine, with the drives it has processed to
\* an end, and when it waits, the time.
Progress ==
    \/ (Loop \/ Tick) /\ UNCHANGED mainVars
    \/ EndRun \/ \E t \in Target, o \in Outcome : EndDrive(t, o)

\* Where several cases are ready select picks one at random, so that the cancelled
\* context is picked if it is ready again and again.
FairSpec == Spec /\ WF_allVars(Progress) /\ SF_allVars(StopWatching)

-----------------------------------------------------------------------------
(* Properties. *)

\* Between two runs the last report of a drive, as a whole, is no better than its
\* state: one whose last run failed, or in which the last complete scrub found
\* rot, was reported by mail and not as SUCCESS; rot that the last run itself found
\* made the report CRITICAL, whatever else went wrong, there or on other drives.
ReportTruthful ==
    pc # "call" => \A r \in Root :
        /\ r \in failed \/ rot[r] # "none" =>
              told[r] # None /\ told[r].mailed /\ told[r].status # "SUCCESS"
        /\ rot[r] = "now" => told[r].status = "CRITICAL"

\* "Failure/corruption emails are always sent" (mailer.go:38-39), an email that may
\* be left out belongs to a run "without errors or corruption": also the errors
\* with single files, which a sync or a scrub lists in its result, are mailed.
ErrorsMailed ==
    changed # {} /\ (\A t \in changed : outcome[t] # None) =>
        \/ Report([t \in changed |-> outcome[t]]).mailed
        \/ \A t \in changed : ~(outcome[t].err \/ outcome[t].corrupted \/ outcome[t].files)

\* Whoever runs the tool from cron learns from its exit code alone whether every
\* drive was committed and found clean.
ExitTruthful == mode = "once" /\ pc = "ended" =>
    exit = IF failed = {} /\ \A r \in Root : rot[r] = "none" THEN 0 ELSE 1

\* A change is followed by a run of its drive, however it falls between events,
\* ticks and runs, unless the watcher logged that it lost sight of it.
ChangeSynced ==
    \A r \in Root : (Drive(r) \in stale) ~> (Drive(r) \notin stale \/ r \in missed \/ cancelled)

\* "When a file is created, modified, or removed under a watched directory tree, the
\* watcher triggers a resync" (watcher.go:1-4): each change, those below a name with
\* a dot included, is followed by a run of its drive, unless a loss was logged.
EveryChangeSynced ==
    \A t \in Target : (t \in stale) ~> (Drive(t.root) \in changed \/ t.root \in missed \/ cancelled)

\* Watch mode ends when it is told to, even if its own writes keep it busy.
StopsOnCancel == cancelled ~> (pc = "ended")

\* After the users' last change the drives come to rest: what a sync writes to
\* the tool's own files does not start the next one.
ComesToRest == <>[](pc # "call")
=============================================================================
