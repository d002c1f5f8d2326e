-------------------------------- MODULE Parts --------------------------------
(***************************************************************************)
(* Five parts of the program, one at a time: the rotation of the scrub,    *)
(* the web server's operations, the schedule store with its Runner, the    *)
(* retry queue, and the drives of a run with their workers.                *)
(*                                                                         *)
(* They share no variable, and no call of the code leads from one of these *)
(* models to another: a behaviour of the program is any merge of one of    *)
(* each, so that what holds of each alone holds of all.  This module       *)
(* takes one part and leaves the others as they begin.                     *)
(***************************************************************************)
EXTENDS ScrubRotation, RunServer, Scheduler, RetryQueue, DriveWorkers

VARIABLE part   \* the part that is at work
partsVars == <<scrubVars, serverVars, schedVars, retryVars, drivesVars, part>>

\* The part that is not at work begins in one way.
Init ==
    /\ part \in {"scrub", "server", "schedule", "retries", "drives"}
    /\ ScrubInit /\ (part # "scrub" => minAge = CHOOSE m \in Filters : TRUE)
    /\ ServerInit /\ SchedInit /\ RetryInit
    /\ DrivesInit /\ (part # "drives" => table = <<>>)

Scrub(A) ==
    /\ part = "scrub" /\ A
    /\ UNCHANGED <<serverVars, schedVars, retryVars, drivesVars, part>>
Server(A) ==
    /\ part = "server" /\ A
    /\ UNCHANGED <<scrubVars, schedVars, retryVars, drivesVars, part>>
Schedule(A) ==
    /\ part = "schedule" /\ A
    /\ UNCHANGED <<scrubVars, serverVars, retryVars, drivesVars, part>>
Retries(A) ==
    /\ part = "retries" /\ A
    /\ UNCHANGED <<scrubVars, serverVars, schedVars, drivesVars, part>>
Drives(A) ==
    /\ part = "drives" /\ A
    /\ UNCHANGED <<scrubVars, serverVars, schedVars, retryVars, part>>

Next ==
    \/ Scrub(ScrubNext) \/ Server(ServerNext) \/ Schedule(SchedNext)
    \/ Retries(RetryNext) \/ Drives(DrivesNext)

Spec == Init /\ [][Next]_partsVars

\* What goes on by itself: scrubs are started again and again and, cancellations
\* aside, completed; in the server one goroutine or another that can go on does, and
\* processDrive returns (SyncReturns), while nobody has to request anything or to read
\* what is sent to it; a write of the schedule ends, or the Runner goes on; and a
\* minute passes for the retry queue.
Progress ==
    \/ Scrub(ScrubStep)
    \/ \E o \in Op : Server(OpStep(o)) \/ Server(ForwarderStep(o))
    \/ \E o \in Op, d \in Drive : Server(JobStep(o, d))
    \/ Schedule(StoreStep) \/ Schedule(CheckStep)
    \/ Retries(Pass)

FairSpec == Spec /\ WF_partsVars(Progress)

-----------------------------------------------------------------------------
(* Properties. *)

\* Every variable of a part keeps its type and its bound: a channel its capacity,
\* the queue its length, a delay its cap of a day.
PartsTypeOK == ScrubTypeOK /\ ServerTypeOK /\ SchedTypeOK /\ RetryTypeOK /\ DrivesTypeOK

\* Where scrubs are run.
ScrubVerifies == part = "scrub" => EventuallyVerified
=============================================================================
