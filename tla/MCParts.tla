------------------------------ MODULE MCParts ------------------------------
(* An instance of Parts. *)
EXTENDS Parts, MCScheduler, MCDriveWorkers

\* POST /api/sync and /api/scrub name all drives, /api/drives/{idx}/... one;
\* which one makes no difference.
SomeRequests == {Drive, {CHOOSE d \in Drive : TRUE}}
=============================================================================
