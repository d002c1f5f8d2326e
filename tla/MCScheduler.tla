---------------------------- MODULE MCScheduler ----------------------------
(* Instances of Scheduler. *)
EXTENDS Scheduler

\* Entries for every minute of a day of two, and one that is disabled.
Post(on, kind, at) == [enabled |-> on, lastRun |-> 0, cron |-> [kind |-> kind, at |-> at]]
SomeBodies == {Post(FALSE, "@hourly", 0), Post(TRUE, "@weekly", 0), Post(TRUE, "HH:MM", 1)}
=============================================================================
