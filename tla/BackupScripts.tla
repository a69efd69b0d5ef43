---------------------------- MODULE BackupScripts ----------------------------
(***************************************************************************)
(* BackupService beside the maintenance scripts (scripts/*.py).  A script  *)
(* is a second process on the same database and files, and begins with     *)
(* create_app, whose init_database is the server's own start-up; a server  *)
(* that is running meanwhile keeps its threads.                            *)
(***************************************************************************)
EXTENDS BackupService

\* create_app in a script's process.
ScriptStart ==
    /\ rows' = Interrupted
    /\ UNCHANGED <<nextId, disk, parts, clock, up, pc, locals, deleting>>

ScriptNext == Next \/ ScriptStart

ScriptSpec == Init /\ [][ScriptNext]_vars

\* What start-up fails was "Interrupted by application restart": a running row
\* becomes failed only by its own run, or after its run has ended with the
\* process that ran it.
OnlyInterruptedRunsAreFailed ==
    [][\A b \in Ids :
          rows[b].status = "running" /\ rows'[b].status = "failed" =>
              pc[b] \in {"mark", "dead"}]_vars

=============================================================================
