---------------------------- MODULE BackupLedger ----------------------------
(***************************************************************************)
(* What the backups table promises its readers (the dashboard, the backup  *)
(* list, the restore page): the life of one row, with no files, workers or *)
(* requests in sight.  A row is born running, ends as success or failed,   *)
(* may still turn from success to failed while the run that owns it is     *)
(* verifying its file, and may be deleted; failed and gone are for good,   *)
(* and an id is never used again (AUTOINCREMENT).                          *)
(***************************************************************************)
EXTENDS Naturals

CONSTANT MaxBackups         \* how many rows are ever created

VARIABLE phase              \* phase[b] : where row b is in its life

Ids == 1..MaxBackups
Phases == {"unborn", "running", "success", "failed", "gone"}

LedgerInit == phase = [b \in Ids |-> "unborn"]

Move(b, from, to) ==
    /\ phase[b] \in from
    /\ phase' = [phase EXCEPT ![b] = to]

\* Ids are handed out in order.
Begin(b)   == /\ \A a \in 1..(b - 1) : phase[a] # "unborn"
              /\ Move(b, {"unborn"}, "running")
Succeed(b) == Move(b, {"running"}, "success")
Fail(b)    == Move(b, {"running", "success"}, "failed")
Drop(b)    == Move(b, {"running", "success", "failed"}, "gone")

\* Start-up fails every row that was left running, all at once.
Interrupt ==
    phase' = [b \in Ids |-> IF phase[b] = "running" THEN "failed" ELSE phase[b]]

LedgerNext ==
    \/ \E b \in Ids : Begin(b) \/ Succeed(b) \/ Fail(b) \/ Drop(b)
    \/ Interrupt

LedgerSpec == LedgerInit /\ [][LedgerNext]_phase
=============================================================================
