--------------------------- MODULE MCBackupService ---------------------------
(***************************************************************************)
(* Small instances of BackupService.  An assignment of requests to ids is  *)
(* chosen in the .cfg by name.                                             *)
(***************************************************************************)
EXTENDS BackupService, TLC

CONSTANTS shop, crm      \* two databases; also the connections that reach them

Of(db, kind, verify) == [stem |-> db, conn |-> db, kind |-> kind, verify |-> verify]

\* One scheduled database; the older backup is verified, the newer one is not.
AskMixed == 1 :> Of(shop, "scheduled", TRUE) @@ 2 :> Of(shop, "scheduled", FALSE)

\* Everything is the same scheduled database.
AskSame2 == [b \in 1..2 |-> Of(shop, "scheduled", TRUE)]
AskSame3 == [b \in 1..3 |-> Of(shop, "scheduled", TRUE)]

=============================================================================
