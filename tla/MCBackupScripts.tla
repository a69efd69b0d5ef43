--------------------------- MODULE MCBackupScripts ---------------------------
(***************************************************************************)
(* The server and a maintenance script, on the instances of MCBackupService *)
(***************************************************************************)
EXTENDS BackupScripts, TLC

CONSTANTS shop, crm

\* One scheduled backup of one database.
AskOne == [b \in 1..1 |-> [stem |-> shop, conn |-> shop, kind |-> "scheduled", verify |-> TRUE]]

=============================================================================
