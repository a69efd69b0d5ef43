-------------------------- MODULE MCVerifyRequests --------------------------
(* Backups and verify requests, on the instances of MCBackupService. *)
EXTENDS VerifyRequests, MCBackupService
=============================================================================
