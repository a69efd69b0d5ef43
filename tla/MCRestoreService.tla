-------------------------- MODULE MCRestoreService --------------------------
(* Small instances of RestoreService: one backup, restored once or twice. *)
EXTENDS RestoreService, TLC

CONSTANTS r1, r2, b1, users, orders

FromOne == [r \in Restores |-> b1]
AllSafe == [r \in Restores |-> TRUE]
=============================================================================
