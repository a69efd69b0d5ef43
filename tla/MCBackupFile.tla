---------------------------- MODULE MCBackupFile ----------------------------
(***************************************************************************)
(* Four models of what becomes of a backup file: the raw dump of a         *)
(* database in use, the layers around it, the chunked format of encrypted  *)
(* files, and the policy by which backups are deleted again.  They share   *)
(* no state, so each behaviour exercises one of them.                      *)
(***************************************************************************)
EXTENDS Dump, Archive, EncryptedFile, Retention, TLC

CONSTANTS
    Parts,              \* the models exercised
    orders, items, empty, even, odd

\* An empty file, one of two full chunks, and one of one full chunk and a bit.
ThreeFiles == empty :> <<>> @@ even :> <<1, 2, 3, 4>> @@ odd :> <<5, 6, 7>>

\* Each rule off, with limit 1 or with limit 2; days off or one day.  The calendar
\* has two ticks a day, two days a week and three days a month, so that months
\* begin inside weeks.
SomePolicies == [days : 0..1, daily : 0..2, weekly : {0, 2}, monthly : 0..2]

VARIABLE part

backupVars == <<dumpVars, vars, fileVars, policyVars, part>>

\* What the other models choose at the start does not concern a behaviour.
BackupInit ==
    /\ part \in Parts /\ DumpInit /\ Init /\ FileInit /\ PolicyInit
    /\ part # "dump" => /\ Present(db) = Tables /\ table = CHOOSE t \in Tables : TRUE
                        /\ engine = CHOOSE e \in Engines : TRUE
                        /\ selection = {}
    /\ part # "layers" => method = "none" /\ ~encryption /\ key = CHOOSE k \in Keys : TRUE
    /\ part # "policy" => policy = CHOOSE p \in Policies : TRUE

BackupNext ==
    \/ part = "dump" /\ DumpNext /\ UNCHANGED <<vars, fileVars, policyVars, part>>
    \/ part = "layers" /\ Next /\ UNCHANGED <<dumpVars, fileVars, policyVars, part>>
    \/ part = "chunks" /\ FileNext /\ UNCHANGED <<dumpVars, vars, policyVars, part>>
    \/ part = "policy" /\ PolicyNext /\ UNCHANGED <<dumpVars, vars, fileVars, part>>

BackupSpec == BackupInit /\ [][BackupNext]_backupVars
=============================================================================
