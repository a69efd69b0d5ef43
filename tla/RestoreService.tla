--------------------------- MODULE RestoreService ---------------------------
(***************************************************************************)
(* app/services/restore_service.py with what the four adapters do to the   *)
(* target database: verify the backup file, make a safety backup, unpack,  *)
(* restore, verify the result; against the deletion and the decay of the   *)
(* file, failures of the tools, a second restore into the same target, and *)
(* the server stopping at any point.                                       *)
(*                                                                         *)
(* A database is a function from tables to the origin of what they hold:   *)
(* "live" data, the dump of a backup, or bytes that no checksum vouches    *)
(* for.  The nested backup run is BackupService's; here it is one step.    *)
(***************************************************************************)
EXTENDS Naturals, FiniteSets

CONSTANTS
    Restores,       \* the restore requests, all into one target database
    Backups,        \* the backups they restore
    Source,         \* Source[r] : the backup r restores
    Safety,         \* Safety[r] : does r ask for a safety backup?
    Tables,
    Dumped,         \* the tables in every dump
    Listed,         \* the tables its row lists, taken just before the dump
    Engines,        \* the kinds of database considered
    Overlap,        \* may restores of one target run at the same time?
    Faults

FaultKinds == {"setup", "safety", "tool", "store", "delete", "rot", "crash", "orphan", "locked"}

ASSUME RestoreAssumption ==
    /\ Source \in [Restores -> Backups] /\ Safety \in [Restores -> BOOLEAN]
    /\ Dumped \subseteq Tables /\ Dumped # {} /\ Listed \subseteq Tables
    /\ Engines \subseteq {"sqlite", "mysql", "postgresql", "mongodb"}
    /\ Overlap \in BOOLEAN /\ Faults \subseteq FaultKinds

VARIABLES
    engine,     \* the kind of database, fixed
    sealed,     \* are the backups compressed or encrypted?  fixed
    files,      \* files[b] : the backup file
    brows,      \* the backups that have a row
    target,     \* the target database
    row,        \* row[r] : the status in restore_logs
    code,       \* code[r] : does the row name a safety backup?
    kept,       \* kept[r] : the content of r's safety backup
    pc,         \* pc[r] : where execute_restore is
    todo,       \* todo[r] : the tables its tool has still to write
    pending,    \* pending[r] : what it has written in a transaction that is still open
    prior,      \* history: the target just before r first changed it
    up

vars == <<engine, sealed, files, brows, target, row, code, kept, pc, todo, pending, prior, up>>
case == <<engine, sealed>>
store == <<files, brows>>
replay == <<todo, pending>>

NoDatabase == [t \in {} |-> "none"]
Empty == [t \in Tables |-> "none"]
Values == {"none", "live", "damaged"} \cup Backups
Contents == [Tables -> Values] \cup {NoDatabase}
Writings == UNION {[T -> Values] : T \in SUBSET Tables}
Nothing == [t \in {} |-> "none"]
Unset == <<"unset">>
ASSUME UnsetAssumption == Unset \notin Contents

Active == {"queued", "check", "snapshot", "code", "unpack", "connect", "apply",
           "verify", "finish", "fail"}
Goto(r, stage) == pc' = [pc EXCEPT ![r] = stage]
Step(r, from) == up /\ pc[r] = from
May(fault, r) == fault \in Faults /\ Goto(r, "fail")

\* The store refuses an access that no handler surrounds.
Unhandled(r) == "locked" \in Faults /\ Goto(r, "lost")

----------------------------------------------------------------------------
(* prepare_restore, and execute_restore up to the first byte read          *)

\* The row is born running, read again and handed to a worker.  If that raises,
\* nobody works on it.
Prepare(r) ==
    /\ Step(r, "idle") /\ Source[r] \in brows
    /\ Overlap \/ \A s \in Restores : pc[s] \notin Active \cup {"orphan"}
    /\ row' = [row EXCEPT ![r] = "running"]
    /\ Goto(r, "queued") \/ Unhandled(r)
    /\ UNCHANGED <<case, store, target, code, kept, replay, prior, up>>

\* The row (outside the try block), the connection and the file, read again.
Begin(r) ==
    /\ Step(r, "queued")
    /\ \/ /\ Source[r] \in brows /\ files[Source[r]] # "gone"
          /\ Goto(r, "check")
       \/ /\ Source[r] \notin brows \/ files[Source[r]] = "gone"
          /\ Goto(r, "fail")
       \/ May("setup", r)
       \/ Unhandled(r)
    /\ UNCHANGED <<case, store, target, row, code, kept, replay, prior, up>>

\* verify_backup(deep=False)
Check(r) ==
    /\ Step(r, "check")
    /\ Goto(r, IF files[Source[r]] # "sound" THEN "fail"
               ELSE IF Safety[r] THEN "snapshot" ELSE "unpack")
    /\ UNCHANGED <<case, store, target, row, code, kept, replay, prior, up>>

\* Mutated form: a safety backup that failed is passed over.
SnapshotOrNot(r) ==
    /\ Step(r, "snapshot")
    /\ \/ target = NoDatabase /\ Goto(r, "unpack") /\ UNCHANGED kept
       \/ kept' = [kept EXCEPT ![r] = target] /\ Goto(r, "code")
       \/ "safety" \in Faults /\ Goto(r, "unpack") /\ UNCHANGED kept
    /\ UNCHANGED <<case, store, target, row, code, replay, prior, up>>

\* database_exists, then the nested backup of the target.
Snapshot(r) ==
    /\ Step(r, "snapshot")
    /\ \/ target = NoDatabase /\ Goto(r, "unpack") /\ UNCHANGED kept
       \/ target # NoDatabase /\ kept' = [kept EXCEPT ![r] = target] /\ Goto(r, "code")
       \/ May("safety", r) /\ UNCHANGED kept
    /\ UNCHANGED <<case, store, target, row, code, replay, prior, up>>

\* Mutated form: the code is left for the final update.
StoreCodeLater(r) ==
    /\ Step(r, "code")
    /\ Goto(r, "unpack")
    /\ UNCHANGED <<case, store, target, row, code, kept, replay, prior, up>>

StoreCode(r) ==
    /\ Step(r, "code")
    /\ \/ code' = [code EXCEPT ![r] = TRUE] /\ Goto(r, "unpack")
       \/ May("store", r) /\ UNCHANGED code
    /\ UNCHANGED <<case, store, target, row, kept, replay, prior, up>>

\* decrypt_file and decompress_file find every damage; a plain file is not
\* looked at here.
Unpack(r) ==
    /\ Step(r, "unpack")
    /\ Goto(r, IF sealed /\ files[Source[r]] # "sound" THEN "fail" ELSE "connect")
    /\ UNCHANGED <<case, store, target, row, code, kept, replay, prior, up>>

----------------------------------------------------------------------------
(* The adapters' restore_backup and verify_restore, one record for each:    *)
(*   creates   a missing database exists before the dump is replayed       *)
(*   inspects  the file is looked at before anything else                  *)
(*   atOnce    the dump is replayed in one transaction                     *)
(*   replaces  the dump takes the place of the database, not of its tables *)
(*   checks    the result is checked for integrity, not for tables alone   *)

SQLiteAdapter == [creates |-> TRUE, inspects |-> TRUE, atOnce |-> TRUE, replaces |-> TRUE, checks |-> TRUE]
MySQLAdapter == [creates |-> TRUE, inspects |-> FALSE, atOnce |-> FALSE, replaces |-> FALSE, checks |-> FALSE]

\* Mutated form: psql without --single-transaction.
PostgresByTable == [creates |-> TRUE, inspects |-> FALSE, atOnce |-> FALSE, replaces |-> FALSE, checks |-> FALSE]
PostgresAdapter == [creates |-> TRUE, inspects |-> FALSE, atOnce |-> TRUE, replaces |-> FALSE, checks |-> FALSE]

\* The first document creates a MongoDB database.
MongoDBAdapter == [creates |-> FALSE, inspects |-> FALSE, atOnce |-> FALSE, replaces |-> FALSE, checks |-> FALSE]

Adapter == CASE engine = "sqlite" -> SQLiteAdapter [] engine = "mysql" -> MySQLAdapter
             [] engine = "postgresql" -> PostgresAdapter [] engine = "mongodb" -> MongoDBAdapter

Remember(r) == prior' = IF prior[r] = Unset THEN [prior EXCEPT ![r] = target] ELSE prior

\* What the tool reads.
Payload(r) == IF ~sealed /\ files[Source[r]] = "damaged" THEN "damaged" ELSE Source[r]
Missing(r) == ~sealed /\ files[Source[r]] = "gone"

\* Up to the point where the dump is replayed: the database is created, the
\* client opens the file.  SQLite looks at the file first.
Connect(r) ==
    LET created == IF target = NoDatabase /\ Adapter.creates THEN Empty ELSE target
    IN /\ Step(r, "connect")
       /\ Remember(r)
       /\ \/ /\ ~Missing(r)
             /\ target' = created
             /\ todo' = [todo EXCEPT ![r] = Dumped] /\ pending' = [pending EXCEPT ![r] = Nothing]
             /\ Goto(r, "apply")
          \/ /\ Missing(r) \/ "tool" \in Faults \/ (Adapter.inspects /\ Payload(r) = "damaged")
             /\ target' \in IF Adapter.inspects THEN {target} ELSE {target, created}
             /\ Goto(r, "fail") /\ UNCHANGED replay
       /\ UNCHANGED <<case, store, row, code, kept, up>>

\* The target with some tables written: SQLite's copy leaves no others.
With(written) ==
    [t \in Tables |-> IF t \in DOMAIN written THEN written[t]
                      ELSE IF target = NoDatabase \/ Adapter.replaces THEN "none" ELSE target[t]]

\* The tool reads on and replays a table, into its transaction if it has one.
Write(r) ==
    \E t \in todo[r] :
        /\ todo' = [todo EXCEPT ![r] = @ \ {t}]
        /\ \/ /\ Adapter.atOnce /\ UNCHANGED target
              /\ pending' = [pending EXCEPT ![r] = [u \in DOMAIN @ \cup {t} |->
                                                       IF u = t THEN Payload(r) ELSE @[u]]]
           \/ /\ ~Adapter.atOnce /\ UNCHANGED pending
              /\ target' = With([u \in {t} |-> Payload(r)])

Commit(r) ==
    /\ target' = IF Adapter.atOnce THEN With(pending[r]) ELSE target
    /\ pending' = [pending EXCEPT ![r] = Nothing]

\* A transaction that is not committed leaves nothing.
RollBack(r) == pending' = [pending EXCEPT ![r] = Nothing] /\ UNCHANGED target

\* Mutated form: the exit status of the client is not looked at.
IgnoreClient(r) == Goto(r, "verify")

\* run_command raises when the client is missing, fails or takes too long.
ClientFails(r) == Goto(r, "fail")

\* The timeout may hit a client that has just committed.
Apply(r) ==
    /\ Step(r, "apply")
    /\ \/ Write(r) /\ UNCHANGED pc
       \/ todo[r] = {} /\ Commit(r) /\ Goto(r, "verify") /\ UNCHANGED todo
       \/ /\ "tool" \in Faults \/ Payload(r) = "damaged"
          /\ RollBack(r) \/ (todo[r] = {} /\ Commit(r))
          /\ ClientFails(r) /\ UNCHANGED todo
    /\ UNCHANGED <<case, store, row, code, kept, prior, up>>

----------------------------------------------------------------------------
(* The end of execute_restore *)

Present == {t \in DOMAIN target : target[t] # "none"}

\* verify_restore: no listed table is missing; SQLite also checks integrity.
Verify(r) ==
    /\ Step(r, "verify")
    /\ \/ Listed \subseteq Present /\ Goto(r, "finish")
       \/ ~(Listed \subseteq Present) /\ Goto(r, "fail")
       \/ Adapter.checks /\ (\E t \in Present : target[t] = "damaged") /\ Goto(r, "fail")
       \/ May("tool", r)
    /\ UNCHANGED <<case, store, target, row, code, kept, replay, prior, up>>

Finish(r) ==
    /\ Step(r, "finish")
    /\ \/ row' = [row EXCEPT ![r] = "success"] /\ Goto(r, "done")
       \/ May("store", r) /\ UNCHANGED row
    /\ UNCHANGED <<case, store, target, code, kept, replay, prior, up>>

\* Mutated form: the handler logs and does not store.
ForgetToFail(r) ==
    /\ Step(r, "fail")
    /\ Goto(r, "done")
    /\ UNCHANGED <<case, store, target, row, code, kept, replay, prior, up>>

\* The handler's own update may raise; then the thread ends without an outcome.
Fail(r) ==
    /\ Step(r, "fail")
    /\ \/ /\ row' = [row EXCEPT ![r] = "failed"]
          /\ code' = [code EXCEPT ![r] = kept[r] # Unset]
          /\ Goto(r, "done")
       \/ Unhandled(r) /\ UNCHANGED <<row, code>>
    /\ UNCHANGED <<case, store, target, kept, replay, prior, up>>

Work(r) ==
    \/ Begin(r) \/ Check(r) \/ Snapshot(r) \/ StoreCode(r) \/ Unpack(r)
    \/ Connect(r) \/ Apply(r) \/ Verify(r) \/ Finish(r) \/ Fail(r)

----------------------------------------------------------------------------
(* Everyone else *)

\* delete_backup: the file, then the row.
DeleteFile(b) ==
    /\ up /\ "delete" \in Faults /\ b \in brows /\ files[b] # "gone"
    /\ files' = [files EXCEPT ![b] = "gone"]
    /\ UNCHANGED <<case, brows, target, row, code, kept, pc, replay, prior, up>>
DeleteRow(b) ==
    /\ up /\ "delete" \in Faults /\ b \in brows /\ files[b] = "gone"
    /\ brows' = brows \ {b}
    /\ UNCHANGED <<case, files, target, row, code, kept, pc, replay, prior, up>>

Rot(b) ==
    /\ "rot" \in Faults /\ files[b] = "sound"
    /\ files' = [files EXCEPT ![b] = "damaged"]
    /\ UNCHANGED <<case, brows, target, row, code, kept, pc, replay, prior, up>>

\* A client program may outlive the server that started it; otherwise its
\* connection breaks, and SQLite's journal is rolled back.
Crash ==
    /\ up /\ "crash" \in Faults /\ up' = FALSE
    /\ \E outlives \in SUBSET {r \in Restores : pc[r] = "apply" /\ engine # "sqlite"} :
          /\ outlives = {} \/ "orphan" \in Faults
          /\ pc' = [r \in Restores |-> IF r \in outlives THEN "orphan"
                                       ELSE IF pc[r] \in Active THEN "dead" ELSE pc[r]]
          /\ pending' = [r \in Restores |-> IF pc'[r] = "orphan" THEN pending[r] ELSE Nothing]
    /\ UNCHANGED <<case, store, target, row, code, kept, todo, prior>>

Orphan(r) ==
    /\ pc[r] = "orphan"
    /\ \/ Write(r) /\ UNCHANGED pc
       \/ /\ RollBack(r) \/ (todo[r] = {} /\ Commit(r))
          /\ Goto(r, "dead") /\ UNCHANGED todo
    /\ UNCHANGED <<case, store, row, code, kept, prior, up>>

\* mark_running_as_failed
Interrupted(status) == IF status = "running" THEN "failed" ELSE status

Restart ==
    /\ ~up /\ up' = TRUE
    /\ row' = [r \in Restores |-> Interrupted(row[r])]
    /\ UNCHANGED <<case, store, target, code, kept, pc, replay, prior>>

Init ==
    /\ engine \in Engines /\ sealed \in BOOLEAN
    /\ files = [b \in Backups |-> "sound"] /\ brows = Backups
    /\ target \in {NoDatabase, [t \in Tables |-> "live"]}
    /\ row = [r \in Restores |-> "none"] /\ code = [r \in Restores |-> FALSE]
    /\ kept = [r \in Restores |-> Unset] /\ prior = [r \in Restores |-> Unset]
    /\ pc = [r \in Restores |-> "idle"]
    /\ todo = [r \in Restores |-> {}] /\ pending = [r \in Restores |-> Nothing]
    /\ up = TRUE

Next ==
    \/ \E r \in Restores : Prepare(r) \/ Work(r) \/ Orphan(r)
    \/ \E b \in Backups : DeleteFile(b) \/ DeleteRow(b) \/ Rot(b)
    \/ Crash \/ Restart

Spec == Init /\ [][Next]_vars

\* Only the threads of a running server are bound to go on.
FairSpec == Spec /\ \A r \in Restores : WF_vars(Work(r))

----------------------------------------------------------------------------
(* Properties *)

TypeOK ==
    /\ engine \in Engines /\ sealed \in BOOLEAN /\ up \in BOOLEAN
    /\ files \in [Backups -> {"sound", "damaged", "gone"}] /\ brows \subseteq Backups
    /\ target \in Contents
    /\ row \in [Restores -> {"none", "running", "success", "failed"}]
    /\ code \in [Restores -> BOOLEAN]
    /\ kept \in [Restores -> Contents \cup {Unset}]
    /\ prior \in [Restores -> Contents \cup {Unset}]
    /\ pc \in [Restores -> Active \cup {"idle", "done", "dead", "lost", "orphan"}]
    /\ todo \in [Restores -> SUBSET Tables] /\ pending \in [Restores -> Writings]

\* What a restore with a safety backup has overwritten can be brought back: its
\* row names a backup that holds the target as it was just before the first
\* change, however the restore ended, a crash included.
OverwrittenIsKept ==
    \A r \in Restores : Safety[r] /\ prior[r] \notin {Unset, NoDatabase, Empty} =>
        code[r] /\ kept[r] = prior[r]

\* When a restore is reported as a success, the tables of its dump are in the
\* target just as they were dumped; at worst the bytes of a plain file have
\* changed since they were checked.
SuccessIsTheDump ==
    [][\A r \in Restores : row[r] = "running" /\ row'[r] = "success" =>
          \A t \in Dumped : \/ target[t] = Source[r]
                            \/ ~sealed /\ files[Source[r]] # "sound" /\ target[t] = "damaged"]_vars

\* A restore of an SQLite or PostgreSQL database that fails, or dies with the
\* server or after it, anywhere in the dump, never leaves some tables of the dump
\* restored and others not: the target's are all of one backup, or all as before.
AllOrNothing ==
    engine \in {"sqlite", "postgresql"} /\ target # NoDatabase =>
        \/ \A t, u \in Dumped : target[t] = target[u]
        \/ \E r \in Restores : \A t \in Dumped : target[t] \in {Source[r], "damaged"}

\* A restore is shown as running as long as a thread works on it.  It is left so
\* only where no handler is: before the try block, and in the handler's update.
RunningHasThread ==
    up => \A r \in Restores : /\ pc[r] \in Active => row[r] = "running"
                              /\ row[r] = "running" => pc[r] \in Active \cup {"lost"}

\* Every restore ends with an outcome, or the server stops, with the same exceptions.
EveryRestoreEnds ==
    \A r \in Restores :
        row[r] = "running" ~> (row[r] \in {"success", "failed"} \/ ~up \/ pc[r] = "lost")

\* Restores, one after the other, keep the contract with the target's owner.
Contract == INSTANCE RestoreContract WITH
    now <- target,
    saved <- {kept[r] : r \in {s \in Restores : code[s]}},
    changing <- \E r \in Restores : pc[r] \in {"apply", "orphan"}
ContractHolds == Contract!ContractSpec

=============================================================================
