# Verification of DBSafe

DBSafe is a Flask application that backs up and restores SQLite, MySQL, PostgreSQL and MongoDB databases. This
directory models the parts of it where several threads, processes or points in time meet: TLA+ modules translated from
`src/`, TLC configurations that check them on small instances, and TLAPS proofs for every size.

Paths are relative to the repository; plain line numbers are those of `app/services/backup_service.py`.

## The system

| Component | State | Operations | Talks to |
|---|---|---|---|
| Backup pipeline (`services/backup_service.py`) | locals of one run; a private temporary directory | `prepare_backup`, `execute_backup` | adapters, compression, encryption, verification, rows, backup directory |
| Metadata store (`repositories/`, `database/schema.sql`) | SQLite tables, one short transaction per call | insert, update, delete, list, start-up clean-up | everything |
| Backup directory | dump files, `.part` files | choose a name, move, replace, unlink | pipeline, deletion, verification, restore |
| Deletion and retention (`services/storage_service.py`) | none | `delete_backup`, `select_backups_to_delete`, `apply_retention` | rows, backup directory |
| Verification (`services/verification_service.py`) | none | `verify_backup` (checksum, deep) | rows, backup directory, encryption, compression |
| Restore (`services/restore_service.py`) | `restore_logs` | `prepare_restore`, `execute_restore` | verification, pipeline (safety backup), adapters |
| Scheduler (`services/scheduler_service.py`) | APScheduler's jobs, `schedules` | register, unregister, `execute_schedule` | pipeline, retention |
| Worker pool (`extensions.py`) | one lazily created executor | `run_in_background` | pipeline, restore, run-now |
| Connections (`services/connection_service.py`) | `database_connections` | create, update, delete, build an adapter | schedules, pipeline, restore |
| Users and login (`services/auth_service.py`) | `users`, a dictionary of failed attempts | authenticate, create, update, delete | metadata store |
| File encryption (`services/encryption_service.py`) | key in the configuration | `encrypt_file`, `decrypt_file` | pipeline, verification, restore |
| Compression (`services/compression_service.py`) | none | `compress_file`, `decompress_file`, `test_integrity` | pipeline, verification, restore |
| Request validation (`utils/validation.py`) | none | one function per payload | routes of backups, schedules, connections |
| Adapters (`adapters/`) | the databases themselves | dump, restore, verify a restore | pipeline, restore |
| Configuration (`config/config.py`) | secret files | `_load_secret` | start-up |
| HTTP layer, pages, logging, notifications | sessions | routes | all of the above |

Request threads, up to `WORKER_THREADS` pool threads, the scheduler's threads, maintenance scripts in processes of their
own and an operator who restarts the server all work on the same rows and files. There is no lock between them: what
orders them is the single SQLite statement and the single file-system call. A run that dies with the process is closed
by the next start (`init_database`).

What makes the components correct, and hard:

* *pipeline*: each success row names the dump its own run made; names do not collide; every run closes its row, whatever
  raises while there is a handler; a failed run removes its own file and no other. Hard: check-then-use of file names, a file and a row that
  change one after the other, a dozen ways to fail, crashes at any point.
* *deletion and retention*: a deletion removes its backup's file or nothing; the newest backup survives; retention that
  runs again and again removes no more than its rules say. Hard: rows are read first and used later.
* *restore*: nothing is touched before the checksum and the safety backup hold; the row gets an outcome. Hard: deletion
  between check and use, two restores of one target, failure half-way.
* *scheduler*: jobs and enabled rows agree once edits are over; a request that fails between row and job parts only its own.
* *users*: one administrator remains; the throttle bounds attempts. Hard: check-then-act in parallel requests.
* *encryption*: decryption gives the plaintext or an error.
* *configuration, pool*: one key, one pool, whoever comes first.
* *compression*: a corrupt archive is noticed, whatever is wrong with it.
* *connections*: a backup's row describes the dump in its file, though the connection can be edited in between.

`PROJECT.json` lists every hazard at its line, with the properties aimed at it, and what is modelled of each component.

## Modules

| Module | Content |
|---|---|
| `BackupService` | the pipeline, deletion, retention, crash and restart: one action per access to shared state |
| `BackupLedger` | abstract specification: the life of a row as its readers see it |
| `BackupScripts` | extends `BackupService`: the same beside maintenance scripts that run `create_app` |
| `VerifyRequests` | extends `BackupService`: the same beside requests to verify a backup |
| `Retention` | `select_backups_to_delete` and its repeated application while time passes |
| `RestoreService` | `restore_service.py`, and what the adapters and their client programs do to the target |
| `RestoreContract` | abstract specification: what the owner of the target may rely on |
| `Dump` | `create_backup` of the four adapters while applications use the database |
| `EncryptedFile` | the chunked format of `encryption_service.py` against someone who edits the stored file |
| `Archive` | the layers around a dump: compression, encryption, checksum, deep verification, unpacking |
| `Scheduler` | schedules as rows and as jobs: requests, executions, restarts |
| `Schedules` | what POST and PUT store of a schedule, over sequences of request bodies |
| `Connections` | connections, their names, credentials and references, beside backups and restores that look them up |
| `Validation` | the checks of `validation.py` as operators; used by `Schedules` and `Connections` |
| `UserAdmin` | users, sessions and the requests that administer them |
| `LoginThrottle` | the dictionary of failed logins |
| `SecretFile` | `_load_secret` in several processes, and what is encrypted under the secret |
| `WorkerPool` | the lazily created executor and its queue |
| `BackupServiceProofs`, `BackupFilesProofs` | theorems and proofs about the rows of `BackupService`; about its files and `VerifyRequests` |
| `BackupContentProofs` | about `Dump`, `Archive` and `EncryptedFile`: how the content of a backup is made, wrapped and sealed |
| `RetentionProofs`, `RestoreServiceProofs`, `SchedulerProofs` | about the module of that name |
| `ServerProofs` | about `UserAdmin`, `LoginThrottle`, `SecretFile` and `WorkerPool` |
| `RowsProofs` | about `Connections` and `Schedules` |
| `MC...` | instances for TLC |

### BackupService

| Variable | In the code |
|---|---|
| `nextId` | the AUTOINCREMENT counter of `backups` |
| `rows` | `backups`: `status`, `verification_status`, `file_path`; a missing row is `Absent` |
| `disk`, `parts` | the backup directory: which dump each final name and each `.part` name holds |
| `clock` | the second that file names carry |
| `up` | whether the server process lives |
| `pc` | where each run of `execute_backup` is |
| `base`, `final` | its time stamp (line 98) and `final_path` (line 135) |
| `verdict` | the verification result about to be stored |
| `doomed`, `held` | the rows a deleting thread has read, and the one whose file it has unlinked but whose row it has not deleted |
| `cut` | history: the backups whose deletion began while they were running |

A dump is represented by the id of its run, so "the checksum matches" is `disk[path] = b`. A name is a triple of the
database's label, the second and the variant that `unique_path` appends. Dump, compression, encryption and hashing work
in a private directory and are one step (`Dump`) that may fail.

| Action | Code |
|---|---|
| `Request` | `prepare_backup` up to its INSERT, 49-79 |
| `Submit` | the code's UPDATE and the SELECT, 81-83, and handing the run to a worker (`api/backup_routes.py:46-52`) |
| `Start`, `Dump`, `ChooseName`, `MovePart`, `Replace`, `Record`, `Reread` | 86-98, 99-133, 135, 136-137, 138, 145-149, 150-157 |
| `Verify`, `Persist` | `verify_backup(deep=True)`: the check, then the update and the log entry |
| `Cleanup`, `Mark` | 167-176, 177-179 |
| `Fetch` | `DELETE /backups/<id>`: `get_backup`, for a row of any status, as the details page offers it |
| `ListDoomed` | `apply_retention`: the list and the selection, any part of the candidates but the newest |
| `Unlink`, `RemoveRow` | `delete_backup`: the file, then the row |
| `Crash`, `Restart` | the process dies; `init_database` on the next start |
| `Tick`, `BitRot` | the clock; a file that changes by itself |

`Faults` says which failures may happen: `setup`, `dump`, `move` (that part of the pipeline raises), `store` (an access to
the rows raises), `erase` (a DELETE raises), `deep` (a sound file fails the deep check), `unexpected` (the check itself
raises), `stuck` (a file cannot be removed, which `remove_quietly` hides), `crash`, `rot`. A `store` failure in `Record`,
`Reread` or `Persist` reaches the handler. In `Submit`, at the read of line 88 and in the handler's own write (177) nothing
surrounds it: the run is `lost` and its row keeps what it said. `raised` is an exception over a row that has been deleted.

`TurnSpec` is `Spec` without two overlaps, `NameRace` (two runs hold one name between looking for it and making or removing
its file) and `DeleteRace` (two threads are deleting one row); every other interleaving is left.

### Retention

Time is a count of ticks, divided into days, weeks and months that do not line up. `created` is the history of all
scheduled successes of one connection, `stored` what is left of it. `ToDelete` translates `select_backups_to_delete`: its
loop over the newest-first list is a recursive function (`KeepNewestPerBucket`, one turn of it `Visit`); `Survives` states
its docstring declaratively. The policy is fixed for a behaviour and any of `Policies`.

### RestoreService and RestoreContract

All restores go into one target; a database is a function from its tables to the origin of what they hold ("live", a
backup's dump, or bytes no checksum vouches for).

| Variable | In the code |
|---|---|
| `engine`, `sealed` | the adapter; whether the backups are compressed or encrypted |
| `files`, `brows`, `row`, `code` | backup files; rows of `backups`; status and safety backup of rows of `restore_logs` |
| `target` | the target database |
| `todo`, `pending` | the tables its tool has still to write; those it has written in a transaction that is still open |
| `pc`, `kept`, `up` | where `execute_restore` is, the content of its safety backup, the server |
| `prior` | history: the target just before the restore first changed it |

`Prepare`, `Begin`, `Check`, `Snapshot`, `StoreCode`, `Unpack`, `Connect`, `Apply`, `Verify`, `Finish`, `Fail` follow the
code; `DeleteFile`, `DeleteRow` and `Rot` happen to backups meanwhile; `Crash`, `Orphan` and `Restart` are the death of
the server, a client program that outlives it, and the next start. An adapter is a record of what differs between the
four. Each replays the dump table by table (`Write`): SQLite's copy and `psql --single-transaction` into a transaction, which
ends with `Commit` or, on a failure, a timeout or a crash anywhere in the dump, with `RollBack`; the clients of MySQL and
MongoDB into the database itself. `Unhandled` is an access to the rows that raises where no handler is: before the worker
has the restore, at line 57, and in the handler. `RestoreContract` knows only the target, what has been set aside and
whether the target is being changed: nobody may begin to change what has not been set aside. `ContractHolds` is the
refinement, with a restore's safety backup as set aside from the moment its row names it.

### Dump

A table has a definition (`shape`) and rows, each numbered by the write that made them. `WriteRows` and `Redefine` are
transactions of applications (rows of several tables; CREATE, ALTER, DROP), `moments` the states the database went through.
`List` is `_table_snapshot`; `CopyAll` is SQLite's backup call, `Define` and `Insert` its selective copy table by table.
The first `INSERT` opens the transaction there: the first table's definition is read before it, everything else in it
(`Source`). `FindTool`, `ToolBegins`, `ToolLists`, `ToolDumps` and `ToolEnds` are a run of `mysqldump`, `pg_dump` or
`mongodump` by the command runner. The tools themselves are external: they dump what their consistency option promises.
For MySQL that is the rows of InnoDB tables that nobody redefines meanwhile; definitions are read as they are at the
time. `altered` is the history of redefinitions that fell into such a gap.

### EncryptedFile and Archive

`EncryptChunk` is one turn of the loop of `encrypt_file`, `DecryptFrame` one of `decrypt_file`. `Store` replaces the stored file by
any header and any sequence of frames, of any file ever written or damaged, cut or not, to be opened with the right or a
wrong passphrase. An authentication tag is an equation between what was sealed and what is opened. In `Archive` a file is a
tree of layers around the dump, each of which may be damaged in the ways that reading it reports differently; `Rot` and
`ReplaceKey` happen at any time.

### Scheduler, Schedules, Connections, Validation

In `Scheduler` a request is `Ask`, `Find`, `Write`, `Reread`, `Unregister` (one job at a time), `Register` and `RemoveRows`: one
action per statement or scheduler call. `StoreRaises` is any of its accesses to the rows that raises: the request is over,
and if it falls between row and job, the schedule is in `half` until a request about it succeeds or the server starts. `Fire` and `RunNow` begin executions, which `ReadSchedule`, `Backup` and `Record`.
`Crash` loses jobs and keeps rows, `Start` is `init_scheduler`. `Validation` represents a JSON value by its class (null,
text, number, boolean, list) and the texts that some check tells apart. `Schedules` applies it to sequences of bodies;
its `Trigger` is `build_trigger`. The cleaning of a list of tables is a recursive function (`Distinct`). `Connections` has `CreateConnection`, `UpdateConnection`, `DeleteConnection`, and `PrepareBackup`/`RunBackup`,
`PrepareRestore`/`RunRestore`, which look at the connection twice; nothing makes an edit wait in between, and `edited` is
the history of the jobs to which that happened.

### UserAdmin, LoginThrottle, SecretFile, WorkerPool, VerifyRequests

Each request is split where the code calls the repository, takes a lock or opens a file: `Begin`, `Fetch`, `Count`,
`Write` (users); `Check`, `Verify`, `Record` (logins); `Read`, `Open`, `WriteText` (secrets); `Look`, `Create`, `Submit`,
`Take`, `Finish` (pool), with `racers`, the jobs whose request found no pool, and `settled`, those requested once no pool was
being created any more; `AskForCheck`, `CheckFile`, `StoreVerdict` (verification). Sessions are cookies and outlive the
server; ages of failures count ticks up to `Window`.

Definitions called a *mutated form* are plausible bugs: each is put in the place of the definition after it to see that
a property notices.

## What is checked

### The runs

| Run | Instance | Properties |
|---|---|---|
| `apart` | `MCVerifyRequests`: 2 scheduled backups of one connection, 2 workers, administrator and reaper, one reader who verifies successes; every part of a run, every read or update of a row and the check may raise, bytes change at any time | `NoOrphanFile`, `VerdictIsTrue`, `FailedIsFinal` |
| `serial` | `MCBackupService` under `TurnSpec`: 3 backups of one database in one second, 2 workers, administrator and reaper, failing moves, verifications and removals | `NamesNeverCollide`, `SuccessHasItsDump`, `DeletesOnlyItsFile` |
| `crash` | `MCBackupService`: 2 requests for one database in one second or two, one of which asks for a verification, 2 workers, an administrator, crash, restart, bit rot, every access to the rows may raise, deletions included | `TypeOK`, `RunningHasWorker`, `EveryRunEnds`, `LedgerHolds` |
| `restore` | `MCRestoreService`: a backup restored twice, one after the other, each with a safety backup, 4 adapters, every fault | `OverwrittenIsKept`, `AllOrNothing`, `ContractHolds`, `SuccessIsTheDump`, `EveryRestoreEnds` |
| `backup_file` | `MCBackupFile`. Dumps: 2 tables, 4 adapters, full and selective, 3 transactions of applications | `OneMoment`, `WholeSelection` |
| | Layers: 3 methods, encrypted or not, 2 keys, bytes that change at any time | `DeepValidIsRestorable`, `LayersProtectTheGap` |
| | Chunks: files of 0, 1 and 2 chunks, edited files of up to 3 frames | `WholeFileOrError`, `RoundTrip` |
| | Policies: up to 4 backups in 4 days, 36 policies | `DeletesWhatNoRuleKeeps`, `EarlierRunsLoseNothing`, `NewestIsStored` |
| `schedules` | `MCSchedules`. Jobs: 2 schedules of a connection, 2 triggers, 2 workers, 3 requests one at a time, each of whose accesses to the rows may raise, crashes and restarts | `JobsAgree`, `StatusIsTheLastOne`, `EnabledRuns` |
| | Rows: sequences of about a thousand bodies with up to two fields of every class | `RowsAreFixpoints`, `PutTouchesOnlyItsFields` |
| | Connections: 2 of them under 7 bodies, a backup and its restore, edits and deletions at any time | `SQLiteKeepsNothing`, `RowDescribesItsDump`, `LikeIntoLike` |
| `server` | `MCServer`. Users: 2 clients, 3 ids, 3 names, crashes; requests that change or delete users do not overlap | `AtLeastOneAdmin`, `SessionIsItsUsers` |
| | Logins: 2 threads, 2 keys, a limit of 2 in a window of 2 ticks | `FewGuesses`, `BlockEnds` |
| | Secrets: 2 processes that start one after the other, killed anywhere | `Readable` |
| | Pool: 3 racing requests, 1 worker a pool | `PoolsKeepTheirBound` |
| `name_collision`, `stale_delete`, `newest_lost`, `script_start`, `last_admin` | the smallest instances on which the statement is false | one each, see below |

A module that instantiates several components has a variable `part`: each behaviour exercises one of them. They share no
state, so nothing is lost by it.

Each run keeps the properties that say most. Those that the proofs settle for every instance (`StagesAgree`,
`RunningHasThread`, `NoEmptyKey`, the users' `NamesDiffer`, the other type invariants) were found with TLC in the same
instances and are left to the proofs. So were the inductive invariants named below, where TLC can evaluate them.

`apart` and `serial` split on purpose. `NoOrphanFile` and the verdicts hold whatever overlaps. The three properties that tie
a row to its file do not: two backups of one database in one second may choose one name, and two deletions of one backup
may remove a later one's file. The runs `name_collision` and `stale_delete` show that, and `serial` checks that these two
overlaps are all there is to it: with two workers, an administrator and retention at work beside each other, on one
database in one second, nothing else makes rows and files disagree while the store takes the writes. A deletion of a running backup, the name of a deleted
backup that the next one takes, and a run that fails while another is choosing are all in it.

`NoOrphanFile` exempts the file of a backup that was deleted while it ran (`cut`): the run goes on, makes its file, finds no
row and leaves the file where it is. `RunningHasWorker` and `EveryRunEnds` exempt a `lost` run, whose row the next start
closes.

`BackupLedger` is a refinement: the ledger's `phase` of an id is `unborn` until it is handed out, then the row's status,
then `gone`; `LedgerHolds` says that every behaviour of the service is one of the ledger. In particular a late success,
verification or failure handler never revives a deleted or failed row.

`SuccessIsTheDump` allows for bytes of a plain file that change after they were checked (see the limits below); the
fault `locked` of `RestoreService` is that an access to its row raises where no handler is, the one case in which a
restore ends without an outcome (`pc` is `lost`) until the next start. `PutTouchesOnlyItsFields` states, besides the
fields a body names, the two that the code clears with them. `EnabledRuns` says that an enabled schedule is executed, not
that every due time is met: `max_instances=1` and `coalesce=True` skip.

### What the code does not do

Five runs end in a counterexample, and each contradicts a sentence of the repository (quoted in `PROJECT.json`).

* `name_collision`: two runs of one database in one second get the same name; the second `os.replace` destroys the first
  dump and both rows name the same file.
* `stale_delete`: two requests delete one backup; after the first is through, a new backup takes the freed name, and the
  second, which still has the old row in hand, removes the new backup's file.
* `newest_lost`: a backup is a success before it is verified. Retention lists it as the newest, its verification fails, and
  retention removes its predecessor, by then the newest success there is.
* `script_start`: every `create_app`, so every script, fails the running rows of a live server.
* `last_admin`: two overlapping requests each remove one of the last two administrators.

### Limits

Some properties hold on one side of a limit only, and the passing runs stay on that side. Changing the constant named here
in the run's `.cfg` gives the counterexample.

| Run, change | Property lost | What happens |
|---|---|---|
| `apart`, fault `crash` | `NoOrphanFile` | a server that dies between `os.replace` and the update leaves a file that no row names |
| `apart`, fault `stuck` | `NoOrphanFile` | a failed run or a deletion whose `remove_quietly` removes nothing leaves the file |
| `apart`, `CheckAnyRow = TRUE` | `VerdictIsTrue` | a running row has no path yet: "missing" is stored over the success the run has recorded meanwhile |
| `serial`, fault `store` | `DeletesOnlyItsFile` | a run that fails after line 149 keeps a path it no longer owns; deleting the failed row removes the next backup's file |
| `restore`, `Overlap = TRUE` | `OverwrittenIsKept` | of two restores of one target the later overwrites what no safety backup holds |
| `schedules`, two clients, `Together = TRUE` | `JobsAgree` | two overlapping updates leave a row disabled and its job registered |
| `server`, `StartTogether = TRUE` | `Readable` | two first starts at once make two secrets; what one of them encrypts is lost |
| `server`, `Together = TRUE` | `AtLeastOneAdmin` | the run `last_admin` |

Some statements say less than one might hope, because the code does less:

* `SuccessIsTheDump`: the checksum is compared before the safety backup and a plain file is read after it; what changes in
  between reaches the target. With a layer around the dump it does not (`LayersProtectTheGap`).
* `OneMoment` speaks of rows wherever there is a snapshot, but of definitions only if none is changed in a gap the code
  leaves: before the first INSERT of a selective SQLite copy (the first table's definition is then older than its rows)
  and while `mysqldump` runs, whose single transaction isolates neither definitions nor the rows of a table redefined.
* `WholeSelection`, where it speaks of the row's list, is about tables that neither come nor go while the backup runs: one
  dropped between `_table_snapshot` and the dump is on the row and not in the file, so a restore of an intact backup ends
  as failed.
* `RowDescribesItsDump` and `LikeIntoLike` except what was `edited`: a connection edited between `prepare_backup` and
  `execute_backup` gives a row that names one database and a file that holds another, which may later be replayed by the
  adapter of the wrong kind. Nothing else parts row and file.
* `JobsAgree` excepts `half`: after a request that fails between row and job, that schedule's job is gone while its row is
  still there (DELETE), or is the old one (PUT), or is none (POST), until somebody edits it again or the server starts.
* `DeepStatus` can be `raised`: an invalid deflate stream leaves `test_integrity` as `zlib.error`, and verification without
  a verdict.
* `FewGuesses` counts the threads in flight: logins that run together all pass the throttle before any failure is recorded.
* `PoolsKeepTheirBound`: requests that race before there is a pool create one each, and the pools that lose the race live on
  with the work they were given, each with its own `WORKER_THREADS`. The property says that this ends with the race: no
  later request adds a pool, and of the jobs requested after it no more than the bound run at a time.
* `AllOrNothing` is about SQLite and PostgreSQL only; and whatever the engine, a client program may outlive the server and
  write the target after the row was closed (`Orphan`).
* `execute_backup` "Never raises; the outcome is stored on the row" (line 87) is not quite so: it raises when its row is
  deleted before line 88 or between lines 149 and 150 (`raised`), and when the store refuses line 88 or the handler's own
  update (`lost`), which leaves the row running, or a success without its file. So does `prepare_backup` after its INSERT.

### Bounds

Two or three requests are enough for one run to disturb another and for a third to take a freed name. One second
(`MaxSecond = 0`) forces names to meet; `crash` has two of them, for runs that the clock separates. `MaxVariant = 1`
gives each second two names, so that the third of three runs meets `unique_path`'s limit; with `MaxVariant = 0` the second does. One administrator and one reaper suffice to come
between any two steps of a run; they stop when there is nothing left to do, and requests are bounded, so runs end and
deadlock is not checked. The policies of `backup_file` meet four days of two ticks, two weeks and two months, so that each rule's limit of one or
two is reached and exceeded.

Two restores of one backup, and two tables, give a half-written target, a second restore of what the first has written and a table
that is in the dump and not on its row. `Listed` is smaller than `Dumped` because the list is taken before the dump. Three
files of the sizes zero, one full chunk and one and a half chunks are the edges of `encrypt_file`'s loop; three frames
suffice to reorder, duplicate, drop and append. `MaxWrites = 3` allows two transactions between any two copies of a
dump, or one in each of three gaps. `MaxRequests = 3` is create, edit and delete, or two edits beside a run-now; a fourth only repeats. In the throttle
a failure of age `Window` has expired and older ages are the same. Three user ids allow the last two administrators and a
successor, and after deletions an id that must not come back. `MaxSecrets = 4` lets each of two processes
be killed and start again; `MaxPools = 4` is more than the three requests that can race. `CHECK_DEADLOCK FALSE` is said where requests,
ids or restores are used up and the model rightly stops.

### Fairness

`BackupService`'s `FairSpec` asks for weak fairness of each run's steps: threads of a live process
are scheduled, and no step of theirs waits for another thread beyond a free worker. (Weak fairness of a waiting run needs a
worker to become free and stay free; with as many workers as requests it does.) Nothing is assumed of users, the clock,
faults, crashes or the operator who restarts the server. Hence `EveryRunEnds` ends with "or the server is down".
`RestoreService` does the same for the steps of each restore, and for nothing that outlives the server. `Scheduler` asks
that requests and executions go on and that APScheduler fires what stays due while a worker is free. `LoginThrottle` asks
only that time passes: a block must end without any help of the threads.

## What is proved

Every invariant and every safety action property that a passing run checks is stated by a theorem, for all values of the constants.
Nothing is assumed but the modules' named assumptions on constants. Beyond types these say: an asked-for backup has a stem, a connection and
a kind; a damaged frame is none that `encrypt_file` writes (`DamageAssumption`); threads, jobs and ids are finitely many; a
restorable dump has at least a table (`RestoreAssumption`); texts and JSON values are of the classes `Validation` names
(`TextsAssumption`, `BodiesAssumption`). TLC evaluates them all. Where a theorem has a hypothesis besides, it is a constant
set the way the runs set it, and the limits above show what happens without it.

### The pipeline's rows (`BackupServiceProofs`)

* `TypeCorrect`. `StagesAlwaysAgree`, `RunningRowsHaveWorkers`: `RunningHasWorker` is not inductive: nothing in it says that a run
  that has raised left no running row, or that a dead run's row was closed by the restart. `StagesAgree` adds what a row
  may say at each stage (`RowFitsStage`), that ids, runs and deletions are numbered alike, and that a dead server runs
  nothing. The proof goes through one lemma (`OneRunMoves`) for the twelve steps of a run.
* `ImplementsLedger`, `FailedRowsStayFailed`: each step is a move of the ledger or leaves `Phase` alone, from `StagesAgree`.

### Files, deletion and verification (`BackupFilesProofs`)

* `NoFileIsOrphaned` (files can be removed, no crash), whatever else overlaps or raises. `OwnersKnown`: a file's owner is a row, a run
  about to record or remove it, or a run whose row was cut; the row of a run that has not recorded an outcome is still
  there, running and without a path, unless it was cut; what a deleting thread has read is the run's path or none.
* `TurnNamesNeverCollide`, `TurnSuccessHasItsDump`, `TurnDeletesOnlyItsFile`: theorems of `TurnSpec`, for any number of workers, deleting
  threads and backups that share all their names, under `Calm` (the store refuses nothing, the check does not raise, no
  crash, no bit rot). `TurnFiles` says of each run (`TurnRun`) that until its file is in place nothing has the name it
  chose, and that from then on the file holds its dump unless a deletion took it, so that no two of them can have one name;
  `TurnDeletions` that a path which a deleting thread has read still is the one in the row.
* `NewestSpared` (`TurnSpec`, `Calm`, and `RetentionAlone`: no administrator deletes and a sound file passes its check), for any number
  of retentions at once. `Retained`: everything that retention still has to delete has a newer success beside it, and a
  success only leaves the table once it was itself in such a list. Without the last of them it is false (`newest_lost`); an
  administrator may of course delete the newer one meanwhile.
* `VerdictsAreTrue` (`~CheckAnyRow`), with any number of checks, crashes and bit rot. `VerdictsKnown`: a path that was read after the run's
  success is the final one; a file found missing or damaged never comes back (`PartsFit`), so an old answer stays true.
* `NoVerifiedFileIsOrphaned`, `VerifiedRowsStayFailed`: the pipeline's theorems hold beside requests to verify. `VerifySteps`
  splits a step of the composition into one of the pipeline or one of a check, and the latter write only verdicts.

### The content of a backup (`BackupContentProofs`)

* `DumpIsOfOneMoment`, `DumpHasItsSelection`: `DumpAgrees` says that what has been copied has the rows (`RowsHold`) and, but for a gap,
  the definitions (`ShapesHold`) of one state in `moments`, the one the reading transaction saw when it began; `ListedOnce`
  says what the row lists.
* `OnlyTheHashedDump`, from `HashedOrDamaged`: since it was hashed, the file is what it was but for the damage of a layer, and a
  damaged layer is never read. `DeepValidRestores`, from `VerdictStands`: a verdict remembers the outcome for its file and
  key. Both rest on `Shapes`, the layers a row's options give a file.
* `WholeFile`: for every chunk size, every set of files and every edit of the stored file. `FileInv` says that all frames in
  existence were made by `encrypt_file`, and that what has been decrypted is a prefix of the file whose header is being
  read (`Prefix`); a frame that opens as the last is one after which nothing was left to read.
* `EncryptionIsUndone`: `RoundTrip` for plaintexts of any length. `CopyInv` adds that the frames are the chunks in their order, none but
  the first empty, and that a whole copy opens to its end; `ChunksJoin` shows by induction over the chunks that what
  is read in pieces and joined is the plaintext.

### Retention (`RetentionProofs`)

* `TypeCorrect`; `NewestStays`, from the lemma that a selection never contains the newest of what it selects from.
* `SelectionIsTheRules`: the loop of `select_backups_to_delete` and its docstring agree. The loop's invariant (`Passed`) says
  which buckets it has seen and that it has kept what the rules keep of what it has passed, by induction over its turns.
* `EarlierRunsDoNoHarm`, from `KeptStored` (`KeptStoredAlways`): what the rules keep of the whole history is stored. It is inductive because a
  backup that the rules do not keep today they keep neither tomorrow nor after another backup (`SurvivalIsLost`), and
  because removing what no rule keeps changes nothing about the rest.

### Restore (`RestoreServiceProofs`)

* `TypeCorrect`. `RunningRestoresHaveThreads`. `RestoredTogether`: `AllOrNothing`, with any overlap. `AllAgree` adds what is in an open
  transaction (`PendingOf`): the tables already replayed, all of the restore's own dump, and nothing where the adapter has
  none; and that a target that does not exist becomes one where all agree.
* `OverwrittenStaysKept` (`~Overlap`): the property says nothing of a restore that has not written yet, so `SerialInv` adds
  `OneAtATime` and, for the stages from the safety backup to the first write, that the target still is what the safety backup
  holds. `ImplementsContract` (`~Overlap`, and every restore asks for a safety backup), from the same invariant.
* `SuccessIsTruthful` (`~Overlap`), from `ReplayInv`: what the tool is done with is in the target (`Replayed`), and files only get worse.

### Scheduler (`SchedulerProofs`)

* `JobsAlwaysAgree` (`~Together`): `SchedInv` says, stage by stage, which schedules' jobs may lag behind their rows while one
  request is under way: none before its write, only the one in hand after it, and those that a deletion has still to take
  away; executions change no column a job depends on (`Alike`). Schedules in `half` are excepted, and only requests about
  them put them there.
* `OutcomesAreOfExecutions`, however requests overlap. `Loose`: ids are handed out in order and a PUT merges into a row that it has
  read; that a write leaves the status alone is then a matter of the columns it names (`Columns`).

### Users, logins, secrets, pools (`ServerProofs`)

* `NamesAlwaysDiffer` and `SessionsKeepTheirUser`, whatever overlaps: the table's constraint at the write, and ids that are never
  handed out again. `AdministratorRemains` (`~Together`: changes and deletions do not overlap, creations may): `AdminInv`
  adds that the row a request has seen still is the current one and that a write that removes an administrator was
  preceded by a count above one; the count is a cardinality, so lemmas from `FiniteSetTheorems` turn "more than one" into
  another administrator.
* `GuessesAreBounded`, for any limit, window and number of threads. `LoginInv`: up to every age, the wrong guesses made of a key are covered by the
  failures remembered and the threads about to record one (`Accounted`), so a thread that passes the check makes
  guesses and checks under way fewer than the limit and the threads together (`Ahead`).
* `EmptyFileIsNoKey`, whatever is killed. `SecretsStayReadable` (`~StartTogether`): `SecretInv` says that a process that is on
  has what is in the file, which only a start may change and only when nothing is encrypted under it.
* `PoolsAreBounded`. `PoolInv`: the pools together with the requests that have seen none and not yet made theirs are no more than the
  racers. `Placed` says that a job is in one place of one pool, `Settled` that the settled jobs are in none but the current
  pool, which works on no more than its bound.

### Connections and schedules (`RowsProofs`)

* `RowShapes`; `FilesKeepNothing`, whatever edits overlap with jobs.
* `RowsDescribeTheirDumps` and `DumpsGoIntoTheirKind`, with edits and deletions at any time: `Descriptions` says that the row of a
  running backup agrees with its connection, if that still is there and was not edited meanwhile, and the row of a success
  with its dump; `Referring` that ids are not handed out twice, so a lookup finds no later connection; `Fitting` the same
  of restores.
* `RowsStayAcceptable` and `PutsKeepTheRest`, for any values a body may have. `RowIsStored`: a stored row is what the API keeps of some body it
  accepted. From there on both are about validation alone: every check keeps what it has returned (`TextKept`,
  `WordKept`, `IntKept`, `BoolKept`, `TablesKept`), hence so does the whole of it (`PayloadKept`) and what the row encodes (`EncodedKept`).
  `RowIsStored` quantifies over all bodies; TLC checks its consequences only.

### Induction

What a loop of the code computes is a recursive function on `0 .. n`, never a `RECURSIVE` operator. The library's induction
theorem takes an operator as a parameter, so the lemma `Induction` states induction for a *set* of numbers, and its
proof picks a least counterexample (`WFMin` of `WellFoundedInduction`). That is enough for the loops above.

## What is only model-checked

Liveness: `EveryRunEnds`, `EveryRestoreEnds`, `EnabledRuns`, `BlockEnds`. The prover does not reason about fairness. The
mutated forms and the counterexamples, too, are TLC's.

## Not modelled

* The log entry and notification after `Mark`, log files and notifications in general: they change no state that is
  modelled.
* A clock that is set back, and rows whose `created_at` cannot be parsed (the program writes none).
* The option file with the password that the MySQL and MongoDB tools read. It is removed on every way out of the tool, but
  an error of its removal is swallowed and a server that dies meanwhile leaves it; no file of the model depends on it.
* Custom destinations and disk-space limits: they are ways for `setup` to fail. The allowed roots are constant; a root that
  a restart removes leaves the files in it behind, as the docstring of `delete_backup` says.
* What `mongodump` sees of a transaction: it takes no snapshot, nothing promises one, and `OneMoment` leaves it out.
* The drivers' own connections, probes and read-only queries; paging and filtering of lists; rendering, error pages and
  the JavaScript of the front end, except which rows it offers to verify.
* Ciphers, digests and password hashes: they are what they promise. Memory, e.g. of the dictionary of failed logins.
* The text of settings and the schema's creation: read or run once, before anything else.

## Plan

* Theorems with weaker hypotheses: `TurnSuccessHasItsDump` through crashes that do not fall between an unlink and its DELETE,
  and beside a store that refuses accesses before line 145; the compositions of `BackupScripts`.
* What liveness needs of safety: that a run, a restore and a deletion that has not ended has a step it can take. That is
  `ENABLED`, which stays with TLC, but its cases (`Work(b)` has a true guard at each stage) can be lemmas.
* `OwnersKnown` with crashes: which files a crash may leave, and that it leaves no others.
* Connections whose requests fail between row and job, as `Scheduler` has them.
