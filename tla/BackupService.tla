--------------------------- MODULE BackupService ---------------------------
(***************************************************************************)
(* The backup pipeline of app/services/backup_service.py together with     *)
(* everything that touches the same rows and files while it runs: the      *)
(* other workers, administrators who delete backups, retention, and the    *)
(* server stopping at any point and starting again.                        *)
(*                                                                         *)
(* One action is one access to state other threads can see: a repository   *)
(* call (its own short transaction) or a file-system call on the backup    *)
(* directory.  What a worker does in its private temporary directory is    *)
(* part of the step that follows it.                                       *)
(*                                                                         *)
(* A file's content is the id of the backup whose dump it holds, so that   *)
(* "the checksum matches" is equality with the row's own id.               *)
(***************************************************************************)
EXTENDS Integers, FiniteSets

CONSTANTS
    MaxBackups,     \* bound: rows created in one behaviour
    MaxSecond,      \* bound: the clock, in seconds, that file names carry
    MaxVariant,     \* unique_path tries <name>, <name>_1 .. <name>_MaxVariant
    Stems,          \* labels of the databases, the first part of a file name
    Conns,          \* saved connections
    Ask,            \* Ask[b] : what the b-th request asks for
    Workers,        \* threads that run backups (executor and scheduler)
    Admins,         \* threads serving DELETE /backups/<id>
    Reapers,        \* threads applying a retention policy
    Faults,         \* the faults that may happen
    NoName          \* final_path before unique_path, file_path before success

Ids == 1..MaxBackups
Names == Stems \X (0..MaxSecond) \X (0..MaxVariant)
Deleters == Admins \cup Reapers

\* setup, dump, move: that part of execute_backup raises.  store: an access
\* to the rows raises (locked, disk full); erase: a DELETE raises.  deep: a sound
\* file fails the deep check (another key, for instance); unexpected: the check
\* itself raises.  stuck: a file cannot be removed.  crash: the server dies.
\* rot: a file changes behind its back.
FaultKinds == {"setup", "dump", "move", "store", "erase", "deep", "unexpected",
               "stuck", "crash", "rot"}

NoFile  == 0        \* nothing has this name
Damaged == -1       \* bytes that match no recorded checksum
Contents == Ids \cup {NoFile, Damaged}

ASSUME BoundsAssumption ==
    MaxBackups \in Nat /\ MaxSecond \in Nat /\ MaxVariant \in Nat /\ Workers \in Nat
ASSUME AskAssumption ==
    Ask \in [Ids -> [stem : Stems, conn : Conns,
                     kind : {"manual", "scheduled", "safety"}, verify : BOOLEAN]]
ASSUME FaultsAssumption == Faults \subseteq FaultKinds
ASSUME NoNameAssumption == NoName \notin Names
ASSUME DeletersAssumption == Admins \cap Reapers = {}

VARIABLES
    nextId,     \* the next AUTOINCREMENT id
    rows,       \* the backups table
    disk,       \* the backup directory
    parts,      \* the .part files in it
    clock,
    up,         \* is the server running?
    pc,         \* pc[b] : where execute_backup of row b is
    base,       \* base[b] : the second in the name chosen at line 98
    final,      \* final[b] : the local final_path
    verdict,    \* verdict[b] : the verification status about to be stored
    doomed,     \* doomed[d] : rows (as read) that d is still to delete
    held,       \* held[d] : the row whose file d has removed, else 0
    cut         \* history: the backups whose deletion began while they were running

vars == <<nextId, rows, disk, parts, clock, up, pc, base, final, verdict, doomed, held, cut>>
store == <<rows, disk, parts>>
locals == <<base, final, verdict>>
deleting == <<doomed, held, cut>>

Statuses == {"absent", "running", "success", "failed"}
Verdicts == {"not_verified", "valid", "invalid", "missing"}
Rows == [status : Statuses, verification : Verdicts, path : Names \cup {NoName}]
Absent  == [status |-> "absent",  verification |-> "not_verified", path |-> NoName]
Started == [status |-> "running", verification |-> "not_verified", path |-> NoName]

Active == {"prepared", "queued", "dump", "name", "move", "replace", "record", "reread",
           "verify", "persist", "cleanup", "mark"}

\* done: the run has ended by itself; raised: with an exception, its row being
\* gone; lost: with an exception, its row staying as it was; dead: with the server.
Stages == Active \cup {"idle", "done", "raised", "lost", "dead"}

Present(b) == rows[b].status # "absent"
Goto(b, stage) == pc' = [pc EXCEPT ![b] = stage]

\* UPDATE backups SET ... WHERE id = b : nothing happens when b was deleted.
SetRow(b, row) == rows' = IF Present(b) THEN [rows EXCEPT ![b] = row] ELSE rows

\* remove_quietly: the caller never learns that the file stayed.
RemoveQuietly(n) ==
    \/ disk' = IF n = NoName THEN disk ELSE [disk EXCEPT ![n] = NoFile]
    \/ "stuck" \in Faults /\ UNCHANGED disk

----------------------------------------------------------------------------
(* Requests and time *)

\* prepare_backup: a row is born running ...
Request(b) ==
    /\ up /\ b = nextId
    /\ nextId' = nextId + 1
    /\ rows' = [rows EXCEPT ![b] = Started]
    /\ Goto(b, "prepared")
    /\ UNCHANGED <<disk, parts, clock, up, locals, deleting>>

\* ... gets its code, is read again and handed to a worker.  If one of these
\* raises, the row stays and nobody works on it; if the row has been deleted,
\* the caller fails on the None it reads.
Submit(b) ==
    /\ up /\ pc[b] = "prepared"
    /\ \/ Present(b) /\ Goto(b, "queued")
       \/ "store" \in Faults /\ Goto(b, "lost")
       \/ ~Present(b) /\ Goto(b, "raised")
    /\ UNCHANGED <<nextId, store, clock, up, locals, deleting>>

Tick ==
    /\ clock < MaxSecond
    /\ clock' = clock + 1
    /\ UNCHANGED <<nextId, store, up, pc, locals, deleting>>

----------------------------------------------------------------------------
(* execute_backup *)

Busy == {b \in Ids : pc[b] \in Active \ {"prepared", "queued"}}

\* Lines 88-98: read the row (outside the try block) and the connection, fix the
\* second in the file name.  The row may be gone: the failure handler then fails
\* on it too (line 172).
Start(b) ==
    /\ up /\ pc[b] = "queued" /\ Cardinality(Busy) < Workers
    /\ \/ Present(b) /\ Goto(b, "dump")
       \/ Present(b) /\ "setup" \in Faults /\ Goto(b, "cleanup")
       \/ ~Present(b) /\ Goto(b, "raised")
       \/ "store" \in Faults /\ Goto(b, "lost")
    /\ base' = [base EXCEPT ![b] = clock]
    /\ UNCHANGED <<nextId, store, clock, up, final, verdict, deleting>>

\* Lines 99-133: dump, compress, encrypt, hash, all in a private directory.
Dump(b) ==
    /\ up /\ pc[b] = "dump"
    /\ \/ Goto(b, "name")
       \/ "dump" \in Faults /\ Goto(b, "cleanup")
    /\ UNCHANGED <<nextId, store, clock, up, locals, deleting>>

\* <label>_<time stamp>, then <label>_<time stamp>_<v>
Variant(b, v) == <<Ask[b].stem, base[b], v>>
Unused(b) == {v \in 0..MaxVariant : disk[Variant(b, v)] = NoFile}

\* Mutated form: the plain name is used whether or not a file has it.
ChoosePlainName(b) ==
    /\ up /\ pc[b] = "name"
    /\ final' = [final EXCEPT ![b] = Variant(b, 0)]
    /\ Goto(b, "move")
    /\ UNCHANGED <<nextId, store, clock, up, base, verdict, deleting>>

\* unique_path: the first variant that no file has, at this moment.
ChooseName(b) ==
    /\ up /\ pc[b] = "name"
    /\ \/ \E v \in Unused(b) :
             /\ \A w \in Unused(b) : v <= w
             /\ final' = [final EXCEPT ![b] = Variant(b, v)]
             /\ Goto(b, "move")
       \/ Unused(b) = {} /\ Goto(b, "cleanup") /\ UNCHANGED final
    /\ UNCHANGED <<nextId, store, clock, up, base, verdict, deleting>>

\* Lines 136-137.  A move that fails half-way leaves a piece of the file.
MovePart(b) ==
    /\ up /\ pc[b] = "move"
    /\ \/ parts' = [parts EXCEPT ![final[b]] = b] /\ Goto(b, "replace")
       \/ /\ "move" \in Faults
          /\ parts' = [parts EXCEPT ![final[b]] = Damaged]
          /\ Goto(b, "cleanup")
    /\ UNCHANGED <<nextId, rows, disk, clock, up, locals, deleting>>

\* Line 138: os.replace overwrites; without a .part file it raises.
Replace(b) ==
    /\ up /\ pc[b] = "replace"
    /\ \/ /\ parts[final[b]] # NoFile
          /\ disk' = [disk EXCEPT ![final[b]] = parts[final[b]]]
          /\ parts' = [parts EXCEPT ![final[b]] = NoFile]
          /\ Goto(b, "record")
       \/ /\ parts[final[b]] = NoFile
          /\ Goto(b, "cleanup")
          /\ UNCHANGED <<disk, parts>>
    /\ UNCHANGED <<nextId, rows, clock, up, locals, deleting>>

\* Mutated form: an upsert brings a deleted row back.
RecordUpsert(b) ==
    /\ up /\ pc[b] = "record"
    /\ rows' = [rows EXCEPT ![b].status = "success", ![b].path = final[b]]
    /\ Goto(b, "reread")
    /\ UNCHANGED <<nextId, disk, parts, clock, up, locals, deleting>>

\* Lines 145-149: success is recorded before the file has been verified.
Record(b) ==
    /\ up /\ pc[b] = "record"
    /\ \/ /\ SetRow(b, [rows[b] EXCEPT !.status = "success", !.path = final[b]])
          /\ Goto(b, "reread")
       \/ "store" \in Faults /\ Goto(b, "cleanup") /\ UNCHANGED rows
    /\ UNCHANGED <<nextId, disk, parts, clock, up, locals, deleting>>

\* Line 150, and line 157 when no verification was asked for.  The row's path
\* and checksum are this run's own, so only its absence is news.
Reread(b) ==
    /\ up /\ pc[b] = "reread"
    /\ \/ Present(b) /\ Ask[b].verify /\ Goto(b, "verify") /\ UNCHANGED verdict
       \/ /\ Present(b) /\ ~Ask[b].verify /\ Goto(b, "persist")
          /\ verdict' = [verdict EXCEPT ![b] = "not_verified"]
       \/ ~Present(b) /\ Goto(b, "raised") /\ UNCHANGED verdict
       \/ Present(b) /\ "store" \in Faults /\ Goto(b, "cleanup") /\ UNCHANGED verdict
    /\ UNCHANGED <<nextId, store, clock, up, base, final, deleting>>

\* What verify_backup(deep) may answer for the file that b's row names.
Answers(b) ==
    CASE disk[final[b]] = NoFile -> {"missing"}
      [] disk[final[b]] = b      -> IF "deep" \in Faults THEN {"valid", "invalid"} ELSE {"valid"}
      [] OTHER                   -> {"invalid"}

\* An exception that is not a DBSafeError leaves verify_backup (a full
\* temporary directory, a read error) and counts as an unexpected failure.
Verify(b) ==
    /\ up /\ pc[b] = "verify"
    /\ \/ /\ \E v \in Answers(b) : verdict' = [verdict EXCEPT ![b] = v]
          /\ Goto(b, "persist")
       \/ /\ "unexpected" \in Faults /\ disk[final[b]] # NoFile
          /\ Goto(b, "cleanup") /\ UNCHANGED verdict
    /\ UNCHANGED <<nextId, store, clock, up, base, final, deleting>>

\* The verdict is stored; a bad one becomes "Backup verification failed", the
\* one failure that keeps the file (lines 173-174).  The write may itself raise;
\* the log entry and the notification after it never do.
Persist(b) ==
    /\ up /\ pc[b] = "persist"
    /\ \/ /\ SetRow(b, [rows[b] EXCEPT !.verification = verdict[b]])
          /\ Goto(b, IF verdict[b] \in {"valid", "not_verified"} THEN "done" ELSE "mark")
       \/ "store" \in Faults /\ Goto(b, "cleanup") /\ UNCHANGED rows
    /\ UNCHANGED <<nextId, disk, parts, clock, up, locals, deleting>>

\* Mutated form: a failed run leaves its file behind.
KeepFile(b) ==
    /\ up /\ pc[b] = "cleanup"
    /\ Goto(b, "mark")
    /\ UNCHANGED <<nextId, store, clock, up, locals, deleting>>

\* Lines 175-176: whatever file has the chosen name is removed.
Cleanup(b) ==
    /\ up /\ pc[b] = "cleanup"
    /\ RemoveQuietly(final[b])
    /\ Goto(b, "mark")
    /\ UNCHANGED <<nextId, rows, parts, clock, up, locals, deleting>>

\* Mutated form: a status of its own for the interrupted, which no reader knows.
MarkAborted(b) ==
    /\ up /\ pc[b] = "mark"
    /\ SetRow(b, [rows[b] EXCEPT !.status = "aborted"])
    /\ Goto(b, "done")
    /\ UNCHANGED <<nextId, disk, parts, clock, up, locals, deleting>>

\* Mutated form: the failure is logged and never stored.
ForgetToMark(b) ==
    /\ up /\ pc[b] = "mark"
    /\ Goto(b, "done")
    /\ UNCHANGED <<nextId, store, clock, up, locals, deleting>>

\* Lines 177-179.  Nothing catches the failure of this write: the row keeps what
\* it said, running or success.
Mark(b) ==
    /\ up /\ pc[b] = "mark"
    /\ \/ SetRow(b, [rows[b] EXCEPT !.status = "failed"]) /\ Goto(b, "done")
       \/ "store" \in Faults /\ Goto(b, "lost") /\ UNCHANGED rows
    /\ UNCHANGED <<nextId, disk, parts, clock, up, locals, deleting>>

Work(b) ==
    \/ Submit(b) \/ Start(b) \/ Dump(b) \/ ChooseName(b) \/ MovePart(b) \/ Replace(b) \/ Record(b)
    \/ Reread(b) \/ Verify(b) \/ Persist(b) \/ Cleanup(b) \/ Mark(b)

----------------------------------------------------------------------------
(* Deletion *)

AsRead(b) == <<b, rows[b].path>>
Free(d) == doomed[d] = {}

\* DELETE /backups/<id>: get_backup.  Neither the details page nor the route
\* asks for the status.
Fetch(d, b) ==
    /\ up /\ Free(d) /\ Present(b)
    /\ doomed' = [doomed EXCEPT ![d] = {AsRead(b)}]
    /\ cut' = IF rows[b].status = "running" THEN cut \cup {b} ELSE cut
    /\ UNCHANGED <<nextId, store, clock, up, pc, locals, held>>

\* list_successful_for_connection(c, kind="scheduled")
Candidates(c) ==
    {b \in Ids : rows[b].status = "success" /\ Ask[b].kind = "scheduled" /\ Ask[b].conn = c}

\* select_backups_to_delete: depending on the policy, any candidates but the
\* newest (created_at is the order of ids).
Selectable(c) == {b \in Candidates(c) : \E newer \in Candidates(c) : newer > b}

\* apply_retention reads the list once and works through it.
ListDoomed(d, c) ==
    /\ up /\ Free(d)
    /\ \E S \in SUBSET Selectable(c) \ {{}} :
          doomed' = [doomed EXCEPT ![d] = {AsRead(b) : b \in S}]
    /\ UNCHANGED <<nextId, store, clock, up, pc, locals, held, cut>>

\* delete_backup, newest first: the file of the row as it was read ...
Unlink(d) ==
    /\ up /\ held[d] = 0
    /\ \E e \in doomed[d] :
          /\ \A f \in doomed[d] : f[1] <= e[1]
          /\ RemoveQuietly(e[2])
          /\ held' = [held EXCEPT ![d] = e[1]]
    /\ UNCHANGED <<nextId, rows, parts, clock, up, pc, locals, doomed, cut>>

\* ... and then the row.  If that raises, the rest of the list is given up.
RemoveRow(d) ==
    /\ up /\ held[d] # 0
    /\ \/ /\ rows' = [rows EXCEPT ![held[d]] = Absent]
          /\ doomed' = [doomed EXCEPT ![d] = {e \in @ : e[1] # held[d]}]
       \/ /\ "erase" \in Faults
          /\ UNCHANGED rows
          /\ doomed' = [doomed EXCEPT ![d] = {}]
    /\ held' = [held EXCEPT ![d] = 0]
    /\ UNCHANGED <<nextId, disk, parts, clock, up, pc, locals, cut>>

Delete(d) == Unlink(d) \/ RemoveRow(d)

----------------------------------------------------------------------------
(* The environment *)

\* The process dies: threads and temporary directories are lost.
Crash ==
    /\ up /\ "crash" \in Faults
    /\ up' = FALSE
    /\ pc' = [b \in Ids |-> IF pc[b] \in Active \cup {"lost"} THEN "dead" ELSE pc[b]]
    /\ doomed' = [d \in Deleters |-> {}]
    /\ held' = [d \in Deleters |-> 0]
    /\ UNCHANGED <<nextId, store, clock, locals, cut>>

\* mark_running_as_failed
Interrupted == [b \in Ids |-> IF rows[b].status = "running"
                              THEN [rows[b] EXCEPT !.status = "failed"] ELSE rows[b]]

\* Mutated form: start-up forgets the interrupted runs.
RestartUnmarked ==
    /\ ~up /\ up' = TRUE
    /\ UNCHANGED <<nextId, store, clock, pc, locals, deleting>>

\* init_database, before anything is served.
Restart ==
    /\ ~up /\ up' = TRUE
    /\ rows' = Interrupted
    /\ UNCHANGED <<nextId, disk, parts, clock, pc, locals, deleting>>

BitRot(n) ==
    /\ "rot" \in Faults /\ disk[n] \in Ids
    /\ disk' = [disk EXCEPT ![n] = Damaged]
    /\ UNCHANGED <<nextId, rows, parts, clock, up, pc, locals, deleting>>

----------------------------------------------------------------------------

Init ==
    /\ nextId = 1 /\ clock = 0 /\ up = TRUE
    /\ rows = [b \in Ids |-> Absent]
    /\ disk = [n \in Names |-> NoFile] /\ parts = [n \in Names |-> NoFile]
    /\ pc = [b \in Ids |-> "idle"]
    /\ base = [b \in Ids |-> 0]
    /\ final = [b \in Ids |-> NoName]
    /\ verdict = [b \in Ids |-> "not_verified"]
    /\ doomed = [d \in Deleters |-> {}] /\ held = [d \in Deleters |-> 0]
    /\ cut = {}

Next ==
    \/ \E b \in Ids : Request(b) \/ Work(b)
    \/ \E d \in Admins, b \in Ids : Fetch(d, b)
    \/ \E d \in Reapers, c \in Conns : ListDoomed(d, c)
    \/ \E d \in Deleters : Delete(d)
    \/ \E n \in Names : BitRot(n)
    \/ Tick \/ Crash \/ Restart

Spec == Init /\ [][Next]_vars

\* Threads of a running server keep going; nothing makes users, clocks, faults
\* or operators act.
FairSpec ==
    /\ Spec
    /\ \A b \in Ids : WF_vars(Work(b))

----------------------------------------------------------------------------
(* Properties *)

TypeOK ==
    /\ nextId \in 1..(MaxBackups + 1)
    /\ rows \in [Ids -> Rows]
    /\ disk \in [Names -> Contents] /\ parts \in [Names -> Contents]
    /\ clock \in 0..MaxSecond /\ up \in BOOLEAN
    /\ pc \in [Ids -> Stages]
    /\ base \in [Ids -> 0..MaxSecond]
    /\ final \in [Ids -> Names \cup {NoName}]
    /\ verdict \in [Ids -> Verdicts]
    /\ doomed \in [Deleters -> SUBSET (Ids \X (Names \cup {NoName}))]
    /\ held \in [Deleters -> Ids \cup {0}]
    /\ cut \subseteq Ids

\* While the server runs, a row that says running has a worker on its way to an
\* outcome, or the store refused the very access that would have brought it
\* there: no other error path of prepare_backup and execute_backup, no deletion
\* and no restart leaves a row running for good.
RunningHasWorker ==
    up => \A b \in Ids : rows[b].status = "running" => pc[b] \in Active \cup {"lost"}

\* A failed row never becomes anything but a deleted row: no late success, no
\* verification result and no second failure handler revives it.
FailedIsFinal ==
    [][\A b \in Ids : rows[b].status = "failed" => rows'[b].status \in {"failed", "absent"}]_vars

\* Behind every success row lies the dump that this very run made, under the
\* path the row gives, unless a deletion is between the file and the row or the
\* run itself is about to turn the row to failed.
HasItsDump(b) ==
    rows[b].status = "success" =>
        \/ disk[rows[b].path] = b
        \/ pc[b] = "mark"
        \/ \E d \in Deleters : held[d] = b
SuccessHasItsDump == \A b \in Ids : HasItsDump(b)

\* Two success rows never name the same file, except that the name of a file
\* that a deletion has just removed may be taken before its row is gone.
NamesNeverCollide ==
    LET Kept == {b \in Ids : rows[b].status = "success" /\ \A d \in Deleters : held[d] # b}
    IN \A a, b \in Kept : a # b => rows[a].path # rows[b].path

\* delete_backup removes "a backup's file", the dump of the backup it deletes or
\* nothing: never a file that meanwhile belongs to another backup.
DeletesOnlyItsFile ==
    [][\A d \in Deleters, n \in Names :
          held[d] = 0 /\ held'[d] # 0 /\ disk[n] # disk'[n] => disk[n] \in {held'[d], Damaged}]_vars

\* Every file in the backup directory is named by a row, or by a run that is
\* about to record or to remove it, or it is the file of a backup whose deletion
\* began while it was still running.
NoOrphanFile ==
    \A n \in Names : disk[n] # NoFile =>
        \E b \in Ids :
            \/ rows[b].path = n
            \/ final[b] = n /\ (pc[b] \in {"record", "cleanup"} \/ b \in cut)

\* "The newest backup is never removed" by retention: when it removes the file
\* of a scheduled backup, a newer successful scheduled backup of that connection
\* exists at that moment.
RetentionSparesNewest ==
    [][\A d \in Reapers : held[d] = 0 /\ held'[d] # 0 =>
          \E newer \in Candidates(Ask[held'[d]].conn) : newer > held'[d]]_vars

\* Every run ends: a running row gets an outcome, or is deleted, or the store
\* refuses the access its outcome depends on, or the server stops (and the next
\* start fails the row).
EveryRunEnds ==
    \A b \in Ids : rows[b].status = "running" ~>
                    (rows[b].status # "running" \/ pc[b] = "lost" \/ ~up)

\* The row's life is the ledger's: an unused id is unborn, a used one without a
\* row is gone.
Phase == [b \in Ids |-> IF b >= nextId THEN "unborn"
                        ELSE IF Present(b) THEN rows[b].status ELSE "gone"]
Ledger == INSTANCE BackupLedger WITH phase <- Phase
LedgerHolds == Ledger!LedgerSpec

----------------------------------------------------------------------------
(* What makes RunningHasWorker, FailedIsFinal and LedgerHolds inductive *)

\* The row still says running (or is deleted), and then success.
BeforeSuccess == {"prepared", "queued", "dump", "name", "move", "replace", "record"}
AfterSuccess  == {"reread", "verify", "persist"}

\* What the row can say while its run is at its present stage.
RowFitsStage(b) ==
    /\ pc[b] \in {"idle", "raised"} => rows[b].status = "absent"
    /\ pc[b] \in BeforeSuccess => rows[b].status \in {"absent", "running"}
    /\ pc[b] \in AfterSuccess => rows[b].status \in {"absent", "success"}
    /\ pc[b] \in {"cleanup", "mark"} => rows[b].status # "failed"
    /\ pc[b] = "done" => rows[b].status # "running"
    /\ pc[b] = "lost" => rows[b].status # "failed"
    /\ pc[b] = "dead" /\ up => rows[b].status # "running"

\* Runs exist for the ids handed out and no others.
RunsAreNumbered == \A b \in Ids : pc[b] = "idle" <=> b >= nextId

\* Deletions concern ids that have been handed out.
DeletionsAreNumbered ==
    \A d \in Deleters : held[d] < nextId /\ \A e \in doomed[d] : e[1] < nextId

\* A row's status is one its run's stage allows, and a server that is down runs
\* nothing.
StagesAgree ==
    /\ \A b \in Ids : RowFitsStage(b)
    /\ RunsAreNumbered
    /\ DeletionsAreNumbered
    /\ ~up => \A b \in Ids : pc[b] \notin Active \cup {"lost"}

----------------------------------------------------------------------------
(* Behaviours without the two overlaps that unique_path and delete_backup   *)
(* leave open (the runs name_collision and stale_delete show each)          *)

\* Two runs hold one name between looking for it and making or removing its file.
NameRace ==
    \E a, b \in Ids :
        /\ a # b /\ final[a] = final[b] /\ final[a] # NoName
        /\ {pc[a], pc[b]} \subseteq {"move", "replace", "cleanup"}

\* Two threads are deleting one row.
DeleteRace ==
    \E d, e \in Deleters : d # e /\ \E x \in doomed[d], y \in doomed[e] : x[1] = y[1]

InTurn == ~NameRace /\ ~DeleteRace

TurnSpec == Init /\ [][Next /\ InTurn']_vars

=============================================================================
