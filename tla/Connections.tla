----------------------------- MODULE Connections -----------------------------
(***************************************************************************)
(* app/services/connection_service.py beside what hangs on a connection:   *)
(* schedules, backups that are pending while the connection is edited or   *)
(* deleted, and restores that look the connection up twice.                *)
(***************************************************************************)
EXTENDS Validation

CONSTANTS
    ConnectionIds,  \* connection ids, handed out in order (AUTOINCREMENT)
    Jobs,           \* backups, each with at most one restore
    ConnectionBodies,   \* request bodies for POST and PUT /api/databases
    Overrides       \* databases named by a safety backup; Null for the others

ASSUME ConnectionsAssumption == ConnectionIds \subseteq Nat \ {0}

VARIABLES
    conn,       \* conn[c] : the row of database_connections, or Absent
    lastId,     \* the highest id handed out
    scheduled,  \* the connections whose schedules have rows
    backup,     \* backup[j] : the row of the backup, or Absent
    dump,       \* dump[j] : the kind and name of the database in the file
    restore,    \* restore[j] : a restore of j, or Absent
    edited      \* history: the work whose connection came to name another database before it ran

connectionVars == <<conn, lastId, scheduled, backup, dump, restore, edited>>

Absent == [key \in {} |-> Null]
Present(rows) == {k \in DOMAIN rows : rows[k] # Absent}
Kind(row) == [database_type |-> row.database_type, database_name |-> row.database_name]

\* UNIQUE COLLATE NOCASE
SameName(a, b) == Lower(a) = Lower(b)

Clash(name, others) == \E c \in others : SameName(conn[c].name, name)

Pending(c) ==
    {<<"backup", j>> : j \in {k \in Present(backup) : backup[k].status = "running" /\ backup[k].connection = c}}
    \cup {<<"restore", j>> : j \in {k \in Present(restore) : ~restore[k].done /\ restore[k].connection = c}}

\* The fields that create_connection and update_connection copy.
Row(payload, credential) ==
    [name |-> payload.name, database_type |-> payload.database_type, host |-> payload.host,
     port |-> payload.port, username |-> payload.username, database_name |-> payload.database_name,
     credential |-> credential]

CreateConnection(body) ==
    LET payload == ConnectionPayload(body)
    IN /\ lastId + 1 \in ConnectionIds
       /\ Accepted(payload) /\ ~Clash(payload.name, Present(conn))
       /\ lastId' = lastId + 1
       /\ conn' = [conn EXCEPT ![lastId + 1] = Row(payload, payload.password)]
       /\ UNCHANGED <<scheduled, backup, dump, restore, edited>>

\* Mutated form: no password in the request, no change of the stored one.
KeptCredential(payload, stored) == IF payload.password # Null THEN payload.password ELSE stored

Credential(payload, stored) ==
    IF payload.password # Null THEN payload.password
    ELSE IF payload.database_type = Text("sqlite") THEN Null
    ELSE stored

\* Nothing waits for the backups and restores that are to use the connection.
UpdateConnection(c, body) ==
    LET payload == ConnectionPayload(body)
    IN /\ c \in Present(conn)
       /\ Accepted(payload) /\ ~Clash(payload.name, Present(conn) \ {c})
       /\ conn' = [conn EXCEPT ![c] = Row(payload, Credential(payload, conn[c].credential))]
       /\ edited' = IF Kind(conn'[c]) = Kind(conn[c]) THEN edited ELSE edited \cup Pending(c)
       /\ UNCHANGED <<lastId, scheduled, backup, dump, restore>>

\* ON DELETE CASCADE for schedules, SET NULL for backups.
ClearReferences(c) ==
    /\ scheduled' = scheduled \ {c}
    /\ backup' = [j \in Jobs |-> IF backup[j] # Absent /\ backup[j].connection = c
                                 THEN [backup[j] EXCEPT !.connection = 0] ELSE backup[j]]

DeleteConnection(c) ==
    /\ c \in Present(conn)
    /\ conn' = [conn EXCEPT ![c] = Absent]
    /\ ClearReferences(c)
    /\ UNCHANGED <<lastId, dump, restore, edited>>

Schedule(c) ==
    /\ c \in Present(conn) \ scheduled
    /\ scheduled' = scheduled \cup {c}
    /\ UNCHANGED <<conn, lastId, backup, dump, restore, edited>>

----------------------------------------------------------------------------
(* Backups and restores that use a connection *)

\* Mutated form: the row of a safety backup names the connection's database.
OwnDatabase(c, override) == Kind(conn[c])

\* database_override or connection.database_name
Database(c, override) ==
    IF override = Null THEN Kind(conn[c]) ELSE [Kind(conn[c]) EXCEPT !.database_name = override]

PrepareBackup(j, c, override) ==
    /\ backup[j] = Absent /\ c \in Present(conn)
    /\ backup' = [backup EXCEPT ![j] =
                     [connection |-> c, override |-> override, status |-> "running",
                      database_type |-> Database(c, override).database_type,
                      database_name |-> Database(c, override).database_name]]
    /\ UNCHANGED <<conn, lastId, scheduled, dump, restore, edited>>

\* execute_backup looks the connection up again and dumps what it names now.
RunBackup(j) ==
    LET c == backup[j].connection
    IN /\ backup[j] # Absent /\ backup[j].status = "running"
       /\ \/ /\ c \in Present(conn)
             /\ backup' = [backup EXCEPT ![j].status = "success"]
             /\ dump' = [dump EXCEPT ![j] = IF backup[j].override = Null THEN Kind(conn[c])
                          ELSE [Kind(conn[c]) EXCEPT !.database_name = backup[j].override]]
          \/ /\ c \notin Present(conn)
             /\ backup' = [backup EXCEPT ![j].status = "failed"]
             /\ UNCHANGED dump
       /\ UNCHANGED <<conn, lastId, scheduled, restore, edited>>

\* Mutated form: any connection will do.
Compatible(j, c) == TRUE

\* prepare_restore compares the kinds of database.
SameKind(j, c) == conn[c].database_type = backup[j].database_type

PrepareRestore(j, c) ==
    /\ restore[j] = Absent /\ c \in Present(conn)
    /\ backup[j] # Absent /\ backup[j].status = "success" /\ SameKind(j, c)
    /\ restore' = [restore EXCEPT ![j] = [connection |-> c, done |-> FALSE, into |-> Null]]
    /\ UNCHANGED <<conn, lastId, scheduled, backup, dump, edited>>

\* execute_restore looks the connection up again and takes its adapter.
RunRestore(j) ==
    LET c == restore[j].connection
    IN /\ restore[j] # Absent /\ ~restore[j].done
       /\ restore' = [restore EXCEPT ![j].done = TRUE,
                          ![j].into = IF c \in Present(conn) THEN conn[c].database_type ELSE Null]
       /\ UNCHANGED <<conn, lastId, scheduled, backup, dump, edited>>

ConnectionInit ==
    /\ conn = [c \in ConnectionIds |-> Absent] /\ lastId = 0 /\ scheduled = {}
    /\ backup = [j \in Jobs |-> Absent] /\ dump = [j \in Jobs |-> Absent]
    /\ restore = [j \in Jobs |-> Absent] /\ edited = {}

ConnectionNext ==
    \/ \E body \in ConnectionBodies : CreateConnection(body) \/ \E c \in ConnectionIds : UpdateConnection(c, body)
    \/ \E c \in ConnectionIds : DeleteConnection(c) \/ Schedule(c)
    \/ \E j \in Jobs, c \in ConnectionIds : \E o \in Overrides : PrepareBackup(j, c, o)
    \/ \E j \in Jobs, c \in ConnectionIds : PrepareRestore(j, c)
    \/ \E j \in Jobs : RunBackup(j) \/ RunRestore(j)

ConnectionSpec == ConnectionInit /\ [][ConnectionNext]_connectionVars

----------------------------------------------------------------------------
(* Properties *)

\* A connection edited into an SQLite file keeps nothing of the server it was,
\* so a later edit back cannot send an old password to a new server.
SQLiteKeepsNothing ==
    \A c \in Present(conn) : conn[c].database_type = Text("sqlite") =>
        \A key \in {"host", "port", "username", "credential"} : conn[c][key] = Null

\* The row of a successful backup, which was written when it was requested, names
\* the kind and the name of the database that is in its file, although the
\* connection is looked up again: another connection never gets in the place of
\* one that was deleted, and the only edits that part the two are those between
\* the request and the run.
RowDescribesItsDump ==
    \A j \in Present(backup) :
        backup[j].status = "success" /\ <<"backup", j>> \notin edited => dump[j] = Kind(backup[j])

\* A dump is replayed by the adapter of the kind that made it, however the
\* connection is edited after the backup, deleted or created again; but for edits
\* between a request, of the backup or of the restore, and its run.
LikeIntoLike ==
    \A j \in Present(restore) :
        edited \cap {<<"backup", j>>, <<"restore", j>>} = {} =>
            restore[j].into \in {Null, dump[j].database_type}
=============================================================================
