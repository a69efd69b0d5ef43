----------------------------- MODULE RowsProofs -----------------------------
(***************************************************************************)
(* Theorems about Connections and Schedules: what rows of connections and  *)
(* of backups say while connections are edited and deleted, for any number *)
(* of connections and jobs, and what requests make of the row of a         *)
(* schedule, for any requests.                                             *)
(***************************************************************************)
EXTENDS Schedules, Connections, FiniteSetTheorems, SequenceTheorems, TLAPS

\* The rows are rows of their tables, and ids are not handed out twice.
Shapes ==
    /\ DOMAIN conn = ConnectionIds /\ DOMAIN backup = Jobs /\ DOMAIN dump = Jobs /\ DOMAIN restore = Jobs
    /\ lastId \in Nat /\ \A c \in Present(conn) : c <= lastId
    /\ \A j \in Present(backup) : DOMAIN backup[j] =
          {"connection", "override", "status", "database_type", "database_name"}
    /\ \A j \in Present(restore) : DOMAIN restore[j] = {"connection", "done", "into"}

\* A row of a connection is not Absent, and says what it was given.
LEMMA RowIsPresent ==
    ASSUME NEW payload, NEW credential
    PROVE  Row(payload, credential) # Absent
<1>1. DOMAIN Row(payload, credential) # {}
  BY DEF Row
<1>2. DOMAIN Absent = {}
  BY DEF Absent
<1> QED BY <1>1, <1>2

LEMMA NextCases ==
    ASSUME [ConnectionNext]_connectionVars
    PROVE  \/ \E body \in ConnectionBodies : CreateConnection(body)
           \/ \E body \in ConnectionBodies, c \in ConnectionIds : UpdateConnection(c, body)
           \/ \E c \in ConnectionIds : DeleteConnection(c) \/ Schedule(c)
           \/ \E j \in Jobs, c \in ConnectionIds, o \in Overrides : PrepareBackup(j, c, o)
           \/ \E j \in Jobs, c \in ConnectionIds : PrepareRestore(j, c)
           \/ \E j \in Jobs : RunBackup(j) \/ RunRestore(j)
           \/ UNCHANGED connectionVars
<1> QED BY Zenon DEF ConnectionNext

\* The steps that write rows of connections, and what they write.
LEMMA ConnectionSteps ==
    ASSUME Shapes, [ConnectionNext]_connectionVars
    PROVE  /\ DOMAIN conn' = ConnectionIds
           /\ \A c \in ConnectionIds :
                \/ conn'[c] = conn[c]
                \/ conn'[c] = Absent /\ \A j \in Jobs : backup'[j] # Absent => backup'[j].connection # c
                \/ \E body \in ConnectionBodies :
                      LET payload == ConnectionPayload(body) IN
                      /\ c = lastId + 1 /\ lastId' = lastId + 1 /\ conn[c] = Absent
                      /\ backup' = backup /\ restore' = restore
                      /\ conn'[c] = Row(payload, payload.password)
                \/ \E body \in ConnectionBodies :
                      LET payload == ConnectionPayload(body) IN
                      /\ conn[c] # Absent /\ backup' = backup /\ restore' = restore
                      /\ conn'[c] = Row(payload, Credential(payload, conn[c].credential))
<1>1. CASE \E body \in ConnectionBodies : CreateConnection(body)
  <2>1. PICK body \in ConnectionBodies : CreateConnection(body)
    BY <1>1
  <2>2. lastId + 1 \in ConnectionIds /\ lastId + 1 \notin Present(conn)
    BY <2>1 DEF CreateConnection, Shapes
  <2> QED BY <2>1, <2>2 DEF CreateConnection, Shapes, Present
<1>2. CASE \E body \in ConnectionBodies, c \in ConnectionIds : UpdateConnection(c, body)
  BY <1>2 DEF UpdateConnection, Shapes, Present
<1>3. CASE \E c \in ConnectionIds : DeleteConnection(c)
  <2>1. PICK d \in ConnectionIds : DeleteConnection(d)
    BY <1>3
  <2>2. \A j \in Jobs : backup'[j] # Absent => backup'[j].connection # d
    <3> SUFFICES ASSUME NEW j \in Jobs, backup'[j] # Absent PROVE backup'[j].connection # d
      OBVIOUS
    <3>1. d # 0
      BY ConnectionsAssumption
    <3>2. backup'[j] = IF backup[j] # Absent /\ backup[j].connection = d
                       THEN [backup[j] EXCEPT !.connection = 0] ELSE backup[j]
      BY <2>1 DEF DeleteConnection, ClearReferences
    <3>3. backup[j] # Absent => "connection" \in DOMAIN backup[j]
      BY DEF Shapes, Present
    <3> QED BY <3>1, <3>2, <3>3
  <2>3. conn' = [conn EXCEPT ![d] = Absent]
    BY <2>1 DEF DeleteConnection
  <2> QED BY <2>2, <2>3 DEF Shapes
<1>4. CASE conn' = conn
  BY <1>4 DEF Shapes
<1>5. \/ \E c \in ConnectionIds : Schedule(c)
      \/ \E j \in Jobs, c \in ConnectionIds, o \in Overrides : PrepareBackup(j, c, o)
      \/ \E j \in Jobs, c \in ConnectionIds : PrepareRestore(j, c)
      \/ \E j \in Jobs : RunBackup(j) \/ RunRestore(j)
      \/ UNCHANGED connectionVars
      => conn' = conn
  BY DEF Schedule, PrepareBackup, PrepareRestore, RunBackup, RunRestore, connectionVars
<1> QED BY <1>1, <1>2, <1>3, <1>4, <1>5, NextCases

LEMMA ShapesInit == ConnectionInit => Shapes
<1> QED BY DEF ConnectionInit, Shapes, Present

LEMMA ShapesNext ==
    ASSUME Shapes, [ConnectionNext]_connectionVars
    PROVE  Shapes'
<1> USE DEF Shapes, Present
<1>1. CASE \E body \in ConnectionBodies : CreateConnection(body)
  <2>1. PICK body \in ConnectionBodies : CreateConnection(body)
    BY <1>1
  <2>2. lastId' = lastId + 1 /\ lastId \in Nat /\ ConnectionIds \subseteq Nat
    BY <2>1, ConnectionsAssumption DEF CreateConnection
  <2>3. \A c \in ConnectionIds : conn'[c] # Absent => c <= lastId + 1
    BY <2>1, <2>2 DEF CreateConnection
  <2> QED BY <2>1, <2>2, <2>3 DEF CreateConnection
<1>2. CASE \E body \in ConnectionBodies, c \in ConnectionIds : UpdateConnection(c, body)
  BY <1>2 DEF UpdateConnection
<1>3. CASE \E c \in ConnectionIds : DeleteConnection(c)
  <2>1. PICK d \in ConnectionIds : DeleteConnection(d)
    BY <1>3
  <2>2. conn' = [conn EXCEPT ![d] = Absent] /\ UNCHANGED <<lastId, dump, restore>>
    BY <2>1 DEF DeleteConnection
  <2>3. DOMAIN backup' = Jobs
    BY <2>1 DEF DeleteConnection, ClearReferences
  <2>4. ASSUME NEW j \in Jobs, backup'[j] # Absent
        PROVE  DOMAIN backup'[j] = {"connection", "override", "status", "database_type", "database_name"}
    <3>1. backup'[j] = IF backup[j] # Absent /\ backup[j].connection = d
                       THEN [backup[j] EXCEPT !.connection = 0] ELSE backup[j]
      BY <2>1 DEF DeleteConnection, ClearReferences
    <3> QED BY <2>4, <3>1
  <2> QED BY <2>2, <2>3, <2>4
<1>4. CASE \E c \in ConnectionIds : Schedule(c)
  BY <1>4 DEF Schedule
<1>5. CASE \E j \in Jobs, c \in ConnectionIds, o \in Overrides : PrepareBackup(j, c, o)
  BY <1>5 DEF PrepareBackup
<1>6. CASE \E j \in Jobs, c \in ConnectionIds : PrepareRestore(j, c)
  BY <1>6 DEF PrepareRestore
<1>7. CASE \E j \in Jobs : RunBackup(j)
  BY <1>7 DEF RunBackup
<1>8. CASE \E j \in Jobs : RunRestore(j)
  <2>1. PICK j \in Jobs : RunRestore(j)
    BY <1>8
  <2>2. PICK db : restore' = [restore EXCEPT ![j].done = TRUE, ![j].into = db]
    BY <2>1 DEF RunRestore
  <2>3. UNCHANGED <<conn, lastId, scheduled, backup, dump>>
    BY <2>1 DEF RunRestore
  <2>4. DOMAIN restore' = Jobs /\ \A i \in Jobs : i # j => restore'[i] = restore[i]
    BY <2>2
  <2>5. restore[j] # Absent
    BY <2>1 DEF RunRestore
  <2>6. DOMAIN restore'[j] = {"connection", "done", "into"}
    BY <2>2, <2>5
  <2> QED BY <2>3, <2>4, <2>6
<1>9. CASE UNCHANGED connectionVars
  BY <1>9 DEF connectionVars
<1> QED BY <1>1, <1>2, <1>3, <1>4, <1>5, <1>6, <1>7, <1>8, <1>9, NextCases

THEOREM RowShapes == ConnectionSpec => []Shapes
<1> QED BY ShapesInit, ShapesNext, PTL DEF ConnectionSpec

----------------------------------------------------------------------------
(* SQLite files *)

\* The fields of a payload that a file does without.
LEMMA ServerFields ==
    ASSUME NEW body
    PROVE  LET payload == ConnectionPayload(body)
               type == OneOf(Lower(CleanStr(body, "database_type", Bad)), DBTypes)
           IN /\ payload.database_type = type
              /\ type = Text("sqlite") => payload.host = Null
              /\ type = Text("sqlite") => payload.port = Null
              /\ type = Text("sqlite") => payload.username = Null
              /\ type = Text("sqlite") => payload.password = Null
<1> DEFINE payload == ConnectionPayload(body)
           type == OneOf(Lower(CleanStr(body, "database_type", Bad)), DBTypes)
<1>1. payload.database_type = type
  BY DEF ConnectionPayload
<1>2. payload.host = IF type # Text("sqlite") THEN OneOf(CleanStr(body, "host", Text("localhost")), Words) ELSE Null
  BY DEF ConnectionPayload
<1>3. type = Text("sqlite") => payload.port = Null
  BY DEF ConnectionPayload
<1>4. type = Text("sqlite") => payload.password = Null
  BY DEF ConnectionPayload
<1>5. CASE type = Text("sqlite")
  <2>1. payload.username = Null
    BY <1>5 DEF ConnectionPayload
  <2> QED BY <1>1, <1>2, <1>3, <1>4, <2>1
<1> QED BY <1>1, <1>5

\* A connection that is, or is edited into, an SQLite file keeps no host, port,
\* user or password of the server it was, whatever the requests.
THEOREM FilesKeepNothing == ConnectionSpec => []SQLiteKeepsNothing
<1>1. ConnectionInit => SQLiteKeepsNothing
  BY DEF ConnectionInit, SQLiteKeepsNothing, Present
<1>2. ASSUME Shapes, SQLiteKeepsNothing, [ConnectionNext]_connectionVars
      PROVE  SQLiteKeepsNothing'
  <2> SUFFICES ASSUME NEW c \in ConnectionIds, conn'[c] # Absent,
                      conn'[c].database_type = Text("sqlite"),
                      NEW key \in {"host", "port", "username", "credential"}
               PROVE  conn'[c][key] = Null
    BY <1>2, ConnectionSteps DEF SQLiteKeepsNothing, Present
  <2>1. ASSUME NEW body, NEW credential,
               \/ credential = ConnectionPayload(body).password
               \/ credential = Credential(ConnectionPayload(body), conn[c].credential),
               conn'[c] = Row(ConnectionPayload(body), credential)
        PROVE  conn'[c][key] = Null
    <3>1. ConnectionPayload(body).database_type = Text("sqlite")
      BY <2>1 DEF Row
    <3>2. /\ ConnectionPayload(body).host = Null /\ ConnectionPayload(body).port = Null
          /\ ConnectionPayload(body).username = Null /\ ConnectionPayload(body).password = Null
      BY <3>1, ServerFields
    <3>3. credential = Null
      BY <2>1, <3>1, <3>2 DEF Credential
    <3> QED BY <2>1, <3>2, <3>3 DEF Row
  <2>2. CASE conn'[c] = conn[c]
    BY <1>2, <2>2 DEF SQLiteKeepsNothing, Present, Shapes
  <2> QED BY <1>2, <2>1, <2>2, ConnectionSteps
<1> QED BY <1>1, <1>2, RowShapes, PTL DEF ConnectionSpec

----------------------------------------------------------------------------
(* Backups and restores beside edits and deletions *)

\* What is known of a backup that is running and of one that has succeeded: the
\* row agrees with the connection until the dump is made, with the dump then,
\* unless an edit has come between.
Described(j) ==
    <<"backup", j>> \notin edited =>
        /\ backup[j].status = "running" /\ backup[j].connection \in Present(conn)
             => Kind(backup[j]) = Database(backup[j].connection, backup[j].override)
        /\ backup[j].status = "success" => dump[j] = Kind(backup[j])

Descriptions == \A j \in Present(backup) : Described(j)

\* The lookup of a running backup finds no connection made since.
Referring ==
    /\ \A j \in Present(backup) : backup[j].connection <= lastId /\ backup[j].connection \in Nat
    /\ \A j \in Present(restore) : restore[j].connection <= lastId /\ restore[j].connection \in Nat

LEMMA ReferringInit == ConnectionInit => Referring
<1> QED BY DEF ConnectionInit, Referring, Present

LEMMA ReferringNext ==
    ASSUME Shapes, Shapes', Referring, [ConnectionNext]_connectionVars
    PROVE  Referring'
<1> USE DEF Referring, Present
<1>0. lastId \in Nat /\ ConnectionIds \subseteq Nat /\ \A c \in ConnectionIds : conn[c] # Absent => c <= lastId
  BY ConnectionsAssumption DEF Shapes
<1>1. CASE \E body \in ConnectionBodies : CreateConnection(body)
  BY <1>0, <1>1 DEF CreateConnection
<1>2. CASE \E body \in ConnectionBodies, c \in ConnectionIds : UpdateConnection(c, body)
  BY <1>2 DEF UpdateConnection
<1>3. CASE \E c \in ConnectionIds : DeleteConnection(c)
  <2>1. PICK d \in ConnectionIds : DeleteConnection(d)
    BY <1>3
  <2>2. UNCHANGED <<lastId, dump, restore>> /\ DOMAIN backup' = Jobs
    BY <2>1 DEF DeleteConnection, ClearReferences
  <2>3. ASSUME NEW j \in Jobs, backup'[j] # Absent
        PROVE  backup'[j].connection <= lastId /\ backup'[j].connection \in Nat
    <3>1. backup'[j] = IF backup[j] # Absent /\ backup[j].connection = d
                       THEN [backup[j] EXCEPT !.connection = 0] ELSE backup[j]
      BY <2>1 DEF DeleteConnection, ClearReferences
    <3>2. backup[j] # Absent => "connection" \in DOMAIN backup[j]
      BY DEF Shapes
    <3> QED BY <1>0, <2>3, <3>1, <3>2 DEF Shapes
  <2> QED BY <2>2, <2>3
<1>4. CASE \E c \in ConnectionIds : Schedule(c)
  BY <1>4 DEF Schedule
<1>5. CASE \E j \in Jobs, c \in ConnectionIds, o \in Overrides : PrepareBackup(j, c, o)
  BY <1>0, <1>5 DEF PrepareBackup, Shapes
<1>6. CASE \E j \in Jobs, c \in ConnectionIds : PrepareRestore(j, c)
  BY <1>0, <1>6 DEF PrepareRestore, Shapes
<1>7. CASE \E j \in Jobs : RunBackup(j)
  <2>1. PICK j \in Jobs : RunBackup(j)
    BY <1>7
  <2>2. PICK s : backup' = [backup EXCEPT ![j].status = s]
    BY <2>1 DEF RunBackup
  <2>3. backup[j] # Absent /\ UNCHANGED <<conn, lastId, scheduled, restore>>
    BY <2>1 DEF RunBackup
  <2>4. backup'[j].connection = backup[j].connection /\ \A i \in Jobs : i # j => backup'[i] = backup[i]
    BY <2>2, <2>3 DEF Shapes
  <2> QED BY <2>2, <2>3, <2>4 DEF Shapes
<1>8. CASE \E j \in Jobs : RunRestore(j)
  <2>1. PICK j \in Jobs : RunRestore(j)
    BY <1>8
  <2>2. PICK db : restore' = [restore EXCEPT ![j].done = TRUE, ![j].into = db]
    BY <2>1 DEF RunRestore
  <2>3. restore[j] # Absent /\ UNCHANGED <<conn, lastId, scheduled, backup, dump>>
    BY <2>1 DEF RunRestore
  <2>4. restore'[j].connection = restore[j].connection /\ \A i \in Jobs : i # j => restore'[i] = restore[i]
    BY <2>2, <2>3 DEF Shapes
  <2> QED BY <2>2, <2>3, <2>4 DEF Shapes
<1>9. CASE UNCHANGED connectionVars
  BY <1>9 DEF connectionVars
<1> QED BY <1>1, <1>2, <1>3, <1>4, <1>5, <1>6, <1>7, <1>8, <1>9, NextCases

\* An edit leaves the connections alone but one, of which it keeps the kind and
\* the database, or the work that is to use it is marked.
LEMMA EditMarks ==
    ASSUME Shapes, NEW d \in ConnectionIds, NEW body, UpdateConnection(d, body)
    PROVE  /\ edited \subseteq edited' /\ UNCHANGED <<backup, dump, restore>>
           /\ \A c \in ConnectionIds : c # d => conn'[c] = conn[c]
           /\ conn[d] # Absent
           /\ Kind(conn'[d]) = Kind(conn[d]) \/ Pending(d) \subseteq edited'
<1>1. conn' = [conn EXCEPT ![d] = conn'[d]]
  <2>1. \E r : conn' = [conn EXCEPT ![d] = r]
    BY DEF UpdateConnection
  <2> QED BY <2>1 DEF Shapes
<1>2. edited' = IF Kind(conn'[d]) = Kind(conn[d]) THEN edited ELSE edited \cup Pending(d)
  BY DEF UpdateConnection
<1>3. UNCHANGED <<backup, dump, restore>> /\ conn[d] # Absent
  BY DEF UpdateConnection, Present
<1>4. \A c \in ConnectionIds : c # d => conn'[c] = conn[c]
  BY <1>1 DEF Shapes
<1> QED BY <1>2, <1>3, <1>4

LEMMA EditedGrows ==
    ASSUME Shapes, [ConnectionNext]_connectionVars
    PROVE  edited \subseteq edited'
<1>1. CASE \E body \in ConnectionBodies, c \in ConnectionIds : UpdateConnection(c, body)
  BY <1>1, EditMarks
<1>2. CASE UNCHANGED edited
  BY <1>2
<1> QED BY <1>1, <1>2, NextCases DEF CreateConnection, DeleteConnection, Schedule, PrepareBackup,
     PrepareRestore, RunBackup, RunRestore, connectionVars

LEMMA DescriptionsNext ==
    ASSUME Shapes, Shapes', Referring, Descriptions, [ConnectionNext]_connectionVars
    PROVE  Descriptions'
<1> SUFFICES ASSUME NEW j \in Jobs, backup'[j] # Absent PROVE Described(j)'
  BY DEF Descriptions, Present, Shapes
<1>0. (backup[j] # Absent => Described(j)) /\ edited \subseteq edited'
  BY EditedGrows DEF Descriptions, Present, Shapes
<1> USE DEF Described
<1>1. CASE UNCHANGED <<backup, dump>> /\ \A c \in Present(conn') : c <= lastId => c \in Present(conn) /\ conn'[c] = conn[c]
  <2>1. backup[j] # Absent /\ backup[j].connection <= lastId
    BY <1>1 DEF Referring, Present, Shapes
  <2> QED BY <1>0, <1>1, <2>1 DEF Database
<1>2. CASE \E body \in ConnectionBodies : CreateConnection(body)
  <2>1. /\ UNCHANGED <<backup, dump>> /\ lastId \in Nat
        /\ \E r : conn' = [conn EXCEPT ![lastId + 1] = r]
    BY <1>2 DEF CreateConnection, Shapes
  <2>2. \A c \in ConnectionIds : c <= lastId => conn'[c] = conn[c]
    BY <2>1, ConnectionsAssumption DEF Shapes
  <2> QED BY <1>1, <2>1, <2>2 DEF Present, Shapes
<1>3. CASE \E body \in ConnectionBodies, c \in ConnectionIds : UpdateConnection(c, body)
  <2>1. PICK body \in ConnectionBodies, d \in ConnectionIds : UpdateConnection(d, body)
    BY <1>3
  <2>2. /\ UNCHANGED <<backup, dump>> /\ backup[j] # Absent /\ conn[d] # Absent
        /\ \A c \in ConnectionIds : c # d => conn'[c] = conn[c]
        /\ Kind(conn'[d]) = Kind(conn[d]) \/ Pending(d) \subseteq edited'
    BY <2>1, EditMarks
  <2>3. CASE backup[j].connection # d \/ Kind(conn'[d]) = Kind(conn[d])
    <3>1. backup[j].connection \in Present(conn') =>
             /\ backup[j].connection \in Present(conn)
             /\ Kind(conn'[backup[j].connection]) = Kind(conn[backup[j].connection])
      BY <2>2, <2>3 DEF Present, Shapes
    <3> QED BY <1>0, <2>2, <3>1 DEF Database
  <2>4. CASE backup[j].connection = d /\ Pending(d) \subseteq edited'
    <3>1. CASE backup[j].status = "running"
      <4>1. <<"backup", j>> \in Pending(d)
        BY <2>2, <2>4, <3>1 DEF Pending, Present, Shapes
      <4> QED BY <2>4, <4>1
    <3>2. CASE backup[j].status # "running"
      BY <1>0, <2>2, <3>2
    <3> QED BY <3>1, <3>2
  <2> QED BY <2>2, <2>3, <2>4
<1>4. CASE \E c \in ConnectionIds : DeleteConnection(c)
  <2>1. PICK d \in ConnectionIds : DeleteConnection(d)
    BY <1>4
  <2>2. conn' = [conn EXCEPT ![d] = Absent] /\ UNCHANGED dump /\ 0 \notin ConnectionIds
    BY <2>1, ConnectionsAssumption DEF DeleteConnection
  <2>3. backup'[j] = IF backup[j] # Absent /\ backup[j].connection = d
                     THEN [backup[j] EXCEPT !.connection = 0] ELSE backup[j]
    BY <2>1 DEF DeleteConnection, ClearReferences
  <2>4. CASE backup[j] # Absent /\ backup[j].connection = d
    <3>1. /\ backup'[j].connection = 0 /\ backup'[j].status = backup[j].status
          /\ Kind(backup'[j]) = Kind(backup[j])
      BY <2>3, <2>4 DEF Shapes, Present, Kind
    <3> QED BY <1>0, <2>2, <2>4, <3>1 DEF Present, Shapes
  <2>5. CASE ~(backup[j] # Absent /\ backup[j].connection = d)
    <3>1. backup'[j] = backup[j] /\ backup[j] # Absent /\ backup[j].connection # d
      BY <2>3, <2>5
    <3>2. backup[j].connection \in Present(conn') =>
             backup[j].connection \in Present(conn) /\ conn'[backup[j].connection] = conn[backup[j].connection]
      BY <2>2, <3>1 DEF Present, Shapes
    <3> QED BY <1>0, <2>2, <3>1, <3>2 DEF Database
  <2> QED BY <2>4, <2>5
<1>5. CASE \E i \in Jobs, c \in ConnectionIds, o \in Overrides : PrepareBackup(i, c, o)
  <2>1. PICK i \in Jobs, c \in ConnectionIds, o \in Overrides : PrepareBackup(i, c, o)
    BY <1>5
  <2>2. UNCHANGED <<conn, dump>>
    BY <2>1 DEF PrepareBackup
  <2>3. CASE i = j
    <3>1. /\ backup'[j].status = "running" /\ backup'[j].connection = c /\ backup'[j].override = o
          /\ Kind(backup'[j]) = [database_type |-> Database(c, o).database_type,
                                 database_name |-> Database(c, o).database_name]
      BY <2>1, <2>3 DEF PrepareBackup, Kind, Shapes
    <3>2. Database(c, o) = [database_type |-> Database(c, o).database_type,
                            database_name |-> Database(c, o).database_name]
      BY DEF Database, Kind
    <3>3. Database(c, o)' = Database(c, o)
      BY <2>2 DEF Database
    <3> QED BY <3>1, <3>2, <3>3
  <2>4. CASE i # j
    <3>1. backup'[j] = backup[j]
      BY <2>1, <2>4 DEF PrepareBackup, Shapes
    <3> QED BY <1>0, <2>2, <3>1 DEF Database
  <2> QED BY <2>3, <2>4
<1>6. CASE \E i \in Jobs : RunBackup(i)
  <2>1. PICK i \in Jobs : RunBackup(i)
    BY <1>6
  <2>2. UNCHANGED conn
    BY <2>1 DEF RunBackup
  <2>3. CASE i = j /\ backup[j].connection \in Present(conn)
    <3>1. /\ backup[j] # Absent /\ backup[j].status = "running"
          /\ backup' = [backup EXCEPT ![j].status = "success"]
          /\ dump' = [dump EXCEPT ![j] = Database(backup[j].connection, backup[j].override)]
      BY <2>1, <2>3 DEF RunBackup, Database
    <3>2. backup'[j].status = "success" /\ Kind(backup'[j]) = Kind(backup[j])
      BY <3>1 DEF Kind, Shapes, Present
    <3>3. <<"backup", j>> \notin edited' => Kind(backup[j]) = Database(backup[j].connection, backup[j].override)
      BY <1>0, <2>3, <3>1
    <3>4. dump'[j] = Database(backup[j].connection, backup[j].override)
      BY <3>1 DEF Shapes
    <3> QED BY <3>2, <3>3, <3>4
  <2>4. CASE i = j /\ backup[j].connection \notin Present(conn)
    <3>1. backup[j] # Absent /\ backup' = [backup EXCEPT ![j].status = "failed"]
      BY <2>1, <2>4 DEF RunBackup
    <3>2. backup'[j].status = "failed"
      BY <3>1 DEF Shapes, Present
    <3> QED BY <3>2
  <2>5. CASE i # j
    <3>1. backup'[j] = backup[j] /\ dump'[j] = dump[j]
      BY <2>1, <2>5 DEF RunBackup, Shapes
    <3> QED BY <1>0, <2>2, <3>1 DEF Database
  <2> QED BY <2>3, <2>4, <2>5
<1>7. CASE UNCHANGED <<conn, backup, dump>>
  BY <1>0, <1>7 DEF Database
<1>8. \/ \E c \in ConnectionIds : Schedule(c)
      \/ \E i \in Jobs, c \in ConnectionIds : PrepareRestore(i, c)
      \/ \E i \in Jobs : RunRestore(i)
      \/ UNCHANGED connectionVars
      => UNCHANGED <<conn, backup, dump>>
  BY DEF Schedule, PrepareRestore, RunRestore, connectionVars
<1> QED BY <1>2, <1>3, <1>4, <1>5, <1>6, <1>7, <1>8, NextCases

\* The row of a successful backup names the kind and the name of the database in
\* its file: whatever is edited or deleted before it is requested and after it
\* has run, and whatever is deleted or created in between.
THEOREM RowsDescribeTheirDumps == ConnectionSpec => []RowDescribesItsDump
<1>1. ConnectionInit => Descriptions
  BY DEF ConnectionInit, Descriptions, Present
<1>2. Descriptions => RowDescribesItsDump
  BY DEF Descriptions, Described, RowDescribesItsDump
<1>4. Shapes /\ Shapes' /\ Referring /\ Descriptions /\ [ConnectionNext]_connectionVars
        => Referring' /\ Descriptions'
  BY ReferringNext, DescriptionsNext
<1> QED BY <1>1, <1>2, <1>4, ReferringInit, RowShapes, PTL DEF ConnectionSpec

\* A restore, from its preparation on, is of a backup that succeeded, and goes
\* into a connection of the backup's kind while that connection is there and is
\* not edited.
Fits(j) ==
    /\ backup[j] # Absent /\ backup[j].status = "success"
    /\ <<"restore", j>> \notin edited =>
          /\ ~restore[j].done /\ restore[j].connection \in Present(conn)
               => conn[restore[j].connection].database_type = backup[j].database_type
          /\ restore[j].into \in {Null, backup[j].database_type}

Fitting == \A j \in Present(restore) : Fits(j)

\* The row of a successful backup keeps its status and its kind.
LEMMA SuccessKeepsKind ==
    ASSUME Shapes, [ConnectionNext]_connectionVars,
           NEW j \in Jobs, backup[j] # Absent, backup[j].status = "success"
    PROVE  /\ backup'[j] # Absent /\ backup'[j].status = "success"
           /\ backup'[j].database_type = backup[j].database_type
<1>1. CASE backup'[j] = backup[j]
  BY <1>1
<1>2. CASE \E c \in ConnectionIds : DeleteConnection(c)
  <2>1. PICK d \in ConnectionIds : DeleteConnection(d)
    BY <1>2
  <2>2. backup'[j] = IF backup[j] # Absent /\ backup[j].connection = d
                     THEN [backup[j] EXCEPT !.connection = 0] ELSE backup[j]
    BY <2>1 DEF DeleteConnection, ClearReferences
  <2>3. DOMAIN backup'[j] # {} /\ DOMAIN Absent = {}
    BY <2>2 DEF Shapes, Present, Absent
  <2>4. backup'[j] # Absent
    BY <2>3
  <2> QED BY <2>2, <2>4 DEF Shapes, Present
<1>3. CASE \E i \in Jobs, c \in ConnectionIds, o \in Overrides : PrepareBackup(i, c, o)
  <2>1. PICK i \in Jobs, c \in ConnectionIds, o \in Overrides : PrepareBackup(i, c, o)
    BY <1>3
  <2>2. i # j
    BY <2>1 DEF PrepareBackup
  <2> QED BY <1>1, <2>1, <2>2 DEF PrepareBackup, Shapes
<1>4. CASE \E i \in Jobs : RunBackup(i)
  <2>1. PICK i \in Jobs : RunBackup(i)
    BY <1>4
  <2>2. i # j
    BY <2>1 DEF RunBackup
  <2> QED BY <1>1, <2>1, <2>2 DEF RunBackup, Shapes
<1>5. CASE UNCHANGED backup
  BY <1>1, <1>5
<1>6. \/ \E body \in ConnectionBodies : CreateConnection(body)
      \/ \E body \in ConnectionBodies, c \in ConnectionIds : UpdateConnection(c, body)
      \/ \E c \in ConnectionIds : Schedule(c)
      \/ \E i \in Jobs, c \in ConnectionIds : PrepareRestore(i, c)
      \/ \E i \in Jobs : RunRestore(i)
      \/ UNCHANGED connectionVars
      => UNCHANGED backup
  BY DEF CreateConnection, UpdateConnection, Schedule, PrepareRestore, RunRestore, connectionVars
<1> QED BY <1>2, <1>3, <1>4, <1>5, <1>6, NextCases

LEMMA FittingNext ==
    ASSUME Shapes, Shapes', Referring, Fitting, [ConnectionNext]_connectionVars
    PROVE  Fitting'
<1> SUFFICES ASSUME NEW j \in Jobs, restore'[j] # Absent PROVE Fits(j)'
  BY DEF Fitting, Present, Shapes
<1>0. restore[j] # Absent => /\ Fits(j)
                             /\ backup'[j] # Absent /\ backup'[j].status = "success"
                             /\ backup'[j].database_type = backup[j].database_type
                             /\ edited \subseteq edited'
  BY SuccessKeepsKind, EditedGrows DEF Fitting, Fits, Present, Shapes
<1>1. ASSUME restore' = restore,
             ~restore[j].done => \A c \in Present(conn') : c <= lastId => c \in Present(conn) /\ conn'[c] = conn[c]
      PROVE  Fits(j)'
  <2>1. restore[j] # Absent /\ restore[j].connection <= lastId
    BY <1>1 DEF Referring, Present, Shapes
  <2> QED BY <1>0, <1>1, <2>1 DEF Fits
<1>2. CASE \E body \in ConnectionBodies : CreateConnection(body)
  <2>1. /\ UNCHANGED restore /\ lastId \in Nat
        /\ \E r : conn' = [conn EXCEPT ![lastId + 1] = r]
    BY <1>2 DEF CreateConnection, Shapes
  <2>2. \A c \in ConnectionIds : c <= lastId => conn'[c] = conn[c]
    BY <2>1, ConnectionsAssumption DEF Shapes
  <2> QED BY <1>1, <2>1, <2>2 DEF Present, Shapes
<1>3. CASE \E body \in ConnectionBodies, c \in ConnectionIds : UpdateConnection(c, body)
  <2>1. PICK body \in ConnectionBodies, d \in ConnectionIds : UpdateConnection(d, body)
    BY <1>3
  <2>2. /\ UNCHANGED <<backup, restore>> /\ restore[j] # Absent /\ conn[d] # Absent
        /\ \A c \in ConnectionIds : c # d => conn'[c] = conn[c]
        /\ Kind(conn'[d]) = Kind(conn[d]) \/ Pending(d) \subseteq edited'
    BY <2>1, EditMarks
  <2>3. CASE restore[j].connection # d \/ Kind(conn'[d]) = Kind(conn[d])
    <3>1. restore[j].connection \in Present(conn') =>
             /\ restore[j].connection \in Present(conn)
             /\ conn'[restore[j].connection].database_type = conn[restore[j].connection].database_type
      BY <2>2, <2>3 DEF Present, Shapes, Kind
    <3> QED BY <1>0, <2>2, <3>1 DEF Fits
  <2>4. CASE restore[j].connection = d /\ Pending(d) \subseteq edited'
    <3>1. CASE ~restore[j].done
      <4>1. <<"restore", j>> \in Pending(d)
        BY <2>2, <2>4, <3>1 DEF Pending, Present, Shapes
      <4> QED BY <1>0, <2>2, <2>4, <4>1 DEF Fits
    <3>2. CASE restore[j].done
      BY <1>0, <2>2, <3>2 DEF Fits
    <3> QED BY <3>1, <3>2
  <2> QED BY <2>2, <2>3, <2>4
<1>4. CASE \E c \in ConnectionIds : DeleteConnection(c)
  <2>1. PICK d \in ConnectionIds : DeleteConnection(d)
    BY <1>4
  <2>2. conn' = [conn EXCEPT ![d] = Absent] /\ UNCHANGED restore
    BY <2>1 DEF DeleteConnection
  <2> QED BY <1>1, <2>2 DEF Present, Shapes
<1>5. CASE \E i \in Jobs, c \in ConnectionIds : PrepareRestore(i, c)
  <2>1. PICK i \in Jobs, c \in ConnectionIds : PrepareRestore(i, c)
    BY <1>5
  <2>2. UNCHANGED <<conn, backup>>
    BY <2>1 DEF PrepareRestore
  <2>3. CASE i = j
    <3>1. restore'[j] = [connection |-> c, done |-> FALSE, into |-> Null]
      BY <2>1, <2>3 DEF PrepareRestore, Shapes
    <3>2. backup[j] # Absent /\ backup[j].status = "success" /\ conn[c].database_type = backup[j].database_type
      BY <2>1, <2>3 DEF PrepareRestore, SameKind
    <3> QED BY <2>2, <3>1, <3>2 DEF Fits
  <2>4. CASE i # j
    <3>1. restore'[j] = restore[j]
      BY <2>1, <2>4 DEF PrepareRestore, Shapes
    <3> QED BY <1>0, <2>2, <3>1 DEF Fits
  <2> QED BY <2>3, <2>4
<1>6. CASE \E i \in Jobs : RunRestore(i)
  <2>1. PICK i \in Jobs : RunRestore(i)
    BY <1>6
  <2>2. UNCHANGED <<conn, backup>>
    BY <2>1 DEF RunRestore
  <2>3. CASE i = j
    <3>1. PICK db : /\ restore' = [restore EXCEPT ![j].done = TRUE, ![j].into = db]
                    /\ db = IF restore[j].connection \in Present(conn)
                            THEN conn[restore[j].connection].database_type ELSE Null
      BY <2>1, <2>3 DEF RunRestore
    <3>2. restore[j] # Absent /\ ~restore[j].done
      BY <2>1, <2>3 DEF RunRestore
    <3>3. restore'[j].done /\ restore'[j].into = db
      BY <3>1, <3>2 DEF Shapes, Present
    <3>4. <<"restore", j>> \notin edited' => db \in {Null, backup[j].database_type}
      BY <1>0, <3>1, <3>2 DEF Fits
    <3> QED BY <1>0, <2>2, <3>2, <3>3, <3>4 DEF Fits
  <2>4. CASE i # j
    <3>1. restore'[j] = restore[j]
      BY <2>1, <2>4 DEF RunRestore, Shapes
    <3> QED BY <1>0, <2>2, <3>1 DEF Fits
  <2> QED BY <2>3, <2>4
<1>7. CASE UNCHANGED <<conn, restore>>
  BY <1>1, <1>7
<1>8. \/ \E c \in ConnectionIds : Schedule(c)
      \/ \E i \in Jobs, c \in ConnectionIds, o \in Overrides : PrepareBackup(i, c, o)
      \/ \E i \in Jobs : RunBackup(i)
      \/ UNCHANGED connectionVars
      => UNCHANGED <<conn, restore>>
  BY DEF Schedule, PrepareBackup, RunBackup, connectionVars
<1> QED BY <1>2, <1>3, <1>4, <1>5, <1>6, <1>7, <1>8, NextCases

\* A dump is only ever replayed by the adapter of the kind of database it was
\* made of, though backup and restore each look their connection up a second
\* time, unless it was edited in between.
THEOREM DumpsGoIntoTheirKind == ConnectionSpec => []LikeIntoLike
<1>1. ConnectionInit => Descriptions /\ Fitting
  BY DEF ConnectionInit, Descriptions, Fitting, Present
<1>2. Shapes /\ Descriptions /\ Fitting => LikeIntoLike
  <2> SUFFICES ASSUME Shapes, Descriptions, Fitting, NEW j \in Present(restore),
                      edited \cap {<<"backup", j>>, <<"restore", j>>} = {}
               PROVE  restore[j].into \in {Null, dump[j].database_type}
    BY DEF LikeIntoLike
  <2>1. Fits(j)
    BY DEF Fitting
  <2>2. dump[j] = Kind(backup[j])
    BY <2>1 DEF Descriptions, Described, Fits, Present, Shapes
  <2> QED BY <2>1, <2>2 DEF Fits, Kind
<1>4. Shapes /\ Shapes' /\ Referring /\ Descriptions /\ Fitting /\ [ConnectionNext]_connectionVars
        => Referring' /\ Descriptions' /\ Fitting'
  BY ReferringNext, DescriptionsNext, FittingNext
<1> QED BY <1>1, <1>2, <1>4, ReferringInit, RowShapes, PTL DEF ConnectionSpec

----------------------------------------------------------------------------
(* Lists of tables without repetitions *)

\* Induction, for a set of numbers.
LEMMA Induction ==
    ASSUME NEW T, 0 \in T, \A n \in Nat : n \in T => n + 1 \in T
    PROVE  Nat \subseteq T
<1> DEFINE Less == {p \in Nat \X Nat : p[1] < p[2]}  Out == Nat \ T
<1> SUFFICES ASSUME Out # {} PROVE FALSE
  OBVIOUS
<1>1. IsWellFoundedOn(Less, Nat)
  BY NatLessThanWellFounded DEF OpToRel
<1>2. PICK x \in Out : \A y \in Out : <<y, x>> \notin Less
  <2>1. Out \in SUBSET Nat
    OBVIOUS
  <2> HIDE DEF Less, Out
  <2> QED BY <1>1, <2>1, WFMin
<1>3. \A y \in Out : ~(y < x)
  BY <1>2
<1>4. x \in Nat /\ x # 0 /\ x \notin T
  OBVIOUS
<1>5. x - 1 \in Nat /\ x - 1 < x /\ (x - 1) + 1 = x
  BY <1>4
<1>6. x - 1 \in T
  BY <1>3, <1>5
<1> QED BY <1>4, <1>5, <1>6

\* The lists that the loop of validate_table_names goes through.
IsCleaning(f, n, q) == f = [i \in 0 .. n |-> IF i = 0 THEN <<>> ELSE AddNew(f[i - 1], q[i])]

LEMMA CleaningExists ==
    ASSUME NEW q, NEW n \in Nat
    PROVE  \E f : IsCleaning(f, n, q)
<1> DEFINE T == {m \in Nat : \E f : IsCleaning(f, m, q)}
<1>1. 0 \in T
  <2>1. IsCleaning([i \in 0 .. 0 |-> <<>>], 0, q)
    BY DEF IsCleaning
  <2> QED BY <2>1
<1>2. ASSUME NEW m \in Nat, m \in T PROVE m + 1 \in T
  <2>1. PICK before : IsCleaning(before, m, q)
    BY <1>2
  <2> DEFINE f == [i \in 0 .. m + 1 |-> IF i = m + 1 THEN AddNew(before[m], q[m + 1]) ELSE before[i]]
  <2>2. ASSUME NEW i \in 0 .. m + 1
        PROVE  f[i] = IF i = 0 THEN <<>> ELSE AddNew(f[i - 1], q[i])
    <3>1. CASE i = m + 1
      BY <3>1
    <3>2. CASE i # m + 1
      <4>1. i \in 0 .. m /\ (i # 0 => i - 1 \in 0 .. m /\ i - 1 # m + 1)
        BY <3>2
      <4>2. before[i] = IF i = 0 THEN <<>> ELSE AddNew(before[i - 1], q[i])
        BY <2>1, <4>1 DEF IsCleaning
      <4> QED BY <3>2, <4>1, <4>2
    <3> QED BY <3>1, <3>2
  <2>3. IsCleaning(f, m + 1, q)
    BY <2>2 DEF IsCleaning
  <2> QED BY <2>3
<1> HIDE DEF T
<1>3. Nat \subseteq T
  BY <1>1, <1>2, Induction
<1> QED BY <1>3 DEF T

LEMMA DistinctLoop ==
    ASSUME NEW S, NEW q \in Seq(S)
    PROVE  \E f : /\ Distinct(q) = f[Len(q)] /\ f[0] = <<>>
                  /\ \A i \in 1 .. Len(q) : f[i] = AddNew(f[i - 1], q[i])
<1> DEFINE f == CHOOSE g : g = [i \in 0 .. Len(q) |-> IF i = 0 THEN <<>> ELSE AddNew(g[i - 1], q[i])]
<1>1. Distinct(q) = f[Len(q)]
  BY DEF Distinct
<1>2. Len(q) \in Nat
  OBVIOUS
<1>3. IsCleaning(f, Len(q), q)
  <2> HIDE DEF f
  <2>1. PICK g : IsCleaning(g, Len(q), q)
    BY <1>2, CleaningExists
  <2>2. \E h : h = [i \in 0 .. Len(q) |-> IF i = 0 THEN <<>> ELSE AddNew(h[i - 1], q[i])]
    BY <2>1, Zenon DEF IsCleaning
  <2>3. f = [i \in 0 .. Len(q) |-> IF i = 0 THEN <<>> ELSE AddNew(f[i - 1], q[i])]
    BY <2>2, Zenon DEF f
  <2> QED BY <2>3, Zenon DEF IsCleaning
<1> HIDE DEF f
<1>4. f[0] = <<>> /\ \A i \in 1 .. Len(q) : f[i] = AddNew(f[i - 1], q[i])
  BY <1>2, <1>3 DEF IsCleaning
<1> QED BY <1>1, <1>4

\* No element twice.
Once(q) == \A i, j \in 1 .. Len(q) : q[i] = q[j] => i = j

\* The list that is kept repeats nothing and adds nothing.
LEMMA DistinctIsOnce ==
    ASSUME NEW S, NEW q \in Seq(S)
    PROVE  Distinct(q) \in Seq(S) /\ Once(Distinct(q)) /\ ToSet(Distinct(q)) \subseteq ToSet(q)
<1>1. PICK f : /\ Distinct(q) = f[Len(q)] /\ f[0] = <<>>
               /\ \A i \in 1 .. Len(q) : f[i] = AddNew(f[i - 1], q[i])
  BY DistinctLoop
<1> DEFINE Good(r) == r \in Seq(S) /\ Once(r) /\ \A k \in 1 .. Len(r) : \E i \in 1 .. Len(q) : r[k] = q[i]
           T == {m \in Nat : m <= Len(q) => Good(f[m])}
<1>2. 0 \in T
  <2>1. Good(<<>>)
    BY EmptySeq DEF Once
  <2> QED BY <1>1, <2>1
<1>3. ASSUME NEW m \in Nat, m \in T, m + 1 <= Len(q) PROVE Good(f[m + 1])
  <2> DEFINE r == f[m]  t == q[m + 1]
  <2>1. Good(r) /\ f[m + 1] = AddNew(r, t) /\ m + 1 \in 1 .. Len(q) /\ t \in S
    BY <1>1, <1>3
  <2> HIDE DEF r
  <2>2. CASE Contains(r, t)
    BY <2>1, <2>2 DEF AddNew
  <2>3. CASE ~Contains(r, t)
    <3>1. f[m + 1] = Append(r, t)
      BY <2>1, <2>3 DEF AddNew
    <3>2. \A i \in 1 .. Len(r) : r[i] # t
      BY <2>3 DEF Contains
    <3>3. /\ Append(r, t) \in Seq(S) /\ Len(Append(r, t)) = Len(r) + 1 /\ Append(r, t)[Len(r) + 1] = t
          /\ \A i \in 1 .. Len(r) : Append(r, t)[i] = r[i]
      BY <2>1, AppendProperties
    <3>4. Len(r) \in Nat
      BY <2>1
    <3>5. Once(Append(r, t))
      <4> SUFFICES ASSUME NEW i \in 1 .. Len(r) + 1, NEW j \in 1 .. Len(r) + 1,
                          Append(r, t)[i] = Append(r, t)[j]
                   PROVE  i = j
        BY <3>3 DEF Once
      <4>1. CASE i \in 1 .. Len(r) /\ j \in 1 .. Len(r)
        BY <2>1, <3>3, <4>1 DEF Once
      <4>2. CASE i = Len(r) + 1 /\ j \in 1 .. Len(r)
        BY <3>2, <3>3, <4>2
      <4>3. CASE j = Len(r) + 1 /\ i \in 1 .. Len(r)
        BY <3>2, <3>3, <4>3
      <4> QED BY <3>4, <4>1, <4>2, <4>3
    <3>6. \A k \in 1 .. Len(r) + 1 : \E i \in 1 .. Len(q) : Append(r, t)[k] = q[i]
      BY <2>1, <3>3, <3>4
    <3> QED BY <3>1, <3>3, <3>5, <3>6
  <2> QED BY <2>2, <2>3
<1>4. \A m \in Nat : m \in T => m + 1 \in T
  BY <1>3
<1>5. Nat \subseteq T
  <2> HIDE DEF T
  <2> QED BY <1>2, <1>4, Induction
<1>6. Good(Distinct(q))
  BY <1>1, <1>5
<1>7. ToSet(Distinct(q)) \subseteq ToSet(q)
  <2>1. DOMAIN q = 1 .. Len(q) /\ DOMAIN Distinct(q) = 1 .. Len(Distinct(q))
    BY <1>6
  <2> QED BY <1>6, <2>1 DEF ToSet
<1> QED BY <1>6, <1>7

\* A list that repeats nothing is kept as it is.
LEMMA DistinctOfOnce ==
    ASSUME NEW S, NEW q \in Seq(S), Once(q)
    PROVE  Distinct(q) = q
<1>1. PICK f : /\ Distinct(q) = f[Len(q)] /\ f[0] = <<>>
               /\ \A i \in 1 .. Len(q) : f[i] = AddNew(f[i - 1], q[i])
  BY DistinctLoop
<1> DEFINE Prefix(r, m) == r \in Seq(S) /\ Len(r) = m /\ \A k \in 1 .. m : r[k] = q[k]
           T == {m \in Nat : m <= Len(q) => Prefix(f[m], m)}
<1>2. 0 \in T
  <2>1. Prefix(<<>>, 0)
    BY EmptySeq
  <2> QED BY <1>1, <2>1
<1>3. ASSUME NEW m \in Nat, m \in T, m + 1 <= Len(q) PROVE Prefix(f[m + 1], m + 1)
  <2> DEFINE r == f[m]  t == q[m + 1]
  <2>1. Prefix(r, m) /\ f[m + 1] = AddNew(r, t) /\ m + 1 \in 1 .. Len(q) /\ t \in S
    BY <1>1, <1>3
  <2> HIDE DEF r
  <2>2. ~Contains(r, t)
    <3>1. Len(q) \in Nat /\ \A i \in 1 .. m : i \in 1 .. Len(q) /\ i # m + 1
      BY <1>3
    <3>2. \A i \in 1 .. m : q[i] # q[m + 1]
      BY <2>1, <3>1 DEF Once
    <3> QED BY <2>1, <3>2 DEF Contains
  <2>3. /\ Append(r, t) \in Seq(S) /\ Len(Append(r, t)) = Len(r) + 1 /\ Append(r, t)[Len(r) + 1] = t
        /\ \A i \in 1 .. Len(r) : Append(r, t)[i] = r[i]
    BY <2>1, AppendProperties
  <2> QED BY <2>1, <2>2, <2>3 DEF AddNew
<1>4. \A m \in Nat : m \in T => m + 1 \in T
  <2> HIDE DEF Prefix
  <2> QED BY <1>3
<1>5. Nat \subseteq T
  <2> HIDE DEF T
  <2> QED BY <1>2, <1>4, Induction
<1>6. Prefix(Distinct(q), Len(q))
  BY <1>1, <1>5
<1> QED BY <1>6, SeqEqual

----------------------------------------------------------------------------
(* The rows of schedules *)

\* The texts that no cleaned value is.
Unclean == {"", " ", "longer than any limit"}

\* JSON values of different kinds differ, and say what they hold.
LEMMA KindsApart ==
    /\ \A s : Text(s) # Null /\ Text(s) # Bad /\ Text(s)[1] = "text" /\ Text(s)[2] = s
    /\ \A n : Num(n) # Null /\ Num(n) # Bad /\ Num(n)[1] = "int" /\ Num(n)[2] = n
    /\ \A n : Digits(n) # Null /\ Digits(n)[1] = "digits"
    /\ \A b : Bool(b) # Null /\ Bool(b) # Bad /\ Bool(b)[1] = "bool" /\ Bool(b)[2] = b
    /\ \A q : List(q) # Null /\ List(q) # Bad /\ List(q)[1] = "list" /\ List(q)[2] = q
    /\ Null # Bad /\ Null[1] = "null" /\ TooLong[1] = "text"
    /\ \A s, n : Text(s) # Num(n) /\ Text(s) # Digits(n)
<1> QED BY DEF Text, Num, Digits, Bool, List, Null, Bad, TooLong

\* A text that is clean comes back as it is.
LEMMA TextKept ==
    ASSUME NEW S, NEW v \in Texts(S), S \cap Unclean = {},
           NEW data, NEW key, NEW default, Get(data, key) = v
    PROVE  CleanStr(data, key, default) = v
<1>1. PICK s \in S : v = Text(s)
  BY DEF Texts
<1>2. s \notin Unclean
  OBVIOUS
<1>3. v # Null /\ v # Text("") /\ v # Text(" ") /\ v # TooLong
  <2>1. s # "" /\ s # " " /\ s # "longer than any limit"
    BY <1>2 DEF Unclean
  <2>2. Text("")[2] = "" /\ Text(" ")[2] = " " /\ v[2] = s /\ v # Null
    BY <1>1, KindsApart
  <2>3. TooLong[2] = "longer than any limit"
    BY KindsApart DEF TooLong
  <2> QED BY <2>1, <2>2, <2>3
<1>4. v[1] = "text"
  BY <1>1, KindsApart
<1> QED BY <1>3, <1>4 DEF CleanStr

\* A word of an enumeration is in lower case already.
LEMMA WordKept ==
    ASSUME NEW S, NEW v \in Texts(S), S \cap DOMAIN LowerCase = {}
    PROVE  OneOf(Lower(v), S) = v
<1>1. PICK s \in S : v = Text(s)
  BY DEF Texts
<1> QED BY <1>1, KindsApart DEF Lower, OneOf

\* A text that was cleaned comes back as it is, and so does a missing one.
LEMMA CleanKept ==
    ASSUME NEW data, NEW data2, NEW key, NEW default \in {Null, Bad},
           CleanStr(data, key, default) # Bad, Get(data2, key) = CleanStr(data, key, default)
    PROVE  CleanStr(data2, key, default) = CleanStr(data, key, default)
<1> DEFINE w == Get(data, key)
<1>0. \A v : v \in {Null, Text(""), Text(" ")} => v[1] \notin {"bool", "list", "int"} /\ v # TooLong
  <2>1. Text("") # TooLong /\ Text(" ") # TooLong /\ Null # TooLong
    BY DEF Text, TooLong, Null
  <2> QED BY <2>1, KindsApart
<1>1. CASE w \in {Null, Text(""), Text(" ")}
  <2>1. CleanStr(data, key, default) = default
    BY <1>0, <1>1 DEF CleanStr
  <2>2. default = Null
    BY <2>1
  <2> QED BY <1>0, <2>1, <2>2 DEF CleanStr
<1>2. CASE w \notin {Null, Text(""), Text(" ")} /\ w[1] = "int"
  <2>1. CleanStr(data, key, default) = Digits(w[2])
    BY <1>2, KindsApart DEF CleanStr
  <2>2. \A n : Digits(n) \notin {Null, Text(""), Text(" "), TooLong} /\ Digits(n)[1] = "digits"
    BY KindsApart
  <2> QED BY <2>1, <2>2 DEF CleanStr
<1>3. CASE w \notin {Null, Text(""), Text(" ")} /\ w[1] # "int"
  <2>1. CleanStr(data, key, default) = w
    BY <1>3 DEF CleanStr
  <2> QED BY <2>1 DEF CleanStr
<1> QED BY <1>1, <1>2, <1>3

\* A number that was cleaned comes back as it is.
LEMMA IntKept ==
    ASSUME NEW data, NEW data2, NEW key, NEW default, NEW lo, NEW hi,
           \/ default = Bad
           \/ \E n \in lo .. hi : default = Num(n),
           CleanInt(data, key, default, lo, hi) # Bad,
           Get(data2, key) = CleanInt(data, key, default, lo, hi)
    PROVE  /\ CleanInt(data2, key, default, lo, hi) = CleanInt(data, key, default, lo, hi)
           /\ \E n : CleanInt(data, key, default, lo, hi) = Num(n)
<1>1. PICK n \in lo .. hi : CleanInt(data, key, default, lo, hi) = Num(n)
  BY DEF CleanInt
<1>2. Num(n) # Null /\ Num(n) # Text("") /\ Num(n)[1] = "int" /\ Num(n)[2] = n
  BY KindsApart
<1>3. Get(data2, key) = Num(n)
  BY <1>1
<1>4. CleanInt(data2, key, default, lo, hi) = Num(n)
  BY <1>2, <1>3 DEF CleanInt
<1> QED BY <1>1, <1>4

\* The flags.  (Under a name: the SMT backend reads no Boolean arguments of operators.)
Truths == {Bool(TRUE), Bool(FALSE)}

\* A flag that was cleaned comes back as it is.
LEMMA BoolKept ==
    ASSUME NEW data, NEW data2, NEW key, NEW default \in Truths,
           JSONValue(Get(data, key)),
           CleanBool(data, key, default) # Bad,
           Get(data2, key) = CleanBool(data, key, default)
    PROVE  /\ CleanBool(data2, key, default) = CleanBool(data, key, default)
           /\ CleanBool(data, key, default) \in Truths
<1>1. CleanBool(data, key, default) \in Truths
  BY DEF CleanBool, JSONValue, Truths
<1>2. \A b : Bool(b) # Null /\ Bool(b)[1] = "bool"
              /\ Bool(b) \notin {Text("on"), Digits(1), Num(1), Text("off"), Digits(0), Num(0)}
  <2>1. \A b : Bool(b)[1] = "bool" /\ Bool(b) # Null
    BY KindsApart
  <2>2. \A x \in {Text("on"), Digits(1), Num(1), Text("off"), Digits(0), Num(0)} : x[1] # "bool"
    BY KindsApart
  <2> QED BY <2>1, <2>2
<1> QED BY <1>1, <1>2 DEF CleanBool, Truths
\* The keys of a payload: those of the schedule and those of its backups.
OwnKeys == {"name", "frequency", "schedule_time", "cron_expression", "day_of_week", "day_of_month",
            "retention_days", "keep_daily", "keep_weekly", "keep_monthly", "enabled"}
BackupKeys == {"connection_id", "backup_type", "tables", "compression", "encryption", "verify", "destination"}
PayloadKeys == OwnKeys \cup BackupKeys

\* The fields of a payload, one by one.
BackupFields(data, p) ==
    /\ p.connection_id = CleanInt(data, "connection_id", Bad, 1, 9999)
    /\ p.backup_type = OneOf(Lower(CleanStr(data, "backup_type", Text("full"))), BackupTypes)
    /\ p.tables = TablesFor(p.backup_type, TableNames(Get(data, "tables")))
    /\ p.compression = OneOf(Lower(CleanStr(data, "compression", Text("gzip"))), Compressions)
    /\ p.encryption = CleanBool(data, "encryption", Bool(FALSE))
    /\ p.verify = CleanBool(data, "verify", Bool(TRUE))
    /\ p.destination = CleanStr(data, "destination", Null)
TimeFields(data, p) ==
    /\ p.frequency = OneOf(Lower(CleanStr(data, "frequency", Bad)), Frequencies)
    /\ p.schedule_time = OneOf(CleanStr(data, "schedule_time", Text("02:00")), Times)
    /\ p.cron_expression = CronFor(p.frequency, CleanStr(data, "cron_expression", Null))
    /\ p.name = CleanStr(data, "name", Null)
    /\ p.enabled = CleanBool(data, "enabled", Bool(TRUE))
NumberFields(data, p) ==
    /\ p.day_of_week = CleanInt(data, "day_of_week", Num(0), 0, 6)
    /\ p.day_of_month = CleanInt(data, "day_of_month", Num(1), 1, 28)
    /\ p.retention_days = CleanInt(data, "retention_days", Num(30), 0, 3650)
    /\ p.keep_daily = CleanInt(data, "keep_daily", Num(0), 0, 365)
    /\ p.keep_weekly = CleanInt(data, "keep_weekly", Num(0), 0, 520)
    /\ p.keep_monthly = CleanInt(data, "keep_monthly", Num(0), 0, 120)

\* The fields of a payload are the cleaned fields of the data.
LEMMA PayloadFields ==
    ASSUME NEW data
    PROVE  /\ DOMAIN SchedulePayload(data) = PayloadKeys
           /\ BackupFields(data, SchedulePayload(data))
           /\ TimeFields(data, SchedulePayload(data))
           /\ NumberFields(data, SchedulePayload(data))
<1> DEFINE p == SchedulePayload(data)
           b == BackupPayload(data)
           type == OneOf(Lower(CleanStr(data, "backup_type", Text("full"))), BackupTypes)
           frequency == OneOf(Lower(CleanStr(data, "frequency", Bad)), Frequencies)
<1>1. DOMAIN p = PayloadKeys
  BY DEF SchedulePayload, BackupPayload, Over, PayloadKeys, OwnKeys, BackupKeys
<1>2. /\ p.connection_id = b.connection_id /\ p.backup_type = b.backup_type
      /\ p.tables = b.tables /\ p.compression = b.compression /\ p.encryption = b.encryption
      /\ p.verify = b.verify /\ p.destination = b.destination
  <2>1. DOMAIN b = BackupKeys
    BY DEF BackupPayload, BackupKeys
  <2> HIDE DEF b
  <2> QED BY <2>1 DEF SchedulePayload, Over, BackupKeys, b
<1>3. BackupFields(data, p)
  <2>1. b.connection_id = CleanInt(data, "connection_id", Bad, 1, 9999)
    BY DEF BackupPayload
  <2>2. b.backup_type = type
    BY DEF BackupPayload
  <2>3. b.tables = TablesFor(type, TableNames(Get(data, "tables")))
    BY DEF BackupPayload
  <2>4. b.compression = OneOf(Lower(CleanStr(data, "compression", Text("gzip"))), Compressions)
    BY DEF BackupPayload
  <2>5. b.encryption = CleanBool(data, "encryption", Bool(FALSE)) /\ b.verify = CleanBool(data, "verify", Bool(TRUE))
    BY DEF BackupPayload
  <2>6. b.destination = CleanStr(data, "destination", Null)
    BY DEF BackupPayload
  <2> HIDE DEF p, b
  <2>7. p.tables = TablesFor(p.backup_type, TableNames(Get(data, "tables")))
    BY <1>2, <2>2, <2>3
  <2> QED BY <1>2, <2>1, <2>2, <2>4, <2>5, <2>6, <2>7 DEF BackupFields
<1>4. TimeFields(data, p)
  <2>1. p.frequency = frequency
    BY DEF SchedulePayload, Over
  <2>2. p.schedule_time = OneOf(CleanStr(data, "schedule_time", Text("02:00")), Times)
    BY DEF SchedulePayload, Over
  <2>3. p.cron_expression = CronFor(frequency, CleanStr(data, "cron_expression", Null))
    BY DEF SchedulePayload, Over
  <2>4. p.name = CleanStr(data, "name", Null)
    BY DEF SchedulePayload, Over
  <2>5. p.enabled = CleanBool(data, "enabled", Bool(TRUE))
    BY DEF SchedulePayload, Over
  <2> HIDE DEF p
  <2>6. p.cron_expression = CronFor(p.frequency, CleanStr(data, "cron_expression", Null))
    BY <2>1, <2>3
  <2> QED BY <2>1, <2>2, <2>4, <2>5, <2>6 DEF TimeFields
<1>5. NumberFields(data, p)
  <2>1. p.day_of_week = CleanInt(data, "day_of_week", Num(0), 0, 6)
    BY DEF SchedulePayload, Over
  <2>2. p.day_of_month = CleanInt(data, "day_of_month", Num(1), 1, 28)
    BY DEF SchedulePayload, Over
  <2>3. p.retention_days = CleanInt(data, "retention_days", Num(30), 0, 3650)
    BY DEF SchedulePayload, Over
  <2>4. p.keep_daily = CleanInt(data, "keep_daily", Num(0), 0, 365)
    BY DEF SchedulePayload, Over
  <2>5. p.keep_weekly = CleanInt(data, "keep_weekly", Num(0), 0, 520)
    BY DEF SchedulePayload, Over
  <2>6. p.keep_monthly = CleanInt(data, "keep_monthly", Num(0), 0, 120)
    BY DEF SchedulePayload, Over
  <2> HIDE DEF p
  <2> QED BY <2>1, <2>2, <2>3, <2>4, <2>5, <2>6 DEF NumberFields
<1> QED BY <1>1, <1>3, <1>4, <1>5

\* A clean value is a JSON value.
LEMMA CleanIsJSON ==
    ASSUME NEW data, NEW key, NEW default \in {Null, Bad},
           CleanStr(data, key, default) # Bad
    PROVE  JSONValue(CleanStr(data, key, default))
<1> DEFINE w == Get(data, key)
<1>0. \A v : v \in {Null, Text(""), Text(" ")} => v[1] \notin {"bool", "list", "int"} /\ v # TooLong
  <2>1. Text("") # TooLong /\ Text(" ") # TooLong /\ Null # TooLong
    BY DEF Text, TooLong, Null
  <2> QED BY <2>1, KindsApart
<1>1. CASE w \in {Null, Text(""), Text(" ")}
  <2>1. CleanStr(data, key, default) = Null
    BY <1>0, <1>1 DEF CleanStr
  <2> QED BY <1>0, <2>1 DEF JSONValue
<1>2. CASE w \notin {Null, Text(""), Text(" ")} /\ w[1] = "int"
  <2>1. CleanStr(data, key, default) = Digits(w[2])
    BY <1>2, KindsApart DEF CleanStr
  <2>2. \A n : Digits(n)[1] = "digits"
    BY KindsApart
  <2> QED BY <2>1, <2>2 DEF JSONValue
<1>3. CASE w \notin {Null, Text(""), Text(" ")} /\ w[1] # "int"
  <2>1. CleanStr(data, key, default) = w /\ w[1] \notin {"bool", "list"}
    BY <1>3 DEF CleanStr
  <2> QED BY <2>1 DEF JSONValue
<1> QED BY <1>1, <1>2, <1>3

\* What the list of tables of an accepted payload is.
Tables(v) == \E q \in Seq(STRING) : v = List(q) /\ TableNames(v) = v

\* The tables of an accepted payload come back as they are.
LEMMA TablesKept ==
    ASSUME NEW data, JSONValue(Get(data, "tables")), NEW type \in Texts(BackupTypes),
           TablesFor(type, TableNames(Get(data, "tables"))) # Bad
    PROVE  LET v == TablesFor(type, TableNames(Get(data, "tables")))
           IN /\ Tables(v) /\ TablesFor(type, v) = v
              /\ \A other : TablesFor(other, v) \in {Bad, v, List(<<>>)}
<1> DEFINE w == Get(data, "tables")
           v == TablesFor(type, TableNames(w))
<1>1. <<>> \in Seq(STRING) /\ Once(<<>>)
  BY EmptySeq DEF Once
<1>2. ASSUME NEW q \in Seq(STRING), Once(q), ToSet(q) \subseteq Words PROVE TableNames(List(q)) = List(q)
  <2>1. Distinct(q) = q
    BY <1>2, DistinctOfOnce
  <2>2. List(q) # Null /\ List(q)[1] = "list" /\ List(q)[2] = q
    BY KindsApart
  <2> QED BY <1>2, <2>1, <2>2 DEF TableNames
<1>3. ToSet(<<>>) \subseteq Words
  BY DEF ToSet
<1>4. TableNames(w) = Bad \/ \E q \in Seq(STRING) : TableNames(w) = List(q) /\ Once(q) /\ ToSet(q) \subseteq Words
  <2>1. CASE w = Null
    <3>1. TableNames(w) = List(<<>>)
      BY <2>1, KindsApart DEF TableNames
    <3> QED BY <1>1, <1>3, <3>1
  <2>2. CASE w # Null /\ w[1] = "list" /\ ToSet(w[2]) \subseteq Words
    <3>1. TableNames(w) = List(Distinct(w[2])) /\ w[2] \in Seq(STRING)
      BY <2>2 DEF TableNames, JSONValue
    <3>2. Distinct(w[2]) \in Seq(STRING) /\ Once(Distinct(w[2])) /\ ToSet(Distinct(w[2])) \subseteq ToSet(w[2])
      BY <3>1, DistinctIsOnce
    <3> QED BY <2>2, <3>1, <3>2
  <2>3. CASE w # Null /\ ~(w[1] = "list" /\ ToSet(w[2]) \subseteq Words)
    BY <2>3 DEF TableNames
  <2> QED BY <2>1, <2>2, <2>3
<1>5. v \in {TableNames(w), List(<<>>)} /\ TableNames(w) # Bad
  BY DEF TablesFor
<1>6. PICK q \in Seq(STRING) : v = List(q) /\ Once(q) /\ ToSet(q) \subseteq Words
  <2> HIDE DEF v, w
  <2> QED BY <1>1, <1>3, <1>4, <1>5
<1>7. Tables(v)
  BY <1>2, <1>6 DEF Tables
<1>8. TablesFor(type, v) = v
  <2> DEFINE t == TableNames(w)
  <2>1. v # Bad /\ ~(type = Text("selective") /\ t = List(<<>>))
    BY DEF TablesFor
  <2>2. v = IF type = Text("full") THEN List(<<>>) ELSE t
    BY <2>1 DEF TablesFor
  <2>3. Text("selective") # Text("full")
    BY KindsApart
  <2> HIDE DEF v, t
  <2> QED BY <2>1, <2>2, <2>3 DEF TablesFor
<1>9. v # Bad
  OBVIOUS
<1>10. ASSUME NEW other
       PROVE  TablesFor(other, v) \in {Bad, v, List(<<>>)}
  <2> HIDE DEF v
  <2> QED BY KindsApart, <1>9 DEF TablesFor
<1> HIDE DEF v
<1> QED BY <1>7, <1>8, <1>10 DEF v

\* Data as it comes in a request: values of JSON under the keys that are read.
JSONData(data) == \A key \in PayloadKeys : JSONValue(Get(data, key))

\* What a payload that was accepted is made of.
LEMMA AcceptedPayload ==
    ASSUME NEW data, JSONData(data), Accepted(SchedulePayload(data))
    PROVE  LET p == SchedulePayload(data) IN
           /\ \A key \in PayloadKeys : p[key] # Bad /\ JSONValue(p[key])
           /\ p.frequency \in Texts(Frequencies) /\ p.backup_type \in Texts(BackupTypes)
           /\ p.compression \in Texts(Compressions) /\ p.schedule_time \in Texts(Times)
           /\ p.frequency = Text("custom") => p.cron_expression \in Texts(Crons)
           /\ p.frequency # Text("custom") => p.cron_expression = Null
           /\ \A key \in Flags : p[key] \in {Bool(TRUE), Bool(FALSE)}
           /\ Tables(p.tables) /\ TablesFor(p.backup_type, p.tables) = p.tables
           /\ \A other : TablesFor(other, p.tables) \in {Bad, p.tables, List(<<>>)}
<1> DEFINE p == SchedulePayload(data)
<1>1. BackupFields(data, p) /\ TimeFields(data, p) /\ NumberFields(data, p)
  BY PayloadFields
<1>2. DOMAIN p = PayloadKeys
  BY PayloadFields
<1>3. \A key \in PayloadKeys : p[key] # Bad
  BY <1>2 DEF Accepted
<1> HIDE DEF p
<1>4. \A v, S : OneOf(v, S) # Bad => OneOf(v, S) \in Texts(S)
  BY DEF OneOf
<1>5. /\ p.frequency \in Texts(Frequencies) /\ p.backup_type \in Texts(BackupTypes)
      /\ p.compression \in Texts(Compressions) /\ p.schedule_time \in Texts(Times)
  BY <1>3, <1>4, <1>1 DEF PayloadKeys, OwnKeys, BackupKeys, BackupFields, TimeFields
<1>6. /\ p.frequency = Text("custom") => p.cron_expression \in Texts(Crons)
      /\ p.frequency # Text("custom") => p.cron_expression = Null
  <2>1. p.cron_expression # Bad
    BY <1>3 DEF PayloadKeys, OwnKeys
  <2> QED BY <2>1, <1>1 DEF CronFor, TimeFields
<1>7. \A key \in Flags : p[key] \in {Bool(TRUE), Bool(FALSE)}
  <2>1. JSONValue(Get(data, "encryption")) /\ JSONValue(Get(data, "verify")) /\ JSONValue(Get(data, "enabled"))
    BY DEF JSONData, PayloadKeys, OwnKeys, BackupKeys
  <2>2. p.encryption # Bad /\ p.verify # Bad /\ p.enabled # Bad
    BY <1>3 DEF PayloadKeys, OwnKeys, BackupKeys
  <2>3. \A key : \A default \in {Bool(TRUE), Bool(FALSE)} :
           JSONValue(Get(data, key)) /\ CleanBool(data, key, default) # Bad
             => CleanBool(data, key, default) \in {Bool(TRUE), Bool(FALSE)}
    BY DEF CleanBool, JSONValue
  <2>4. /\ p.encryption = CleanBool(data, "encryption", Bool(FALSE))
        /\ p.verify = CleanBool(data, "verify", Bool(TRUE))
        /\ p.enabled = CleanBool(data, "enabled", Bool(TRUE))
    BY <1>1 DEF BackupFields, TimeFields
  <2>5. /\ p.encryption \in {Bool(TRUE), Bool(FALSE)}
        /\ p.verify \in {Bool(TRUE), Bool(FALSE)}
        /\ p.enabled \in {Bool(TRUE), Bool(FALSE)}
    BY <2>1, <2>2, <2>3, <2>4
  <2> QED BY <2>5 DEF Flags
<1>8. /\ Tables(p.tables) /\ TablesFor(p.backup_type, p.tables) = p.tables
      /\ \A other : TablesFor(other, p.tables) \in {Bad, p.tables, List(<<>>)}
  <2>1. JSONValue(Get(data, "tables")) /\ p.tables # Bad
    BY <1>3 DEF JSONData, PayloadKeys, BackupKeys
  <2> QED BY <1>5, <2>1, TablesKept, <1>1 DEF BackupFields
<1>9. \A v, S : v \in Texts(S) => JSONValue(v)
  BY KindsApart DEF Texts, JSONValue
<1>10. \A key, default, lo, hi : CleanInt(data, key, default, lo, hi) \in {Bad, default} \/ \E n : CleanInt(data, key, default, lo, hi) = Num(n)
  <2> SUFFICES ASSUME NEW key, NEW default, NEW lo, NEW hi
               PROVE  \/ CleanInt(data, key, default, lo, hi) \in {Bad, default}
                      \/ \E n : CleanInt(data, key, default, lo, hi) = Num(n)
    OBVIOUS
  <2>1. CleanInt(data, key, default, lo, hi) \in {Bad, default, Num(Get(data, key)[2])}
    BY DEF CleanInt
  <2> QED BY <2>1
<1>11. (\A n : JSONValue(Num(n))) /\ (\A b \in BOOLEAN : JSONValue(Bool(b))) /\ JSONValue(Null)
  BY KindsApart DEF JSONValue
<1>12. JSONValue(p.tables)
  <2>1. PICK q \in Seq(STRING) : p.tables = List(q)
    BY <1>8 DEF Tables
  <2>2. List(q)[1] = "list" /\ List(q)[2] = q
    BY KindsApart
  <2> QED BY <2>1, <2>2 DEF JSONValue
<1>13. /\ JSONValue(p.day_of_week) /\ JSONValue(p.day_of_month) /\ JSONValue(p.retention_days) /\ JSONValue(p.keep_daily)
       /\ JSONValue(p.keep_weekly) /\ JSONValue(p.keep_monthly) /\ JSONValue(p.connection_id)
  <2>1. /\ p.day_of_week # Bad /\ p.day_of_month # Bad /\ p.retention_days # Bad /\ p.keep_daily # Bad
        /\ p.keep_weekly # Bad /\ p.keep_monthly # Bad /\ p.connection_id # Bad
    BY <1>3 DEF PayloadKeys, OwnKeys, BackupKeys
  <2>2. /\ \E n : p.day_of_week = Num(n)
        /\ \E n : p.day_of_month = Num(n)
        /\ \E n : p.retention_days = Num(n)
        /\ \E n : p.keep_daily = Num(n)
        /\ \E n : p.keep_weekly = Num(n)
        /\ \E n : p.keep_monthly = Num(n)
        /\ \E n : p.connection_id = Num(n)
    BY <1>10, <2>1, <1>1 DEF BackupFields, NumberFields
  <2> QED BY <1>11, <2>2
<1>14. JSONValue(p.name) /\ JSONValue(p.destination)
  <2>1. p.name # Bad /\ p.destination # Bad
    BY <1>3 DEF PayloadKeys, OwnKeys, BackupKeys
  <2> QED BY <2>1, CleanIsJSON, <1>1 DEF BackupFields, TimeFields
<1>15. \A key \in PayloadKeys : JSONValue(p[key])
  BY <1>5, <1>6, <1>7, <1>9, <1>11, <1>12, <1>13, <1>14 DEF PayloadKeys, OwnKeys, BackupKeys, Flags
<1> QED BY <1>3, <1>5, <1>6, <1>7, <1>8, <1>15 DEF p


\* A field that comes back as it was accepted is accepted as it was; only the cron
\* expression and the tables depend on another field too.
LEMMA FieldKept ==
    ASSUME NEW data, JSONData(data), Accepted(SchedulePayload(data)), NEW again
    PROVE  LET p == SchedulePayload(data)
               r == SchedulePayload(again) IN
           /\ \A key \in PayloadKeys \ {"cron_expression", "tables"} : Get(again, key) = p[key] => r[key] = p[key]
           /\ Get(again, "cron_expression") = p.cron_expression =>
                 /\ r.cron_expression \in {Bad, Null, p.cron_expression}
                 /\ r.frequency = p.frequency => r.cron_expression = p.cron_expression
           /\ Get(again, "tables") = p.tables =>
                 /\ r.tables \in {Bad, List(<<>>), p.tables}
                 /\ r.backup_type = p.backup_type => r.tables = p.tables
<1> DEFINE p == SchedulePayload(data)
           r == SchedulePayload(again)
<1>1. BackupFields(data, p) /\ TimeFields(data, p) /\ NumberFields(data, p)
  BY PayloadFields
<1>2. BackupFields(again, r) /\ TimeFields(again, r) /\ NumberFields(again, r)
  BY PayloadFields
<1>3. /\ \A key \in PayloadKeys : p[key] # Bad
      /\ p.frequency \in Texts(Frequencies) /\ p.backup_type \in Texts(BackupTypes)
      /\ p.compression \in Texts(Compressions) /\ p.schedule_time \in Texts(Times)
      /\ p.frequency = Text("custom") => p.cron_expression \in Texts(Crons)
      /\ p.frequency # Text("custom") => p.cron_expression = Null
      /\ Tables(p.tables) /\ TablesFor(p.backup_type, p.tables) = p.tables
      /\ \A other : TablesFor(other, p.tables) \in {Bad, p.tables, List(<<>>)}
  BY AcceptedPayload
<1>4. JSONValue(Get(data, "encryption")) /\ JSONValue(Get(data, "verify")) /\ JSONValue(Get(data, "enabled"))
  BY DEF JSONData, PayloadKeys, OwnKeys, BackupKeys
<1> HIDE DEF p, r
<1>5. /\ Unclean \cap Frequencies = {} /\ Unclean \cap BackupTypes = {} /\ Unclean \cap Compressions = {}
      /\ Unclean \cap Times = {} /\ Unclean \cap Crons = {}
  BY TextsAssumption DEF Unclean, Frequencies, BackupTypes, Compressions
<1>6. /\ Frequencies \cap DOMAIN LowerCase = {} /\ BackupTypes \cap DOMAIN LowerCase = {}
      /\ Compressions \cap DOMAIN LowerCase = {}
  BY TextsAssumption
<1>7. Get(again, "frequency") = p.frequency => r.frequency = p.frequency
  <2> SUFFICES ASSUME Get(again, "frequency") = p.frequency PROVE r.frequency = p.frequency
    OBVIOUS
  <2>1. CleanStr(again, "frequency", Bad) = p.frequency
    BY <1>3, <1>5, TextKept
  <2>2. OneOf(Lower(p.frequency), Frequencies) = p.frequency
    BY <1>3, <1>6, WordKept
  <2> QED BY <1>2, <2>1, <2>2 DEF TimeFields
<1>8. Get(again, "backup_type") = p.backup_type => r.backup_type = p.backup_type
  <2> SUFFICES ASSUME Get(again, "backup_type") = p.backup_type PROVE r.backup_type = p.backup_type
    OBVIOUS
  <2>1. CleanStr(again, "backup_type", Text("full")) = p.backup_type
    BY <1>3, <1>5, TextKept
  <2>2. OneOf(Lower(p.backup_type), BackupTypes) = p.backup_type
    BY <1>3, <1>6, WordKept
  <2> QED BY <1>2, <2>1, <2>2 DEF BackupFields
<1>9. Get(again, "compression") = p.compression => r.compression = p.compression
  <2> SUFFICES ASSUME Get(again, "compression") = p.compression PROVE r.compression = p.compression
    OBVIOUS
  <2>1. CleanStr(again, "compression", Text("gzip")) = p.compression
    BY <1>3, <1>5, TextKept
  <2>2. OneOf(Lower(p.compression), Compressions) = p.compression
    BY <1>3, <1>6, WordKept
  <2> QED BY <1>2, <2>1, <2>2 DEF BackupFields
<1>10. Get(again, "schedule_time") = p.schedule_time => r.schedule_time = p.schedule_time
  <2> SUFFICES ASSUME Get(again, "schedule_time") = p.schedule_time PROVE r.schedule_time = p.schedule_time
    OBVIOUS
  <2>1. CleanStr(again, "schedule_time", Text("02:00")) = p.schedule_time
    BY <1>3, <1>5, TextKept
  <2>2. OneOf(p.schedule_time, Times) = p.schedule_time
    BY <1>3 DEF OneOf
  <2> QED BY <1>2, <2>1, <2>2 DEF TimeFields
<1>11. /\ Get(again, "name") = p.name => r.name = p.name
       /\ Get(again, "destination") = p.destination => r.destination = p.destination
  <2>1. p.name # Bad /\ p.destination # Bad
    BY <1>3 DEF PayloadKeys, OwnKeys, BackupKeys
  <2>2. p.name = CleanStr(data, "name", Null) /\ p.destination = CleanStr(data, "destination", Null)
    BY <1>1 DEF BackupFields, TimeFields
  <2>3. r.name = CleanStr(again, "name", Null) /\ r.destination = CleanStr(again, "destination", Null)
    BY <1>2 DEF BackupFields, TimeFields
  <2> QED BY <2>1, <2>2, <2>3, CleanKept
<1>12. /\ Get(again, "encryption") = p.encryption => r.encryption = p.encryption
       /\ Get(again, "verify") = p.verify => r.verify = p.verify
       /\ Get(again, "enabled") = p.enabled => r.enabled = p.enabled
  <2>0. Bool(TRUE) \in Truths /\ Bool(FALSE) \in Truths
    BY DEF Truths
  <2>1. p.encryption # Bad /\ p.verify # Bad /\ p.enabled # Bad
    BY <1>3 DEF PayloadKeys, OwnKeys, BackupKeys
  <2>2. /\ p.encryption = CleanBool(data, "encryption", Bool(FALSE))
        /\ p.verify = CleanBool(data, "verify", Bool(TRUE))
        /\ p.enabled = CleanBool(data, "enabled", Bool(TRUE))
    BY <1>1 DEF BackupFields, TimeFields
  <2>3. /\ r.encryption = CleanBool(again, "encryption", Bool(FALSE))
        /\ r.verify = CleanBool(again, "verify", Bool(TRUE))
        /\ r.enabled = CleanBool(again, "enabled", Bool(TRUE))
    BY <1>2 DEF BackupFields, TimeFields
  <2>4. ASSUME Get(again, "encryption") = p.encryption PROVE r.encryption = p.encryption
    <3> DEFINE d == Bool(FALSE)
    <3>1. /\ d \in Truths /\ JSONValue(Get(data, "encryption"))
          /\ CleanBool(data, "encryption", d) # Bad /\ Get(again, "encryption") = CleanBool(data, "encryption", d)
      BY <1>4, <2>0, <2>1, <2>2, <2>4
    <3>2. p.encryption = CleanBool(data, "encryption", d) /\ r.encryption = CleanBool(again, "encryption", d)
      BY <2>2, <2>3
    <3> HIDE DEF d
    <3>3. CleanBool(again, "encryption", d) = CleanBool(data, "encryption", d)
      BY <3>1, BoolKept
    <3> QED BY <3>2, <3>3
  <2>5. ASSUME Get(again, "verify") = p.verify PROVE r.verify = p.verify
    <3> DEFINE d == Bool(TRUE)
    <3>1. /\ d \in Truths /\ JSONValue(Get(data, "verify"))
          /\ CleanBool(data, "verify", d) # Bad /\ Get(again, "verify") = CleanBool(data, "verify", d)
      BY <1>4, <2>0, <2>1, <2>2, <2>5
    <3>2. p.verify = CleanBool(data, "verify", d) /\ r.verify = CleanBool(again, "verify", d)
      BY <2>2, <2>3
    <3> HIDE DEF d
    <3>3. CleanBool(again, "verify", d) = CleanBool(data, "verify", d)
      BY <3>1, BoolKept
    <3> QED BY <3>2, <3>3
  <2>6. ASSUME Get(again, "enabled") = p.enabled PROVE r.enabled = p.enabled
    <3> DEFINE d == Bool(TRUE)
    <3>1. /\ d \in Truths /\ JSONValue(Get(data, "enabled"))
          /\ CleanBool(data, "enabled", d) # Bad /\ Get(again, "enabled") = CleanBool(data, "enabled", d)
      BY <1>4, <2>0, <2>1, <2>2, <2>6
    <3>2. p.enabled = CleanBool(data, "enabled", d) /\ r.enabled = CleanBool(again, "enabled", d)
      BY <2>2, <2>3
    <3> HIDE DEF d
    <3>3. CleanBool(again, "enabled", d) = CleanBool(data, "enabled", d)
      BY <3>1, BoolKept
    <3> QED BY <3>2, <3>3
  <2> QED BY <2>4, <2>5, <2>6
<1>13. /\ Get(again, "day_of_week") = p.day_of_week => r.day_of_week = p.day_of_week
       /\ Get(again, "day_of_month") = p.day_of_month => r.day_of_month = p.day_of_month
       /\ Get(again, "retention_days") = p.retention_days => r.retention_days = p.retention_days
       /\ Get(again, "keep_daily") = p.keep_daily => r.keep_daily = p.keep_daily
       /\ Get(again, "keep_weekly") = p.keep_weekly => r.keep_weekly = p.keep_weekly
       /\ Get(again, "keep_monthly") = p.keep_monthly => r.keep_monthly = p.keep_monthly
       /\ Get(again, "connection_id") = p.connection_id => r.connection_id = p.connection_id
  <2>1. /\ p.day_of_week # Bad /\ p.day_of_month # Bad /\ p.retention_days # Bad /\ p.keep_daily # Bad
        /\ p.keep_weekly # Bad /\ p.keep_monthly # Bad /\ p.connection_id # Bad
    BY <1>3 DEF PayloadKeys, OwnKeys, BackupKeys
  <2>2. 0 \in 0 .. 6 /\ 1 \in 1 .. 28 /\ 30 \in 0 .. 3650 /\ 0 \in 0 .. 365 /\ 0 \in 0 .. 520 /\ 0 \in 0 .. 120
    OBVIOUS
  <2>3. Get(again, "day_of_week") = p.day_of_week => r.day_of_week = p.day_of_week
    BY <1>1, <1>2, <2>1, <2>2, IntKept DEF NumberFields
  <2>4. Get(again, "day_of_month") = p.day_of_month => r.day_of_month = p.day_of_month
    BY <1>1, <1>2, <2>1, <2>2, IntKept DEF NumberFields
  <2>5. Get(again, "retention_days") = p.retention_days => r.retention_days = p.retention_days
    BY <1>1, <1>2, <2>1, <2>2, IntKept DEF NumberFields
  <2>6. Get(again, "keep_daily") = p.keep_daily => r.keep_daily = p.keep_daily
    BY <1>1, <1>2, <2>1, <2>2, IntKept DEF NumberFields
  <2>7. Get(again, "keep_weekly") = p.keep_weekly => r.keep_weekly = p.keep_weekly
    BY <1>1, <1>2, <2>1, <2>2, IntKept DEF NumberFields
  <2>8. Get(again, "keep_monthly") = p.keep_monthly => r.keep_monthly = p.keep_monthly
    BY <1>1, <1>2, <2>1, <2>2, IntKept DEF NumberFields
  <2>9. Get(again, "connection_id") = p.connection_id => r.connection_id = p.connection_id
    BY <1>1, <1>2, <2>1, IntKept DEF BackupFields
  <2> QED BY <2>3, <2>4, <2>5, <2>6, <2>7, <2>8, <2>9
<1>14. \A key \in PayloadKeys \ {"cron_expression", "tables"} : Get(again, key) = p[key] => r[key] = p[key]
  BY <1>7, <1>8, <1>9, <1>10, <1>11, <1>12, <1>13 DEF PayloadKeys, OwnKeys, BackupKeys
<1>15. ASSUME Get(again, "cron_expression") = p.cron_expression
       PROVE  /\ r.cron_expression \in {Bad, Null, p.cron_expression}
              /\ r.frequency = p.frequency => r.cron_expression = p.cron_expression
  <2>1. CleanStr(again, "cron_expression", Null) = p.cron_expression
    <3>1. CASE p.frequency = Text("custom")
      BY <1>3, <1>5, <1>15, <3>1, TextKept
    <3>2. CASE p.frequency # Text("custom")
      <4>1. Get(again, "cron_expression") = Null /\ p.cron_expression = Null
        BY <1>3, <1>15, <3>2
      <4>2. Null # TooLong /\ Null[1] = "null"
        BY KindsApart
      <4> QED BY <4>1, <4>2 DEF CleanStr
    <3> QED BY <3>1, <3>2
  <2>2. r.cron_expression = CronFor(r.frequency, p.cron_expression)
    BY <1>2, <2>1 DEF TimeFields
  <2>3. p.cron_expression # Bad
    BY <1>3 DEF PayloadKeys, OwnKeys
  <2> QED BY <1>3, <2>2, <2>3 DEF CronFor
<1>16. ASSUME Get(again, "tables") = p.tables
       PROVE  /\ r.tables \in {Bad, List(<<>>), p.tables}
              /\ r.backup_type = p.backup_type => r.tables = p.tables
  <2>1. r.tables = TablesFor(r.backup_type, p.tables)
    BY <1>2, <1>3, <1>16 DEF BackupFields, Tables
  <2> QED BY <1>3, <2>1
<1> QED BY <1>14, <1>15, <1>16 DEF p, r

\* A payload that was accepted is accepted as it is: cleaning is idempotent.
LEMMA PayloadKept ==
    ASSUME NEW data, JSONData(data), Accepted(SchedulePayload(data))
    PROVE  SchedulePayload(SchedulePayload(data)) = SchedulePayload(data)
<1> DEFINE p == SchedulePayload(data)
           r == SchedulePayload(p)
<1>1. DOMAIN p = PayloadKeys /\ DOMAIN r = PayloadKeys
  BY PayloadFields
<1>2. \A key \in PayloadKeys : Get(p, key) = p[key]
  BY <1>1 DEF Get
<1>3. /\ \A key \in PayloadKeys \ {"cron_expression", "tables"} : Get(p, key) = p[key] => r[key] = p[key]
      /\ Get(p, "cron_expression") = p.cron_expression =>
                 /\ r.cron_expression \in {Bad, Null, p.cron_expression}
                 /\ r.frequency = p.frequency => r.cron_expression = p.cron_expression
      /\ Get(p, "tables") = p.tables =>
                 /\ r.tables \in {Bad, List(<<>>), p.tables}
                 /\ r.backup_type = p.backup_type => r.tables = p.tables
  BY FieldKept
<1>4. p = [key \in DOMAIN p |-> p[key]] /\ r = [key \in DOMAIN r |-> r[key]]
  <2>1. \A d : \E a, b : SchedulePayload(d) = Over(a, b)
    BY DEF SchedulePayload
  <2>2. \A a, b : Over(a, b) = [key \in DOMAIN Over(a, b) |-> Over(a, b)[key]]
    BY DEF Over
  <2> QED BY <2>1, <2>2
<1> HIDE DEF p, r
<1>5. r.frequency = p.frequency /\ r.backup_type = p.backup_type
  BY <1>2, <1>3 DEF PayloadKeys, OwnKeys, BackupKeys
<1>6. r.cron_expression = p.cron_expression /\ r.tables = p.tables
  BY <1>2, <1>3, <1>5 DEF PayloadKeys, OwnKeys, BackupKeys
<1>7. \A key \in PayloadKeys : r[key] = p[key]
  BY <1>2, <1>3, <1>6
<1>8. r = p
  BY <1>1, <1>4, <1>7
<1> QED BY <1>8 DEF p, r

\* What the table keeps of a payload: read back, it is the payload again.
LEMMA EncodedKept ==
    ASSUME NEW p, DOMAIN p = PayloadKeys, p = [key \in DOMAIN p |-> p[key]],
           \A key \in Flags : p[key] \in {Bool(TRUE), Bool(FALSE)},
           Tables(p.tables)
    PROVE  /\ DOMAIN Encode(p) = PayloadKeys
           /\ ToDict(Encode(p)) = p
           /\ \A key \in PayloadKeys \ (Flags \cup {"tables"}) : Encode(p)[key] = p[key]
           /\ Encode(p).tables = <<"json", p.tables[2]>>
<1> DEFINE s == Encode(p)
<1>1. DOMAIN s = PayloadKeys
  BY DEF Encode
<1>2. s.tables = <<"json", p.tables[2]>>
  BY DEF Encode, PayloadKeys, BackupKeys, Flags
<1>3. \A key \in Flags : s[key] = Num(IF p[key][2] THEN 1 ELSE 0)
  BY DEF Encode, Flags, PayloadKeys, OwnKeys, BackupKeys
<1>4. \A key \in PayloadKeys \ (Flags \cup {"tables"}) : s[key] = p[key]
  BY DEF Encode
<1> HIDE DEF s
<1>5. ToDict(s).tables = p.tables
  <2>1. PICK q \in Seq(STRING) : p.tables = List(q)
    BY DEF Tables
  <2>2. p.tables[2] = q
    BY <2>1, KindsApart
  <2>3. ToDict(s).tables = List(s.tables[2])
    BY <1>1 DEF ToDict, TableList, PayloadKeys, BackupKeys, Flags
  <2> QED BY <1>2, <2>1, <2>2, <2>3
<1>6. \A key \in Flags : ToDict(s)[key] = p[key]
  <2> SUFFICES ASSUME NEW key \in Flags PROVE ToDict(s)[key] = p[key]
    OBVIOUS
  <2>1. ToDict(s)[key] = Bool(s[key] = Num(1))
    BY <1>1 DEF ToDict, Flags, PayloadKeys, OwnKeys, BackupKeys
  <2>2. Bool(TRUE)[2] = TRUE /\ Bool(FALSE)[2] = FALSE /\ Num(0) # Num(1)
    BY DEF Bool, Num
  <2>3. CASE p[key] = Bool(TRUE)
    <3>1. s[key] = Num(1)
      BY <1>3, <2>2, <2>3
    <3> QED BY <2>1, <2>3, <3>1
  <2>4. CASE p[key] = Bool(FALSE)
    <3>1. s[key] = Num(0)
      BY <1>3, <2>2, <2>4
    <3>2. (s[key] = Num(1)) = FALSE
      BY <2>2, <3>1
    <3> QED BY <2>1, <2>4, <3>2
  <2> QED BY <2>3, <2>4
<1>7. \A key \in PayloadKeys \ (Flags \cup {"tables"}) : ToDict(s)[key] = p[key]
  BY <1>1, <1>4 DEF ToDict
<1>8. \A key \in PayloadKeys : ToDict(s)[key] = p[key]
  BY <1>5, <1>6, <1>7
<1>9. ToDict(s) = [key \in PayloadKeys |-> ToDict(s)[key]]
  BY <1>1 DEF ToDict
<1>10. ToDict(s) = p
  BY <1>8, <1>9
<1> QED BY <1>1, <1>2, <1>4, <1>10 DEF s

\* A payload that was accepted, once it is stored.
LEMMA StoredIsKept ==
    ASSUME NEW data, JSONData(data), Accepted(SchedulePayload(data))
    PROVE  LET p == SchedulePayload(data) IN
           /\ DOMAIN Encode(p) = PayloadKeys
           /\ ToDict(Encode(p)) = p
           /\ Trigger(Encode(p)) # None
<1> DEFINE p == SchedulePayload(data)
           s == Encode(p)
<1>1. /\ \A key \in Flags : p[key] \in {Bool(TRUE), Bool(FALSE)}
      /\ Tables(p.tables)
      /\ p.frequency \in Texts(Frequencies)
      /\ p.frequency = Text("custom") => p.cron_expression \in Texts(Crons)
  BY AcceptedPayload
<1>2. DOMAIN p = PayloadKeys
  BY PayloadFields
<1>3. p = [key \in DOMAIN p |-> p[key]]
  <2>1. \E a, b : SchedulePayload(data) = Over(a, b)
    BY DEF SchedulePayload
  <2>2. \A a, b : Over(a, b) = [key \in DOMAIN Over(a, b) |-> Over(a, b)[key]]
    BY DEF Over
  <2> QED BY <2>1, <2>2
<1> HIDE DEF p
<1>4. /\ DOMAIN s = PayloadKeys
      /\ ToDict(s) = p
      /\ \A key \in PayloadKeys \ (Flags \cup {"tables"}) : s[key] = p[key]
  BY <1>1, <1>2, <1>3, EncodedKept
<1>5. s.frequency = p.frequency /\ s.cron_expression = p.cron_expression
  BY <1>4 DEF PayloadKeys, OwnKeys, Flags
<1> HIDE DEF s
<1>6. Trigger(s) # None
  <2>1. PICK f \in Frequencies : s.frequency = Text(f)
    BY <1>1, <1>5 DEF Texts
  <2>2. s.frequency[2] = f
    BY <2>1, KindsApart
  <2>3. f = "custom" => s.cron_expression # Null
    BY <1>1, <1>5, <2>1, KindsApart DEF Texts
  <2>4. "minute" \in DOMAIN Trigger(s) \/ "crontab" \in DOMAIN Trigger(s)
    BY <2>2, <2>3 DEF Trigger, Frequencies
  <2>5. DOMAIN None = {}
    BY DEF None
  <2> QED BY <2>4, <2>5
<1> QED BY <1>4, <1>6 DEF p, s

\* Every stored row is what the API keeps of some accepted body.
StoredRow(s) == \E data : JSONData(data) /\ Accepted(SchedulePayload(data)) /\ s = Encode(SchedulePayload(data))
RowIsStored == row # None => StoredRow(row)

\* What update_schedule validates is made of the row and of the body.
LEMMA MergedIsJSON ==
    ASSUME NEW s, StoredRow(s), NEW body \in ScheduleBodies
    PROVE  JSONData(MergedBody(s, body))
<1>1. PICK data : JSONData(data) /\ Accepted(SchedulePayload(data)) /\ s = Encode(SchedulePayload(data))
  BY DEF StoredRow
<1> DEFINE p == SchedulePayload(data)
<1>2. ToDict(s) = p /\ DOMAIN p = PayloadKeys /\ \A key \in PayloadKeys : JSONValue(p[key])
  BY <1>1, StoredIsKept, PayloadFields, AcceptedPayload
<1> HIDE DEF p
<1>3. \A key \in DOMAIN body : JSONValue(body[key])
  BY BodiesAssumption
<1>4. \A key \in PayloadKeys : Get(MergedBody(s, body), key) \in {p[key]} \cup {body[k] : k \in DOMAIN body}
  BY <1>2 DEF MergedBody, Over, Get
<1> QED BY <1>2, <1>3, <1>4 DEF JSONData

\* RowIsStored is inductive.
LEMMA RowStoredInit == RowInit => RowIsStored
BY DEF RowInit, RowIsStored

LEMMA RowStoredNext == RowIsStored /\ [RowNext]_row => RowIsStored'
<1> SUFFICES ASSUME RowIsStored, [RowNext]_row, row' # row PROVE StoredRow(row')
  BY DEF RowIsStored
<1>1. PICK body \in ScheduleBodies : CreateSchedule(body) \/ UpdateSchedule(body)
  BY DEF RowNext
<1>2. JSONValue(Null)
  BY KindsApart DEF JSONValue
<1>3. JSONData(body)
  BY <1>2, BodiesAssumption DEF JSONData, Get
<1>4. ASSUME NEW data, JSONData(data), row' = Stored(data, row) PROVE StoredRow(row')
  BY <1>4 DEF Stored, StoredRow
<1>5. CASE CreateSchedule(body)
  BY <1>3, <1>4, <1>5 DEF CreateSchedule
<1>6. CASE UpdateSchedule(body)
  <2>1. JSONData(MergedBody(row, body))
    BY <1>6, MergedIsJSON DEF UpdateSchedule, RowIsStored
  <2> QED BY <1>4, <1>6, <2>1 DEF UpdateSchedule, AfterPut
<1> QED BY <1>1, <1>5, <1>6

LEMMA RowsStored == RowSpec => []RowIsStored
BY RowStoredInit, RowStoredNext, PTL DEF RowSpec

\* What it says of a row.
LEMMA StoredIsFixpoint == RowIsStored => RowsAreFixpoints
<1> SUFFICES ASSUME row # None, StoredRow(row)
             PROVE  LET payload == SchedulePayload(ToDict(row))
                    IN Accepted(payload) /\ Encode(payload) = row /\ Trigger(row) # None
  BY DEF RowIsStored, RowsAreFixpoints
<1>1. PICK data : JSONData(data) /\ Accepted(SchedulePayload(data)) /\ row = Encode(SchedulePayload(data))
  BY DEF StoredRow
<1> QED BY <1>1, StoredIsKept, PayloadKept

LEMMA StoredIsTouchedAsNamed == RowIsStored => PutTouchesOnlyItsFields
<1> SUFFICES ASSUME row # None, StoredRow(row), NEW body \in ScheduleBodies, AfterPut(body) # row,
                    NEW key \in DOMAIN row \ DOMAIN body
             PROVE  \/ AfterPut(body)[key] = row[key]
                    \/ key = "cron_expression" /\ "frequency" \in DOMAIN body /\ AfterPut(body)[key] = Null
                    \/ key = "tables" /\ "backup_type" \in DOMAIN body /\ AfterPut(body)[key] = <<"json", <<>>>>
  BY DEF RowIsStored, PutTouchesOnlyItsFields
<1>1. PICK data : JSONData(data) /\ Accepted(SchedulePayload(data)) /\ row = Encode(SchedulePayload(data))
  BY DEF StoredRow
<1> DEFINE p == SchedulePayload(data)
           merged == MergedBody(row, body)
           r == SchedulePayload(merged)
<1>2. ToDict(row) = p /\ DOMAIN row = PayloadKeys /\ DOMAIN p = PayloadKeys
  BY <1>1, StoredIsKept, PayloadFields
<1>3. Accepted(r) /\ AfterPut(body) = Encode(r)
  BY DEF AfterPut, Stored
<1>4. JSONData(merged)
  BY MergedIsJSON
<1>5. \A k \in PayloadKeys \ DOMAIN body : Get(merged, k) = p[k]
  <2> HIDE DEF p
  <2> QED BY <1>2 DEF MergedBody, Over, Get
<1>6. /\ \A k \in PayloadKeys \ {"cron_expression", "tables"} : Get(merged, k) = p[k] => r[k] = p[k]
      /\ Get(merged, "cron_expression") = p.cron_expression =>
             /\ r.cron_expression \in {Bad, Null, p.cron_expression}
             /\ r.frequency = p.frequency => r.cron_expression = p.cron_expression
      /\ Get(merged, "tables") = p.tables =>
             /\ r.tables \in {Bad, List(<<>>), p.tables}
             /\ r.backup_type = p.backup_type => r.tables = p.tables
  BY <1>1, FieldKept
<1>7. DOMAIN r = PayloadKeys /\ \A k \in PayloadKeys : r[k] # Bad
  BY <1>3, PayloadFields DEF Accepted
<1>8. /\ \A k \in PayloadKeys : Encode(p)[k] = CASE k = "tables" -> <<"json", p[k][2]>>
                                                  [] k \in Flags -> Num(IF p[k][2] THEN 1 ELSE 0)
                                                  [] OTHER -> p[k]
      /\ \A k \in PayloadKeys : Encode(r)[k] = CASE k = "tables" -> <<"json", r[k][2]>>
                                                  [] k \in Flags -> Num(IF r[k][2] THEN 1 ELSE 0)
                                                  [] OTHER -> r[k]
  <2> HIDE DEF p, r
  <2> QED BY <1>2, <1>7 DEF Encode
<1> HIDE DEF p, r, merged
<1>9. row = Encode(p)
  BY <1>1 DEF p
<1>10. \A k \in PayloadKeys : r[k] = p[k] => AfterPut(body)[k] = row[k]
  BY <1>3, <1>8, <1>9
<1>11. CASE key \notin {"cron_expression", "tables"}
  BY <1>2, <1>5, <1>6, <1>10, <1>11
<1>12. CASE key = "cron_expression"
  <2>1. r.cron_expression \in {Null, p.cron_expression}
    BY <1>2, <1>5, <1>6, <1>7, <1>12
  <2>2. "frequency" \notin DOMAIN body => r.cron_expression = p.cron_expression
    BY <1>2, <1>5, <1>6, <1>12 DEF PayloadKeys, OwnKeys
  <2>3. AfterPut(body).cron_expression = r.cron_expression
    BY <1>2, <1>3, <1>8, <1>12 DEF Flags
  <2> QED BY <1>2, <1>10, <1>12, <2>1, <2>2, <2>3
<1>13. CASE key = "tables"
  <2>1. r.tables \in {List(<<>>), p.tables}
    BY <1>2, <1>5, <1>6, <1>7, <1>13
  <2>2. "backup_type" \notin DOMAIN body => r.tables = p.tables
    BY <1>2, <1>5, <1>6, <1>13 DEF PayloadKeys, BackupKeys
  <2>3. AfterPut(body).tables = <<"json", r.tables[2]>>
    BY <1>2, <1>3, <1>8, <1>13 DEF Flags
  <2>4. List(<<>>)[2] = <<>>
    BY KindsApart
  <2> QED BY <1>2, <1>10, <1>13, <2>1, <2>2, <2>3, <2>4
<1> QED BY <1>11, <1>12, <1>13

\* RowSpec => []RowsAreFixpoints: whatever requests come, in whatever order, the row of
\* a schedule is one that the API takes back unchanged and that has a trigger
\* (schedule_routes.py, validation.py, scheduler_service.build_trigger).
THEOREM RowsStayAcceptable == RowSpec => []RowsAreFixpoints
BY RowsStored, StoredIsFixpoint, PTL

\* RowSpec => []PutTouchesOnlyItsFields: a PUT merges the row and the body and
\* validates all of it again; what the body does not name stays, but for the cron
\* expression and the tables that the new kind has no use for (update_schedule).
THEOREM PutsKeepTheRest == RowSpec => []PutTouchesOnlyItsFields
BY RowsStored, StoredIsTouchedAsNamed, PTL
=============================================================================
